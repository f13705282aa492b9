----------------------------- MODULE ProcessRun ------------------------------
(***************************************************************************)
(* One call of CompilerService.run (Cppify/Services/CompilerService.swift).*)
(* The main actor launches a child process, feeds its input and arms a     *)
(* timer; readability handlers collect the output on background queues;    *)
(* a termination handler and the timer race to resume the caller.          *)
(*                                                                         *)
(* A pipe is a bounded queue of units of data.  The child is any program:  *)
(* it may read or not, write, stop at any moment or never, ignore SIGTERM. *)
(***************************************************************************)
EXTENDS Naturals, Sequences

CONSTANTS
  Channels,    \* stdout and stderr
  Inputs,      \* how much input a call may come with
  Quotas,      \* how much a child may write on a channel
  InRoom,      \* capacity of the input pipe
  OutRoom,     \* capacity of an output pipe
  ReadLimit    \* the most one availableData returns

ASSUME RoomAssumption == InRoom \in Nat \ {0} /\ OutRoom \in Nat \ {0} /\ ReadLimit \in Nat \ {0}
ASSUME InputAssumption == Inputs \subseteq Nat /\ Quotas \subseteq Nat

VARIABLES
  pc,        \* where the main actor, the termination handler, the timer and the killer are
  claimed,   \* ResumeGuard.done
  answers,   \* what the continuation was resumed with, in order
  child,     \* "none", "running" or "exited"
  input,     \* units the main actor has still to write
  inPipe,    \* units in the input pipe
  quota,     \* what the child may still write
  emitted,   \* units the child has written on each channel
  pipe,      \* contents of the output pipes
  hooked,    \* are the readability handlers installed
  handler,   \* per channel: "idle", "called" or "holding"
  held,      \* per channel: what its handler has read and not yet appended
  endHeld,   \* what the termination handler has read and not yet appended
  box,       \* OutputBox
  raced      \* history: was a handler at work, or did one read leave data behind, at the end

callVars == <<pc, claimed, answers>>
childVars == <<child, input, inPipe, quota, emitted>>
dataVars == <<pipe, hooked, handler, held, endHeld, box, raced>>
vars == <<callVars, childVars, dataVars>>

Actors == {"main", "ender", "timer", "killer"}

Resumed(kind) == [kind |-> kind, output |-> IF kind = "output" THEN box ELSE [ch \in Channels |-> <<>>]]

TypeOK ==
  /\ pc \in [Actors -> {"launch", "write", "close", "arm", "await", "down", "idle", "armed", "terminate",
                        "drain", "append", "claim", "resume", "end"}]
  /\ claimed \in BOOLEAN
  /\ child \in {"none", "running", "exited"}
  /\ input \in Nat /\ inPipe \in 0 .. InRoom
  /\ quota \in [Channels -> Nat] /\ emitted \in [Channels -> Nat]
  /\ handler \in [Channels -> {"idle", "called", "holding"}]
  /\ hooked \in BOOLEAN /\ raced \in BOOLEAN
  /\ {pipe, held, endHeld, box} \subseteq [Channels -> Seq(Nat)]
  /\ \A ch \in Channels : Len(pipe[ch]) <= OutRoom

Empty == [ch \in Channels |-> <<>>]

Init ==
  /\ pc = [a \in Actors |-> IF a = "main" THEN "launch" ELSE "idle"]
  /\ claimed = FALSE
  /\ answers = <<>>
  /\ child = "none"
  /\ input \in Inputs
  /\ inPipe = 0
  /\ quota \in [Channels -> Quotas]
  /\ emitted = [ch \in Channels |-> 0]
  /\ pipe = Empty /\ held = Empty /\ endHeld = Empty /\ box = Empty
  /\ hooked = TRUE
  /\ handler = [ch \in Channels |-> "idle"]
  /\ raced = FALSE

(* The application is up: nothing of it runs once it is not.                *)
Up == pc["main"] # "down"

Goes(actor, from, to) == Up /\ pc[actor] = from /\ pc' = [pc EXCEPT ![actor] = to]

-----------------------------------------------------------------------------
(* The main actor.                                                          *)

Launch ==
  /\ Goes("main", "launch", IF input > 0 THEN "write" ELSE "close")
  /\ child' = "running"
  /\ UNCHANGED <<claimed, answers, input, inPipe, quota, emitted, dataVars>>

LaunchFails ==
  /\ Goes("main", "launch", "claim")
  /\ UNCHANGED <<claimed, answers, childVars, dataVars>>

(* FileHandle.write: it blocks while the pipe is full.                      *)
WriteInput ==
  /\ pc["main"] = "write" /\ child = "running" /\ inPipe < InRoom
  /\ input' = input - 1
  /\ inPipe' = inPipe + 1
  /\ pc' = [pc EXCEPT !["main"] = IF input = 1 THEN "close" ELSE "write"]
  /\ UNCHANGED <<claimed, answers, child, quota, emitted, dataVars>>

(* Nobody is left to read: the write raises, which nothing here catches.    *)
WriteRaises ==
  /\ Goes("main", "write", "down")
  /\ child = "exited"
  /\ UNCHANGED <<claimed, answers, childVars, dataVars>>

CloseInput ==
  /\ Goes("main", "close", "arm")
  /\ UNCHANGED <<claimed, answers, childVars, dataVars>>

ArmTimer ==
  /\ pc["main"] = "arm"
  /\ pc' = [pc EXCEPT !["main"] = "await", !["timer"] = "armed"]
  /\ UNCHANGED <<claimed, answers, childVars, dataVars>>

-----------------------------------------------------------------------------
(* The child.                                                               *)

ChildReads ==
  /\ child = "running" /\ inPipe > 0
  /\ inPipe' = inPipe - 1
  /\ UNCHANGED <<callVars, child, input, quota, emitted, dataVars>>

ChildWrites(ch) ==
  /\ child = "running" /\ quota[ch] > 0 /\ Len(pipe[ch]) < OutRoom
  /\ quota' = [quota EXCEPT ![ch] = @ - 1]
  /\ emitted' = [emitted EXCEPT ![ch] = @ + 1]
  /\ pipe' = [pipe EXCEPT ![ch] = Append(@, emitted[ch] + 1)]
  /\ UNCHANGED <<callVars, child, input, inPipe, hooked, handler, held, endHeld, box, raced>>

ChildExits ==
  /\ child = "running"
  /\ child' = "exited"
  /\ UNCHANGED <<callVars, input, inPipe, quota, emitted, dataVars>>

-----------------------------------------------------------------------------
(* A readability handler: called while it is installed and there is data,   *)
(* it reads, then appends what it read under the box's lock.                *)

(* availableData: what the pipe holds, as far as one read goes.             *)
Taken(s) == SubSeq(s, 1, IF Len(s) < ReadLimit THEN Len(s) ELSE ReadLimit)
Left(s) == SubSeq(s, ReadLimit + 1, Len(s))

\* Mutant of HandlerCalled: only stdout has a handler.
CalledForOutOnly(ch) ==
  /\ ch = "out"
  /\ hooked /\ handler[ch] = "idle" /\ pipe[ch] # <<>>
  /\ handler' = [handler EXCEPT ![ch] = "called"]
  /\ UNCHANGED <<callVars, childVars, pipe, hooked, held, endHeld, box, raced>>

HandlerCalled(ch) ==
  /\ hooked /\ handler[ch] = "idle" /\ pipe[ch] # <<>>
  /\ handler' = [handler EXCEPT ![ch] = "called"]
  /\ UNCHANGED <<callVars, childVars, pipe, hooked, held, endHeld, box, raced>>

HandlerReads(ch) ==
  /\ handler[ch] = "called"
  /\ held' = [held EXCEPT ![ch] = Taken(pipe[ch])]
  /\ pipe' = [pipe EXCEPT ![ch] = Left(@)]
  /\ handler' = [handler EXCEPT ![ch] = "holding"]
  /\ UNCHANGED <<callVars, childVars, hooked, endHeld, box, raced>>

HandlerAppends(ch) ==
  /\ handler[ch] = "holding"
  /\ box' = [box EXCEPT ![ch] = @ \o held[ch]]
  /\ held' = [held EXCEPT ![ch] = <<>>]
  /\ handler' = [handler EXCEPT ![ch] = "idle"]
  /\ UNCHANGED <<callVars, childVars, pipe, hooked, endHeld, raced>>

HandlerSteps(ch) == Up /\ (HandlerCalled(ch) \/ HandlerReads(ch) \/ HandlerAppends(ch))

-----------------------------------------------------------------------------
(* The termination handler: remove the handlers, read each pipe once more,  *)
(* then claim the continuation.                                             *)

EnderUnhooks ==
  /\ child = "exited"
  /\ Goes("ender", "idle", "drain")
  /\ hooked' = FALSE
  /\ raced' = (\E ch \in Channels : handler[ch] # "idle")
  /\ UNCHANGED <<claimed, answers, childVars, pipe, handler, held, endHeld, box>>

\* Mutant of EnderDrains: the pipes are not read again.
EnderSkipsDrain ==
  /\ Goes("ender", "drain", "append")
  /\ UNCHANGED <<claimed, answers, childVars, dataVars>>

EnderDrains ==
  /\ Goes("ender", "drain", "append")
  /\ endHeld' = [ch \in Channels |-> Taken(pipe[ch])]
  /\ pipe' = [ch \in Channels |-> Left(pipe[ch])]
  /\ raced' = (raced \/ pipe' # Empty)
  /\ UNCHANGED <<claimed, answers, childVars, hooked, handler, held, box>>

EnderAppends ==
  /\ Goes("ender", "append", "claim")
  /\ box' = [ch \in Channels |-> box[ch] \o endHeld[ch]]
  /\ endHeld' = Empty
  /\ UNCHANGED <<claimed, answers, childVars, pipe, hooked, handler, held, raced>>

-----------------------------------------------------------------------------
(* The timer, and the killer it leaves behind.                              *)

TimerFires ==
  /\ Goes("timer", "armed", IF child = "running" THEN "terminate" ELSE "end")
  /\ UNCHANGED <<claimed, answers, childVars, dataVars>>

(* SIGTERM, which the child may ignore, and one more second to go.          *)
TimerTerminates ==
  /\ Up /\ pc["timer"] = "terminate"
  /\ pc' = [pc EXCEPT !["timer"] = "claim", !["killer"] = "armed"]
  /\ \/ UNCHANGED child
     \/ child' = "exited"
  /\ UNCHANGED <<claimed, answers, input, inPipe, quota, emitted, dataVars>>

\* Mutant of KillerFires: no SIGKILL after the SIGTERM.
KillerSpares ==
  /\ Goes("killer", "armed", "end")
  /\ UNCHANGED <<claimed, answers, childVars, dataVars>>

KillerFires ==
  /\ Goes("killer", "armed", "end")
  /\ child' = "exited"
  /\ UNCHANGED <<claimed, answers, input, inPipe, quota, emitted, dataVars>>

-----------------------------------------------------------------------------
(* Whoever wants to resume the caller claims the guard first.               *)

\* Mutants of Claim.
ClaimAlways(actor) ==   \* the guard is not asked
  /\ Goes(actor, "claim", "resume")
  /\ claimed' = TRUE
  /\ UNCHANGED <<answers, childVars, dataVars>>

ClaimLeftToEnder(actor) ==   \* only the termination handler may resume
  /\ Goes(actor, "claim", IF actor # "ender" \/ claimed THEN "end" ELSE "resume")
  /\ claimed' = (claimed \/ actor = "ender")
  /\ UNCHANGED <<answers, childVars, dataVars>>

Claim(actor) ==
  /\ Goes(actor, "claim", IF claimed THEN "end" ELSE "resume")
  /\ claimed' = TRUE
  /\ UNCHANGED <<answers, childVars, dataVars>>

KindOf(actor) == CASE actor = "ender" -> "output" [] actor = "timer" -> "timedOut" [] OTHER -> "launchError"

Resume(actor) ==
  /\ Goes(actor, "resume", "end")
  /\ answers' = Append(answers, Resumed(KindOf(actor)))
  /\ UNCHANGED <<claimed, childVars, dataVars>>

-----------------------------------------------------------------------------
MainSteps == Launch \/ LaunchFails \/ WriteInput \/ WriteRaises \/ CloseInput \/ ArmTimer
ChildSteps == ChildReads \/ ChildExits \/ \E ch \in Channels : ChildWrites(ch)
EnderSteps == EnderUnhooks \/ EnderDrains \/ EnderAppends
TimerSteps == TimerFires \/ TimerTerminates
Answering == \E actor \in Actors : Claim(actor) \/ Resume(actor)

Next ==
  \/ MainSteps
  \/ ChildSteps
  \/ \E ch \in Channels : HandlerSteps(ch)
  \/ EnderSteps
  \/ TimerSteps
  \/ KillerFires
  \/ Answering

(* The queues run what is put on them and the clock runs out.  Nothing is   *)
(* assumed of the child.                                                    *)
Fairness ==
  /\ WF_vars(MainSteps)
  /\ \A ch \in Channels : WF_vars(HandlerSteps(ch))
  /\ WF_vars(EnderSteps)
  /\ WF_vars(TimerSteps)
  /\ WF_vars(KillerFires)
  /\ \A actor \in Actors : WF_vars(Claim(actor) \/ Resume(actor))

Spec == Init /\ [][Next]_vars /\ Fairness

-----------------------------------------------------------------------------
(* The continuation is resumed at most once, though the termination handler *)
(* and the timer may both come to it and the error path is a third          *)
(* (ResumeGuard).                                                           *)
AnsweredOnce == Len(answers) <= 1

(* A child that waits because a pipe is full waits for something that can   *)
(* happen: a handler is about to read or to finish (the deadlock the        *)
(* comment on run() speaks of).                                             *)
FullPipeIsDrained ==
  \A ch \in Channels : child = "running" /\ Len(pipe[ch]) = OutRoom => ENABLED HandlerSteps(ch)

(* If no handler was at work when the child ended and the last reads left   *)
(* nothing behind, the answer is all the child wrote, in its order.         *)
UndisturbedOutputIsWhole ==
  \A i \in DOMAIN answers :
    answers[i].kind = "output" /\ ~raced =>
      \A ch \in Channels : answers[i].output[ch] = [u \in 1 .. emitted[ch] |-> u]

(* The answer is all the child wrote, whatever the handlers were doing.     *)
OutputIsWhole ==
  \A i \in DOMAIN answers :
    answers[i].kind = "output" =>
      \A ch \in Channels : answers[i].output[ch] = [u \in 1 .. emitted[ch] |-> u]

(* The main actor is stopped in the write of the input: the pipe is full,   *)
(* and the child neither reads nor ends.  The timer is not armed yet.       *)
WriterWaits == pc["main"] = "write" /\ child = "running" /\ inPipe = InRoom

(* The one thing asked of a child: that it does not keep the writer waiting *)
(* for ever.                                                                *)
InputIsTaken == []<>~WriterWaits

(* No process outlives its call for good, unless it stopped the writer:     *)
(* what runs on, or ignores SIGTERM, is killed.                             *)
ProcessEnds == InputIsTaken => (child = "running" ~> child = "exited")

(* The main actor, which draws the windows, gets out of the call's set-up,  *)
(* or ends with the application.                                            *)
MainActorFree == <>(pc["main"] \notin {"launch", "write", "close", "arm"})

(* The call as the application sees it.                                     *)
CallStatus == IF answers # <<>> THEN "answered" ELSE IF pc["main"] = "down" THEN "lost" ELSE "pending"
CallAnswer == IF answers = <<>> THEN "none" ELSE answers[Len(answers)].kind

Call == INSTANCE ServiceCall WITH status <- CallStatus, answer <- CallAnswer

(* The call is answered at most once and by one of the three kinds, or the  *)
(* application is lost with it; and one of them comes, unless the writer is *)
(* stopped for ever: there is no other way for a call to hang.              *)
ImplementsCall == Call!Safety /\ (InputIsTaken => Call!Progress)
=============================================================================
