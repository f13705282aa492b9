----------------------------- MODULE CppifyProofs ----------------------------
(***************************************************************************)
(* Cppify.  The compiler service: a call is answered at most once, whatever *)
(* the pipes, the child and the number of channels.  The application model: *)
(* for every number of runs the comparison shown is the newest run's,       *)
(* nothing spins once nothing is in flight, and as long as no compile was   *)
(* overtaken all that is shown is the newest run's.                         *)
(***************************************************************************)
EXTENDS ProcessRun, AppModel, SequenceTheorems, TLAPS

(* AnsweredOnce alone is not inductive: who is about to resume holds the    *)
(* claim, alone, and nobody has resumed before it.                          *)
AtMostOne == answers = <<>> \/ \E a : answers = <<a>>
NobodyResumes == \A a \in Actors : pc[a] # "resume"

OneClaimant ==
  /\ pc = [a \in Actors |-> pc[a]]
  /\ AtMostOne
  /\ ~claimed => answers = <<>> /\ NobodyResumes
  /\ answers # <<>> => NobodyResumes
  /\ \A a, b \in Actors : pc[a] = "resume" /\ pc[b] = "resume" => a = b

(* A step that neither claims nor resumes, and brings nobody to "resume".   *)
Bystander ==
  /\ UNCHANGED <<claimed, answers>>
  /\ pc' = [a \in Actors |-> pc'[a]]
  /\ \A a \in Actors : pc'[a] = "resume" => pc[a] = "resume"

(* A step of one who neither claims nor answers changes no claim.           *)
LEMMA BystanderKeeps == OneClaimant /\ Bystander => OneClaimant'
  BY DEF OneClaimant, Bystander, AtMostOne, NobodyResumes

(* Going elsewhere than to "resume" is what the other steps do.             *)
LEMMA GoesElsewhere ==
  ASSUME OneClaimant, NEW actor \in Actors, NEW from, NEW to, to # "resume",
         Goes(actor, from, to), UNCHANGED <<claimed, answers>>
  PROVE  Bystander
  BY DEF OneClaimant, Goes, Bystander

(* All steps but claims and answers are of that kind.                      *)
LEMMA OthersKeep ==
  ASSUME OneClaimant,
         \/ MainSteps \/ ChildSteps \/ \E ch \in Channels : HandlerSteps(ch)
         \/ EnderSteps \/ TimerSteps \/ KillerFires \/ UNCHANGED vars
  PROVE  Bystander
<1> USE DEF Actors
<1>1. CASE MainSteps
  <2>1. CASE Launch
    BY <2>1, GoesElsewhere DEF Launch
  <2>2. CASE LaunchFails
    BY <2>2, GoesElsewhere DEF LaunchFails
  <2>3. CASE WriteInput
    BY <2>3 DEF WriteInput, OneClaimant, Bystander
  <2>4. CASE WriteRaises
    BY <2>4, GoesElsewhere DEF WriteRaises
  <2>5. CASE CloseInput
    BY <2>5, GoesElsewhere DEF CloseInput
  <2>6. CASE ArmTimer
    BY <2>6 DEF ArmTimer, OneClaimant, Bystander
  <2> QED  BY <1>1, <2>1, <2>2, <2>3, <2>4, <2>5, <2>6 DEF MainSteps
<1>2. CASE ChildSteps
  BY <1>2 DEF ChildSteps, ChildReads, ChildWrites, ChildExits, callVars, OneClaimant, Bystander
<1>3. CASE \E ch \in Channels : HandlerSteps(ch)
  BY <1>3 DEF HandlerSteps, HandlerCalled, HandlerReads, HandlerAppends, callVars, OneClaimant, Bystander
<1>4. CASE EnderSteps
  <2>1. CASE EnderUnhooks
    BY <2>1, GoesElsewhere DEF EnderUnhooks
  <2>2. CASE EnderDrains
    BY <2>2, GoesElsewhere DEF EnderDrains
  <2>3. CASE EnderAppends
    BY <2>3, GoesElsewhere DEF EnderAppends
  <2> QED  BY <1>4, <2>1, <2>2, <2>3 DEF EnderSteps
<1>5. CASE TimerSteps
  <2>1. CASE TimerFires
    BY <2>1, GoesElsewhere DEF TimerFires
  <2>2. CASE TimerTerminates
    BY <2>2 DEF TimerTerminates, OneClaimant, Bystander
  <2> QED  BY <1>5, <2>1, <2>2 DEF TimerSteps
<1>6. CASE KillerFires
  BY <1>6, GoesElsewhere DEF KillerFires
<1>7. CASE UNCHANGED vars
  BY <1>7 DEF vars, callVars, OneClaimant, Bystander
<1> QED  BY <1>1, <1>2, <1>3, <1>4, <1>5, <1>6, <1>7

(* Claiming: the first comer goes on to resume, everyone later to the end.  *)
LEMMA ClaimKeeps == ASSUME OneClaimant, NEW actor \in Actors, Claim(actor) PROVE OneClaimant'
<1>1. CASE claimed
  BY <1>1, GoesElsewhere, BystanderKeeps DEF Claim, OneClaimant
<1>2. CASE ~claimed
  BY <1>2 DEF OneClaimant, Claim, Goes, AtMostOne, NobodyResumes
<1> QED  BY <1>1, <1>2

(* Resuming: only the claimant does, so nothing was answered before.        *)
LEMMA ResumeKeeps == ASSUME OneClaimant, NEW actor \in Actors, Resume(actor) PROVE OneClaimant'
<1>1. claimed /\ answers = <<>>
  BY DEF OneClaimant, Resume, Goes, NobodyResumes
<1>2. answers' = <<Resumed(KindOf(actor))>>
  BY <1>1 DEF Resume
<1>3. pc' = [pc EXCEPT ![actor] = "end"] /\ pc[actor] = "resume" /\ claimed'
  BY <1>1 DEF Resume, Goes
<1>4. NobodyResumes'
  BY <1>3 DEF OneClaimant, NobodyResumes
<1> QED  BY <1>2, <1>3, <1>4 DEF OneClaimant, AtMostOne, NobodyResumes

(* At the start nobody has claimed the answer.                              *)
LEMMA InitOneClaimant == Init => OneClaimant
  BY DEF Init, OneClaimant, AtMostOne, NobodyResumes, Actors

(* No step makes a second claimant.                                         *)
LEMMA NextOneClaimant == OneClaimant /\ [Next]_vars => OneClaimant'
<1> SUFFICES ASSUME OneClaimant, [Next]_vars PROVE OneClaimant'
  OBVIOUS
<1>1. CASE Answering
  BY <1>1, ClaimKeeps, ResumeKeeps DEF Answering
<1>2. CASE ~Answering
  BY <1>2, OthersKeep, BystanderKeeps DEF Next
<1> QED  BY <1>1, <1>2

(* The continuation of run() is resumed at most once: of the termination    *)
(* handler, the timer and the error path, only the first to claim answers.  *)
THEOREM AtMostOneAnswer == Spec => []AnsweredOnce
<1>1. OneClaimant => AnsweredOnce
  <2> SUFFICES ASSUME AtMostOne PROVE AnsweredOnce
    BY DEF OneClaimant
  <2>1. CASE answers = <<>>
    BY <2>1 DEF AnsweredOnce
  <2>2. ASSUME NEW a, answers = <<a>> PROVE AnsweredOnce
    <3>1. Len(answers) = 1
      BY <2>2
    <3> QED  BY <3>1 DEF AnsweredOnce
  <2> QED  BY <2>1, <2>2 DEF AtMostOne
<1> QED  BY InitOneClaimant, NextOneClaimant, <1>1, PTL DEF Spec

-----------------------------------------------------------------------------
(* Where a child's output is while a call is served: for every capacity of  *)
(* the pipes, every size of a read and every child, what the handlers have  *)
(* stored, what they hold and what the pipe holds make up, in this order,   *)
(* what the child wrote.                                                    *)

Whole(n) == [u \in 1 .. n |-> u]

(* What a channel's four places hold, in the order of the data.             *)
Line(b, h, e, p) == b \o h \o e \o p

(* Where the parties are, and what that says of the child.                  *)
Control ==
  /\ pc["main"] = "write" => input > 0
  /\ child # "none" => pc["main"] # "launch"
  /\ child = "none" => pc["main"] \notin {"write", "close", "arm"} /\ pc["timer"] = "idle" /\ pc["killer"] = "idle"
  /\ pc["main"] = "down" => child = "exited"
  /\ pc["ender"] # "idle" => child = "exited"
  /\ hooked <=> pc["ender"] = "idle"
  /\ pc["ender"] \in {"idle", "drain", "append", "claim", "resume", "end"}

(* Nobody holds data but between a read and the append that follows it.     *)
Hands ==
  /\ \A ch \in Channels : handler[ch] # "holding" => held[ch] = <<>>
  /\ pc["ender"] # "append" => endHeld = Empty

(* What an undisturbed end means for the rest of the call.                  *)
Quiet ==
  /\ raced => pc["ender"] # "idle"
  /\ ~raced /\ pc["ender"] # "idle" => handler = [ch \in Channels |-> "idle"]
  /\ ~raced /\ pc["ender"] \notin {"idle", "drain"} => pipe = Empty

(* Nothing the child wrote is lost, doubled or out of its place.            *)
InOrder ==
  ~raced => \A ch \in Channels : Line(box[ch], held[ch], endHeld[ch], pipe[ch]) = Whole(emitted[ch])

(* The output is the answer only once the termination handler is through.   *)
OutputIsLast == \A i \in DOMAIN answers : answers[i].kind = "output" => pc["ender"] = "end"

Placed == TypeOK /\ Control
Stored == Hands /\ Quiet /\ InOrder
IInv == Placed /\ Stored /\ OneClaimant /\ OutputIsLast /\ UndisturbedOutputIsWhole

-----------------------------------------------------------------------------
(* Reads, appends and writes on sequences.                                  *)

(* A read splits a pipe's content in two.                                   *)
LEMMA TakenThenLeft ==
  ASSUME NEW s \in Seq(Nat)
  PROVE  /\ Taken(s) \in Seq(Nat) /\ Left(s) \in Seq(Nat)
         /\ Taken(s) \o Left(s) = s
         /\ Len(Left(s)) <= Len(s)
<1>1. Len(s) \in Nat /\ ReadLimit \in Nat \ {0} /\ \A i \in 1 .. Len(s) : s[i] \in Nat
  BY RoomAssumption, LenProperties, ElementOfSeq
<1>2. /\ Left(s) \in Seq(Nat)
      /\ Len(Left(s)) = IF ReadLimit + 1 <= Len(s) THEN Len(s) - ReadLimit ELSE 0
  <2>1. \A i \in ReadLimit + 1 .. Len(s) : s[i] \in Nat
    BY <1>1
  <2> QED  BY <1>1, <2>1, SubSeqProperties DEF Left
<1>3. Len(Left(s)) <= Len(s)
  BY <1>1, <1>2
<1>4. CASE Len(s) < ReadLimit
  <2>1. Taken(s) = s
    BY <1>4, SubSeqFull DEF Taken
  <2>2. Left(s) = <<>>
    BY <1>1, <1>4, SubSeqEmpty DEF Left
  <2> QED  BY <1>2, <1>3, <2>1, <2>2, ConcatEmptySeq
<1>5. CASE ReadLimit <= Len(s)
  <2>1. Taken(s) = SubSeq(s, 1, ReadLimit)
    BY <1>1, <1>5 DEF Taken
  <2>2. Taken(s) \in Seq(Nat)
    <3>1. \A i \in 1 .. ReadLimit : s[i] \in Nat
      BY <1>1, <1>5
    <3> QED  BY <1>1, <2>1, <3>1, SubSeqProperties
  <2>3. Taken(s) \o Left(s) = SubSeq(s, 1, Len(s))
    <3>1. 1 \in 1 .. Len(s) + 1 /\ ReadLimit \in 1 - 1 .. Len(s) /\ Len(s) \in ReadLimit .. Len(s)
      BY <1>1, <1>5
    <3>2. SubSeq(s, 1, ReadLimit) \o SubSeq(s, ReadLimit + 1, Len(s)) = SubSeq(s, 1, Len(s))
      BY <3>1, ConcatAdjacentSubSeq
    <3> QED  BY <2>1, <3>2 DEF Left
  <2> QED  BY <1>2, <1>3, <2>2, <2>3, SubSeqFull
<1> QED  BY <1>1, <1>4, <1>5

(* What a read leaves still fits the pipe.                                  *)
LEMMA LeftFits ==
  ASSUME NEW s \in Seq(Nat), Len(s) <= OutRoom
  PROVE  Taken(s) \in Seq(Nat) /\ Left(s) \in Seq(Nat) /\ Len(Left(s)) <= OutRoom
<1>1. Taken(s) \in Seq(Nat) /\ Left(s) \in Seq(Nat) /\ Len(Left(s)) <= Len(s)
  BY TakenThenLeft
<1>2. Len(s) \in Nat /\ Len(Left(s)) \in Nat /\ OutRoom \in Nat
  BY <1>1, LenProperties, RoomAssumption
<1> QED  BY <1>1, <1>2

(* One more unit is all the child wrote so far and the next.                *)
LEMMA WholeGrows == ASSUME NEW n \in Nat PROVE Append(Whole(n), n + 1) = Whole(n + 1)
<1>1. Whole(n) \in Seq(Nat) /\ Len(Whole(n)) = n
  BY DEF Whole
<1>2. Whole(n + 1) \in Seq(Nat) /\ Len(Whole(n + 1)) = n + 1
  BY DEF Whole
<1>3. /\ Append(Whole(n), n + 1) \in Seq(Nat)
      /\ Len(Append(Whole(n), n + 1)) = n + 1
      /\ \A i \in 1 .. n : Append(Whole(n), n + 1)[i] = Whole(n)[i]
      /\ Append(Whole(n), n + 1)[n + 1] = n + 1
  BY <1>1, AppendProperties
<1>4. \A i \in 1 .. n + 1 : Append(Whole(n), n + 1)[i] = Whole(n + 1)[i]
  BY <1>3 DEF Whole
<1> QED  BY <1>2, <1>3, <1>4, SeqEqual

(* What is appended to the rear is appended to the whole.                   *)
LEMMA ConcatAppend ==
  ASSUME NEW s \in Seq(Nat), NEW t \in Seq(Nat), NEW u \in Nat
  PROVE  s \o Append(t, u) = Append(s \o t, u)
<1>1. <<u>> \in Seq(Nat) /\ s \o t \in Seq(Nat)
  BY ConcatProperties
<1>2. Append(t, u) = t \o <<u>> /\ Append(s \o t, u) = (s \o t) \o <<u>>
  BY <1>1, AppendIsConcat
<1> QED  BY <1>1, <1>2, ConcatAssociative

(* Concatenation is associative.                                            *)
LEMMA Assoc ==
  ASSUME NEW s \in Seq(Nat), NEW t \in Seq(Nat), NEW u \in Seq(Nat)
  PROVE  (s \o t) \o u = s \o (t \o u)
  BY ConcatAssociative

(* A read, by the handler or at the end, leaves the line as it was.         *)
LEMMA ReadKeepsLine ==
  ASSUME NEW b \in Seq(Nat), NEW p \in Seq(Nat)
  PROVE  /\ Line(b, Taken(p), <<>>, Left(p)) = Line(b, <<>>, <<>>, p)
         /\ Line(b, <<>>, Taken(p), Left(p)) = Line(b, <<>>, <<>>, p)
<1>1. Taken(p) \in Seq(Nat) /\ Left(p) \in Seq(Nat) /\ Taken(p) \o Left(p) = p
  BY TakenThenLeft
<1>2. b \o Taken(p) \in Seq(Nat)
  BY <1>1, ConcatProperties
<1>3. (b \o Taken(p)) \o Left(p) = b \o (Taken(p) \o Left(p))
  BY <1>1, Assoc
<1>4. b \o <<>> = b /\ (b \o Taken(p)) \o <<>> = b \o Taken(p)
  BY <1>2, ConcatEmptySeq
<1> QED  BY <1>1, <1>3, <1>4 DEF Line

(* So does appending what the handler held.                                 *)
LEMMA AppendKeepsLine ==
  ASSUME NEW b \in Seq(Nat), NEW h \in Seq(Nat), NEW e \in Seq(Nat), NEW p \in Seq(Nat)
  PROVE  /\ b \o h \in Seq(Nat)
         /\ Line(b \o h, <<>>, e, p) = Line(b, h, e, p)
         /\ Line(b \o e, <<>>, <<>>, p) = Line(b, <<>>, e, p)
         /\ Line(b, <<>>, <<>>, <<>>) = b
<1>1. b \o h \in Seq(Nat) /\ b \o e \in Seq(Nat)
  BY ConcatProperties
<1>2. b \o <<>> = b /\ (b \o h) \o <<>> = b \o h /\ (b \o e) \o <<>> = b \o e
  BY <1>1, ConcatEmptySeq
<1> QED  BY <1>1, <1>2 DEF Line

(* A write makes the line one unit longer, at its rear.                     *)
LEMMA WriteGrowsLine ==
  ASSUME NEW b \in Seq(Nat), NEW h \in Seq(Nat), NEW e \in Seq(Nat), NEW p \in Seq(Nat),
         NEW n \in Nat, NEW m \in Nat, m = n + 1, Line(b, h, e, p) = Whole(n)
  PROVE  Line(b, h, e, Append(p, m)) = Whole(m)
<1>1. (b \o h) \o e \in Seq(Nat)
  BY ConcatProperties
<1>2. ((b \o h) \o e) \o Append(p, m) = Append(((b \o h) \o e) \o p, m)
  BY <1>1, ConcatAppend
<1> QED  BY <1>2, WholeGrows DEF Line

-----------------------------------------------------------------------------
(* The parties keep to their places, and the data to its types.             *)

(* A call starts with everybody in place.                                   *)
LEMMA PlacedStart == Init => Placed
<1> SUFFICES ASSUME Init PROVE Placed
  OBVIOUS
<1>1. Empty \in [Channels -> Seq(Nat)] /\ \A ch \in Channels : Len(Empty[ch]) = 0
  BY DEF Empty
<1>2. TypeOK
  <2>1. input \in Nat /\ inPipe \in 0 .. InRoom /\ quota \in [Channels -> Nat] /\ emitted \in [Channels -> Nat]
    <3>1. /\ input \in Inputs /\ inPipe = 0 /\ quota \in [Channels -> Quotas]
          /\ emitted = [ch \in Channels |-> 0]
      BY DEF Init
    <3>2. Inputs \subseteq Nat /\ Quotas \subseteq Nat /\ InRoom \in Nat
      BY RoomAssumption, InputAssumption
    <3>3. quota \in [Channels -> Nat]
      BY <3>1, <3>2
    <3> QED  BY <3>1, <3>2, <3>3
  <2>2. \A ch \in Channels : Len(pipe[ch]) <= OutRoom
    <3>1. pipe = Empty /\ 0 <= OutRoom
      BY RoomAssumption DEF Init
    <3> QED  BY <1>1, <3>1
  <2>3. {pipe, held, endHeld, box} \subseteq [Channels -> Seq(Nat)]
    BY <1>1 DEF Init
  <2> QED  BY <2>1, <2>2, <2>3 DEF Init, TypeOK, Actors
<1>3. Control
  BY DEF Init, Control, Actors
<1> QED  BY <1>2, <1>3 DEF Placed

(* The main actor's steps keep them so.                                     *)
LEMMA MainPlaced == Placed /\ MainSteps => Placed'
<1> SUFFICES ASSUME Placed, MainSteps PROVE Placed'
  OBVIOUS
<1> USE DEF Placed, TypeOK, Control, Goes, Actors, dataVars, childVars
<1>1. CASE Launch
  BY <1>1 DEF Launch
<1>2. CASE LaunchFails
  BY <1>2 DEF LaunchFails
<1>3. CASE WriteInput
  <2>1. input' \in Nat /\ inPipe' \in 0 .. InRoom /\ (input # 1 => input' > 0)
    BY <1>3, RoomAssumption DEF WriteInput
  <2> QED  BY <1>3, <2>1 DEF WriteInput
<1>4. CASE WriteRaises
  BY <1>4 DEF WriteRaises
<1>5. CASE CloseInput
  BY <1>5 DEF CloseInput
<1>6. CASE ArmTimer
  BY <1>6 DEF ArmTimer
<1> QED  BY <1>1, <1>2, <1>3, <1>4, <1>5, <1>6 DEF MainSteps

(* The child's steps keep them so.                                          *)
LEMMA ChildPlaced == Placed /\ ChildSteps => Placed'
<1> SUFFICES ASSUME Placed, ChildSteps PROVE Placed'
  OBVIOUS
<1>1. CASE ChildReads
  <2>1. inPipe' \in 0 .. InRoom /\ UNCHANGED <<callVars, child, input, quota, emitted, dataVars>>
    BY <1>1, RoomAssumption DEF ChildReads, Placed, TypeOK
  <2> QED  BY <2>1 DEF Placed, TypeOK, Control, callVars, dataVars
<1>2. CASE ChildExits
  <2>1. TypeOK'
    BY <1>2 DEF ChildExits, Placed, TypeOK, callVars, dataVars
  <2>2. Control'
    BY <1>2 DEF ChildExits, Placed, Control, callVars, dataVars
  <2> QED  BY <2>1, <2>2 DEF Placed
<1>3. ASSUME NEW ch \in Channels, ChildWrites(ch) PROVE Placed'
  <2>1. emitted[ch] + 1 \in Nat /\ pipe[ch] \in Seq(Nat) /\ Len(pipe[ch]) < OutRoom
    BY <1>3 DEF ChildWrites, Placed, TypeOK
  <2>2. Append(pipe[ch], emitted[ch] + 1) \in Seq(Nat)
        /\ Len(Append(pipe[ch], emitted[ch] + 1)) <= OutRoom
    BY <2>1, AppendProperties, LenProperties, RoomAssumption
  <2>3. pipe' = [pipe EXCEPT ![ch] = Append(pipe[ch], emitted[ch] + 1)]
    BY <1>3 DEF ChildWrites
  <2>4. pipe' \in [Channels -> Seq(Nat)] /\ \A c \in Channels : Len(pipe'[c]) <= OutRoom
    BY <2>2, <2>3 DEF Placed, TypeOK
  <2>5. quota' \in [Channels -> Nat] /\ emitted' \in [Channels -> Nat]
    BY <1>3, <2>1 DEF ChildWrites, Placed, TypeOK
  <2> QED  BY <1>3, <2>4, <2>5 DEF ChildWrites, Placed, TypeOK, Control, callVars
<1> QED  BY <1>1, <1>2, <1>3 DEF ChildSteps

(* A read handler's steps keep them so.                                     *)
LEMMA HandlerPlaced == ASSUME Placed, NEW ch \in Channels, HandlerSteps(ch) PROVE Placed'
<1>1. CASE HandlerCalled(ch)
  BY <1>1 DEF HandlerCalled, Placed, TypeOK, Control, callVars, childVars
<1>2. CASE HandlerReads(ch)
  <2>1. pipe[ch] \in Seq(Nat) /\ Len(pipe[ch]) <= OutRoom
    BY DEF Placed, TypeOK
  <2>2. Taken(pipe[ch]) \in Seq(Nat) /\ Left(pipe[ch]) \in Seq(Nat) /\ Len(Left(pipe[ch])) <= OutRoom
    BY <2>1, LeftFits
  <2>3. pipe' = [pipe EXCEPT ![ch] = Left(pipe[ch])] /\ held' = [held EXCEPT ![ch] = Taken(pipe[ch])]
    BY <1>2 DEF HandlerReads
  <2> QED  BY <1>2, <2>2, <2>3 DEF HandlerReads, Placed, TypeOK, Control, callVars, childVars
<1>3. CASE HandlerAppends(ch)
  <2>1. box[ch] \o held[ch] \in Seq(Nat) /\ <<>> \in Seq(Nat)
    BY ConcatProperties DEF Placed, TypeOK
  <2>2. box' = [box EXCEPT ![ch] = box[ch] \o held[ch]] /\ held' = [held EXCEPT ![ch] = <<>>]
    BY <1>3 DEF HandlerAppends
  <2> QED  BY <1>3, <2>1, <2>2 DEF HandlerAppends, Placed, TypeOK, Control, callVars, childVars
<1> QED  BY <1>1, <1>2, <1>3 DEF HandlerSteps

(* The termination handler's steps keep them so.                            *)
LEMMA EnderPlaced == Placed /\ EnderSteps => Placed'
<1> SUFFICES ASSUME Placed, EnderSteps PROVE Placed'
  OBVIOUS
<1> USE DEF Placed, TypeOK, Control, Goes, Actors
<1>1. CASE EnderUnhooks
  BY <1>1 DEF EnderUnhooks, childVars
<1>2. CASE EnderDrains
  <2>1. \A ch \in Channels : /\ Taken(pipe[ch]) \in Seq(Nat) /\ Left(pipe[ch]) \in Seq(Nat)
                             /\ Len(Left(pipe[ch])) <= OutRoom
    BY LeftFits
  <2>2. /\ pipe' \in [Channels -> Seq(Nat)] /\ endHeld' \in [Channels -> Seq(Nat)]
        /\ \A ch \in Channels : Len(pipe'[ch]) <= OutRoom
    BY <1>2, <2>1 DEF EnderDrains
  <2> QED  BY <1>2, <2>2 DEF EnderDrains, childVars
<1>3. CASE EnderAppends
  <2>1. \A ch \in Channels : box[ch] \o endHeld[ch] \in Seq(Nat)
    BY ConcatProperties
  <2>2. box' \in [Channels -> Seq(Nat)] /\ endHeld' \in [Channels -> Seq(Nat)]
    BY <1>3, <2>1 DEF EnderAppends, Empty
  <2> QED  BY <1>3, <2>2 DEF EnderAppends, childVars
<1> QED  BY <1>1, <1>2, <1>3 DEF EnderSteps

(* The timer, the kill and the answer keep them so.                         *)
LEMMA OthersPlaced == Placed /\ (TimerSteps \/ KillerFires \/ Answering \/ UNCHANGED vars) => Placed'
<1> SUFFICES ASSUME Placed, TimerSteps \/ KillerFires \/ Answering \/ UNCHANGED vars PROVE Placed'
  OBVIOUS
<1> USE DEF Placed, TypeOK, Control, Goes, Actors, dataVars, childVars
<1>1. CASE TimerFires
  BY <1>1 DEF TimerFires
<1>2. CASE TimerTerminates
  BY <1>2 DEF TimerTerminates
<1>3. CASE KillerFires
  BY <1>3 DEF KillerFires
<1>4. ASSUME NEW actor \in Actors, Claim(actor) PROVE Placed'
  BY <1>4 DEF Claim
<1>5. ASSUME NEW actor \in Actors, Resume(actor) PROVE Placed'
  BY <1>5 DEF Resume
<1>6. CASE UNCHANGED vars
  BY <1>6 DEF vars, callVars
<1> QED  BY <1>1, <1>2, <1>3, <1>4, <1>5, <1>6 DEF TimerSteps, Answering

(* Every step keeps them so.                                                *)
LEMMA NextPlaced == Placed /\ [Next]_vars => Placed'
  BY MainPlaced, ChildPlaced, HandlerPlaced, EnderPlaced, OthersPlaced DEF Next

-----------------------------------------------------------------------------
(* The output keeps its order.                                              *)

(* At first nothing is written, held or stored.                             *)
LEMMA StoredStart == Init => Stored
<1> SUFFICES ASSUME Init PROVE Stored
  OBVIOUS
<1>1. Hands /\ Quiet
  BY DEF Init, Hands, Quiet, Empty, Actors
<1>2. \A ch \in Channels : Line(box[ch], held[ch], endHeld[ch], pipe[ch]) = Whole(emitted[ch])
  <2> TAKE ch \in Channels
  <2>1. /\ box[ch] = <<>> /\ held[ch] = <<>> /\ endHeld[ch] = <<>> /\ pipe[ch] = <<>>
        /\ emitted[ch] = 0
    BY DEF Init, Empty
  <2>2. Line(<<>>, <<>>, <<>>, <<>>) = <<>>
    BY AppendKeepsLine, EmptySeq
  <2>3. Whole(0) = <<>>
    BY DEF Whole
  <2> QED  BY <2>1, <2>2, <2>3
<1> QED  BY <1>1, <1>2 DEF Stored, InOrder

(* A step that leaves the data and the termination handler alone.           *)
LEMMA AsideStored ==
  ASSUME Stored, UNCHANGED <<emitted, dataVars>>,
         pc'["ender"] = pc["ender"] \/ (pc["ender"] \in {"claim", "resume"} /\ pc'["ender"] \in {"resume", "end"})
  PROVE  Stored'
  BY DEF Stored, Hands, Quiet, InOrder, dataVars

(* What the child writes joins the rear of the line.                        *)
LEMMA ChildStored == Placed /\ Stored /\ ChildSteps => Stored'
<1> SUFFICES ASSUME Placed, Stored, ChildSteps PROVE Stored'
  OBVIOUS
<1>1. CASE ChildReads \/ ChildExits
  BY <1>1, AsideStored DEF ChildReads, ChildExits, callVars
<1>2. ASSUME NEW ch \in Channels, ChildWrites(ch) PROVE Stored'
  <2>1. UNCHANGED <<pc, hooked, handler, held, endHeld, box, raced>>
    BY <1>2 DEF ChildWrites, callVars
  <2>2. pc["ender"] = "idle"
    BY <1>2 DEF ChildWrites, Placed, Control
  <2>3. Hands' /\ Quiet'
    BY <2>1, <2>2 DEF Stored, Hands, Quiet
  <2>4. ASSUME ~raced, NEW c \in Channels
        PROVE  Line(box[c], held[c], endHeld[c], pipe'[c]) = Whole(emitted'[c])
    <3>1. Line(box[c], held[c], endHeld[c], pipe[c]) = Whole(emitted[c])
      BY <2>4 DEF Stored, InOrder
    <3>2. CASE c # ch
      BY <1>2, <3>1, <3>2 DEF ChildWrites, Placed, TypeOK
    <3>3. CASE c = ch
      <4>1. emitted'[ch] = emitted[ch] + 1 /\ emitted'[ch] \in Nat /\ pipe'[ch] = Append(pipe[ch], emitted'[ch])
        BY <1>2 DEF ChildWrites, Placed, TypeOK
      <4>2. /\ box[ch] \in Seq(Nat) /\ held[ch] \in Seq(Nat) /\ endHeld[ch] \in Seq(Nat) /\ pipe[ch] \in Seq(Nat)
            /\ emitted[ch] \in Nat
        BY DEF Placed, TypeOK
      <4> QED  BY <3>1, <3>3, <4>1, <4>2, WriteGrowsLine
    <3> QED  BY <3>2, <3>3
  <2>5. InOrder'
    BY <2>1, <2>4 DEF InOrder
  <2> QED  BY <2>3, <2>5 DEF Stored
<1> QED  BY <1>1, <1>2 DEF ChildSteps

(* A read handler moves the front of the pipe on, to its hand or the box.   *)
LEMMA HandlerStored == ASSUME Placed, Stored, NEW ch \in Channels, HandlerSteps(ch) PROVE Stored'
<1> DEFINE Here(c) == Line(box[c], held[c], endHeld[c], pipe[c])
<1>1. UNCHANGED <<pc, child, emitted, raced, hooked, endHeld>>
  BY DEF HandlerSteps, HandlerCalled, HandlerReads, HandlerAppends, callVars, childVars
<1>2. \A c \in Channels : box[c] \in Seq(Nat) /\ held[c] \in Seq(Nat) /\ endHeld[c] \in Seq(Nat) /\ pipe[c] \in Seq(Nat)
  BY DEF Placed, TypeOK
<1>3. ~raced => pc["ender"] = "idle" /\ endHeld[ch] = <<>>
  <2>1. ASSUME ~raced PROVE pc["ender"] = "idle"
    BY <2>1 DEF HandlerSteps, HandlerCalled, HandlerReads, HandlerAppends, Placed, Control, Stored, Quiet
  <2> QED  BY <2>1 DEF Stored, Hands, Empty
<1>4. Quiet'
  BY <1>1, <1>3 DEF Stored, Quiet
<1>5. CASE HandlerCalled(ch)
  <2>1. UNCHANGED <<pipe, held, box>> /\ handler' = [handler EXCEPT ![ch] = "called"] /\ handler[ch] # "holding"
    BY <1>5 DEF HandlerCalled
  <2>2. Hands'
    BY <1>1, <2>1 DEF Stored, Hands, Placed, TypeOK
  <2>3. InOrder'
    BY <1>1, <2>1 DEF Stored, InOrder
  <2> QED  BY <1>4, <2>2, <2>3 DEF Stored
<1>6. CASE HandlerReads(ch)
  <2>1. /\ UNCHANGED box /\ handler' = [handler EXCEPT ![ch] = "holding"] /\ handler[ch] = "called"
        /\ held' = [held EXCEPT ![ch] = Taken(pipe[ch])] /\ pipe' = [pipe EXCEPT ![ch] = Left(pipe[ch])]
    BY <1>6 DEF HandlerReads
  <2>2. Hands'
    BY <1>1, <2>1 DEF Stored, Hands, Placed, TypeOK
  <2>3. ASSUME ~raced, NEW c \in Channels PROVE Here(c)' = Here(c)
    <3>1. CASE c # ch
      BY <1>1, <2>1, <3>1 DEF Placed, TypeOK
    <3>2. CASE c = ch
      <4>1. held[ch] = <<>> /\ held'[ch] = Taken(pipe[ch]) /\ pipe'[ch] = Left(pipe[ch])
        BY <2>1 DEF Stored, Hands, Placed, TypeOK
      <4> QED  BY <1>1, <1>2, <1>3, <2>1, <2>3, <3>2, <4>1, ReadKeepsLine
    <3> QED  BY <3>1, <3>2
  <2>4. InOrder'
    BY <1>1, <2>3 DEF Stored, InOrder
  <2> QED  BY <1>4, <2>2, <2>4 DEF Stored
<1>7. CASE HandlerAppends(ch)
  <2>1. /\ UNCHANGED pipe /\ handler' = [handler EXCEPT ![ch] = "idle"] /\ handler[ch] = "holding"
        /\ held' = [held EXCEPT ![ch] = <<>>] /\ box' = [box EXCEPT ![ch] = box[ch] \o held[ch]]
    BY <1>7 DEF HandlerAppends
  <2>2. Hands'
    BY <1>1, <2>1 DEF Stored, Hands, Placed, TypeOK
  <2>3. ASSUME NEW c \in Channels PROVE Here(c)' = Here(c)
    <3>1. CASE c # ch
      BY <1>1, <2>1, <3>1 DEF Placed, TypeOK
    <3>2. CASE c = ch
      <4>1. held'[ch] = <<>> /\ box'[ch] = box[ch] \o held[ch]
        BY <2>1 DEF Placed, TypeOK
      <4>2. Line(box[ch] \o held[ch], <<>>, endHeld[ch], pipe[ch]) = Here(ch)
        BY <1>2, AppendKeepsLine
      <4> QED  BY <1>1, <2>1, <3>2, <4>1, <4>2
    <3> QED  BY <3>1, <3>2
  <2>4. InOrder'
    BY <1>1, <2>3 DEF Stored, InOrder
  <2> QED  BY <1>4, <2>2, <2>4 DEF Stored
<1> QED  BY <1>5, <1>6, <1>7 DEF HandlerSteps

(* The last reads move the rest into the box.                               *)
LEMMA EnderStored == Placed /\ Stored /\ EnderSteps => Stored'
<1> SUFFICES ASSUME Placed, Stored, EnderSteps PROVE Stored'
  OBVIOUS
<1> DEFINE Here(c) == Line(box[c], held[c], endHeld[c], pipe[c])
<1>1. \A c \in Channels : box[c] \in Seq(Nat) /\ held[c] \in Seq(Nat) /\ endHeld[c] \in Seq(Nat) /\ pipe[c] \in Seq(Nat)
  BY DEF Placed, TypeOK
<1>2. pc \in [Actors -> {pc[a] : a \in Actors}] /\ "ender" \in Actors
  BY DEF Placed, TypeOK, Actors
<1>3. CASE EnderUnhooks
  <2>1. pc["ender"] = "idle" /\ pc'["ender"] = "drain" /\ UNCHANGED <<emitted, pipe, handler, held, endHeld, box>>
    BY <1>2, <1>3 DEF EnderUnhooks, Goes, childVars
  <2>2. raced' = (\E ch \in Channels : handler[ch] # "idle")
    BY <1>3 DEF EnderUnhooks
  <2>3. Hands' /\ Quiet'
    <3>1. ASSUME ~raced' PROVE handler = [ch \in Channels |-> "idle"]
      BY <2>2, <3>1 DEF Placed, TypeOK
    <3> QED  BY <2>1, <3>1 DEF Stored, Hands, Quiet
  <2>4. ~raced
    BY <2>1 DEF Stored, Quiet
  <2> QED  BY <2>1, <2>3, <2>4 DEF Stored, InOrder
<1>4. CASE EnderDrains
  <2>1. pc["ender"] = "drain" /\ pc'["ender"] = "append" /\ UNCHANGED <<emitted, handler, held, box>>
    BY <1>2, <1>4 DEF EnderDrains, Goes, childVars
  <2>2. /\ endHeld' = [ch \in Channels |-> Taken(pipe[ch])]
        /\ pipe' = [ch \in Channels |-> Left(pipe[ch])]
        /\ raced' = (raced \/ pipe' # Empty)
    BY <1>4 DEF EnderDrains
  <2>3. Hands' /\ Quiet'
    BY <2>1, <2>2 DEF Stored, Hands, Quiet
  <2>4. ASSUME ~raced', NEW c \in Channels PROVE Here(c)' = Here(c)
    <3>1. ~raced /\ held[c] = <<>> /\ endHeld[c] = <<>>
      BY <2>1, <2>2, <2>4 DEF Stored, Hands, Quiet, Empty
    <3>2. Line(box[c], <<>>, Taken(pipe[c]), Left(pipe[c])) = Line(box[c], <<>>, <<>>, pipe[c])
      BY <1>1, ReadKeepsLine
    <3> QED  BY <2>1, <2>2, <3>1, <3>2
  <2>5. InOrder'
    BY <2>1, <2>2, <2>4 DEF Stored, InOrder
  <2> QED  BY <2>3, <2>5 DEF Stored
<1>5. CASE EnderAppends
  <2>1. pc["ender"] = "append" /\ pc'["ender"] = "claim" /\ UNCHANGED <<emitted, handler, held, pipe, raced>>
    BY <1>2, <1>5 DEF EnderAppends, Goes, childVars
  <2>2. box' = [ch \in Channels |-> box[ch] \o endHeld[ch]] /\ endHeld' = Empty
    BY <1>5 DEF EnderAppends
  <2>3. Hands' /\ Quiet'
    BY <2>1, <2>2 DEF Stored, Hands, Quiet
  <2>4. ASSUME ~raced, NEW c \in Channels PROVE Here(c)' = Here(c)
    <3>1. held[c] = <<>> /\ held'[c] = <<>> /\ endHeld'[c] = <<>> /\ box'[c] = box[c] \o endHeld[c]
      BY <2>1, <2>2, <2>4 DEF Stored, Hands, Quiet, Empty
    <3>2. Line(box[c] \o endHeld[c], <<>>, <<>>, pipe[c]) = Line(box[c], <<>>, endHeld[c], pipe[c])
      BY <1>1, AppendKeepsLine
    <3> QED  BY <2>1, <3>1, <3>2
  <2>5. InOrder'
    BY <2>1, <2>4 DEF Stored, InOrder
  <2> QED  BY <2>3, <2>5 DEF Stored
<1> QED  BY <1>3, <1>4, <1>5 DEF EnderSteps

(* Nobody else touches the data or moves the termination handler early.     *)
LEMMA OthersStored ==
  Placed /\ Stored /\ (MainSteps \/ TimerSteps \/ KillerFires \/ Answering \/ UNCHANGED vars) => Stored'
<1> SUFFICES ASSUME Placed, Stored, MainSteps \/ TimerSteps \/ KillerFires \/ Answering \/ UNCHANGED vars
             PROVE  Stored'
  OBVIOUS
<1> USE DEF Goes, childVars
<1>1. pc \in [Actors -> {pc[a] : a \in Actors}] /\ "ender" \in Actors
  BY DEF Placed, TypeOK, Actors
<1>2. CASE MainSteps
  <2>1. pc'["ender"] = pc["ender"]
    BY <1>1, <1>2 DEF MainSteps, Launch, LaunchFails, WriteInput, WriteRaises, CloseInput, ArmTimer
  <2>2. UNCHANGED <<emitted, dataVars>>
    BY <1>2 DEF MainSteps, Launch, LaunchFails, WriteInput, WriteRaises, CloseInput, ArmTimer
  <2> QED  BY <2>1, <2>2, AsideStored
<1>3. CASE TimerSteps \/ KillerFires
  <2>1. pc'["ender"] = pc["ender"]
    BY <1>1, <1>3 DEF TimerSteps, TimerFires, TimerTerminates, KillerFires
  <2>2. UNCHANGED <<emitted, dataVars>>
    BY <1>3 DEF TimerSteps, TimerFires, TimerTerminates, KillerFires
  <2> QED  BY <2>1, <2>2, AsideStored
<1>4. ASSUME NEW actor \in Actors, Claim(actor) \/ Resume(actor) PROVE Stored'
  <2>1. UNCHANGED <<emitted, dataVars>>
    BY <1>4 DEF Claim, Resume
  <2>2. pc'["ender"] = pc["ender"] \/ (pc["ender"] \in {"claim", "resume"} /\ pc'["ender"] \in {"resume", "end"})
    BY <1>1, <1>4 DEF Claim, Resume
  <2> QED  BY <2>1, <2>2, AsideStored
<1>5. CASE UNCHANGED vars
  BY <1>5, AsideStored DEF vars, callVars
<1> QED  BY <1>2, <1>3, <1>4, <1>5 DEF Answering

(* No step loses or reorders a unit while handlers run undisturbed.         *)
LEMMA NextStored == Placed /\ Stored /\ [Next]_vars => Stored'
  BY ChildStored, HandlerStored, EnderStored, OthersStored DEF Next

-----------------------------------------------------------------------------
(* What is answered stays what was written.                                 *)

(* Once the termination handler is through nothing more is written.         *)
LEMMA AfterEnd ==
  ASSUME Placed, pc["ender"] = "end", [Next]_vars
  PROVE  UNCHANGED <<emitted, raced>> /\ pc'["ender"] = "end"
<1> USE DEF Goes, childVars, dataVars
<1>1. child = "exited" /\ pc \in [Actors -> {pc[a] : a \in Actors}] /\ "ender" \in Actors
  BY DEF Placed, Control, TypeOK, Actors
<1>2. CASE MainSteps
  BY <1>1, <1>2 DEF MainSteps, Launch, LaunchFails, WriteInput, WriteRaises, CloseInput, ArmTimer
<1>3. CASE ChildSteps
  BY <1>1, <1>3 DEF ChildSteps, ChildReads, ChildWrites, ChildExits
<1>4. CASE \E ch \in Channels : HandlerSteps(ch)
  BY <1>4 DEF HandlerSteps, HandlerCalled, HandlerReads, HandlerAppends, callVars
<1>5. CASE EnderSteps
  BY <1>5 DEF EnderSteps, EnderUnhooks, EnderDrains, EnderAppends
<1>6. CASE TimerSteps \/ KillerFires
  BY <1>1, <1>6 DEF TimerSteps, TimerFires, TimerTerminates, KillerFires
<1>7. CASE Answering
  BY <1>1, <1>7 DEF Answering, Claim, Resume
<1>8. CASE UNCHANGED vars
  BY <1>8 DEF vars, callVars
<1> QED  BY <1>2, <1>3, <1>4, <1>5, <1>6, <1>7, <1>8 DEF Next

(* Whoever does not resume leaves the answers as they are.                  *)
LEMMA OnlyResumesAnswer ==
  ASSUME OneClaimant, [Next]_vars, \A actor \in Actors : ~Resume(actor)
  PROVE  answers' = answers
<1>1. CASE Answering
  BY <1>1 DEF Answering, Claim
<1>2. CASE ~Answering
  BY <1>2, OthersKeep DEF Next, Bystander
<1> QED  BY <1>1, <1>2

(* With the handlers idle, nothing in hand and the pipes empty the box has  *)
(* it all.                                                                  *)
LEMMA BoxIsWhole ==
  ASSUME Placed, Stored, ~raced, pc["ender"] = "resume", NEW ch \in Channels
  PROVE  box[ch] = Whole(emitted[ch])
<1>1. held[ch] = <<>> /\ endHeld[ch] = <<>> /\ pipe[ch] = <<>>
  BY DEF Stored, Hands, Quiet, Empty
<1>2. Line(box[ch], <<>>, <<>>, <<>>) = Whole(emitted[ch])
  BY <1>1 DEF Stored, InOrder
<1>3. box[ch] \in Seq(Nat)
  BY DEF Placed, TypeOK
<1> QED  BY <1>2, <1>3, AppendKeepsLine, EmptySeq

(* Nobody is answered at the start.                                         *)
LEMMA AnswersStart == Init => OutputIsLast /\ UndisturbedOutputIsWhole
  BY DEF Init, OutputIsLast, UndisturbedOutputIsWhole

(* An answer is given from the box, once it is whole.                       *)
LEMMA NextAnswers == IInv /\ [Next]_vars => OutputIsLast' /\ UndisturbedOutputIsWhole'
<1> SUFFICES ASSUME IInv, [Next]_vars PROVE OutputIsLast' /\ UndisturbedOutputIsWhole'
  OBVIOUS
<1>1. ASSUME NEW actor \in Actors, Resume(actor) PROVE OutputIsLast' /\ UndisturbedOutputIsWhole'
  <2>1. answers = <<>> /\ pc[actor] = "resume" /\ pc' = [pc EXCEPT ![actor] = "end"]
    BY <1>1 DEF IInv, OneClaimant, Resume, Goes, NobodyResumes
  <2>2. answers' = <<Resumed(KindOf(actor))>> /\ UNCHANGED <<emitted, raced, box>>
    BY <1>1, <2>1 DEF Resume, childVars, dataVars
  <2>3. CASE actor = "ender"
    <3>1. pc'["ender"] = "end"
      BY <2>1, <2>3 DEF IInv, Placed, TypeOK
    <3>2. Resumed(KindOf(actor)).output = box
      BY <2>3 DEF Resumed, KindOf
    <3>3. ASSUME ~raced, NEW ch \in Channels PROVE box[ch] = Whole(emitted[ch])
      BY <2>1, <2>3, <3>3, BoxIsWhole DEF IInv
    <3>4. \A i \in DOMAIN answers' : answers'[i] = Resumed(KindOf(actor))
      BY <2>2
    <3>5. UndisturbedOutputIsWhole'
      BY <2>2, <3>2, <3>3, <3>4 DEF UndisturbedOutputIsWhole, Whole
    <3> QED  BY <3>1, <3>5 DEF OutputIsLast
  <2>4. CASE actor # "ender"
    <3>1. Resumed(KindOf(actor)).kind # "output"
      BY <2>4 DEF Resumed, KindOf
    <3>2. \A i \in DOMAIN answers' : answers'[i].kind # "output"
      BY <2>2, <3>1
    <3> QED  BY <3>2 DEF OutputIsLast, UndisturbedOutputIsWhole
  <2> QED  BY <2>3, <2>4
<1>2. ASSUME \A actor \in Actors : ~Resume(actor) PROVE OutputIsLast' /\ UndisturbedOutputIsWhole'
  <2>1. answers' = answers
    BY <1>2, OnlyResumesAnswer DEF IInv
  <2>2. ASSUME NEW i \in DOMAIN answers, answers[i].kind = "output"
        PROVE  UNCHANGED <<emitted, raced>> /\ pc'["ender"] = "end"
    BY <2>2, AfterEnd DEF IInv, OutputIsLast
  <2>3. OutputIsLast'
    BY <2>1, <2>2 DEF OutputIsLast
  <2>4. UndisturbedOutputIsWhole'
    BY <2>1, <2>2 DEF IInv, UndisturbedOutputIsWhole
  <2> QED  BY <2>3, <2>4
<1> QED  BY <1>1, <1>2

(* Only a failed write of the input takes the application down.             *)
LEMMA DownOnlyByWriting ==
  ASSUME Placed, [Next]_vars, ~WriteRaises
  PROVE  pc'["main"] = "down" <=> pc["main"] = "down"
<1> USE DEF Goes
<1>1. pc \in [Actors -> {pc[a] : a \in Actors}] /\ Actors = {"main", "ender", "timer", "killer"}
  BY DEF Placed, TypeOK, Actors
<1>2. CASE MainSteps
  BY <1>1, <1>2 DEF MainSteps, Launch, LaunchFails, WriteInput, CloseInput, ArmTimer
<1>3. CASE ChildSteps
  BY <1>3 DEF ChildSteps, ChildReads, ChildWrites, ChildExits, callVars
<1>4. CASE \E ch \in Channels : HandlerSteps(ch)
  BY <1>4 DEF HandlerSteps, HandlerCalled, HandlerReads, HandlerAppends, callVars
<1>5. CASE EnderSteps
  BY <1>1, <1>5 DEF EnderSteps, EnderUnhooks, EnderDrains, EnderAppends
<1>6. CASE TimerSteps \/ KillerFires
  BY <1>1, <1>6 DEF TimerSteps, TimerFires, TimerTerminates, KillerFires
<1>7. CASE Answering
  BY <1>1, <1>7 DEF Answering, Claim, Resume
<1>8. CASE UNCHANGED vars
  BY <1>8 DEF vars, callVars
<1> QED  BY <1>2, <1>3, <1>4, <1>5, <1>6, <1>7, <1>8 DEF Next

(* The invariant holds of every reachable state.                            *)
LEMMA Inductive == Spec => []IInv
<1>1. Init => IInv
  BY PlacedStart, StoredStart, InitOneClaimant, AnswersStart DEF IInv
<1>2. IInv /\ [Next]_vars => IInv'
  BY NextPlaced, NextStored, NextOneClaimant, NextAnswers DEF IInv
<1> QED  BY <1>1, <1>2, PTL DEF Spec

-----------------------------------------------------------------------------
(* Theorems *)

(* A call's state keeps its types: no pipe ever holds more than its room,   *)
(* whoever reads and writes.                                                *)
THEOREM TypeCorrect == Spec => []TypeOK
<1>1. IInv => TypeOK
  BY DEF IInv, Placed
<1> QED  BY Inductive, <1>1, PTL

(* When no handler was at work at the child's end and the last reads left   *)
(* nothing behind, the caller is given all the child wrote, in its order.   *)
THEOREM OutputWhole == Spec => []UndisturbedOutputIsWhole
<1>1. IInv => UndisturbedOutputIsWhole
  BY DEF IInv
<1> QED  BY Inductive, <1>1, PTL

(* What ENABLED HandlerSteps(ch) amounts to.                                *)
HandlerMayStep(ch) ==
  Up /\ \/ hooked /\ handler[ch] = "idle" /\ pipe[ch] # <<>>
        \/ handler[ch] \in {"called", "holding"}

FullPipesHaveReaders ==
  \A ch \in Channels : child = "running" /\ Len(pipe[ch]) = OutRoom => HandlerMayStep(ch)

(* A child that waits for room in a pipe is served: the application is up,  *)
(* and the pipe's handler is to be called, to read or to append.  It is     *)
(* FullPipeIsDrained with the guards of the handler's steps written out.    *)
THEOREM ReadersStandBy == Spec => []FullPipesHaveReaders
<1>1. IInv => FullPipesHaveReaders
  <2> SUFFICES ASSUME IInv, NEW ch \in Channels, child = "running", Len(pipe[ch]) = OutRoom
               PROVE  HandlerMayStep(ch)
    BY DEF FullPipesHaveReaders
  <2>1. Up /\ hooked
    BY DEF IInv, Placed, Control, Up
  <2>2. handler[ch] \in {"idle", "called", "holding"}
    BY DEF IInv, Placed, TypeOK
  <2>3. pipe[ch] # <<>>
    BY RoomAssumption, EmptySeq
  <2> QED  BY <2>1, <2>2, <2>3 DEF HandlerMayStep
<1> QED  BY Inductive, <1>1, PTL

(* What the application sees of a call is what it expects of one: pending   *)
(* until the one answer, of one of the three kinds, or until the            *)
(* application is lost.  (That one of them comes stays with TLC.)           *)
THEOREM AnswersOrIsLost == Spec => Call!Safety
<1>1. Init => Call!Init
  BY DEF Init, Call!Init, CallStatus, CallAnswer, Actors
<1>2. ASSUME IInv, [Next]_vars PROVE [Call!Next]_<<CallStatus, CallAnswer>>
  <2>1. ASSUME NEW actor \in Actors, Resume(actor) PROVE Call!Answer
    <3>1. answers = <<>> /\ Up
      BY <1>2, <2>1 DEF IInv, OneClaimant, Resume, Goes, NobodyResumes
    <3>2. answers' = <<Resumed(KindOf(actor))>>
      BY <2>1, <3>1 DEF Resume
    <3>3. answers' # <<>> /\ answers'[Len(answers')] = Resumed(KindOf(actor))
      BY <3>2
    <3>4. Resumed(KindOf(actor)).kind \in Call!Kinds
      BY DEF Resumed, KindOf, Call!Kinds
    <3> QED  BY <3>1, <3>3, <3>4 DEF Call!Answer, CallStatus, CallAnswer, Up
  <2>2. ASSUME \A actor \in Actors : ~Resume(actor) PROVE [Call!Next]_<<CallStatus, CallAnswer>>
    <3>1. answers' = answers
      BY <1>2, <2>2, OnlyResumesAnswer DEF IInv
    <3>2. CASE WriteRaises
      <4>1. pc["main"] # "down" /\ pc'["main"] = "down"
        BY <1>2, <3>2 DEF WriteRaises, Goes, IInv, Placed, TypeOK, Actors
      <4>2. CASE answers = <<>>
        BY <3>1, <4>1, <4>2 DEF Call!Next, Call!Lose, CallStatus, CallAnswer
      <4>3. CASE answers # <<>>
        BY <3>1, <4>3 DEF CallStatus, CallAnswer
      <4> QED  BY <4>2, <4>3
    <3>3. CASE ~WriteRaises
      <4>1. pc'["main"] = "down" <=> pc["main"] = "down"
        BY <1>2, <3>3, DownOnlyByWriting DEF IInv
      <4> QED  BY <3>1, <4>1 DEF CallStatus, CallAnswer
    <3> QED  BY <3>2, <3>3
  <2> QED  BY <2>1, <2>2 DEF Call!Next
<1> QED  BY Inductive, <1>1, <1>2, PTL DEF Spec, Call!Safety

-----------------------------------------------------------------------------
(* The application model.                                                   *)

(* The part of the type invariant the argument needs.                       *)
AppTyped ==
  /\ startedAt \in Owners
  /\ task \in [Runs -> {"none", "compiling", "comparing", "done"}]
  /\ overlapped \in BOOLEAN /\ replaced \in BOOLEAN

(* What spins does so on behalf of the newest run, which has still to end.  *)
NewestSpins ==
  /\ state = "compiling" => startedAt \in Runs /\ task[startedAt] = "compiling"
  /\ comparing => startedAt \in Runs /\ task[startedAt] \in {"compiling", "comparing"}

(* Without an overlap the newest run is the only one that may be compiling. *)
NewestCompiles == ~overlapped => \A n \in Runs : task[n] = "compiling" => n = startedAt

AppInv == AppTyped /\ NewestSpins /\ NewestCompiles /\ ComparisonIsOfLatestRun /\ ShownIsOfLatestRun

(* Runs are numbered from 1; 0 stands for none of them.                     *)
LEMMA RunBounds == Runs \subseteq Nat \ {0} /\ Runs \subseteq Owners
  BY DEF Runs, Owners

(* The application starts idle.                                             *)
LEMMA AppStarts == AppInit => AppInv
<1>1. 0 \in Owners
  BY BoundAssumption DEF Owners
<1> QED
  BY <1>1, RunBounds DEF AppInit, AppInv, AppTyped, NewestSpins, NewestCompiles, ComparisonIsOfLatestRun,
     ShownIsOfLatestRun, States, InFlight

-----------------------------------------------------------------------------
(* One lemma per operation.                                                 *)

(* A new run is the newest, and takes over what spins.                      *)
LEMMA BeginRunKeeps == AppInv /\ BeginRun => AppInv'
<1> SUFFICES ASSUME AppInv, BeginRun PROVE AppInv'
  OBVIOUS
<1> DEFINE n == startedAt + 1
<1>1. n \in Runs /\ n # 0 /\ startedAt' = n /\ n \in Owners
  BY RunBounds DEF BeginRun
<1>2. task' = [task EXCEPT ![n] = "compiling"] /\ task'[n] = "compiling"
  BY <1>1 DEF BeginRun, AppInv, AppTyped
<1>3. overlapped' = (InFlight("compiling") # {})
  BY DEF BeginRun
<1>4. NewestCompiles'
  <2> SUFFICES ASSUME ~overlapped', NEW m \in Runs, task'[m] = "compiling", m # n PROVE FALSE
    BY <1>1 DEF NewestCompiles
  <2>1. m \in InFlight("compiling")
    BY <1>1, <1>2 DEF AppInv, AppTyped, InFlight
  <2> QED  BY <1>3, <2>1
<1>5. AppTyped' /\ NewestSpins' /\ ComparisonIsOfLatestRun'
  BY <1>1, <1>2, <1>3 DEF BeginRun, AppInv, AppTyped, NewestSpins, ComparisonIsOfLatestRun
<1>6. ShownIsOfLatestRun'
  BY <1>1 DEF BeginRun, ShownIsOfLatestRun, States
<1> QED  BY <1>4, <1>5, <1>6 DEF AppInv

(* A compile that returned a result stores it, whoever is newest.           *)
LEMMA AcceptedKeeps == ASSUME AppInv, NEW n \in Runs, CompileAccepted(n) PROVE AppInv'
<1>1. AppTyped' /\ NewestSpins' /\ ComparisonIsOfLatestRun'
  BY DEF CompileAccepted, AppInv, AppTyped, NewestSpins, ComparisonIsOfLatestRun, history
<1>2. NewestCompiles'
  BY DEF CompileAccepted, AppInv, AppTyped, NewestCompiles, history
<1>3. ~overlapped => n = startedAt
  BY DEF CompileAccepted, AppInv, NewestCompiles
<1>4. ~overlapped => InFlight("compiling")' = {}
  BY <1>3 DEF CompileAccepted, AppInv, AppTyped, NewestCompiles, InFlight
<1>5. ShownIsOfLatestRun'
  BY <1>3, <1>4 DEF CompileAccepted, AppInv, ShownIsOfLatestRun, history, InFlight
<1> QED  BY <1>1, <1>2, <1>5 DEF AppInv

(* A rejected compile stops its own spinner only.                           *)
LEMMA RejectedKeeps == ASSUME AppInv, NEW n \in Runs, CompileRejected(n) PROVE AppInv'
<1>1. AppTyped' /\ NewestSpins' /\ ComparisonIsOfLatestRun'
  BY DEF CompileRejected, Rejected, StopComparing, Latest, AppInv, AppTyped, NewestSpins, ComparisonIsOfLatestRun, history
<1>2. NewestCompiles'
  BY DEF CompileRejected, AppInv, AppTyped, NewestCompiles, history
<1>3. ~overlapped => n = startedAt
  BY DEF CompileRejected, AppInv, NewestCompiles
<1>4. ~overlapped => InFlight("compiling")' = {}
  BY <1>3 DEF CompileRejected, AppInv, AppTyped, NewestCompiles, InFlight
<1>5. ShownIsOfLatestRun'
  BY <1>3, <1>4 DEF CompileRejected, Rejected, AppInv, ShownIsOfLatestRun, history, InFlight
<1> QED  BY <1>1, <1>2, <1>5 DEF AppInv

(* So does one whose service call threw.                                    *)
LEMMA ThrowsKeeps == ASSUME AppInv, NEW n \in Runs, CompileThrows(n) PROVE AppInv'
<1>1. AppTyped' /\ NewestSpins' /\ ComparisonIsOfLatestRun'
  BY DEF CompileThrows, StopComparing, Latest, AppInv, AppTyped, NewestSpins, ComparisonIsOfLatestRun, history
<1>2. NewestCompiles'
  BY DEF CompileThrows, AppInv, AppTyped, NewestCompiles, history
<1>3. ~overlapped => n = startedAt
  BY DEF CompileThrows, AppInv, NewestCompiles
<1>4. ~overlapped => InFlight("compiling")' = {}
  BY <1>3 DEF CompileThrows, AppInv, AppTyped, NewestCompiles, InFlight
<1>5. ShownIsOfLatestRun'
  BY <1>3, <1>4 DEF CompileThrows, AppInv, ShownIsOfLatestRun, history, InFlight, States
<1> QED  BY <1>1, <1>2, <1>5 DEF AppInv

(* A comparison is kept only if no run has begun since.                     *)
LEMMA EndRunKeeps == ASSUME AppInv, NEW n \in Runs, EndRun(n) PROVE AppInv'
<1>1. AppTyped' /\ NewestSpins' /\ ComparisonIsOfLatestRun'
  BY DEF EndRun, StopComparing, Latest, AppInv, AppTyped, NewestSpins, ComparisonIsOfLatestRun, history
<1>2. NewestCompiles'
  BY DEF EndRun, AppInv, AppTyped, NewestCompiles, history
<1>3. InFlight("compiling")' = InFlight("compiling")
  BY DEF EndRun, AppInv, AppTyped, InFlight
<1>4. ShownIsOfLatestRun'
  BY <1>3 DEF EndRun, AppInv, ShownIsOfLatestRun, history
<1> QED  BY <1>1, <1>2, <1>4 DEF AppInv

(* Loading another document leaves what is in flight in flight.             *)
LEMMA ReplaceKeeps == ASSUME AppInv, NEW text, Replace(text) PROVE AppInv'
  BY DEF Replace, AppInv, AppTyped, NewestSpins, NewestCompiles, ComparisonIsOfLatestRun, ShownIsOfLatestRun,
     States, InFlight

(* Steps that touch neither what is shown nor a task.                       *)
LEMMA AsideKeeps ==
  ASSUME AppInv, UNCHANGED <<state, shown, comparing, startedAt, task, history>>
  PROVE  AppInv'
  BY DEF shown, history, AppInv, AppTyped, NewestSpins, NewestCompiles, ComparisonIsOfLatestRun,
     ShownIsOfLatestRun, InFlight

(* Every step keeps the invariant.                                          *)
LEMMA AppKeeps == AppInv /\ [AppNext]_appVars => AppInv'
<1> SUFFICES ASSUME AppInv, [AppNext]_appVars PROVE AppInv'
  OBVIOUS
<1>1. ASSUME NEW text \in Documents, Type(text) PROVE AppInv'
  BY <1>1, AsideKeeps DEF Type
<1>2. ASSUME NEW n \in Runs, ComparisonEnds(n) PROVE AppInv'
  BY <1>2, AsideKeeps DEF ComparisonEnds
<1>3. CASE BeginBenchmark \/ EndBenchmark \/ UNCHANGED appVars
  BY <1>3, AsideKeeps DEF BeginBenchmark, EndBenchmark, appVars
<1> QED
  BY <1>1, <1>2, <1>3, BeginRunKeeps, AcceptedKeeps, RejectedKeeps, ThrowsKeeps, EndRunKeeps, ReplaceKeeps
  DEF AppNext, CompileAnswers

(* So it holds of every reachable state.                                    *)
LEMMA AppInvariant == AppSpec => []AppInv
<1>1. AppInit => AppInv
  BY AppStarts
<1> QED  BY <1>1, AppKeeps, PTL DEF AppSpec

-----------------------------------------------------------------------------
(* "Only keep it if no newer Run has started meanwhile": the comparison     *)
(* shown is never one a newer run has overtaken.                            *)
THEOREM LatestComparison == AppSpec => []ComparisonIsOfLatestRun
<1>1. AppInv => ComparisonIsOfLatestRun
  BY DEF AppInv
<1> QED  BY AppInvariant, <1>1, PTL

(* When the last run has ended, in whatever order they did, nothing spins.  *)
THEOREM Settles == AppSpec => []SettledWhenIdle
<1>1. AppInv => SettledWhenIdle
  BY DEF AppInv, NewestSpins, SettledWhenIdle, InFlight
<1> QED  BY AppInvariant, <1>1, PTL

(* Time, error, time-out, selection and result are the newest run's, unless *)
(* a run began while another compiled.                                      *)
THEOREM ShownIsLatest == AppSpec => []ShownIsOfLatestRun
<1>1. AppInv => ShownIsOfLatestRun
  BY DEF AppInv
<1> QED  BY AppInvariant, <1>1, PTL
=============================================================================
