----------------------------- MODULE ServiceCall -----------------------------
(***************************************************************************)
(* What the application expects of one call of CompilerService.run: once   *)
(* made it is answered, exactly once, with the output of the process, with *)
(* the time limit or with the error that kept it from being launched; or   *)
(* the application ends before it is.                                      *)
(***************************************************************************)
VARIABLES
  status,   \* "pending", "answered" or "lost"
  answer    \* how it was answered, "none" before

Kinds == {"output", "timedOut", "launchError"}

Init == status = "pending" /\ answer = "none"

Answer ==
  /\ status = "pending"
  /\ status' = "answered"
  /\ answer' \in Kinds

Lose ==
  /\ status = "pending"
  /\ status' = "lost"
  /\ UNCHANGED answer

Next == Answer \/ Lose

Safety == Init /\ [][Next]_<<status, answer>>

(* An answer, or the end of the application, comes in the end.              *)
Progress == WF_<<status, answer>>(Next)

Spec == Safety /\ Progress
=============================================================================
