------------------------------ MODULE Fixpoints ------------------------------
(***************************************************************************)
(* What a loop that repeats a step until nothing changes ends in, as a     *)
(* value: the work lists and rounds of src/cfg and src/ir that are not     *)
(* modelled step by step.                                                  *)
(***************************************************************************)

(* Where step leads from x, taken until it changes nothing.                 *)
Fixpoint(step, x) ==
  LET settle[y \in DOMAIN step] ==
        LET next == step[y] IN IF next = y THEN y ELSE settle[next]
  IN  settle[x]

(* What is reached from the elements of S, next[c] being one step from c.   *)
Closure(next, S) ==
  Fixpoint([X \in SUBSET DOMAIN next |-> X \cup UNION {next[c] : c \in X}], S)
=============================================================================
