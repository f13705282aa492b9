------------------------------ MODULE MCSolver ------------------------------
(* Every gen/kill problem over one fact on the graphs of an entry block and *)
(* three blocks with at most two successors each.  Facts do not interact in *)
(* a gen/kill problem, so one fact loses nothing but the interleaving of    *)
(* two facts' changes within a sweep.  Only reaching definitions, a forward *)
(* union, has a boundary value.                                             *)
EXTENDS Solver, FiniteSetsExt

CONSTANTS
  Inner,      \* the blocks besides the entry
  Meets,      \* is the meet a union: a set of Booleans
  Directions, \* is the problem a forward one: a set of Booleans
  Boundaries  \* the values the boundary may hold

Edges == {S \in SUBSET Inner : Cardinality(S) <= 2}

MCProblems ==
  LET ids == {0} \cup Inner
      graphs == {[b \in ids |-> IF b = 0 THEN {1} ELSE s[b]] : s \in [Inner -> Edges]}
      effects == [Inner -> {"none", "gen", "kill"}]
      kinds == {k \in Directions \X Meets \X Boundaries : k[3] = {} \/ (k[1] /\ k[2])}
  IN  {[size |-> Cardinality(ids), entry |-> 0, succs |-> g,
        preds |-> [b \in ids |-> {c \in ids : b \in g[c]}],
        forward |-> k[1], union |-> k[2], boundary |-> k[3], universe |-> {"x"},
        gen |-> [b \in ids |-> IF b # 0 /\ e[b] = "gen" THEN {"x"} ELSE {}],
        kill |-> [b \in ids |-> IF b # 0 /\ e[b] = "kill" THEN {"x"} ELSE {}]] :
          g \in graphs, e \in effects, k \in kinds}
=============================================================================
