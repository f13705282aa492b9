----------------------------- MODULE DataFlow -----------------------------
(***************************************************************************)
(* The equations of the data-flow framework (src/cfg/dataflow.cpp): one    *)
(* problem, parameterised by direction, meet, boundary value and gen/kill  *)
(* sets.                                                                   *)
(*                                                                         *)
(* A problem p is a record: p.size blocks numbered from 0, of which        *)
(* p.entry is the entry; p.preds[b] and p.succs[b]; p.forward and p.union  *)
(* (intersection otherwise); p.boundary and p.universe; p.gen[b] and       *)
(* p.kill[b].  The side of a block the meet feeds is called `met` (IN for  *)
(* a forward problem, OUT for a backward one) and the side the transfer    *)
(* function computes is called `flow`.                                     *)
(***************************************************************************)
EXTENDS Integers, FiniteSets, Fixpoints

BlockIds(p) == 0 .. p.size - 1

IsProblem(p) ==
  /\ p.size \in Nat \ {0}
  /\ p.entry \in BlockIds(p)
  /\ p.preds \in [BlockIds(p) -> SUBSET BlockIds(p)]
  /\ p.succs \in [BlockIds(p) -> SUBSET BlockIds(p)]
  /\ p.forward \in BOOLEAN
  /\ p.union \in BOOLEAN
  /\ IsFiniteSet(p.universe)
  /\ p.boundary \subseteq p.universe
  /\ p.gen \in [BlockIds(p) -> SUBSET p.universe]
  /\ p.kill \in [BlockIds(p) -> SUBSET p.universe]

Sources(p, b) == IF p.forward THEN p.preds[b] ELSE p.succs[b]

IsBoundary(p, b) == IF p.forward THEN b = p.entry ELSE p.succs[b] = {}

(* What the met side of a block holds before any visit.                     *)
SeedMet(p, b) ==
  IF IsBoundary(p, b) THEN p.boundary ELSE IF p.union THEN {} ELSE p.universe

\* Mutant of MeetOf: a union whatever the problem's meet.
MeetAlwaysUnion(p, b, flow) == {x \in p.universe : \E s \in Sources(p, b) : x \in flow[s]}

MeetOf(p, b, flow) ==
  IF p.union THEN {x \in p.universe : \E s \in Sources(p, b) : x \in flow[s]}
             ELSE {x \in p.universe : \A s \in Sources(p, b) : x \in flow[s]}

(* What a visit to b leaves on its met side: a boundary, and a block nothing *)
(* flows into, keep their seed.                                             *)
MetAt(p, b, flow) ==
  IF IsBoundary(p, b) \/ Sources(p, b) = {} THEN SeedMet(p, b) ELSE MeetOf(p, b, flow)

Transfer(p, b, x) == p.gen[b] \cup (x \ p.kill[b])

(* flow solves the problem's equations.                                     *)
IsSolution(p, flow) == \A b \in BlockIds(p) : flow[b] = Transfer(p, b, MetAt(p, b, flow))

(* All blocks visited at once.                                              *)
FlowRound(p, f) == [b \in BlockIds(p) |-> Transfer(p, b, MetAt(p, b, f))]

(* The solution reached from empty flow sides, all blocks advancing at once; *)
(* what the sweeps of solve() end in (see Solver).                          *)
SolveFlow(p) ==
  Fixpoint([f \in [BlockIds(p) -> SUBSET p.universe] |-> FlowRound(p, f)], [b \in BlockIds(p) |-> {}])

MetSides(p, flow) == [b \in BlockIds(p) |-> MetAt(p, b, flow)]
SolveMet(p)       == MetSides(p, SolveFlow(p))
=============================================================================
