------------------------------- MODULE Solver -------------------------------
(***************************************************************************)
(* solve() of src/cfg/dataflow.cpp as a state machine: it sweeps over the  *)
(* blocks in index order, one visit per step, until a whole sweep leaves   *)
(* every flow side as it was or the iteration cap is reached.              *)
(***************************************************************************)
EXTENDS DataFlow

CONSTANTS
  Problems,       \* the problems an instance may be given
  IterationCap    \* solve()'s defensive cap

ASSUME ProblemAssumption == \A p \in Problems : IsProblem(p)
ASSUME CapAssumption == IterationCap \in Nat \ {0}

VARIABLES
  problem,   \* the problem being solved
  met,       \* met[b]: IN of a forward problem, OUT of a backward one
  flow,      \* flow[b]: the other side
  at,        \* the block visited next; problem.size when the sweep is over
  changed,   \* has this sweep changed a flow side
  iter       \* sweeps begun

vars == <<problem, met, flow, at, changed, iter>>

TypeOK ==
  /\ IsProblem(problem)
  /\ met \in [BlockIds(problem) -> SUBSET problem.universe]
  /\ flow \in [BlockIds(problem) -> SUBSET problem.universe]
  /\ at \in 0 .. problem.size
  /\ changed \in BOOLEAN
  /\ iter \in 1 .. IterationCap

\* Mutant of Init: the flow sides seeded with every fact.
InitFull ==
  /\ problem \in Problems
  /\ met = [b \in BlockIds(problem) |-> SeedMet(problem, b)]
  /\ flow = [b \in BlockIds(problem) |-> problem.universe]
  /\ at = 0
  /\ changed = FALSE
  /\ iter = 1

Init ==
  /\ problem \in Problems
  /\ met = [b \in BlockIds(problem) |-> SeedMet(problem, b)]
  /\ flow = [b \in BlockIds(problem) |-> {}]
  /\ at = 0
  /\ changed = FALSE
  /\ iter = 1

\* Mutants of VisitBlock.
VisitMarksAlways ==   \* `changed` set whether or not the flow side moved
  /\ at < problem.size
  /\ met' = [met EXCEPT ![at] = MetAt(problem, at, flow)]
  /\ flow' = [flow EXCEPT ![at] = Transfer(problem, at, met'[at])]
  /\ changed' = TRUE
  /\ at' = at + 1
  /\ UNCHANGED <<problem, iter>>

VisitForgetsChange ==   \* `changed` of the last block visited only
  /\ at < problem.size
  /\ met' = [met EXCEPT ![at] = MetAt(problem, at, flow)]
  /\ flow' = [flow EXCEPT ![at] = Transfer(problem, at, met'[at])]
  /\ changed' = (flow' # flow)
  /\ at' = at + 1
  /\ UNCHANGED <<problem, iter>>

VisitComparesMet ==   \* the side the meet feeds is compared instead
  /\ at < problem.size
  /\ met' = [met EXCEPT ![at] = MetAt(problem, at, flow)]
  /\ flow' = [flow EXCEPT ![at] = Transfer(problem, at, met'[at])]
  /\ changed' = (changed \/ met' # met)
  /\ at' = at + 1
  /\ UNCHANGED <<problem, iter>>

(* One turn of the inner loop.                                              *)
VisitBlock ==
  LET in  == MetAt(problem, at, flow)
      out == Transfer(problem, at, in)
  IN  /\ at < problem.size
      /\ met' = [met EXCEPT ![at] = in]
      /\ flow' = [flow EXCEPT ![at] = out]
      /\ changed' = (changed \/ out # flow[at])
      /\ at' = at + 1
      /\ UNCHANGED <<problem, iter>>

\* Mutants of NextSweep.
SweepPastCap ==   \* the loop tests neither `changed` nor a strict cap
  /\ at = problem.size
  /\ iter <= IterationCap
  /\ at' = 0
  /\ changed' = FALSE
  /\ iter' = iter + 1
  /\ UNCHANGED <<problem, met, flow>>

SweepStartsOver ==   \* the flow sides are cleared again by every sweep
  /\ at = problem.size
  /\ changed
  /\ iter < IterationCap
  /\ at' = 0
  /\ changed' = FALSE
  /\ iter' = iter + 1
  /\ flow' = [b \in BlockIds(problem) |-> {}]
  /\ UNCHANGED <<problem, met>>

(* The outer loop goes round again.                                         *)
NextSweep ==
  /\ at = problem.size
  /\ changed
  /\ iter < IterationCap
  /\ at' = 0
  /\ changed' = FALSE
  /\ iter' = iter + 1
  /\ UNCHANGED <<problem, met, flow>>

Next == VisitBlock \/ NextSweep

Spec == Init /\ [][Next]_vars /\ WF_vars(Next)

Done == at = problem.size /\ (~changed \/ iter = IterationCap)

(* The loop ended because a sweep changed nothing.                          *)
Converged == at = problem.size /\ ~changed

-----------------------------------------------------------------------------
(* Properties *)

(* Where a path begins, and the blocks one step before b on one: nothing    *)
(* flows into a boundary.                                                   *)
Begins(p, b) == IsBoundary(p, b) \/ Sources(p, b) = {}
Before(p, b) == IF IsBoundary(p, b) THEN {} ELSE Sources(p, b)

(* The blocks that leave a fact as it is.                                   *)
Carriers(p, x) == {b \in BlockIds(p) : x \notin p.gen[b] /\ x \notin p.kill[b]}

(* b and the blocks a path to it comes from along which x is not touched.   *)
Back(p, b, x) == Closure([c \in BlockIds(p) |-> Before(p, c) \cap Carriers(p, x)], {b})

(* A path brings x in at b, or is where it is lost.                         *)
Brings(p, b, x) == \/ Begins(p, b) /\ x \in SeedMet(p, b)
                   \/ \E s \in Before(p, b) : x \in p.gen[s]
Loses(p, b, x)  == \/ Begins(p, b) /\ x \notin SeedMet(p, b)
                   \/ \E s \in Before(p, b) : x \notin p.gen[s] /\ x \in p.kill[s]

(* The facts that really hold at b, by the paths of the graph rather than   *)
(* by the equations: for a union meet some path brings the fact in, for an  *)
(* intersection no path misses it, having started without it or passed a    *)
(* block that kills it with nothing to restore it.                          *)
ArrivesAlong(p, b, x) == \E c \in Back(p, b, x) : Brings(p, c, x)
LostAlong(p, b, x)    == \E c \in Back(p, b, x) : Loses(p, c, x)

(* With a union meet the solver computes exactly the facts some path brings *)
(* to a block: no definition or use is missed and none is invented.         *)
UnionIsExact ==
  Converged /\ problem.union =>
    \A b \in BlockIds(problem) : met[b] = {x \in problem.universe : ArrivesAlong(problem, b, x)}

(* With an intersection meet it never claims a fact some path lacks.        *)
IntersectionIsSafe ==
  Converged /\ ~problem.union =>
    \A b \in BlockIds(problem) : \A x \in met[b] : ~LostAlong(problem, b, x)

(* Blocks some path from the entry leads to.                                *)
Reached(p) == Closure(p.succs, {p.entry})

(* What the comment on DataFlowSpec::universe promises of an intersection,   *)
(* for graphs without dead blocks: a fact that holds along every path into  *)
(* a block is found.                                                        *)
IntersectionIsPrecise ==
  Done /\ ~problem.union /\ Reached(problem) = BlockIds(problem) =>
    \A b \in BlockIds(problem) : \A x \in problem.universe : LostAlong(problem, b, x) \/ x \in met[b]

(* The result does not depend on the order blocks are visited in: it is the *)
(* solution the analyses of module Passes use.                              *)
OrderDoesNotMatter ==
  Converged => flow = SolveFlow(problem) /\ met = SolveMet(problem)

(* Whatever the meet, the solver ends in a solution of the equations, and in *)
(* the least one: the union analyses invent no fact, and the intersection   *)
(* analysis pays for its empty seed with the facts around a loop.           *)
LeastSolution ==
  Converged =>
    /\ IsSolution(problem, flow)
    /\ met = [b \in BlockIds(problem) |-> MetAt(problem, b, flow)]
    /\ \A other \in [BlockIds(problem) -> SUBSET problem.universe] :
         IsSolution(problem, other) => \A b \in BlockIds(problem) : flow[b] \subseteq other[b]

(* A flow side only ever grows, the reason the sweeps end.                  *)
FlowGrows == [][\A b \in BlockIds(problem) : flow[b] \subseteq flow'[b]]_vars

(* "An iteration cap is included as a defensive diagnostic only": every     *)
(* problem is solved, by a sweep that changed nothing, before the cap.      *)
Converges == <>Converged
=============================================================================
