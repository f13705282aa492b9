---------------------------- MODULE SolverProofs ----------------------------
(***************************************************************************)
(* Proofs about Solver, for every set of problems and every cap: the types *)
(* are right, flow sides only grow, when a sweep changes nothing the flow  *)
(* sides are the least solution of the problem's equations, and this holds *)
(* the facts the paths of the graph bring, no other and none missing.      *)
(***************************************************************************)
EXTENDS Solver, GraphProofs

-----------------------------------------------------------------------------
(* Lemmas about the equations *)

(* The met side of a block is a set of the problem's facts.                 *)
LEMMA MetAtType ==
  ASSUME NEW p, IsProblem(p), NEW b \in BlockIds(p), NEW f
  PROVE  MetAt(p, b, f) \subseteq p.universe
BY DEF MetAt, MeetOf, SeedMet, IsProblem

(* The transfer function stays within the problem's facts.                  *)
LEMMA TransferType ==
  ASSUME NEW p, IsProblem(p), NEW b \in BlockIds(p), NEW x, x \subseteq p.universe
  PROVE  Transfer(p, b, x) \subseteq p.universe
<1>1. p.gen[b] \subseteq p.universe
  BY DEF IsProblem
<1> QED BY <1>1 DEF Transfer

(* A problem has at least one block.                                        *)
LEMMA SizeType ==
  ASSUME NEW p, IsProblem(p)
  PROVE  p.size \in Nat \ {0} /\ p.size \in Int
BY DEF IsProblem

(* The sources of a block are blocks.                                       *)
LEMMA SourcesType ==
  ASSUME NEW p, IsProblem(p), NEW b \in BlockIds(p)
  PROVE  Sources(p, b) \subseteq BlockIds(p)
BY DEF IsProblem, Sources

(* More on the flow sides never means less after the meet and the transfer. *)
LEMMA Monotone ==
  ASSUME NEW p, IsProblem(p), NEW b \in BlockIds(p), NEW f, NEW g,
         \A c \in BlockIds(p) : f[c] \subseteq g[c]
  PROVE  Transfer(p, b, MetAt(p, b, f)) \subseteq Transfer(p, b, MetAt(p, b, g))
<1>1. \A c \in Sources(p, b) : f[c] \subseteq g[c]
  BY SourcesType
<1>2. MetAt(p, b, f) \subseteq MetAt(p, b, g)
  BY <1>1 DEF MetAt, MeetOf
<1> QED BY <1>2 DEF Transfer

-----------------------------------------------------------------------------
(* Types *)

(* Every reachable state of solve() is well typed.                          *)
LEMMA TypeStep == TypeOK /\ [Next]_vars => TypeOK'
<1> SUFFICES ASSUME TypeOK, [Next]_vars PROVE TypeOK'
  OBVIOUS
<1>1. CASE VisitBlock
  <2>1. at \in BlockIds(problem)
    BY <1>1 DEF VisitBlock, TypeOK, BlockIds, IsProblem
  <2>2. MetAt(problem, at, flow) \subseteq problem.universe
    BY <2>1, MetAtType DEF TypeOK
  <2>3. Transfer(problem, at, MetAt(problem, at, flow)) \subseteq problem.universe
    BY <2>1, <2>2, TransferType DEF TypeOK
  <2>4. problem' = problem /\ iter' = iter /\ at' = at + 1 /\ changed' \in BOOLEAN
    BY <1>1 DEF VisitBlock, TypeOK
  <2>5. /\ met' = [met EXCEPT ![at] = MetAt(problem, at, flow)]
        /\ flow' = [flow EXCEPT ![at] = Transfer(problem, at, MetAt(problem, at, flow))]
    BY <1>1 DEF VisitBlock
  <2>6. met' \in [BlockIds(problem) -> SUBSET problem.universe]
    BY <2>2, <2>5 DEF TypeOK
  <2>7. flow' \in [BlockIds(problem) -> SUBSET problem.universe]
    BY <2>3, <2>5 DEF TypeOK
  <2>8. at' \in 0 .. problem.size
    BY <1>1, <2>4 DEF VisitBlock, TypeOK, IsProblem
  <2> QED BY <2>4, <2>6, <2>7, <2>8 DEF TypeOK
<1>2. CASE NextSweep
  <2>1. problem.size \in Nat
    BY SizeType DEF TypeOK
  <2>2. IsProblem(problem') /\ problem' = problem /\ at' = 0 /\ met' = met /\ flow' = flow
    BY <1>2 DEF NextSweep, TypeOK
  <2>3. at' \in 0 .. problem'.size
    BY <2>1, <2>2
  <2>4. iter \in 1 .. IterationCap /\ iter < IterationCap /\ iter' = iter + 1
    BY <1>2 DEF NextSweep, TypeOK
  <2>5. iter' \in 1 .. IterationCap
    BY <2>4, CapAssumption
  <2>6. changed' \in BOOLEAN
    BY <1>2 DEF NextSweep
  <2> QED BY <2>2, <2>3, <2>5, <2>6 DEF TypeOK
<1>3. CASE UNCHANGED vars
  BY <1>3 DEF vars, TypeOK
<1> QED BY <1>1, <1>2, <1>3 DEF Next

(* solve() starts well typed.                                               *)
LEMMA TypeInit == Init => TypeOK
<1> SUFFICES ASSUME Init PROVE TypeOK
  OBVIOUS
<1>1. IsProblem(problem)
  BY ProblemAssumption DEF Init
<1>2. met \in [BlockIds(problem) -> SUBSET problem.universe]
  BY <1>1 DEF Init, SeedMet, IsProblem
<1>3. flow \in [BlockIds(problem) -> SUBSET problem.universe]
  BY DEF Init
<1>4. at \in 0 .. problem.size /\ iter \in 1 .. IterationCap
  BY <1>1, SizeType, CapAssumption DEF Init
<1>5. changed \in BOOLEAN
  BY DEF Init
<1> QED BY <1>1, <1>2, <1>3, <1>4, <1>5 DEF TypeOK

(* Every reachable state of solve() is well typed: in particular the sweep   *)
(* never leaves the blocks and never begins more sweeps than the cap.       *)
THEOREM TypeCorrect == Spec => []TypeOK
<1> QED BY TypeInit, TypeStep, PTL DEF Spec

-----------------------------------------------------------------------------
(* Growth *)

(* What visiting any block would give is never less than what it holds.     *)
Ascending ==
  \A b \in BlockIds(problem) : flow[b] \subseteq Transfer(problem, b, MetAt(problem, b, flow))

(* One visit only adds to the block's flow side.                            *)
LEMMA VisitGrows ==
  ASSUME TypeOK, Ascending, VisitBlock
  PROVE  \A b \in BlockIds(problem) : flow[b] \subseteq flow'[b]
<1>1. at \in BlockIds(problem)
  BY DEF VisitBlock, TypeOK, BlockIds, IsProblem
<1>2. flow' = [flow EXCEPT ![at] = Transfer(problem, at, MetAt(problem, at, flow))]
  BY DEF VisitBlock
<1>3. flow[at] \subseteq Transfer(problem, at, MetAt(problem, at, flow))
  BY <1>1 DEF Ascending
<1> QED BY <1>2, <1>3 DEF TypeOK

(* No step leaves a flow side above what a visit would give it.             *)
LEMMA AscendingStep == TypeOK /\ Ascending /\ [Next]_vars => Ascending'
<1> SUFFICES ASSUME TypeOK, Ascending, [Next]_vars PROVE Ascending'
  OBVIOUS
<1>1. CASE VisitBlock
  <2>1. problem' = problem
    BY <1>1 DEF VisitBlock
  <2>2. \A b \in BlockIds(problem) : flow[b] \subseteq flow'[b]
    BY <1>1, VisitGrows
  <2>3. ASSUME NEW b \in BlockIds(problem)
        PROVE  flow'[b] \subseteq Transfer(problem, b, MetAt(problem, b, flow'))
    <3>1. Transfer(problem, b, MetAt(problem, b, flow)) \subseteq Transfer(problem, b, MetAt(problem, b, flow'))
      BY <2>2, Monotone DEF TypeOK
    <3>2. flow'[b] = flow[b] \/ flow'[b] = Transfer(problem, b, MetAt(problem, b, flow))
      BY <1>1 DEF VisitBlock, TypeOK
    <3> QED BY <3>1, <3>2 DEF Ascending
  <2> QED BY <2>1, <2>3 DEF Ascending
<1>2. CASE NextSweep
  BY <1>2 DEF NextSweep, Ascending
<1>3. CASE UNCHANGED vars
  BY <1>3 DEF vars, Ascending
<1> QED BY <1>1, <1>2, <1>3 DEF Next

(* Empty flow sides are below anything.                                     *)
LEMMA AscendingInit == Init => Ascending
BY DEF Init, Ascending

(* A flow side only ever grows, for either meet and any gen and kill sets.   *)
THEOREM FlowOnlyGrows == Spec => FlowGrows
<1>1. TypeOK /\ Ascending /\ [Next]_vars => [\A b \in BlockIds(problem) : flow[b] \subseteq flow'[b]]_vars
  <2> SUFFICES ASSUME TypeOK, Ascending, [Next]_vars
               PROVE  [\A b \in BlockIds(problem) : flow[b] \subseteq flow'[b]]_vars
    OBVIOUS
  <2>1. CASE VisitBlock
    BY <2>1, VisitGrows
  <2>2. CASE NextSweep
    BY <2>2 DEF NextSweep
  <2>3. CASE UNCHANGED vars
    BY <2>3
  <2> QED BY <2>1, <2>2, <2>3 DEF Next
<1> QED BY <1>1, TypeInit, TypeStep, AscendingInit, AscendingStep, PTL DEF Spec, FlowGrows

-----------------------------------------------------------------------------
(* The least solution *)

(* No flow side exceeds that of any solution.                               *)
Below ==
  \A other \in [BlockIds(problem) -> SUBSET problem.universe] :
    IsSolution(problem, other) => \A b \in BlockIds(problem) : flow[b] \subseteq other[b]

(* While a sweep has changed nothing, the blocks it has passed are settled. *)
Settled ==
  ~changed => \A b \in BlockIds(problem) : b < at =>
    /\ met[b] = MetAt(problem, b, flow)
    /\ flow[b] = Transfer(problem, b, MetAt(problem, b, flow))

(* No step takes a flow side above a solution.                              *)
LEMMA BelowStep == TypeOK /\ Below /\ [Next]_vars => Below'
<1> SUFFICES ASSUME TypeOK, Below, [Next]_vars PROVE Below'
  OBVIOUS
<1>1. CASE VisitBlock
  <2>1. problem' = problem
    BY <1>1 DEF VisitBlock
  <2>2. at \in BlockIds(problem)
    BY <1>1 DEF VisitBlock, TypeOK, BlockIds, IsProblem
  <2>3. ASSUME NEW other \in [BlockIds(problem) -> SUBSET problem.universe],
               IsSolution(problem, other),
               NEW b \in BlockIds(problem)
        PROVE  flow'[b] \subseteq other[b]
    <3>1. \A c \in BlockIds(problem) : flow[c] \subseteq other[c]
      BY <2>3 DEF Below
    <3>2. Transfer(problem, at, MetAt(problem, at, flow)) \subseteq other[at]
      <4>1. Transfer(problem, at, MetAt(problem, at, flow)) \subseteq Transfer(problem, at, MetAt(problem, at, other))
        BY <2>2, <3>1, Monotone DEF TypeOK
      <4> QED BY <2>2, <2>3, <4>1 DEF IsSolution
    <3> QED BY <1>1, <3>1, <3>2 DEF VisitBlock, TypeOK
  <2> QED BY <2>1, <2>3 DEF Below
<1>2. CASE NextSweep
  BY <1>2 DEF NextSweep, Below
<1>3. CASE UNCHANGED vars
  BY <1>3 DEF vars, Below
<1> QED BY <1>1, <1>2, <1>3 DEF Next

(* No step of a sweep that has changed nothing unsettles a block it has passed. *)
LEMMA SettledStep == TypeOK /\ Settled /\ [Next]_vars => Settled'
<1> SUFFICES ASSUME TypeOK, Settled, [Next]_vars PROVE Settled'
  OBVIOUS
<1>1. CASE VisitBlock
  <2> SUFFICES ASSUME ~changed', NEW b \in BlockIds(problem), b < at + 1
               PROVE  /\ met'[b] = MetAt(problem, b, flow')
                      /\ flow'[b] = Transfer(problem, b, MetAt(problem, b, flow'))
    BY <1>1 DEF VisitBlock, Settled
  <2>1. ~changed /\ Transfer(problem, at, MetAt(problem, at, flow)) = flow[at]
    BY <1>1 DEF VisitBlock
  <2>2. flow' = flow
    BY <1>1, <2>1 DEF VisitBlock, TypeOK
  <2>3. met' = [met EXCEPT ![at] = MetAt(problem, at, flow)]
    BY <1>1 DEF VisitBlock
  <2>4. b \in Int /\ at \in Int
    BY DEF TypeOK, BlockIds, IsProblem
  <2>5. CASE b = at
    BY <2>1, <2>2, <2>3, <2>5 DEF TypeOK
  <2>6. CASE b < at
    BY <2>1, <2>2, <2>3, <2>4, <2>6 DEF TypeOK, Settled
  <2> QED BY <2>4, <2>5, <2>6
<1>2. CASE NextSweep
  BY <1>2 DEF NextSweep, Settled, BlockIds, TypeOK, IsProblem
<1>3. CASE UNCHANGED vars
  BY <1>3 DEF vars, Settled
<1> QED BY <1>1, <1>2, <1>3 DEF Next

(* Empty flow sides are below every solution, and no block has been passed. *)
LEMMA BelowSettledInit == Init => Below /\ Settled
<1> SUFFICES ASSUME Init PROVE Below /\ Settled
  OBVIOUS
<1>1. Below
  BY DEF Init, Below
<1>2. Settled
  BY ProblemAssumption DEF Init, Settled, BlockIds, IsProblem
<1> QED BY <1>1, <1>2

(* A sweep that changed nothing has settled every block: a solution, below all. *)
LEMMA SettledIsLeast == TypeOK /\ Below /\ Settled => LeastSolution
<1> SUFFICES ASSUME TypeOK, Below, Settled, Converged
             PROVE  /\ IsSolution(problem, flow)
                    /\ met = [b \in BlockIds(problem) |-> MetAt(problem, b, flow)]
                    /\ \A other \in [BlockIds(problem) -> SUBSET problem.universe] :
                         IsSolution(problem, other) => \A b \in BlockIds(problem) : flow[b] \subseteq other[b]
  BY DEF LeastSolution
<1>1. \A b \in BlockIds(problem) : b < at
  BY DEF Converged, BlockIds, TypeOK, IsProblem
<1>2. \A b \in BlockIds(problem) :
        /\ met[b] = MetAt(problem, b, flow)
        /\ flow[b] = Transfer(problem, b, MetAt(problem, b, flow))
  BY <1>1 DEF Settled, Converged
<1>3. met = [b \in BlockIds(problem) |-> MetAt(problem, b, flow)]
  BY <1>2 DEF TypeOK
<1> QED BY <1>2, <1>3 DEF IsSolution, Below

(* When the sweeps end by themselves, the flow sides are the least solution  *)
(* of the equations, whatever the order and number of the visits.           *)
THEOREM SolvesLeast == Spec => []LeastSolution
<1>1. Init => TypeOK /\ Below /\ Settled
  BY TypeInit, BelowSettledInit
<1>2. TypeOK /\ Below /\ Settled /\ [Next]_vars => (TypeOK /\ Below /\ Settled)'
  BY TypeStep, BelowStep, SettledStep
<1> QED BY <1>1, <1>2, SettledIsLeast, PTL DEF Spec

-----------------------------------------------------------------------------
(* The order of the visits *)

Flows(p) == [BlockIds(p) -> SUBSET p.universe]

(* A round of all blocks gives facts of the universe.                       *)
LEMMA RoundType ==
  ASSUME NEW p, IsProblem(p), NEW f
  PROVE  FlowRound(p, f) \in Flows(p)
<1>1. \A b \in BlockIds(p) : Transfer(p, b, MetAt(p, b, f)) \in SUBSET p.universe
  BY MetAtType, TransferType
<1> QED  BY <1>1 DEF FlowRound, Flows

(* More facts before a round never mean fewer after it.                     *)
LEMMA RoundMonotone ==
  ASSUME NEW p, IsProblem(p), NEW f \in Flows(p), NEW g \in Flows(p), Under(f, g)
  PROVE  Under(FlowRound(p, f), FlowRound(p, g))
<1>1. \A b \in BlockIds(p) : f[b] \subseteq g[b]
  BY DEF Under, Flows
<1>2. \A b \in BlockIds(p) : Transfer(p, b, MetAt(p, b, f)) \subseteq Transfer(p, b, MetAt(p, b, g))
  BY <1>1, Monotone
<1> QED  BY <1>2 DEF FlowRound, Under

(* The solutions are what a round leaves as it is.                          *)
LEMMA SolutionIsFixed ==
  ASSUME NEW p, IsProblem(p), NEW f \in Flows(p)
  PROVE  IsSolution(p, f) <=> FlowRound(p, f) = f
<1>1. FlowRound(p, f) = f <=> \A b \in BlockIds(p) : FlowRound(p, f)[b] = f[b]
  BY RoundType DEF Flows
<1> QED  BY <1>1 DEF FlowRound, IsSolution

(* A problem has finitely many blocks and facts.                            *)
LEMMA FiniteProblem ==
  ASSUME NEW p, IsProblem(p)
  PROVE  IsFiniteSet(BlockIds(p)) /\ IsFiniteSet(p.universe)
<1>1. 0 \in Int /\ p.size - 1 \in Int
  BY SizeType
<1> QED  BY <1>1, FS_Interval DEF BlockIds, IsProblem

(* All blocks advancing at once, from nothing, also end in the least        *)
(* solution.                                                                *)
LEMMA SolveFlowIsLeast ==
  ASSUME NEW p, IsProblem(p)
  PROVE  /\ SolveFlow(p) \in Flows(p)
         /\ IsSolution(p, SolveFlow(p))
         /\ \A other \in Flows(p) : IsSolution(p, other) => Under(SolveFlow(p), other)
<1> DEFINE M == Flows(p)
           step == [f \in M |-> FlowRound(p, f)]
           x == [b \in BlockIds(p) |-> {}]
<1>1. SolveFlow(p) = Fixpoint(step, x)
  BY DEF SolveFlow, Flows
<1>2. step \in [M -> M] /\ \A f \in M : step[f] = FlowRound(p, f)
  BY RoundType
<1>3. x \in M /\ \A f \in M : Under(x, f)
  BY DEF Flows, Under
<1>4. \A f, g \in M : Under(f, g) => Under(step[f], step[g])
  BY <1>2, RoundMonotone
<1>5. Under(x, step[x])
  BY <1>2, <1>3
<1>6. MonotoneStep(BlockIds(p), p.universe, M, step)
  BY <1>2, <1>4, FiniteProblem DEF MonotoneStep, Flows
<1>7. x \in M
  BY <1>3
<1> HIDE DEF M, step, x
<1>8. /\ Fixpoint(step, x) \in M
      /\ step[Fixpoint(step, x)] = Fixpoint(step, x)
      /\ \A w \in M : step[w] = w /\ Under(x, w) => Under(Fixpoint(step, x), w)
  BY ONLY <1>5, <1>6, <1>7, LeastFixpoint
<1>9. \A f \in M : IsSolution(p, f) <=> step[f] = f
  BY <1>2, SolutionIsFixed DEF M
<1>10. \A w \in M : IsSolution(p, w) => Under(Fixpoint(step, x), w)
  BY <1>3, <1>8, <1>9
<1> QED  BY <1>1, <1>8, <1>9, <1>10 DEF M

(* There is one least solution, so both ways of getting there meet.         *)
LEMMA LeastIsOrderless == TypeOK /\ LeastSolution => OrderDoesNotMatter
<1> SUFFICES ASSUME TypeOK, LeastSolution, Converged
             PROVE  flow = SolveFlow(problem) /\ met = SolveMet(problem)
  BY DEF OrderDoesNotMatter
<1>1. IsProblem(problem) /\ flow \in Flows(problem)
  BY DEF TypeOK, Flows
<1>2. /\ IsSolution(problem, flow)
      /\ met = [b \in BlockIds(problem) |-> MetAt(problem, b, flow)]
      /\ \A other \in Flows(problem) :
           IsSolution(problem, other) => \A b \in BlockIds(problem) : flow[b] \subseteq other[b]
  BY DEF LeastSolution, Flows
<1>3. /\ SolveFlow(problem) \in Flows(problem) /\ IsSolution(problem, SolveFlow(problem))
      /\ \A b \in BlockIds(problem) : SolveFlow(problem)[b] \subseteq flow[b]
  BY <1>1, <1>2, SolveFlowIsLeast DEF Under, Flows
<1>4. \A b \in BlockIds(problem) : flow[b] = SolveFlow(problem)[b]
  BY <1>2, <1>3
<1>5. flow = SolveFlow(problem)
  BY <1>1, <1>3, <1>4 DEF Flows
<1> QED  BY <1>2, <1>5 DEF SolveMet, MetSides

(* The result is that of visiting all blocks at once, whatever order the    *)
(* sweeps take: what the analyses of the other modules take it for.         *)
THEOREM OrderIsImmaterial == Spec => []OrderDoesNotMatter
BY TypeCorrect, SolvesLeast, LeastIsOrderless, PTL

-----------------------------------------------------------------------------
(* The paths *)

(* A block is its own path, and what is behind a block one step before it is *)
(* behind it; nothing else is.                                              *)
LEMMA BackUnfold ==
  ASSUME NEW p, IsProblem(p), NEW b \in BlockIds(p), NEW x, NEW c
  PROVE  c \in Back(p, b, x) <=>
           c = b \/ \E s \in Before(p, b) \cap Carriers(p, x) : c \in Back(p, s, x)
<1> DEFINE N == BlockIds(p)
           next == [d \in N |-> Before(p, d) \cap Carriers(p, x)]
           Behind(s) == Closure(next, {s})
           T == {b} \cup UNION {Behind(s) : s \in next[b]}
<1>1. IsFiniteSet(N) /\ next \in [N -> SUBSET N]
  <2>1. \A d \in N : Before(p, d) \subseteq N
    BY SourcesType DEF Before
  <2> QED  BY <2>1, FiniteProblem
<1>2. \A s : Back(p, s, x) = Behind(s)
  BY DEF Back
<1>3. next[b] = Before(p, b) \cap Carriers(p, x)
  OBVIOUS
<1> HIDE DEF N, next
<1>4. \A S \in SUBSET N : /\ Closure(next, S) \in SUBSET N
                          /\ S \subseteq Closure(next, S)
                          /\ Closed(next, Closure(next, S))
                          /\ \A U \in SUBSET N : S \subseteq U /\ Closed(next, U) => Closure(next, S) \subseteq U
  BY <1>1, ClosureIsLeast
<1>5. b \in N
  BY DEF N
<1>6. \A s \in N : /\ Behind(s) \in SUBSET N
                   /\ s \in Behind(s)
                   /\ Closed(next, Behind(s))
                   /\ \A U \in SUBSET N : s \in U /\ Closed(next, U) => Behind(s) \subseteq U
  BY <1>4
<1>7. next[b] \in SUBSET N
  BY <1>1, <1>5
<1>8. T \in SUBSET N /\ Closed(next, T)
  <2>1. \A s \in next[b] : Behind(s) \subseteq N /\ s \in Behind(s)
    BY <1>6, <1>7
  <2> HIDE DEF Behind
  <2>2. T \in SUBSET N /\ next[b] \subseteq T
    BY ONLY <1>5, <2>1
  <2>3. ASSUME NEW d \in T PROVE next[d] \subseteq T
    <3>1. CASE d = b
      BY <2>2, <3>1
    <3>2. ASSUME NEW s \in next[b], d \in Behind(s) PROVE next[d] \subseteq Behind(s)
      BY <1>6, <1>7, <3>2 DEF Closed
    <3> QED  BY <3>1, <3>2
  <2> QED  BY <2>2, <2>3 DEF Closed
<1>9. Behind(b) \subseteq T
  BY <1>5, <1>6, <1>8
<1>10. ASSUME NEW s \in next[b] PROVE Behind(s) \subseteq Behind(b)
  <2>1. s \in Behind(b)
    BY <1>5, <1>6, <1>10 DEF Closed
  <2> QED  BY <1>5, <1>6, <1>7, <2>1
<1>11. b \in Behind(b)
  BY <1>5, <1>6
<1>12. c \in Behind(b) <=> c = b \/ \E s \in next[b] : c \in Behind(s)
  BY <1>9, <1>10, <1>11
<1> QED  BY <1>2, <1>3, <1>12

(* What holds of b, and goes from a block to those one step before it that  *)
(* do not touch x, holds of all blocks behind b.                            *)
LEMMA BackInduction ==
  ASSUME NEW p, IsProblem(p), NEW b \in BlockIds(p), NEW x, NEW T \in SUBSET BlockIds(p), b \in T,
         \A c \in T : Before(p, c) \cap Carriers(p, x) \subseteq T
  PROVE  Back(p, b, x) \subseteq T
<1> DEFINE N == BlockIds(p)
           next == [d \in N |-> Before(p, d) \cap Carriers(p, x)]
<1>1. IsFiniteSet(N) /\ next \in [N -> SUBSET N]
  <2>1. \A d \in N : Before(p, d) \subseteq N
    BY SourcesType DEF Before
  <2> QED  BY <2>1, FiniteProblem
<1>2. Back(p, b, x) = Closure(next, {b})
  BY DEF Back
<1>3. Closed(next, T) /\ T \in SUBSET N /\ {b} \subseteq T /\ {b} \in SUBSET N
  BY DEF Closed
<1> HIDE DEF N, next
<1>4. Closure(next, {b}) \subseteq T
  BY <1>1, <1>3, ClosureIsLeast
<1> QED  BY <1>2, <1>4

-----------------------------------------------------------------------------
(* Intersection *)

(* In a solution of an intersection problem a fact at a block is held by    *)
(* each block before it that does not touch it, and no path loses it there. *)
LEMMA IntersectionStep ==
  ASSUME NEW p, IsProblem(p), ~p.union, NEW f, IsSolution(p, f),
         NEW b \in BlockIds(p), NEW x \in MetAt(p, b, f)
  PROVE  /\ \A s \in Before(p, b) \cap Carriers(p, x) : x \in MetAt(p, s, f)
         /\ ~Loses(p, b, x)
<1>1. ASSUME NEW s \in Before(p, b) PROVE x \in Transfer(p, s, MetAt(p, s, f))
  <2>1. ~IsBoundary(p, b) /\ s \in Sources(p, b) /\ s \in BlockIds(p)
    BY <1>1, SourcesType DEF Before
  <2>2. x \in f[s]
    BY <2>1 DEF MetAt, MeetOf
  <2> QED  BY <2>1, <2>2 DEF IsSolution
<1>2. ASSUME NEW s \in Before(p, b) \cap Carriers(p, x) PROVE x \in MetAt(p, s, f)
  BY <1>1, <1>2 DEF Transfer, Carriers
<1>3. Begins(p, b) => x \in SeedMet(p, b)
  BY DEF Begins, MetAt
<1>4. ~\E s \in Before(p, b) : x \notin p.gen[s] /\ x \in p.kill[s]
  BY <1>1 DEF Transfer
<1> QED  BY <1>2, <1>3, <1>4 DEF Loses

(* A solution of an intersection problem claims no fact some path lacks.    *)
LEMMA SolutionIsSafe ==
  ASSUME NEW p, IsProblem(p), ~p.union, NEW f, IsSolution(p, f),
         NEW b \in BlockIds(p), NEW x \in MetAt(p, b, f)
  PROVE  ~LostAlong(p, b, x)
<1> DEFINE T == {c \in BlockIds(p) : x \in MetAt(p, c, f)}
<1>1. \A c \in T : /\ Before(p, c) \cap Carriers(p, x) \subseteq T
                   /\ ~Loses(p, c, x)
  BY IntersectionStep DEF Carriers
<1>2. b \in T /\ T \in SUBSET BlockIds(p)
  OBVIOUS
<1> HIDE DEF T
<1>3. Back(p, b, x) \subseteq T
  BY <1>1, <1>2, BackInduction
<1> QED  BY <1>1, <1>3 DEF LostAlong

(* The solver never claims of an intersection problem a fact some path into *)
(* the block lacks: no expression is taken for available that is not.       *)
THEOREM IntersectionNeverOverclaims == Spec => []IntersectionIsSafe
<1>1. TypeOK /\ LeastSolution => IntersectionIsSafe
  <2> SUFFICES ASSUME TypeOK, LeastSolution, Converged, ~problem.union,
                      NEW b \in BlockIds(problem), NEW x \in met[b]
               PROVE  ~LostAlong(problem, b, x)
    BY DEF IntersectionIsSafe
  <2>1. IsProblem(problem) /\ IsSolution(problem, flow) /\ x \in MetAt(problem, b, flow)
    BY DEF TypeOK, LeastSolution
  <2> QED  BY <2>1, SolutionIsSafe
<1> QED  BY <1>1, TypeCorrect, SolvesLeast, PTL

-----------------------------------------------------------------------------
(* Union *)

(* In a solution of a union problem a fact is at a block when a path brings *)
(* it in there or a block before it that does not touch it has it.          *)
LEMMA UnionStep ==
  ASSUME NEW p, IsProblem(p), p.union, NEW f, IsSolution(p, f),
         NEW b \in BlockIds(p), NEW x \in p.universe, x \notin MetAt(p, b, f)
  PROVE  /\ \A s \in Before(p, b) \cap Carriers(p, x) : x \notin MetAt(p, s, f)
         /\ ~Brings(p, b, x)
<1>1. ASSUME NEW s \in Before(p, b) PROVE x \notin Transfer(p, s, MetAt(p, s, f))
  <2>1. ~IsBoundary(p, b) /\ s \in Sources(p, b) /\ s \in BlockIds(p)
    BY <1>1, SourcesType DEF Before
  <2>2. x \notin f[s]
    BY <2>1 DEF MetAt, MeetOf
  <2> QED  BY <2>1, <2>2 DEF IsSolution
<1>2. ASSUME NEW s \in Before(p, b) \cap Carriers(p, x) PROVE x \notin MetAt(p, s, f)
  BY <1>1, <1>2 DEF Transfer, Carriers
<1>3. Begins(p, b) => x \notin SeedMet(p, b)
  BY DEF Begins, MetAt
<1>4. ~\E s \in Before(p, b) : x \in p.gen[s]
  BY <1>1 DEF Transfer
<1> QED  BY <1>2, <1>3, <1>4 DEF Brings

(* A solution of a union problem misses no fact a path brings.              *)
LEMMA SolutionIsComplete ==
  ASSUME NEW p, IsProblem(p), p.union, NEW f, IsSolution(p, f),
         NEW b \in BlockIds(p), NEW x \in p.universe, ArrivesAlong(p, b, x)
  PROVE  x \in MetAt(p, b, f)
<1> SUFFICES ASSUME x \notin MetAt(p, b, f) PROVE FALSE
  OBVIOUS
<1> DEFINE T == {c \in BlockIds(p) : x \notin MetAt(p, c, f)}
<1>1. \A c \in T : /\ Before(p, c) \cap Carriers(p, x) \subseteq T
                   /\ ~Brings(p, c, x)
  BY UnionStep DEF Carriers
<1>2. b \in T /\ T \in SUBSET BlockIds(p)
  OBVIOUS
<1> HIDE DEF T
<1>3. Back(p, b, x) \subseteq T
  BY <1>1, <1>2, BackInduction
<1> QED  BY <1>1, <1>3 DEF ArrivesAlong

(* What the paths bring through each block: gen, and what arrives unkilled. *)
Carried(p) ==
  [b \in BlockIds(p) |-> {x \in p.universe : x \in p.gen[b] \/ (x \notin p.kill[b] /\ ArrivesAlong(p, b, x))}]

(* A fact arrives where a path brings it, and where it arrives one step     *)
(* before at a block that does not touch it.                                *)
LEMMA ArrivalUnfold ==
  ASSUME NEW p, IsProblem(p), NEW b \in BlockIds(p), NEW x
  PROVE  ArrivesAlong(p, b, x) <=>
           Brings(p, b, x) \/ \E s \in Before(p, b) \cap Carriers(p, x) : ArrivesAlong(p, s, x)
<1>1. \A c : c \in Back(p, b, x) <=> c = b \/ \E s \in Before(p, b) \cap Carriers(p, x) : c \in Back(p, s, x)
  BY BackUnfold
<1> QED  BY <1>1 DEF ArrivesAlong

(* The meet of what the paths bring through the blocks before b is what     *)
(* they bring to b.                                                         *)
LEMMA CarriedMet ==
  ASSUME NEW p, IsProblem(p), p.union, NEW b \in BlockIds(p)
  PROVE  MetAt(p, b, Carried(p)) = {x \in p.universe : ArrivesAlong(p, b, x)}
<1>1. CASE Begins(p, b)
  <2>1. Before(p, b) = {}
    BY <1>1 DEF Begins, Before
  <2>2. \A x : ArrivesAlong(p, b, x) <=> x \in SeedMet(p, b)
    BY <1>1, <2>1, ArrivalUnfold DEF Brings
  <2>3. SeedMet(p, b) \subseteq p.universe
    BY DEF SeedMet, IsProblem
  <2>4. MetAt(p, b, Carried(p)) = SeedMet(p, b)
    BY <1>1 DEF MetAt, Begins
  <2> QED  BY <2>2, <2>3, <2>4
<1>2. CASE ~Begins(p, b)
  <2>1. Before(p, b) = Sources(p, b) /\ Sources(p, b) \subseteq BlockIds(p)
    BY <1>2, SourcesType DEF Begins, Before
  <2>2. MetAt(p, b, Carried(p)) = {x \in p.universe : \E s \in Sources(p, b) : x \in Carried(p)[s]}
    BY <1>2 DEF MetAt, MeetOf, Begins
  <2>3. ASSUME NEW x \in p.universe
        PROVE  ArrivesAlong(p, b, x) <=> \E s \in Sources(p, b) : x \in Carried(p)[s]
    <3>1. ArrivesAlong(p, b, x) <=>
            \/ \E s \in Sources(p, b) : x \in p.gen[s]
            \/ \E s \in Sources(p, b) : s \in Carriers(p, x) /\ ArrivesAlong(p, s, x)
      BY <1>2, <2>1, ArrivalUnfold DEF Brings
    <3>2. \A s \in Sources(p, b) :
            /\ x \in Carried(p)[s] <=> x \in p.gen[s] \/ (x \notin p.kill[s] /\ ArrivesAlong(p, s, x))
            /\ s \in Carriers(p, x) <=> x \notin p.gen[s] /\ x \notin p.kill[s]
      BY <2>1 DEF Carried, Carriers
    <3>3. \A s \in Sources(p, b) :
            x \in Carried(p)[s] <=> x \in p.gen[s] \/ (s \in Carriers(p, x) /\ ArrivesAlong(p, s, x))
      BY <3>2
    <3> QED  BY <3>1, <3>3
  <2> QED  BY <2>2, <2>3
<1> QED  BY <1>1, <1>2

(* So what the paths bring is a solution.                                   *)
LEMMA CarriedIsSolution ==
  ASSUME NEW p, IsProblem(p), p.union
  PROVE  Carried(p) \in Flows(p) /\ IsSolution(p, Carried(p))
<1>1. ASSUME NEW b \in BlockIds(p)
      PROVE  Carried(p)[b] = Transfer(p, b, MetAt(p, b, Carried(p)))
  <2>1. p.gen[b] \subseteq p.universe
    BY DEF IsProblem
  <2>2. Carried(p)[b] = {x \in p.universe : x \in p.gen[b] \/ (x \notin p.kill[b] /\ ArrivesAlong(p, b, x))}
    BY DEF Carried
  <2>3. MetAt(p, b, Carried(p)) = {x \in p.universe : ArrivesAlong(p, b, x)}
    BY CarriedMet
  <2>4. \A x : x \in Carried(p)[b] <=>
              x \in p.gen[b] \/ (x \in p.universe /\ ArrivesAlong(p, b, x) /\ x \notin p.kill[b])
    BY <2>1, <2>2
  <2>5. \A x : x \in Transfer(p, b, MetAt(p, b, Carried(p))) <=>
              x \in p.gen[b] \/ (x \in p.universe /\ ArrivesAlong(p, b, x) /\ x \notin p.kill[b])
    BY <2>3 DEF Transfer
  <2> HIDE DEF Carried, Transfer
  <2> QED  BY <2>4, <2>5
<1>2. Carried(p) \in Flows(p)
  BY DEF Carried, Flows
<1> QED  BY <1>1, <1>2 DEF IsSolution

(* With a union meet the solver computes exactly the facts some path brings *)
(* to a block: no definition or use is missed and none is invented.         *)
THEOREM UnionComputesPaths == Spec => []UnionIsExact
<1>1. TypeOK /\ LeastSolution => UnionIsExact
  <2> SUFFICES ASSUME TypeOK, LeastSolution, Converged, problem.union, NEW b \in BlockIds(problem)
               PROVE  met[b] = {x \in problem.universe : ArrivesAlong(problem, b, x)}
    BY DEF UnionIsExact
  <2>1. /\ IsProblem(problem) /\ IsSolution(problem, flow)
        /\ met[b] = MetAt(problem, b, flow) /\ met[b] \subseteq problem.universe
        /\ \A other \in Flows(problem) :
             IsSolution(problem, other) => \A c \in BlockIds(problem) : flow[c] \subseteq other[c]
    BY DEF TypeOK, LeastSolution, Flows
  <2>2. \A c \in BlockIds(problem) : flow[c] \subseteq Carried(problem)[c]
    BY <2>1, CarriedIsSolution
  <2>3. \A s \in Sources(problem, b) : flow[s] \subseteq Carried(problem)[s]
    BY <2>1, <2>2, SourcesType
  <2>4. MetAt(problem, b, flow) \subseteq MetAt(problem, b, Carried(problem))
    BY <2>3 DEF MetAt, MeetOf
  <2>5. MetAt(problem, b, flow) \subseteq {x \in problem.universe : ArrivesAlong(problem, b, x)}
    BY <2>1, <2>4, CarriedMet
  <2>6. \A x \in problem.universe : ArrivesAlong(problem, b, x) => x \in MetAt(problem, b, flow)
    BY <2>1, SolutionIsComplete
  <2> QED  BY <2>1, <2>5, <2>6
<1> QED  BY <1>1, TypeCorrect, SolvesLeast, PTL

-----------------------------------------------------------------------------
(* The cap *)

FactPairs == Pairs(flow, BlockIds(problem), problem.universe)

(* Each sweep that changed something has added a pair of block and fact.     *)
SweepsPaid == iter - 1 + (IF changed THEN 1 ELSE 0) <= Cardinality(FactPairs)

(* The pairs are finitely many, and more of them count for more.            *)
LEMMA MorePairs ==
  ASSUME NEW p, IsProblem(p), NEW f \in Flows(p), NEW g \in Flows(p), Under(f, g)
  PROVE  /\ Cardinality(Pairs(f, BlockIds(p), p.universe)) \in Nat
         /\ Cardinality(Pairs(g, BlockIds(p), p.universe)) \in Nat
         /\ Cardinality(Pairs(f, BlockIds(p), p.universe)) <= Cardinality(Pairs(g, BlockIds(p), p.universe))
         /\ f # g => Cardinality(Pairs(f, BlockIds(p), p.universe)) < Cardinality(Pairs(g, BlockIds(p), p.universe))
         /\ Cardinality(Pairs(g, BlockIds(p), p.universe)) <= Cardinality(BlockIds(p) \X p.universe)
<1> DEFINE K == BlockIds(p)
           V == p.universe
           F == Pairs(f, K, V)
           G == Pairs(g, K, V)
<1>1. IsFiniteSet(K \X V)
  BY FiniteProblem, FS_Product
<1>2. F \in SUBSET (K \X V) /\ G \in SUBSET (K \X V)
  BY DEF Pairs
<1>3. F \subseteq G /\ (f = g <=> F = G)
  BY PairsOrder DEF Flows
<1> HIDE DEF K, V, F, G
<1>4. IsFiniteSet(F) /\ IsFiniteSet(G) /\ Cardinality(G) <= Cardinality(K \X V)
  BY <1>1, <1>2, FS_Subset
<1>5. Cardinality(F) <= Cardinality(G) /\ (Cardinality(G) = Cardinality(F) => G = F)
  BY <1>3, <1>4, FS_Subset
<1>6. Cardinality(F) \in Nat /\ Cardinality(G) \in Nat
  BY <1>4, FS_CardinalityType
<1> QED  BY <1>3, <1>4, <1>5, <1>6 DEF K, V, F, G

(* Each sweep is paid for by a change, each change by a new pair.           *)
LEMMA SweepsPaidStep == TypeOK /\ Ascending /\ SweepsPaid /\ [Next]_vars => SweepsPaid'
<1> SUFFICES ASSUME TypeOK, Ascending, SweepsPaid, [Next]_vars PROVE SweepsPaid'
  OBVIOUS
<1> DEFINE pairs == Cardinality(FactPairs)
<1>1. flow \in Flows(problem) /\ IsProblem(problem) /\ iter \in Nat /\ changed \in BOOLEAN
  BY CapAssumption DEF TypeOK, Flows
<1>2. CASE VisitBlock
  <2>1. problem' = problem /\ flow' \in Flows(problem) /\ iter' = iter
    BY <1>2, TypeStep DEF VisitBlock, TypeOK, Flows
  <2>2. Under(flow, flow')
    BY <1>1, <1>2, VisitGrows DEF Under, Flows
  <2>3. flow' # flow \/ changed' = changed
    <3> DEFINE out == Transfer(problem, at, MetAt(problem, at, flow))
    <3>1. changed' = (changed \/ out # flow[at]) /\ flow' = [flow EXCEPT ![at] = out]
      BY <1>2 DEF VisitBlock
    <3>2. at \in BlockIds(problem)
      BY <1>2 DEF VisitBlock, TypeOK, BlockIds, IsProblem
    <3>3. flow'[at] = out
      BY <3>1, <3>2, <1>1 DEF Flows
    <3> HIDE DEF out
    <3> QED  BY <1>1, <3>1, <3>3
  <2>4. /\ pairs \in Nat /\ pairs' \in Nat /\ pairs <= pairs'
        /\ flow # flow' => pairs < pairs'
    BY <1>1, <2>1, <2>2, MorePairs DEF FactPairs
  <2> HIDE DEF pairs
  <2>5. iter - 1 + (IF changed THEN 1 ELSE 0) <= pairs
    BY DEF SweepsPaid, pairs
  <2>6. changed' \in BOOLEAN
    BY TypeStep DEF TypeOK
  <2>7. iter' - 1 + (IF changed' THEN 1 ELSE 0) <= pairs'
    BY <1>1, <2>1, <2>3, <2>4, <2>5, <2>6
  <2> QED  BY <2>7 DEF SweepsPaid, pairs
<1>3. CASE NextSweep
  <2>1. pairs' = pairs /\ iter' = iter + 1 /\ changed /\ ~changed'
    BY <1>3 DEF NextSweep, FactPairs
  <2> HIDE DEF pairs
  <2>2. iter - 1 + 1 <= pairs
    BY <2>1 DEF SweepsPaid, pairs
  <2>3. iter' - 1 + 0 <= pairs'
    BY <1>1, <2>1, <2>2
  <2> QED  BY <2>1, <2>3 DEF SweepsPaid, pairs
<1>4. CASE UNCHANGED vars
  BY <1>4 DEF vars, SweepsPaid, FactPairs
<1> QED  BY <1>2, <1>3, <1>4 DEF Next

(* "An iteration cap is included as a defensive diagnostic only": a problem  *)
(* with fewer pairs of a block and a fact than the cap is always left by a  *)
(* sweep that changed nothing, for either meet and direction.               *)
THEOREM CapIsDefensive ==
  ASSUME \A p \in Problems : Cardinality(BlockIds(p) \X p.universe) < IterationCap
  PROVE  Spec => [](Done => Converged)
<1>1. Init => SweepsPaid
  <2> SUFFICES ASSUME Init PROVE SweepsPaid
    OBVIOUS
  <2>1. IsProblem(problem) /\ flow \in Flows(problem)
    BY TypeInit DEF TypeOK, Flows
  <2>2. Cardinality(FactPairs) \in Nat
    BY <2>1, MorePairs DEF FactPairs, Under
  <2> QED  BY <2>2 DEF Init, SweepsPaid
<1>2. Init => problem \in Problems
  BY DEF Init
<1>3. problem \in Problems /\ [Next]_vars => (problem \in Problems)'
  BY DEF Next, VisitBlock, NextSweep, vars
<1>4. TypeOK /\ SweepsPaid /\ problem \in Problems => (Done => Converged)
  <2> SUFFICES ASSUME TypeOK, SweepsPaid, problem \in Problems, Done, changed PROVE FALSE
    BY DEF Done, Converged
  <2>1. IsProblem(problem) /\ flow \in Flows(problem) /\ iter \in Nat
    BY CapAssumption DEF TypeOK, Flows
  <2>2. /\ Cardinality(FactPairs) \in Nat
        /\ Cardinality(FactPairs) <= Cardinality(BlockIds(problem) \X problem.universe)
    BY <2>1, MorePairs DEF FactPairs, Under
  <2>3. iter - 1 + 1 <= Cardinality(FactPairs) /\ iter = IterationCap
    BY DEF SweepsPaid, Done
  <2>4. Cardinality(BlockIds(problem) \X problem.universe) < IterationCap
    OBVIOUS
  <2>5. Cardinality(BlockIds(problem) \X problem.universe) \in Nat
    BY <2>1, FiniteProblem, FS_Product, FS_CardinalityType
  <2> QED  BY <2>1, <2>2, <2>3, <2>4, <2>5
<1> QED
  BY <1>1, <1>2, <1>3, <1>4, TypeInit, TypeStep, AscendingInit, AscendingStep, SweepsPaidStep, PTL DEF Spec
=============================================================================
