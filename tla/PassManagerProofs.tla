--------------------------- MODULE PassManagerProofs ---------------------------
(***************************************************************************)
(* The pass manager is transparent: whatever the passes and the analyses   *)
(* are, as long as a pass keeps what PassAssumption says it owes, no pass  *)
(* is given stale facts, what runs is what a pipeline without a cache      *)
(* would do, and a group that stops because a sweep changed nothing has    *)
(* reached a fixed point of its passes.                                    *)
(*                                                                         *)
(* The invariant: the cache is fresh, and the passes already run in a      *)
(* sweep that has reported no change are idle.  Freshness is what makes a  *)
(* pass's facts the ones PassAssumption speaks of.                         *)
(***************************************************************************)
EXTENDS PassManager, TLAPS

(* In a sweep without a report, the passes that have run would change nothing. *)
IdleSoFar ==
  Running /\ sweep > 0 /\ ~anyChanged => \A i \in 1 .. next - 1 : Idle(Group.passes[i])

IInv == TypeOK /\ CachesFresh /\ IdleSoFar

-----------------------------------------------------------------------------
(* What the running group and pass are, in a state of the right type.       *)

GroupSet == [passes : Seq(Passes), fixpoint : BOOLEAN, sweeps : Nat \ {0}]

(* An element of a sequence over a set belongs to the set.                  *)
LEMMA ElementType ==
  ASSUME NEW S, NEW s \in Seq(S), NEW i \in 1 .. Len(s)
  PROVE  s[i] \in S
OBVIOUS

(* A pipeline that may run is a sequence of groups.                         *)
LEMMA PipelineType ==
  ASSUME NEW pl \in Pipelines
  PROVE  pl \in Seq(GroupSet)
BY LoopAssumption DEF IsPipeline, GroupSet

(* Each group of a pipeline has at least one sweep to make.                 *)
LEMMA GroupsType ==
  ASSUME NEW pl \in Pipelines, NEW i \in 1 .. Len(pl)
  PROVE  /\ pl[i].passes \in Seq(Passes)
         /\ Len(pl[i].passes) \in Nat
         /\ Cap(pl[i]) \in Nat \ {0}
<1>1. pl[i] \in GroupSet
  BY PipelineType, ElementType
<1>2. pl[i].passes \in Seq(Passes) /\ pl[i].sweeps \in Nat \ {0}
  BY <1>1 DEF GroupSet
<1>3. Cap(pl[i]) \in Nat \ {0}
  BY <1>2, LoopAssumption DEF Cap
<1> QED BY <1>2, <1>3

(* The group that runs is one of the pipeline's.                            *)
LEMMA GroupType ==
  ASSUME TypeOK, Running
  PROVE  /\ group \in 1 .. Len(pipeline)
         /\ group + 1 \in 1 .. Len(pipeline) + 1
         /\ Len(Group.passes) \in Nat
         /\ Group.passes \in Seq(Passes)
         /\ Cap(Group) \in Nat \ {0}
         /\ \A i \in 1 .. Len(Group.passes) : Group.passes[i] \in Passes
<1>1. pipeline \in Seq(GroupSet) /\ Len(pipeline) \in Nat
  BY PipelineType DEF TypeOK
<1>2. group \in 1 .. Len(pipeline) /\ group + 1 \in 1 .. Len(pipeline) + 1
  BY <1>1 DEF TypeOK, Running
<1>3. /\ Group.passes \in Seq(Passes)
      /\ Len(Group.passes) \in Nat
      /\ Cap(Group) \in Nat \ {0}
  BY <1>2, GroupsType DEF TypeOK, Group
<1>4. \A i \in 1 .. Len(Group.passes) : Group.passes[i] \in Passes
  BY <1>3, ElementType
<1> QED
  BY <1>2, <1>3, <1>4

(* The pass that runs is a pass: what it asks for is an analysis.           *)
LEMMA CurrentType ==
  ASSUME TypeOK, AtPass
  PROVE  Current \in Passes /\ next \in 1 .. Len(Group.passes)
<1>1. next \in 1 .. Len(Group.passes)
  BY GroupType DEF TypeOK, AtPass
<1> QED
  BY <1>1, GroupType DEF AtPass, Current

(* The facts a pass is given are the facts of the graph it is given.        *)
LEMMA FilledIsFresh ==
  ASSUME CachesFresh, NEW pass
  PROVE  /\ \A k \in DOMAIN Filled(pass) : Filled(pass)[k] = Facts(k, graph)
         /\ [k \in Asks(pass) |-> Filled(pass)[k]] = FactsFor(pass, graph)
<1>1. \A k \in DOMAIN cache \cup Asks(pass) : Filled(pass)[k] = Facts(k, graph)
  BY DEF CachesFresh, Filled
<1>2. DOMAIN Filled(pass) = DOMAIN cache \cup Asks(pass)
  BY DEF Filled
<1>3. [k \in Asks(pass) |-> Filled(pass)[k]] = [k \in Asks(pass) |-> Facts(k, graph)]
  BY <1>1
<1> QED
  BY <1>1, <1>2, <1>3 DEF FactsFor

-----------------------------------------------------------------------------
(* A pass of the managed pipeline does what it does with no cache.           *)
LEMMA ManagedPassIsPass ==
  ASSUME CachesFresh, ManagedRunPass
  PROVE  /\ RunPass
         /\ Ran(Current, Filled(Current), Apply(Current, graph, FactsFor(Current, graph)))
BY FilledIsFresh DEF ManagedRunPass, RunManaged, Ran, RunPass

(* What a pass that has run leaves is well typed.                           *)
LEMMA PassKeepsType ==
  ASSUME TypeOK, RunPass
  PROVE  TypeOK'
<1>1. AtPass
  BY DEF RunPass
<1>2. Current \in Passes /\ next \in 1 .. Len(Group.passes)
  BY <1>1, CurrentType
<1>3. graph' \in Graphs
  BY <1>2, PassAssumption DEF RunPass, Leaves, TypeOK
<1>4. anyChanged' \in BOOLEAN /\ next' = next + 1 /\ UNCHANGED <<pipeline, group, sweep, fixedPoint>>
  BY DEF RunPass, Leaves, TypeOK
<1> QED
  BY <1>1, <1>2, <1>3, <1>4 DEF TypeOK, Running, Group, Cap, AtPass

(* No step breaks the types; a pass needs fresh facts for that.             *)
LEMMA TypeStep == TypeOK /\ CachesFresh /\ [ManagedNext]_managed => TypeOK'
<1> SUFFICES ASSUME TypeOK, CachesFresh, [ManagedNext]_managed PROVE TypeOK'
  OBVIOUS
<1>1. CASE ManagedRunPass
  BY <1>1, ManagedPassIsPass, PassKeepsType
<1>2. CASE ManagedBeginGroup
  <2>1. Cap(Group) \in Nat \ {0} /\ Len(Group.passes) \in Nat
    BY <1>2, GroupType DEF ManagedBeginGroup, BeginGroup
  <2>2. /\ UNCHANGED <<pipeline, graph, group, fixedPoint>>
        /\ sweep' = 1 /\ next' = 1 /\ anyChanged' = FALSE
    BY <1>2 DEF ManagedBeginGroup, BeginGroup
  <2>3. Group' = Group /\ Cap(Group)' = Cap(Group)
    BY <2>2 DEF Group, Cap
  <2>4. sweep' <= Cap(Group)' /\ next' <= Len(Group.passes)' + 1
    BY <2>1, <2>2, <2>3 DEF TypeOK
  <2>5. sweep' \in Nat /\ next' \in Nat \ {0}
    BY <2>2 DEF TypeOK
  <2> QED
    BY <2>2, <2>4, <2>5 DEF TypeOK
<1>3. CASE ManagedNextSweep
  <2>1. Cap(Group) \in Nat \ {0} /\ Len(Group.passes) \in Nat
    BY <1>3, GroupType DEF ManagedNextSweep, NextSweep, SweepOver
  <2>2. /\ UNCHANGED <<pipeline, graph, group, fixedPoint>>
        /\ sweep < Cap(Group) /\ sweep' = sweep + 1 /\ next' = 1 /\ anyChanged' = FALSE
    BY <1>3 DEF ManagedNextSweep, NextSweep
  <2>3. Group' = Group /\ Cap(Group)' = Cap(Group)
    BY <2>2 DEF Group, Cap
  <2>4. sweep' <= Cap(Group)' /\ next' <= Len(Group.passes)' + 1
    BY <2>1, <2>2, <2>3 DEF TypeOK
  <2>5. sweep' \in Nat /\ next' \in Nat \ {0}
    BY <2>2 DEF TypeOK
  <2> QED
    BY <2>2, <2>4, <2>5 DEF TypeOK
<1>4. CASE ManagedFinishGroup
  <2>1. /\ UNCHANGED <<pipeline, graph, anyChanged>>
        /\ group' = group + 1 /\ sweep' = 0 /\ next' = 1
        /\ fixedPoint' \in BOOLEAN
        /\ Running
    BY <1>4 DEF ManagedFinishGroup, FinishGroup, SweepOver, TypeOK
  <2>2. group' \in 1 .. Len(pipeline') + 1
    BY <2>1, GroupType
  <2>3. Running' => 0 <= Cap(Group)' /\ 1 <= Len(Group.passes)' + 1
    <3> SUFFICES ASSUME Running' PROVE 0 <= Cap(Group)' /\ 1 <= Len(Group.passes)' + 1
      OBVIOUS
    <3>1. group + 1 \in 1 .. Len(pipeline)
      BY <2>1, <2>2 DEF Running
    <3>2. Cap(pipeline[group + 1]) \in Nat /\ Len(pipeline[group + 1].passes) \in Nat
      BY <3>1, GroupsType DEF TypeOK
    <3>3. Group' = pipeline[group + 1] /\ Cap(Group)' = Cap(Group')
      BY <2>1 DEF Group, Cap
    <3> QED BY <3>2, <3>3
  <2> QED
    BY <2>1, <2>2, <2>3 DEF TypeOK
<1>5. CASE UNCHANGED managed
  BY <1>5 DEF managed, vars, TypeOK, Running, Group, Cap
<1> QED
  BY <1>1, <1>2, <1>3, <1>4, <1>5 DEF ManagedNext

(* What a pass leaves in the cache holds of the graph it leaves: everything *)
(* when it reports no change, the dominators when it leaves the edges.      *)
LEMMA FreshStep == TypeOK /\ CachesFresh /\ [ManagedNext]_managed => CachesFresh'
<1> SUFFICES ASSUME TypeOK, CachesFresh, [ManagedNext]_managed PROVE CachesFresh'
  OBVIOUS
<1>1. CASE ManagedRunPass
  <2> DEFINE result == Apply(Current, graph, FactsFor(Current, graph))
             held   == Filled(Current)
  <2>1. Current \in Passes /\ graph \in Graphs
    BY <1>1, ManagedPassIsPass, CurrentType DEF RunPass, TypeOK
  <2>2. /\ result.count = 0 => result.g = graph
        /\ PreservesCFG(Current) => Facts(EdgeKind, result.g) = Facts(EdgeKind, graph)
    BY <2>1, PassAssumption
  <2>3. /\ graph' = result.g
        /\ cache' = IF result.count > 0 THEN Invalidate(held, ~PreservesCFG(Current)) ELSE held
    BY <1>1, ManagedPassIsPass DEF Ran, Leaves
  <2>4. \A k \in DOMAIN held : held[k] = Facts(k, graph)
    BY FilledIsFresh
  <2>5. result.count \in Nat
    BY <2>1, PassAssumption
  <2>6. CASE result.count = 0
    BY <2>2, <2>3, <2>4, <2>6 DEF CachesFresh
  <2>7. CASE result.count > 0
    <3>1. cache' = Invalidate(held, ~PreservesCFG(Current))
      BY <2>3, <2>7
    <3>2. CASE PreservesCFG(Current)
      <4>1. cache' = [k \in DOMAIN held \cap {EdgeKind} |-> held[k]]
        BY <3>1, <3>2 DEF Invalidate
      <4> QED
        BY <2>2, <2>3, <2>4, <3>2, <4>1 DEF CachesFresh
    <3>3. CASE ~PreservesCFG(Current)
      <4>1. cache' = [k \in {} |-> held[k]]
        BY <3>1, <3>3 DEF Invalidate
      <4> QED
        BY <4>1 DEF CachesFresh
    <3> QED
      BY <3>2, <3>3
  <2> QED
    BY <2>5, <2>6, <2>7
<1>2. CASE ManagedBeginGroup
  BY <1>2 DEF ManagedBeginGroup, CachesFresh
<1>3. CASE ManagedNextSweep
  BY <1>3 DEF ManagedNextSweep, NextSweep, CachesFresh
<1>4. CASE ManagedFinishGroup
  BY <1>4 DEF ManagedFinishGroup, CachesFresh
<1>5. CASE UNCHANGED managed
  BY <1>5 DEF managed, vars, CachesFresh
<1> QED
  BY <1>1, <1>2, <1>3, <1>4, <1>5 DEF ManagedNext

(* The invariant holds before the first step.                               *)
LEMMA Start0 == ManagedInit => IInv
<1> SUFFICES ASSUME ManagedInit PROVE IInv
  OBVIOUS
<1>1. CachesFresh
  BY DEF ManagedInit, CachesFresh
<1>2. /\ graph \in Graphs /\ pipeline \in Pipelines
      /\ group = 1 /\ sweep = 0 /\ next = 1 /\ anyChanged = FALSE /\ fixedPoint = TRUE
  BY PipelineAssumption, LoopAssumption DEF ManagedInit, Init, Start
<1>3. Len(pipeline) \in Nat
  BY <1>2, PipelineType
<1>4. Running => Cap(Group) \in Nat /\ Len(Group.passes) \in Nat
  BY <1>2, <1>3, GroupsType DEF Running, Group
<1>5. TypeOK
  <2>1. group \in 1 .. Len(pipeline) + 1 /\ sweep \in Nat /\ next \in Nat \ {0}
    BY <1>2, <1>3
  <2>2. Running => sweep <= Cap(Group) /\ next <= Len(Group.passes) + 1
    BY <1>2, <1>4
  <2> QED BY <1>2, <2>1, <2>2 DEF TypeOK
<1>6. IdleSoFar
  BY <1>2 DEF IdleSoFar
<1> QED
  BY <1>1, <1>5, <1>6 DEF IInv

(* A pass that reports no change was idle, and leaves the passes before it  *)
(* as idle as they were.                                                    *)
LEMMA IdleStep == IInv /\ [ManagedNext]_managed => IdleSoFar'
<1> SUFFICES ASSUME IInv, [ManagedNext]_managed PROVE IdleSoFar'
  OBVIOUS
<1> USE DEF IInv
<1>1. CASE ManagedRunPass
  <2> DEFINE result == Apply(Current, graph, FactsFor(Current, graph))
  <2>1. AtPass /\ Leaves(result)
    BY <1>1, ManagedPassIsPass DEF RunPass
  <2>2. Current \in Passes /\ next \in 1 .. Len(Group.passes) /\ graph \in Graphs
    BY <2>1, CurrentType DEF TypeOK
  <2> SUFFICES ASSUME Running', sweep' > 0, ~anyChanged', NEW i \in 1 .. next' - 1
               PROVE  Idle(Group.passes[i])'
    BY DEF IdleSoFar
  <2>3. ~anyChanged /\ ~(result.count > 0)
    BY <2>1 DEF Leaves
  <2>4. result.g = graph
    BY <2>2, <2>3, PassAssumption
  <2>5. graph' = graph /\ UNCHANGED <<pipeline, group>>
    BY <2>1, <2>4 DEF Leaves
  <2>6. Group' = Group
    BY <2>5 DEF Group
  <2>7. Idle(Group.passes[i])
    <3>1. i \in 1 .. next
      BY <2>1, <2>2 DEF Leaves
    <3>2. CASE i = next
      BY <2>4, <3>2 DEF Idle, Current
    <3>3. CASE i # next
      <4>1. i \in 1 .. next - 1
        BY <2>2, <3>1, <3>3
      <4> QED
        BY <2>1, <2>3, <4>1 DEF IdleSoFar, AtPass
    <3> QED
      BY <3>2, <3>3
  <2> QED
    BY <2>5, <2>6, <2>7 DEF Idle, FactsFor
<1>2. CASE ManagedBeginGroup
  BY <1>2 DEF ManagedBeginGroup, BeginGroup, IdleSoFar
<1>3. CASE ManagedNextSweep
  BY <1>3 DEF ManagedNextSweep, NextSweep, IdleSoFar
<1>4. CASE ManagedFinishGroup
  BY <1>4 DEF ManagedFinishGroup, FinishGroup, IdleSoFar
<1>5. CASE UNCHANGED managed
  BY <1>5 DEF managed, vars, IdleSoFar, Idle, FactsFor, Running, Group
<1> QED
  BY <1>1, <1>2, <1>3, <1>4, <1>5 DEF ManagedNext

(* The invariant holds in every reachable state.                            *)
LEMMA Inductive == ManagedSpec => []IInv
<1>1. IInv /\ [ManagedNext]_managed => IInv'
  BY TypeStep, FreshStep, IdleStep DEF IInv
<1> QED
  BY Start0, <1>1, PTL DEF ManagedSpec

-----------------------------------------------------------------------------
(* Theorems *)

(* Every reachable state of the manager is well typed: a group never makes  *)
(* more sweeps than its cap allows.                                         *)
THEOREM TypeCorrect == ManagedSpec => []TypeOK
BY Inductive, PTL DEF IInv

(* No pass is ever given facts of an earlier graph.                         *)
THEOREM NeverStale == ManagedSpec => []CachesFresh
BY Inductive, PTL DEF IInv

(* A sweep that reported no change left a fixed point of the group's passes. *)
THEOREM StopsAtFixedPoint == ManagedSpec => []SettledIsFixed
<1>1. IInv => SettledIsFixed
  <2> SUFFICES ASSUME IInv, SweepOver, ~anyChanged, NEW i \in DOMAIN Group.passes
               PROVE  Idle(Group.passes[i])
    BY DEF SettledIsFixed
  <2>1. Running /\ sweep > 0 /\ next > Len(Group.passes)
    BY DEF SweepOver
  <2>2. Group.passes \in Seq(Passes) /\ Len(Group.passes) \in Nat /\ next \in Nat
    BY <2>1, GroupType DEF IInv, TypeOK
  <2>3. i \in 1 .. next - 1
    BY <2>1, <2>2
  <2> QED
    BY <2>1, <2>3 DEF IInv, IdleSoFar
<1> QED
  BY Inductive, <1>1, PTL

(* The manager is transparent: with the cache hidden, a managed pipeline is *)
(* a pipeline whose passes are given every analysis afresh.                 *)
THEOREM ManagerIsTransparent == ManagedSpec => ImplementsPipeline
<1>1. ManagedInit => Init
  BY DEF ManagedInit
<1>2. IInv /\ [ManagedNext]_managed => [Next]_vars
  <2> SUFFICES ASSUME IInv, [ManagedNext]_managed PROVE [Next]_vars
    OBVIOUS
  <2>1. CASE ManagedRunPass
    BY <2>1, ManagedPassIsPass DEF IInv, Next
  <2>2. CASE ManagedBeginGroup
    BY <2>2 DEF ManagedBeginGroup, Next
  <2>3. CASE ManagedNextSweep
    BY <2>3 DEF ManagedNextSweep, Next
  <2>4. CASE ManagedFinishGroup
    BY <2>4 DEF ManagedFinishGroup, Next
  <2>5. CASE UNCHANGED managed
    BY <2>5 DEF managed
  <2> QED
    BY <2>1, <2>2, <2>3, <2>4, <2>5 DEF ManagedNext
<1> QED
  BY Inductive, <1>1, <1>2, PTL DEF ManagedSpec, ImplementsPipeline, Spec
=============================================================================
