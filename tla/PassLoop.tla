------------------------------ MODULE PassLoop ------------------------------
(***************************************************************************)
(* The loops of runPipeline (src/opt/pipeline.cpp) and PassManager::run     *)
(* (src/opt/pass_manager.cpp): the groups of a pipeline run one after       *)
(* another, a group's passes run in order, and the sweep over them is       *)
(* repeated until it changes nothing, or a bound is reached.  The module    *)
(* knows nothing of the passes but their names and what they report.        *)
(***************************************************************************)
EXTENDS Integers, Sequences

CONSTANTS
  Passes,           \* the names of the passes
  Pipelines,        \* the pipelines that may run
  SweepCap          \* the cap on the sweeps of a group that runs to a fixed point

(* A pipeline is a sequence of groups [passes, fixpoint, sweeps].           *)
IsPipeline(pl) ==
  /\ pl \in Seq([passes : Seq(Passes), fixpoint : BOOLEAN, sweeps : Nat \ {0}])

ASSUME LoopAssumption ==
  /\ SweepCap \in Nat \ {0}
  /\ \A pl \in Pipelines : IsPipeline(pl)

VARIABLES
  pipeline,    \* the pipeline that runs
  graph,       \* the graph as the passes left it
  group,       \* index of the group that runs
  sweep,       \* sweeps begun in the group; 0 before its PassManager::run
  next,        \* index of the group's next pass
  anyChanged,  \* has a pass of this sweep reported a change
  fixedPoint   \* has every group so far that wanted a fixed point found one

vars == <<pipeline, graph, group, sweep, next, anyChanged, fixedPoint>>

Start ==
  /\ pipeline \in Pipelines
  /\ group = 1
  /\ sweep = 0
  /\ next = 1
  /\ anyChanged = FALSE
  /\ fixedPoint = TRUE

-----------------------------------------------------------------------------
Running   == group <= Len(pipeline)
Group     == pipeline[group]
Cap(gr)   == IF gr.fixpoint THEN SweepCap ELSE gr.sweeps
Current   == Group.passes[next]
AtPass    == Running /\ sweep > 0 /\ next <= Len(Group.passes)
SweepOver == Running /\ sweep > 0 /\ next > Len(Group.passes)

(* What a pass that has run leaves behind.                                  *)
Leaves(result) ==
  /\ graph' = result.g
  /\ anyChanged' = (anyChanged \/ result.count > 0)
  /\ next' = next + 1
  /\ UNCHANGED <<pipeline, group, sweep, fixedPoint>>

(* PassManager::run starts on the group.                                    *)
BeginGroup ==
  /\ Running
  /\ sweep = 0
  /\ sweep' = 1
  /\ next' = 1
  /\ anyChanged' = FALSE
  /\ UNCHANGED <<pipeline, graph, group, fixedPoint>>

\* Mutant of NextSweep: sweeps are not counted.
NextSweepUncounted ==
  /\ SweepOver
  /\ anyChanged
  /\ sweep < Cap(Group)
  /\ sweep' = sweep
  /\ next' = 1
  /\ anyChanged' = FALSE
  /\ UNCHANGED <<pipeline, graph, group, fixedPoint>>

NextSweep ==
  /\ SweepOver
  /\ anyChanged
  /\ sweep < Cap(Group)
  /\ sweep' = sweep + 1
  /\ next' = 1
  /\ anyChanged' = FALSE
  /\ UNCHANGED <<pipeline, graph, group, fixedPoint>>

FinishGroup ==
  /\ SweepOver
  /\ ~anyChanged \/ sweep = Cap(Group)
  /\ group' = group + 1
  /\ sweep' = 0
  /\ next' = 1
  /\ fixedPoint' = (fixedPoint /\ (Group.fixpoint => ~anyChanged))
  /\ UNCHANGED <<pipeline, graph, anyChanged>>

Finished == ~Running
=============================================================================
