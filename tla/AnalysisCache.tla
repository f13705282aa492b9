---------------------------- MODULE AnalysisCache ----------------------------
(***************************************************************************)
(* The loops of PassLoop with the analysis manager                          *)
(* (include/analysis_manager.h), which keeps what an analysis found until a *)
(* pass reports a change.  What it holds is the concern of PassManager.     *)
(***************************************************************************)
EXTENDS PassLoop

CONSTANT PreservesCFG(_)   \* does a pass leave every edge alone

(* Dominators are the one analysis that reads nothing but edges.            *)
EdgeKind == "dom"

VARIABLE cache   \* the analysis manager: from the kinds it holds to their facts

managed == <<vars, cache>>

-----------------------------------------------------------------------------
\* Mutant of Invalidate: the dominators outlive a change of the edges.
InvalidateKeepsEdgeFacts(held, edgesChanged) == [k \in DOMAIN held \cap {EdgeKind} |-> held[k]]

Invalidate(held, edgesChanged) ==
  [k \in (IF edgesChanged THEN {} ELSE DOMAIN held \cap {EdgeKind}) |-> held[k]]

\* Mutant of Ran: only the last pass of a sweep decides whether to go on.
RanForgetsEarlier(pass, held, result) ==
  /\ graph' = result.g
  /\ anyChanged' = (result.count > 0)
  /\ next' = next + 1
  /\ UNCHANGED <<pipeline, group, sweep, fixedPoint>>
  /\ cache' = IF result.count > 0 THEN Invalidate(held, ~PreservesCFG(pass)) ELSE held

\* Mutant of Ran: nothing is ever invalidated.
RanKeepsCache(pass, held, result) == Leaves(result) /\ cache' = held

(* The pass has run on what the manager held for it.                        *)
Ran(pass, held, result) ==
  /\ Leaves(result)
  /\ cache' = IF result.count > 0 THEN Invalidate(held, ~PreservesCFG(pass)) ELSE held

(* Each PassManager::run has an analysis manager of its own.                *)
ManagedBeginGroup  == BeginGroup /\ cache' = [k \in {} |-> {}]
ManagedNextSweep   == NextSweep /\ UNCHANGED cache
ManagedFinishGroup == FinishGroup /\ cache' = [k \in {} |-> {}]

(* The pipeline is a sequential loop: as long as a group is left, a step is  *)
(* taken.  Every step moves one of these three counters, so this is          *)
(* WF_managed(ManagedNext), stated without running a pass to see that it can *)
(* run.                                                                      *)
control == <<group, sweep, next>>

Moves ==
  /\ Running
  /\ group' \in {group, group + 1}
  /\ sweep' \in 0 .. Cap(Group)
  /\ next' \in 1 .. Len(Group.passes) + 1
=============================================================================
