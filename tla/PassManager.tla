----------------------------- MODULE PassManager -----------------------------
(***************************************************************************)
(* PassManager::run (src/opt/pass_manager.cpp) and the analysis manager    *)
(* (include/analysis_manager.h), which keeps what an analysis found until a *)
(* pass reports a change.  The manager is to be one a pipeline cannot tell  *)
(* from analyses computed afresh each time: it implements Pipeline.         *)
(***************************************************************************)
EXTENDS Pipeline, AnalysisCache

(* What a pass owes the manager: an honest report, and its promise on the   *)
(* edges.                                                                   *)
ASSUME PassAssumption ==
  \A pass \in Passes, g \in Graphs :
    LET result == Apply(pass, g, FactsFor(pass, g))
    IN  /\ result.g \in Graphs
        /\ result.count \in Nat
        /\ result.count = 0 => result.g = g
        /\ PreservesCFG(pass) => Facts(EdgeKind, result.g) = Facts(EdgeKind, g)

ManagedInit == Init /\ cache = [k \in {} |-> {}]

-----------------------------------------------------------------------------
(* get: what is held, or else computed for the graph as it is now.          *)
Filled(pass) ==
  [k \in DOMAIN cache \cup Asks(pass) |-> IF k \in DOMAIN cache THEN cache[k] ELSE Facts(k, graph)]

RunManaged(pass, held) == Ran(pass, held, Apply(pass, graph, [k \in Asks(pass) |-> held[k]]))

ManagedRunPass == AtPass /\ RunManaged(Current, Filled(Current))

ManagedNext == ManagedRunPass \/ ManagedBeginGroup \/ ManagedNextSweep \/ ManagedFinishGroup

ManagedSpec == ManagedInit /\ [][ManagedNext]_managed /\ WF_control(Moves)

-----------------------------------------------------------------------------
(* Properties *)

(* No pass is ever given facts of an earlier graph: what the manager holds  *)
(* is what the analysis would find now.                                     *)
CachesFresh == \A k \in DOMAIN cache : cache[k] = Facts(k, graph)

(* The manager is transparent: what a pipeline does with it is what it      *)
(* would do with every analysis computed afresh (module Pipeline).          *)
ImplementsPipeline == Spec

(* Every pipeline comes to its end.                                         *)
Terminates == <>Finished
=============================================================================
