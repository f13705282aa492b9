------------------------------ MODULE Optimizer ------------------------------
(***************************************************************************)
(* The optimizer of the MiniCCore engine on one function: the pass manager  *)
(* (module AnalysisCache) with the nine classic passes (module Passes), the *)
(* SSA group (SSA, SSAPasses) and the analyses they ask for.                *)
(*                                                                         *)
(* A program is a record: the function f being optimized, fns from names    *)
(* to [params, code], the code init that sets the globals, and the inputs   *)
(* (argument lists) on which its behaviour (module Machine) is compared.    *)
(***************************************************************************)
EXTENDS SSAPasses, Machine

CONSTANTS
  Programs,     \* the programs an instance may compile
  Pipelines,    \* the pipelines it may run
  Tried(_),     \* those it runs on a program
  SweepCap,     \* the cap on the sweeps of a group that runs to a fixed point
  GlobalNames   \* the names globalInit writes

ASSUME ProgramAssumption ==
  \A p \in Programs :
    /\ GlobalNames = {p.init[n].result.name : n \in {k \in DOMAIN p.init : IsGlobal(p.init[k].result)}}
    /\ p.fns[p.f].code \in Seq(ToSet(p.fns[p.f].code))

VARIABLES
  program,      \* the program being compiled
  expected,     \* what it does before optimization, input by input
  pipeline, graph, group, sweep, next, anyChanged, fixedPoint, cache   \* see PassLoop, AnalysisCache

-----------------------------------------------------------------------------
(* What the manager is told of the passes *)

ClassicPasses == {"fold", "constprop", "copyprop", "cse", "dce", "unreachable", "strength", "licm", "peephole"}
SSAOnlyPasses == {"sccp", "gvn", "licm-ssa", "ssa-dce", "out-of-ssa"}
PassNames     == ClassicPasses \cup SSAOnlyPasses \cup {"ssa"}

AnalysisKinds == {"dom", "reach", "live"}

Analyse(kind, g) ==
  CASE kind = "dom"   -> Dominators(g)
    [] kind = "reach" -> ReachingDefs(g)
    [] kind = "live"  -> LiveVariables(g)

NeededBy(pass) ==
  CASE pass \in {"constprop", "copyprop"} -> {"reach"}
    [] pass \in {"dce", "ssa"} -> {"live"}
    [] pass \in {"strength", "gvn", "licm-ssa"} -> {"dom"}
    [] pass = "licm"     -> {"dom", "live"}
    [] OTHER             -> {}

Perform(pass, g, facts) ==
  CASE pass = "fold"        -> ConstantFolding(g)
    [] pass = "constprop"   -> ConstantPropagation(g, facts["reach"])
    [] pass = "copyprop"    -> CopyPropagation(g, facts["reach"])
    [] pass = "cse"         -> CommonSubexprElimination(g)
    [] pass = "dce"         -> DeadCodeElimination(g, facts["live"], GlobalNames)
    [] pass = "unreachable" -> UnreachableCodeElimination(g)
    [] pass = "strength"    -> StrengthReduction(g, facts["dom"])
    [] pass = "licm"        -> LoopInvariantCodeMotion(g, facts["dom"], facts["live"])
    [] pass = "peephole"    -> Peephole(g)
    [] pass = "ssa"         -> SSAConstruct(g, facts["live"])
    [] pass = "sccp"        -> SCCP(g)
    [] pass = "gvn"         -> GVN(g, facts["dom"])
    [] pass = "licm-ssa"    -> SSALICM(g, facts["dom"])
    [] pass = "ssa-dce"     -> SSADCE(g)
    [] pass = "out-of-ssa"  -> LeaveSSA(g)

LeavesEdges(pass) == pass \notin {"unreachable", "peephole", "ssa", "sccp"}

Manager == INSTANCE AnalysisCache WITH Passes <- PassNames, PreservesCFG <- LeavesEdges

(* The passes of a pipeline are these.                                      *)
ASSUME PipelineAssumption == \A pl \in Pipelines : Manager!IsPipeline(pl)

(* get: what is held, or else computed for the graph as it is now.          *)
Got(kind) == IF kind \in DOMAIN cache THEN cache[kind] ELSE Analyse(kind, graph)
Filled(pass) == [k \in DOMAIN cache \cup NeededBy(pass) |-> Got(k)]

RunManaged(pass, held) == Manager!Ran(pass, held, Perform(pass, graph, [k \in NeededBy(pass) |-> held[k]]))

-----------------------------------------------------------------------------
Behaviour(p, code) ==
  [args \in p.inputs |-> Observe([p.fns EXCEPT ![p.f].code = code], p.f, args, p.init)]

NamesMentioned(code) ==
  UNION {{o.name : o \in {p \in {code[n].arg1, code[n].arg2, code[n].result} : IsNameOperand(p)}} : n \in DOMAIN code}

Init ==
  /\ program \in Programs
  /\ expected = Behaviour(program, program.fns[program.f].code)
  /\ graph = BuildCFG(program.fns[program.f].code)
  /\ Manager!Start
  /\ pipeline \in Tried(program)
  /\ cache = [k \in {} |-> {}]

RunPass     == Manager!AtPass /\ RunManaged(Manager!Current, Filled(Manager!Current)) /\ UNCHANGED <<program, expected>>
BeginGroup  == Manager!ManagedBeginGroup /\ UNCHANGED <<program, expected>>
NextSweep   == Manager!ManagedNextSweep /\ UNCHANGED <<program, expected>>
FinishGroup == Manager!ManagedFinishGroup /\ UNCHANGED <<program, expected>>

Next == RunPass \/ BeginGroup \/ NextSweep \/ FinishGroup

vars == <<program, expected, pipeline, graph, group, sweep, next, anyChanged, fixedPoint, cache>>

Spec == Init /\ [][Next]_vars /\ WF_<<group, sweep, next>>(Manager!Moves)

-----------------------------------------------------------------------------
(* Properties *)

(* After every pass the function does what the source did: for every input  *)
(* it prints the same values, leaves the same globals, returns the same     *)
(* value and stops with an error in the same place.                         *)
SameBehaviour ==
  Behaviour(program, Flatten(IF InSSA(graph) THEN LeaveSSA(graph).g ELSE graph)) = expected

(* What --verify-each checks after every pass: the graph's edges are the    *)
(* transfers of its code, labels and jumps match, temporaries are set       *)
(* before they are used.                                                    *)
StaysWellFormed == Verified(graph)

(* What the manager holds is what the analyses would find now.              *)
CachesFresh == \A k \in DOMAIN cache : cache[k] = Analyse(k, graph)

(* What PassManager takes on trust from every pass: it reports whatever it  *)
(* changes, and leaves every edge alone if it says so.                      *)
PassesKeepPromises ==
  [][RunPass => /\ graph' # graph => anyChanged'
                /\ LeavesEdges(Manager!Current) => graph'.succs = graph.succs /\ graph'.preds = graph.preds]_vars

(* A block dominates a reached block iff every path to it goes through it:  *)
(* what P7 and P8 find loops and hoist by.                                  *)
DominatorsExact ==
  "dom" \in DOMAIN cache =>
    \A b \in ReachableFromEntry(graph) :
      cache["dom"][b] = {d \in Blocks(graph) : b \notin ReachableThrough(graph, Blocks(graph) \ {d})}

(* Into SSA form and out again with no pass between gives back the names of *)
(* the source: coalescing undoes what renaming did.                         *)
RoundTripKeepsNames ==
  (Manager!Finished /\ pipeline # <<>> /\ \A n \in DOMAIN pipeline : ToSet(pipeline[n].passes) \subseteq {"ssa", "out-of-ssa"})
    => NamesMentioned(Flatten(graph)) \subseteq NamesMentioned(program.fns[program.f].code)

(* Every group that is to run to a fixed point reaches one before its cap.  *)
ReachesFixedPoint == <>(Manager!Finished /\ fixedPoint)
=============================================================================
