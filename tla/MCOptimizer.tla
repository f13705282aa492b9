----------------------------- MODULE MCOptimizer -----------------------------
(* The pipelines of the optimizer's instances; the programs are those of    *)
(* module MCPrograms.                                                       *)
EXTENDS Optimizer

CONSTANTS Structs, Builtins   \* see modules Types and Sema

FrontEnd == INSTANCE Sema
P        == INSTANCE MCPrograms

(* What becomes of a program: its functions, the code of globalInit, its    *)
(* inputs.                                                                  *)
Unit(t, code) == [name |-> t.name, f |-> "f", fns |-> code.functions, init |-> code.init, inputs |-> t.inputs]
Compile(t) == Unit(t, FrontEnd!Generate(FrontEnd!Analyse(P!Parsed(t))))
Compiled(trees) == {Compile(t) : t \in trees}

NoStructs == <<>>
Output    == P!Output

\* Semantic analysis accepts every program.
ASSUME AcceptedAssumption == \A t \in P!Correct \cup P!Small : FrontEnd!Accepts(P!Parsed(t))

\* Every run of a program as written ends within the fuel.
ASSUME EndsAssumption ==
  \A t \in Compiled(P!Correct) \cup Compiled(P!Small) :
    LET answers == Behaviour(t, t.fns[t.f].code) IN \A args \in DOMAIN answers : answers[args].status # "running"

ToFixpoint(passes) == [passes |-> passes, fixpoint |-> TRUE, sweeps |-> SweepCap]
Times(n, passes)   == [passes |-> passes, fixpoint |-> FALSE, sweeps |-> n]

\* Three presets.
Correctness == <<>>
Balanced == <<ToFixpoint(<<"fold", "constprop", "copyprop", "dce", "unreachable", "peephole">>)>>
Classic ==
  <<ToFixpoint(<<"fold", "constprop", "copyprop", "cse", "dce", "unreachable", "strength", "licm", "peephole">>)>>

\* Configurations of other shapes: loops first, groups after one another, one
\* sweep only, and the control-flow passes ahead of those that use dominators.
LoopsFirst == <<Times(2, <<"licm", "strength", "licm", "constprop">>), ToFixpoint(<<"dce", "copyprop", "cse">>)>>
EdgesFirst == <<Times(1, <<"peephole", "licm", "unreachable", "strength", "constprop", "unreachable", "licm">>)>>

\* Every pair of passes, the later one of Classic first, each enabling the
\* other until neither finds work.
Order == Classic[1].passes
Pairs ==
  UNION {{<<ToFixpoint(<<Order[m], Order[n]>>)>> : n \in 1 .. m - 1} : m \in DOMAIN Order}

\* A group of SSA passes is three runs of the manager: into SSA form, the
\* passes, out of it.
SSAGroup(gr) == <<Times(1, <<"ssa">>), gr, Times(1, <<"out-of-ssa">>)>>
JustSSA  == <<Times(1, <<"ssa">>), Times(1, <<"out-of-ssa">>)>>
SSAPassOrder == <<"sccp", "gvn", "licm-ssa", "ssa-dce">>
Optimized ==
  SSAGroup(ToFixpoint(SSAPassOrder))
    \o <<ToFixpoint(<<"fold", "constprop", "copyprop", "cse", "dce", "unreachable", "licm", "peephole">>)>>
Alone(pass) == SSAGroup(Times(1, <<pass>>))
SSALate == <<Times(1, <<"unreachable", "strength", "licm">>)>> \o SSAGroup(ToFixpoint(<<"gvn", "ssa-dce", "sccp">>))
SSAPipelines == {JustSSA, Optimized, SSALate} \cup {Alone(SSAPassOrder[n]) : n \in DOMAIN SSAPassOrder}

\* Two groups of SSA passes, the second over the names the first one left.
TwiceSSA == {Alone("gvn") \o JustSSA}
OptimizedTwice == SSAGroup(ToFixpoint(SSAPassOrder)) \o SSAGroup(ToFixpoint(SSAPassOrder))
AllSSAPipelines == SSAPipelines \cup TwiceSSA \cup {OptimizedTwice}
SwapPrograms == Compiled({t \in P!SSAShapes : t.name = "swap"})

AllPipelines == {Correctness, Balanced, Classic, LoopsFirst, EdgesFirst} \cup Pairs
CorrectPrograms == Compiled(P!Correct)
SmallPrograms   == Compiled(P!Small)
AllPrograms     == Compiled(P!Correct \cup P!Small)

\* A program of the family runs through two pipelines, a chosen one through all.
EveryOne(p)    == Pipelines
ShortOnFamily(p) == IF p.name = "small" THEN {Classic, LoopsFirst} ELSE Pipelines

\* The values of these two overlap: one group leaves names that a second makes again (findings).
OnceOnOverlaps(p) == IF p.name \in {"swap", "lostcopy"} THEN SSAPipelines ELSE Pipelines

\* One pipeline or program each, for the runs that end in a disagreement.
ClassicOnly  == {Classic}
EmptiedFirst == {<<Times(1, <<"dce">>), ToFixpoint(<<"unreachable">>)>>}
BalancedOnly == {Balanced}
EmptyThenPrograms      == Compiled({P!EmptyThenInLoop})
EmptyConstPrograms     == Compiled({P!EmptyThenOnConstant})
ExpressionCallPrograms == Compiled({P!ExpressionAcrossCall})
GlobalCounterPrograms  == Compiled({P!GlobalCounter})
DeadStorePrograms      == Compiled({P!DeadStoreAfterReturn})
SelfCopyPrograms       == Compiled({P!SelfCopy})
=============================================================================
