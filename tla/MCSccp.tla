-------------------------------- MODULE MCSccp --------------------------------
(* The graphs the solver is checked on: the instances' programs in SSA form,  *)
(* as they come and after value numbering has joined what is equal.         *)
EXTENDS Sccp, SSAPasses

CONSTANTS Structs, Builtins   \* see modules Types and Sema

FrontEnd == INSTANCE Sema
P        == INSTANCE MCPrograms

(* What becomes of a program: its functions, the code of globalInit, its    *)
(* inputs.                                                                  *)
Unit(t, code) == [name |-> t.name, f |-> "f", fns |-> code.functions, init |-> code.init, inputs |-> t.inputs]
Compile(t) == Unit(t, FrontEnd!Generate(FrontEnd!Analyse(P!Parsed(t))))

NoStructs == <<>>
Output    == P!Output

Built(t)  == Whole(BuildCFG(Compile(t).fns["f"].code))
Lift(g)   == Whole(SSAConstruct(g, Whole(LiveVariables(g))).g)
Joined(g) == Whole(GVN(g, Whole(Dominators(g))).g)
MCGraphs  ==
  LET lifted == {Lift(Built(t)) : t \in P!Correct} IN lifted \cup {Joined(g) : g \in lifted}
=============================================================================
