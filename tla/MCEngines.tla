------------------------------ MODULE MCEngines ------------------------------
(* Instances of Engines: the programs of MCPrograms.                  *)
EXTENDS Engines

P == INSTANCE MCPrograms

MCPrograms == P!MCProgramSet
MCBoxesLeak   == P!BoxesLeak
MCVoidOperand == P!VoidOperand
MCStructOperand == P!StructOperand
MCNarrowArray == P!NarrowArray
MCLateRead    == P!LateRead
MCPastDeclaration == P!PastDeclaration
\* What the programs are lowered to.
Lowered == {Front!Generate(Front!Analyse(Programs[x])) : x \in DOMAIN Programs}
NoUnits == {}

MCStructs  == P!Layouts
MCBuiltins == P!Output
=============================================================================
