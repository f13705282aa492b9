---------------------------- MODULE MCPassManager ----------------------------
(* Every system of three passes over graphs of three shapes: "loops" asks   *)
(* for both kinds of facts and keeps the edges, "local" asks for none and   *)
(* keeps them, "edges" asks for one kind and may change them.  A pass given *)
(* facts of another graph wrecks the graph.                                 *)
EXTENDS PassManager

Shapes == 1 .. 3
Wreck  == 0

\* The edges of a shape: shapes 1 and 2 differ in their code only.
EdgesOf(shape) == IF shape \in {1, 2} THEN 1 ELSE shape

KeepEdges == {f \in [Shapes -> Shapes] : \A s \in Shapes : EdgesOf(f[s]) = EdgesOf(s)}

Systems == [loops : KeepEdges, local : KeepEdges, edges : [Shapes -> Shapes]]

MCOrigins == [effect : Systems, shape : Shapes]
MCGraphs  == [effect : Systems, shape : Shapes \cup {Wreck}]
MCPasses  == {"loops", "local", "edges"}
MCKinds   == {"dom", "live"}

MCAsks(pass) == CASE pass = "loops" -> {"dom", "live"}
                  [] pass = "edges" -> {"live"}
                  [] pass = "local" -> {}

MCPreservesCFG(pass) == pass # "edges"

MCFacts(kind, g) == IF kind = "dom" THEN EdgesOf(g.shape) ELSE g.shape

MCApply(pass, g, facts) ==
  LET misled == \E k \in DOMAIN facts : facts[k] # MCFacts(k, g)
      shape  == IF g.shape = Wreck THEN Wreck
                ELSE IF misled THEN Wreck ELSE g.effect[pass][g.shape]
  IN  [g |-> [g EXCEPT !.shape = shape], count |-> IF shape = g.shape THEN 0 ELSE 1]

ToFixpoint(passes) == [passes |-> passes, fixpoint |-> TRUE, sweeps |-> 1]
Times(n, passes)   == [passes |-> passes, fixpoint |-> FALSE, sweeps |-> n]

MCPipelines ==
  {<<>>,
   <<ToFixpoint(<<"loops", "local", "edges">>)>>,
   <<ToFixpoint(<<"edges", "loops", "local", "loops">>)>>,
   <<Times(2, <<"loops", "edges", "loops">>), ToFixpoint(<<"local", "loops">>)>>}
=============================================================================
