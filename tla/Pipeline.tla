------------------------------ MODULE Pipeline ------------------------------
(***************************************************************************)
(* What runPipeline (src/opt/pipeline.cpp) promises: a pass runs on the     *)
(* graph the one before it left, with analyses of that very graph.  How     *)
(* analyses are kept between passes is PassManager's concern.               *)
(***************************************************************************)
EXTENDS PassLoop

CONSTANTS
  Graphs,           \* the graphs passes work on
  Origins,          \* the ones a pipeline may start from
  Kinds,            \* the kinds of analysis
  Asks(_),          \* Asks(pass): the analyses a pass asks for
  Facts(_, _),      \* Facts(kind, g): what an analysis finds of a graph
  Apply(_, _, _)    \* Apply(pass, g, facts): [g |-> what it leaves, count |-> its report]

ASSUME PipelineAssumption ==
  /\ Origins \subseteq Graphs
  /\ \A pass \in Passes : Asks(pass) \subseteq Kinds

Init == graph \in Origins /\ Start

-----------------------------------------------------------------------------
FactsFor(pass, g) == [k \in Asks(pass) |-> Facts(k, g)]

RunPass == AtPass /\ Leaves(Apply(Current, graph, FactsFor(Current, graph)))

Next == RunPass \/ BeginGroup \/ NextSweep \/ FinishGroup

Spec == Init /\ [][Next]_vars

-----------------------------------------------------------------------------
(* Properties *)

TypeOK ==
  /\ pipeline \in Pipelines
  /\ graph \in Graphs
  /\ group \in 1 .. Len(pipeline) + 1
  /\ sweep \in Nat
  /\ next \in Nat \ {0}
  /\ Running => sweep <= Cap(Group) /\ next <= Len(Group.passes) + 1
  /\ anyChanged \in BOOLEAN
  /\ fixedPoint \in BOOLEAN

(* Does a pass leave the graph alone, given its facts afresh?               *)
Idle(pass) == Apply(pass, graph, FactsFor(pass, graph)).g = graph

(* "Until a full sweep changes nothing": a sweep that reported no change    *)
(* leaves a graph none of the group's passes would change.                  *)
SettledIsFixed ==
  SweepOver /\ ~anyChanged => \A i \in DOMAIN Group.passes : Idle(Group.passes[i])
=============================================================================
