-------------------------------- MODULE Sccp --------------------------------
(***************************************************************************)
(* The solver of sparse conditional constant propagation (src/ssa/sccp.cpp): *)
(* two worklists, of edges that have become executable and of uses whose    *)
(* value has changed, taken in turns until both are empty.  One step is one *)
(* iteration of either inner loop.  Module SSAPasses takes its result for   *)
(* the solution SccpFacts of the equations; this module shows that it is.   *)
(***************************************************************************)
EXTENDS ControlFlow

CONSTANT Graphs   \* the graphs, in SSA form, an instance may solve

(* A name given by two phis, by two quads or by a phi and a quad is not an   *)
(* SSA name: what is said of it would be said of both.                      *)
PhisNamedOnce(g) ==
  \A b, c \in Blocks(g) : \A k \in DOMAIN g.phis[b], m \in DOMAIN g.phis[c] :
    g.phis[b][k].result.name = g.phis[c][m].result.name => b = c /\ k = m

QuadsNamedOnce(g) ==
  \A b, c \in Blocks(g) : \A i \in DOMAIN g.code[b], j \in DOMAIN g.code[c] :
    /\ Writes(g.code[b][i])
    /\ Writes(g.code[c][j])
    /\ g.code[b][i].result.name = g.code[c][j].result.name
    /\ g.code[b][i].result.name \in DOMAIN g.origin
    => b = c /\ i = j

PhisApartFromQuads(g) ==
  \A b, c \in Blocks(g) : \A k \in DOMAIN g.phis[b], j \in DOMAIN g.code[c] :
    Writes(g.code[c][j]) => g.code[c][j].result.name # g.phis[b][k].result.name

(* What the pass relies on: blocks numbered from the entry, edges between   *)
(* them, and SSA names with one definition each.                            *)
IsSSA(g) ==
  /\ IsFiniteSet(Blocks(g))
  /\ Blocks(g) = 0 .. Cardinality(Blocks(g)) - 1
  /\ Entry \in Blocks(g)
  /\ IsFiniteSet(DOMAIN g.origin)
  /\ \A b \in Blocks(g) :
       /\ g.code[b] \in Seq(ToSet(g.code[b]))
       /\ g.succs[b] \in Seq(Blocks(g))
       /\ g.phis[b] \in Seq(ToSet(g.phis[b]))
       /\ \A k \in DOMAIN g.phis[b] : g.phis[b][k].result.name \in DOMAIN g.origin
  /\ PhisNamedOnce(g)
  /\ QuadsNamedOnce(g)
  /\ PhisApartFromQuads(g)

ASSUME GraphsAssumption == \A g \in Graphs : IsSSA(g)

VARIABLES
  graph,
  val,          \* what is known of each SSA name
  execEdge,     \* the edges control may take
  execBlock,    \* the blocks whose quads have been evaluated
  flowWork,     \* edges not yet followed, oldest first
  ssaWork,      \* uses not yet evaluated again, oldest first
  phase         \* which of the two inner loops runs

vars == <<graph, val, execEdge, execBlock, flowWork, ssaWork, phase>>

NoBlock == -1
PhisOf(b)    == [block |-> b, at |-> 0]
QuadIn(b, i) == [block |-> b, at |-> i]

-----------------------------------------------------------------------------
(* The uses of x in block order: the phis of a block as one, each quad.      *)
UsesInPhis(g, x, b) ==
  IF \E p \in ToSet(g.phis[b]) : x \in NamesIn(ToSet(p.args)) THEN <<PhisOf(b)>> ELSE <<>>

UsesInQuads(g, x, b) ==
  FlattenSeq([i \in DOMAIN g.code[b] |-> IF x \in ReadNames(g.code[b][i]) THEN <<QuadIn(b, i)>> ELSE <<>>])

UsesOf(g, x) ==
  FlattenSeq([n \in 1 .. Cardinality(Blocks(g)) |-> UsesInPhis(g, x, n - 1) \o UsesInQuads(g, x, n - 1)])

\* Mutant of Lower: only the first fall of a name queues its uses.
LowerOnce(g, st, x, l) ==
  IF Meet(st.val[x], l) = st.val[x] THEN st
  ELSE [st EXCEPT !.val[x]  = Meet(@, l),
                  !.ssaWork = IF st.val[x] = LatTop THEN @ \o UsesOf(g, x) ELSE @]

(* A name goes down to what it meets; if it moves, all its uses are queued.  *)
Lower(g, st, x, l) ==
  IF Meet(st.val[x], l) = st.val[x] THEN st
  ELSE [st EXCEPT !.val[x] = Meet(@, l), !.ssaWork = @ \o UsesOf(g, x)]

EvalPhi(g, st, b, phi) == Lower(g, st, phi.result.name, PhiGiven(g, st.val, st.execEdge, b, phi))

EvalPhis(g, st, b) ==
  LET after[k \in 0 .. Len(g.phis[b])] == IF k = 0 THEN st ELSE EvalPhi(g, after[k - 1], b, g.phis[b][k])
  IN  after[Len(g.phis[b])]

MarkEdge(st, b, s) ==
  IF <<b, s>> \in st.execEdge THEN st
  ELSE [st EXCEPT !.execEdge = @ \cup {<<b, s>>}, !.flowWork = Append(@, <<b, s>>)]

MarkEdges(st, b, to) ==
  LET after[k \in 0 .. Len(to)] == IF k = 0 THEN st ELSE MarkEdge(after[k - 1], b, to[k])
  IN  after[Len(to)]

(* A branch marks the ways it may go: none yet, if its condition is unknown. *)
EvalBranch(g, st, b) == MarkEdges(st, b, Ways(g, st.val, b))

EvalValue(g, st, q) ==
  LET l == ValueGiven(st.val, q)
  IN  IF Writes(q) /\ q.result.name \in DOMAIN g.origin /\ l # LatTop THEN Lower(g, st, q.result.name, l) ELSE st

EvalQuad(g, st, b, i) ==
  LET q == g.code[b][i]
      passed == IF i = Len(g.code[b]) /\ q.op # "RET" THEN MarkEdges(st, b, g.succs[b]) ELSE st
  IN  IF q.op = "IF_FALSE" THEN EvalBranch(g, st, b) ELSE EvalValue(g, passed, q)

EvalBlock(g, st, b) ==
  IF g.code[b] = <<>> THEN MarkEdges(st, b, g.succs[b])
  ELSE LET after[i \in 0 .. Len(g.code[b])] == IF i = 0 THEN st ELSE EvalQuad(g, after[i - 1], b, i)
       IN  after[Len(g.code[b])]

EvalUse(g, st, u) == IF u.at = 0 THEN EvalPhis(g, st, u.block) ELSE EvalQuad(g, st, u.block, u.at)

-----------------------------------------------------------------------------
Init ==
  /\ graph \in Graphs
  /\ val = [x \in DOMAIN graph.origin |-> LatTop]
  /\ execEdge = {}
  /\ execBlock = {}
  /\ flowWork = <<<<NoBlock, Entry>>>>
  /\ ssaWork = <<>>
  /\ phase = "flow"

Known(flow, uses) == [val |-> val, execEdge |-> execEdge, flowWork |-> flow, ssaWork |-> uses]

Becomes(st) ==
  /\ val' = st.val
  /\ execEdge' = st.execEdge
  /\ flowWork' = st.flowWork
  /\ ssaWork' = st.ssaWork

(* An edge: the phis of its target every time, its quads the first time.     *)
FollowEdge ==
  /\ phase = "flow"
  /\ flowWork # <<>>
  /\ LET to == Head(flowWork)[2]
         st == EvalPhis(graph, Known(Tail(flowWork), ssaWork), to)
     IN  /\ Becomes(IF to \in execBlock THEN st ELSE EvalBlock(graph, st, to))
         /\ execBlock' = execBlock \cup {to}
  /\ UNCHANGED <<graph, phase>>

(* A use in a block that has not run waits for the block.                    *)
Reevaluate ==
  /\ phase = "ssa"
  /\ ssaWork # <<>>
  /\ LET use == Head(ssaWork)
         st  == Known(flowWork, Tail(ssaWork))
     IN  Becomes(IF use.block \in execBlock THEN EvalUse(graph, st, use) ELSE st)
  /\ UNCHANGED <<graph, execBlock, phase>>

TurnToUses ==
  /\ phase = "flow"
  /\ flowWork = <<>>
  /\ ssaWork # <<>>
  /\ phase' = "ssa"
  /\ UNCHANGED <<graph, val, execEdge, execBlock, flowWork, ssaWork>>

TurnToEdges ==
  /\ phase = "ssa"
  /\ ssaWork = <<>>
  /\ flowWork # <<>>
  /\ phase' = "flow"
  /\ UNCHANGED <<graph, val, execEdge, execBlock, flowWork, ssaWork>>

Next == FollowEdge \/ Reevaluate \/ TurnToUses \/ TurnToEdges

Spec == Init /\ [][Next]_vars

Settled == flowWork = <<>> /\ ssaWork = <<>>

-----------------------------------------------------------------------------
(* Properties *)

(* In a block that runs, a value is what its operands now make it and a      *)
(* branch's ways are marked, or the quad or the phis wait in a worklist: no  *)
(* change is lost between the two.                                          *)
QuadWaits(b, i) == QuadIn(b, i) \in ToSet(ssaWork)
PhisWait(b)     == PhisOf(b) \in ToSet(ssaWork) \/ \E e \in ToSet(flowWork) : e[2] = b

QuadIsCurrent(b, i) ==
  LET q == graph.code[b][i]
  IN  /\ Writes(q) /\ q.result.name \in DOMAIN val => val[q.result.name] = ValueGiven(val, q)
      /\ i = Len(graph.code[b]) => {b} \X Taken(graph, val, b) \subseteq execEdge

NoChangeIsLost ==
  \A b \in execBlock :
    /\ \A i \in DOMAIN graph.code[b] : QuadWaits(b, i) \/ QuadIsCurrent(b, i)
    /\ PhisWait(b) \/ \A phi \in ToSet(graph.phis[b]) :
                        val[phi.result.name] = PhiGiven(graph, val, execEdge, b, phi)

(* Wherever the worklists stop, whatever the order of the work, they stop on *)
(* the solution of the equations the rounds of SccpFacts compute.           *)
SettlesOnFacts ==
  Settled => LET facts == SccpFacts(graph)
             IN  val = facts.val /\ execEdge = facts.edges /\ execBlock = ExecutableBlocks(facts.edges)
=============================================================================
