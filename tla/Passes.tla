------------------------------- MODULE Passes -------------------------------
(***************************************************************************)
(* The nine classic passes P1 .. P9 (src/opt of the MiniCCore engine).     *)
(* A pass takes a graph, and the analyses it asks the analysis manager     *)
(* for, and returns [g |-> the graph it leaves, count |-> the number of    *)
(* transforms it reports].  Trace edits are left out.                      *)
(***************************************************************************)
EXTENDS ControlFlow, DataFlow

-----------------------------------------------------------------------------
(* The analyses the passes use, as instances of the data-flow framework:    *)
(* reaching definitions and live variables.  Each builds a problem (module  *)
(* DataFlow) from a graph (module ControlFlow) and reads its solution back. *)
(* Available expressions, which only --dump-dataflow prints, are left out.  *)

(* The part of a problem every instance takes from the graph.               *)
GraphProblem(g, forward, union) ==
  [size    |-> Cardinality(Blocks(g)),
   entry   |-> Entry,
   preds   |-> [b \in Blocks(g) |-> Preds(g, b)],
   succs   |-> [b \in Blocks(g) |-> Succs(g, b)],
   forward |-> forward,
   union   |-> union]

-----------------------------------------------------------------------------
(* Reaching definitions.  A definition is the quad that writes a name, at   *)
(* its site; the value a local holds on entry is a definition of its own,   *)
(* so that a parameter never seems to have just one.                        *)
EntrySite == <<-1, 0>>

CodeDefs(g) ==
  UNION {{[site |-> <<b, i>>, name |-> g.code[b][i].result.name, quad |-> g.code[b][i]] :
            i \in {j \in DOMAIN g.code[b] : Writes(g.code[b][j])}} : b \in Blocks(g)}

LocalsRead(g) ==
  {o \in UNION {ReadsOf(q) : q \in UNION {ToSet(g.code[b]) : b \in Blocks(g)}} : o.kind = "LOCAL"}

EntryDefs(g) ==
  {[site |-> EntrySite, name |-> o.name, quad |-> Quad("NOP", NoOperand, NoOperand, o)] : o \in LocalsRead(g)}

LastInBlock(defs) == {d \in defs : \A e \in defs : e.name = d.name => e.site[2] <= d.site[2]}

ReachingDefs(g) ==
  LET entryDefs == EntryDefs(g)
      defs      == CodeDefs(g) \cup entryDefs
      own       == [b \in Blocks(g) |-> {d \in defs : d.site[1] = b}]
      gen       == [b \in Blocks(g) |-> LastInBlock(own[b])]
      kill      == [b \in Blocks(g) |-> {d \in defs \ gen[b] : \E e \in gen[b] : e.name = d.name}]
      p         == GraphProblem(g, TRUE, TRUE)
                     @@ [boundary |-> entryDefs, universe |-> defs, gen |-> gen, kill |-> kill]
  IN  [defs |-> defs, in |-> SolveMet(p)]

-----------------------------------------------------------------------------
(* Live variables, by name.                                                 *)
UsedFirst(code) ==
  UNION {{x \in ReadNames(code[i]) : \A j \in 1 .. i - 1 : ~WritesName(code[j], x)} : i \in DOMAIN code}

LiveVariables(g) ==
  LET gen  == [b \in Blocks(g) |-> UsedFirst(g.code[b])]
      kill == [b \in Blocks(g) |-> NamesDefinedIn(g, {b})]
      p    == GraphProblem(g, FALSE, TRUE)
                @@ [boundary |-> {}, universe |-> UNION {gen[b] \cup kill[b] : b \in Blocks(g)},
                    gen |-> gen, kill |-> kill]
  IN  [in |-> SolveFlow(p), out |-> SolveMet(p)]

-----------------------------------------------------------------------------
(* Passes *)

Result(g, count) == [g |-> g, count |-> count]

(* A scan of all blocks, in order, of an operator on one block's code.      *)
Gathered(g, done) ==
  Result([g EXCEPT !.code = [b \in Blocks(g) |-> done[b].code]], FoldFunction(LAMBDA r, n : r.count + n, 0, done))
OverBlocks(g, Do(_)) == Gathered(g, [b \in Blocks(g) |-> Do(b)])

(* What a pass that only moves and rewrites quads leaves of g.              *)
WithCode(g, code) == [g EXCEPT !.code = [b \in Blocks(g) |-> code[b]]]

CopyOf(q, value) == [q EXCEPT !.op = "COPY", !.arg1 = value, !.arg2 = NoOperand]

-----------------------------------------------------------------------------
(* P1: constant folding *)

Foldable(q) ==
  \/ q.op \in BinaryExprOps /\ IsConst(q.arg1) /\ IsConst(q.arg2) /\ ~Traps(q.op, q.arg2.ival, q.ty)
  \/ q.op \in UnaryExprOps /\ IsConst(q.arg1)

FoldedValue(q) ==
  IF q.op \in BinaryExprOps THEN BinaryValue(q.op, q.arg1.ival, q.arg2.ival, q.ty)
                            ELSE UnaryValue(q.op, q.arg1.ival, q.ty)

ConstantFolding(g) ==
  OverBlocks(g, LAMBDA b :
    [code  |-> [i \in DOMAIN g.code[b] |->
                  LET q == g.code[b][i]
                  IN  IF Foldable(q) THEN [CopyOf(q, Const(FoldedValue(q))) EXCEPT !.ty = "NONE"] ELSE q],
     count |-> Cardinality({i \in DOMAIN g.code[b] : Foldable(g.code[b][i])})])

-----------------------------------------------------------------------------
(* P2, P3: constant and copy propagation.  Both replay a block forward with *)
(* the definitions that reach each quad (propagation_util.h).               *)

(* What a definition copies, if it is a copy.                               *)
Copied(d) == {o \in {d.quad.arg1} : d.quad.op = "COPY"}

(* A name with a stale definition is no longer tracked at all.              *)
DropNames(defs, stale) == {d \in defs : d.name \notin {e.name : e \in stale}}

\* Mutant of AfterCall: the callee is not thought of.
AfterCallKeepsAll(q, defs) == defs

(* After a call, a copy of a global may no longer hold the global's value.  *)
AfterCall(q, defs) ==
  IF q.op = "CALL" THEN DropNames(defs, {d \in defs : \E o \in Copied(d) : IsGlobal(o)}) ELSE defs

(* A definition replaces those of its name and makes copies of it stale.    *)
AfterDef(mine, defs) ==
  LET written == {d.name : d \in mine}
      stale(d) == d.name \in written \/ \E o \in Copied(d) : IsNameOperand(o) /\ o.name \in written
  IN  DropNames(defs, {d \in defs : stale(d)}) \cup mine

(* P2 takes constants from anywhere, P3 names from within the block.        *)
Eligible(pass, d, isLocal) ==
  \E o \in Copied(d) : IF pass = "constprop" THEN IsConst(o) ELSE isLocal /\ IsNameOperand(o)

(* The uses of q to replace: one definition reaches, it may be propagated,  *)
(* and the name is not a global's.                                          *)
Replaced(pass, q, defs, local) ==
  {f \in ReadSlots(q) :
     /\ ~IsGlobal(q[f])
     /\ \E d \in defs : /\ {e \in defs : e.name = q[f].name} = {d}
                        /\ Eligible(pass, d, q[f].name \in local)}

PropagateInBlock(pass, code, b, facts) ==
  LET step(st, i) ==
        LET q     == code[i]
            slots == Replaced(pass, q, st.defs, st.local)
            value(f) == IF f \in slots THEN (CHOOSE d \in st.defs : d.name = q[f].name).quad.arg1 ELSE q[f]
            mine  == {d \in facts.defs : d.site = <<b, i>>}
        IN  [code  |-> Append(st.code, [q EXCEPT !.arg1 = value("arg1"), !.arg2 = value("arg2"),
                                                 !.result = value("result")]),
             defs  |-> LET defs == AfterCall(q, st.defs) IN IF mine = {} THEN defs ELSE AfterDef(mine, defs),
             local |-> st.local \cup {d.name : d \in mine},
             count |-> st.count + Cardinality(slots)]
  IN  FoldLeft(step, [code |-> <<>>, defs |-> facts.in[b], local |-> {}, count |-> 0],
               [i \in DOMAIN code |-> i])

ConstantPropagation(g, reach) ==
  OverBlocks(g, LAMBDA b : PropagateInBlock("constprop", g.code[b], b, reach))

CopyPropagation(g, reach) ==
  OverBlocks(g, LAMBDA b : PropagateInBlock("copyprop", g.code[b], b, reach))

-----------------------------------------------------------------------------
(* P4: common subexpressions.  `avail` holds the quads of the block whose   *)
(* result still has the value of their expression.                          *)

Concerns(q, x) == \E o \in {q.arg1, q.arg2, q.result} : IsNameOperand(o) /\ o.name = x

Unless(q, avail) == IF Writes(q) THEN {e \in avail : ~Concerns(e, q.result.name)} ELSE avail

CommonSubexprElimination(g) ==
  OverBlocks(g, LAMBDA b :
    LET step(st, q) ==
          LET held == {e \in st.avail : q.op \in BinaryExprOps /\ ExprKey(e) = ExprKey(q)}
              left == Unless(q, st.avail)
          IN  IF held # {}
              THEN [code |-> Append(st.code, CopyOf(q, (CHOOSE e \in held : TRUE).result)),
                    avail |-> left, count |-> st.count + 1]
              ELSE [code |-> Append(st.code, q),
                    avail |-> left \cup (IF q.op \in BinaryExprOps /\ Writes(q) THEN {q} ELSE {}),
                    count |-> st.count]
    IN  FoldLeft(step, [code |-> <<>>, avail |-> {}, count |-> 0], g.code[b]))

-----------------------------------------------------------------------------
(* P5: dead code.  What may go: it cannot trap, call, load or allocate.     *)

DceEligible ==
  {"ADD", "SUB", "MUL", "AND", "OR", "NEG", "NOT", "BITAND", "BITOR", "BITXOR", "BITNOT",
   "COPY", "TO_INT", "TO_FLOAT"} \cup Comparisons

DeadCodeElimination(g, live, globals) ==
  OverBlocks(g, LAMBDA b :
    LET dead(q, now) == Writes(q) /\ q.op \in DceEligible /\ q.result.name \notin now \cup globals
        step(q, st) ==
          IF dead(q, st.live)
          THEN [st EXCEPT !.count = @ + 1]
          ELSE [code  |-> <<q>> \o st.code,
                live  |-> (IF Writes(q) THEN st.live \ {q.result.name} ELSE st.live) \cup ReadNames(q),
                count |-> st.count]
    IN  FoldRight(step, g.code[b], [code |-> <<>>, live |-> live.out[b], count |-> 0]))

-----------------------------------------------------------------------------
(* P6: unreachable code *)

Outside(s, gone) == FlattenSeq([i \in DOMAIN s |-> IF s[i] \in gone THEN <<>> ELSE <<s[i]>>])
Without(s, x)    == Outside(s, {x})

(* Every copy of the edge goes.                                             *)
RemoveEdge(g, from, to) ==
  [g EXCEPT !.succs[from] = Without(@, to), !.preds[to] = Without(@, from)]

(* A branch on a constant goes one way: succs[1] is the branch target and   *)
(* succs[2] the block it falls through to.                                  *)
BranchFolds(g, b) ==
  Terminator(g.code[b]) = "IF_FALSE" /\ IsConst(Last(g.code[b]).arg1) /\ Len(g.succs[b]) = 2

FoldBranch(g, b) ==
  LET term == Last(g.code[b])
  IN  IF term.arg1.ival = 0
      THEN RemoveEdge([g EXCEPT !.code[b] = Front(@) \o <<[term EXCEPT !.op = "GOTO", !.arg1 = NoOperand]>>],
                      b, g.succs[b][2])
      ELSE RemoveEdge([g EXCEPT !.code[b] = Front(@)], b, g.succs[b][1])

(* Blocks the entry does not reach lose their code and their edges; those   *)
(* that had code are counted.  The code repeats this until nothing is left  *)
(* to clear; cutting edges out of unreached blocks reaches no others, so    *)
(* the second round finds nothing.                                          *)
\* Mutant of Clear: blocks that were empty already are counted too.
ClearCountsEmpty(st, dead) ==
  Result([code  |-> [b \in Blocks(st.g) |-> IF b \in dead THEN <<>> ELSE st.g.code[b]],
          succs |-> [b \in Blocks(st.g) |-> IF b \in dead THEN <<>> ELSE st.g.succs[b]],
          preds |-> [b \in Blocks(st.g) |-> Outside(st.g.preds[b], dead)]],
         st.count + Cardinality(dead))

Clear(st, dead) ==
  Result([code  |-> [b \in Blocks(st.g) |-> IF b \in dead THEN <<>> ELSE st.g.code[b]],
          succs |-> [b \in Blocks(st.g) |-> IF b \in dead THEN <<>> ELSE st.g.succs[b]],
          preds |-> [b \in Blocks(st.g) |-> Outside(st.g.preds[b], dead)]],
         st.count + Cardinality({b \in dead : st.g.code[b] # <<>>}))

ClearUnreached(st) == Clear(st, Blocks(st.g) \ ReachableFromEntry(st.g))

(* Block by block: after[n] is what folding the first n leaves.             *)
BranchFolded(st, b) == IF BranchFolds(st.g, b) THEN Result(FoldBranch(st.g, b), st.count + 1) ELSE st

BranchesFolded(g) ==
  LET after[n \in 0 .. Cardinality(Blocks(g))] ==
        IF n = 0 THEN Result(g, 0) ELSE BranchFolded(after[n - 1], n - 1)
  IN  after[Cardinality(Blocks(g))]

UnreachableCodeElimination(g) == ClearUnreached(BranchesFolded(g))

-----------------------------------------------------------------------------
(* P7: strength reduction *)

(* q adds a constant to, or subtracts one from, x.                          *)
Names(o, x) == IsNameOperand(o) /\ o.name = x
Steps(q, x) ==
  \/ q.op \in {"ADD", "SUB"} /\ Names(q.arg1, x) /\ IsConst(q.arg2)
  \/ q.op = "ADD" /\ Names(q.arg2, x) /\ IsConst(q.arg1)
StepOf(q, x) ==
  IF Names(q.arg1, x) /\ IsConst(q.arg2) THEN IF q.op = "ADD" THEN q.arg2.ival ELSE -q.arg2.ival
                                         ELSE q.arg1.ival

(* The quad whose step x takes at s: the quad itself, or the one just       *)
(* before it when s copies that one's result to x; none otherwise.          *)
StepQuads(g, s, x) ==
  LET q    == QuadAt(g, s)
      prev == g.code[s[1]][s[2] - 1]
  IN  IF q.op \in {"ADD", "SUB"} THEN {r \in {q} : Steps(r, x)}
      ELSE IF q.op = "COPY" /\ IsNameOperand(q.arg1) /\ s[2] > 1
           THEN {r \in {prev} : WritesName(r, q.arg1.name) /\ Steps(r, x)}
           ELSE {}

Multiplies(q, x) ==
  /\ q.op = "MUL"
  /\ \/ Names(q.arg1, x) /\ IsConst(q.arg2)
     \/ Names(q.arg2, x) /\ IsConst(q.arg1)
FactorOf(q, x) == IF Names(q.arg1, x) /\ IsConst(q.arg2) THEN q.arg2.ival ELSE q.arg1.ival

UsedNames(g) ==
  {o.name : o \in {p \in UNION {{q.arg1, q.arg2, q.result} : q \in UNION {ToSet(g.code[b]) : b \in Blocks(g)}} :
                     IsNameOperand(p)}}

(* The first of Name(from), Name(from + 1) ... that is not used.            *)
FirstFree(Name(_), used, from) ==
  CHOOSE n \in from .. from + Cardinality(used) :
    Name(n) \notin used /\ \A k \in from .. n - 1 : Name(k) \in used

MirrorName(n) == "__sr" \o ToString(n)
FreshMirror(g, from) == Temp(MirrorName(FirstFree(MirrorName, UsedNames(g), from)))

\* Mutant of WithMirror: the mirror has no first value.
WithMirrorNoStart(g, lp, x, s, k, ty, m) ==
  [g EXCEPT !.code[s[1]] =
     InsertAt(@, s[2] + 1, TypedQuad("ADD", m, Const(StepOf(CHOOSE q \in StepQuads(g, s, x) : TRUE, x) * k), m, ty))]

(* The induction variable x, updated at s, gets a mirror m of x * k at type  *)
(* ty: it starts so in the preheader and follows every step of x.           *)
WithMirror(g, lp, x, s, k, ty, m) ==
  [AppendToPreheader(g, lp.preheader, <<TypedQuad("MUL", QuadAt(g, s).result, Const(k), m, ty)>>)
     EXCEPT !.code[s[1]] =
       InsertAt(@, s[2] + 1, TypedQuad("ADD", m, Const(StepOf(CHOOSE q \in StepQuads(g, s, x) : TRUE, x) * k), m, ty))]

IsProduct(q, x, k, ty) == Multiplies(q, x) /\ FactorOf(q, x) = k /\ q.ty = ty

UseMirror(g, lp, x, k, ty, m) ==
  Result([g EXCEPT !.code = [b \in Blocks(g) |-> [i \in DOMAIN g.code[b] |->
            IF b \in lp.blocks /\ IsProduct(g.code[b][i], x, k, ty) THEN CopyOf(g.code[b][i], m)
                                                                     ELSE g.code[b][i]]]],
         Cardinality({u \in Sites(g, lp.blocks) : IsProduct(QuadAt(g, u), x, k, ty)}))

Mirror(g, lp, x, s, k, ty, m) == UseMirror(WithMirror(g, lp, x, s, k, ty, m), lp, x, k, ty, m)

Products(g, lp, x) == {q \in {QuadAt(g, u) : u \in Sites(g, lp.blocks)} : Multiplies(q, x)}

(* Written once in the loop, by a constant step, and multiplied there.      *)
InductionVariables(g, lp) ==
  {x \in NamesDefinedIn(g, lp.blocks) :
     /\ Cardinality(DefSites(g, lp.blocks, x)) = 1
     /\ \A s \in DefSites(g, lp.blocks, x) : StepQuads(g, s, x) # {}
     /\ Products(g, lp, x) # {}}

(* One mirror per factor; a factor used at two types gets none.             *)
FactorTypes(g, lp, x, k) == {q.ty : q \in {r \in Products(g, lp, x) : FactorOf(r, x) = k}}

Factors(g, lp, x) ==
  {k \in {FactorOf(q, x) : q \in Products(g, lp, x)} : Cardinality(FactorTypes(g, lp, x, k)) = 1}

Counted(st, result) == [g |-> result.g, count |-> st.count + result.count, fresh |-> st.fresh + 1]

ReduceFactor(st, lp, x, k) ==
  Counted(st, Mirror(st.g, lp, x, CHOOSE s \in DefSites(st.g, lp.blocks, x) : TRUE, k,
                     CHOOSE t \in FactorTypes(st.g, lp, x, k) : TRUE, FreshMirror(st.g, st.fresh)))

ReduceVariable(st, lp, x) ==
  FoldLeft(LAMBDA acc, k : ReduceFactor(acc, lp, x, k), st,
           SetToSortSeq(Factors(st.g, lp, x), LAMBDA j, k : j < k))

(* The loops that have a preheader, in the order they are found.            *)
LoopsWithPreheader(g, dom) == SelectSeq(FindNaturalLoops(g, dom), LAMBDA lp : lp.preheader # NoPreheader)

LoopsReduced(g, dom) ==
  FoldLeft(LAMBDA st, lp : FoldLeft(LAMBDA acc, x : ReduceVariable(acc, lp, x), st,
                                    SetToSeq(InductionVariables(st.g, lp))),
           [g |-> g, count |-> 0, fresh |-> 0], LoopsWithPreheader(g, dom))

StrengthReduction(g, dom) ==
  LET st == LoopsReduced(g, dom) IN Result(WithCode(g, st.g.code), st.count)

-----------------------------------------------------------------------------
(* P8: loop-invariant code motion *)

SafeToRelocate == DceEligible

\* Mutant of Hoistable: a value the loop may read before it is set may go too.
HoistableIgnoresLiveIn(g, lp, dom, live) ==
  LET defined == NamesDefinedIn(g, lp.blocks)
      calls   == \E s \in Sites(g, lp.blocks) : QuadAt(g, s).op = "CALL"
      invariant(q) == \A o \in ReadsOf(q) : o.name \notin defined /\ ~(IsGlobal(o) /\ calls)
  IN  {s \in Sites(g, lp.blocks) :
         LET q == QuadAt(g, s)
         IN  /\ s[1] \in dom[lp.tail]
             /\ q.op \in SafeToRelocate
             /\ Writes(q)
             /\ invariant(q)
             /\ Cardinality(DefSites(g, lp.blocks, q.result.name)) = 1
             /\ ~IsGlobal(q.result)}

(* The quads of the loop that may go to the preheader: same value each time, *)
(* the only definition of their name, run by every iteration, and nothing   *)
(* before the loop or outside the function sees the name change.            *)
Hoistable(g, lp, dom, live) ==
  LET defined == NamesDefinedIn(g, lp.blocks)
      calls   == \E s \in Sites(g, lp.blocks) : QuadAt(g, s).op = "CALL"
      invariant(q) == \A o \in ReadsOf(q) : o.name \notin defined /\ ~(IsGlobal(o) /\ calls)
  IN  {s \in Sites(g, lp.blocks) :
         LET q == QuadAt(g, s)
         IN  /\ s[1] \in dom[lp.tail]
             /\ q.op \in SafeToRelocate
             /\ Writes(q)
             /\ invariant(q)
             /\ Cardinality(DefSites(g, lp.blocks, q.result.name)) = 1
             /\ q.result.name \notin live.in[lp.head]
             /\ ~IsGlobal(q.result)}

Before(s, t) == s[1] < t[1] \/ (s[1] = t[1] /\ s[2] < t[2])

HoistFrom(st, lp, s) ==
  Result(AppendToPreheader([st.g EXCEPT !.code[s[1]] = RemoveAt(@, s[2])], lp.preheader, <<QuadAt(st.g, s)>>),
         st.count + 1)

(* The first that may go, in block order.                                   *)
HoistOne(st, lp, found) == HoistFrom(st, lp, CHOOSE s \in found : \A t \in found \ {s} : Before(s, t))

(* One at a time, until none is left; each one leaves the loop, so the      *)
(* quads of the loop bound their number.  Found(g) are those that may go.    *)
Hoisting(st, lp, Found(_)) ==
  FoldLeft(LAMBDA at, n : IF at.found = {} THEN at
                          ELSE LET next == HoistOne(at.st, lp, at.found)
                               IN  [st |-> next, found |-> Found(next.g)],
           [st |-> st, found |-> Found(st.g)],
           [n \in 1 .. Cardinality(Sites(st.g, lp.blocks)) |-> n]).st

HoistAll(st, lp, dom, live) == Hoisting(st, lp, LAMBDA g : Hoistable(g, lp, dom, live))

LoopsHoisted(g, dom, live) ==
  FoldLeft(LAMBDA st, lp : HoistAll(st, lp, dom, live), Result(g, 0), LoopsWithPreheader(g, dom))

LoopInvariantCodeMotion(g, dom, live) ==
  LET st == LoopsHoisted(g, dom, live) IN Result(WithCode(g, st.g.code), st.count)

-----------------------------------------------------------------------------
(* P9: peephole *)

(* The block holds nothing but a goto, after its label if it has one.       *)
IsPureGoto(g, b) ==
  /\ Terminator(g.code[b]) = "GOTO"
  /\ Len(g.code[b]) = (IF HasLabel(g.code[b]) THEN 2 ELSE 1)
  /\ Len(g.succs[b]) = 1

(* Where a chain of such blocks leads; a cycle leads nowhere else.          *)
ResolveChain(g, start) ==
  LET hop  == [b \in Blocks(g) |-> IF IsPureGoto(g, b) THEN {g.succs[b][1]} ELSE {}]
      ends == {b \in Closure(hop, {start}) : ~IsPureGoto(g, b)}
  IN  IF ends = {} THEN start ELSE CHOOSE b \in ends : TRUE

Labels(g) == {Head(g.code[b]).result.name : b \in {c \in Blocks(g) : HasLabel(g.code[c])}}

(* The block's label, a new "__pp<n>", n >= fresh, put first if need be.     *)
LabelName(n) == "__pp" \o ToString(n)

PutLabel(g, b, n) ==
  [g |-> [g EXCEPT !.code[b] = <<LabelQuad(LabelName(n))>> \o @], label |-> Label(LabelName(n)), fresh |-> n + 1]

EnsureLabel(g, b, fresh) ==
  IF HasLabel(g.code[b])
  THEN [g |-> g, label |-> Head(g.code[b]).result, fresh |-> fresh]
  ELSE PutLabel(g, b, FirstFree(LabelName, Labels(g), fresh))

\* Mutant of RedirectEdge: the old target keeps its predecessor.
RedirectKeepsPred(g, from, oldTo, newTo) ==
  [g EXCEPT !.succs[from] = [i \in DOMAIN @ |-> IF @[i] = oldTo THEN newTo ELSE @[i]],
            !.preds[newTo] = Append(@, from)]

RedirectEdge(g, from, oldTo, newTo) ==
  LET cut == [g EXCEPT !.succs[from] = [i \in DOMAIN @ |-> IF @[i] = oldTo THEN newTo ELSE @[i]],
                       !.preds[oldTo] = Without(@, from)]
  IN  [cut EXCEPT !.preds[newTo] = Append(@, from)]

(* A jump to a pure goto goes straight to where that one leads.             *)
Retarget(st, b, old, final, e) ==
  [g     |-> RedirectEdge([e.g EXCEPT !.code[b] = Front(@) \o <<[Last(@) EXCEPT !.result = e.label]>>], b, old, final),
   count |-> st.count + 1,
   fresh |-> e.fresh]

ThreadTo(st, b, old, final) ==
  IF final = old THEN st ELSE Retarget(st, b, old, final, EnsureLabel(st.g, final, st.fresh))

ThreadJump(st, b) ==
  IF Terminator(st.g.code[b]) \in {"GOTO", "IF_FALSE"} /\ st.g.succs[b] # <<>>
  THEN ThreadTo(st, b, Head(st.g.succs[b]), ResolveChain(st.g, Head(st.g.succs[b])))
  ELSE st

(* A goto to the physically next block goes.                                *)
GotoNext(g, b) == Terminator(g.code[b]) = "GOTO" /\ g.succs[b] = <<b + 1>>

\* Mutant of DropGotos: a dropped goto is not reported.
DropGotosUncounted(st, drop) ==
  Result([st.g EXCEPT !.code = [b \in DOMAIN @ |-> IF b \in drop THEN Front(@[b]) ELSE @[b]]], st.count)

DropGotos(st, drop) ==
  Result([st.g EXCEPT !.code = [b \in DOMAIN @ |-> IF b \in drop THEN Front(@[b]) ELSE @[b]]],
         st.count + Cardinality(drop))

ThenDropGotos(st) == DropGotos(st, {b \in Blocks(st.g) : GotoNext(st.g, b)})

JumpsThreaded(g) ==
  LET after[n \in 0 .. Cardinality(Blocks(g))] ==
        IF n = 0 THEN [g |-> g, count |-> 0, fresh |-> 0] ELSE ThreadJump(after[n - 1], n - 1)
  IN  after[Cardinality(Blocks(g))]

Peephole(g) == ThenDropGotos(JumpsThreaded(g))
=============================================================================
