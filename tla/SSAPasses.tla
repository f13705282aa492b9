------------------------------ MODULE SSAPasses ------------------------------
(***************************************************************************)
(* The passes that work on SSA form (src/ssa): sparse conditional constant   *)
(* propagation, value numbering, loop-invariant code motion and dead code.  *)
(* As in module Passes, each returns [g, count].                            *)
(***************************************************************************)
EXTENDS SSA

-----------------------------------------------------------------------------
(* sccp: the graph rewritten with the facts of SccpFacts.                  *)

KnownIn(val, o) == IsNameOperand(o) /\ o.name \in DOMAIN val /\ val[o.name].kind = "CONST"

(* Base pointers stay names.                                                *)
ConstSlots(q) ==
  ReadSlots(q) \ (CASE q.op = "LOAD_INDEX" -> {"arg1"} [] q.op = "STORE_INDEX" -> {"result"}
                    [] q.op = "COPY_BLOCK" -> {"arg1", "result"} [] OTHER -> {})

SccpQuad(q, val) ==
  LET slot(f) == IF f \in ConstSlots(q) /\ KnownIn(val, q[f]) THEN Const(val[q[f].name].ival) ELSE q[f]
  IN  IF /\ Writes(q)
         /\ q.op \notin {"CALL", "LOAD_INDEX", "ALLOC_ARRAY"}
         /\ ~(q.op = "COPY" /\ IsConst(q.arg1))
         /\ KnownIn(val, q.result)
      THEN Quad("COPY", Const(val[q.result.name].ival), NoOperand, q.result)
      ELSE [q EXCEPT !.arg1 = slot("arg1"), !.arg2 = slot("arg2"), !.result = slot("result")]

(* A branch that can go one way only becomes a jump, or nothing.            *)
SccpBranch(st, b, edges) ==
  LET g  == st.g
      to == {s \in Succs(g, b) : <<b, s>> \in edges}
      br == Last(g.code[b])
  IN  IF Terminator(g.code[b]) # "IF_FALSE" \/ Len(g.succs[b]) # 2 \/ Cardinality(to) # 1
           \/ Cardinality(Succs(g, b)) # 2
      THEN st
      ELSE IF to = {g.succs[b][1]}
      THEN Result(RemoveEdgeSSA([g EXCEPT !.code[b] = Front(@) \o <<[br EXCEPT !.op = "GOTO", !.arg1 = NoOperand]>>],
                                b, g.succs[b][2]), st.count + 1)
      ELSE Result(RemoveEdgeSSA([g EXCEPT !.code[b] = Front(@)], b, g.succs[b][1]), st.count + 1)

(* The quads of the blocks that run.  The code counts the quads it changes;  *)
(* here the blocks are, as it matters only whether there are any.           *)
SccpBlock(code, val) == [i \in DOMAIN code |-> SccpQuad(code[i], val)]
Rewritten(g, new)    == Result(WithCode(g, new), Cardinality({b \in Blocks(g) : new[b] # g.code[b]}))

SccpFold(g, val, run) ==
  Rewritten(g, [b \in Blocks(g) |-> IF b \in run THEN SccpBlock(g.code[b], val) ELSE g.code[b]])

(* Block by block, as in P6.                                                *)
SccpCut(start, edges, run) ==
  LET after[n \in 0 .. Cardinality(Blocks(start.g))] ==
        IF n = 0 THEN start
        ELSE IF n - 1 \in run THEN SccpBranch(after[n - 1], n - 1, edges) ELSE after[n - 1]
  IN  after[Cardinality(Blocks(start.g))]
Tidied(st) == Result(ClearUnreachable(st.g), st.count + Cleared(st.g))

SccpApplied(g, val, edges, run) == Tidied(SccpCut(SccpFold(g, val, run), edges, run))
SccpOn(g, facts) == SccpApplied(g, facts.val, facts.edges, ExecutableBlocks(facts.edges))
SCCP(g) == SccpOn(g, SccpFacts(g))

-----------------------------------------------------------------------------
(* gvn *)

Commutative == {"ADD", "MUL", "EQ", "NE", "BITAND", "BITOR", "BITXOR", "AND", "OR"}

(* It cannot change while the function runs: a constant, an SSA name, or an *)
(* original name.                                                           *)
Immutable(g, o) == IsConst(o) \/ (IsNameOperand(o) /\ o.name \in DOMAIN g.origin \cup Originals(g))

(* What o is by now known to be, through any chain of replacements.         *)
Resolve(repl, o) ==
  LET follow[n \in 0 .. Cardinality(DOMAIN repl)] ==
        IF n = 0 THEN o
        ELSE LET r == follow[n - 1] IN IF IsNameOperand(r) /\ r.name \in DOMAIN repl THEN repl[r.name] ELSE r
  IN  IF IsNameOperand(o) /\ o.name \in DOMAIN repl THEN follow[Cardinality(DOMAIN repl)] ELSE o

(* The names used as the base of an array: no constant may replace them.    *)
BaseSlots(q) ==
  CASE q.op = "LOAD_INDEX" -> {"arg1"} [] q.op = "STORE_INDEX" -> {"result"}
    [] q.op = "COPY_BLOCK" -> {"arg1", "result"} [] OTHER -> {}
BaseNames(g) == UNION {{q[f].name : f \in BaseSlots(q)} : q \in ToSet(Flatten(g))}

ResolveReads(repl, q) ==
  LET slot(f) == LET r == Resolve(repl, q[f])
                 IN  IF f \in ReadSlots(q) /\ ~(f \in BaseSlots(q) /\ IsConst(r)) THEN r ELSE q[f]
  IN  [q EXCEPT !.arg1 = slot("arg1"), !.arg2 = slot("arg2"), !.result = slot("result")]

ResolvePhi(repl, phi) == [phi EXCEPT !.args = [j \in DOMAIN @ |-> Resolve(repl, @[j])]]

(* The operands of a computation, in either order if it does not matter.    *)
NumberKey(q) ==
  [op |-> q.op, ty |-> q.ty,
   args |-> IF q.op \in Commutative THEN {<<0, q.arg1>>, <<0, q.arg2>>} ELSE {<<1, q.arg1>>, <<2, q.arg2>>}]

Replacing(st, x, o) == [st EXCEPT !.repl = (x :> o) @@ @, !.count = @ + 1]

(* A phi of one value is that value; a phi equal to an earlier one of its   *)
(* block is that one.                                                       *)
NumberPhi(st, old, baseNames) ==
  LET phi    == ResolvePhi(st.repl, old)
      x      == phi.result.name
      others == {o \in ToSet(phi.args) : ~(IsNameOperand(o) /\ o.name = x)}
      twins  == {p \in ToSet(st.phis) : p.args = phi.args}
  IN  IF Cardinality(others) = 1 /\ ~(\E o \in others : IsConst(o) /\ x \in baseNames)
      THEN Replacing(st, x, CHOOSE o \in others : TRUE)
      ELSE IF twins # {} THEN Replacing(st, x, (CHOOSE p \in twins : TRUE).result)
      ELSE [st EXCEPT !.phis = Append(@, phi)]

PureOps == BinaryExprOps \cup UnaryExprOps

Keep(st, q)  == [st EXCEPT !.code = Append(@, q)]
Numbered(st, q) == [Keep(st, q) EXCEPT !.table = {[key |-> NumberKey(q), name |-> q.result.name]} \cup @]

(* Copies are folded into what they copy; a computation a dominating block  *)
(* has made is replaced by its result.                                      *)
NumberQuad(g, st, old, baseNames) ==
  LET q      == ResolveReads(st.repl, old)
      ssaDef == Writes(q) /\ q.result.name \in DOMAIN g.origin
      held   == {e \in st.table : e.key = NumberKey(q)}
      pure   == /\ ssaDef
                /\ q.op \in PureOps
                /\ Immutable(g, q.arg1)
                /\ q.arg2 = NoOperand \/ Immutable(g, q.arg2)
  IN  IF ssaDef /\ q.op = "COPY" /\ Immutable(g, q.arg1) /\ ~(IsConst(q.arg1) /\ q.result.name \in baseNames)
      THEN Replacing(st, q.result.name, q.arg1)
      ELSE IF ~pure THEN Keep(st, q)
      ELSE IF held # {} THEN Replacing(st, q.result.name, Named(q.result, (CHOOSE e \in held : TRUE).name))
      ELSE Numbered(st, q)

\* Mutant of Inherited: the table of every block visited so far, dominating or not.
InheritedUnscoped(st, b, dom) ==
  [repl |-> st.repl, count |-> st.count, phis |-> <<>>, code |-> <<>>, table |-> UNION {st.tables[x] : x \in DOMAIN st.tables}]

(* One block, with the table its immediate dominator leaves.                *)
Inherited(st, b, dom) ==
  [repl |-> st.repl, count |-> st.count, phis |-> <<>>, code |-> <<>>, table |-> IF b = Entry THEN {} ELSE st.tables[IDom(dom, b)]]

PhisNumbered(st, phis, baseNames) == FoldLeft(LAMBDA s, p : NumberPhi(s, p, baseNames), st, phis)
CodeNumbered(g, st, code, baseNames) == FoldLeft(LAMBDA s, q : NumberQuad(g, s, q, baseNames), st, code)
WithBlock(st, b, done) ==
  [g |-> [st.g EXCEPT !.phis[b] = done.phis, !.code[b] = done.code],
   repl |-> done.repl, count |-> done.count, tables |-> (b :> done.table) @@ st.tables]
NumberBlock(st, b, dom, baseNames) ==
  WithBlock(st, b, CodeNumbered(st.g, PhisNumbered(Inherited(st, b, dom), st.g.phis[b], baseNames), st.g.code[b], baseNames))

(* Uses visited before their replacement was known are resolved at the end. *)
AllResolved(st) ==
  Result([st.g EXCEPT
            !.phis = [b \in DOMAIN @ |-> [k \in DOMAIN @[b] |-> ResolvePhi(st.repl, @[b][k])]],
            !.code = [b \in DOMAIN @ |-> [i \in DOMAIN @[b] |-> ResolveReads(st.repl, @[b][i])]]],
         st.count)
BlocksNumbered(g, dom) ==
  AllResolved(FoldLeft(LAMBDA st, b : NumberBlock(st, b, dom, BaseNames(g)),
                       [g |-> g, repl |-> [x \in {} |-> NoOperand], count |-> 0, tables |-> [b \in {} |-> {}]],
                       Preorder(g, dom)))

GVN(g, dom) ==
  LET done == BlocksNumbered(g, dom)
  IN  Result([WithCode(g, done.g.code) EXCEPT !.phis = done.g.phis], done.count)

-----------------------------------------------------------------------------
(* ssa-dce *)

MayTrap(q) ==
  \/ q.op \in TrappingOps /\ ~(IsConst(q.arg2) /\ ~Traps(q.op, q.arg2.ival, q.ty))
  \/ q.op = "LOAD_INDEX"

(* It only computes the value of an SSA name.                               *)
PureDef(g, q) == Writes(q) /\ q.result.name \in DOMAIN g.origin /\ q.op # "CALL" /\ ~MayTrap(q)

(* What the definition of x reads.                                          *)
NeededFor(g, x) ==
  UNION ({ReadNames(QuadAt(g, s)) : s \in DefSites(g, Blocks(g), x)}
         \cup {NamesIn(ToSet(p.args)) : p \in {r \in UNION {ToSet(g.phis[b]) : b \in Blocks(g)} : r.result.name = x}})

(* The names an effect needs, directly or through others.                   *)
Marked(g) ==
  LET effects == {q \in ToSet(Flatten(g)) : ~PureDef(g, q)}
      roots   == UNION {ReadNames(q) \cup (IF Writes(q) THEN {q.result.name} ELSE {}) : q \in effects} \cap DOMAIN g.origin
      mark[X \in SUBSET DOMAIN g.origin] ==
        LET Y == X \cup (UNION {NeededFor(g, x) : x \in X} \cap DOMAIN g.origin)
        IN  IF Y = X THEN X ELSE mark[Y]
  IN  mark[roots]

SSADCE(g) ==
  LET marked  == Marked(g)
      dead(q) == Writes(q) /\ q.result.name \in DOMAIN g.origin \ marked
      phis    == [b \in Blocks(g) |-> SelectSeq(g.phis[b], LAMBDA p : p.result.name \in marked)]
      gone(b) == Len(g.phis[b]) - Len(phis[b])
      swept   == OverBlocks(g, LAMBDA b :
                   LET left == SelectSeq(g.code[b], LAMBDA q : ~dead(q))
                   IN  [code |-> left, count |-> Len(g.code[b]) - Len(left) + gone(b)])
  IN  Result([swept.g EXCEPT !.phis = phis], swept.count)

-----------------------------------------------------------------------------
(* licm-ssa, and what it knows of memory (alias.h) *)

AllQuadsOf(g) == ToSet(Flatten(g))

PhiDefs(g, x)  == {d \in UNION {{b} \X DOMAIN g.phis[b] : b \in Blocks(g)} : g.phis[d[1]][d[2]].result.name = x}
DefinedOnce(g, x) == Cardinality(DefSites(g, Blocks(g), x)) + Cardinality(PhiDefs(g, x)) = 1

(* From the names that point into a known array to that array: the one an   *)
(* ALLOC_ARRAY defines, or the one a name copied or moved by a constant      *)
(* points into.                                                             *)
ObjectsOf(g) ==
  LET allocs == {q.result.name : q \in {r \in AllQuadsOf(g) : r.op = "ALLOC_ARRAY" /\ IsConst(r.arg1)}}
      derives(q) ==
        /\ q.op = "COPY" \/ (q.op \in {"ADD", "SUB"} /\ ~IsNameOperand(q.arg2))
        /\ IsNameOperand(q.arg1)
        /\ IsNameOperand(q.result)
        /\ DefinedOnce(g, q.result.name)
      derived == {q \in AllQuadsOf(g) : derives(q)}
      extend[f \in [UsedNames(g) -> UsedNames(g) \cup {""}]] ==
        LET new == {q \in derived : f[q.result.name] = "" /\ f[q.arg1.name] # ""}
        IN  IF new = {} THEN f
            ELSE extend[[x \in DOMAIN f |-> IF \E q \in new : q.result.name = x
                                            THEN f[(CHOOSE q \in new : q.result.name = x).arg1.name] ELSE f[x]]]
  IN  extend[[x \in UsedNames(g) |-> IF x \in allocs THEN x ELSE ""]]

MayAlias(objects, x, y) == objects[x] = "" \/ objects[y] = "" \/ objects[x] = objects[y]

(* The size of the array x itself names, if one ALLOC_ARRAY defines it.     *)
AllocSites(g, x) == {s \in DefSites(g, Blocks(g), x) : QuadAt(g, s).op = "ALLOC_ARRAY" /\ DefinedOnce(g, x)}

(* The library calls that write no memory: of those, instances use print.   *)
ReadOnlyCalls == {"print"}

OrdersLoads == {"CALL", "STORE_INDEX", "COPY_BLOCK", "LOAD_INDEX"} \cup TrappingOps

(* In bounds wherever the preheader runs, or the first thing the header     *)
(* does that could stop the program.                                        *)
LoadCannotTrapEarlier(g, lp, dom, s) ==
  LET q == QuadAt(g, s)
  IN  \/ \E a \in AllocSites(g, q.arg1.name) :
           /\ a[1] \in dom[lp.preheader]
           /\ IsConst(q.arg2)
           /\ q.arg2.ival \in 0 .. QuadAt(g, a).arg1.ival - 1
      \/ s[1] = lp.head /\ \A i \in 1 .. s[2] - 1 : g.code[s[1]][i].op \notin OrdersLoads

(* The loads of the loop read what they would before it.                    *)
MemoryKept(g, lp, objects, q) ==
  LET quads == UNION {ToSet(g.code[b]) : b \in lp.blocks}
  IN  /\ \A c \in quads : c.op = "CALL" => c.arg1.name \in ReadOnlyCalls
      /\ \A w \in quads : w.op \in {"STORE_INDEX", "COPY_BLOCK"} => ~MayAlias(objects, w.result.name, q.arg1.name)

HoistableSSA(g, lp, dom, objects) ==
  LET defined == NamesDefinedIn(g, lp.blocks)
                   \cup {p.result.name : p \in UNION {ToSet(g.phis[b]) : b \in lp.blocks}}
      anyCall == \E s \in Sites(g, lp.blocks) : QuadAt(g, s).op = "CALL"
      invariant(q) == \A o \in ReadsOf(q) : o.name \notin defined /\ ~(IsGlobal(o) /\ anyCall)
      safe(q) == q.op \in SafeToRelocate \/ (q.op \in TrappingOps /\ ~MayTrap(q))
  IN  {s \in Sites(g, lp.blocks) :
         LET q == QuadAt(g, s)
         IN  /\ Writes(q)
             /\ q.result.name \in DOMAIN g.origin
             /\ invariant(q)
             /\ \/ safe(q)
                \/ /\ q.op = "LOAD_INDEX"
                   /\ MemoryKept(g, lp, objects, q)
                   /\ LoadCannotTrapEarlier(g, lp, dom, s)}

(* As in P8: the first that may go, until none may.                         *)
HoistAllSSA(st, lp, dom, objects) == Hoisting(st, lp, LAMBDA g : HoistableSSA(g, lp, dom, objects))

LoopsHoistedSSA(g, dom) ==
  FoldLeft(LAMBDA st, lp : HoistAllSSA(st, lp, dom, ObjectsOf(g)), Result(g, 0), LoopsWithPreheader(g, dom))

SSALICM(g, dom) ==
  LET st == LoopsHoistedSSA(g, dom) IN Result(WithCode(g, st.g.code), st.count)
=============================================================================
