--------------------------------- MODULE SSA ---------------------------------
(***************************************************************************)
(* SSA form (src/ssa/ssa.cpp, src/ssa/ssa_util.h): into it, by pruned phi   *)
(* placement and renaming along the dominator tree; out of it, by copies on *)
(* the edges, coalescing and renaming; and the verifier's rules for it.     *)
(*                                                                         *)
(* A graph in SSA form has two more fields: g.phis[b], the phis of block b,  *)
(* each [result, args] with one argument per predecessor, in their order;   *)
(* and g.origin (ssaOrigin), from each SSA name to the name it is a version *)
(* of.                                                                      *)
(***************************************************************************)
EXTENDS Passes

InSSA(g) == "phis" \in DOMAIN g

Named(o, x) == [o EXCEPT !.name = x]

Originals(g) == {g.origin[x] : x \in DOMAIN g.origin}
Base(g, x)   == IF x \in DOMAIN g.origin THEN g.origin[x] ELSE x

(* Assigned by an ALLOC_ARRAY: memory, not a value.                         *)
MemoryNames(g) ==
  {q.result.name : q \in {r \in UNION {ToSet(g.code[b]) : b \in Blocks(g)} : r.op = "ALLOC_ARRAY"}}

(* Locals and temporaries are renamed, unless they name memory.             *)
Candidate(o, memory) == IsNameOperand(o) /\ ~IsGlobal(o) /\ o.name \notin memory

-----------------------------------------------------------------------------
(* The dominator tree, and edges with their phi arguments *)

(* The immediate dominator: the strict one with the most dominators itself. *)
IDom(dom, b) ==
  CHOOSE d \in dom[b] \ {b} : \A e \in dom[b] \ {b} : Cardinality(dom[e]) <= Cardinality(dom[d])

(* Reached blocks, each after its immediate dominator and before its later  *)
(* siblings.                                                                *)
Preorder(g, dom) ==
  LET reach == ReachableFromEntry(g)
      idom == [b \in reach \ {Entry} |-> IDom(dom, b)]
      children(b) == SetToSortSeq({c \in DOMAIN idom : idom[c] = b}, <)
      visit[stack \in Seq(reach)] ==
        IF stack = <<>> THEN <<>> ELSE <<Head(stack)>> \o visit[children(Head(stack)) \o Tail(stack)]
  IN  visit[<<Entry>>]

(* Where a block's own code starts: after its label, if it has one.         *)
BodyStart(g, b) == IF HasLabel(g.code[b]) THEN 2 ELSE 1

Picked(s, at) == [k \in DOMAIN at |-> s[at[k]]]

(* The predecessors of b, and the arguments of its phis, that stay when the *)
(* edges from the blocks of `gone` go.                                      *)
StayingAt(g, b, gone) ==
  FlattenSeq([i \in DOMAIN g.preds[b] |-> IF g.preds[b][i] \in gone THEN <<>> ELSE <<i>>])

PhisPicked(phis, at) == [k \in DOMAIN phis |-> [phis[k] EXCEPT !.args = Picked(@, at)]]

RemoveEdgeSSA(g, from, to) ==
  [g EXCEPT !.succs[from] = Without(@, to),
            !.preds[to] = Picked(@, StayingAt(g, to, {from})),
            !.phis[to]  = PhisPicked(@, StayingAt(g, to, {from}))]

(* clearUnreachable: blocks the entry does not reach lose code, phis, edges. *)
Unreached(g) == Blocks(g) \ ReachableFromEntry(g)

ClearUnreachable(g) ==
  LET dead == Unreached(g)
  IN  [g EXCEPT
         !.code  = [b \in Blocks(g) |-> IF b \in dead THEN <<>> ELSE @[b]],
         !.succs = [b \in Blocks(g) |-> IF b \in dead THEN <<>> ELSE @[b]],
         !.preds = [b \in Blocks(g) |-> IF b \in dead THEN <<>> ELSE Picked(@[b], StayingAt(g, b, dead))],
         !.phis  = [b \in Blocks(g) |-> IF b \in dead THEN <<>> ELSE PhisPicked(@[b], StayingAt(g, b, dead))]]

Cleared(g) == Cardinality({b \in Unreached(g) : g.code[b] # <<>> \/ g.phis[b] # <<>>})

-----------------------------------------------------------------------------
(* Construction *)

(* b is in the frontier of the blocks that dominate one of its predecessors *)
(* but not strictly b.                                                      *)
Frontiers(g, dom) ==
  LET joins == {b \in ReachableFromEntry(g) : Len(g.preds[b]) >= 2}
  IN  [r \in Blocks(g) |-> {b \in joins : \E p \in Preds(g, b) : r \in dom[p] \ dom[IDom(dom, b)]}]

DefBlocks(g, x) == {b \in Blocks(g) : \E i \in DOMAIN g.code[b] : WritesName(g.code[b][i], x)}

(* Where x gets a phi: the iterated frontier of its assignments, pruned to   *)
(* the blocks it is live into.  (The cheaper filter the code tries first     *)
(* lets pass everything that is live into some block.)                      *)
PhiBlocks(g, frontier, live, x) ==
  LET joins == [b \in Blocks(g) |-> {y \in frontier[b] : x \in live.in[y]}]
  IN  Closure(joins, UNION {joins[b] : b \in DefBlocks(g, x)})

(* The operand that writes x last, in block order: what its phis look like. *)
Proto(g, x) == Last(SelectSeq(Flatten(g), LAMBDA q : WritesName(q, x))).result

PlacePhis(g, dom, live) ==
  LET memory == MemoryNames(g)
      vars   == {q.result.name : q \in {r \in ToSet(Flatten(g)) : Writes(r) /\ Candidate(r.result, memory)}}
      frontier == Frontiers(g, dom)
      places == [x \in vars |-> PhiBlocks(g, frontier, live, x)]
      phi(b, x) == [result |-> Proto(g, x), args |-> [j \in DOMAIN g.preds[b] |-> Proto(g, x)]]
      here(b)   == SetToSeq({x \in vars : b \in places[x]})
  IN  [g EXCEPT !.phis = [b \in Blocks(g) |-> [k \in DOMAIN here(b) |-> phi(b, here(b)[k])]]]

(* env is the top of each name's stack of versions.                         *)
Current(env, x) == IF x \in DOMAIN env THEN env[x] ELSE x

VersionName(origin, x) ==
  x \o "." \o ToString(1 + Cardinality({y \in DOMAIN origin : origin[y] = x}))

(* Names a new version of x.                                                *)
Push(st, x) ==
  LET name == VersionName(st.origin, x)
  IN  [st EXCEPT !.origin = (name :> x) @@ @, !.env = (x :> name) @@ @]

ReadCurrent(q, env, memory) ==
  LET slot(f) == IF f \in ReadSlots(q) /\ Candidate(q[f], memory) THEN Named(q[f], Current(env, q[f].name)) ELSE q[f]
  IN  [q EXCEPT !.arg1 = slot("arg1"), !.arg2 = slot("arg2"), !.result = slot("result")]

RenamePhi(st, phi) ==
  LET new == Push(st, phi.result.name)
  IN  [new EXCEPT !.phis = Append(@, [phi EXCEPT !.result = Named(@, new.env[phi.result.name])])]

RenameQuad(st, q, memory) ==
  LET read == ReadCurrent(q, st.env, memory)
      new  == Push(st, q.result.name)
  IN  IF Writes(q) /\ Candidate(q.result, memory)
      THEN [new EXCEPT !.code = Append(@, [read EXCEPT !.result = Named(q.result, new.env[q.result.name])])]
      ELSE [st EXCEPT !.code = Append(@, read)]

(* One block, from the versions its immediate dominator leaves.  st.ends     *)
(* keeps what each block leaves.                                            *)
RenameBlock(st, b, dom, memory) ==
  LET env   == IF b = Entry THEN [x \in {} |-> ""] ELSE st.ends[IDom(dom, b)]
      start == [origin |-> st.g.origin, env |-> env, phis |-> <<>>, code |-> <<>>]
      done  == FoldLeft(LAMBDA s, q : RenameQuad(s, q, memory),
                        FoldLeft(RenamePhi, start, st.g.phis[b]), st.g.code[b])
  IN  [g    |-> [st.g EXCEPT !.phis[b] = done.phis, !.code[b] = done.code, !.origin = done.origin],
       ends |-> (b :> done.env) @@ st.ends]

(* An argument is the version its predecessor leaves.                       *)
FillArgs(st) ==
  [st.g EXCEPT !.phis = [b \in DOMAIN @ |-> [k \in DOMAIN @[b] |-> [@[b][k] EXCEPT !.args =
     [j \in DOMAIN @ |-> Named(@[j], Current(st.ends[st.g.preds[b][j]], @[j].name))]]]]]

BlocksRenamed(g, dom) ==
  FillArgs(FoldLeft(LAMBDA st, b : RenameBlock(st, b, dom, MemoryNames(g)),
                    [g |-> g, ends |-> [b \in {} |-> {}]], Preorder(g, dom)))

Rename(g, dom) ==
  LET done == BlocksRenamed(g, dom)
  IN  [WithCode(g, done.code) EXCEPT !.phis = done.phis, !.origin = done.origin]

Lifted(g) ==
  ClearUnreachable([code |-> g.code, succs |-> g.succs, preds |-> g.preds,
                    phis |-> [b \in Blocks(g) |-> <<>>], origin |-> [x \in {} |-> ""]])

(* Always reported as a change.                                             *)
SSAConstruct(g, live) ==
  LET start == Lifted(g)
      dom   == Dominators(start)
  IN  Result(Rename(PlacePhis(start, dom, live), dom), 1)
-----------------------------------------------------------------------------
(* The verifier's rules for SSA form *)

(* A phi as code: what writes its result at the top of its block, and what   *)
(* reads its arguments at the end of the predecessors.                      *)
Unfolded(g) ==
  LET tops(b)  == [k \in DOMAIN g.phis[b] |-> Quad("CALL", Label("phi"), Const(0), g.phis[b][k].result)]
      reads(p) == FlattenSeq(FlattenSeq([i \in 1 .. Cardinality(Blocks(g)) |->
                    LET b == i - 1
                    IN  [k \in DOMAIN g.phis[b] |->
                           [n \in DOMAIN SelectSeq(g.preds[b], LAMBDA x : x = p) |->
                              LET at == SelectSeq([j \in DOMAIN g.preds[b] |-> j], LAMBDA j : g.preds[b][j] = p)
                              IN  Quad("PARAM", g.phis[b][k].args[at[n]], NoOperand, NoOperand)]]]))
      body(b)  == SubSeq(g.code[b], BodyStart(g, b), Len(g.code[b]))
      topped   == [g EXCEPT !.code = [b \in Blocks(g) |->
                     SubSeq(g.code[b], 1, BodyStart(g, b) - 1) \o tops(b) \o body(b)]]
  IN  [topped EXCEPT !.code = [b \in Blocks(g) |-> BeforeTransfer(topped.code[b], reads(b))]]

ArgPerPred(g) ==
  \A b \in Blocks(g) : \A k \in DOMAIN g.phis[b] : Len(g.phis[b][k].args) = Len(g.preds[b])

(* Every SSA name is assigned once, the names they are versions of never.   *)
AssignedOnce(u) ==
  \A x \in DOMAIN u.origin \cup Originals(u) :
    Cardinality(DefSites(u, Blocks(u), x)) <= (IF x \in Originals(u) THEN 0 ELSE 1)

DefsDominateUses(u, dom) ==
  \A s \in Sites(u, ReachableFromEntry(u)) : \A x \in ReadNames(QuadAt(u, s)) \cap DOMAIN u.origin :
    \E d \in DefSites(u, Blocks(u), x) : IF d[1] = s[1] THEN d[2] < s[2] ELSE d[1] \in dom[s[1]]

WellFormedSSA(g) ==
  /\ ArgPerPred(g)
  /\ LET u == Unfolded(g)
     IN  WellFormed(u) /\ AssignedOnce(u) /\ DefsDominateUses(u, Dominators(u))

(* What verifyCFG accepts.                                                  *)
Verified(g) == IF InSSA(g) THEN WellFormedSSA(g) ELSE WellFormed(g)

-----------------------------------------------------------------------------
(* Out of SSA form (the pass out-of-ssa): phis nothing reads are dropped,    *)
(* the others become copies on the incoming edges and at the top of their   *)
(* block, then names joined by a copy share one name when they do not       *)
(* interfere, and the copies between them go.                               *)

AllQuads(g) == ToSet(Flatten(g))

(* 0. Phis read by nothing, or only by phis dropped before them.            *)
DeadPhis(g) ==
  LET phis    == UNION {ToSet(g.phis[b]) : b \in Blocks(g)}
      byCode  == UNION {ReadNames(q) : q \in AllQuads(g)}
      argsOf(p) == {a.name : a \in {o \in ToSet(p.args) : IsNameOperand(o)}} \ {p.result.name}
      drop[D \in SUBSET {p.result.name : p \in phis}] ==
        LET read == byCode \cup UNION {argsOf(p) : p \in {r \in phis : r.result.name \notin D}}
            E    == {p.result.name : p \in phis} \ read
        IN  IF E = D THEN D ELSE drop[E]
  IN  drop[{}]

DropDeadPhis(g) ==
  LET dead == DeadPhis(g)
  IN  [g EXCEPT !.phis = [b \in Blocks(g) |-> SelectSeq(@[b], LAMBDA p : p.result.name \notin dead)]]

(* 1. The phis in block order, each with its block and the variable its     *)
(* value goes through.                                                      *)
PhiName(g, p, n) == Base(g, p.result.name) \o ".phi" \o ToString(n)

NumberedPhis(g) ==
  LET flat == FlattenSeq([i \in 1 .. Cardinality(Blocks(g)) |->
                [k \in DOMAIN g.phis[i - 1] |-> [block |-> i - 1, phi |-> g.phis[i - 1][k]]]])
  IN  [n \in DOMAIN flat |->
         [block |-> flat[n].block, phi |-> flat[n].phi,
          via   |-> Named(flat[n].phi.result, PhiName(g, flat[n].phi, n))]]

PhiNames(g) == {e.via.name : e \in ToSet(NumberedPhis(g))}

CopyQuad(from, to) == Quad("COPY", from, NoOperand, to)

(* What block b copies at its end for phi entry e: one copy per edge.       *)
EdgeCopies(g, e, b) ==
  LET at == SelectSeq([j \in DOMAIN g.preds[e.block] |-> j], LAMBDA j : g.preds[e.block][j] = b)
  IN  [n \in DOMAIN at |-> CopyQuad(e.phi.args[at[n]], e.via)]

\* Mutant of PhisToCopies: the edges copy straight into the result (naive).
PhisToCopiesDirect(g) ==
  LET phis  == NumberedPhis(g)
      direct(e) == [e EXCEPT !.via = e.phi.result]
      tails(b) == FlattenSeq([n \in DOMAIN phis |-> EdgeCopies(g, direct(phis[n]), b)])
  IN  [g EXCEPT !.phis = [b \in DOMAIN @ |-> <<>>],
                !.code = [b \in DOMAIN @ |-> BeforeTransfer(@[b], tails(b))]]

PhisToCopies(g) ==
  LET phis  == NumberedPhis(g)
      heads(b) == LET mine == SelectSeq(phis, LAMBDA e : e.block = b)
                  IN  [n \in DOMAIN mine |-> CopyQuad(mine[n].via, mine[n].phi.result)]
      tails(b) == FlattenSeq([n \in DOMAIN phis |-> EdgeCopies(g, phis[n], b)])
      headed == [g EXCEPT !.code = [b \in DOMAIN @ |->
                   SubSeq(@[b], 1, BodyStart(g, b) - 1) \o heads(b) \o SubSeq(@[b], BodyStart(g, b), Len(@[b]))]]
  IN  [headed EXCEPT !.phis   = [b \in DOMAIN @ |-> <<>>],
                     !.code   = [b \in DOMAIN @ |-> BeforeTransfer(@[b], tails(b))],
                     !.origin = FoldLeft(LAMBDA f, e : (e.via.name :> Base(g, e.phi.result.name)) @@ f, @, phis)]

-----------------------------------------------------------------------------
(* 2. Interference *)

Tracked(g, o) == IsNameOperand(o) /\ o.name \in DOMAIN g.origin \cup Originals(g)

(* The tracked operands of a quad: what it reads, then what it writes.      *)
Mentions(g, q) ==
  LET fields == SelectSeq(<<"arg1", "arg2", "result">>, LAMBDA f : f \in ReadSlots(q))
      all    == [i \in DOMAIN fields |-> q[fields[i]]] \o (IF Writes(q) THEN <<q.result>> ELSE <<>>)
  IN  SelectSeq(all, LAMBDA o : Tracked(g, o))

MentionedIn(g, b) == FlattenSeq([i \in DOMAIN g.code[b] |-> Mentions(g, g.code[b][i])])
Mentioned(g) == FlattenSeq([n \in 1 .. Cardinality(Blocks(g)) |-> MentionedIn(g, n - 1)])

(* The kind a name was last mentioned with.                                 *)
KindsOf(g) ==
  LET all  == Mentioned(g)
      last(x) == CHOOSE n \in DOMAIN all : all[n].name = x /\ \A m \in n + 1 .. Len(all) : all[m].name # x
  IN  [x \in {all[n].name : n \in DOMAIN all} |-> all[last(x)].kind]

IsTemp(kinds, x) == x \in DOMAIN kinds /\ kinds[x] = "TEMPORARY"

(* Two source variables are never merged, so only names of one variable, or *)
(* a temporary and anything, can be in each other's way.                    *)
Edge(g, kinds, x, y) ==
  {{z, y} : z \in {w \in {x} \ {y} : Base(g, x) = Base(g, y) \/ IsTemp(kinds, x) \/ IsTemp(kinds, y)}}

TrackedReads(g, q) == {o.name : o \in {r \in ReadsOf(q) : Tracked(g, r)}}

\* Mutant of EdgesAt: the two ends of a copy interfere like any two names.
EdgesAtCopyToo(g, kinds, q, live) ==
  IF Writes(q) /\ Tracked(g, q.result)
  THEN UNION {Edge(g, kinds, q.result.name, l) : l \in live \cup (IF q.op = "COPY" THEN TrackedReads(g, q) ELSE {})}
  ELSE {}

(* What q, after which `live` are live, writes interferes with all of them  *)
(* but the source of a copy.                                                *)
EdgesAt(g, kinds, q, live) ==
  IF Writes(q) /\ Tracked(g, q.result)
  THEN UNION {Edge(g, kinds, q.result.name, l) :
                l \in live \ (IF q.op = "COPY" /\ IsNameOperand(q.arg1) THEN {q.arg1.name} ELSE {})}
  ELSE {}

Interference(g, kinds) ==
  LET names == DOMAIN g.origin \cup Originals(g)
      flow  == LiveVariables(g)
      back(q, st) == [edges |-> st.edges \cup EdgesAt(g, kinds, q, st.live),
                      live  |-> (IF Writes(q) THEN st.live \ {q.result.name} ELSE st.live) \cup TrackedReads(g, q)]
      ofBlock(b) == FoldRight(back, g.code[b], [edges |-> {}, live |-> flow.out[b] \cap names]).edges
      atEntry == flow.in[Entry] \cap names
  IN  UNION {ofBlock(b) : b \in Blocks(g)} \cup UNION {Edge(g, kinds, x, y) : x \in atEntry, y \in atEntry}

-----------------------------------------------------------------------------
(* 3. Coalescing.  st.class maps a name to the root of its class, st.edges  *)
(* relates roots.                                                           *)

(* The copies between tracked names, those of phis first.                   *)
Copies(g, phiNames) ==
  LET all   == SelectSeq(Flatten(g), LAMBDA q : q.op = "COPY" /\ Tracked(g, q.result) /\ Tracked(g, q.arg1))
      ofPhi(q) == {q.arg1.name, q.result.name} \cap phiNames # {}
  IN  SelectSeq(all, ofPhi) \o SelectSeq(all, LAMBDA q : ~ofPhi(q))

Merge(st, root, other) ==
  [class |-> [x \in {y \in DOMAIN st.class : st.class[y] = other} |-> root] @@ st.class,
   edges |-> {IF other \in e THEN (e \ {other}) \cup {root} ELSE e : e \in st.edges}]

(* The root names the class: an original name if there is one, else one of  *)
(* a variable.                                                              *)
MergeInto(g, kinds, st, x, y) ==
  IF (y \in Originals(g) /\ x \notin Originals(g)) \/ (IsTemp(kinds, x) /\ ~IsTemp(kinds, y))
  THEN Merge(st, y, x) ELSE Merge(st, x, y)

TwoVariables(g, kinds, x, y) == ~IsTemp(kinds, x) /\ ~IsTemp(kinds, y) /\ Base(g, x) # Base(g, y)

CoalesceRoots(g, kinds, st, x, y) ==
  IF x = y \/ {x, y} \in st.edges \/ TwoVariables(g, kinds, x, y) THEN st ELSE MergeInto(g, kinds, st, x, y)

CoalesceCopies(g, kinds, start, copies) ==
  FoldLeft(LAMBDA st, q : CoalesceRoots(g, kinds, st, st.class[q.result.name], st.class[q.arg1.name]), start, copies)

Coalesced(g, kinds, phiNames) ==
  CoalesceCopies(g, kinds, [class |-> [x \in DOMAIN kinds |-> x], edges |-> Interference(g, kinds)], Copies(g, phiNames))

-----------------------------------------------------------------------------
(* 4. Naming.  A root that is an original name keeps it; then, in the order *)
(* of first mention, each takes the first of name, name.1, name.2 ... that   *)
(* no class it interferes with holds.                                       *)

NumberedName(x, k) == IF k = 0 THEN x ELSE x \o "." \o ToString(k)

FreeName(g, edges, names, root) ==
  LET near  == (UNION {e \in edges : root \in e}) \ {root}
      taken == {names[x] : x \in near \cap DOMAIN names}
      k     == CHOOSE n \in 0 .. Cardinality(taken) :
                 /\ NumberedName(Base(g, root), n) \notin taken
                 /\ \A m \in 0 .. n - 1 : NumberedName(Base(g, root), m) \in taken
  IN  NumberedName(Base(g, root), k)

FinalNames(g, st) ==
  LET all   == Mentioned(g)
      roots == [n \in DOMAIN all |-> st.class[all[n].name]]
      kept  == [r \in {st.class[x] : x \in DOMAIN st.class} \cap Originals(g) |-> r]
      new(n) == roots[n] \notin DOMAIN kept /\ \A m \in 1 .. n - 1 : roots[m] # roots[n]
      order  == SelectSeq([n \in DOMAIN roots |-> n], new)
      name(names, n) == (roots[n] :> FreeName(g, st.edges, names, roots[n])) @@ names
  IN  IF order = <<>> THEN kept ELSE FoldLeft(name, kept, order)

(* 5. Renaming; a copy of a name to itself goes.                            *)
RenameAll(g, kinds, st) ==
  LET names == FinalNames(g, st)
      kind(x) == IF IsTemp(kinds, st.class[x]) THEN "TEMPORARY" ELSE "LOCAL"
      new(o)  == IF Tracked(g, o) THEN [Named(o, names[st.class[o.name]]) EXCEPT !.kind = kind(o.name)] ELSE o
      slot(q, f) == IF f \in ReadSlots(q) \/ (f = "result" /\ Writes(q)) THEN new(q[f]) ELSE q[f]
      quad(q) == [q EXCEPT !.arg1 = slot(q, "arg1"), !.arg2 = slot(q, "arg2"), !.result = slot(q, "result")]
  IN  [b \in Blocks(g) |-> SelectSeq([i \in DOMAIN g.code[b] |-> quad(g.code[b][i])],
                                     LAMBDA q : ~(q.op = "COPY" /\ IsNameOperand(q.arg1) /\ q.arg1 = q.result))]

OutOf(g, phiNames) ==
  LET kinds == KindsOf(g)
  IN  [code |-> RenameAll(g, kinds, Coalesced(g, kinds, phiNames)), succs |-> g.succs, preds |-> g.preds]

(* Always reported as a change, if there is an SSA form to leave.           *)
LeaveSSA(g) ==
  LET kept == Whole(DropDeadPhis(g))
  IN  IF InSSA(g) THEN Result(OutOf(Whole(PhisToCopies(kept)), PhiNames(kept)), 1) ELSE Result(g, 0)
=============================================================================
