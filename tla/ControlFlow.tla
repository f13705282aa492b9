---------------------------- MODULE ControlFlow ----------------------------
(***************************************************************************)
(* Control-flow graphs: the leader algorithm, dominators, back edges,      *)
(* natural loops and reachability (src/cfg/cfg.cpp), the loop shape P7 and *)
(* P8 accept (src/opt/loop_util.h), the ways control may go as pass sccp    *)
(* knows it, and the rules of the IR verifier (src/ir/verify.cpp) for code *)
(* that is not in SSA form.                                                *)
(*                                                                         *)
(* A graph g is a record of three functions over its blocks 0 .. n:        *)
(* g.code[b], g.succs[b] and g.preds[b] are sequences.  Block 0 is the     *)
(* synthetic entry.                                                        *)
(***************************************************************************)
EXTENDS Quads, Fixpoints, FiniteSets, SequencesExt

Entry     == 0
Blocks(g) == DOMAIN g.code
Succs(g, b) == ToSet(g.succs[b])
Preds(g, b) == ToSet(g.preds[b])

Terminator(code) == IF code = <<>> THEN "NONE" ELSE Last(code).op
HasLabel(code)   == code # <<>> /\ Head(code).op = "LABEL"

-----------------------------------------------------------------------------
(* Construction *)

Leaders(code) ==
  {1} \cup {i \in DOMAIN code : code[i].op = "LABEL"}
      \cup {i \in 2 .. Len(code) : code[i - 1].op \in Terminators}

(* The block that holds quad i, counting blocks from 1 as the code does.    *)
BlockOf(code, i) == Cardinality({l \in Leaders(code) : l <= i})

BlockCode(code, b) ==
  LET quads == {i \in DOMAIN code : BlockOf(code, i) = b}
      first == CHOOSE i \in quads : \A j \in quads : i <= j
  IN  SubSeq(code, first, first + Cardinality(quads) - 1)

(* Where control goes after the last quad of block b: the branch target is  *)
(* listed before the block the branch falls through to.                     *)
Successors(blockCode, b) ==
  LET n      == Cardinality(DOMAIN blockCode) - 1
      term   == Terminator(blockCode[b])
      target == {t \in DOMAIN blockCode :
                   /\ HasLabel(blockCode[t])
                   /\ Head(blockCode[t]).result = Last(blockCode[b]).result}
      jump   == IF term \in {"GOTO", "IF_FALSE"} THEN SetToSeq(target) ELSE <<>>
      fall   == IF term \notin {"GOTO", "RET"} /\ b < n THEN <<b + 1>> ELSE <<>>
  IN  jump \o fall

(* preds of s: block b appears once per edge b -> s, in block order.         *)
Predecessors(succs, s) ==
  LET edges(b) == {k \in DOMAIN succs[b] : succs[b][k] = s}
  IN  FlattenSeq([i \in 1 .. Cardinality(DOMAIN succs) |-> [k \in 1 .. Cardinality(edges(i - 1)) |-> i - 1]])

BuildCFG(code) ==
  LET n     == IF code = <<>> THEN 0 ELSE Cardinality(Leaders(code))
      bcode == [b \in 0 .. n |-> IF b = Entry THEN <<>> ELSE BlockCode(code, b)]
      succs == [b \in 0 .. n |-> Successors(bcode, b)]
  IN  [code |-> bcode, succs |-> succs, preds |-> [b \in 0 .. n |-> Predecessors(succs, b)]]

(* The blocks' code in block order: the form that is run and printed.       *)
Flatten(g) == FlattenSeq([i \in 1 .. Cardinality(Blocks(g)) |-> g.code[i - 1]])

-----------------------------------------------------------------------------
(* Reachability, dominators, loops *)

(* Blocks reached from the entry through blocks of `through` only.          *)
ReachableThrough(g, through) ==
  Closure([b \in Blocks(g) |-> Succs(g, b) \cap through], {Entry} \cap through)

ReachableFromEntry(g) == ReachableThrough(g, Blocks(g))

\* Mutant of DominatorRound: the first predecessor stands for all of them.
DominatorRoundFirstPred(g, dom) ==
  [b \in Blocks(g) |->
     IF b = Entry \/ g.preds[b] = <<>> THEN dom[b] ELSE {b} \cup dom[Head(g.preds[b])]]

(* One round of Dom[b] = {b} \cup (intersection of Dom[p] over preds p); a   *)
(* block with no predecessor keeps the initial "all blocks".                *)
DominatorRound(g, dom) ==
  [b \in Blocks(g) |->
     IF b = Entry \/ g.preds[b] = <<>> THEN dom[b]
     ELSE {b} \cup {d \in Blocks(g) : \A p \in Preds(g, b) : d \in dom[p]}]

Dominators(g) ==
  Fixpoint([dom \in [Blocks(g) -> SUBSET Blocks(g)] |-> DominatorRound(g, dom)],
           [b \in Blocks(g) |-> IF b = Entry THEN {Entry} ELSE Blocks(g)])

(* The blocks that reach tail without passing through head.                 *)
NaturalLoop(g, tail, head) ==
  Closure([b \in Blocks(g) |-> IF b = head THEN {} ELSE Preds(g, b)], {head, tail})

(* The only block that enters the loop, if it goes nowhere else; else none. *)
NoPreheader == -1
Preheader(g, blocks, head) ==
  LET outside == SelectSeq(g.preds[head], LAMBDA p : p \notin blocks)
  IN  IF Len(outside) = 1 /\ g.succs[outside[1]] = <<head>> THEN outside[1] ELSE NoPreheader

(* One loop per back edge, in the order the edges are found.                *)
FindNaturalLoops(g, dom) ==
  LET loopOf(tail, head) ==
        LET blocks == NaturalLoop(g, tail, head)
        IN  [tail |-> tail, head |-> head, blocks |-> blocks, preheader |-> Preheader(g, blocks, head)]
      heads(tail) == SelectSeq(g.succs[tail], LAMBDA h : h \in dom[tail])
  IN  FlattenSeq([i \in 1 .. Cardinality(Blocks(g)) |->
                    [k \in DOMAIN heads(i - 1) |-> loopOf(i - 1, heads(i - 1)[k])]])

(* New code goes before the block's control transfer, if it has one.        *)
BeforeTransfer(code, quads) ==
  IF Terminator(code) \in Terminators THEN Front(code) \o quads \o <<Last(code)>> ELSE code \o quads

AppendToPreheader(g, p, quads) == [g EXCEPT !.code[p] = BeforeTransfer(@, quads)]

(* Where the quads of some blocks are, and those that write x.              *)
Sites(g, blocks) == UNION {{<<b, i>> : i \in DOMAIN g.code[b]} : b \in blocks}
QuadAt(g, s)     == g.code[s[1]][s[2]]
DefSites(g, blocks, x) == {s \in Sites(g, blocks) : WritesName(QuadAt(g, s), x)}

NamesDefinedIn(g, blocks) ==
  {q.result.name : q \in {r \in UNION {ToSet(g.code[b]) : b \in blocks} : Writes(r)}}

-----------------------------------------------------------------------------
(* What pass sccp (src/ssa/sccp.cpp) knows of an SSA name, and from it of    *)
(* the ways control may go.  A name is unknown (TOP), a constant, or varies *)
(* (BOTTOM).                                                                *)

LatTop      == [kind |-> "TOP", ival |-> 0]
LatBottom   == [kind |-> "BOTTOM", ival |-> 0]
LatConst(v) == [kind |-> "CONST", ival |-> v]

Meet(x, y) == IF x = LatTop THEN y ELSE IF y \in {LatTop, x} THEN x ELSE LatBottom

MeetAll(S) ==
  LET known == S \ {LatTop}
  IN  IF known = {} THEN LatTop
      ELSE IF \E x \in known : known = {x} THEN CHOOSE x \in known : TRUE ELSE LatBottom

(* Only SSA names have one definition to evaluate.                          *)
LatticeOf(val, o) ==
  IF IsConst(o) THEN LatConst(o.ival)
  ELSE IF IsNameOperand(o) /\ o.name \in DOMAIN val THEN val[o.name] ELSE LatBottom

(* What an operation makes of what is known of its operands; one that would *)
(* trap is left to run.                                                     *)
OfOne(q, x) == IF x \in {LatTop, LatBottom} THEN x ELSE LatConst(UnaryValue(q.op, x.ival, q.ty))

OfTwo(q, x, y) ==
  IF LatTop \in {x, y} THEN LatTop
  ELSE IF LatBottom \in {x, y} \/ Traps(q.op, y.ival, q.ty) THEN LatBottom
  ELSE LatConst(BinaryValue(q.op, x.ival, y.ival, q.ty))

ValueGiven(val, q) ==
  CASE q.op = "COPY"           -> LatticeOf(val, q.arg1)
    [] q.op \in UnaryExprOps   -> OfOne(q, LatticeOf(val, q.arg1))
    [] q.op \in BinaryExprOps  -> OfTwo(q, LatticeOf(val, q.arg1), LatticeOf(val, q.arg2))
    [] OTHER                   -> LatBottom

(* A phi meets the arguments of the edges that can be taken.                *)
PhiGiven(g, val, edges, b, phi) ==
  MeetAll({LatticeOf(val, phi.args[j]) : j \in {i \in DOMAIN phi.args : <<g.preds[b][i], b>> \in edges}})

(* The successors control can go to: a branch's first one if its condition  *)
(* is known to be 0, its second (or only) one if it is known not to be.     *)
Ways(g, val, b) ==
  LET cond == LatticeOf(val, Last(g.code[b]).arg1)
  IN  IF Terminator(g.code[b]) = "RET" THEN <<>>
      ELSE IF Terminator(g.code[b]) # "IF_FALSE" \/ cond = LatBottom THEN g.succs[b]
      ELSE IF cond = LatTop \/ g.succs[b] = <<>> THEN <<>>
      ELSE IF cond.ival = 0 THEN <<Head(g.succs[b])>> ELSE <<Last(g.succs[b])>>

Taken(g, val, b) == ToSet(Ways(g, val, b))

ExecutableBlocks(edges) == {Entry} \cup {e[2] : e \in edges}

(* One round: every executable block evaluated on what is known so far.     *)
SccpRound(g, st) ==
  LET run == ExecutableBlocks(st.edges)
      phis(x) == {s \in UNION {{b} \X DOMAIN g.phis[b] : b \in run} : g.phis[s[1]][s[2]].result.name = x}
      value(x) ==
        MeetAll({PhiGiven(g, st.val, st.edges, s[1], g.phis[s[1]][s[2]]) : s \in phis(x)}
                \cup {ValueGiven(st.val, QuadAt(g, s)) : s \in DefSites(g, run, x)})
  IN  [val   |-> [x \in DOMAIN st.val |-> value(x)],
       edges |-> UNION {{b} \X Taken(g, st.val, b) : b \in run}]

(* What the two worklists of the code settle on (see module Sccp): the       *)
(* rounds from "nothing runs, nothing is known" until nothing changes.      *)
(* Until then a round lowers a name, which can happen twice, or finds an    *)
(* edge, which bounds their number.                                         *)
SccpFacts(g) ==
  LET nothing == [val |-> [x \in DOMAIN g.origin |-> LatTop], edges |-> {}]
      most    == 2 * Cardinality(DOMAIN g.origin) + Cardinality(Blocks(g) \X Blocks(g))
      after[n \in 0 .. most] == IF n = 0 THEN nothing ELSE SccpRound(g, after[n - 1])
      ends    == CHOOSE n \in 0 .. most : SccpRound(g, after[n]) = after[n]
  IN  after[ends]

NamesIn(S) == {o.name : o \in {p \in S : IsNameOperand(p)}}

-----------------------------------------------------------------------------
(* The verifier.  WellFormed(g) holds iff verifyCFG returns no error.       *)

(* A block an earlier pass emptied and cut off: it emits nothing.           *)
IsCleared(g, b) ==
  b # Entry /\ g.code[b] = <<>> /\ g.preds[b] = <<>> /\ g.succs[b] = <<>>

LabelsFirstAndUnique(g) ==
  \A b \in Blocks(g) : \A i \in DOMAIN g.code[b] :
    g.code[b][i].op = "LABEL" =>
      /\ i = 1
      /\ \A c \in Blocks(g) \ {b} : ~ (HasLabel(g.code[c]) /\ Head(g.code[c]).result = g.code[b][i].result)

TerminatorsLast(g) ==
  \A b \in Blocks(g) : \A i \in DOMAIN g.code[b] :
    g.code[b][i].op \in Terminators => i = Len(g.code[b])

(* The blocks the code of b transfers control to: the branch target, and    *)
(* the next block that still emits code.                                    *)
Transfers(g, b) ==
  LET term    == Terminator(g.code[b])
      later   == {c \in Blocks(g) : c > b /\ ~IsCleared(g, c)}
      fall    == {c \in later : \A d \in later : c <= d}
      targets == {c \in Blocks(g) : HasLabel(g.code[c]) /\ Head(g.code[c]).result = Last(g.code[b]).result}
  IN  (IF term \in {"GOTO", "IF_FALSE"} THEN targets ELSE {})
        \cup (IF term \in {"GOTO", "RET"} THEN {} ELSE fall)

TargetsExist(g) ==
  \A b \in Blocks(g) : Terminator(g.code[b]) \in {"GOTO", "IF_FALSE"} =>
    \E c \in Blocks(g) : HasLabel(g.code[c]) /\ Head(g.code[c]).result = Last(g.code[b]).result

Count(s, x) == Len(SelectSeq(s, LAMBDA y : y = x))

EdgesMatchCode(g) ==
  /\ \A b \in Blocks(g) : IsCleared(g, b) \/ Succs(g, b) = Transfers(g, b)
  /\ \A b, c \in Blocks(g) : Count(g.succs[b], c) = Count(g.preds[c], b)

(* Temporaries a block certainly sets, whatever happens in it.              *)
TempsSet(code) == {q.result.name : q \in {r \in ToSet(code) : Writes(r) /\ r.result.kind = "TEMPORARY"}}

(* On every path from the entry a temporary is written before it is read:   *)
(* no path that avoids its writers reaches a read of it.                    *)
TempsWrittenFirst(g) ==
  LET readsUnset(b, t) ==
        \E i \in DOMAIN g.code[b] :
          /\ Temp(t) \in ReadsOf(g.code[b][i])
          /\ \A j \in 1 .. i - 1 : ~WritesName(g.code[b][j], t)
      silent(t)  == {b \in Blocks(g) : t \notin TempsSet(g.code[b])}
      arrives(t) == LET quiet == ReachableThrough(g, silent(t))
                    IN  {Entry} \cup UNION {Succs(g, b) : b \in quiet}
      names      == UNION {ReadNames(q) : q \in UNION {ToSet(g.code[b]) : b \in Blocks(g)}}
  IN  \A t \in names : \A b \in arrives(t) : ~readsUnset(b, t)

WellFormed(g) ==
  /\ LabelsFirstAndUnique(g)
  /\ TerminatorsLast(g)
  /\ TargetsExist(g)
  /\ EdgesMatchCode(g)
  /\ TempsWrittenFirst(g)
=============================================================================
