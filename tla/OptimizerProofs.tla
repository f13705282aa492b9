---------------------------- MODULE OptimizerProofs ----------------------------
(***************************************************************************)
(* The dominators the passes are given are exact, whatever the program and  *)
(* the pipeline.                                                            *)
(***************************************************************************)
EXTENDS Optimizer, GraphProofs

Fields == {"code", "succs", "preds"}

(* What every pass is given and leaves: a graph whose blocks are numbered   *)
(* from the entry.                                                          *)
Shape(g) == Fields \subseteq DOMAIN g /\ IsGraph(g) /\ \E n \in Nat : Blocks(g) = 0 .. n

(* h has the blocks and edges of g.                                         *)
SameEdges(g, h) ==
  Fields \subseteq DOMAIN h /\ Blocks(h) = Blocks(g) /\ h.succs = g.succs /\ h.preds = g.preds

LEMMA SameEdgesShape ==
  ASSUME NEW g, Shape(g), NEW h, SameEdges(g, h)
  PROVE  Shape(h)
BY DEF Shape, SameEdges, IsGraph, Succs, Preds

LEMMA SameEdgesAgain ==
  ASSUME NEW g, NEW h, NEW k, SameEdges(g, h), SameEdges(h, k)
  PROVE  SameEdges(g, k)
BY DEF SameEdges

-----------------------------------------------------------------------------
(* The passes that leave every edge alone.                                  *)

LEMMA CodeKeepsEdges ==
  ASSUME NEW g, Fields \subseteq DOMAIN g, NEW code
  PROVE  SameEdges(g, WithCode(g, code))
BY DEF SameEdges, WithCode, Blocks, Fields

LEMMA GatheredKeepsEdges ==
  ASSUME NEW g, Fields \subseteq DOMAIN g, NEW done
  PROVE  SameEdges(g, Gathered(g, done).g)
BY DEF SameEdges, Gathered, Result, Blocks, Fields

LEMMA FoldingKeepsEdges ==
  ASSUME NEW g, Fields \subseteq DOMAIN g
  PROVE  SameEdges(g, ConstantFolding(g).g)
BY GatheredKeepsEdges DEF ConstantFolding, OverBlocks

LEMMA PropagationKeepsEdges ==
  ASSUME NEW g, Fields \subseteq DOMAIN g, NEW facts
  PROVE  SameEdges(g, ConstantPropagation(g, facts).g) /\ SameEdges(g, CopyPropagation(g, facts).g)
BY GatheredKeepsEdges DEF ConstantPropagation, CopyPropagation, OverBlocks

LEMMA CseKeepsEdges ==
  ASSUME NEW g, Fields \subseteq DOMAIN g
  PROVE  SameEdges(g, CommonSubexprElimination(g).g)
BY GatheredKeepsEdges DEF CommonSubexprElimination, OverBlocks

LEMMA DceKeepsEdges ==
  ASSUME NEW g, Fields \subseteq DOMAIN g, NEW live, NEW globals
  PROVE  SameEdges(g, DeadCodeElimination(g, live, globals).g)
BY GatheredKeepsEdges DEF DeadCodeElimination, OverBlocks

LEMMA LoopPassesKeepEdges ==
  ASSUME NEW g, Fields \subseteq DOMAIN g, NEW dom, NEW live
  PROVE  /\ SameEdges(g, StrengthReduction(g, dom).g)
         /\ SameEdges(g, LoopInvariantCodeMotion(g, dom, live).g)
         /\ SameEdges(g, SSALICM(g, dom).g)
BY CodeKeepsEdges DEF StrengthReduction, LoopInvariantCodeMotion, SSALICM, Result

LEMMA OtherFieldsKeepEdges ==
  ASSUME NEW g, Fields \subseteq DOMAIN g, NEW phis, NEW origin
  PROVE  /\ SameEdges(g, [g EXCEPT !.phis = phis])
         /\ SameEdges(g, [g EXCEPT !.phis = phis, !.origin = origin])
BY DEF SameEdges, Blocks, Fields

LEMMA GvnKeepsEdges ==
  ASSUME NEW g, Fields \subseteq DOMAIN g, NEW dom
  PROVE  SameEdges(g, GVN(g, dom).g)
<1> DEFINE done == BlocksNumbered(g, dom)
           with == WithCode(g, done.g.code)
<1>1. SameEdges(g, with)
  BY CodeKeepsEdges
<1>2. GVN(g, dom).g = [with EXCEPT !.phis = done.g.phis]
  BY DEF GVN, Result
<1> HIDE DEF with, done
<1>3. SameEdges(with, [with EXCEPT !.phis = done.g.phis])
  <2>1. Fields \subseteq DOMAIN with
    BY <1>1 DEF SameEdges
  <2> QED  BY <2>1, OtherFieldsKeepEdges
<1> QED  BY <1>1, <1>2, <1>3, SameEdgesAgain, Zenon

LEMMA SsaDceKeepsEdges ==
  ASSUME NEW g, Fields \subseteq DOMAIN g
  PROVE  SameEdges(g, SSADCE(g).g)
<1> DEFINE marked  == Marked(g)
           dead(q) == Writes(q) /\ q.result.name \in DOMAIN g.origin \ marked
           phis    == [b \in Blocks(g) |-> SelectSeq(g.phis[b], LAMBDA p : p.result.name \in marked)]
           gone(b) == Len(g.phis[b]) - Len(phis[b])
           swept   == OverBlocks(g, LAMBDA b :
                        LET left == SelectSeq(g.code[b], LAMBDA q : ~dead(q))
                        IN  [code |-> left, count |-> Len(g.code[b]) - Len(left) + gone(b)])
<1>1. SSADCE(g).g = [swept.g EXCEPT !.phis = phis]
  BY DEF SSADCE, Result
<1>2. SameEdges(g, swept.g)
  BY GatheredKeepsEdges DEF OverBlocks
<1> HIDE DEF swept, phis
<1>3. SameEdges(swept.g, [swept.g EXCEPT !.phis = phis])
  <2>1. Fields \subseteq DOMAIN swept.g
    BY <1>2 DEF SameEdges
  <2> QED  BY <2>1, OtherFieldsKeepEdges
<1> QED  BY <1>1, <1>2, <1>3, SameEdgesAgain, Zenon

LEMMA LeavingKeepsEdges ==
  ASSUME NEW g, Fields \subseteq DOMAIN g
  PROVE  SameEdges(g, LeaveSSA(g).g)
<1> DEFINE kept   == Whole(DropDeadPhis(g))
           copied == Whole(PhisToCopies(kept))
<1> SUFFICES ASSUME InSSA(g) PROVE SameEdges(g, LeaveSSA(g).g)
  BY DEF LeaveSSA, Result, SameEdges
<1>1. SameEdges(g, kept)
  BY DEF SameEdges, Whole, DropDeadPhis, Blocks, Fields
<1>2. SameEdges(kept, copied)
  <2> HIDE DEF kept
  <2> QED  BY <1>1 DEF SameEdges, Whole, PhisToCopies, Blocks, Fields
<1>3. LeaveSSA(g).g = OutOf(copied, PhiNames(kept))
  BY DEF LeaveSSA, Result
<1>4. SameEdges(copied, OutOf(copied, PhiNames(kept)))
  <2> HIDE DEF kept, copied
  <2> QED  BY DEF SameEdges, OutOf, RenameAll, Blocks, Fields
<1> HIDE DEF kept, copied
<1> QED  BY <1>1, <1>2, <1>3, <1>4, SameEdgesAgain
-----------------------------------------------------------------------------
(* Taking edges away, and moving them.                                      *)

(* What is left of a sequence where only some places stay.                  *)
Places(s, gone) == FlattenSeq([i \in DOMAIN s |-> IF s[i] \in gone THEN <<>> ELSE <<i>>])

LEMMA OutsideHas ==
  ASSUME NEW U, NEW s \in Seq(U), NEW gone
  PROVE  Outside(s, gone) \in Seq(U) /\ ToSet(Outside(s, gone)) = ToSet(s) \ gone
<1> DEFINE seqs == [i \in DOMAIN s |-> IF s[i] \in gone THEN <<>> ELSE <<s[i]>>]
           V    == ToSet(s) \ gone
<1>1. \A i \in DOMAIN s : s[i] \in ToSet(s) /\ s[i] \in U
  BY DEF ToSet
<1>2. \A i \in DOMAIN s : seqs[i] \in Seq(V)
  <2> SUFFICES ASSUME NEW i \in DOMAIN s PROVE seqs[i] \in Seq(V)
    OBVIOUS
  <2>1. CASE s[i] \in gone
    BY <2>1
  <2>2. CASE s[i] \notin gone
    <3>1. s[i] \in V
      BY <1>1, <2>2
    <3> QED  BY <2>2, <3>1, OneAsSequence
  <2> QED  BY <2>1, <2>2
<1>3. seqs \in Seq(Seq(V))
  <2>1. Len(s) \in Nat /\ DOMAIN s = 1 .. Len(s)
    OBVIOUS
  <2>2. seqs \in [1 .. Len(s) -> Seq(V)]
    BY <1>2, <2>1
  <2> HIDE DEF seqs, V
  <2> QED  BY <2>1, <2>2, FunctionAsSequence
<1>4. Outside(s, gone) = FlattenSeq(seqs)
  BY DEF Outside
<1>5. /\ FlattenSeq(seqs) \in Seq(V)
      /\ \A n \in DOMAIN seqs : ToSet(seqs[n]) \subseteq ToSet(FlattenSeq(seqs))
  <2> HIDE DEF seqs, V
  <2> QED  BY <1>3, FlattenHas
<1>6. V \subseteq U
  BY <1>1 DEF ToSet
<1>7. FlattenSeq(seqs) \in Seq(U) /\ ToSet(FlattenSeq(seqs)) \subseteq V
  <2> HIDE DEF seqs, V
  <2>1. FlattenSeq(seqs) \in Seq(U)
    BY <1>5, <1>6, SequenceInto
  <2>2. ToSet(FlattenSeq(seqs)) \subseteq V
    BY <1>5 DEF ToSet
  <2> QED  BY <2>1, <2>2
<1>8. ASSUME NEW v \in V PROVE v \in ToSet(FlattenSeq(seqs))
  <2>1. PICK i \in DOMAIN s : s[i] = v
    BY DEF ToSet
  <2>2. seqs[i] = <<v>> /\ i \in DOMAIN seqs
    BY <2>1
  <2>3. v \in ToSet(<<v>>)
    BY DEF ToSet
  <2> HIDE DEF seqs, V
  <2> QED  BY <1>5, <2>2, <2>3
<1> HIDE DEF seqs, V
<1> QED  BY <1>4, <1>7, <1>8 DEF V

LEMMA PickedHas ==
  ASSUME NEW U, NEW s \in Seq(U), NEW gone
  PROVE  Picked(s, Places(s, gone)) \in Seq(U) /\ ToSet(Picked(s, Places(s, gone))) = ToSet(s) \ gone
<1> DEFINE seqs == [i \in DOMAIN s |-> IF s[i] \in gone THEN <<>> ELSE <<i>>]
           I    == {i \in DOMAIN s : s[i] \notin gone}
           at   == Places(s, gone)
<1>1. \A i \in DOMAIN s : seqs[i] \in Seq(I)
  <2> SUFFICES ASSUME NEW i \in DOMAIN s PROVE seqs[i] \in Seq(I)
    OBVIOUS
  <2>1. CASE s[i] \in gone
    BY <2>1
  <2>2. CASE s[i] \notin gone
    <3>1. i \in I
      BY <2>2
    <3> QED  BY <2>2, <3>1, OneAsSequence
  <2> QED  BY <2>1, <2>2
<1>2. seqs \in Seq(Seq(I))
  <2>1. Len(s) \in Nat /\ DOMAIN s = 1 .. Len(s)
    OBVIOUS
  <2>2. seqs \in [1 .. Len(s) -> Seq(I)]
    BY <1>1, <2>1
  <2> HIDE DEF seqs, I
  <2> QED  BY <2>1, <2>2, FunctionAsSequence
<1>3. at = FlattenSeq(seqs)
  BY DEF Places
<1>4. /\ at \in Seq(I)
      /\ \A n \in DOMAIN seqs : ToSet(seqs[n]) \subseteq ToSet(at)
  <2> HIDE DEF seqs, I, at
  <2> QED  BY <1>2, <1>3, FlattenHas
<1>5. ASSUME NEW i \in I PROVE \E k \in DOMAIN at : at[k] = i
  <2>1. seqs[i] = <<i>> /\ i \in DOMAIN seqs
    OBVIOUS
  <2>2. i \in ToSet(<<i>>)
    BY DEF ToSet
  <2> HIDE DEF seqs, I, at
  <2>3. i \in ToSet(at)
    BY <1>4, <2>1, <2>2
  <2> QED  BY <2>3 DEF ToSet
<1> HIDE DEF at
<1>6. Len(at) \in Nat /\ DOMAIN at = 1 .. Len(at) /\ \A k \in DOMAIN at : at[k] \in I
  BY <1>4
<1>7. Picked(s, at) \in Seq(U)
  <2>1. Picked(s, at) \in [1 .. Len(at) -> U]
    BY <1>6 DEF Picked
  <2> QED  BY <1>6, <2>1, FunctionAsSequence
<1>8. ToSet(Picked(s, at)) = {s[at[k]] : k \in DOMAIN at}
  BY DEF Picked, ToSet
<1>9. {s[at[k]] : k \in DOMAIN at} = {s[i] : i \in I}
  BY <1>5, <1>6
<1>10. {s[i] : i \in I} = ToSet(s) \ gone
  BY DEF ToSet
<1> QED  BY <1>7, <1>8, <1>9, <1>10 DEF at

(* h is g with the edge from -> to taken from both its ends.                *)
EdgeCut(g, h, from, to) ==
  /\ Fields \subseteq DOMAIN h /\ Blocks(h) = Blocks(g)
  /\ \E ss, pp \in Seq(Blocks(g)) :
       /\ ToSet(ss) = Succs(g, from) \ {to} /\ h.succs = [g.succs EXCEPT ![from] = ss]
       /\ ToSet(pp) = Preds(g, to) \ {from} /\ h.preds = [g.preds EXCEPT ![to] = pp]

LEMMA CutKeepsShape ==
  ASSUME NEW g, Shape(g), NEW from \in Blocks(g), NEW to \in Blocks(g), NEW h, EdgeCut(g, h, from, to)
  PROVE  Shape(h)
<1> DEFINE B == Blocks(g)
<1>1. PICK ss, pp \in Seq(B) :
        /\ ToSet(ss) = Succs(g, from) \ {to} /\ h.succs = [g.succs EXCEPT ![from] = ss]
        /\ ToSet(pp) = Preds(g, to) \ {from} /\ h.preds = [g.preds EXCEPT ![to] = pp]
  BY DEF EdgeCut
<1>2. /\ g.succs \in [B -> Seq(B)] /\ g.preds \in [B -> Seq(B)]
      /\ \A b, c \in B : c \in Succs(g, b) <=> b \in Preds(g, c)
  BY DEF Shape, IsGraph
<1>3. h.succs \in [B -> Seq(B)] /\ h.preds \in [B -> Seq(B)]
  BY <1>1, <1>2
<1>4. ASSUME NEW b \in B PROVE Succs(h, b) = IF b = from THEN Succs(g, b) \ {to} ELSE Succs(g, b)
  BY <1>1, <1>2 DEF Succs
<1>5. ASSUME NEW c \in B PROVE Preds(h, c) = IF c = to THEN Preds(g, c) \ {from} ELSE Preds(g, c)
  BY <1>1, <1>2 DEF Preds
<1>6. \A b, c \in B : c \in Succs(h, b) <=> b \in Preds(h, c)
  BY <1>2, <1>4, <1>5
<1> QED  BY <1>3, <1>6 DEF Shape, IsGraph, EdgeCut

LEMMA RemovedEdge ==
  ASSUME NEW g, Shape(g), NEW from \in Blocks(g), NEW to \in Blocks(g)
  PROVE  EdgeCut(g, RemoveEdge(g, from, to), from, to) /\ EdgeCut(g, RemoveEdgeSSA(g, from, to), from, to)
<1> DEFINE B == Blocks(g)
           ss == Outside(g.succs[from], {to})
           pp == Outside(g.preds[to], {from})
           qq == Picked(g.preds[to], Places(g.preds[to], {from}))
           h  == RemoveEdge(g, from, to)
           k  == RemoveEdgeSSA(g, from, to)
<1>1. Fields \subseteq DOMAIN g /\ g.succs \in [B -> Seq(B)] /\ g.preds \in [B -> Seq(B)]
  BY DEF Shape, IsGraph
<1>2. g.succs[from] \in Seq(B) /\ g.preds[to] \in Seq(B)
  BY <1>1
<1>3. ss \in Seq(B) /\ ToSet(ss) = Succs(g, from) \ {to}
  BY <1>2, OutsideHas DEF Succs
<1>4. pp \in Seq(B) /\ ToSet(pp) = Preds(g, to) \ {from}
  BY <1>2, OutsideHas DEF Preds
<1>5. qq \in Seq(B) /\ ToSet(qq) = Preds(g, to) \ {from}
  BY <1>2, PickedHas DEF Preds
<1>6. StayingAt(g, to, {from}) = Places(g.preds[to], {from})
  BY DEF StayingAt, Places
<1>7. /\ Fields \subseteq DOMAIN h /\ Blocks(h) = B
      /\ h.succs = [g.succs EXCEPT ![from] = ss] /\ h.preds = [g.preds EXCEPT ![to] = pp]
  BY <1>1 DEF RemoveEdge, Without, Fields, Blocks
<1>8. /\ Fields \subseteq DOMAIN k /\ Blocks(k) = B
      /\ k.succs = [g.succs EXCEPT ![from] = ss] /\ k.preds = [g.preds EXCEPT ![to] = qq]
  BY <1>1, <1>6 DEF RemoveEdgeSSA, Without, Fields, Blocks
<1> HIDE DEF ss, pp, qq, h, k, B
<1>9. EdgeCut(g, h, from, to)
  BY <1>3, <1>4, <1>7 DEF EdgeCut, B
<1>10. EdgeCut(g, k, from, to)
  BY <1>3, <1>5, <1>8 DEF EdgeCut, B
<1> QED  BY <1>9, <1>10 DEF h, k

(* h is g with the edge from -> old going to another block instead.         *)
LEMMA RedirectKeepsShape ==
  ASSUME NEW g, Shape(g), NEW from \in Blocks(g), NEW old \in Succs(g, from), NEW new \in Blocks(g), new # old
  PROVE  Shape(RedirectEdge(g, from, old, new)) /\ Blocks(RedirectEdge(g, from, old, new)) = Blocks(g)
<1> DEFINE B  == Blocks(g)
           h  == RedirectEdge(g, from, old, new)
           s  == g.succs[from]
           ss == [i \in DOMAIN s |-> IF s[i] = old THEN new ELSE s[i]]
           pp == Outside(g.preds[old], {from})
           qq == Append(g.preds[new], from)
<1>1. /\ Fields \subseteq DOMAIN g /\ g.succs \in [B -> Seq(B)] /\ g.preds \in [B -> Seq(B)]
      /\ \A b, c \in B : c \in Succs(g, b) <=> b \in Preds(g, c)
  BY DEF Shape, IsGraph
<1>2. s \in Seq(B) /\ old \in B /\ \E i \in DOMAIN s : s[i] = old
  BY <1>1 DEF Succs, ToSet
<1>3. g.preds[old] \in Seq(B) /\ g.preds[new] \in Seq(B)
  BY <1>1, <1>2
<1>4. ss \in Seq(B)
  BY <1>2
<1>5. ToSet(ss) = (Succs(g, from) \ {old}) \cup {new}
  BY <1>2 DEF ToSet, Succs
<1>6. pp \in Seq(B) /\ ToSet(pp) = Preds(g, old) \ {from}
  BY <1>3, OutsideHas DEF Preds
<1>7. qq \in Seq(B) /\ ToSet(qq) = Preds(g, new) \cup {from}
  BY <1>3, AppendedHas DEF Preds
<1>8. /\ Fields \subseteq DOMAIN h /\ Blocks(h) = B
      /\ h.succs = [g.succs EXCEPT ![from] = ss]
      /\ h.preds = [g.preds EXCEPT ![old] = pp, ![new] = qq]
  BY <1>1, <1>2 DEF RedirectEdge, Without, Fields, Blocks
<1>12. from \in B /\ new \in B
  BY DEF B
<1> HIDE DEF s, ss, pp, qq, h, B
<1>9. h.succs \in [B -> Seq(B)] /\ h.preds \in [B -> Seq(B)]
  <2>1. h.succs \in [B -> Seq(B)]
    BY <1>1, <1>4, <1>8, <1>12
  <2> DEFINE cut == [g.preds EXCEPT ![old] = pp]
  <2>2. cut \in [B -> Seq(B)]
    BY <1>1, <1>6
  <2>3. h.preds = [cut EXCEPT ![new] = qq]
    BY <1>1, <1>2, <1>8, <1>12
  <2> HIDE DEF cut
  <2>4. h.preds \in [B -> Seq(B)]
    BY <1>7, <2>2, <2>3
  <2> QED  BY <2>1, <2>4
<1>10. ASSUME NEW b \in B
       PROVE  Succs(h, b) = IF b = from THEN (Succs(g, b) \ {old}) \cup {new} ELSE Succs(g, b)
  BY <1>1, <1>5, <1>8 DEF Succs
<1>11. ASSUME NEW c \in B
       PROVE  Preds(h, c) = IF c = new THEN Preds(g, c) \cup {from}
                            ELSE IF c = old THEN Preds(g, c) \ {from} ELSE Preds(g, c)
  BY <1>1, <1>2, <1>6, <1>7, <1>8 DEF Preds
<1>13. \A b, c \in B : c \in Succs(h, b) <=> b \in Preds(h, c)
  BY <1>1, <1>2, <1>10, <1>11, <1>12
<1>14. Shape(h)
  BY <1>8, <1>9, <1>13 DEF Shape, IsGraph, B
<1> QED  BY <1>8, <1>14 DEF h, B
-----------------------------------------------------------------------------
(* The loops over the blocks that cut and move edges: each step reports the  *)
(* edges it changes.                                                        *)

(* st is what some steps of a pass have made of g, from a count of c on.    *)
Along(g, c, st) ==
  /\ Shape(st.g) /\ Blocks(st.g) = Blocks(g)
  /\ st.count \in Nat /\ c <= st.count
  /\ st.count = c => SameEdges(g, st.g)

LEMMA ShapeParts ==
  ASSUME NEW g, Shape(g)
  PROVE  /\ Fields \subseteq DOMAIN g
         /\ SameEdges(g, g)
         /\ \A b \in Blocks(g) : Succs(g, b) \subseteq Blocks(g) /\ \A i \in DOMAIN g.succs[b] : g.succs[b][i] \in Succs(g, b)
         /\ \A b \in Blocks(g) : g.succs[b] \in Seq(Blocks(g))
<1>1. Fields \subseteq DOMAIN g /\ g.succs \in [Blocks(g) -> Seq(Blocks(g))]
  BY DEF Shape, IsGraph
<1> QED  BY <1>1 DEF SameEdges, Succs, ToSet

LEMMA BlockCodeKeepsEdges ==
  ASSUME NEW g, Fields \subseteq DOMAIN g, NEW b, NEW code
  PROVE  SameEdges(g, [g EXCEPT !.code[b] = code])
BY DEF SameEdges, Blocks, Fields

(* One edge has gone from what the steps had left.                          *)
LEMMA AlongCut ==
  ASSUME NEW g, NEW c \in Nat, NEW st, Along(g, c, st), NEW k, SameEdges(st.g, k),
         NEW from \in Blocks(g), NEW to \in Blocks(g)
  PROVE  /\ Along(g, c, Result(RemoveEdge(k, from, to), st.count + 1))
         /\ Along(g, c, Result(RemoveEdgeSSA(k, from, to), st.count + 1))
<1>1. Shape(k) /\ Blocks(k) = Blocks(g)
  BY SameEdgesShape DEF Along, SameEdges
<1>2. EdgeCut(k, RemoveEdge(k, from, to), from, to) /\ EdgeCut(k, RemoveEdgeSSA(k, from, to), from, to)
  BY <1>1, RemovedEdge
<1>3. /\ Shape(RemoveEdge(k, from, to)) /\ Blocks(RemoveEdge(k, from, to)) = Blocks(g)
      /\ Shape(RemoveEdgeSSA(k, from, to)) /\ Blocks(RemoveEdgeSSA(k, from, to)) = Blocks(g)
  <2> DEFINE h1 == RemoveEdge(k, from, to)
             h2 == RemoveEdgeSSA(k, from, to)
  <2> HIDE DEF h1, h2
  <2>1. EdgeCut(k, h1, from, to) /\ EdgeCut(k, h2, from, to) /\ from \in Blocks(k) /\ to \in Blocks(k)
    BY <1>1, <1>2 DEF h1, h2
  <2>2. Shape(h1) /\ Shape(h2)
    BY <1>1, <2>1, CutKeepsShape
  <2>3. Blocks(h1) = Blocks(g) /\ Blocks(h2) = Blocks(g)
    BY <1>1, <2>1 DEF EdgeCut
  <2> QED  BY <2>2, <2>3 DEF h1, h2
<1>4. st.count + 1 \in Nat /\ c <= st.count + 1 /\ st.count + 1 # c
  BY DEF Along
<1> QED  BY <1>3, <1>4 DEF Along, Result

LEMMA FoldingBranches ==
  ASSUME NEW g, NEW c \in Nat, NEW st, Along(g, c, st), NEW b \in Blocks(g)
  PROVE  Along(g, c, BranchFolded(st, b))
<1>1. CASE ~BranchFolds(st.g, b)
  BY <1>1 DEF BranchFolded
<1>2. CASE BranchFolds(st.g, b)
  <2> DEFINE h    == st.g
             term == Last(h.code[b])
             k1   == [h EXCEPT !.code[b] = Front(@) \o <<[term EXCEPT !.op = "GOTO", !.arg1 = NoOperand]>>]
             k2   == [h EXCEPT !.code[b] = Front(@)]
  <2>1. Shape(h) /\ Blocks(h) = Blocks(g)
    BY DEF Along
  <2>2. SameEdges(h, k1) /\ SameEdges(h, k2)
    BY <2>1, ShapeParts, BlockCodeKeepsEdges
  <2>3. h.succs[b][1] \in Blocks(g) /\ h.succs[b][2] \in Blocks(g)
    <3>1. Len(h.succs[b]) = 2 /\ h.succs[b] \in Seq(Blocks(g))
      BY <1>2, <2>1, ShapeParts DEF BranchFolds
    <3> QED  BY <3>1
  <2>4. BranchFolded(st, b) = Result(IF term.arg1.ival = 0 THEN RemoveEdge(k1, b, h.succs[b][2])
                                                            ELSE RemoveEdge(k2, b, h.succs[b][1]), st.count + 1)
    BY <1>2 DEF BranchFolded, FoldBranch
  <2> HIDE DEF k1, k2, term
  <2>5. /\ Along(g, c, Result(RemoveEdge(k1, b, h.succs[b][2]), st.count + 1))
        /\ Along(g, c, Result(RemoveEdge(k2, b, h.succs[b][1]), st.count + 1))
    BY <2>2, <2>3, AlongCut
  <2> QED  BY <2>4, <2>5
<1> QED  BY <1>1, <1>2

LEMMA CuttingBranches ==
  ASSUME NEW g, NEW c \in Nat, NEW st, Along(g, c, st), NEW b \in Blocks(g), NEW edges
  PROVE  Along(g, c, SccpBranch(st, b, edges))
<1> DEFINE h  == st.g
           to == {s \in Succs(h, b) : <<b, s>> \in edges}
           br == Last(h.code[b])
           k1 == [h EXCEPT !.code[b] = Front(@) \o <<[br EXCEPT !.op = "GOTO", !.arg1 = NoOperand]>>]
           k2 == [h EXCEPT !.code[b] = Front(@)]
           stays == \/ Terminator(h.code[b]) # "IF_FALSE" \/ Len(h.succs[b]) # 2 \/ Cardinality(to) # 1
                    \/ Cardinality(Succs(h, b)) # 2
<1>1. SccpBranch(st, b, edges) =
        IF stays THEN st
        ELSE IF to = {h.succs[b][1]} THEN Result(RemoveEdgeSSA(k1, b, h.succs[b][2]), st.count + 1)
        ELSE Result(RemoveEdgeSSA(k2, b, h.succs[b][1]), st.count + 1)
  BY DEF SccpBranch
<1>2. CASE stays
  BY <1>1, <1>2
<1>3. CASE ~stays
  <2>1. Shape(h) /\ Blocks(h) = Blocks(g)
    BY DEF Along
  <2>2. SameEdges(h, k1) /\ SameEdges(h, k2)
    BY <2>1, ShapeParts, BlockCodeKeepsEdges
  <2>3. h.succs[b][1] \in Blocks(g) /\ h.succs[b][2] \in Blocks(g)
    <3>1. Len(h.succs[b]) = 2 /\ h.succs[b] \in Seq(Blocks(g))
      BY <1>3, <2>1, ShapeParts
    <3> QED  BY <3>1
  <2> HIDE DEF k1, k2
  <2>5. /\ Along(g, c, Result(RemoveEdgeSSA(k1, b, h.succs[b][2]), st.count + 1))
        /\ Along(g, c, Result(RemoveEdgeSSA(k2, b, h.succs[b][1]), st.count + 1))
    BY <2>2, <2>3, AlongCut
  <2> HIDE DEF stays
  <2> QED  BY <1>1, <1>3, <2>5
<1> QED  BY <1>2, <1>3

(* A chain of gotos ends in a block.                                        *)
LEMMA ChainsEndInBlocks ==
  ASSUME NEW g, Shape(g), NEW start \in Blocks(g)
  PROVE  ResolveChain(g, start) \in Blocks(g)
<1> DEFINE B    == Blocks(g)
           hop  == [b \in B |-> IF IsPureGoto(g, b) THEN {g.succs[b][1]} ELSE {}]
           ends == {b \in Closure(hop, {start}) : ~IsPureGoto(g, b)}
<1>1. hop \in [B -> SUBSET B]
  <2>1. ASSUME NEW b \in B, IsPureGoto(g, b) PROVE g.succs[b][1] \in B
    <3>1. Len(g.succs[b]) = 1 /\ g.succs[b] \in Seq(B)
      BY <2>1, ShapeParts DEF IsPureGoto
    <3> QED  BY <3>1
  <2> QED  BY <2>1
<1>2. IsFiniteSet(B) /\ {start} \in SUBSET B
  BY DEF Shape, IsGraph
<1>3. Closure(hop, {start}) \in SUBSET B
  <2> HIDE DEF hop, B
  <2> QED  BY <1>1, <1>2, ClosureIsLeast
<1>4. ResolveChain(g, start) = IF ends = {} THEN start ELSE CHOOSE b \in ends : TRUE
  BY DEF ResolveChain
<1>5. ends \subseteq B
  BY <1>3
<1> HIDE DEF ends
<1> QED  BY <1>4, <1>5

LEMMA LabelKeepsEdges ==
  ASSUME NEW g, Fields \subseteq DOMAIN g, NEW b, NEW fresh
  PROVE  SameEdges(g, EnsureLabel(g, b, fresh).g)
<1>1. SameEdges(g, g)
  BY DEF SameEdges
<1>2. SameEdges(g, PutLabel(g, b, FirstFree(LabelName, Labels(g), fresh)).g)
  BY BlockCodeKeepsEdges DEF PutLabel
<1> QED  BY <1>1, <1>2 DEF EnsureLabel

LEMMA ThreadingJumps ==
  ASSUME NEW g, NEW c \in Nat, NEW st, Along(g, c, st), NEW b \in Blocks(g)
  PROVE  Along(g, c, ThreadJump(st, b))
<1> DEFINE h     == st.g
           old   == Head(h.succs[b])
           final == ResolveChain(h, old)
           e     == EnsureLabel(h, final, st.fresh)
           k     == [e.g EXCEPT !.code[b] = Front(@) \o <<[Last(@) EXCEPT !.result = e.label]>>]
           moves == Terminator(h.code[b]) \in {"GOTO", "IF_FALSE"} /\ h.succs[b] # <<>> /\ final # old
<1>1. /\ ThreadJump(st, b).g = IF moves THEN RedirectEdge(k, b, old, final) ELSE h
      /\ ThreadJump(st, b).count = IF moves THEN st.count + 1 ELSE st.count
  BY DEF ThreadJump, ThreadTo, Retarget
<1>2. Shape(h) /\ Blocks(h) = Blocks(g)
  BY DEF Along
<1>3. CASE ~moves
  BY <1>1, <1>3 DEF Along
<1>4. CASE moves
  <2>1. old \in Succs(h, b) /\ old \in Blocks(h)
    <3>1. h.succs[b] \in Seq(Blocks(h)) /\ h.succs[b] # <<>>
      BY <1>2, <1>4, ShapeParts
    <3>2. 1 \in DOMAIN h.succs[b] /\ old = h.succs[b][1]
      BY <3>1
    <3> HIDE DEF old
    <3> QED  BY <1>2, <3>2, ShapeParts
  <2>2. final \in Blocks(h) /\ final # old
    BY <1>2, <1>4, <2>1, ChainsEndInBlocks
  <2>3. SameEdges(h, e.g)
    <3> HIDE DEF final
    <3> QED  BY <1>2, ShapeParts, LabelKeepsEdges
  <2>4. SameEdges(e.g, k)
    <3> HIDE DEF e
    <3>1. Fields \subseteq DOMAIN e.g
      BY <2>3 DEF SameEdges
    <3> QED  BY <3>1, BlockCodeKeepsEdges
  <2> HIDE DEF moves, k, e, final, old
  <2>5. SameEdges(h, k)
    BY <2>3, <2>4, SameEdgesAgain, Zenon
  <2>6. Shape(k) /\ Blocks(k) = Blocks(g) /\ old \in Succs(k, b) /\ final \in Blocks(k)
    BY <1>2, <2>1, <2>2, <2>5, SameEdgesShape DEF SameEdges, Succs
  <2>7. Shape(RedirectEdge(k, b, old, final)) /\ Blocks(RedirectEdge(k, b, old, final)) = Blocks(g)
    BY <2>2, <2>6, RedirectKeepsShape
  <2>8. st.count + 1 \in Nat /\ c <= st.count + 1 /\ st.count + 1 # c
    BY DEF Along
  <2> QED  BY <1>1, <1>4, <2>7, <2>8 DEF Along
<1> QED  BY <1>3, <1>4
-----------------------------------------------------------------------------
(* Such a loop as a whole.  how.kind names the pass; how.edges and how.run   *)
(* are what sccp knows.                                                     *)
SweepStep(how, st, b) ==
  CASE how.kind = "unreachable" -> BranchFolded(st, b)
    [] how.kind = "peephole"    -> ThreadJump(st, b)
    [] OTHER                    -> IF b \in how.run THEN SccpBranch(st, b, how.edges) ELSE st

IsSweep(f, how, start, n) == f = [i \in 0 .. n |-> IF i = 0 THEN start ELSE SweepStep(how, f[i - 1], i - 1)]

LEMMA SweepExtends ==
  ASSUME NEW how, NEW start, NEW n \in Nat, NEW f, IsSweep(f, how, start, n)
  PROVE  \E h : IsSweep(h, how, start, n + 1)
<1> DEFINE h == [i \in 0 .. n + 1 |-> IF i = n + 1 THEN SweepStep(how, f[n], n) ELSE f[i]]
<1>1. \A i \in 0 .. n : f[i] = IF i = 0 THEN start ELSE SweepStep(how, f[i - 1], i - 1)
  BY DEF IsSweep
<1>2. \A i \in 0 .. n + 1 : h[i] = IF i = 0 THEN start ELSE SweepStep(how, h[i - 1], i - 1)
  <2> SUFFICES ASSUME NEW i \in 0 .. n + 1
               PROVE  h[i] = IF i = 0 THEN start ELSE SweepStep(how, h[i - 1], i - 1)
    OBVIOUS
  <2>1. CASE i = n + 1
    <3>1. i # 0 /\ i - 1 = n /\ h[i - 1] = f[n] /\ h[i] = SweepStep(how, f[n], n)
      BY <2>1
    <3> QED  BY <3>1
  <2>2. CASE i # n + 1
    <3>1. i \in 0 .. n /\ h[i] = f[i] /\ (i # 0 => h[i - 1] = f[i - 1])
      BY <2>2
    <3> QED  BY <1>1, <3>1
  <2> QED  BY <2>1, <2>2
<1>3. IsSweep(h, how, start, n + 1)
  BY <1>2 DEF IsSweep
<1> QED  BY <1>3

LEMMA SweepExists ==
  ASSUME NEW how, NEW start, NEW L \in Nat
  PROVE  \E f : IsSweep(f, how, start, L)
<1> DEFINE G == {n \in Nat : \E f : IsSweep(f, how, start, n)}
<1>1. 0 \in G
  <2>1. IsSweep([i \in 0 .. 0 |-> start], how, start, 0)
    BY DEF IsSweep
  <2> QED  BY <2>1
<1>2. \A n \in 0 .. L : n \in G /\ n < L => n + 1 \in G
  BY SweepExtends
<1>3. L \in G
  <2>1. L \in 0 .. L
    OBVIOUS
  <2> HIDE DEF G
  <2> QED  BY <1>1, <1>2, <2>1, SetInduction
<1> QED  BY <1>3

LEMMA OneStep ==
  ASSUME NEW g, NEW c \in Nat, NEW st, Along(g, c, st), NEW b \in Blocks(g), NEW how
  PROVE  Along(g, c, SweepStep(how, st, b))
BY FoldingBranches, ThreadingJumps, CuttingBranches DEF SweepStep

LEMMA BlocksCounted ==
  ASSUME NEW g, Shape(g)
  PROVE  Cardinality(Blocks(g)) \in Nat /\ Blocks(g) = 0 .. Cardinality(Blocks(g)) - 1
<1>1. PICK n \in Nat : Blocks(g) = 0 .. n
  BY DEF Shape
<1>2. Cardinality(0 .. n) = n + 1
  BY FS_Interval
<1> QED  BY <1>1, <1>2

LEMMA WholeSweep ==
  ASSUME NEW g, Shape(g), NEW c \in Nat, NEW start, Along(g, c, start), NEW how,
         NEW f, IsSweep(f, how, start, Cardinality(Blocks(g)))
  PROVE  Along(g, c, f[Cardinality(Blocks(g))])
<1> DEFINE N == Cardinality(Blocks(g))
           G == {n \in Nat : Along(g, c, f[n])}
<1>1. N \in Nat /\ Blocks(g) = 0 .. N - 1
  BY BlocksCounted
<1>2. \A n \in 0 .. N : f[n] = IF n = 0 THEN start ELSE SweepStep(how, f[n - 1], n - 1)
  BY DEF IsSweep
<1> HIDE DEF N
<1>3. 0 \in G
  BY <1>1, <1>2
<1>4. \A n \in 0 .. N : n \in G /\ n < N => n + 1 \in G
  <2> SUFFICES ASSUME NEW n \in 0 .. N, n \in G, n < N PROVE n + 1 \in G
    OBVIOUS
  <2>1. n \in Blocks(g)
    BY <1>1
  <2>2. Along(g, c, SweepStep(how, f[n], n))
    BY <2>1, OneStep
  <2>3. f[n + 1] = SweepStep(how, f[n], n)
    <3>1. n + 1 \in 0 .. N /\ n + 1 # 0 /\ (n + 1) - 1 = n
      BY <1>1
    <3> QED  BY <1>2, <3>1
  <2> QED  BY <2>2, <2>3
<1>5. N \in G
  <2>1. N \in 0 .. N
    BY <1>1
  <2> HIDE DEF G
  <2> QED  BY <1>1, <1>3, <1>4, <2>1, SetInduction
<1> QED  BY <1>5 DEF N

LEMMA SweepsKeepShape ==
  ASSUME NEW g, Shape(g)
  PROVE  /\ Along(g, 0, BranchesFolded(g))
         /\ Along(g, 0, JumpsThreaded(g))
         /\ \A c \in Nat : \A start, edges, run : start.g = g /\ start.count = c => Along(g, c, SccpCut(start, edges, run))
<1> DEFINE N == Cardinality(Blocks(g))
<1>1. N \in Nat
  BY BlocksCounted
<1>2. ASSUME NEW c \in Nat, NEW start, start.g = g, start.count = c PROVE Along(g, c, start)
  BY <1>2, ShapeParts DEF Along
<1>3. Along(g, 0, BranchesFolded(g))
  <2> DEFINE how   == [kind |-> "unreachable"]
             start == Result(g, 0)
             f     == CHOOSE h : IsSweep(h, how, start, N)
  <2>1. BranchesFolded(g) = f[N]
    BY DEF BranchesFolded, IsSweep, SweepStep
  <2>2. start.g = g /\ start.count = 0 /\ 0 \in Nat
    BY DEF Result
  <2> HIDE DEF how, start, N
  <2>3. IsSweep(f, how, start, N)
    BY <1>1, SweepExists
  <2>4. Along(g, 0, start)
    BY <1>2, <2>2
  <2> HIDE DEF f
  <2> QED  BY <2>1, <2>2, <2>3, <2>4, WholeSweep DEF N
<1>4. Along(g, 0, JumpsThreaded(g))
  <2> DEFINE how   == [kind |-> "peephole"]
             start == [g |-> g, count |-> 0, fresh |-> 0]
             f     == CHOOSE h : IsSweep(h, how, start, N)
  <2>1. JumpsThreaded(g) = f[N]
    BY DEF JumpsThreaded, IsSweep, SweepStep
  <2>2. start.g = g /\ start.count = 0 /\ 0 \in Nat
    OBVIOUS
  <2> HIDE DEF how, start, N
  <2>3. IsSweep(f, how, start, N)
    BY <1>1, SweepExists
  <2>4. Along(g, 0, start)
    BY <1>2, <2>2
  <2> HIDE DEF f
  <2> QED  BY <2>1, <2>2, <2>3, <2>4, WholeSweep DEF N
<1>5. ASSUME NEW c \in Nat, NEW start, NEW edges, NEW run, start.g = g, start.count = c
      PROVE  Along(g, c, SccpCut(start, edges, run))
  <2> DEFINE how == [kind |-> "sccp", run |-> run, edges |-> edges]
             f   == CHOOSE h : IsSweep(h, how, start, N)
  <2>1. SccpCut(start, edges, run) = f[N]
    BY <1>5 DEF SccpCut, IsSweep, SweepStep
  <2> HIDE DEF how, N
  <2>3. IsSweep(f, how, start, N)
    BY <1>1, SweepExists
  <2>4. Along(g, c, start)
    BY <1>2, <1>5
  <2> HIDE DEF f
  <2> QED  BY <2>1, <2>3, <2>4, WholeSweep DEF N
<1> QED  BY <1>3, <1>4, <1>5
-----------------------------------------------------------------------------
(* Clearing the blocks the entry does not reach changes no path from it.    *)

SameReach(g, h) ==
  /\ Blocks(h) = Blocks(g)
  /\ \A T \in SUBSET Blocks(g) : ReachableThrough(h, T) = ReachableThrough(g, T)

LEMMA SameEdgesReach ==
  ASSUME NEW g, NEW h, SameEdges(g, h)
  PROVE  SameReach(g, h)
BY DEF SameReach, SameEdges, ReachableThrough, Succs

ClearedFrom(g, h) ==
  LET R == ReachableFromEntry(g)
  IN  /\ Fields \subseteq DOMAIN h /\ Blocks(h) = Blocks(g)
      /\ h.succs \in [Blocks(g) -> Seq(Blocks(g))]
      /\ h.preds \in [Blocks(g) -> Seq(Blocks(g))]
      /\ \A b \in Blocks(g) : Succs(h, b) = IF b \in R THEN Succs(g, b) ELSE {}
      /\ \A b \in R : Preds(h, b) = Preds(g, b) \cap R
      /\ \A b \in Blocks(g) \ R : Preds(h, b) = {}

LEMMA ClearingKeepsShape ==
  ASSUME NEW g, Shape(g), NEW h, ClearedFrom(g, h)
  PROVE  Shape(h) /\ SameReach(g, h)
<1> DEFINE B == Blocks(g)
           R == ReachableFromEntry(g)
<1>1. IsGraph(g) /\ \A b, c \in B : c \in Succs(g, b) <=> b \in Preds(g, c)
  BY DEF Shape, IsGraph
<1>2. /\ R \subseteq B /\ Entry \in R
      /\ \A b \in R : Succs(g, b) \cap B \subseteq R
  <2>1. Entry \in B
    BY <1>1 DEF IsGraph
  <2> QED  BY <1>1, <2>1, Reachability DEF ReachableFromEntry
<1>3. \A b \in B : Succs(g, b) \subseteq B /\ Preds(g, b) \subseteq B
  BY <1>1, EdgeTypes
<1>4. /\ \A b \in B : Succs(h, b) = IF b \in R THEN Succs(g, b) ELSE {}
      /\ \A b \in R : Preds(h, b) = Preds(g, b) \cap R
      /\ \A b \in B \ R : Preds(h, b) = {}
  BY DEF ClearedFrom
<1>5. \A b, c \in B : c \in Succs(h, b) <=> b \in Preds(h, c)
  <2> HIDE DEF R, B
  <2> QED  BY <1>1, <1>2, <1>3, <1>4
<1>6. Shape(h)
  BY <1>5 DEF Shape, IsGraph, ClearedFrom
<1>7. ASSUME NEW T \in SUBSET B PROVE ReachableThrough(h, T) = ReachableThrough(g, T)
  <2> DEFINE X == ReachableThrough(g, T)
             Y == ReachableThrough(h, T)
  <2>1. Blocks(h) = B /\ IsGraph(h)
    BY <1>6 DEF Shape, ClearedFrom
  <2>2. /\ X \subseteq T /\ (Entry \in T => Entry \in X)
        /\ \A b \in X : Succs(g, b) \cap T \subseteq X
        /\ \A S \in SUBSET B : (Entry \in T => Entry \in S) /\ (\A b \in S : Succs(g, b) \cap T \subseteq S) => X \subseteq S
    BY <1>1, Reachability
  <2>3. /\ Y \subseteq T /\ (Entry \in T => Entry \in Y)
        /\ \A b \in Y : Succs(h, b) \cap T \subseteq Y
        /\ \A S \in SUBSET B : (Entry \in T => Entry \in S) /\ (\A b \in S : Succs(h, b) \cap T \subseteq S) => Y \subseteq S
    BY <2>1, Reachability
  <2> HIDE DEF X, Y, R, B
  <2>4. X \subseteq R
    BY <1>2, <1>3, <2>2
  <2>5. \A b \in X : Succs(h, b) \cap T \subseteq X
    BY <1>2, <1>4, <2>2, <2>4
  <2>6. Y \subseteq X
    <3>1. X \in SUBSET B
      BY <1>2, <2>4
    <3> QED  BY <2>2, <2>3, <2>5, <3>1
  <2>7. \A b \in Y : Succs(g, b) \cap T \subseteq Y
    BY <1>2, <1>4, <2>3, <2>4, <2>6
  <2>8. X \subseteq Y
    <3>1. Y \in SUBSET B
      BY <1>2, <2>4, <2>6
    <3> QED  BY <2>2, <2>3, <2>7, <3>1
  <2>9. X = Y
    BY <2>6, <2>8
  <2> QED  BY <2>9 DEF X, Y
<1> QED  BY <1>6, <1>7 DEF SameReach, ClearedFrom

LEMMA ClearedShapes ==
  ASSUME NEW g, Shape(g), NEW st, st.g = g
  PROVE  ClearedFrom(g, ClearUnreached(st).g) /\ ClearedFrom(g, ClearUnreachable(g))
<1> DEFINE B    == Blocks(g)
           R    == ReachableFromEntry(g)
           dead == B \ R
           h    == ClearUnreached(st).g
           k    == ClearUnreachable(g)
<1>1. /\ IsGraph(g) /\ Fields \subseteq DOMAIN g /\ Entry \in B
      /\ g.succs \in [B -> Seq(B)] /\ g.preds \in [B -> Seq(B)]
      /\ \A b \in B : g.succs[b] \in Seq(B) /\ g.preds[b] \in Seq(B)
  BY DEF Shape, IsGraph
<1>2. R \subseteq B /\ \A b \in B : Preds(g, b) \subseteq B
  BY <1>1, Reachability, EdgeTypes DEF ReachableFromEntry
<1>3. ASSUME NEW b \in B
      PROVE  /\ Outside(g.preds[b], dead) \in Seq(B) /\ ToSet(Outside(g.preds[b], dead)) = Preds(g, b) \cap R
             /\ Picked(g.preds[b], StayingAt(g, b, dead)) \in Seq(B)
             /\ ToSet(Picked(g.preds[b], StayingAt(g, b, dead))) = Preds(g, b) \cap R
  <2>1. /\ Outside(g.preds[b], dead) \in Seq(B) /\ ToSet(Outside(g.preds[b], dead)) = Preds(g, b) \ dead
        /\ Picked(g.preds[b], Places(g.preds[b], dead)) \in Seq(B)
        /\ ToSet(Picked(g.preds[b], Places(g.preds[b], dead))) = Preds(g, b) \ dead
    <3> HIDE DEF dead
    <3> QED  BY <1>1, OutsideHas, PickedHas DEF Preds
  <2>2. StayingAt(g, b, dead) = Places(g.preds[b], dead)
    BY DEF StayingAt, Places
  <2>3. Preds(g, b) \ dead = Preds(g, b) \cap R
    BY <1>2
  <2> QED  BY <2>1, <2>2, <2>3
<1>4. ASSUME NEW b \in dead PROVE Preds(g, b) \cap R = {}
  BY <1>1, <1>2, UnreachedPreds
<1>5. <<>> \in Seq(B) /\ ToSet(<<>>) = {}
  BY DEF ToSet
<1>6. ClearedFrom(g, h)
  <2>1. /\ Fields \subseteq DOMAIN h /\ Blocks(h) = B
        /\ h.succs = [b \in B |-> IF b \in dead THEN <<>> ELSE g.succs[b]]
        /\ h.preds = [b \in B |-> Outside(g.preds[b], dead)]
    BY DEF ClearUnreached, Clear, Result, Fields, Blocks
  <2> HIDE DEF h, dead, R, B
  <2>2. h.succs \in [B -> Seq(B)] /\ h.preds \in [B -> Seq(B)]
    BY <1>1, <1>3, <1>5, <2>1
  <2>3. ASSUME NEW b \in B PROVE Succs(h, b) = IF b \in R THEN Succs(g, b) ELSE {}
    BY <1>2, <1>5, <2>1 DEF Succs, dead
  <2>4. ASSUME NEW b \in B PROVE Preds(h, b) = Preds(g, b) \cap R
    BY <1>3, <2>1 DEF Preds
  <2>5. \A b \in dead : Preds(h, b) = {}
    BY <1>4, <2>4 DEF dead
  <2> QED  BY <1>2, <2>1, <2>2, <2>3, <2>4, <2>5 DEF ClearedFrom, B, R, dead
<1>7. ClearedFrom(g, k)
  <2>1. /\ Fields \subseteq DOMAIN k /\ Blocks(k) = B
        /\ k.succs = [b \in B |-> IF b \in dead THEN <<>> ELSE g.succs[b]]
        /\ k.preds = [b \in B |-> IF b \in dead THEN <<>> ELSE Picked(g.preds[b], StayingAt(g, b, dead))]
    BY <1>1 DEF ClearUnreachable, Unreached, Fields, Blocks
  <2> HIDE DEF k, dead, R, B
  <2>2. k.succs \in [B -> Seq(B)] /\ k.preds \in [B -> Seq(B)]
    BY <1>1, <1>3, <1>5, <2>1
  <2>3. ASSUME NEW b \in B PROVE Succs(k, b) = IF b \in R THEN Succs(g, b) ELSE {}
    BY <1>2, <1>5, <2>1 DEF Succs, dead
  <2>4. ASSUME NEW b \in B PROVE Preds(k, b) = IF b \in dead THEN {} ELSE Preds(g, b) \cap R
    BY <1>3, <1>5, <2>1 DEF Preds
  <2> QED  BY <1>2, <2>1, <2>2, <2>3, <2>4 DEF ClearedFrom, B, R, dead
<1> QED  BY <1>6, <1>7
-----------------------------------------------------------------------------
(* The passes that change edges.                                            *)

(* A pass makes r of g: a graph again, and whatever happens to paths from    *)
(* the entry is reported.                                                   *)
Outcome(g, r) == Shape(r.g) /\ (SameReach(g, r.g) \/ r.count > 0)

LEMMA SubsetCounted ==
  ASSUME NEW g, Shape(g), NEW S \in SUBSET Blocks(g)
  PROVE  Cardinality(S) \in Nat
<1>1. IsFiniteSet(S)
  BY FS_Subset DEF Shape, IsGraph
<1> QED  BY <1>1, FS_CardinalityType

LEMMA SameReachAgain ==
  ASSUME NEW g, NEW h, NEW k, SameReach(g, h), SameReach(h, k)
  PROVE  SameReach(g, k)
BY DEF SameReach

LEMMA UnreachableOutcome == ASSUME NEW g, Shape(g) PROVE Outcome(g, UnreachableCodeElimination(g))
<1> DEFINE st == BranchesFolded(g)
           r  == ClearUnreached(st)
<1>1. Along(g, 0, st)
  BY SweepsKeepShape
<1>2. UnreachableCodeElimination(g) = r
  BY DEF UnreachableCodeElimination
<1> HIDE DEF st
<1>3. Shape(r.g) /\ SameReach(st.g, r.g)
  BY <1>1, ClearedShapes, ClearingKeepsShape DEF Along
<1>4. r.count \in Nat /\ r.count >= st.count
  <2> DEFINE dead == Blocks(st.g) \ ReachableFromEntry(st.g)
             S    == {b \in dead : st.g.code[b] # <<>>}
  <2>1. Cardinality(S) \in Nat
    <3>1. S \in SUBSET Blocks(st.g)
      OBVIOUS
    <3> HIDE DEF S
    <3> QED  BY <1>1, <3>1, SubsetCounted DEF Along
  <2>2. r.count = st.count + Cardinality(S)
    BY DEF ClearUnreached, Clear, Result
  <2> HIDE DEF S, r
  <2> QED  BY <1>1, <2>1, <2>2 DEF Along
<1> HIDE DEF r
<1>5. r.count = 0 => SameReach(g, r.g)
  <2>1. r.count = 0 => st.count = 0
    BY <1>1, <1>4 DEF Along
  <2>2. st.count = 0 => SameReach(g, st.g)
    BY <1>1, SameEdgesReach DEF Along
  <2> QED  BY <1>3, <2>1, <2>2, SameReachAgain
<1>6. r.count = 0 \/ r.count > 0
  BY <1>4
<1> QED  BY <1>2, <1>3, <1>5, <1>6 DEF Outcome

LEMMA PeepholeOutcome == ASSUME NEW g, Shape(g) PROVE Outcome(g, Peephole(g))
<1> DEFINE st   == JumpsThreaded(g)
           drop == {b \in Blocks(st.g) : GotoNext(st.g, b)}
           r    == DropGotos(st, drop)
<1>1. Along(g, 0, st)
  BY SweepsKeepShape
<1>2. Peephole(g) = r
  BY DEF Peephole, ThenDropGotos
<1>3. Cardinality(drop) \in Nat
  <2>1. drop \in SUBSET Blocks(st.g)
    OBVIOUS
  <2> HIDE DEF drop, st
  <2> QED  BY <1>1, <2>1, SubsetCounted DEF Along
<1> HIDE DEF st, drop
<1>4. SameEdges(st.g, r.g)
  BY <1>1, ShapeParts DEF Along, SameEdges, DropGotos, Result, Fields, Blocks
<1>5. r.count = st.count + Cardinality(drop)
  BY DEF DropGotos, Result
<1> HIDE DEF r
<1>6. Shape(r.g)
  BY <1>1, <1>4, SameEdgesShape DEF Along
<1>7. st.count = 0 => SameReach(g, r.g)
  BY <1>1, <1>4, SameEdgesAgain, SameEdgesReach DEF Along
<1>8. st.count = 0 \/ r.count > 0
  BY <1>1, <1>3, <1>5 DEF Along
<1> QED  BY <1>2, <1>6, <1>7, <1>8 DEF Outcome

LEMMA SccpOutcome == ASSUME NEW g, Shape(g) PROVE Outcome(g, SCCP(g))
<1> DEFINE facts == SccpFacts(g)
           run   == ExecutableBlocks(facts.edges)
           fold  == SccpFold(g, facts.val, run)
           cut   == SccpCut(fold, facts.edges, run)
           r     == Tidied(cut)
           c     == fold.count
<1>1. SCCP(g) = r
  BY DEF SCCP, SccpOn, SccpApplied
<1>2. SameEdges(g, fold.g) /\ c \in Nat
  <2> DEFINE new == [b \in Blocks(g) |-> IF b \in run THEN SccpBlock(g.code[b], facts.val) ELSE g.code[b]]
             S   == {b \in Blocks(g) : new[b] # g.code[b]}
  <2>1. fold.g = WithCode(g, new) /\ fold.count = Cardinality(S)
    BY DEF SccpFold, Rewritten, Result
  <2>2. S \in SUBSET Blocks(g)
    OBVIOUS
  <2> HIDE DEF fold, new, S
  <2>3. Cardinality(S) \in Nat
    BY <2>2, SubsetCounted
  <2> QED  BY <2>1, <2>3, ShapeParts, CodeKeepsEdges
<1> HIDE DEF fold, facts, run
<1>3. Shape(fold.g)
  BY <1>2, SameEdgesShape
<1>4. Along(fold.g, c, cut)
  BY <1>2, <1>3, SweepsKeepShape
<1> HIDE DEF cut
<1>5. r.g = ClearUnreachable(cut.g) /\ r.count = cut.count + Cleared(cut.g)
  BY DEF Tidied, Result
<1>6. Shape(cut.g)
  BY <1>4 DEF Along
<1>7. Cleared(cut.g) \in Nat
  <2> DEFINE S == {b \in Unreached(cut.g) : cut.g.code[b] # <<>> \/ cut.g.phis[b] # <<>>}
  <2>1. S \in SUBSET Blocks(cut.g) /\ Cleared(cut.g) = Cardinality(S)
    BY DEF Unreached, Cleared
  <2> HIDE DEF S
  <2> QED  BY <1>6, <2>1, SubsetCounted
<1> HIDE DEF r
<1>8. Shape(r.g) /\ SameReach(cut.g, r.g)
  BY <1>5, <1>6, ClearedShapes, ClearingKeepsShape
<1>9. r.count \in Nat /\ (r.count = 0 => cut.count = c)
  <2>1. c \in Nat /\ cut.count \in Nat /\ c <= cut.count
    BY <1>2, <1>4 DEF Along
  <2> HIDE DEF c
  <2> QED  BY <1>5, <1>7, <2>1
<1>10. cut.count = c => SameReach(g, r.g)
  <2>1. cut.count = c => SameReach(fold.g, cut.g)
    BY <1>4, SameEdgesReach DEF Along
  <2>2. SameReach(g, fold.g)
    BY <1>2, SameEdgesReach
  <2> QED  BY <1>8, <2>1, <2>2, SameReachAgain
<1>11. r.count = 0 \/ r.count > 0
  BY <1>9
<1> QED  BY <1>1, <1>8, <1>9, <1>10, <1>11 DEF Outcome

LEMMA ConstructionOutcome == ASSUME NEW g, Shape(g), NEW live PROVE Outcome(g, SSAConstruct(g, live))
<1> DEFINE with  == [code |-> g.code, succs |-> g.succs, preds |-> g.preds,
                     phis |-> [b \in Blocks(g) |-> <<>>], origin |-> [x \in {} |-> ""]]
           start == Lifted(g)
           dom   == Dominators(start)
           place == PlacePhis(start, dom, live)
           done  == BlocksRenamed(place, dom)
           last  == Rename(place, dom)
<1>1. SSAConstruct(g, live).g = last /\ SSAConstruct(g, live).count = 1
  BY DEF SSAConstruct, Result
<1>2. SameEdges(g, with)
  BY DEF SameEdges, Fields, Blocks
<1>3. start = ClearUnreachable(with)
  BY DEF Lifted
<1> HIDE DEF with
<1>4. Shape(with)
  BY <1>2, SameEdgesShape
<1> HIDE DEF start
<1>5. Shape(start)
  <2> DEFINE st == [g |-> with]
  <2>1. st.g = with
    OBVIOUS
  <2> HIDE DEF st
  <2> QED  BY <1>3, <1>4, <2>1, ClearedShapes, ClearingKeepsShape
<1> HIDE DEF dom
<1>6. SameEdges(start, place)
  BY <1>5, ShapeParts, OtherFieldsKeepEdges DEF PlacePhis
<1> HIDE DEF place
<1>7. SameEdges(place, WithCode(place, done.code))
  BY <1>6, CodeKeepsEdges DEF SameEdges
<1>8. last = [WithCode(place, done.code) EXCEPT !.phis = done.phis, !.origin = done.origin]
  BY DEF Rename
<1> HIDE DEF done, last
<1>9. SameEdges(WithCode(place, done.code), last)
  <2>1. Fields \subseteq DOMAIN WithCode(place, done.code)
    BY <1>7 DEF SameEdges
  <2> QED  BY <1>8, <2>1, OtherFieldsKeepEdges
<1>10. Shape(last)
  BY <1>5, <1>6, <1>7, <1>9, SameEdgesShape
<1> QED  BY <1>1, <1>10 DEF Outcome
-----------------------------------------------------------------------------
(* Every pass.                                                              *)

LEMMA EdgesLeftAlone ==
  ASSUME NEW g, Shape(g), NEW facts, NEW pass \in PassNames, LeavesEdges(pass)
  PROVE  SameEdges(g, Perform(pass, g, facts).g)
<1>1. Fields \subseteq DOMAIN g
  BY DEF Shape
<1>2. /\ SameEdges(g, ConstantFolding(g).g)
      /\ SameEdges(g, ConstantPropagation(g, facts["reach"]).g)
      /\ SameEdges(g, CopyPropagation(g, facts["reach"]).g)
      /\ SameEdges(g, CommonSubexprElimination(g).g)
      /\ SameEdges(g, DeadCodeElimination(g, facts["live"], GlobalNames).g)
  BY <1>1, FoldingKeepsEdges, PropagationKeepsEdges, CseKeepsEdges, DceKeepsEdges, Zenon
<1>3. /\ SameEdges(g, StrengthReduction(g, facts["dom"]).g)
      /\ SameEdges(g, LoopInvariantCodeMotion(g, facts["dom"], facts["live"]).g)
      /\ SameEdges(g, SSALICM(g, facts["dom"]).g)
  BY <1>1, LoopPassesKeepEdges, Zenon
<1>4. /\ SameEdges(g, GVN(g, facts["dom"]).g)
      /\ SameEdges(g, SSADCE(g).g)
      /\ SameEdges(g, LeaveSSA(g).g)
  BY <1>1, GvnKeepsEdges, SsaDceKeepsEdges, LeavingKeepsEdges, Zenon
<1>5. pass \in {"fold", "constprop", "copyprop", "cse", "dce", "strength", "licm", "licm-ssa", "gvn", "ssa-dce", "out-of-ssa"}
  BY DEF LeavesEdges, PassNames, ClassicPasses, SSAOnlyPasses
<1> QED  BY <1>2, <1>3, <1>4, <1>5 DEF Perform

LEMMA PassOutcome ==
  ASSUME NEW g, Shape(g), NEW facts, NEW pass \in PassNames
  PROVE  Outcome(g, Perform(pass, g, facts))
<1>1. CASE LeavesEdges(pass)
  BY <1>1, EdgesLeftAlone, SameEdgesShape, SameEdgesReach DEF Outcome
<1>2. CASE ~LeavesEdges(pass)
  <2>1. /\ Outcome(g, UnreachableCodeElimination(g)) /\ Outcome(g, Peephole(g))
        /\ Outcome(g, SSAConstruct(g, facts["live"])) /\ Outcome(g, SCCP(g))
    BY UnreachableOutcome, PeepholeOutcome, ConstructionOutcome, SccpOutcome, Zenon
  <2>2. pass \in {"unreachable", "peephole", "ssa", "sccp"}
    BY <1>2 DEF LeavesEdges
  <2> QED  BY <2>1, <2>2 DEF Perform
<1> QED  BY <1>1, <1>2

-----------------------------------------------------------------------------
(* The manager.                                                             *)

(* dom holds the dominators of the reached blocks, by the paths of g.       *)
ExactFor(g, dom) == \A b \in ReachableFromEntry(g) : dom[b] = OnEveryPath(g, b)

LEMMA ComputedExact == ASSUME NEW g, Shape(g) PROVE ExactFor(g, Dominators(g))
BY DominatorsByPaths DEF Shape, ExactFor, OnEveryPath

LEMMA ExactAgain ==
  ASSUME NEW g, NEW h, SameReach(g, h), NEW dom, ExactFor(g, dom)
  PROVE  ExactFor(h, dom)
<1>1. ReachableFromEntry(h) = ReachableFromEntry(g)
  BY DEF SameReach, ReachableFromEntry
<1>2. \A b : OnEveryPath(h, b) = OnEveryPath(g, b)
  BY DEF SameReach, OnEveryPath
<1> QED  BY <1>1, <1>2 DEF ExactFor

(* Between passes: the graph is one, the cached dominators are its own, and  *)
(* the loop stands at a place of the pipeline.                              *)
Sound ==
  /\ pipeline \in Pipelines
  /\ group \in Nat \ {0} /\ next \in Nat \ {0}
  /\ Shape(graph)
  /\ "dom" \in DOMAIN cache => ExactFor(graph, cache["dom"])

LEMMA BuiltShape ==
  ASSUME NEW Q, NEW code \in Seq(Q)
  PROVE  Shape(BuildCFG(code))
<1> DEFINE n == IF code = <<>> THEN 0 ELSE Cardinality(Leaders(code))
           g == BuildCFG(code)
<1>1. n \in Nat
  BY LeadersCounted
<1>2. IsGraph(g)
  BY BuiltGraphs
<1>3. Fields \subseteq DOMAIN g /\ Blocks(g) = 0 .. n
  BY DEF BuildCFG, Fields, Blocks
<1> HIDE DEF g, n
<1>4. Shape(g)
  BY <1>1, <1>2, <1>3 DEF Shape
<1> QED  BY <1>4 DEF g

LEMMA StartSound == Init => Sound
<1> SUFFICES ASSUME Init PROVE Sound
  OBVIOUS
<1>1. /\ pipeline \in Pipelines /\ group = 1 /\ next = 1
      /\ cache = [k \in {} |-> {}]
      /\ program \in Programs /\ graph = BuildCFG(program.fns[program.f].code)
  BY DEF Init, Manager!Start
<1>2. program.fns[program.f].code \in Seq(ToSet(program.fns[program.f].code))
  BY <1>1, ProgramAssumption
<1>3. Shape(graph)
  BY <1>1, <1>2, BuiltShape, Zenon
<1> QED  BY <1>1, <1>3 DEF Sound

LEMMA PassSound == Sound /\ RunPass => Sound'
<1> SUFFICES ASSUME Sound, RunPass PROVE Sound'
  OBVIOUS
<1> DEFINE pass  == Manager!Current
           held  == Filled(pass)
           facts == [k \in NeededBy(pass) |-> held[k]]
           r     == Perform(pass, graph, facts)
<1>1. pass \in PassNames
  <2> DEFINE Groups == [passes : Seq(PassNames), fixpoint : BOOLEAN, sweeps : Nat \ {0}]
  <2>1. pipeline \in Seq(Groups)
    BY PipelineAssumption DEF Sound, Manager!IsPipeline
  <2>2. \A gr \in Groups : gr.passes \in Seq(PassNames)
    OBVIOUS
  <2> HIDE DEF Groups
  <2>3. /\ group \in 1 .. Len(pipeline)
        /\ next \in 1 .. Len(pipeline[group].passes)
        /\ pipeline[group].passes \in Seq(PassNames)
    <3>1. group <= Len(pipeline) /\ next <= Len(pipeline[group].passes)
      BY DEF RunPass, Manager!AtPass, Manager!Running, Manager!Group
    <3>2. group \in 1 .. Len(pipeline)
      BY <2>1, <3>1 DEF Sound
    <3>3. pipeline[group] \in Groups
      BY <2>1, <3>2
    <3>4. pipeline[group].passes \in Seq(PassNames)
      BY <2>2, <3>3
    <3>5. Len(pipeline[group].passes) \in Nat
      BY <3>4
    <3> QED  BY <3>1, <3>2, <3>4, <3>5 DEF Sound
  <2>4. pass = pipeline[group].passes[next]
    BY DEF Manager!Current, Manager!Group
  <2> QED  BY <2>3, <2>4
<1>2. /\ graph' = r.g
      /\ next' = next + 1
      /\ pipeline' = pipeline /\ group' = group
      /\ cache' = IF r.count > 0 THEN Manager!Invalidate(held, ~LeavesEdges(pass)) ELSE held
  BY DEF RunPass, RunManaged, Manager!Ran, Manager!Leaves
<1>3. Shape(graph)
  BY DEF Sound
<1>4. "dom" \in DOMAIN held => ExactFor(graph, held["dom"])
  <2>1. CASE "dom" \in DOMAIN cache
    BY <2>1 DEF Sound, Filled, Got
  <2>2. CASE "dom" \notin DOMAIN cache
    <3>1. "dom" \in DOMAIN held => held["dom"] = Dominators(graph)
      BY <2>2 DEF Filled, Got, Analyse
    <3> HIDE DEF held
    <3> QED  BY <1>3, <3>1, ComputedExact
  <2> QED  BY <2>1, <2>2
<1> HIDE DEF facts, held, pass
<1>5. Outcome(graph, r) /\ (LeavesEdges(pass) => SameEdges(graph, r.g))
  BY <1>1, <1>3, PassOutcome, EdgesLeftAlone
<1> HIDE DEF r
<1>6. Shape(graph')
  BY <1>2, <1>5 DEF Outcome
<1>7. "dom" \in DOMAIN cache' => ExactFor(graph', cache'["dom"])
  <2>1. CASE LeavesEdges(pass)
    <3>1. SameReach(graph, graph')
      BY <1>2, <1>5, <2>1, SameEdgesReach
    <3>2. "dom" \in DOMAIN cache' => "dom" \in DOMAIN held /\ cache'["dom"] = held["dom"]
      BY <1>2 DEF Manager!Invalidate
    <3> QED  BY <1>4, <3>1, <3>2, ExactAgain
  <2>2. CASE ~LeavesEdges(pass) /\ r.count > 0
    BY <1>2, <2>2 DEF Manager!Invalidate
  <2>3. CASE ~LeavesEdges(pass) /\ ~(r.count > 0)
    <3>1. SameReach(graph, graph') /\ cache' = held
      BY <1>2, <1>5, <2>3 DEF Outcome
    <3> QED  BY <1>4, <3>1, ExactAgain
  <2> QED  BY <2>1, <2>2, <2>3
<1>8. next' \in Nat \ {0} /\ group' \in Nat \ {0} /\ pipeline' \in Pipelines
  BY <1>2 DEF Sound
<1> QED  BY <1>6, <1>7, <1>8 DEF Sound

LEMMA StaysSound == Sound /\ [Next]_vars => Sound'
<1> SUFFICES ASSUME Sound, [Next]_vars PROVE Sound'
  OBVIOUS
<1>1. CASE RunPass
  BY <1>1, PassSound
<1>2. CASE BeginGroup
  BY <1>2 DEF Sound, BeginGroup, Manager!ManagedBeginGroup, Manager!BeginGroup
<1>3. CASE NextSweep
  BY <1>3 DEF Sound, NextSweep, Manager!ManagedNextSweep, Manager!NextSweep
<1>4. CASE FinishGroup
  BY <1>4 DEF Sound, FinishGroup, Manager!ManagedFinishGroup, Manager!FinishGroup
<1>5. CASE UNCHANGED vars
  BY <1>5 DEF Sound, vars
<1> QED  BY <1>1, <1>2, <1>3, <1>4, <1>5 DEF Next

-----------------------------------------------------------------------------
(* Results *)

(* Whatever the passes do, in whatever order, the graph they hand on is one: *)
(* every edge leads to a block and is listed at both its ends.              *)
THEOREM EdgesStayMutual == Spec => []IsGraph(graph)
<1>1. Sound => IsGraph(graph)
  BY DEF Sound, Shape
<1> QED  BY <1>1, StartSound, StaysSound, PTL DEF Spec

(* The dominators a pass is given are those of the graph it is given, for    *)
(* every reached block: although P6 may change edges of unreached blocks and *)
(* report nothing, so that they are kept, and although the manager keeps     *)
(* them across every pass that says it leaves edges alone.                  *)
THEOREM DominatorsStayExact == Spec => []DominatorsExact
<1>1. Sound => DominatorsExact
  BY DEF Sound, DominatorsExact, ExactFor, OnEveryPath
<1> QED  BY <1>1, StartSound, StaysSound, PTL DEF Spec
=============================================================================
