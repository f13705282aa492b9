----------------------------- MODULE SccpProofs ------------------------------
(***************************************************************************)
(* For every graph in SSA form: no change is lost between the two work     *)
(* lists of sccp.  What is known of a name only falls, and a definition    *)
(* never gives more than is known of its name (Over).  So a definition     *)
(* that was current and has not been queued since is current still: it     *)
(* gives what it gave, its name has fallen no further than that.           *)
(***************************************************************************)
EXTENDS Sccp, GraphProofs

-----------------------------------------------------------------------------
(* The order of the lattice, and what respects it.                          *)

Below(x, y) == y = LatTop \/ x = y \/ x = LatBottom

(* What is known in one state is below what is known in another.            *)
AllBelow(lower, upper) ==
  DOMAIN lower = DOMAIN upper /\ \A x \in DOMAIN upper : Below(lower[x], upper[x])

LEMMA Levels == LatTop # LatBottom /\ \A v : LatConst(v) # LatTop /\ LatConst(v) # LatBottom
  BY DEF LatTop, LatBottom, LatConst

LEMMA BelowItself == \A x : Below(x, x)
  BY DEF Below

LEMMA BelowAgain == ASSUME NEW x, NEW y, NEW z, Below(x, y), Below(y, z) PROVE Below(x, z)
  BY Levels DEF Below

LEMMA BelowBoth == ASSUME NEW x, NEW y, Below(x, y), Below(y, x) PROVE x = y
  BY Levels DEF Below

(* What meets something below it becomes that.                              *)
LEMMA MeetBelow == ASSUME NEW x, NEW y, Below(y, x) PROVE Meet(x, y) = y
  BY Levels DEF Below, Meet

(* An operand's value falls with what is known of its name.                 *)
LEMMA OperandFalls ==
  ASSUME NEW lower, NEW upper, AllBelow(lower, upper), NEW o
  PROVE  Below(LatticeOf(lower, o), LatticeOf(upper, o))
  BY BelowItself DEF AllBelow, LatticeOf

LEMMA OneFalls ==
  ASSUME NEW q, NEW x, NEW y, Below(x, y)
  PROVE  Below(OfOne(q, x), OfOne(q, y))
  BY Levels DEF Below, OfOne

LEMMA TwoFall ==
  ASSUME NEW q, NEW x, NEW y, NEW u, NEW v, Below(x, u), Below(y, v)
  PROVE  Below(OfTwo(q, x, y), OfTwo(q, u, v))
<1>1. CASE LatTop \in {u, v}
  BY <1>1 DEF Below, OfTwo
<1>2. CASE LatTop \notin {u, v} /\ LatBottom \in {x, y}
  BY <1>2, Levels DEF Below, OfTwo
<1>3. CASE LatTop \notin {u, v} /\ LatBottom \notin {x, y}
  BY <1>3 DEF Below
<1> QED  BY <1>1, <1>2, <1>3

(* So does what a quad gives.                                               *)
LEMMA QuadFalls ==
  ASSUME NEW lower, NEW upper, AllBelow(lower, upper), NEW q
  PROVE  Below(ValueGiven(lower, q), ValueGiven(upper, q))
<1>1. CASE q.op = "COPY"
  BY <1>1, OperandFalls DEF ValueGiven, UnaryExprOps, BinaryExprOps, Comparisons, TrappingOps
<1>2. CASE q.op \in UnaryExprOps
  BY <1>2, OperandFalls, OneFalls DEF ValueGiven, UnaryExprOps, BinaryExprOps, Comparisons, TrappingOps
<1>3. CASE q.op \in BinaryExprOps
  BY <1>3, OperandFalls, TwoFall DEF ValueGiven, UnaryExprOps, BinaryExprOps, Comparisons, TrappingOps
<1>4. CASE q.op \notin {"COPY"} \cup UnaryExprOps \cup BinaryExprOps
  BY <1>4, BelowItself DEF ValueGiven, UnaryExprOps, BinaryExprOps, Comparisons, TrappingOps
<1> QED  BY <1>1, <1>2, <1>3, <1>4

(* The meet of values of which each has one below it in the other set.      *)
LEMMA MeetFalls ==
  ASSUME NEW S, NEW T, \A y \in T : \E x \in S : Below(x, y)
  PROVE  Below(MeetAll(S), MeetAll(T))
<1> DEFINE kS == S \ {LatTop}
           kT == T \ {LatTop}
<1>1. \A y \in kT : \E x \in kS : x = y \/ x = LatBottom
  BY Levels DEF Below
<1>2. CASE kT = {}
  BY <1>2 DEF MeetAll, Below
<1>3. ASSUME NEW y \in kT, kT = {y} PROVE Below(MeetAll(S), MeetAll(T))
  <2>1. MeetAll(T) = y
    BY <1>3 DEF MeetAll
  <2>2. PICK x \in kS : x = y \/ x = LatBottom
    BY <1>1
  <2>3. MeetAll(S) = x \/ MeetAll(S) = LatBottom
    BY <2>2 DEF MeetAll
  <2> QED  BY <2>1, <2>2, <2>3 DEF Below
<1>4. CASE kT # {} /\ \A y \in kT : kT # {y}
  <2>1. PICK y \in kT, z \in kT : y # z
    BY <1>4
  <2>2. PICK u \in kS, v \in kS : (u = y \/ u = LatBottom) /\ (v = z \/ v = LatBottom)
    BY <1>1
  <2>3. MeetAll(S) = LatBottom
    <3>1. CASE \E x \in kS : kS = {x}
      <4>1. u = LatBottom /\ kS = {u}
        BY <2>1, <2>2, <3>1
      <4> QED  BY <4>1 DEF MeetAll
    <3>2. CASE ~\E x \in kS : kS = {x}
      BY <2>2, <3>2 DEF MeetAll
    <3> QED  BY <3>1, <3>2
  <2> QED  BY <2>3 DEF Below
<1> QED  BY <1>2, <1>3, <1>4

(* What a phi gives falls as values fall and as edges are found.            *)
LEMMA PhiFalls ==
  ASSUME NEW g, NEW lower, NEW upper, AllBelow(lower, upper), NEW more, NEW edges, edges \subseteq more,
         NEW b, NEW phi
  PROVE  Below(PhiGiven(g, lower, more, b, phi), PhiGiven(g, upper, edges, b, phi))
<1> DEFINE At(es) == {i \in DOMAIN phi.args : <<g.preds[b][i], b>> \in es}
           S == {LatticeOf(lower, phi.args[j]) : j \in At(more)}
           T == {LatticeOf(upper, phi.args[j]) : j \in At(edges)}
<1>1. At(edges) \subseteq At(more)
  OBVIOUS
<1>2. \A y \in T : \E x \in S : Below(x, y)
  <2> SUFFICES ASSUME NEW j \in At(edges) PROVE \E x \in S : Below(x, LatticeOf(upper, phi.args[j]))
    OBVIOUS
  <2>1. j \in At(more)
    BY <1>1
  <2> HIDE DEF At
  <2> QED  BY <2>1, OperandFalls
<1>3. PhiGiven(g, lower, more, b, phi) = MeetAll(S) /\ PhiGiven(g, upper, edges, b, phi) = MeetAll(T)
  BY DEF PhiGiven
<1> HIDE DEF S, T
<1> QED  BY <1>2, <1>3, MeetFalls

-----------------------------------------------------------------------------
(* A graph in SSA form, and the uses of a name in it.                       *)

UseSites(g) == {u \in [block : Blocks(g), at : Nat] : u.at = 0 \/ u.at \in DOMAIN g.code[u.block]}

LEMMA BlocksOf ==
  ASSUME NEW g, IsSSA(g)
  PROVE  /\ Cardinality(Blocks(g)) \in Nat
         /\ Blocks(g) = 0 .. Cardinality(Blocks(g)) - 1
         /\ Blocks(g) = {n - 1 : n \in 1 .. Cardinality(Blocks(g))}
<1> DEFINE N == Cardinality(Blocks(g))
<1>1. N \in Nat /\ Blocks(g) = 0 .. N - 1
  BY FS_CardinalityType DEF IsSSA
<1> HIDE DEF N
<1>2. ASSUME NEW b \in 0 .. N - 1 PROVE b \in {n - 1 : n \in 1 .. N}
  <2>1. b + 1 \in 1 .. N /\ b = (b + 1) - 1
    BY <1>1
  <2> QED  BY <2>1
<1>3. 0 .. N - 1 = {n - 1 : n \in 1 .. N}
  BY <1>1, <1>2
<1> QED  BY <1>1, <1>3 DEF N

LEMMA PhisHave ==
  ASSUME NEW g, IsSSA(g), NEW x, NEW b \in Blocks(g)
  PROVE  /\ UsesInPhis(g, x, b) \in Seq(UseSites(g))
         /\ (\E p \in ToSet(g.phis[b]) : x \in NamesIn(ToSet(p.args))) => PhisOf(b) \in ToSet(UsesInPhis(g, x, b))
<1>1. PhisOf(b) \in UseSites(g)
  BY DEF PhisOf, UseSites
<1> HIDE DEF UseSites
<1>2. <<PhisOf(b)>> \in Seq(UseSites(g)) /\ PhisOf(b) \in ToSet(<<PhisOf(b)>>)
  BY <1>1 DEF ToSet
<1> QED  BY <1>2 DEF UsesInPhis

LEMMA QuadsHave ==
  ASSUME NEW g, IsSSA(g), NEW x, NEW b \in Blocks(g)
  PROVE  /\ UsesInQuads(g, x, b) \in Seq(UseSites(g))
         /\ \A i \in DOMAIN g.code[b] :
              x \in ReadNames(g.code[b][i]) => QuadIn(b, i) \in ToSet(UsesInQuads(g, x, b))
<1> DEFINE one(i) == IF x \in ReadNames(g.code[b][i]) THEN <<QuadIn(b, i)>> ELSE <<>>
           seqs   == [i \in DOMAIN g.code[b] |-> one(i)]
<1>1. g.code[b] \in Seq(ToSet(g.code[b]))
  BY DEF IsSSA
<1>2. ASSUME NEW i \in DOMAIN g.code[b] PROVE QuadIn(b, i) \in UseSites(g)
  <2>1. i \in Nat
    BY <1>1
  <2> QED  BY <2>1 DEF QuadIn, UseSites
<1>3. ASSUME NEW i \in DOMAIN g.code[b] PROVE one(i) \in Seq(UseSites(g))
  <2>1. QuadIn(b, i) \in UseSites(g)
    BY <1>2
  <2> QED  BY <2>1
<1>4. seqs \in Seq(Seq(UseSites(g)))
  <2>1. DOMAIN g.code[b] = 1 .. Len(g.code[b]) /\ Len(g.code[b]) \in Nat
    BY <1>1
  <2> HIDE DEF one
  <2> QED  BY <1>3, <2>1
<1>5. UsesInQuads(g, x, b) = FlattenSeq(seqs)
  BY DEF UsesInQuads
<1>6. ASSUME NEW i \in DOMAIN g.code[b], x \in ReadNames(g.code[b][i])
      PROVE  QuadIn(b, i) \in ToSet(seqs[i]) /\ i \in DOMAIN seqs
  BY <1>6 DEF ToSet
<1> HIDE DEF seqs, one
<1> QED  BY <1>4, <1>5, <1>6, FlattenHas

(* Wherever a name is read, its uses say so.                                *)
LEMMA UsesHave ==
  ASSUME NEW g, IsSSA(g), NEW x
  PROVE  /\ UsesOf(g, x) \in Seq(UseSites(g))
         /\ \A b \in Blocks(g) :
              /\ (\E p \in ToSet(g.phis[b]) : x \in NamesIn(ToSet(p.args))) => PhisOf(b) \in ToSet(UsesOf(g, x))
              /\ \A i \in DOMAIN g.code[b] :
                   x \in ReadNames(g.code[b][i]) => QuadIn(b, i) \in ToSet(UsesOf(g, x))
<1> DEFINE N      == Cardinality(Blocks(g))
           U      == UseSites(g)
           both(b) == UsesInPhis(g, x, b) \o UsesInQuads(g, x, b)
           seqs   == [n \in 1 .. N |-> both(n - 1)]
<1>1. N \in Nat /\ Blocks(g) = {n - 1 : n \in 1 .. N}
  BY BlocksOf
<1>2. ASSUME NEW b \in Blocks(g)
      PROVE  /\ both(b) \in Seq(U)
             /\ ToSet(both(b)) = ToSet(UsesInPhis(g, x, b)) \cup ToSet(UsesInQuads(g, x, b))
  <2>1. UsesInPhis(g, x, b) \in Seq(U) /\ UsesInQuads(g, x, b) \in Seq(U)
    BY PhisHave, QuadsHave
  <2> HIDE DEF U
  <2> QED  BY <2>1, JoinedHas
<1>3. seqs \in Seq(Seq(U))
  <2>1. \A n \in 1 .. N : both(n - 1) \in Seq(U)
    <3> HIDE DEF both, U, N
    <3> QED  BY <1>1, <1>2
  <2> HIDE DEF both, U, N
  <2> QED  BY <1>1, <2>1
<1>4. UsesOf(g, x) = FlattenSeq(seqs)
  BY DEF UsesOf
<1>5. ASSUME NEW b \in Blocks(g) PROVE \E n \in DOMAIN seqs : seqs[n] = both(b)
  <2>1. PICK n \in 1 .. N : b = n - 1
    BY <1>1
  <2> QED  BY <2>1
<1> HIDE DEF seqs, U
<1>6. UsesOf(g, x) \in Seq(U) /\ \A n \in DOMAIN seqs : ToSet(seqs[n]) \subseteq ToSet(UsesOf(g, x))
  BY <1>3, <1>4, FlattenHas
<1>7. \A b \in Blocks(g) : ToSet(both(b)) \subseteq ToSet(UsesOf(g, x))
  BY <1>5, <1>6
<1> HIDE DEF both
<1> QED  BY <1>2, <1>6, <1>7, PhisHave, QuadsHave DEF U

-----------------------------------------------------------------------------
(* What a step leaves true of what is known.                                *)

Edges(g) == (Blocks(g) \cup {NoBlock}) \X Blocks(g)

StateOK(g, st) ==
  /\ st = [val |-> st.val, execEdge |-> st.execEdge, flowWork |-> st.flowWork, ssaWork |-> st.ssaWork]
  /\ st.val = [x \in DOMAIN g.origin |-> st.val[x]]
  /\ st.flowWork \in Seq(Edges(g))
  /\ st.ssaWork \in Seq(UseSites(g))

(* A definition gives nothing above what is known of its name.              *)
PhisOver(g, st) ==
  \A b \in Blocks(g) : \A k \in DOMAIN g.phis[b] :
    Below(PhiGiven(g, st.val, st.execEdge, b, g.phis[b][k]), st.val[g.phis[b][k].result.name])

QuadsOver(g, st) ==
  \A b \in Blocks(g) : \A i \in DOMAIN g.code[b] :
    Writes(g.code[b][i]) /\ g.code[b][i].result.name \in DOMAIN g.origin =>
      Below(ValueGiven(st.val, g.code[b][i]), st.val[g.code[b][i].result.name])

Sound(g, st) == StateOK(g, st) /\ PhisOver(g, st) /\ QuadsOver(g, st)

(* From one state the work leads to another: values fall, edges and work    *)
(* are added, a name that has fallen has its uses queued, a new edge waits. *)
Leads(g, st, to) ==
  /\ AllBelow(to.val, st.val)
  /\ st.execEdge \subseteq to.execEdge
  /\ ToSet(st.flowWork) \subseteq ToSet(to.flowWork)
  /\ ToSet(st.ssaWork) \subseteq ToSet(to.ssaWork)
  /\ \A x \in DOMAIN st.val : to.val[x] # st.val[x] => ToSet(UsesOf(g, x)) \subseteq ToSet(to.ssaWork)
  /\ to.execEdge \ st.execEdge \subseteq ToSet(to.flowWork)
  /\ ToSet(to.flowWork) \subseteq ToSet(st.flowWork) \cup to.execEdge

LEMMA LeadsNowhere == ASSUME NEW g, NEW st PROVE Leads(g, st, st)
  BY BelowItself DEF Leads, AllBelow

LEMMA LeadsOn ==
  ASSUME NEW g, NEW a, NEW b, NEW c, Leads(g, a, b), Leads(g, b, c)
  PROVE  Leads(g, a, c)
<1>1. AllBelow(c.val, a.val)
  BY BelowAgain DEF Leads, AllBelow
<1>2. \A x \in DOMAIN a.val : c.val[x] # a.val[x] => ToSet(UsesOf(g, x)) \subseteq ToSet(c.ssaWork)
  BY DEF Leads, AllBelow
<1>3. c.execEdge \ a.execEdge \subseteq ToSet(c.flowWork)
  BY DEF Leads
<1>4. ToSet(c.flowWork) \subseteq ToSet(a.flowWork) \cup c.execEdge
  BY DEF Leads
<1> QED  BY <1>1, <1>2, <1>3, <1>4 DEF Leads

(* Lower to what is below: the name is that, its uses are queued.           *)
LEMMA Lowered ==
  ASSUME NEW g, IsSSA(g), NEW st, StateOK(g, st), NEW x \in DOMAIN g.origin, NEW l, Below(l, st.val[x])
  PROVE  /\ StateOK(g, Lower(g, st, x, l))
         /\ Leads(g, st, Lower(g, st, x, l))
         /\ Lower(g, st, x, l).val[x] = l
         /\ \A y \in DOMAIN g.origin : y # x => Lower(g, st, x, l).val[y] = st.val[y]
         /\ Lower(g, st, x, l).execEdge = st.execEdge
<1> DEFINE u == UsesOf(g, x)
           v == [st.val EXCEPT ![x] = l]
           w == st.ssaWork \o u
<1>1. Meet(st.val[x], l) = l
  BY MeetBelow
<1>2. CASE st.val[x] = l
  <2>1. Lower(g, st, x, l) = st
    BY <1>1, <1>2 DEF Lower
  <2> QED  BY <1>2, <2>1, LeadsNowhere
<1>3. CASE st.val[x] # l
  <2>1. u \in Seq(UseSites(g)) /\ st.ssaWork \in Seq(UseSites(g))
    BY UsesHave DEF StateOK
  <2>2. w \in Seq(UseSites(g)) /\ ToSet(w) = ToSet(st.ssaWork) \cup ToSet(u)
    <3> HIDE DEF u
    <3> QED  BY <2>1, JoinedHas
  <2>3. Lower(g, st, x, l) = [val |-> v, execEdge |-> st.execEdge, flowWork |-> st.flowWork, ssaWork |-> w]
    BY <1>1, <1>3 DEF Lower, StateOK
  <2> DEFINE to == Lower(g, st, x, l)
  <2>4. to.val = v /\ to.execEdge = st.execEdge /\ to.flowWork = st.flowWork /\ to.ssaWork = w
    BY <2>3
  <2>5. /\ DOMAIN st.val = DOMAIN g.origin /\ v = [y \in DOMAIN g.origin |-> v[y]]
        /\ v[x] = l /\ \A y \in DOMAIN g.origin : y # x => v[y] = st.val[y]
    BY DEF StateOK
  <2>6. StateOK(g, to)
    <3> HIDE DEF v, w, to
    <3> QED  BY <2>2, <2>3, <2>4, <2>5 DEF StateOK, to
  <2>7. Leads(g, st, to)
    <3>1. AllBelow(v, st.val)
      <4> HIDE DEF v
      <4>1. DOMAIN v = DOMAIN g.origin
        BY <2>5
      <4> QED  BY <2>5, <4>1, BelowItself DEF AllBelow
    <3> HIDE DEF v, w, u, to
    <3> QED  BY <2>2, <2>4, <2>5, <3>1 DEF Leads, u
  <2> HIDE DEF v
  <2> QED  BY <2>4, <2>5, <2>6, <2>7
<1> QED  BY <1>2, <1>3

(* What definitions give falls along, so it stays below a name that has not *)
(* moved; it is enough to look at the names that have.                      *)
LEMMA OverLater ==
  ASSUME NEW g, NEW st, NEW to, Sound(g, st), StateOK(g, to), Leads(g, st, to),
         \A b \in Blocks(g) : \A k \in DOMAIN g.phis[b] :
           \/ to.val[g.phis[b][k].result.name] = st.val[g.phis[b][k].result.name]
           \/ Below(PhiGiven(g, st.val, st.execEdge, b, g.phis[b][k]), to.val[g.phis[b][k].result.name]),
         \A b \in Blocks(g) : \A i \in DOMAIN g.code[b] :
           Writes(g.code[b][i]) /\ g.code[b][i].result.name \in DOMAIN g.origin =>
             \/ to.val[g.code[b][i].result.name] = st.val[g.code[b][i].result.name]
             \/ Below(ValueGiven(st.val, g.code[b][i]), to.val[g.code[b][i].result.name])
  PROVE  Sound(g, to)
<1>1. AllBelow(to.val, st.val) /\ st.execEdge \subseteq to.execEdge
  BY DEF Leads
<1>2. ASSUME NEW b \in Blocks(g), NEW k \in DOMAIN g.phis[b]
      PROVE  Below(PhiGiven(g, to.val, to.execEdge, b, g.phis[b][k]), to.val[g.phis[b][k].result.name])
  <2>1. Below(PhiGiven(g, to.val, to.execEdge, b, g.phis[b][k]), PhiGiven(g, st.val, st.execEdge, b, g.phis[b][k]))
    BY <1>1, PhiFalls
  <2>2. Below(PhiGiven(g, st.val, st.execEdge, b, g.phis[b][k]), to.val[g.phis[b][k].result.name])
    BY DEF Sound, PhisOver
  <2> QED  BY <2>1, <2>2, BelowAgain
<1>3. ASSUME NEW b \in Blocks(g), NEW i \in DOMAIN g.code[b],
             Writes(g.code[b][i]), g.code[b][i].result.name \in DOMAIN g.origin
      PROVE  Below(ValueGiven(to.val, g.code[b][i]), to.val[g.code[b][i].result.name])
  <2>1. Below(ValueGiven(to.val, g.code[b][i]), ValueGiven(st.val, g.code[b][i]))
    BY <1>1, QuadFalls
  <2>2. Below(ValueGiven(st.val, g.code[b][i]), to.val[g.code[b][i].result.name])
    BY <1>3 DEF Sound, QuadsOver
  <2> QED  BY <2>1, <2>2, BelowAgain
<1> QED  BY <1>2, <1>3 DEF Sound, PhisOver, QuadsOver

-----------------------------------------------------------------------------
(* The steps of an evaluation: each keeps what is known sound and leads on. *)

Goes(g, st, to) == Sound(g, to) /\ Leads(g, st, to)

(* Edges and values solve the equations when the blocks those edges lead to *)
(* claim nothing their quads and phis do not give, and mark their ways.     *)
Solves(g, v, edges) ==
  /\ DOMAIN v = DOMAIN g.origin
  /\ edges \subseteq Edges(g)
  /\ \A b \in ExecutableBlocks(edges) :
       /\ \A i \in DOMAIN g.code[b] :
            Writes(g.code[b][i]) /\ g.code[b][i].result.name \in DOMAIN g.origin =>
              Below(v[g.code[b][i].result.name], ValueGiven(v, g.code[b][i]))
       /\ \A k \in DOMAIN g.phis[b] :
            Below(v[g.phis[b][k].result.name], PhiGiven(g, v, edges, b, g.phis[b][k]))
       /\ {b} \X Taken(g, v, b) \subseteq edges

(* What is known has not fallen below those values, nor gone off the edges. *)
Within(v, edges, st) == AllBelow(v, st.val) /\ st.execEdge \subseteq edges

(* Work in block b leaves within a solution what was within it.             *)
Modest(g, b, st, to) ==
  \A v, edges : Solves(g, v, edges) /\ b \in ExecutableBlocks(edges) /\ Within(v, edges, st) => Within(v, edges, to)

LEMMA ModestNowhere == \A g, b, st : Modest(g, b, st, st)
  BY DEF Modest

LEMMA ModestOn ==
  ASSUME NEW g, NEW b, NEW st, NEW mid, NEW to, Modest(g, b, st, mid), Modest(g, b, mid, to)
  PROVE  Modest(g, b, st, to)
  BY DEF Modest

(* One phi: its result becomes what the phi gives.                          *)
LEMMA PhiGoes ==
  ASSUME NEW g, IsSSA(g), NEW st, Sound(g, st), NEW b \in Blocks(g), NEW k \in DOMAIN g.phis[b]
  PROVE  LET phi == g.phis[b][k]
             to  == EvalPhi(g, st, b, phi)
         IN  /\ Goes(g, st, to)
             /\ to.val[phi.result.name] = PhiGiven(g, st.val, st.execEdge, b, phi)
             /\ to.execEdge = st.execEdge
             /\ Modest(g, b, st, to)
<1> DEFINE phi == g.phis[b][k]
           x   == phi.result.name
           l   == PhiGiven(g, st.val, st.execEdge, b, phi)
           to  == EvalPhi(g, st, b, phi)
<1>1. x \in DOMAIN g.origin
  BY DEF IsSSA
<1>2. Below(l, st.val[x]) /\ StateOK(g, st)
  BY DEF Sound, PhisOver
<1>3. to = Lower(g, st, x, l)
  BY DEF EvalPhi
<1>4. /\ StateOK(g, to) /\ Leads(g, st, to) /\ to.val[x] = l /\ to.execEdge = st.execEdge
      /\ \A y \in DOMAIN g.origin : y # x => to.val[y] = st.val[y]
  <2> HIDE DEF x, l, to
  <2> QED  BY <1>1, <1>2, <1>3, Lowered
<1>5. ASSUME NEW c \in Blocks(g), NEW m \in DOMAIN g.phis[c]
      PROVE  \/ to.val[g.phis[c][m].result.name] = st.val[g.phis[c][m].result.name]
             \/ Below(PhiGiven(g, st.val, st.execEdge, c, g.phis[c][m]), to.val[g.phis[c][m].result.name])
  <2>1. CASE g.phis[c][m].result.name = x
    <3>1. c = b /\ m = k
      BY <2>1 DEF IsSSA, PhisNamedOnce
    <3>2. to.val[g.phis[c][m].result.name] = PhiGiven(g, st.val, st.execEdge, c, g.phis[c][m])
      BY <1>4, <3>1
    <3> QED  BY <3>2, BelowItself
  <2>2. CASE g.phis[c][m].result.name # x
    <3>1. g.phis[c][m].result.name \in DOMAIN g.origin
      BY DEF IsSSA
    <3> HIDE DEF to, x
    <3> QED  BY <1>4, <2>2, <3>1
  <2> QED  BY <2>1, <2>2
<1>6. ASSUME NEW c \in Blocks(g), NEW i \in DOMAIN g.code[c],
             Writes(g.code[c][i]), g.code[c][i].result.name \in DOMAIN g.origin
      PROVE  to.val[g.code[c][i].result.name] = st.val[g.code[c][i].result.name]
  <2>1. g.code[c][i].result.name # x
    BY <1>6 DEF IsSSA, PhisApartFromQuads
  <2> HIDE DEF to, x
  <2> QED  BY <1>4, <1>6, <2>1
<1>7. Sound(g, to)
  <2> HIDE DEF to
  <2> QED  BY <1>4, <1>5, <1>6, OverLater
<1>8. Modest(g, b, st, to)
  <2> SUFFICES ASSUME NEW v, NEW edges, Solves(g, v, edges), b \in ExecutableBlocks(edges), Within(v, edges, st)
               PROVE  Within(v, edges, to)
    BY DEF Modest
  <2>1. Below(v[x], PhiGiven(g, v, edges, b, phi))
    BY DEF Solves
  <2>2. Below(PhiGiven(g, v, edges, b, phi), l)
    BY PhiFalls DEF Within
  <2> HIDE DEF to, x, l, phi
  <2>3. Below(v[x], to.val[x])
    BY <1>4, <2>1, <2>2, BelowAgain
  <2>4. DOMAIN st.val = DOMAIN g.origin /\ DOMAIN to.val = DOMAIN g.origin
    BY <1>2, <1>4 DEF StateOK
  <2> QED  BY <1>4, <2>3, <2>4 DEF Within, AllBelow
<1> QED  BY <1>4, <1>7, <1>8 DEF Goes

(* The value of a quad: its result becomes what the quad gives.             *)
LEMMA ValueGoes ==
  ASSUME NEW g, IsSSA(g), NEW st, Sound(g, st), NEW b \in Blocks(g), NEW i \in DOMAIN g.code[b]
  PROVE  LET q  == g.code[b][i]
             to == EvalValue(g, st, q)
         IN  /\ Goes(g, st, to)
             /\ Writes(q) /\ q.result.name \in DOMAIN g.origin => to.val[q.result.name] = ValueGiven(st.val, q)
             /\ to.execEdge = st.execEdge
             /\ Modest(g, b, st, to)
<1> DEFINE q  == g.code[b][i]
           x  == q.result.name
           l  == ValueGiven(st.val, q)
           to == EvalValue(g, st, q)
<1>1. CASE ~(Writes(q) /\ x \in DOMAIN g.origin)
  <2>1. to = st
    BY <1>1 DEF EvalValue
  <2> QED  BY <1>1, <2>1, LeadsNowhere, ModestNowhere DEF Goes
<1>2. CASE Writes(q) /\ x \in DOMAIN g.origin /\ l = LatTop
  <2>1. to = st
    BY <1>2 DEF EvalValue
  <2>2. Below(l, st.val[x])
    BY <1>2 DEF Sound, QuadsOver
  <2>3. st.val[x] = LatTop
    BY <1>2, <2>2, Levels DEF Below
  <2> QED  BY <1>2, <2>1, <2>3, LeadsNowhere, ModestNowhere DEF Goes
<1>3. CASE Writes(q) /\ x \in DOMAIN g.origin /\ l # LatTop
  <2>1. Below(l, st.val[x]) /\ StateOK(g, st)
    BY <1>3 DEF Sound, QuadsOver
  <2>2. to = Lower(g, st, x, l)
    BY <1>3 DEF EvalValue
  <2>3. /\ StateOK(g, to) /\ Leads(g, st, to) /\ to.val[x] = l /\ to.execEdge = st.execEdge
        /\ \A y \in DOMAIN g.origin : y # x => to.val[y] = st.val[y]
    <3> HIDE DEF x, l, to
    <3> QED  BY <1>3, <2>1, <2>2, Lowered
  <2>4. ASSUME NEW c \in Blocks(g), NEW m \in DOMAIN g.phis[c]
        PROVE  to.val[g.phis[c][m].result.name] = st.val[g.phis[c][m].result.name]
    <3>1. g.phis[c][m].result.name # x /\ g.phis[c][m].result.name \in DOMAIN g.origin
      BY <1>3 DEF IsSSA, PhisApartFromQuads
    <3> HIDE DEF to, x
    <3> QED  BY <2>3, <3>1
  <2>5. ASSUME NEW c \in Blocks(g), NEW j \in DOMAIN g.code[c],
               Writes(g.code[c][j]), g.code[c][j].result.name \in DOMAIN g.origin
        PROVE  \/ to.val[g.code[c][j].result.name] = st.val[g.code[c][j].result.name]
               \/ Below(ValueGiven(st.val, g.code[c][j]), to.val[g.code[c][j].result.name])
    <3>1. CASE g.code[c][j].result.name = x
      <4>1. c = b /\ j = i
        BY <1>3, <2>5, <3>1 DEF IsSSA, QuadsNamedOnce
      <4>2. to.val[g.code[c][j].result.name] = ValueGiven(st.val, g.code[c][j])
        BY <2>3, <4>1
      <4> QED  BY <4>2, BelowItself
    <3>2. CASE g.code[c][j].result.name # x
      <4> HIDE DEF to, x
      <4> QED  BY <2>3, <2>5, <3>2
    <3> QED  BY <3>1, <3>2
  <2>6. Sound(g, to)
    <3> HIDE DEF to
    <3> QED  BY <2>3, <2>4, <2>5, OverLater
  <2>7. Modest(g, b, st, to)
    <3> SUFFICES ASSUME NEW v, NEW edges, Solves(g, v, edges), b \in ExecutableBlocks(edges), Within(v, edges, st)
                 PROVE  Within(v, edges, to)
      BY DEF Modest
    <3>1. Below(v[x], ValueGiven(v, q))
      BY <1>3 DEF Solves
    <3>2. Below(ValueGiven(v, q), l)
      BY QuadFalls DEF Within
    <3>3. DOMAIN st.val = DOMAIN g.origin /\ DOMAIN to.val = DOMAIN g.origin
      <4> HIDE DEF to
      <4> QED  BY <2>1, <2>3 DEF StateOK
    <3> HIDE DEF to, x, l, q
    <3>4. Below(v[x], to.val[x])
      BY <2>3, <3>1, <3>2, BelowAgain
    <3> QED  BY <2>3, <3>3, <3>4 DEF Within, AllBelow
  <2> QED  BY <2>3, <2>6, <2>7 DEF Goes
<1> QED  BY <1>1, <1>2, <1>3

(* One edge: it can be taken, and waits if that is new.                     *)
LEMMA EdgeGoes ==
  ASSUME NEW g, IsSSA(g), NEW st, Sound(g, st), NEW b \in Blocks(g), NEW s \in Blocks(g)
  PROVE  LET to == MarkEdge(st, b, s)
         IN  /\ Goes(g, st, to)
             /\ to.execEdge = st.execEdge \cup {<<b, s>>}
             /\ to.val = st.val
             /\ to.ssaWork = st.ssaWork
<1> DEFINE to == MarkEdge(st, b, s)
<1>1. CASE <<b, s>> \in st.execEdge
  <2>1. to = st
    BY <1>1 DEF MarkEdge
  <2> QED  BY <1>1, <2>1, LeadsNowhere DEF Goes
<1>2. CASE <<b, s>> \notin st.execEdge
  <2> DEFINE e == <<b, s>>
             f == Append(st.flowWork, e)
             m == st.execEdge \cup {e}
  <2>1. e \in Edges(g) /\ st.flowWork \in Seq(Edges(g))
    BY DEF Edges, Sound, StateOK
  <2>2. f \in Seq(Edges(g)) /\ ToSet(f) = ToSet(st.flowWork) \cup {e}
    <3> HIDE DEF e
    <3> QED  BY <2>1, AppendedHas
  <2>3. to = [val |-> st.val, execEdge |-> m, flowWork |-> f, ssaWork |-> st.ssaWork]
    BY <1>2 DEF MarkEdge, Sound, StateOK
  <2>4. to.val = st.val /\ to.execEdge = m /\ to.flowWork = f /\ to.ssaWork = st.ssaWork
    BY <2>3
  <2>5. StateOK(g, to)
    <3> HIDE DEF f, to
    <3> QED  BY <2>2, <2>3, <2>4 DEF Sound, StateOK
  <2>6. Leads(g, st, to)
    <3> HIDE DEF f, to, e
    <3> QED  BY <2>2, <2>4, BelowItself DEF Leads, AllBelow
  <2>7. Sound(g, to)
    <3> HIDE DEF to
    <3> QED  BY <2>4, <2>5, <2>6, OverLater
  <2> QED  BY <2>4, <2>6, <2>7 DEF Goes
<1> QED  BY <1>1, <1>2

-----------------------------------------------------------------------------
(* The loops of an evaluation, by induction on how far they have come.      *)

(* MarkEdges marks one edge after the other.                                *)
IsMarking(f, st, b, to, n) == f = [i \in 0 .. n |-> IF i = 0 THEN st ELSE MarkEdge(f[i - 1], b, to[i])]

LEMMA MarkingExtends ==
  ASSUME NEW st, NEW b, NEW to, NEW n \in Nat, NEW f, IsMarking(f, st, b, to, n)
  PROVE  \E h : IsMarking(h, st, b, to, n + 1)
<1> DEFINE h == [i \in 0 .. n + 1 |-> IF i = n + 1 THEN MarkEdge(f[n], b, to[i]) ELSE f[i]]
<1>1. \A i \in 0 .. n : f[i] = IF i = 0 THEN st ELSE MarkEdge(f[i - 1], b, to[i])
  BY DEF IsMarking
<1>2. \A i \in 0 .. n + 1 : h[i] = IF i = 0 THEN st ELSE MarkEdge(h[i - 1], b, to[i])
  <2> SUFFICES ASSUME NEW i \in 0 .. n + 1
               PROVE  h[i] = IF i = 0 THEN st ELSE MarkEdge(h[i - 1], b, to[i])
    OBVIOUS
  <2>1. CASE i = n + 1
    <3>1. i # 0 /\ i - 1 = n /\ h[i - 1] = f[n] /\ h[i] = MarkEdge(f[n], b, to[i])
      BY <2>1
    <3> QED  BY <3>1
  <2>2. CASE i # n + 1
    <3>1. i \in 0 .. n /\ h[i] = f[i] /\ (i # 0 => h[i - 1] = f[i - 1])
      BY <2>2
    <3> QED  BY <1>1, <3>1
  <2> QED  BY <2>1, <2>2
<1>3. IsMarking(h, st, b, to, n + 1)
  BY <1>2 DEF IsMarking
<1> QED  BY <1>3

LEMMA MarkingExists ==
  ASSUME NEW st, NEW b, NEW to, NEW L \in Nat
  PROVE  \E f : IsMarking(f, st, b, to, L)
<1> DEFINE G == {n \in Nat : \E f : IsMarking(f, st, b, to, n)}
<1>1. 0 \in G
  <2>1. IsMarking([i \in 0 .. 0 |-> st], st, b, to, 0)
    BY DEF IsMarking
  <2> QED  BY <2>1
<1>2. \A n \in 0 .. L : n \in G /\ n < L => n + 1 \in G
  BY MarkingExtends
<1>3. L \in G
  <2>1. L \in 0 .. L
    OBVIOUS
  <2> HIDE DEF G
  <2> QED  BY <1>1, <1>2, <2>1, SetInduction
<1> QED  BY <1>3

LEMMA MarksGo ==
  ASSUME NEW g, IsSSA(g), NEW st, Sound(g, st), NEW b \in Blocks(g), NEW to \in Seq(Blocks(g))
  PROVE  /\ Goes(g, st, MarkEdges(st, b, to))
         /\ MarkEdges(st, b, to).execEdge = st.execEdge \cup ({b} \X ToSet(to))
         /\ MarkEdges(st, b, to).val = st.val
         /\ MarkEdges(st, b, to).ssaWork = st.ssaWork
<1> DEFINE L == Len(to)
           f == CHOOSE h : IsMarking(h, st, b, to, L)
<1>1. L \in Nat /\ DOMAIN to = 1 .. L /\ \A i \in 1 .. L : to[i] \in Blocks(g)
  OBVIOUS
<1>2. IsMarking(f, st, b, to, L)
  <2> HIDE DEF L
  <2> QED  BY <1>1, MarkingExists
<1>3. MarkEdges(st, b, to) = f[L]
  BY DEF MarkEdges, IsMarking
<1> HIDE DEF f, L
<1>4. \A i \in 0 .. L : f[i] = IF i = 0 THEN st ELSE MarkEdge(f[i - 1], b, to[i])
  BY <1>2 DEF IsMarking
<1> DEFINE Marked(n) == f[n].execEdge = st.execEdge \cup {<<b, to[i]>> : i \in 1 .. n}
           G == {n \in 0 .. L : Goes(g, st, f[n]) /\ Marked(n) /\ f[n].val = st.val /\ f[n].ssaWork = st.ssaWork}
<1>5. 0 \in G
  <2>1. f[0] = st /\ 0 \in 0 .. L
    BY <1>1, <1>4
  <2>2. {<<b, to[i]>> : i \in 1 .. 0} = {}
    OBVIOUS
  <2> QED  BY <2>1, <2>2, LeadsNowhere DEF Goes
<1>6. ASSUME NEW n \in 0 .. L, n \in G, n < L PROVE n + 1 \in G
  <2>1. n + 1 \in 0 .. L /\ n + 1 \in 1 .. L /\ n + 1 # 0 /\ (n + 1) - 1 = n
    BY <1>1, <1>6
  <2>2. f[n + 1] = MarkEdge(f[n], b, to[n + 1]) /\ to[n + 1] \in Blocks(g)
    BY <1>1, <1>4, <2>1
  <2>3. Sound(g, f[n]) /\ Leads(g, st, f[n])
    BY <1>6 DEF Goes
  <2>4. /\ Goes(g, f[n], f[n + 1]) /\ f[n + 1].execEdge = f[n].execEdge \cup {<<b, to[n + 1]>>}
        /\ f[n + 1].val = f[n].val /\ f[n + 1].ssaWork = f[n].ssaWork
    BY <2>2, <2>3, EdgeGoes
  <2>5. Goes(g, st, f[n + 1])
    BY <2>3, <2>4, LeadsOn DEF Goes
  <2>6. Marked(n + 1)
    <3>1. 1 .. n + 1 = 1 .. n \cup {n + 1}
      BY <1>1
    <3>2. {<<b, to[i]>> : i \in 1 .. n + 1} = {<<b, to[i]>> : i \in 1 .. n} \cup {<<b, to[n + 1]>>}
      BY <3>1
    <3> QED  BY <1>6, <2>4, <3>2
  <2> QED  BY <1>6, <2>1, <2>4, <2>5, <2>6
<1>7. L \in G
  <2>1. L \in 0 .. L /\ 0 \in Nat
    BY <1>1
  <2> HIDE DEF G
  <2> QED  BY <1>1, <1>5, <1>6, <2>1, SetInduction
<1>8. {b} \X ToSet(to) = {<<b, to[i]>> : i \in 1 .. L}
  BY <1>1 DEF ToSet
<1> QED  BY <1>3, <1>7, <1>8

-----------------------------------------------------------------------------
(* A definition is fine if it waits, or if what it gives is what is known.  *)

QuadFine(g, st, b, i) ==
  LET q == g.code[b][i]
  IN  \/ QuadIn(b, i) \in ToSet(st.ssaWork)
      \/ /\ Writes(q) /\ q.result.name \in DOMAIN st.val => st.val[q.result.name] = ValueGiven(st.val, q)
         /\ i = Len(g.code[b]) => {b} \X Taken(g, st.val, b) \subseteq st.execEdge

PhisQueued(st, b) == PhisOf(b) \in ToSet(st.ssaWork) \/ \E e \in ToSet(st.flowWork) : e[2] = b

PhiFine(g, st, b, k) ==
  \/ PhisQueued(st, b)
  \/ st.val[g.phis[b][k].result.name] = PhiGiven(g, st.val, st.execEdge, b, g.phis[b][k])

(* What the same is known of gives the same.                                *)
LEMMA SameOperand ==
  ASSUME NEW v, NEW w, DOMAIN w = DOMAIN v, NEW o,
         IsNameOperand(o) /\ o.name \in DOMAIN v => w[o.name] = v[o.name]
  PROVE  LatticeOf(w, o) = LatticeOf(v, o)
  BY DEF LatticeOf

LEMMA SameReads ==
  ASSUME NEW v, NEW w, DOMAIN w = DOMAIN v, NEW q, \A x \in ReadNames(q) \cap DOMAIN v : w[x] = v[x],
         NEW f \in UseFields(q.op)
  PROVE  LatticeOf(w, q[f]) = LatticeOf(v, q[f])
<1>1. IsNameOperand(q[f]) => q[f].name \in ReadNames(q)
  BY DEF ReadNames, ReadsOf, ReadSlots
<1> QED  BY <1>1, SameOperand

LEMMA SameValue ==
  ASSUME NEW v, NEW w, DOMAIN w = DOMAIN v, NEW q, \A x \in ReadNames(q) \cap DOMAIN v : w[x] = v[x]
  PROVE  ValueGiven(w, q) = ValueGiven(v, q)
<1>1. CASE q.op \in {"COPY"} \cup UnaryExprOps
  <2>1. "arg1" \in UseFields(q.op)
    BY <1>1 DEF UseFields, UnaryExprOps
  <2>2. LatticeOf(w, q["arg1"]) = LatticeOf(v, q["arg1"])
    BY <2>1, SameReads
  <2> QED  BY <1>1, <2>2 DEF ValueGiven, UnaryExprOps, BinaryExprOps, Comparisons, TrappingOps
<1>2. CASE q.op \in BinaryExprOps
  <2>1. "arg1" \in UseFields(q.op) /\ "arg2" \in UseFields(q.op)
    BY <1>2 DEF UseFields, UnaryExprOps, BinaryExprOps, Comparisons, TrappingOps
  <2>2. LatticeOf(w, q["arg1"]) = LatticeOf(v, q["arg1"]) /\ LatticeOf(w, q["arg2"]) = LatticeOf(v, q["arg2"])
    BY <2>1, SameReads
  <2> QED  BY <1>2, <2>2 DEF ValueGiven, UnaryExprOps, BinaryExprOps, Comparisons, TrappingOps
<1>3. CASE q.op \notin {"COPY"} \cup UnaryExprOps \cup BinaryExprOps
  BY <1>3 DEF ValueGiven, UnaryExprOps, BinaryExprOps, Comparisons, TrappingOps
<1> QED  BY <1>1, <1>2, <1>3

(* The ways out of a block depend on its last quad.                         *)
LEMMA LastQuad ==
  ASSUME NEW g, IsSSA(g), NEW b \in Blocks(g), NEW i \in DOMAIN g.code[b], i = Len(g.code[b])
  PROVE  Last(g.code[b]) = g.code[b][i] /\ Terminator(g.code[b]) = g.code[b][i].op
<1>1. g.code[b] # <<>>
  BY DEF IsSSA
<1> QED  BY <1>1 DEF Last, Terminator

LEMMA SameWays ==
  ASSUME NEW g, IsSSA(g), NEW b \in Blocks(g), NEW i \in DOMAIN g.code[b], i = Len(g.code[b]),
         NEW v, NEW w, DOMAIN w = DOMAIN v, \A x \in ReadNames(g.code[b][i]) \cap DOMAIN v : w[x] = v[x]
  PROVE  Taken(g, w, b) = Taken(g, v, b)
<1> DEFINE q == g.code[b][i]
<1>1. Last(g.code[b]) = q /\ Terminator(g.code[b]) = q.op
  BY LastQuad
<1>2. CASE q.op = "IF_FALSE"
  <2>1. "arg1" \in UseFields(q.op)
    BY <1>2 DEF UseFields
  <2>2. LatticeOf(w, q["arg1"]) = LatticeOf(v, q["arg1"])
    <3> HIDE DEF q
    <3> QED  BY <2>1, SameReads DEF q
  <2> HIDE DEF q
  <2> QED  BY <1>1, <2>2 DEF Taken, Ways
<1>3. CASE q.op # "IF_FALSE"
  <2> HIDE DEF q
  <2> QED  BY <1>1, <1>3 DEF Taken, Ways
<1> QED  BY <1>2, <1>3

(* What a quad reads that has fallen has queued it.                         *)
LEMMA ReadsStand ==
  ASSUME NEW g, IsSSA(g), NEW st, NEW to, Leads(g, st, to), NEW b \in Blocks(g), NEW i \in DOMAIN g.code[b],
         QuadIn(b, i) \notin ToSet(to.ssaWork)
  PROVE  DOMAIN to.val = DOMAIN st.val /\ \A x \in ReadNames(g.code[b][i]) \cap DOMAIN st.val : to.val[x] = st.val[x]
<1>1. ASSUME NEW x \in ReadNames(g.code[b][i]), x \in DOMAIN st.val, to.val[x] # st.val[x] PROVE FALSE
  <2>1. QuadIn(b, i) \in ToSet(UsesOf(g, x))
    BY UsesHave
  <2> QED  BY <1>1, <2>1 DEF Leads
<1> QED  BY <1>1 DEF Leads, AllBelow

(* A quad that is fine stays fine, wherever the work leads.                 *)
LEMMA QuadStays ==
  ASSUME NEW g, IsSSA(g), NEW st, Sound(g, st), NEW to, Goes(g, st, to),
         NEW b \in Blocks(g), NEW i \in DOMAIN g.code[b], QuadFine(g, st, b, i)
  PROVE  QuadFine(g, to, b, i)
<1> DEFINE q == g.code[b][i]
<1> SUFFICES ASSUME QuadIn(b, i) \notin ToSet(to.ssaWork) PROVE QuadFine(g, to, b, i)
  BY DEF QuadFine
<1>1. Leads(g, st, to) /\ Sound(g, to) /\ AllBelow(to.val, st.val) /\ st.execEdge \subseteq to.execEdge
  BY DEF Goes, Leads
<1>2. DOMAIN to.val = DOMAIN st.val /\ \A x \in ReadNames(q) \cap DOMAIN st.val : to.val[x] = st.val[x]
  BY <1>1, ReadsStand
<1>3. ValueGiven(to.val, q) = ValueGiven(st.val, q)
  <2> HIDE DEF q
  <2> QED  BY <1>2, SameValue
<1>4. QuadIn(b, i) \notin ToSet(st.ssaWork)
  BY <1>1 DEF Leads
<1>5. /\ Writes(q) /\ q.result.name \in DOMAIN st.val => st.val[q.result.name] = ValueGiven(st.val, q)
      /\ i = Len(g.code[b]) => {b} \X Taken(g, st.val, b) \subseteq st.execEdge
  BY <1>4 DEF QuadFine
<1>6. i = Len(g.code[b]) => Taken(g, to.val, b) = Taken(g, st.val, b)
  BY <1>2, SameWays
<1>7. ASSUME Writes(q), q.result.name \in DOMAIN to.val PROVE to.val[q.result.name] = ValueGiven(to.val, q)
  <2>1. Below(to.val[q.result.name], ValueGiven(to.val, q))
    BY <1>1, <1>2, <1>3, <1>5, <1>7 DEF AllBelow
  <2>2. Below(ValueGiven(to.val, q), to.val[q.result.name])
    <3>1. DOMAIN to.val = DOMAIN g.origin
      BY <1>1 DEF Sound, StateOK
    <3> QED  BY <1>1, <1>7, <3>1 DEF Sound, QuadsOver
  <2> QED  BY <2>1, <2>2, BelowBoth
<1> HIDE DEF q
<1> QED  BY <1>1, <1>5, <1>6, <1>7 DEF QuadFine, q

(* What a phi gives stands as long as it does not wait: a new edge into its *)
(* block would wait to be followed, a fallen argument would have queued it. *)
LEMMA PhiReads ==
  ASSUME NEW g, IsSSA(g), NEW st, NEW to, Leads(g, st, to),
         NEW b \in Blocks(g), NEW k \in DOMAIN g.phis[b], ~PhisQueued(to, b)
  PROVE  PhiGiven(g, to.val, to.execEdge, b, g.phis[b][k]) = PhiGiven(g, st.val, st.execEdge, b, g.phis[b][k])
<1> DEFINE phi == g.phis[b][k]
<1>1. DOMAIN to.val = DOMAIN st.val
  BY DEF Leads, AllBelow
<1>2. ASSUME NEW j \in DOMAIN phi.args PROVE LatticeOf(to.val, phi.args[j]) = LatticeOf(st.val, phi.args[j])
  <2> DEFINE o == phi.args[j]
  <2>1. ASSUME IsNameOperand(o), o.name \in DOMAIN st.val, to.val[o.name] # st.val[o.name] PROVE FALSE
    <3>1. phi \in ToSet(g.phis[b]) /\ o.name \in NamesIn(ToSet(phi.args))
      BY <2>1 DEF ToSet, NamesIn
    <3>2. PhisOf(b) \in ToSet(UsesOf(g, o.name))
      BY <3>1, UsesHave
    <3> QED  BY <2>1, <3>2 DEF Leads, PhisQueued
  <2> HIDE DEF o
  <2> QED  BY <1>1, <2>1, SameOperand DEF o
<1>3. ASSUME NEW p PROVE <<p, b>> \in to.execEdge <=> <<p, b>> \in st.execEdge
  BY DEF Leads, PhisQueued
<1>4. {i \in DOMAIN phi.args : <<g.preds[b][i], b>> \in to.execEdge}
        = {i \in DOMAIN phi.args : <<g.preds[b][i], b>> \in st.execEdge}
  BY <1>3
<1>5. {LatticeOf(to.val, phi.args[j]) : j \in {i \in DOMAIN phi.args : <<g.preds[b][i], b>> \in to.execEdge}}
        = {LatticeOf(st.val, phi.args[j]) : j \in {i \in DOMAIN phi.args : <<g.preds[b][i], b>> \in st.execEdge}}
  BY <1>2, <1>4
<1> QED  BY <1>5 DEF PhiGiven

(* So a phi that is fine stays fine.                                        *)
LEMMA PhiStays ==
  ASSUME NEW g, IsSSA(g), NEW st, Sound(g, st), NEW to, Goes(g, st, to),
         NEW b \in Blocks(g), NEW k \in DOMAIN g.phis[b], PhiFine(g, st, b, k)
  PROVE  PhiFine(g, to, b, k)
<1> DEFINE phi == g.phis[b][k]
           x   == phi.result.name
<1> SUFFICES ASSUME ~PhisQueued(to, b) PROVE PhiFine(g, to, b, k)
  BY DEF PhiFine
<1>1. Leads(g, st, to) /\ Sound(g, to) /\ AllBelow(to.val, st.val)
  BY DEF Goes, Leads
<1>2. st.val[x] = PhiGiven(g, st.val, st.execEdge, b, phi)
  <2>1. ~PhisQueued(st, b)
    BY <1>1 DEF PhisQueued, Leads
  <2> QED  BY <2>1 DEF PhiFine
<1>3. PhiGiven(g, to.val, to.execEdge, b, phi) = PhiGiven(g, st.val, st.execEdge, b, phi)
  BY <1>1, PhiReads
<1>4. Below(PhiGiven(g, to.val, to.execEdge, b, phi), to.val[x])
  BY <1>1 DEF Sound, PhisOver
<1>5. Below(to.val[x], PhiGiven(g, to.val, to.execEdge, b, phi))
  <2>1. x \in DOMAIN st.val
    BY DEF IsSSA, Sound, StateOK
  <2> QED  BY <1>1, <1>2, <1>3, <2>1 DEF AllBelow
<1> QED  BY <1>4, <1>5, BelowBoth DEF PhiFine

-----------------------------------------------------------------------------
(* What has been evaluated is fine.                                         *)

LEMMA WaysKnown ==
  ASSUME NEW g, IsSSA(g), NEW v, NEW b \in Blocks(g)
  PROVE  Ways(g, v, b) \in Seq(Blocks(g))
<1>1. g.succs[b] \in Seq(Blocks(g))
  BY DEF IsSSA
<1>2. g.succs[b] # <<>> => Head(g.succs[b]) \in Blocks(g) /\ Last(g.succs[b]) \in Blocks(g)
  BY <1>1 DEF Last
<1> HIDE DEF Blocks
<1> QED  BY <1>1, <1>2 DEF Ways

(* The less is known, the more ways are open.                               *)
LEMMA WaysOpen ==
  ASSUME NEW g, IsSSA(g), NEW lower, NEW upper, AllBelow(lower, upper), NEW b \in Blocks(g)
  PROVE  Taken(g, upper, b) \subseteq Taken(g, lower, b)
<1> DEFINE succs == g.succs[b]
           c == LatticeOf(lower, Last(g.code[b]).arg1)
           d == LatticeOf(upper, Last(g.code[b]).arg1)
<1>1. Below(c, d)
  BY OperandFalls
<1>2. succs \in Seq(Blocks(g))
  BY DEF IsSSA
<1>3. ToSet(<<>>) = {}
  BY DEF ToSet
<1>4. ASSUME succs # <<>> PROVE ToSet(<<Head(succs)>>) \cup ToSet(<<Last(succs)>>) \subseteq ToSet(succs)
  <2>1. Len(succs) \in Nat /\ DOMAIN succs = 1 .. Len(succs) /\ Len(succs) >= 1
    BY <1>2, <1>4
  <2>2. Head(succs) = succs[1] /\ Last(succs) = succs[Len(succs)]
    BY <1>2, <1>4 DEF Last
  <2>3. 1 \in DOMAIN succs /\ Len(succs) \in DOMAIN succs
    BY <2>1
  <2>4. \A x : ToSet(<<x>>) = {x}
    BY DEF ToSet
  <2> QED  BY <2>2, <2>3, <2>4 DEF ToSet
<1>5. Taken(g, upper, b) =
        IF Terminator(g.code[b]) = "RET" THEN {}
        ELSE IF Terminator(g.code[b]) # "IF_FALSE" \/ d = LatBottom THEN ToSet(succs)
        ELSE IF d = LatTop \/ succs = <<>> THEN {}
        ELSE IF d.ival = 0 THEN ToSet(<<Head(succs)>>) ELSE ToSet(<<Last(succs)>>)
  BY <1>3 DEF Taken, Ways
<1>6. Taken(g, lower, b) =
        IF Terminator(g.code[b]) = "RET" THEN {}
        ELSE IF Terminator(g.code[b]) # "IF_FALSE" \/ c = LatBottom THEN ToSet(succs)
        ELSE IF c = LatTop \/ succs = <<>> THEN {}
        ELSE IF c.ival = 0 THEN ToSet(<<Head(succs)>>) ELSE ToSet(<<Last(succs)>>)
  BY <1>3 DEF Taken, Ways
<1> HIDE DEF succs, c, d
<1> QED  BY <1>1, <1>4, <1>5, <1>6, Levels DEF Below

(* So the ways that are marked are open in a solution too.                  *)
LEMMA MarksModest ==
  ASSUME NEW g, IsSSA(g), NEW st, Sound(g, st), NEW b \in Blocks(g), NEW to \in Seq(Blocks(g)),
         ToSet(to) \subseteq Taken(g, st.val, b)
  PROVE  Modest(g, b, st, MarkEdges(st, b, to))
<1>1. MarkEdges(st, b, to).execEdge = st.execEdge \cup ({b} \X ToSet(to)) /\ MarkEdges(st, b, to).val = st.val
  BY MarksGo
<1> SUFFICES ASSUME NEW v, NEW edges, Solves(g, v, edges), b \in ExecutableBlocks(edges), Within(v, edges, st)
             PROVE  Within(v, edges, MarkEdges(st, b, to))
  BY DEF Modest
<1>2. Taken(g, st.val, b) \subseteq Taken(g, v, b)
  BY WaysOpen DEF Within
<1>3. {b} \X Taken(g, v, b) \subseteq edges
  BY DEF Solves
<1>4. {b} \X ToSet(to) \subseteq edges
  BY <1>2, <1>3
<1> QED  BY <1>1, <1>4 DEF Within

LEMMA QuadEvaluated ==
  ASSUME NEW g, IsSSA(g), NEW st, Sound(g, st), NEW b \in Blocks(g), NEW i \in DOMAIN g.code[b]
  PROVE  /\ Goes(g, st, EvalQuad(g, st, b, i)) /\ QuadFine(g, EvalQuad(g, st, b, i), b, i)
         /\ Modest(g, b, st, EvalQuad(g, st, b, i))
<1> DEFINE q  == g.code[b][i]
           to == EvalQuad(g, st, b, i)
<1>1. CASE q.op = "IF_FALSE"
  <2>1. to = MarkEdges(st, b, Ways(g, st.val, b))
    BY <1>1 DEF EvalQuad, EvalBranch
  <2>2. /\ Goes(g, st, to) /\ to.val = st.val
        /\ {b} \X ToSet(Ways(g, st.val, b)) \subseteq to.execEdge
    <3> HIDE DEF to
    <3> QED  BY <2>1, WaysKnown, MarksGo
  <2>3. ~Writes(q)
    BY <1>1 DEF Writes
  <2>4. Modest(g, b, st, to)
    <3> HIDE DEF to
    <3> QED  BY <2>1, WaysKnown, MarksModest DEF Taken
  <2> HIDE DEF to, q
  <2> QED  BY <2>2, <2>3, <2>4 DEF QuadFine, Taken, to, q
<1>2. CASE q.op # "IF_FALSE"
  <2> DEFINE mid == IF i = Len(g.code[b]) /\ q.op # "RET" THEN MarkEdges(st, b, g.succs[b]) ELSE st
  <2>1. to = EvalValue(g, mid, q)
    BY <1>2 DEF EvalQuad
  <2>2. /\ Goes(g, st, mid)
        /\ i = Len(g.code[b]) /\ q.op # "RET" => {b} \X ToSet(g.succs[b]) \subseteq mid.execEdge
        /\ Modest(g, b, st, mid)
    <3>1. g.succs[b] \in Seq(Blocks(g))
      BY DEF IsSSA
    <3>2. CASE i = Len(g.code[b]) /\ q.op # "RET"
      <4>1. mid = MarkEdges(st, b, g.succs[b])
        BY <3>2
      <4>2. Terminator(g.code[b]) = q.op
        BY <3>2, LastQuad
      <4>3. ToSet(g.succs[b]) \subseteq Taken(g, st.val, b)
        <5> HIDE DEF q
        <5> QED  BY <1>2, <3>2, <4>2 DEF Taken, Ways
      <4> HIDE DEF mid
      <4> QED  BY <3>1, <3>2, <4>1, <4>3, MarksGo, MarksModest
    <3>3. CASE ~(i = Len(g.code[b]) /\ q.op # "RET")
      <4>1. mid = st
        BY <3>3
      <4> HIDE DEF mid, q
      <4> QED  BY <3>3, <4>1, LeadsNowhere, ModestNowhere DEF Goes
    <3> QED  BY <3>2, <3>3
  <2> HIDE DEF mid
  <2>3. Sound(g, mid) /\ Leads(g, st, mid)
    BY <2>2 DEF Goes
  <2>4. /\ Goes(g, mid, to) /\ to.execEdge = mid.execEdge /\ Modest(g, b, mid, to)
        /\ Writes(q) /\ q.result.name \in DOMAIN g.origin => to.val[q.result.name] = ValueGiven(mid.val, q)
    BY <2>1, <2>3, ValueGoes
  <2> HIDE DEF to
  <2>5. Goes(g, st, to)
    BY <2>3, <2>4, LeadsOn DEF Goes
  <2>6. ASSUME QuadIn(b, i) \notin ToSet(to.ssaWork) PROVE QuadFine(g, to, b, i)
    <3>1. DOMAIN to.val = DOMAIN mid.val /\ \A x \in ReadNames(q) \cap DOMAIN mid.val : to.val[x] = mid.val[x]
      BY <2>4, <2>6, ReadsStand DEF Goes
    <3>2. ValueGiven(to.val, q) = ValueGiven(mid.val, q)
      <4> HIDE DEF q
      <4> QED  BY <3>1, SameValue
    <3>3. DOMAIN to.val = DOMAIN g.origin
      BY <2>4 DEF Goes, Sound, StateOK
    <3>4. ASSUME i = Len(g.code[b]) PROVE {b} \X Taken(g, to.val, b) \subseteq to.execEdge
      <4>1. Terminator(g.code[b]) = q.op
        BY <3>4, LastQuad
      <4>2. Taken(g, to.val, b) = IF q.op = "RET" THEN {} ELSE ToSet(g.succs[b])
        <5>1. ToSet(<<>>) = {}
          BY DEF ToSet
        <5> HIDE DEF q
        <5> QED  BY <1>2, <4>1, <5>1 DEF Taken, Ways
      <4> HIDE DEF q
      <4> QED  BY <2>2, <2>4, <3>4, <4>2
    <3> HIDE DEF q
    <3> QED  BY <2>4, <3>2, <3>3, <3>4 DEF QuadFine, q
  <2>7. QuadIn(b, i) \in ToSet(to.ssaWork) => QuadFine(g, to, b, i)
    BY DEF QuadFine
  <2>8. Modest(g, b, st, to)
    BY <2>2, <2>4, ModestOn
  <2> QED  BY <2>5, <2>6, <2>7, <2>8 DEF to
<1> QED  BY <1>1, <1>2

(* EvalPhis evaluates one phi after the other.                              *)
IsPhiRun(f, g, st, b, n) == f = [i \in 0 .. n |-> IF i = 0 THEN st ELSE EvalPhi(g, f[i - 1], b, g.phis[b][i])]

LEMMA PhiRunExtends ==
  ASSUME NEW g, NEW st, NEW b, NEW n \in Nat, NEW f, IsPhiRun(f, g, st, b, n)
  PROVE  \E h : IsPhiRun(h, g, st, b, n + 1)
<1> DEFINE h == [i \in 0 .. n + 1 |-> IF i = n + 1 THEN EvalPhi(g, f[n], b, g.phis[b][i]) ELSE f[i]]
<1>1. \A i \in 0 .. n : f[i] = IF i = 0 THEN st ELSE EvalPhi(g, f[i - 1], b, g.phis[b][i])
  BY DEF IsPhiRun
<1>2. \A i \in 0 .. n + 1 : h[i] = IF i = 0 THEN st ELSE EvalPhi(g, h[i - 1], b, g.phis[b][i])
  <2> SUFFICES ASSUME NEW i \in 0 .. n + 1
               PROVE  h[i] = IF i = 0 THEN st ELSE EvalPhi(g, h[i - 1], b, g.phis[b][i])
    OBVIOUS
  <2>1. CASE i = n + 1
    <3>1. i # 0 /\ i - 1 = n /\ h[i - 1] = f[n] /\ h[i] = EvalPhi(g, f[n], b, g.phis[b][i])
      BY <2>1
    <3> QED  BY <3>1
  <2>2. CASE i # n + 1
    <3>1. i \in 0 .. n /\ h[i] = f[i] /\ (i # 0 => h[i - 1] = f[i - 1])
      BY <2>2
    <3> QED  BY <1>1, <3>1
  <2> QED  BY <2>1, <2>2
<1>3. IsPhiRun(h, g, st, b, n + 1)
  BY <1>2 DEF IsPhiRun
<1> QED  BY <1>3

LEMMA PhiRunExists ==
  ASSUME NEW g, NEW st, NEW b, NEW L \in Nat
  PROVE  \E f : IsPhiRun(f, g, st, b, L)
<1> DEFINE G == {n \in Nat : \E f : IsPhiRun(f, g, st, b, n)}
<1>1. 0 \in G
  <2>1. IsPhiRun([i \in 0 .. 0 |-> st], g, st, b, 0)
    BY DEF IsPhiRun
  <2> QED  BY <2>1
<1>2. \A n \in 0 .. L : n \in G /\ n < L => n + 1 \in G
  BY PhiRunExtends
<1>3. L \in G
  <2>1. L \in 0 .. L
    OBVIOUS
  <2> HIDE DEF G
  <2> QED  BY <1>1, <1>2, <2>1, SetInduction
<1> QED  BY <1>3

(* A phi that has just been evaluated is fine: what it reads has not moved, *)
(* or has queued it.                                                        *)
LEMMA PhiFresh ==
  ASSUME NEW g, IsSSA(g), NEW st, Sound(g, st), NEW to, Goes(g, st, to), NEW b \in Blocks(g),
         NEW k \in DOMAIN g.phis[b], to.execEdge = st.execEdge,
         to.val[g.phis[b][k].result.name] = PhiGiven(g, st.val, st.execEdge, b, g.phis[b][k])
  PROVE  PhiFine(g, to, b, k)
<1> SUFFICES ASSUME ~PhisQueued(to, b) PROVE PhiFine(g, to, b, k)
  BY DEF PhiFine
<1>1. PhiGiven(g, to.val, to.execEdge, b, g.phis[b][k]) = PhiGiven(g, st.val, st.execEdge, b, g.phis[b][k])
  BY PhiReads DEF Goes
<1> QED  BY <1>1 DEF PhiFine

LEMMA PhisEvaluated ==
  ASSUME NEW g, IsSSA(g), NEW st, Sound(g, st), NEW b \in Blocks(g)
  PROVE  /\ Goes(g, st, EvalPhis(g, st, b))
         /\ \A k \in DOMAIN g.phis[b] : PhiFine(g, EvalPhis(g, st, b), b, k)
         /\ Modest(g, b, st, EvalPhis(g, st, b))
<1> DEFINE L == Len(g.phis[b])
           f == CHOOSE h : IsPhiRun(h, g, st, b, L)
<1>1. L \in Nat /\ DOMAIN g.phis[b] = 1 .. L
  BY DEF IsSSA
<1>2. IsPhiRun(f, g, st, b, L)
  <2> HIDE DEF L
  <2> QED  BY <1>1, PhiRunExists
<1>3. EvalPhis(g, st, b) = f[L]
  BY DEF EvalPhis, IsPhiRun
<1> HIDE DEF f, L
<1>4. \A i \in 0 .. L : f[i] = IF i = 0 THEN st ELSE EvalPhi(g, f[i - 1], b, g.phis[b][i])
  BY <1>2 DEF IsPhiRun
<1> DEFINE Done(n) == \A k \in 1 .. n : PhiFine(g, f[n], b, k)
           G == {n \in 0 .. L : Goes(g, st, f[n]) /\ Done(n) /\ Modest(g, b, st, f[n])}
<1>5. 0 \in G
  <2>1. f[0] = st /\ 0 \in 0 .. L
    BY <1>1, <1>4
  <2> QED  BY <2>1, LeadsNowhere, ModestNowhere DEF Goes
<1>6. ASSUME NEW n \in 0 .. L, n \in G, n < L PROVE n + 1 \in G
  <2>1. n + 1 \in 0 .. L /\ n + 1 \in DOMAIN g.phis[b] /\ n + 1 # 0 /\ (n + 1) - 1 = n
    BY <1>1, <1>6
  <2>2. f[n + 1] = EvalPhi(g, f[n], b, g.phis[b][n + 1])
    BY <1>4, <2>1
  <2>3. Sound(g, f[n]) /\ Leads(g, st, f[n])
    BY <1>6 DEF Goes
  <2>4. Goes(g, f[n], f[n + 1]) /\ PhiFine(g, f[n + 1], b, n + 1) /\ Modest(g, b, f[n], f[n + 1])
    <3>1. LET phi == g.phis[b][n + 1]
          IN  /\ Goes(g, f[n], f[n + 1])
              /\ f[n + 1].val[phi.result.name] = PhiGiven(g, f[n].val, f[n].execEdge, b, phi)
              /\ f[n + 1].execEdge = f[n].execEdge
              /\ Modest(g, b, f[n], f[n + 1])
      BY <2>1, <2>2, <2>3, PhiGoes
    <3> QED  BY <2>1, <2>3, <3>1, PhiFresh DEF Goes
  <2>5. Goes(g, st, f[n + 1])
    BY <2>3, <2>4, LeadsOn DEF Goes
  <2>6. Done(n + 1)
    <3> SUFFICES ASSUME NEW k \in 1 .. n + 1 PROVE PhiFine(g, f[n + 1], b, k)
      OBVIOUS
    <3>1. CASE k = n + 1
      BY <2>4, <3>1
    <3>2. CASE k # n + 1
      <4>1. k \in 1 .. n /\ k \in DOMAIN g.phis[b]
        BY <1>1, <1>6, <3>2
      <4>2. PhiFine(g, f[n], b, k)
        BY <1>6, <4>1
      <4> QED  BY <2>3, <2>4, <4>1, <4>2, PhiStays
    <3> QED  BY <3>1, <3>2
  <2>7. Modest(g, b, st, f[n + 1])
    BY <1>6, <2>4, ModestOn
  <2> QED  BY <2>1, <2>5, <2>6, <2>7
<1>7. L \in G
  <2>1. L \in 0 .. L /\ 0 \in Nat
    BY <1>1
  <2> HIDE DEF G
  <2> QED  BY <1>1, <1>5, <1>6, <2>1, SetInduction
<1> QED  BY <1>1, <1>3, <1>7

(* EvalBlock evaluates one quad after the other.                            *)
IsQuadRun(f, g, st, b, n) == f = [i \in 0 .. n |-> IF i = 0 THEN st ELSE EvalQuad(g, f[i - 1], b, i)]

LEMMA QuadRunExtends ==
  ASSUME NEW g, NEW st, NEW b, NEW n \in Nat, NEW f, IsQuadRun(f, g, st, b, n)
  PROVE  \E h : IsQuadRun(h, g, st, b, n + 1)
<1> DEFINE h == [i \in 0 .. n + 1 |-> IF i = n + 1 THEN EvalQuad(g, f[n], b, i) ELSE f[i]]
<1>1. \A i \in 0 .. n : f[i] = IF i = 0 THEN st ELSE EvalQuad(g, f[i - 1], b, i)
  BY DEF IsQuadRun
<1>2. \A i \in 0 .. n + 1 : h[i] = IF i = 0 THEN st ELSE EvalQuad(g, h[i - 1], b, i)
  <2> SUFFICES ASSUME NEW i \in 0 .. n + 1
               PROVE  h[i] = IF i = 0 THEN st ELSE EvalQuad(g, h[i - 1], b, i)
    OBVIOUS
  <2>1. CASE i = n + 1
    <3>1. i # 0 /\ i - 1 = n /\ h[i - 1] = f[n] /\ h[i] = EvalQuad(g, f[n], b, i)
      BY <2>1
    <3> QED  BY <3>1
  <2>2. CASE i # n + 1
    <3>1. i \in 0 .. n /\ h[i] = f[i] /\ (i # 0 => h[i - 1] = f[i - 1])
      BY <2>2
    <3> QED  BY <1>1, <3>1
  <2> QED  BY <2>1, <2>2
<1>3. IsQuadRun(h, g, st, b, n + 1)
  BY <1>2 DEF IsQuadRun
<1> QED  BY <1>3

LEMMA QuadRunExists ==
  ASSUME NEW g, NEW st, NEW b, NEW L \in Nat
  PROVE  \E f : IsQuadRun(f, g, st, b, L)
<1> DEFINE G == {n \in Nat : \E f : IsQuadRun(f, g, st, b, n)}
<1>1. 0 \in G
  <2>1. IsQuadRun([i \in 0 .. 0 |-> st], g, st, b, 0)
    BY DEF IsQuadRun
  <2> QED  BY <2>1
<1>2. \A n \in 0 .. L : n \in G /\ n < L => n + 1 \in G
  BY QuadRunExtends
<1>3. L \in G
  <2>1. L \in 0 .. L
    OBVIOUS
  <2> HIDE DEF G
  <2> QED  BY <1>1, <1>2, <2>1, SetInduction
<1> QED  BY <1>3

LEMMA BlockEvaluated ==
  ASSUME NEW g, IsSSA(g), NEW st, Sound(g, st), NEW b \in Blocks(g)
  PROVE  /\ Goes(g, st, EvalBlock(g, st, b))
         /\ \A k \in DOMAIN g.code[b] : QuadFine(g, EvalBlock(g, st, b), b, k)
         /\ Modest(g, b, st, EvalBlock(g, st, b))
         /\ g.code[b] = <<>> => {b} \X ToSet(g.succs[b]) \subseteq EvalBlock(g, st, b).execEdge
<1>0. CASE g.code[b] = <<>>
  <2>1. EvalBlock(g, st, b) = MarkEdges(st, b, g.succs[b]) /\ g.succs[b] \in Seq(Blocks(g))
    BY <1>0 DEF EvalBlock, IsSSA
  <2>2. ToSet(g.succs[b]) \subseteq Taken(g, st.val, b)
    BY <1>0 DEF Taken, Ways, Terminator
  <2>3. /\ Goes(g, st, EvalBlock(g, st, b)) /\ Modest(g, b, st, EvalBlock(g, st, b))
        /\ {b} \X ToSet(g.succs[b]) \subseteq EvalBlock(g, st, b).execEdge
    BY <2>1, <2>2, MarksGo, MarksModest
  <2> QED  BY <1>0, <2>3
<1> SUFFICES ASSUME g.code[b] # <<>>
             PROVE  /\ Goes(g, st, EvalBlock(g, st, b))
                    /\ \A k \in DOMAIN g.code[b] : QuadFine(g, EvalBlock(g, st, b), b, k)
                    /\ Modest(g, b, st, EvalBlock(g, st, b))
  BY <1>0
<1> DEFINE L == Len(g.code[b])
           f == CHOOSE h : IsQuadRun(h, g, st, b, L)
<1>1. L \in Nat /\ DOMAIN g.code[b] = 1 .. L
  BY DEF IsSSA
<1>2. IsQuadRun(f, g, st, b, L)
  <2> HIDE DEF L
  <2> QED  BY <1>1, QuadRunExists
<1>3. EvalBlock(g, st, b) = f[L]
  BY DEF EvalBlock, IsQuadRun
<1> HIDE DEF f, L
<1>4. \A i \in 0 .. L : f[i] = IF i = 0 THEN st ELSE EvalQuad(g, f[i - 1], b, i)
  BY <1>2 DEF IsQuadRun
<1> DEFINE Done(n) == \A k \in 1 .. n : QuadFine(g, f[n], b, k)
           G == {n \in 0 .. L : Goes(g, st, f[n]) /\ Done(n) /\ Modest(g, b, st, f[n])}
<1>5. 0 \in G
  <2>1. f[0] = st /\ 0 \in 0 .. L
    BY <1>1, <1>4
  <2> QED  BY <2>1, LeadsNowhere, ModestNowhere DEF Goes
<1>6. ASSUME NEW n \in 0 .. L, n \in G, n < L PROVE n + 1 \in G
  <2>1. n + 1 \in 0 .. L /\ n + 1 \in DOMAIN g.code[b] /\ n + 1 # 0 /\ (n + 1) - 1 = n
    BY <1>1, <1>6
  <2>2. f[n + 1] = EvalQuad(g, f[n], b, n + 1)
    BY <1>4, <2>1
  <2>3. Sound(g, f[n]) /\ Leads(g, st, f[n])
    BY <1>6 DEF Goes
  <2>4. Goes(g, f[n], f[n + 1]) /\ QuadFine(g, f[n + 1], b, n + 1) /\ Modest(g, b, f[n], f[n + 1])
    BY <2>1, <2>2, <2>3, QuadEvaluated
  <2>5. Goes(g, st, f[n + 1])
    BY <2>3, <2>4, LeadsOn DEF Goes
  <2>6. Done(n + 1)
    <3> SUFFICES ASSUME NEW k \in 1 .. n + 1 PROVE QuadFine(g, f[n + 1], b, k)
      OBVIOUS
    <3>1. CASE k = n + 1
      BY <2>4, <3>1
    <3>2. CASE k # n + 1
      <4>1. k \in 1 .. n /\ k \in DOMAIN g.code[b]
        BY <1>1, <1>6, <3>2
      <4>2. QuadFine(g, f[n], b, k)
        BY <1>6, <4>1
      <4> QED  BY <2>3, <2>4, <4>1, <4>2, QuadStays
    <3> QED  BY <3>1, <3>2
  <2>7. Modest(g, b, st, f[n + 1])
    BY <1>6, <2>4, ModestOn
  <2> QED  BY <2>1, <2>5, <2>6, <2>7
<1>7. L \in G
  <2>1. L \in 0 .. L /\ 0 \in Nat
    BY <1>1
  <2> HIDE DEF G
  <2> QED  BY <1>1, <1>5, <1>6, <2>1, SetInduction
<1> QED  BY <1>1, <1>3, <1>7

-----------------------------------------------------------------------------
(* The steps of the two loops.                                              *)

AllFine(g, st, ran) ==
  \A b \in ran : /\ \A i \in DOMAIN g.code[b] : QuadFine(g, st, b, i)
                 /\ \A k \in DOMAIN g.phis[b] : PhiFine(g, st, b, k)

With(st, flow, uses) == [val |-> st.val, execEdge |-> st.execEdge, flowWork |-> flow, ssaWork |-> uses]

LEMMA StaysSound ==
  ASSUME NEW g, NEW st, Sound(g, st), NEW flow \in Seq(Edges(g)), NEW uses \in Seq(UseSites(g))
  PROVE  Sound(g, With(st, flow, uses))
<1> DEFINE w == With(st, flow, uses)
<1>1. w.val = st.val /\ w.execEdge = st.execEdge /\ w.flowWork = flow /\ w.ssaWork = uses
  BY DEF With
<1>2. w = [val |-> w.val, execEdge |-> w.execEdge, flowWork |-> w.flowWork, ssaWork |-> w.ssaWork]
  BY <1>1 DEF With
<1> HIDE DEF w
<1> QED  BY <1>1, <1>2 DEF Sound, StateOK, PhisOver, QuadsOver, w

(* What is fine stays so where the work leads.                              *)
LEMMA AllStay ==
  ASSUME NEW g, IsSSA(g), NEW ran \in SUBSET Blocks(g), NEW st, Sound(g, st), AllFine(g, st, ran),
         NEW to, Goes(g, st, to)
  PROVE  AllFine(g, to, ran)
  BY QuadStays, PhiStays DEF AllFine

(* An edge taken off the list: only the phis of its target may be stale.    *)
LEMMA EdgeTaken ==
  ASSUME NEW g, NEW ran, NEW st, Sound(g, st), AllFine(g, st, ran), st.flowWork # <<>>
  PROVE  LET rest == With(st, Tail(st.flowWork), st.ssaWork)
             to   == Head(st.flowWork)[2]
         IN  /\ to \in Blocks(g)
             /\ Sound(g, rest)
             /\ AllFine(g, rest, ran \ {to})
             /\ \A b \in ran : \A i \in DOMAIN g.code[b] : QuadFine(g, rest, b, i)
<1> DEFINE rest == With(st, Tail(st.flowWork), st.ssaWork)
           to   == Head(st.flowWork)[2]
<1>1. st.flowWork \in Seq(Edges(g)) /\ st.ssaWork \in Seq(UseSites(g))
  BY DEF Sound, StateOK
<1>2. /\ Head(st.flowWork) \in Edges(g) /\ Tail(st.flowWork) \in Seq(Edges(g))
      /\ ToSet(st.flowWork) = {Head(st.flowWork)} \cup ToSet(Tail(st.flowWork))
  BY <1>1, TailHas
<1>3. to \in Blocks(g)
  BY <1>2 DEF Edges
<1>4. Sound(g, rest)
  BY <1>1, <1>2, StaysSound
<1>5. /\ rest.val = st.val /\ rest.execEdge = st.execEdge /\ rest.ssaWork = st.ssaWork
      /\ rest.flowWork = Tail(st.flowWork)
  BY DEF With
<1> HIDE DEF rest
<1>6. \A b \in ran : \A i \in DOMAIN g.code[b] : QuadFine(g, rest, b, i)
  BY <1>5 DEF AllFine, QuadFine
<1>7. ASSUME NEW b \in ran \ {to}, NEW k \in DOMAIN g.phis[b] PROVE PhiFine(g, rest, b, k)
  <2>1. PhiFine(g, st, b, k)
    BY DEF AllFine
  <2>2. PhisQueued(st, b) => PhisQueued(rest, b)
    BY <1>2, <1>5 DEF PhisQueued
  <2> QED  BY <1>5, <2>1, <2>2 DEF PhiFine
<1> QED  BY <1>3, <1>4, <1>6, <1>7 DEF AllFine, rest

LEMMA EdgeFollowed ==
  ASSUME NEW g, IsSSA(g), NEW ran \in SUBSET Blocks(g), NEW st, Sound(g, st), AllFine(g, st, ran),
         st.flowWork # <<>>
  PROVE  LET to   == Head(st.flowWork)[2]
             rest == With(st, Tail(st.flowWork), st.ssaWork)
             mid  == EvalPhis(g, rest, to)
             end  == IF to \in ran THEN mid ELSE EvalBlock(g, mid, to)
         IN  /\ to \in Blocks(g) /\ Sound(g, end) /\ AllFine(g, end, ran \cup {to})
             /\ Leads(g, rest, end) /\ Modest(g, to, rest, end)
             /\ to \notin ran /\ g.code[to] = <<>> => {to} \X ToSet(g.succs[to]) \subseteq end.execEdge
<1> DEFINE to   == Head(st.flowWork)[2]
           rest == With(st, Tail(st.flowWork), st.ssaWork)
           mid  == EvalPhis(g, rest, to)
           end  == IF to \in ran THEN mid ELSE EvalBlock(g, mid, to)
<1>1. /\ to \in Blocks(g) /\ Sound(g, rest) /\ AllFine(g, rest, ran \ {to})
      /\ \A b \in ran : \A i \in DOMAIN g.code[b] : QuadFine(g, rest, b, i)
  BY EdgeTaken
<1>2. CASE to \in ran
  <2>1. end = mid
    BY <1>2
  <2> HIDE DEF rest, to
  <2>2. /\ Goes(g, rest, mid) /\ \A k \in DOMAIN g.phis[to] : PhiFine(g, mid, to, k)
        /\ Modest(g, to, rest, mid)
    BY <1>1, PhisEvaluated
  <2> HIDE DEF mid, end
  <2>3. AllFine(g, mid, ran \ {to})
    BY <1>1, <2>2, AllStay
  <2>4. \A i \in DOMAIN g.code[to] : QuadFine(g, mid, to, i)
    BY <1>1, <1>2, <2>2, QuadStays
  <2>5. Sound(g, mid)
    BY <2>2 DEF Goes
  <2>6. AllFine(g, mid, ran \cup {to})
    BY <2>2, <2>3, <2>4 DEF AllFine
  <2>7. Leads(g, rest, mid)
    BY <2>2 DEF Goes
  <2> QED  BY <1>1, <1>2, <2>1, <2>2, <2>5, <2>6, <2>7 DEF end, mid, rest, to
<1>3. CASE to \notin ran
  <2>1. end = EvalBlock(g, mid, to)
    BY <1>3
  <2> HIDE DEF rest, to
  <2>2. /\ Goes(g, rest, mid) /\ \A k \in DOMAIN g.phis[to] : PhiFine(g, mid, to, k)
        /\ Modest(g, to, rest, mid)
    BY <1>1, PhisEvaluated
  <2>3. Sound(g, mid)
    BY <2>2 DEF Goes
  <2> HIDE DEF mid, end
  <2>4. /\ Goes(g, mid, end) /\ \A i \in DOMAIN g.code[to] : QuadFine(g, end, to, i)
        /\ Modest(g, to, mid, end)
        /\ g.code[to] = <<>> => {to} \X ToSet(g.succs[to]) \subseteq end.execEdge
    BY <1>1, <2>1, <2>3, BlockEvaluated
  <2>5. AllFine(g, mid, ran \ {to})
    BY <1>1, <2>2, AllStay
  <2>6. AllFine(g, end, ran \ {to})
    BY <2>3, <2>4, <2>5, AllStay
  <2>7. \A k \in DOMAIN g.phis[to] : PhiFine(g, end, to, k)
    BY <1>1, <2>2, <2>3, <2>4, PhiStays
  <2>8. AllFine(g, end, ran \cup {to})
    BY <2>4, <2>6, <2>7 DEF AllFine
  <2>9. Sound(g, end)
    BY <2>4 DEF Goes
  <2>10. Leads(g, rest, end) /\ Modest(g, to, rest, end)
    BY <2>2, <2>4, LeadsOn, ModestOn DEF Goes
  <2> QED  BY <1>1, <2>4, <2>8, <2>9, <2>10 DEF end, mid, rest, to
<1> QED  BY <1>2, <1>3

(* A use taken off the list: only that use may be stale.                    *)
LEMMA UseEvaluated ==
  ASSUME NEW g, IsSSA(g), NEW ran \in SUBSET Blocks(g), NEW st, Sound(g, st), AllFine(g, st, ran),
         st.ssaWork # <<>>
  PROVE  LET use  == Head(st.ssaWork)
             rest == With(st, st.flowWork, Tail(st.ssaWork))
             end  == IF use.block \in ran THEN EvalUse(g, rest, use) ELSE rest
         IN  /\ Sound(g, end) /\ AllFine(g, end, ran) /\ Leads(g, rest, end)
             /\ end = rest \/ (use.block \in ran /\ Modest(g, use.block, rest, end))
<1> DEFINE use  == Head(st.ssaWork)
           rest == With(st, st.flowWork, Tail(st.ssaWork))
           end  == IF use.block \in ran THEN EvalUse(g, rest, use) ELSE rest
<1>1. st.flowWork \in Seq(Edges(g)) /\ st.ssaWork \in Seq(UseSites(g))
  BY DEF Sound, StateOK
<1>2. /\ use \in UseSites(g) /\ Tail(st.ssaWork) \in Seq(UseSites(g))
      /\ ToSet(st.ssaWork) = {use} \cup ToSet(Tail(st.ssaWork))
  BY <1>1, TailHas
<1>3. Sound(g, rest)
  BY <1>1, <1>2, StaysSound
<1>4. /\ rest.val = st.val /\ rest.execEdge = st.execEdge /\ rest.flowWork = st.flowWork
      /\ rest.ssaWork = Tail(st.ssaWork)
  BY DEF With
<1> HIDE DEF rest
<1>5. ASSUME NEW b \in ran, NEW i \in DOMAIN g.code[b], QuadIn(b, i) # use PROVE QuadFine(g, rest, b, i)
  <2>1. QuadFine(g, st, b, i)
    BY DEF AllFine
  <2>2. QuadIn(b, i) \in ToSet(st.ssaWork) => QuadIn(b, i) \in ToSet(rest.ssaWork)
    BY <1>2, <1>4, <1>5
  <2> HIDE DEF use
  <2> QED  BY <1>4, <2>1, <2>2 DEF QuadFine
<1>6. ASSUME NEW b \in ran, NEW k \in DOMAIN g.phis[b], PhisOf(b) # use PROVE PhiFine(g, rest, b, k)
  <2>1. PhiFine(g, st, b, k)
    BY DEF AllFine
  <2>2. PhisQueued(st, b) => PhisQueued(rest, b)
    BY <1>2, <1>4, <1>6 DEF PhisQueued
  <2> HIDE DEF use
  <2> QED  BY <1>4, <2>1, <2>2 DEF PhiFine
<1>7. use.block \in Blocks(g) /\ use.at \in Nat /\ use = [block |-> use.block, at |-> use.at]
      /\ (use.at = 0 \/ use.at \in DOMAIN g.code[use.block])
  <2> HIDE DEF use
  <2> QED  BY <1>2 DEF UseSites
<1>8. ASSUME NEW b \in Blocks(g), NEW i \in DOMAIN g.code[b] PROVE i # 0 /\ PhisOf(b) # QuadIn(b, i)
  BY DEF IsSSA, PhisOf, QuadIn
<1> HIDE DEF use
<1>9. CASE use.block \notin ran
  <2>1. end = rest
    BY <1>9
  <2>2. AllFine(g, rest, ran)
    BY <1>5, <1>6, <1>9 DEF AllFine, PhisOf, QuadIn
  <2> QED  BY <1>3, <2>1, <2>2, LeadsNowhere DEF use, rest
<1>10. CASE use.block \in ran /\ use.at = 0
  <2>1. end = EvalPhis(g, rest, use.block) /\ use = PhisOf(use.block)
    BY <1>7, <1>10 DEF EvalUse, PhisOf
  <2> HIDE DEF end
  <2>2. /\ Goes(g, rest, end) /\ \A k \in DOMAIN g.phis[use.block] : PhiFine(g, end, use.block, k)
        /\ Modest(g, use.block, rest, end)
    BY <1>3, <1>7, <2>1, PhisEvaluated
  <2>3. ASSUME NEW b \in ran, NEW i \in DOMAIN g.code[b] PROVE QuadFine(g, end, b, i)
    <3>1. QuadIn(b, i) # use /\ b \in Blocks(g)
      BY <1>8, <2>1 DEF PhisOf, QuadIn
    <3> QED  BY <1>3, <1>5, <2>2, <3>1, QuadStays
  <2>4. ASSUME NEW b \in ran, NEW k \in DOMAIN g.phis[b] PROVE PhiFine(g, end, b, k)
    <3>1. CASE b = use.block
      BY <2>2, <3>1
    <3>2. CASE b # use.block
      <4>1. PhisOf(b) # use /\ b \in Blocks(g)
        BY <3>2 DEF PhisOf
      <4> QED  BY <1>3, <1>6, <2>2, <4>1, PhiStays
    <3> QED  BY <3>1, <3>2
  <2>5. Sound(g, end) /\ Leads(g, rest, end)
    BY <2>2 DEF Goes
  <2>6. AllFine(g, end, ran)
    BY <2>3, <2>4 DEF AllFine
  <2> QED  BY <1>10, <2>2, <2>5, <2>6 DEF end, use, rest
<1>11. CASE use.block \in ran /\ use.at # 0
  <2>1. /\ end = EvalQuad(g, rest, use.block, use.at) /\ use = QuadIn(use.block, use.at)
        /\ use.at \in DOMAIN g.code[use.block]
    BY <1>7, <1>11 DEF EvalUse, QuadIn
  <2> HIDE DEF end
  <2>2. Goes(g, rest, end) /\ QuadFine(g, end, use.block, use.at) /\ Modest(g, use.block, rest, end)
    BY <1>3, <1>7, <2>1, QuadEvaluated
  <2>3. ASSUME NEW b \in ran, NEW i \in DOMAIN g.code[b] PROVE QuadFine(g, end, b, i)
    <3>1. CASE b = use.block /\ i = use.at
      BY <2>2, <3>1
    <3>2. CASE ~(b = use.block /\ i = use.at)
      <4>1. QuadIn(b, i) # use /\ b \in Blocks(g)
        BY <3>2 DEF QuadIn
      <4> QED  BY <1>3, <1>5, <2>2, <4>1, QuadStays
    <3> QED  BY <3>1, <3>2
  <2>4. ASSUME NEW b \in ran, NEW k \in DOMAIN g.phis[b] PROVE PhiFine(g, end, b, k)
    <3>1. PhisOf(b) # use /\ b \in Blocks(g)
      BY <1>11 DEF PhisOf
    <3> QED  BY <1>3, <1>6, <2>2, <3>1, PhiStays
  <2>5. Sound(g, end) /\ Leads(g, rest, end)
    BY <2>2 DEF Goes
  <2>6. AllFine(g, end, ran)
    BY <2>3, <2>4 DEF AllFine
  <2> QED  BY <1>11, <2>2, <2>5, <2>6 DEF end, use, rest
<1> QED  BY <1>9, <1>10, <1>11

-----------------------------------------------------------------------------
(* The inductive invariant.                                                 *)

State == [val |-> val, execEdge |-> execEdge, flowWork |-> flowWork, ssaWork |-> ssaWork]

IInv ==
  /\ graph \in Graphs
  /\ execBlock \subseteq Blocks(graph)
  /\ Sound(graph, State)
  /\ AllFine(graph, State, execBlock)

(* Nothing is known and nothing has run.                                    *)
LEMMA InitInvariant == Init => IInv
<1> SUFFICES ASSUME Init PROVE IInv
  OBVIOUS
<1>1. graph \in Graphs /\ IsSSA(graph)
  BY GraphsAssumption DEF Init
<1>2. /\ State.val = val /\ State.execEdge = execEdge /\ State.flowWork = flowWork /\ State.ssaWork = ssaWork
      /\ State = [val |-> State.val, execEdge |-> State.execEdge, flowWork |-> State.flowWork,
                  ssaWork |-> State.ssaWork]
  BY DEF State
<1>3. val = [x \in DOMAIN graph.origin |-> val[x]] /\ \A x \in DOMAIN graph.origin : val[x] = LatTop
  BY DEF Init
<1>4. flowWork \in Seq(Edges(graph)) /\ ssaWork \in Seq(UseSites(graph))
  <2>1. <<NoBlock, Entry>> \in Edges(graph)
    BY <1>1 DEF IsSSA, Edges
  <2> QED  BY <2>1 DEF Init
<1> HIDE DEF State
<1>5. StateOK(graph, State)
  BY <1>2, <1>3, <1>4 DEF StateOK
<1>6. PhisOver(graph, State)
  BY <1>1, <1>2, <1>3 DEF PhisOver, Below, IsSSA
<1>7. QuadsOver(graph, State)
  BY <1>2, <1>3 DEF QuadsOver, Below
<1>8. execBlock = {}
  BY DEF Init
<1> QED  BY <1>1, <1>5, <1>6, <1>7, <1>8 DEF IInv, Sound, AllFine

(* The state a step is said to become is the state it leaves.               *)
LEMMA BecomesState ==
  ASSUME NEW g, NEW st, StateOK(g, st), Becomes(st)
  PROVE  State' = st
  BY DEF Becomes, StateOK, State

LEMMA FollowEdgeKeeps == IInv /\ FollowEdge => IInv'
<1> SUFFICES ASSUME IInv, FollowEdge PROVE IInv'
  OBVIOUS
<1> DEFINE to  == Head(flowWork)[2]
           mid == EvalPhis(graph, Known(Tail(flowWork), ssaWork), to)
           end == IF to \in execBlock THEN mid ELSE EvalBlock(graph, mid, to)
<1>1. IsSSA(graph) /\ graph' = graph /\ execBlock' = execBlock \cup {to} /\ Becomes(end) /\ flowWork # <<>>
  BY GraphsAssumption DEF IInv, FollowEdge
<1>2. /\ State.flowWork = flowWork /\ State.ssaWork = ssaWork
      /\ With(State, Tail(flowWork), ssaWork) = Known(Tail(flowWork), ssaWork)
  BY DEF State, With, Known
<1> HIDE DEF State
<1>3. to \in Blocks(graph) /\ Sound(graph, end) /\ AllFine(graph, end, execBlock \cup {to})
  BY <1>1, <1>2, EdgeFollowed DEF IInv
<1> HIDE DEF end, to
<1>4. State' = end
  BY <1>1, <1>3, BecomesState DEF Sound
<1> QED  BY <1>1, <1>3, <1>4 DEF IInv

LEMMA ReevaluateKeeps == IInv /\ Reevaluate => IInv'
<1> SUFFICES ASSUME IInv, Reevaluate PROVE IInv'
  OBVIOUS
<1> DEFINE use  == Head(ssaWork)
           rest == Known(flowWork, Tail(ssaWork))
           end  == IF use.block \in execBlock THEN EvalUse(graph, rest, use) ELSE rest
<1>1. IsSSA(graph) /\ graph' = graph /\ execBlock' = execBlock /\ Becomes(end) /\ ssaWork # <<>>
  BY GraphsAssumption DEF IInv, Reevaluate
<1>2. /\ State.flowWork = flowWork /\ State.ssaWork = ssaWork
      /\ With(State, flowWork, Tail(ssaWork)) = rest
  BY DEF State, With, Known
<1> HIDE DEF State
<1>3. Sound(graph, end) /\ AllFine(graph, end, execBlock)
  BY <1>1, <1>2, UseEvaluated DEF IInv
<1> HIDE DEF end
<1>4. State' = end
  BY <1>1, <1>3, BecomesState DEF Sound
<1> QED  BY <1>1, <1>3, <1>4 DEF IInv

(* Turning from one list to the other changes nothing that is known.        *)
LEMMA TurnKeeps == IInv /\ (TurnToUses \/ TurnToEdges \/ UNCHANGED vars) => IInv'
<1> SUFFICES ASSUME IInv, TurnToUses \/ TurnToEdges \/ UNCHANGED vars PROVE IInv'
  OBVIOUS
<1>1. graph' = graph /\ execBlock' = execBlock /\ State' = State
  BY DEF TurnToUses, TurnToEdges, vars, State
<1> QED  BY <1>1 DEF IInv

LEMMA NextInvariant == IInv /\ [Next]_vars => IInv'
  BY FollowEdgeKeeps, ReevaluateKeeps, TurnKeeps DEF Next

LEMMA Invariant == Spec => []IInv
  BY InitInvariant, NextInvariant, PTL DEF Spec

-----------------------------------------------------------------------------
(* For every graph in SSA form, whatever the order of the work: in a block  *)
(* that runs, a definition is what its operands now make it and a branch's  *)
(* ways are marked, or it waits in a work list (sccp.cpp, lower, markEdge   *)
(* and the two loops).                                                      *)
THEOREM NothingIsLost == Spec => []NoChangeIsLost
<1>1. IInv => NoChangeIsLost
  <2> SUFFICES ASSUME IInv PROVE NoChangeIsLost
    OBVIOUS
  <2>1. State.val = val /\ State.execEdge = execEdge /\ State.flowWork = flowWork /\ State.ssaWork = ssaWork
    BY DEF State
  <2> HIDE DEF State
  <2>2. ASSUME NEW b \in execBlock, NEW i \in DOMAIN graph.code[b] PROVE QuadWaits(b, i) \/ QuadIsCurrent(b, i)
    <3>1. QuadFine(graph, State, b, i)
      BY DEF IInv, AllFine
    <3> QED  BY <2>1, <3>1 DEF QuadFine, QuadWaits, QuadIsCurrent
  <2>3. ASSUME NEW b \in execBlock, ~PhisWait(b), NEW phi \in ToSet(graph.phis[b])
        PROVE  val[phi.result.name] = PhiGiven(graph, val, execEdge, b, phi)
    <3>1. PICK k \in DOMAIN graph.phis[b] : phi = graph.phis[b][k]
      BY DEF ToSet
    <3>2. PhiFine(graph, State, b, k) /\ ~PhisQueued(State, b)
      BY <2>1, <2>3 DEF IInv, AllFine, PhisQueued, PhisWait
    <3> QED  BY <2>1, <3>1, <3>2 DEF PhiFine
  <2> QED  BY <2>2, <2>3 DEF NoChangeIsLost
<1> QED  BY Invariant, <1>1, PTL

-----------------------------------------------------------------------------
(* Where the lists end.  Edges lead to blocks that have run or wait, work   *)
(* waits only where an edge leads, and what is known stays within every     *)
(* solution.                                                                *)

Covers(g, st, ran) ==
  /\ Entry \in ran \/ <<NoBlock, Entry>> \in ToSet(st.flowWork)
  /\ st.execEdge \subseteq Edges(g)
  /\ ToSet(st.flowWork) \subseteq st.execEdge \cup {<<NoBlock, Entry>>}
  /\ \A e \in st.execEdge : e[2] \in ran \/ e \in ToSet(st.flowWork)
  /\ ran \subseteq ExecutableBlocks(st.execEdge)
  /\ \A b \in ran : g.code[b] = <<>> => {b} \X ToSet(g.succs[b]) \subseteq st.execEdge

WithinAll(g, st) == \A v, edges : Solves(g, v, edges) => Within(v, edges, st)

(* Work that takes edges off the list, and runs the blocks they lead to.    *)
LEMMA CoverKept ==
  ASSUME NEW g, NEW ran, NEW st, Sound(g, st), Covers(g, st, ran),
         NEW rest, rest.execEdge = st.execEdge, ToSet(rest.flowWork) \subseteq ToSet(st.flowWork),
         NEW more, more \subseteq ExecutableBlocks(st.execEdge),
         \A e \in ToSet(st.flowWork) : e[2] \in more \/ e \in ToSet(rest.flowWork),
         NEW end, Sound(g, end), Leads(g, rest, end),
         \A b \in more \ ran : g.code[b] = <<>> => {b} \X ToSet(g.succs[b]) \subseteq end.execEdge
  PROVE  Covers(g, end, ran \cup more)
<1>1. /\ st.execEdge \subseteq end.execEdge
      /\ ToSet(rest.flowWork) \subseteq ToSet(end.flowWork)
      /\ ToSet(end.flowWork) \subseteq ToSet(rest.flowWork) \cup end.execEdge
      /\ end.execEdge \subseteq st.execEdge \cup ToSet(end.flowWork)
  BY DEF Leads
<1>2. Entry \in ran \cup more \/ <<NoBlock, Entry>> \in ToSet(end.flowWork)
  <2>1. CASE Entry \in ran
    BY <2>1
  <2>2. CASE <<NoBlock, Entry>> \in ToSet(st.flowWork)
    <3>1. <<NoBlock, Entry>>[2] = Entry
      OBVIOUS
    <3> QED  BY <1>1, <2>2, <3>1
  <2> QED  BY <2>1, <2>2 DEF Covers
<1>3. end.execEdge \subseteq Edges(g)
  <2>1. ToSet(end.flowWork) \subseteq Edges(g)
    BY DEF Sound, StateOK, ToSet
  <2> QED  BY <1>1, <2>1 DEF Covers
<1>4. ToSet(end.flowWork) \subseteq end.execEdge \cup {<<NoBlock, Entry>>}
  BY <1>1 DEF Covers
<1>5. \A e \in end.execEdge : e[2] \in ran \cup more \/ e \in ToSet(end.flowWork)
  BY <1>1 DEF Covers
<1>6. ran \cup more \subseteq ExecutableBlocks(end.execEdge)
  BY <1>1 DEF Covers, ExecutableBlocks
<1>7. \A b \in ran \cup more : g.code[b] = <<>> => {b} \X ToSet(g.succs[b]) \subseteq end.execEdge
  BY <1>1 DEF Covers
<1> QED  BY <1>2, <1>3, <1>4, <1>5, <1>6, <1>7 DEF Covers

(* Work in blocks that edges lead to leaves what is known within them all.  *)
LEMMA WithinKept ==
  ASSUME NEW g, NEW st, WithinAll(g, st), NEW rest, rest.val = st.val, rest.execEdge = st.execEdge,
         NEW b \in ExecutableBlocks(st.execEdge), NEW end, Modest(g, b, rest, end)
  PROVE  WithinAll(g, end)
<1> SUFFICES ASSUME NEW v, NEW edges, Solves(g, v, edges) PROVE Within(v, edges, end)
  BY DEF WithinAll
<1>1. Within(v, edges, st)
  BY DEF WithinAll
<1>2. b \in ExecutableBlocks(edges)
  BY <1>1 DEF Within, ExecutableBlocks
<1>3. Within(v, edges, rest)
  BY <1>1 DEF Within
<1> QED  BY <1>2, <1>3 DEF Modest

EndInv == Covers(graph, State, execBlock) /\ WithinAll(graph, State)

LEMMA InitEnds == Init => EndInv
<1> SUFFICES ASSUME Init PROVE EndInv
  OBVIOUS
<1>1. State.val = val /\ State.execEdge = {} /\ State.flowWork = <<<<NoBlock, Entry>>>> /\ execBlock = {}
  BY DEF State, Init
<1>2. ToSet(<<<<NoBlock, Entry>>>>) = {<<NoBlock, Entry>>}
  BY DEF ToSet
<1>3. DOMAIN val = DOMAIN graph.origin /\ \A x \in DOMAIN graph.origin : val[x] = LatTop
  BY DEF Init
<1> HIDE DEF State
<1>4. Covers(graph, State, execBlock)
  BY <1>1, <1>2 DEF Covers
<1>5. WithinAll(graph, State)
  BY <1>1, <1>3 DEF WithinAll, Within, AllBelow, Below, Solves
<1> QED  BY <1>4, <1>5 DEF EndInv

LEMMA FollowEdgeEnds == IInv /\ EndInv /\ FollowEdge => EndInv'
<1> SUFFICES ASSUME IInv, EndInv, FollowEdge PROVE EndInv'
  OBVIOUS
<1> DEFINE to   == Head(flowWork)[2]
           rest == Known(Tail(flowWork), ssaWork)
           mid  == EvalPhis(graph, rest, to)
           end  == IF to \in execBlock THEN mid ELSE EvalBlock(graph, mid, to)
<1>1. IsSSA(graph) /\ graph' = graph /\ execBlock' = execBlock \cup {to} /\ Becomes(end) /\ flowWork # <<>>
  BY GraphsAssumption DEF IInv, FollowEdge
<1>2. /\ State.flowWork = flowWork /\ State.ssaWork = ssaWork
      /\ With(State, Tail(flowWork), ssaWork) = rest
      /\ rest.val = State.val /\ rest.execEdge = State.execEdge /\ rest.flowWork = Tail(flowWork)
  BY DEF State, With, Known
<1>3. flowWork \in Seq(Edges(graph))
  BY <1>2 DEF IInv, Sound, StateOK
<1>4. ToSet(flowWork) = {Head(flowWork)} \cup ToSet(Tail(flowWork))
  BY <1>1, <1>3, TailHas
<1> HIDE DEF State
<1>5. /\ Sound(graph, end) /\ Leads(graph, rest, end) /\ Modest(graph, to, rest, end)
      /\ to \notin execBlock /\ graph.code[to] = <<>> => {to} \X ToSet(graph.succs[to]) \subseteq end.execEdge
  <2>1. /\ Sound(graph, State) /\ AllFine(graph, State, execBlock) /\ State.flowWork # <<>>
        /\ execBlock \in SUBSET Blocks(graph)
        /\ With(State, Tail(State.flowWork), State.ssaWork) = rest /\ Head(State.flowWork)[2] = to
    BY <1>1, <1>2 DEF IInv
  <2> HIDE DEF rest, to
  <2> QED  BY <1>1, <2>1, EdgeFollowed
<1> HIDE DEF end, mid, rest
<1>6. to \in ExecutableBlocks(State.execEdge)
  <2>1. Head(flowWork) \in State.execEdge \cup {<<NoBlock, Entry>>}
    BY <1>2, <1>4 DEF EndInv, Covers
  <2>2. <<NoBlock, Entry>>[2] = Entry
    OBVIOUS
  <2> QED  BY <2>1, <2>2 DEF ExecutableBlocks
<1>7. Covers(graph, end, execBlock \cup {to})
  <2>1. /\ Covers(graph, State, execBlock) /\ Sound(graph, State)
        /\ ToSet(rest.flowWork) \subseteq ToSet(State.flowWork)
        /\ \A e \in ToSet(State.flowWork) : e[2] \in {to} \/ e \in ToSet(rest.flowWork)
    BY <1>2, <1>4 DEF EndInv, IInv
  <2>2. {to} \subseteq ExecutableBlocks(State.execEdge)
    BY <1>6
  <2>3. \A b \in {to} \ execBlock : graph.code[b] = <<>> => {b} \X ToSet(graph.succs[b]) \subseteq end.execEdge
    BY <1>5
  <2> HIDE DEF to
  <2> QED  BY <1>2, <1>5, <2>1, <2>2, <2>3, CoverKept
<1>8. WithinAll(graph, end)
  <2> HIDE DEF to
  <2> QED  BY <1>2, <1>5, <1>6, WithinKept DEF EndInv
<1>9. State' = end
  BY <1>1, <1>5, BecomesState DEF Sound
<1> HIDE DEF to
<1> QED  BY <1>1, <1>7, <1>8, <1>9 DEF EndInv

LEMMA ReevaluateEnds == IInv /\ EndInv /\ Reevaluate => EndInv'
<1> SUFFICES ASSUME IInv, EndInv, Reevaluate PROVE EndInv'
  OBVIOUS
<1> DEFINE use  == Head(ssaWork)
           rest == Known(flowWork, Tail(ssaWork))
           end  == IF use.block \in execBlock THEN EvalUse(graph, rest, use) ELSE rest
<1>1. IsSSA(graph) /\ graph' = graph /\ execBlock' = execBlock /\ Becomes(end) /\ ssaWork # <<>>
  BY GraphsAssumption DEF IInv, Reevaluate
<1>2. /\ State.flowWork = flowWork /\ State.ssaWork = ssaWork
      /\ With(State, flowWork, Tail(ssaWork)) = rest
      /\ rest.val = State.val /\ rest.execEdge = State.execEdge /\ rest.flowWork = flowWork
  BY DEF State, With, Known
<1> HIDE DEF State
<1>3. /\ Sound(graph, end) /\ Leads(graph, rest, end)
      /\ end = rest \/ (use.block \in execBlock /\ Modest(graph, use.block, rest, end))
  BY <1>1, <1>2, UseEvaluated DEF IInv
<1> HIDE DEF end, rest, use
<1>4. Covers(graph, end, execBlock)
  <2>1. /\ Covers(graph, State, execBlock) /\ Sound(graph, State)
        /\ ToSet(rest.flowWork) = ToSet(State.flowWork)
    BY <1>2 DEF EndInv, IInv
  <2>2. Covers(graph, end, execBlock \cup {})
    BY <1>2, <1>3, <2>1, CoverKept
  <2>3. execBlock \cup {} = execBlock
    OBVIOUS
  <2> QED  BY <2>2, <2>3
<1>5. WithinAll(graph, end)
  <2>1. CASE end = rest
    BY <1>2, <2>1 DEF EndInv, WithinAll, Within
  <2>2. CASE use.block \in execBlock /\ Modest(graph, use.block, rest, end)
    <3>1. use.block \in ExecutableBlocks(State.execEdge)
      BY <2>2 DEF EndInv, Covers
    <3> QED  BY <1>2, <2>2, <3>1, WithinKept DEF EndInv
  <2> QED  BY <1>3, <2>1, <2>2
<1>6. State' = end
  BY <1>1, <1>3, BecomesState DEF Sound
<1> QED  BY <1>1, <1>4, <1>5, <1>6 DEF EndInv

LEMMA TurnEnds == EndInv /\ (TurnToUses \/ TurnToEdges \/ UNCHANGED vars) => EndInv'
<1> SUFFICES ASSUME EndInv, TurnToUses \/ TurnToEdges \/ UNCHANGED vars PROVE EndInv'
  OBVIOUS
<1>1. graph' = graph /\ execBlock' = execBlock /\ State' = State
  BY DEF TurnToUses, TurnToEdges, vars, State
<1> QED  BY <1>1 DEF EndInv

LEMMA EndInvariant == Spec => []EndInv
<1>1. IInv /\ EndInv /\ [Next]_vars => EndInv'
  BY FollowEdgeEnds, ReevaluateEnds, TurnEnds DEF Next
<1> QED  BY InitEnds, Invariant, <1>1, PTL DEF Spec

-----------------------------------------------------------------------------
(* The rounds of SccpFacts end in the same.                                 *)

(* What a round makes of x is the meet of what is given to it.              *)
Given(g, st, x) ==
  {PhiGiven(g, st.val, st.edges, s[1], g.phis[s[1]][s[2]]) :
     s \in {t \in UNION {{b} \X DOMAIN g.phis[b] : b \in ExecutableBlocks(st.edges)} : g.phis[t[1]][t[2]].result.name = x}}
  \cup {ValueGiven(st.val, QuadAt(g, s)) : s \in DefSites(g, ExecutableBlocks(st.edges), x)}

OpenEdges(g, st) == UNION {{b} \X Taken(g, st.val, b) : b \in ExecutableBlocks(st.edges)}

Nothing(g) == [val |-> [x \in DOMAIN g.origin |-> LatTop], edges |-> {}]

(* Facts of g, and those a round can give.                                  *)
Claims(g, st) == DOMAIN st.val = DOMAIN g.origin /\ st.edges \subseteq Edges(g)
IsFacts(g, st) ==
  /\ st = [val |-> st.val, edges |-> st.edges]
  /\ st.val = [x \in DOMAIN g.origin |-> st.val[x]]
  /\ st.edges \subseteq Blocks(g) \X Blocks(g)

FactsBelow(lower, upper) == AllBelow(lower.val, upper.val) /\ upper.edges \subseteq lower.edges

LEMMA RoundIs ==
  ASSUME NEW g, NEW st, DOMAIN st.val = DOMAIN g.origin
  PROVE  SccpRound(g, st) = [val |-> [x \in DOMAIN g.origin |-> MeetAll(Given(g, st, x))], edges |-> OpenEdges(g, st)]
BY DEF SccpRound, Given, OpenEdges

LEMMA ExecutableKnown ==
  ASSUME NEW g, IsSSA(g), NEW edges, edges \subseteq Edges(g)
  PROVE  ExecutableBlocks(edges) \subseteq Blocks(g)
BY DEF ExecutableBlocks, Edges, IsSSA

LEMMA FactsClaim == ASSUME NEW g, NEW st, IsFacts(g, st) PROVE Claims(g, st)
  BY DEF IsFacts, Claims, Edges

(* What is given to x: by a phi or by a quad of a block that runs.          *)
LEMMA GivenBy ==
  ASSUME NEW g, NEW st, NEW x
  PROVE  /\ \A b \in ExecutableBlocks(st.edges) : \A k :
              k \in DOMAIN g.phis[b] /\ g.phis[b][k].result.name = x
              => PhiGiven(g, st.val, st.edges, b, g.phis[b][k]) \in Given(g, st, x)
         /\ \A b \in ExecutableBlocks(st.edges) : \A i :
              i \in DOMAIN g.code[b] /\ WritesName(g.code[b][i], x)
              => ValueGiven(st.val, g.code[b][i]) \in Given(g, st, x)
         /\ \A y \in Given(g, st, x) : \E b \in ExecutableBlocks(st.edges) :
              \/ \E k \in DOMAIN g.phis[b] :
                   g.phis[b][k].result.name = x /\ y = PhiGiven(g, st.val, st.edges, b, g.phis[b][k])
              \/ \E i \in DOMAIN g.code[b] :
                   WritesName(g.code[b][i], x) /\ y = ValueGiven(st.val, g.code[b][i])
<1> DEFINE run == ExecutableBlocks(st.edges)
           phis == {t \in UNION {{b} \X DOMAIN g.phis[b] : b \in run} : g.phis[t[1]][t[2]].result.name = x}
           defs == DefSites(g, run, x)
<1>1. \A b, k : <<b, k>> \in phis <=> b \in run /\ k \in DOMAIN g.phis[b] /\ g.phis[b][k].result.name = x
  OBVIOUS
<1>2. \A s \in phis : s = <<s[1], s[2]>>
  OBVIOUS
<1>3. \A b, i : <<b, i>> \in defs <=> b \in run /\ i \in DOMAIN g.code[b] /\ WritesName(g.code[b][i], x)
  BY DEF DefSites, Sites, QuadAt
<1>4. \A s \in defs : s = <<s[1], s[2]>>
  BY DEF DefSites, Sites
<1>5. Given(g, st, x) = {PhiGiven(g, st.val, st.edges, s[1], g.phis[s[1]][s[2]]) : s \in phis}
                          \cup {ValueGiven(st.val, g.code[s[1]][s[2]]) : s \in defs}
  BY DEF Given, QuadAt
<1> HIDE DEF run, phis, defs
<1>6. ASSUME NEW b \in run, NEW k, k \in DOMAIN g.phis[b], g.phis[b][k].result.name = x
      PROVE  PhiGiven(g, st.val, st.edges, b, g.phis[b][k]) \in Given(g, st, x)
  <2>1. <<b, k>> \in phis /\ <<b, k>>[1] = b /\ <<b, k>>[2] = k
    BY <1>1, <1>6
  <2> QED  BY <1>5, <2>1
<1>7. ASSUME NEW b \in run, NEW i, i \in DOMAIN g.code[b], WritesName(g.code[b][i], x)
      PROVE  ValueGiven(st.val, g.code[b][i]) \in Given(g, st, x)
  <2>1. <<b, i>> \in defs /\ <<b, i>>[1] = b /\ <<b, i>>[2] = i
    BY <1>3, <1>7
  <2> QED  BY <1>5, <2>1
<1>8. ASSUME NEW y \in Given(g, st, x)
      PROVE  \E b \in run :
               \/ \E k \in DOMAIN g.phis[b] :
                    g.phis[b][k].result.name = x /\ y = PhiGiven(g, st.val, st.edges, b, g.phis[b][k])
               \/ \E i \in DOMAIN g.code[b] :
                    WritesName(g.code[b][i], x) /\ y = ValueGiven(st.val, g.code[b][i])
  <2>1. CASE \E s \in phis : y = PhiGiven(g, st.val, st.edges, s[1], g.phis[s[1]][s[2]])
    BY <1>1, <1>2, <2>1
  <2>2. CASE \E s \in defs : y = ValueGiven(st.val, g.code[s[1]][s[2]])
    BY <1>3, <1>4, <2>2
  <2> QED  BY <1>5, <2>1, <2>2
<1> QED  BY <1>6, <1>7, <1>8 DEF run

(* The less is known, the less is known a round later.                      *)
LEMMA RoundFalls ==
  ASSUME NEW g, IsSSA(g), NEW lower, Claims(g, lower), NEW upper, Claims(g, upper), FactsBelow(lower, upper)
  PROVE  FactsBelow(SccpRound(g, lower), SccpRound(g, upper))
<1> DEFINE L == ExecutableBlocks(lower.edges)
           U == ExecutableBlocks(upper.edges)
<1>1. U \subseteq L /\ L \subseteq Blocks(g)
  <2>1. U \subseteq L
    BY DEF FactsBelow, ExecutableBlocks
  <2> QED  BY <2>1, ExecutableKnown DEF Claims
<1>2. AllBelow(lower.val, upper.val) /\ upper.edges \subseteq lower.edges
  BY DEF FactsBelow
<1>3. SccpRound(g, lower) = [val |-> [x \in DOMAIN g.origin |-> MeetAll(Given(g, lower, x))], edges |-> OpenEdges(g, lower)]
  BY RoundIs DEF Claims
<1>4. SccpRound(g, upper) = [val |-> [x \in DOMAIN g.origin |-> MeetAll(Given(g, upper, x))], edges |-> OpenEdges(g, upper)]
  BY RoundIs DEF Claims
<1>5. ASSUME NEW x, NEW y \in Given(g, upper, x) PROVE \E z \in Given(g, lower, x) : Below(z, y)
  <2>1. PICK b \in U :
          \/ \E k \in DOMAIN g.phis[b] :
               g.phis[b][k].result.name = x /\ y = PhiGiven(g, upper.val, upper.edges, b, g.phis[b][k])
          \/ \E i \in DOMAIN g.code[b] : WritesName(g.code[b][i], x) /\ y = ValueGiven(upper.val, g.code[b][i])
    BY GivenBy
  <2>2. b \in L
    BY <1>1
  <2>3. ASSUME NEW k \in DOMAIN g.phis[b], g.phis[b][k].result.name = x,
               y = PhiGiven(g, upper.val, upper.edges, b, g.phis[b][k])
        PROVE  \E z \in Given(g, lower, x) : Below(z, y)
    <3>1. PhiGiven(g, lower.val, lower.edges, b, g.phis[b][k]) \in Given(g, lower, x)
      BY <2>2, <2>3, GivenBy
    <3>2. Below(PhiGiven(g, lower.val, lower.edges, b, g.phis[b][k]), y)
      BY <1>2, <2>3, PhiFalls
    <3> QED  BY <3>1, <3>2
  <2>4. ASSUME NEW i \in DOMAIN g.code[b], WritesName(g.code[b][i], x), y = ValueGiven(upper.val, g.code[b][i])
        PROVE  \E z \in Given(g, lower, x) : Below(z, y)
    <3>1. ValueGiven(lower.val, g.code[b][i]) \in Given(g, lower, x)
      BY <2>2, <2>4, GivenBy
    <3>2. Below(ValueGiven(lower.val, g.code[b][i]), y)
      BY <1>2, <2>4, QuadFalls
    <3> QED  BY <3>1, <3>2
  <2> QED  BY <2>1, <2>3, <2>4
<1>6. \A x : Below(MeetAll(Given(g, lower, x)), MeetAll(Given(g, upper, x)))
  BY <1>5, MeetFalls
<1>7. OpenEdges(g, upper) \subseteq OpenEdges(g, lower)
  <2>1. \A b \in U : b \in L /\ Taken(g, upper.val, b) \subseteq Taken(g, lower.val, b)
    BY <1>1, <1>2, WaysOpen
  <2> QED  BY <2>1 DEF OpenEdges
<1> QED  BY <1>3, <1>4, <1>6, <1>7 DEF FactsBelow, AllBelow

LEMMA RoundFacts ==
  ASSUME NEW g, IsSSA(g), NEW st, Claims(g, st)
  PROVE  IsFacts(g, SccpRound(g, st))
<1>1. SccpRound(g, st) = [val |-> [x \in DOMAIN g.origin |-> MeetAll(Given(g, st, x))], edges |-> OpenEdges(g, st)]
  BY RoundIs DEF Claims
<1>2. \A b \in ExecutableBlocks(st.edges) : b \in Blocks(g) /\ Taken(g, st.val, b) \subseteq Blocks(g)
  <2>1. ExecutableBlocks(st.edges) \subseteq Blocks(g)
    BY ExecutableKnown DEF Claims
  <2>2. \A b \in Blocks(g) : Ways(g, st.val, b) \in Seq(Blocks(g))
    BY WaysKnown
  <2> QED  BY <2>1, <2>2 DEF Taken, ToSet
<1>3. OpenEdges(g, st) \subseteq Blocks(g) \X Blocks(g)
  BY <1>2 DEF OpenEdges
<1> QED  BY <1>1, <1>3 DEF IsFacts

-----------------------------------------------------------------------------
(* A round takes nothing from a solution, and facts a round leaves alone    *)
(* are one.                                                                 *)

LEMMA BelowMeet ==
  ASSUME NEW v, NEW S, \A y \in S : Below(v, y)
  PROVE  Below(v, MeetAll(S))
<1> DEFINE known == S \ {LatTop}
<1>1. CASE known = {}
  BY <1>1 DEF MeetAll, Below
<1>2. ASSUME NEW y \in known, known = {y} PROVE Below(v, MeetAll(S))
  <2>1. MeetAll(S) = y
    BY <1>2 DEF MeetAll
  <2> QED  BY <1>2, <2>1
<1>3. CASE known # {} /\ \A y \in known : known # {y}
  <2>1. PICK y \in known, z \in known : y # z
    BY <1>3
  <2>2. v = LatBottom
    BY <2>1 DEF Below
  <2>3. MeetAll(S) = LatBottom
    BY <1>3 DEF MeetAll
  <2> QED  BY <2>2, <2>3 DEF Below
<1> QED  BY <1>1, <1>2, <1>3

LEMMA MeetUnder ==
  ASSUME NEW S, NEW y \in S
  PROVE  Below(MeetAll(S), y)
<1> DEFINE known == S \ {LatTop}
<1>1. CASE y = LatTop
  BY <1>1 DEF Below
<1>2. CASE y # LatTop /\ known = {y}
  BY <1>2 DEF MeetAll, Below
<1>3. CASE y # LatTop /\ known # {y}
  <2>1. MeetAll(S) = LatBottom
    BY <1>3 DEF MeetAll
  <2> QED  BY <2>1 DEF Below
<1> QED  BY <1>1, <1>2, <1>3

LEMMA SolutionKept ==
  ASSUME NEW g, IsSSA(g), NEW st, Solves(g, st.val, st.edges)
  PROVE  Claims(g, st) /\ FactsBelow(st, SccpRound(g, st))
<1>1. Claims(g, st)
  BY DEF Solves, Claims
<1>2. SccpRound(g, st) = [val |-> [x \in DOMAIN g.origin |-> MeetAll(Given(g, st, x))], edges |-> OpenEdges(g, st)]
  BY <1>1, RoundIs DEF Claims
<1>3. ASSUME NEW x \in DOMAIN g.origin, NEW y \in Given(g, st, x) PROVE Below(st.val[x], y)
  <2>1. PICK b \in ExecutableBlocks(st.edges) :
          \/ \E k \in DOMAIN g.phis[b] :
               g.phis[b][k].result.name = x /\ y = PhiGiven(g, st.val, st.edges, b, g.phis[b][k])
          \/ \E i \in DOMAIN g.code[b] : WritesName(g.code[b][i], x) /\ y = ValueGiven(st.val, g.code[b][i])
    BY GivenBy
  <2> QED  BY <2>1 DEF Solves, WritesName
<1>4. \A x \in DOMAIN g.origin : Below(st.val[x], MeetAll(Given(g, st, x)))
  BY <1>3, BelowMeet
<1>5. OpenEdges(g, st) \subseteq st.edges
  BY DEF OpenEdges, Solves
<1> QED  BY <1>1, <1>2, <1>4, <1>5 DEF FactsBelow, AllBelow, Claims

LEMMA StableSolves ==
  ASSUME NEW g, IsSSA(g), NEW st, IsFacts(g, st), SccpRound(g, st) = st
  PROVE  Solves(g, st.val, st.edges)
<1>1. Claims(g, st)
  BY FactsClaim
<1>2. SccpRound(g, st) = [val |-> [x \in DOMAIN g.origin |-> MeetAll(Given(g, st, x))], edges |-> OpenEdges(g, st)]
  BY <1>1, RoundIs DEF Claims
<1>3. /\ \A x \in DOMAIN g.origin : st.val[x] = MeetAll(Given(g, st, x))
      /\ st.edges = OpenEdges(g, st)
  <2>1. st.val = [x \in DOMAIN g.origin |-> MeetAll(Given(g, st, x))] /\ st.edges = OpenEdges(g, st)
    BY <1>2
  <2> QED  BY <2>1
<1>4. ExecutableBlocks(st.edges) \subseteq Blocks(g)
  BY <1>1, ExecutableKnown DEF Claims
<1> SUFFICES ASSUME NEW b \in ExecutableBlocks(st.edges)
    PROVE  /\ \A i \in DOMAIN g.code[b] :
                Writes(g.code[b][i]) /\ g.code[b][i].result.name \in DOMAIN g.origin =>
                  Below(st.val[g.code[b][i].result.name], ValueGiven(st.val, g.code[b][i]))
           /\ \A k \in DOMAIN g.phis[b] :
                Below(st.val[g.phis[b][k].result.name], PhiGiven(g, st.val, st.edges, b, g.phis[b][k]))
           /\ {b} \X Taken(g, st.val, b) \subseteq st.edges
  BY <1>1 DEF Solves, Claims
<1>5. ASSUME NEW i \in DOMAIN g.code[b], Writes(g.code[b][i]), g.code[b][i].result.name \in DOMAIN g.origin
      PROVE  Below(st.val[g.code[b][i].result.name], ValueGiven(st.val, g.code[b][i]))
  <2>1. ValueGiven(st.val, g.code[b][i]) \in Given(g, st, g.code[b][i].result.name)
    BY <1>5, GivenBy DEF WritesName
  <2> QED  BY <1>3, <1>5, <2>1, MeetUnder
<1>6. ASSUME NEW k \in DOMAIN g.phis[b]
      PROVE  Below(st.val[g.phis[b][k].result.name], PhiGiven(g, st.val, st.edges, b, g.phis[b][k]))
  <2>1. g.phis[b][k].result.name \in DOMAIN g.origin
    BY <1>4 DEF IsSSA
  <2>2. PhiGiven(g, st.val, st.edges, b, g.phis[b][k]) \in Given(g, st, g.phis[b][k].result.name)
    BY GivenBy
  <2> QED  BY <1>3, <2>1, <2>2, MeetUnder
<1>7. {b} \X Taken(g, st.val, b) \subseteq st.edges
  BY <1>3 DEF OpenEdges
<1> QED  BY <1>5, <1>6, <1>7

-----------------------------------------------------------------------------
(* The rounds end: each moves a name or finds an edge.                      *)

Moved(g, st)  == {x \in DOMAIN g.origin : st.val[x] # LatTop}
Varied(g, st) == {x \in DOMAIN g.origin : st.val[x] = LatBottom}
Rank(g, st)   == Cardinality(Moved(g, st)) + Cardinality(Varied(g, st)) + Cardinality(st.edges)
Most(g)       == 2 * Cardinality(DOMAIN g.origin) + Cardinality(Blocks(g) \X Blocks(g))

(* A set of a finite set: its size, and that of a set it has and is not.     *)
LEMMA Sizes ==
  ASSUME NEW S, IsFiniteSet(S), NEW T \in SUBSET S, NEW U \in SUBSET T
  PROVE  /\ Cardinality(S) \in Nat /\ Cardinality(T) \in Nat /\ Cardinality(U) \in Nat
         /\ Cardinality(T) <= Cardinality(S) /\ Cardinality(U) <= Cardinality(T)
         /\ U # T => Cardinality(U) + 1 <= Cardinality(T)
<1>1. IsFiniteSet(T) /\ Cardinality(T) <= Cardinality(S)
  BY FS_Subset
<1>2. IsFiniteSet(U) /\ Cardinality(U) <= Cardinality(T) /\ (Cardinality(T) = Cardinality(U) => T = U)
  BY <1>1, FS_Subset
<1>3. Cardinality(S) \in Nat /\ Cardinality(T) \in Nat /\ Cardinality(U) \in Nat
  BY <1>1, <1>2, FS_CardinalityType
<1> QED  BY <1>1, <1>2, <1>3

LEMMA RankGrows ==
  ASSUME NEW g, IsSSA(g), NEW lower, IsFacts(g, lower), NEW upper, IsFacts(g, upper), FactsBelow(lower, upper)
  PROVE  /\ Rank(g, lower) \in Nat /\ Rank(g, upper) \in Nat /\ Most(g) \in Nat
         /\ Rank(g, lower) <= Most(g)
         /\ lower # upper => Rank(g, upper) + 1 <= Rank(g, lower)
<1> DEFINE X == DOMAIN g.origin
           E == Blocks(g) \X Blocks(g)
           m == Cardinality(X)
           e == Cardinality(E)
           lm == Cardinality(Moved(g, lower))
           lv == Cardinality(Varied(g, lower))
           le == Cardinality(lower.edges)
           um == Cardinality(Moved(g, upper))
           uv == Cardinality(Varied(g, upper))
           ue == Cardinality(upper.edges)
<1>1. IsFiniteSet(X) /\ IsFiniteSet(E)
  BY FS_Product DEF IsSSA
<1>2. AllBelow(lower.val, upper.val) /\ upper.edges \subseteq lower.edges /\ lower.edges \subseteq E
  BY DEF FactsBelow, IsFacts
<1>3. DOMAIN upper.val = X /\ \A x \in X : Below(lower.val[x], upper.val[x])
  BY <1>2 DEF AllBelow, IsFacts
<1>4. Moved(g, lower) \in SUBSET X /\ Moved(g, upper) \in SUBSET Moved(g, lower)
  BY <1>3, Levels DEF Moved, Below
<1>5. Varied(g, lower) \in SUBSET X /\ Varied(g, upper) \in SUBSET Varied(g, lower)
  BY <1>3, Levels DEF Varied, Below
<1>6. lower # upper =>
        Moved(g, upper) # Moved(g, lower) \/ Varied(g, upper) # Varied(g, lower) \/ upper.edges # lower.edges
  <2> SUFFICES ASSUME Moved(g, upper) = Moved(g, lower), Varied(g, upper) = Varied(g, lower), upper.edges = lower.edges
               PROVE  lower = upper
    OBVIOUS
  <2>1. \A x \in X : lower.val[x] = upper.val[x]
    BY <1>3, Levels DEF Below, Moved, Varied
  <2>2. lower.val = [x \in X |-> lower.val[x]] /\ upper.val = [x \in X |-> upper.val[x]]
    BY DEF IsFacts
  <2>3. lower.val = upper.val
    <3> HIDE DEF X
    <3> QED  BY <2>1, <2>2
  <2>4. lower = [val |-> lower.val, edges |-> lower.edges] /\ upper = [val |-> upper.val, edges |-> upper.edges]
    BY DEF IsFacts
  <2> QED  BY <2>3, <2>4
<1> HIDE DEF X, E
<1>7. m \in Nat /\ lm \in Nat /\ um \in Nat /\ lm <= m /\ um <= lm /\ (Moved(g, upper) # Moved(g, lower) => um + 1 <= lm)
  BY <1>1, <1>4, Sizes
<1>8. lv \in Nat /\ uv \in Nat /\ lv <= m /\ uv <= lv /\ (Varied(g, upper) # Varied(g, lower) => uv + 1 <= lv)
  BY <1>1, <1>5, Sizes
<1>9. e \in Nat /\ le \in Nat /\ ue \in Nat /\ le <= e /\ ue <= le /\ (upper.edges # lower.edges => ue + 1 <= le)
  BY <1>1, <1>2, Sizes
<1>10. Rank(g, lower) = lm + lv + le /\ Rank(g, upper) = um + uv + ue /\ Most(g) = 2 * m + e
  BY DEF Rank, Most, X, E
<1> HIDE DEF m, e, lm, lv, le, um, uv, ue
<1> QED  BY <1>6, <1>7, <1>8, <1>9, <1>10

IsRounds(f, g, n) == f = [i \in 0 .. n |-> IF i = 0 THEN Nothing(g) ELSE SccpRound(g, f[i - 1])]

LEMMA RoundsExtend ==
  ASSUME NEW g, NEW n \in Nat, NEW f, IsRounds(f, g, n)
  PROVE  \E h : IsRounds(h, g, n + 1)
<1> DEFINE h == [i \in 0 .. n + 1 |-> IF i = n + 1 THEN SccpRound(g, f[n]) ELSE f[i]]
<1>1. \A i \in 0 .. n : f[i] = IF i = 0 THEN Nothing(g) ELSE SccpRound(g, f[i - 1])
  BY DEF IsRounds
<1>2. \A i \in 0 .. n + 1 : h[i] = IF i = 0 THEN Nothing(g) ELSE SccpRound(g, h[i - 1])
  <2> SUFFICES ASSUME NEW i \in 0 .. n + 1
               PROVE  h[i] = IF i = 0 THEN Nothing(g) ELSE SccpRound(g, h[i - 1])
    OBVIOUS
  <2>1. CASE i = n + 1
    <3>1. i # 0 /\ i - 1 = n /\ h[i - 1] = f[n] /\ h[i] = SccpRound(g, f[n])
      BY <2>1
    <3> QED  BY <3>1
  <2>2. CASE i # n + 1
    <3>1. i \in 0 .. n /\ h[i] = f[i] /\ (i # 0 => h[i - 1] = f[i - 1])
      BY <2>2
    <3> QED  BY <1>1, <3>1
  <2> QED  BY <2>1, <2>2
<1>3. IsRounds(h, g, n + 1)
  BY <1>2 DEF IsRounds
<1> QED  BY <1>3

LEMMA RoundsExist ==
  ASSUME NEW g, NEW L \in Nat
  PROVE  \E f : IsRounds(f, g, L)
<1> DEFINE G == {n \in Nat : \E f : IsRounds(f, g, n)}
<1>1. 0 \in G
  <2>1. IsRounds([i \in 0 .. 0 |-> Nothing(g)], g, 0)
    BY DEF IsRounds
  <2> QED  BY <2>1
<1>2. \A n \in 0 .. L : n \in G /\ n < L => n + 1 \in G
  BY RoundsExtend
<1>3. L \in G
  <2>1. L \in 0 .. L
    OBVIOUS
  <2> HIDE DEF G
  <2> QED  BY <1>1, <1>2, <2>1, SetInduction
<1> QED  BY <1>3

(* After n rounds: the facts have fallen within every solution, and the      *)
(* next round leaves them alone or n steps have been made.                  *)
AfterRounds(g, st, n) ==
  /\ IsFacts(g, st)
  /\ FactsBelow(SccpRound(g, st), st)
  /\ \A v, edges : Solves(g, v, edges) => FactsBelow([val |-> v, edges |-> edges], st)
  /\ SccpRound(g, st) = st \/ Rank(g, st) >= n

LEMMA NothingKnown == ASSUME NEW g, IsSSA(g) PROVE AfterRounds(g, Nothing(g), 0)
<1> DEFINE st == Nothing(g)
<1>1. IsFacts(g, st) /\ Claims(g, st)
  <2>1. IsFacts(g, st)
    BY DEF IsFacts, Nothing
  <2> QED  BY <2>1, FactsClaim
<1>2. IsFacts(g, SccpRound(g, st))
  BY <1>1, RoundFacts
<1>3. ASSUME NEW to, DOMAIN to.val = DOMAIN g.origin PROVE FactsBelow(to, st)
  BY <1>3 DEF Nothing, FactsBelow, AllBelow, Below
<1>4. FactsBelow(SccpRound(g, st), st)
  BY <1>2, <1>3 DEF IsFacts
<1>5. Rank(g, st) \in Nat
  BY <1>1, <1>2, <1>4, RankGrows
<1>6. ASSUME NEW v, NEW edges, Solves(g, v, edges) PROVE FactsBelow([val |-> v, edges |-> edges], st)
  BY <1>3, <1>6 DEF Solves
<1>7. AfterRounds(g, st, 0)
  <2> HIDE DEF st
  <2> QED  BY <1>1, <1>4, <1>5, <1>6 DEF AfterRounds
<1> QED  BY <1>7

LEMMA OneRound ==
  ASSUME NEW g, IsSSA(g), NEW n \in Nat, NEW was, AfterRounds(g, was, n)
  PROVE  AfterRounds(g, SccpRound(g, was), n + 1)
<1> DEFINE is == SccpRound(g, was)
           to == SccpRound(g, is)
<1>1. /\ IsFacts(g, was) /\ FactsBelow(is, was) /\ (is = was \/ Rank(g, was) >= n)
      /\ \A v, edges : Solves(g, v, edges) => FactsBelow([val |-> v, edges |-> edges], was)
  BY DEF AfterRounds
<1>2. CASE is = was
  BY <1>1, <1>2 DEF AfterRounds
<1>3. CASE is # was
  <2>1. Claims(g, was) /\ IsFacts(g, is) /\ Claims(g, is)
    BY <1>1, FactsClaim, RoundFacts
  <2>2. FactsBelow(to, is)
    BY <1>1, <2>1, RoundFalls
  <2>3. ASSUME NEW v, NEW edges, Solves(g, v, edges) PROVE FactsBelow([val |-> v, edges |-> edges], is)
    <3> DEFINE sol == [val |-> v, edges |-> edges]
    <3>1. Solves(g, sol.val, sol.edges) /\ FactsBelow(sol, was)
      BY <1>1, <2>3
    <3> HIDE DEF sol
    <3>2. Claims(g, sol) /\ FactsBelow(sol, SccpRound(g, sol))
      BY <3>1, SolutionKept
    <3>3. FactsBelow(SccpRound(g, sol), is)
      BY <1>1, <2>1, <3>1, <3>2, RoundFalls
    <3>4. FactsBelow(sol, is)
      BY <3>2, <3>3, BelowAgain DEF FactsBelow, AllBelow
    <3> QED  BY <3>4 DEF sol
  <2>4. Rank(g, is) \in Nat /\ Rank(g, was) \in Nat /\ Rank(g, was) + 1 <= Rank(g, is)
    BY <1>1, <1>3, <2>1, RankGrows
  <2>5. Rank(g, is) >= n + 1
    BY <1>1, <1>3, <2>4
  <2>6. AfterRounds(g, is, n + 1)
    <3> HIDE DEF is
    <3> QED  BY <2>1, <2>2, <2>3, <2>5 DEF AfterRounds
  <2> QED  BY <2>6
<1> QED  BY <1>2, <1>3

(* A solution that claims whatever any solution claims.                     *)
Best(g, v, edges) ==
  /\ Solves(g, v, edges)
  /\ \A w, more : Solves(g, w, more) => AllBelow(w, v) /\ edges \subseteq more

LEMMA OneBest ==
  ASSUME NEW g, NEW st, IsFacts(g, st), Best(g, st.val, st.edges),
         NEW v, v = [x \in DOMAIN g.origin |-> v[x]], NEW edges, Best(g, v, edges)
  PROVE  v = st.val /\ edges = st.edges
<1>1. /\ AllBelow(v, st.val) /\ st.edges \subseteq edges
      /\ AllBelow(st.val, v) /\ edges \subseteq st.edges
  BY Zenon DEF Best
<1>2. \A x \in DOMAIN g.origin : v[x] = st.val[x]
  BY <1>1, BelowBoth DEF AllBelow, IsFacts
<1>3. st.val = [x \in DOMAIN g.origin |-> st.val[x]]
  BY DEF IsFacts
<1> QED  BY <1>1, <1>2, <1>3

(* The rounds of SccpFacts end in a solution, and no solution knows more of *)
(* a name or does with fewer edges.                                         *)
THEOREM FactsAreBest ==
  ASSUME NEW g, IsSSA(g)
  PROVE  IsFacts(g, SccpFacts(g)) /\ Best(g, SccpFacts(g).val, SccpFacts(g).edges)
<1> DEFINE N == Most(g)
           f == CHOOSE h : IsRounds(h, g, N)
           ends == CHOOSE n \in 0 .. N : SccpRound(g, f[n]) = f[n]
           st == f[ends]
<1>1. N \in Nat
  <2>1. IsFacts(g, Nothing(g)) /\ FactsBelow(Nothing(g), Nothing(g))
    BY BelowItself DEF IsFacts, Nothing, FactsBelow, AllBelow
  <2> QED  BY <2>1, RankGrows
<1>2. IsRounds(f, g, N)
  <2> HIDE DEF N
  <2> QED  BY <1>1, RoundsExist
<1>3. SccpFacts(g) = st
  BY DEF SccpFacts, IsRounds, Nothing, Most
<1> HIDE DEF f, N
<1>4. \A n \in 0 .. N : f[n] = IF n = 0 THEN Nothing(g) ELSE SccpRound(g, f[n - 1])
  BY <1>2 DEF IsRounds
<1> DEFINE G == {n \in Nat : AfterRounds(g, f[n], n)}
<1>5. 0 \in G
  BY <1>1, <1>4, NothingKnown
<1>6. \A n \in 0 .. N : n \in G /\ n < N => n + 1 \in G
  <2> SUFFICES ASSUME NEW n \in 0 .. N, n \in G, n < N PROVE n + 1 \in G
    OBVIOUS
  <2>1. AfterRounds(g, SccpRound(g, f[n]), n + 1)
    BY OneRound
  <2>2. f[n + 1] = SccpRound(g, f[n])
    <3>1. n + 1 \in 0 .. N /\ n + 1 # 0 /\ (n + 1) - 1 = n
      BY <1>1
    <3> QED  BY <1>4, <3>1
  <2> QED  BY <2>1, <2>2
<1>7. \A n \in 0 .. N : AfterRounds(g, f[n], n)
  <2>1. \A n \in 0 .. N : n \in G
    <3> HIDE DEF G
    <3> QED  BY <1>1, <1>5, <1>6, SetInduction
  <2> QED  BY <2>1
<1>8. SccpRound(g, f[N]) = f[N]
  <2> SUFFICES ASSUME SccpRound(g, f[N]) # f[N] PROVE FALSE
    OBVIOUS
  <2>1. IsFacts(g, f[N]) /\ FactsBelow(SccpRound(g, f[N]), f[N]) /\ Rank(g, f[N]) >= N
    BY <1>1, <1>7 DEF AfterRounds
  <2>2. IsFacts(g, SccpRound(g, f[N]))
    BY <2>1, FactsClaim, RoundFacts
  <2>3. /\ Rank(g, SccpRound(g, f[N])) \in Nat /\ Rank(g, f[N]) \in Nat
        /\ Rank(g, SccpRound(g, f[N])) <= N /\ Rank(g, f[N]) + 1 <= Rank(g, SccpRound(g, f[N]))
    BY <2>1, <2>2, RankGrows DEF N
  <2> QED  BY <1>1, <2>1, <2>3
<1>9. ends \in 0 .. N /\ SccpRound(g, st) = st
  BY <1>1, <1>8
<1>10. AfterRounds(g, st, ends)
  BY <1>7, <1>9
<1> HIDE DEF st, ends, G
<1>11. Solves(g, st.val, st.edges)
  BY <1>9, <1>10, StableSolves DEF AfterRounds
<1>12. ASSUME NEW w, NEW more, Solves(g, w, more) PROVE AllBelow(w, st.val) /\ st.edges \subseteq more
  <2>1. FactsBelow([val |-> w, edges |-> more], st)
    BY <1>10, <1>12 DEF AfterRounds
  <2> QED  BY <2>1 DEF FactsBelow
<1> QED  BY <1>3, <1>10, <1>11, <1>12 DEF Best, AfterRounds

-----------------------------------------------------------------------------
(* What the lists settle on.                                                *)

LEMMA EndsInBest ==
  IInv /\ EndInv /\ Settled => Best(graph, val, execEdge) /\ execBlock = ExecutableBlocks(execEdge)
<1> SUFFICES ASSUME IInv, EndInv, Settled
             PROVE  Best(graph, val, execEdge) /\ execBlock = ExecutableBlocks(execEdge)
  OBVIOUS
<1>1. State.val = val /\ State.execEdge = execEdge /\ State.flowWork = <<>> /\ State.ssaWork = <<>>
  BY DEF State, Settled
<1> HIDE DEF State
<1>2. ToSet(<<>>) = {}
  BY DEF ToSet
<1>3. execBlock = ExecutableBlocks(execEdge)
  BY <1>1, <1>2 DEF EndInv, Covers, ExecutableBlocks
<1>4. DOMAIN val = DOMAIN graph.origin /\ execEdge \subseteq Edges(graph) /\ IsSSA(graph)
  BY <1>1, GraphsAssumption DEF IInv, Sound, StateOK, EndInv, Covers
<1>5. ASSUME NEW b \in execBlock, NEW i \in DOMAIN graph.code[b]
      PROVE  /\ Writes(graph.code[b][i]) /\ graph.code[b][i].result.name \in DOMAIN graph.origin =>
                  Below(val[graph.code[b][i].result.name], ValueGiven(val, graph.code[b][i]))
             /\ i = Len(graph.code[b]) => {b} \X Taken(graph, val, b) \subseteq execEdge
  <2>1. QuadFine(graph, State, b, i)
    BY DEF IInv, AllFine
  <2> QED  BY <1>1, <1>2, <1>4, <2>1, BelowItself DEF QuadFine
<1>6. ASSUME NEW b \in execBlock, NEW k \in DOMAIN graph.phis[b]
      PROVE  Below(val[graph.phis[b][k].result.name], PhiGiven(graph, val, execEdge, b, graph.phis[b][k]))
  <2>1. PhiFine(graph, State, b, k)
    BY DEF IInv, AllFine
  <2> QED  BY <1>1, <1>2, <2>1, BelowItself DEF PhiFine, PhisQueued
<1>7. ASSUME NEW b \in execBlock PROVE {b} \X Taken(graph, val, b) \subseteq execEdge
  <2>1. CASE graph.code[b] = <<>>
    <3>1. Taken(graph, val, b) = ToSet(graph.succs[b])
      BY <2>1 DEF Taken, Ways, Terminator
    <3> QED  BY <1>1, <2>1, <3>1 DEF EndInv, Covers
  <2>2. CASE graph.code[b] # <<>>
    <3>1. b \in Blocks(graph)
      BY DEF IInv
    <3>2. Len(graph.code[b]) \in DOMAIN graph.code[b]
      BY <1>4, <2>2, <3>1 DEF IsSSA
    <3> QED  BY <1>5, <3>2
  <2> QED  BY <2>1, <2>2
<1>8. Solves(graph, val, execEdge)
  BY <1>3, <1>4, <1>5, <1>6, <1>7 DEF Solves
<1>9. \A w, more : Solves(graph, w, more) => AllBelow(w, val) /\ execEdge \subseteq more
  BY <1>1 DEF EndInv, WithinAll, Within
<1> QED  BY <1>3, <1>8, <1>9 DEF Best

(* For every graph in SSA form: when both lists are empty, what is known     *)
(* solves the equations, and no solution knows more of a name or does with   *)
(* fewer edges; the blocks that ran are those the edges lead to.  So the    *)
(* order in which sccp.cpp takes its two lists does not matter.             *)
THEOREM SettlesOnBest ==
  Spec => [](Settled => Best(graph, val, execEdge) /\ execBlock = ExecutableBlocks(execEdge))
BY Invariant, EndInvariant, EndsInBest, PTL

(* So the rounds of SccpFacts, which module SSAPasses takes for what the     *)
(* lists settle on, give exactly that, whatever the order of the work.      *)
THEOREM SettlesOnTheFacts == Spec => []SettlesOnFacts
<1>1. IInv /\ EndInv => SettlesOnFacts
  <2> SUFFICES ASSUME IInv, EndInv, Settled
               PROVE  val = SccpFacts(graph).val /\ execEdge = SccpFacts(graph).edges /\ execBlock = ExecutableBlocks(SccpFacts(graph).edges)
    BY DEF SettlesOnFacts
  <2>1. Best(graph, val, execEdge) /\ execBlock = ExecutableBlocks(execEdge)
    BY EndsInBest
  <2>2. val = [x \in DOMAIN graph.origin |-> val[x]] /\ IsSSA(graph)
    <3>1. State.val = val
      BY DEF State
    <3> HIDE DEF State
    <3> QED  BY <3>1, GraphsAssumption DEF IInv, Sound, StateOK
  <2>3. IsFacts(graph, SccpFacts(graph)) /\ Best(graph, SccpFacts(graph).val, SccpFacts(graph).edges)
    BY <2>2, FactsAreBest
  <2>4. val = SccpFacts(graph).val /\ execEdge = SccpFacts(graph).edges
    BY <2>1, <2>2, <2>3, OneBest
  <2> QED  BY <2>1, <2>4
<1> QED  BY Invariant, EndInvariant, <1>1, PTL
=============================================================================
