---------------------------- MODULE LockstepProofs ----------------------------
(***************************************************************************)
(* The VM simulates the quad interpreter, whatever the lowered program.     *)
(***************************************************************************)
EXTENDS Lockstep, GraphProofs, SequenceTheorems

-----------------------------------------------------------------------------
(* What the VM computes with is what the interpreter does: its module has a *)
(* copy of every operator of Quads.                                         *)

LEMMA SameTables ==
  /\ \A S : Vm!Cardinality(S) = Cardinality(S)
  /\ \A store, x, v : Vm!Bound(store, x, v) = Bound(store, x, v)
  /\ \A s, v : Vm!After(s, v) = v
<1>1. \A S : Vm!Cardinality(S) = Cardinality(S)
  BY DEF Vm!Cardinality, Cardinality
<1>2. \A store, x, v : Vm!Bound(store, x, v) = Bound(store, x, v)
  BY DEF Vm!Bound, Vm!Whole, Bound, Whole
<1>3. \A s, v : Vm!After(s, v) = v
  BY DEF Vm!After, Vm!Whole
<1> QED  BY <1>1, <1>2, <1>3

LEMMA SameOperands ==
  /\ \A o : (Vm!IsConst(o) <=> IsConst(o)) /\ (Vm!IsGlobal(o) <=> IsGlobal(o))
  /\ Vm!UnaryExprOps = UnaryExprOps /\ Vm!BinaryExprOps = BinaryExprOps
<1>1. \A o : (Vm!IsConst(o) <=> IsConst(o)) /\ (Vm!IsGlobal(o) <=> IsGlobal(o))
  BY DEF Vm!IsConst, IsConst, Vm!IsGlobal, IsGlobal
<1>2. Vm!UnaryExprOps = UnaryExprOps /\ Vm!BinaryExprOps = BinaryExprOps
  BY DEF Vm!UnaryExprOps, UnaryExprOps, Vm!BinaryExprOps, BinaryExprOps, Vm!Comparisons, Comparisons,
         Vm!TrappingOps, TrappingOps
<1> QED  BY <1>1, <1>2

LEMMA SameValues ==
  /\ \A n : Vm!Num(n) = Num(n) /\ Vm!Zeros(n) = Zeros(n)
  /\ \A v : Vm!IntOf(v) = IntOf(v) /\ (Vm!Truthy(v) <=> Truthy(v))
  /\ \A heap : Vm!NewArray(heap) = NewArray(heap)
<1>1. \A n : Vm!Num(n) = Num(n) /\ Vm!Zeros(n) = Zeros(n)
  BY DEF Vm!Num, Num, Vm!Zeros, Zeros
<1>2. \A v : Vm!IntOf(v) = IntOf(v) /\ (Vm!Truthy(v) <=> Truthy(v))
  BY DEF Vm!IntOf, IntOf, Vm!IsAddress, IsAddress, Vm!Truthy, Truthy
<1>3. \A heap : Vm!NewArray(heap) = NewArray(heap)
  BY DEF Vm!NewArray, NewArray, Vm!PointerAt, PointerAt
<1> QED  BY <1>1, <1>2, <1>3

LEMMA SameMemory ==
  /\ \A heap, p, i : Vm!SlotFault(heap, p, i) = SlotFault(heap, p, i) /\ Vm!Peek(heap, p, i) = Peek(heap, p, i)
  /\ \A heap, p, i, v : Vm!Poke(heap, p, i, v) = Poke(heap, p, i, v)
  /\ \A heap, p, r, n : Vm!MoveFault(heap, p, r, n) = MoveFault(heap, p, r, n) /\ Vm!Move(heap, p, r, n) = Move(heap, p, r, n)
<1>1. \A heap, p, i : Vm!SlotFault(heap, p, i) = SlotFault(heap, p, i) /\ Vm!Peek(heap, p, i) = Peek(heap, p, i)
  BY DEF Vm!SlotFault, SlotFault, Vm!IsNull, IsNull, Vm!Num, Num, Vm!IsAddress, IsAddress, Vm!Peek, Peek
<1>2. \A heap, p, i, v : Vm!Poke(heap, p, i, v) = Poke(heap, p, i, v)
  BY DEF Vm!Poke, Poke
<1>3. \A heap, p, r, n : Vm!MoveFault(heap, p, r, n) = MoveFault(heap, p, r, n)
  BY DEF Vm!MoveFault, MoveFault, Vm!IsNull, IsNull, Vm!Num, Num, Vm!IsAddress, IsAddress, Vm!RunInside, RunInside
<1>4. \A heap, p, r, n : Vm!Move(heap, p, r, n) = Move(heap, p, r, n)
  BY DEF Vm!Move, Move, Vm!Peek, Peek
<1> QED  BY <1>1, <1>2, <1>3, <1>4

LEMMA SameArithmetic ==
  /\ \A op, a, b, ty : Vm!BinaryFault(op, a, b, ty) = BinaryFault(op, a, b, ty)
  /\ \A op, a, b, ty : Vm!Binary(op, a, b, ty) = Binary(op, a, b, ty)
  /\ \A op, a, ty : Vm!Unary(op, a, ty) = Unary(op, a, ty)
<1>1. /\ \A n : Vm!Num(n) = Num(n)
      /\ \A b : Vm!Bool(b) = Bool(b)
      /\ \A v : Vm!IntOf(v) = IntOf(v) /\ (Vm!Truthy(v) <=> Truthy(v)) /\ (Vm!IsAddress(v) <=> IsAddress(v))
  BY SameValues DEF Vm!Bool, Bool, Vm!IsAddress, IsAddress
<1>2. \A v, ty : Vm!WrapInt(v, ty) = WrapInt(v, ty)
  BY DEF Vm!WrapInt, WrapInt, Vm!Signed, Signed, Vm!IsUnsigned, IsUnsigned, Vm!IntBits, IntBits
<1>3. \A op, a, b : Vm!Arithmetic(op, a, b) = Arithmetic(op, a, b)
  BY DEF Vm!Arithmetic, Arithmetic, Vm!TruncDiv, TruncDiv, Vm!Abs, Abs
<1>4. \A op, a, b : Vm!Holds(op, a, b) = Holds(op, a, b)
  BY DEF Vm!Holds, Holds
<1>5. \A op, a, b, ty : Vm!BinaryValue(op, a, b, ty) = BinaryValue(op, a, b, ty)
  BY <1>1, <1>2, <1>3, <1>4 DEF Vm!BinaryValue, BinaryValue, Vm!Comparisons, Comparisons
<1>6. \A op, a, b, ty : Vm!BinaryFault(op, a, b, ty) = BinaryFault(op, a, b, ty)
  BY DEF Vm!BinaryFault, BinaryFault, Vm!OnPointers, OnPointers, Vm!PointerFault, PointerFault, Vm!NumberFault, NumberFault,
         Vm!Traps, Traps, Vm!IntBits, IntBits, Vm!IsAddress, IsAddress
<1>7. \A op, a, b : Vm!PointerValue(op, a, b) = PointerValue(op, a, b)
  BY <1>1, <1>5 DEF Vm!PointerValue, PointerValue, Vm!PointerAt, PointerAt
<1>8. \A op, a, b, ty : Vm!Binary(op, a, b, ty) = Binary(op, a, b, ty)
  BY <1>1, <1>5, <1>7 DEF Vm!Binary, Binary, Vm!OnPointers, OnPointers
<1>9. ASSUME NEW op, NEW a, NEW ty PROVE Vm!Unary(op, a, ty) = Unary(op, a, ty)
  <2>1. ASSUME NEW v PROVE Vm!UnaryValue(op, v, ty) = UnaryValue(op, v, ty)
    <3> DEFINE n == CASE op = "NEG" -> -v [] op = "BITNOT" -> -v - 1 [] op = "TO_INT" -> v
    <3>1. /\ Vm!UnaryValue(op, v, ty) = IF op = "NOT" THEN Vm!Bool(v = 0) ELSE Vm!WrapInt(n, ty)
          /\ UnaryValue(op, v, ty) = IF op = "NOT" THEN Bool(v = 0) ELSE WrapInt(n, ty)
      BY Zenon DEF Vm!UnaryValue, UnaryValue
    <3> HIDE DEF n
    <3> QED  BY <1>1, <1>2, <3>1
  <2> QED  BY <1>1, <2>1 DEF Vm!Unary, Unary
<1> QED  BY <1>6, <1>8, <1>9

-----------------------------------------------------------------------------
(* Sequences.                                                               *)

IsSequence(s) == \E S : s \in Seq(S)

LEMMA SequenceFacts ==
  ASSUME NEW s, IsSequence(s)
  PROVE  Len(s) \in Nat /\ DOMAIN s = 1 .. Len(s)
<1>1. PICK S : s \in Seq(S)
  BY DEF IsSequence
<1> QED  BY <1>1

LEMMA Appended ==
  ASSUME NEW s, IsSequence(s), NEW x
  PROVE  /\ IsSequence(Append(s, x)) /\ Len(Append(s, x)) = Len(s) + 1 /\ Append(s, x)[Len(s) + 1] = x
         /\ \A k \in 1 .. Len(s) : Append(s, x)[k] = s[k]
<1>1. PICK S : s \in Seq(S)
  BY DEF IsSequence
<1> DEFINE T == S \cup {x}
<1>2. s \in Seq(T) /\ x \in T
  BY <1>1
<1> HIDE DEF T
<1>3. Append(s, x) \in Seq(T) /\ Len(Append(s, x)) = Len(s) + 1 /\ Append(s, x)[Len(s) + 1] = x
      /\ \A k \in 1 .. Len(s) : Append(s, x)[k] = s[k]
  BY <1>2
<1> QED  BY <1>3 DEF IsSequence

LEMMA Replaced ==
  ASSUME NEW s, IsSequence(s), NEW n \in DOMAIN s, NEW x
  PROVE  /\ IsSequence([s EXCEPT ![n] = x]) /\ Len([s EXCEPT ![n] = x]) = Len(s) /\ [s EXCEPT ![n] = x][n] = x
         /\ \A k \in DOMAIN s \ {n} : [s EXCEPT ![n] = x][k] = s[k]
<1>1. PICK S : s \in Seq(S)
  BY DEF IsSequence
<1> DEFINE T == S \cup {x}
<1>2. s \in Seq(T) /\ x \in T
  BY <1>1
<1> HIDE DEF T
<1>3. [s EXCEPT ![n] = x] \in Seq(T) /\ Len([s EXCEPT ![n] = x]) = Len(s)
  BY <1>2
<1>4. [s EXCEPT ![n] = x][n] = x /\ \A k \in DOMAIN s \ {n} : [s EXCEPT ![n] = x][k] = s[k]
  OBVIOUS
<1> QED  BY <1>3, <1>4 DEF IsSequence

LEMMA Popped ==
  ASSUME NEW s, IsSequence(s), Len(s) >= 1
  PROVE  /\ IsSequence(SubSeq(s, 1, Len(s) - 1)) /\ Len(SubSeq(s, 1, Len(s) - 1)) = Len(s) - 1
         /\ \A k \in 1 .. Len(s) - 1 : SubSeq(s, 1, Len(s) - 1)[k] = s[k]
<1>1. PICK S : s \in Seq(S)
  BY DEF IsSequence
<1> DEFINE n == Len(s) - 1
           t == SubSeq(s, 1, n)
<1>2. n \in Nat /\ \A k \in 1 .. n : s[k] \in S
  BY <1>1
<1> HIDE DEF n
<1>3. t \in Seq(S) /\ Len(t) = (IF 1 <= n THEN n - 1 + 1 ELSE 0) /\ \A k \in 1 .. n - 1 + 1 : t[k] = s[1 + k - 1]
  BY <1>2, SubSeqProperties
<1>4. Len(t) = n /\ \A k \in 1 .. n : t[k] = s[k]
  BY <1>2, <1>3
<1> QED  BY <1>3, <1>4 DEF IsSequence, n

-----------------------------------------------------------------------------
(* Stores, and the numbers of names.                                        *)

LEMMA BoundFacts ==
  ASSUME NEW store, NEW x, NEW v
  PROVE  LET new == Bound(store, x, v)
         IN  /\ DOMAIN new = DOMAIN store \cup {x} /\ new[x] = v
             /\ \A y \in DOMAIN store \ {x} : new[y] = store[y]
             /\ new = [y \in DOMAIN new |-> new[y]]
BY DEF Bound, Whole

LEMMA LookupBound ==
  ASSUME NEW store, NEW x, NEW v, NEW y
  PROVE  Lookup(Bound(store, x, v), y) = IF y = x THEN v ELSE Lookup(store, y)
<1> DEFINE new == Bound(store, x, v)
<1>1. DOMAIN new = DOMAIN store \cup {x} /\ new[x] = v /\ \A z \in DOMAIN store \ {x} : new[z] = store[z]
  BY DEF Bound, Whole
<1> HIDE DEF new
<1>2. Lookup(new, y) = IF y = x THEN v ELSE Lookup(store, y)
  BY <1>1 DEF Lookup
<1> QED  BY <1>2 DEF new

(* The names of a table have the numbers from 0, one each.                  *)
Numbering(t) ==
  /\ IsFiniteSet(DOMAIN t)
  /\ t \in [DOMAIN t -> 0 .. Cardinality(DOMAIN t) - 1]
  /\ \A x, y \in DOMAIN t : t[x] = t[y] => x = y

Extends(t, u) == DOMAIN t \subseteq DOMAIN u /\ \A x \in DOMAIN t : u[x] = t[x]

LEMMA NothingNumbered == Numbering(<<>>)
<1>1. DOMAIN <<>> = {}
  OBVIOUS
<1> QED  BY <1>1, FS_EmptySet DEF Numbering

LEMMA NumberGiven ==
  ASSUME NEW t, Numbering(t), NEW x
  PROVE  /\ Numbering(Vm!Numbered(t, x)) /\ Extends(t, Vm!Numbered(t, x))
         /\ DOMAIN Vm!Numbered(t, x) = DOMAIN t \cup {x}
         /\ x \notin DOMAIN t => Vm!Numbered(t, x)[x] = Cardinality(DOMAIN t)
<1>1. CASE x \in DOMAIN t
  BY <1>1 DEF Vm!Numbered, Extends
<1>2. CASE x \notin DOMAIN t
  <2> DEFINE N == Cardinality(DOMAIN t)
             u == Bound(t, x, N)
  <2>1. N \in Nat /\ IsFiniteSet(DOMAIN t \cup {x}) /\ Cardinality(DOMAIN t \cup {x}) = N + 1
    BY <1>2, FS_AddElement, FS_CardinalityType DEF Numbering
  <2>2. /\ DOMAIN u = DOMAIN t \cup {x} /\ u[x] = N
        /\ \A y \in DOMAIN t \ {x} : u[y] = t[y]
        /\ u = [y \in DOMAIN u |-> u[y]]
    BY DEF Bound, Whole
  <2>3. Vm!Numbered(t, x) = u
    BY <1>2, SameTables DEF Vm!Numbered
  <2> HIDE DEF u
  <2>4. \A y \in DOMAIN t : u[y] = t[y] /\ t[y] \in 0 .. N - 1
    BY <1>2, <2>2 DEF Numbering
  <2>5. Extends(t, u)
    BY <2>2, <2>4 DEF Extends
  <2> HIDE DEF N
  <2>6. u \in [DOMAIN u -> 0 .. N]
    BY <2>1, <2>2, <2>4
  <2>7. \A y, z \in DOMAIN u : u[y] = u[z] => y = z
    BY <2>1, <2>2, <2>4 DEF Numbering
  <2>8. Numbering(u)
    <3>1. Cardinality(DOMAIN u) = N + 1 /\ IsFiniteSet(DOMAIN u) /\ (N + 1) - 1 = N
      BY <2>1, <2>2
    <3> QED  BY <2>6, <2>7, <3>1 DEF Numbering
  <2> QED  BY <1>2, <2>2, <2>3, <2>5, <2>8 DEF N
<1> QED  BY <1>1, <1>2

LEMMA ExtendsOn ==
  ASSUME NEW t, NEW u, NEW w, Extends(t, u), Extends(u, w)
  PROVE  Extends(t, w)
BY DEF Extends

(* Slots 1 .. n hold, under the numbers of table t, what store does.        *)
HoldsNames(t, slots, store) ==
  /\ slots = [k \in 1 .. Cardinality(DOMAIN t) |-> slots[k]]
  /\ \A x \in DOMAIN t : slots[t[x] + 1] = Lookup(store, x)

LEMMA SlotWritten ==
  ASSUME NEW t, Numbering(t), NEW slots, NEW store, HoldsNames(t, slots, store), NEW y \in DOMAIN t, NEW v
  PROVE  HoldsNames(t, [slots EXCEPT ![t[y] + 1] = v], Bound(store, y, v))
<1> DEFINE N == Cardinality(DOMAIN t)
           new == [slots EXCEPT ![t[y] + 1] = v]
<1>1. N \in Nat /\ \A x \in DOMAIN t : t[x] \in 0 .. N - 1 /\ t[x] + 1 \in 1 .. N
  BY FS_CardinalityType DEF Numbering
<1>2. slots = [k \in 1 .. N |-> slots[k]] /\ \A x \in DOMAIN t : slots[t[x] + 1] = Lookup(store, x)
  BY DEF HoldsNames
<1> HIDE DEF N
<1>3. new = [k \in 1 .. N |-> new[k]]
  BY <1>2
<1>4. ASSUME NEW x \in DOMAIN t PROVE new[t[x] + 1] = Lookup(Bound(store, y, v), x)
  <2>1. CASE x = y
    <3>1. new[t[x] + 1] = v
      BY <1>1, <1>2, <2>1
    <3> QED  BY <2>1, <3>1, LookupBound
  <2>2. CASE x # y
    <3>1. t[x] # t[y]
      BY <2>2 DEF Numbering
    <3>2. t[x] + 1 # t[y] + 1
      BY <1>1, <3>1
    <3>3. new[t[x] + 1] = slots[t[x] + 1]
      BY <1>1, <1>2, <3>2
    <3> QED  BY <1>2, <2>2, <3>3, LookupBound
  <2> QED  BY <2>1, <2>2
<1> QED  BY <1>3, <1>4 DEF HoldsNames, N
-----------------------------------------------------------------------------
(* The compiler.  Tables t are those of a compiler's state, or of a         *)
(* function of the bytecode: what slot s of an instruction stands for.      *)

Stands(t, s, o) ==
  /\ IsConst(o) => s.where = "CONST" /\ s.index + 1 \in DOMAIN t.consts /\ t.consts[s.index + 1] = Num(o.ival)
  /\ o.kind \in {"TEMPORARY", "LOCAL"} => s.where = "REG" /\ o.name \in DOMAIN t.registers /\ s.index = t.registers[o.name]
  /\ IsGlobal(o) => s.where = "GLOBAL" /\ o.name \in DOMAIN t.globals /\ s.index = t.globals[o.name]
  /\ ~Evaluable(o) => s = Vm!Nowhere

Grows(t, d) == Extends(t.registers, d.registers) /\ Extends(t.globals, d.globals) /\ Extends(t.consts, d.consts)

IsCompiler(c) ==
  /\ c = [registers |-> c.registers, globals |-> c.globals, consts |-> c.consts, code |-> c.code, slot |-> c.slot]
  /\ Numbering(c.registers) /\ Numbering(c.globals) /\ IsSequence(c.consts) /\ IsSequence(c.code)

LEMMA GrowsOn ==
  ASSUME NEW t, NEW d, NEW e, Grows(t, d), Grows(d, e)
  PROVE  Grows(t, e)
BY ExtendsOn DEF Grows

LEMMA GrowsNone ==
  ASSUME NEW t
  PROVE  Grows(t, t)
BY DEF Grows, Extends

LEMMA StandsLater ==
  ASSUME NEW t, NEW d, Grows(t, d), NEW s, NEW o, Stands(t, s, o)
  PROVE  Stands(d, s, o)
BY DEF Stands, Grows, Extends

LEMMA SlotGiven ==
  ASSUME NEW c, IsCompiler(c), NEW o
  PROVE  LET d == Vm!SlotFor(c, o)
         IN  IsCompiler(d) /\ Grows(c, d) /\ d.code = c.code /\ Stands(d, d.slot, o)
<1> DEFINE d == Vm!SlotFor(c, o)
<1>1. /\ c = [registers |-> c.registers, globals |-> c.globals, consts |-> c.consts, code |-> c.code, slot |-> c.slot]
      /\ Numbering(c.registers) /\ Numbering(c.globals) /\ IsSequence(c.consts) /\ IsSequence(c.code)
  BY DEF IsCompiler
<1> SUFFICES IsCompiler(d) /\ Grows(c, d) /\ d.code = c.code /\ Stands(d, d.slot, o)
  OBVIOUS
<1>2. CASE IsConst(o)
  <2> DEFINE s == Vm!Slot("CONST", Len(c.consts))
             k == Append(c.consts, Num(o.ival))
  <2>1. d = [registers |-> c.registers, globals |-> c.globals, consts |-> k, code |-> c.code, slot |-> s]
    <3>1. Vm!IsConst(o) /\ ~Vm!IsGlobal(o) /\ o.kind \notin {"TEMPORARY", "LOCAL"} /\ Vm!Num(o.ival) = Num(o.ival)
      BY <1>2, SameValues DEF IsConst, Vm!IsConst, Vm!IsGlobal
    <3>2. d = [c EXCEPT !.consts = k, !.slot = s]
      BY <3>1 DEF Vm!SlotFor
    <3> HIDE DEF s, k, d
    <3> QED  BY <1>1, <3>2
  <2>2. IsSequence(k) /\ DOMAIN c.consts = 1 .. Len(c.consts) /\ Len(c.consts) \in Nat
        /\ DOMAIN k = 1 .. Len(c.consts) + 1 /\ k[Len(c.consts) + 1] = Num(o.ival) /\ \A n \in 1 .. Len(c.consts) : k[n] = c.consts[n]
    BY <1>1, Appended, SequenceFacts
  <2>3. Extends(c.consts, k)
    BY <2>2 DEF Extends
  <2>4. s.where = "CONST" /\ s.index + 1 \in DOMAIN k /\ k[s.index + 1] = Num(o.ival)
    BY <2>2 DEF Vm!Slot
  <2> HIDE DEF s, k, d
  <2>5. IsCompiler(d) /\ d.code = c.code
    BY <1>1, <2>1, <2>2 DEF IsCompiler
  <2>6. Grows(c, d)
    BY <2>1, <2>3 DEF Grows, Extends
  <2>7. Stands(d, d.slot, o)
    BY <1>2, <2>1, <2>4 DEF Stands, IsConst, IsGlobal, Evaluable
  <2> QED  BY <2>5, <2>6, <2>7
<1>3. CASE o.kind \in {"TEMPORARY", "LOCAL"}
  <2> DEFINE t == Vm!Numbered(c.registers, o.name)
             s == Vm!Slot("REG", t[o.name])
  <2>1. d = [registers |-> t, globals |-> c.globals, consts |-> c.consts, code |-> c.code, slot |-> s]
    <3>1. ~Vm!IsConst(o) /\ ~Vm!IsGlobal(o)
      BY <1>3 DEF Vm!IsConst, Vm!IsGlobal
    <3>2. d = [c EXCEPT !.registers = t, !.slot = s]
      BY <1>3, <3>1 DEF Vm!SlotFor
    <3> HIDE DEF s, t, d
    <3> QED  BY <1>1, <3>2
  <2>2. Numbering(t) /\ Extends(c.registers, t) /\ o.name \in DOMAIN t
    BY <1>1, NumberGiven
  <2>3. s.where = "REG" /\ s.index = t[o.name]
    BY DEF Vm!Slot
  <2> HIDE DEF s, t, d
  <2>4. IsCompiler(d) /\ d.code = c.code
    BY <1>1, <2>1, <2>2 DEF IsCompiler
  <2>5. Grows(c, d)
    BY <2>1, <2>2 DEF Grows, Extends
  <2>6. Stands(d, d.slot, o)
    BY <1>3, <2>1, <2>2, <2>3 DEF Stands, IsConst, IsGlobal, Evaluable, IsNameOperand
  <2> QED  BY <2>4, <2>5, <2>6
<1>4. CASE IsGlobal(o)
  <2> DEFINE t == Vm!Numbered(c.globals, o.name)
             s == Vm!Slot("GLOBAL", t[o.name])
  <2>1. d = [registers |-> c.registers, globals |-> t, consts |-> c.consts, code |-> c.code, slot |-> s]
    BY <1>1, <1>4, SameOperands DEF Vm!SlotFor, IsConst, IsGlobal
  <2>2. Numbering(t) /\ Extends(c.globals, t) /\ o.name \in DOMAIN t
    BY <1>1, NumberGiven
  <2>3. s.where = "GLOBAL" /\ s.index = t[o.name]
    BY DEF Vm!Slot
  <2> HIDE DEF s, t, d
  <2>4. IsCompiler(d) /\ d.code = c.code
    BY <1>1, <2>1, <2>2 DEF IsCompiler
  <2>5. Grows(c, d)
    BY <2>1, <2>2 DEF Grows, Extends
  <2>6. Stands(d, d.slot, o)
    BY <1>4, <2>1, <2>2, <2>3 DEF Stands, IsConst, IsGlobal, Evaluable, IsNameOperand
  <2> QED  BY <2>4, <2>5, <2>6
<1>5. CASE ~Evaluable(o)
  <2>1. d = [registers |-> c.registers, globals |-> c.globals, consts |-> c.consts, code |-> c.code, slot |-> Vm!Nowhere]
    BY <1>1, <1>5, SameOperands DEF Vm!SlotFor, Evaluable, IsConst, IsGlobal, IsNameOperand
  <2> HIDE DEF d
  <2>2. IsCompiler(d) /\ d.code = c.code
    BY <1>1, <2>1 DEF IsCompiler
  <2>3. Grows(c, d)
    BY <2>1 DEF Grows, Extends
  <2>4. Stands(d, d.slot, o)
    BY <1>5, <2>1 DEF Stands, IsConst, IsGlobal, Evaluable, IsNameOperand
  <2> QED  BY <2>2, <2>3, <2>4
<1> QED  BY <1>2, <1>3, <1>4, <1>5 DEF Evaluable, IsNameOperand, IsGlobal
(* An instruction of the code does what its quad says.                      *)
Translates(t, in, q, code) ==
  /\ in.op = q.op /\ in.ty = q.ty /\ in.callee = q.arg1.name
  /\ q.op \in {"GOTO", "IF_FALSE"} => in.target = Vm!Target(code, q.result)
  /\ q.op = "IF_FALSE" => Stands(t, in.a, q.arg1)
  /\ q.op = "CALL" => Stands(t, in.r, q.result) /\ in.argc = q.arg2.ival
  /\ q.op \notin {"GOTO", "IF_FALSE", "CALL"} => Stands(t, in.a, q.arg1) /\ Stands(t, in.b, q.arg2) /\ Stands(t, in.r, q.result)

LEMMA TranslatesLater ==
  ASSUME NEW t, NEW d, Grows(t, d), NEW in, NEW q, NEW code, Translates(t, in, q, code)
  PROVE  Translates(d, in, q, code)
BY StandsLater DEF Translates

LEMMA InstructionAdded ==
  ASSUME NEW c, IsCompiler(c), NEW in
  PROVE  LET d == [c EXCEPT !.code = Append(@, in)]
         IN  /\ IsCompiler(d) /\ Grows(c, d) /\ Len(d.code) = Len(c.code) + 1 /\ d.code[Len(c.code) + 1] = in
             /\ \A k \in 1 .. Len(c.code) : d.code[k] = c.code[k]
<1> DEFINE d == [c EXCEPT !.code = Append(@, in)]
           s == Append(c.code, in)
<1>1. /\ c = [registers |-> c.registers, globals |-> c.globals, consts |-> c.consts, code |-> c.code, slot |-> c.slot]
      /\ Numbering(c.registers) /\ Numbering(c.globals) /\ IsSequence(c.consts) /\ IsSequence(c.code)
  BY DEF IsCompiler
<1>2. /\ IsSequence(s) /\ Len(s) = Len(c.code) + 1 /\ s[Len(c.code) + 1] = in
      /\ \A k \in 1 .. Len(c.code) : s[k] = c.code[k]
  BY <1>1, Appended
<1>3. d = [registers |-> c.registers, globals |-> c.globals, consts |-> c.consts, code |-> s, slot |-> c.slot]
  <2>1. d = [c EXCEPT !.code = s]
    OBVIOUS
  <2> HIDE DEF d, s
  <2> QED  BY <1>1, <2>1
<1> SUFFICES /\ IsCompiler(d) /\ Grows(c, d) /\ Len(d.code) = Len(c.code) + 1 /\ d.code[Len(c.code) + 1] = in
             /\ \A k \in 1 .. Len(c.code) : d.code[k] = c.code[k]
  OBVIOUS
<1> HIDE DEF d, s
<1>4. IsCompiler(d)
  BY <1>1, <1>2, <1>3 DEF IsCompiler
<1>5. Grows(c, d)
  BY <1>3 DEF Grows, Extends
<1> QED  BY <1>2, <1>3, <1>4, <1>5

(* Quad q, compiled by c to d.                                              *)
QuadDone(c, d, code, q) ==
  /\ IsCompiler(d) /\ Grows(c, d)
  /\ Vm!Marker(q) => d.code = c.code
  /\ ~Vm!Marker(q) => /\ Len(d.code) = Len(c.code) + 1 /\ \A k \in 1 .. Len(c.code) : d.code[k] = c.code[k]
                      /\ Translates(d, d.code[Len(c.code) + 1], q, code)

LEMMA TranslationAdded ==
  ASSUME NEW c, NEW t, IsCompiler(t), Grows(c, t), t.code = c.code, NEW code, NEW q, ~Vm!Marker(q),
         NEW in, Translates(t, in, q, code)
  PROVE  QuadDone(c, [t EXCEPT !.code = Append(@, in)], code, q)
<1> DEFINE d == [t EXCEPT !.code = Append(@, in)]
<1>1. /\ IsCompiler(d) /\ Grows(t, d) /\ Len(d.code) = Len(t.code) + 1 /\ d.code[Len(t.code) + 1] = in
      /\ \A k \in 1 .. Len(t.code) : d.code[k] = t.code[k]
  BY InstructionAdded
<1> HIDE DEF d
<1>2. Grows(c, d)
  BY <1>1, GrowsOn
<1>3. Translates(d, in, q, code)
  BY <1>1, TranslatesLater
<1>4. QuadDone(c, d, code, q)
  BY <1>1, <1>2, <1>3 DEF QuadDone
<1> QED  BY <1>4 DEF d

LEMMA QuadCompiled ==
  ASSUME NEW c, IsCompiler(c), NEW code, NEW q
  PROVE  QuadDone(c, Vm!CompileQuad(c, code, q), code, q)
<1> DEFINE a == Vm!SlotFor(c, q.arg1)
           b == Vm!SlotFor(a, q.arg2)
           r == Vm!SlotFor(b, q.result)
           s == Vm!SlotFor(c, q.result)
           target == Vm!Target(code, q.result)
           no  == Vm!Nowhere
           new == Vm!CompileQuad(c, code, q)
<1>1. IsCompiler(a) /\ Grows(c, a) /\ a.code = c.code /\ Stands(a, a.slot, q.arg1)
  BY SlotGiven
<1>2. IsCompiler(s) /\ Grows(c, s) /\ s.code = c.code /\ Stands(s, s.slot, q.result)
  BY SlotGiven
<1>3. IsCompiler(b) /\ Grows(a, b) /\ b.code = a.code /\ Stands(b, b.slot, q.arg2)
  <2> HIDE DEF a
  <2> QED  BY <1>1, SlotGiven
<1>4. IsCompiler(r) /\ Grows(b, r) /\ r.code = b.code /\ Stands(r, r.slot, q.result)
  <2> HIDE DEF b
  <2> QED  BY <1>3, SlotGiven
<1>5. Grows(c, b) /\ Grows(c, r) /\ Grows(a, r)
  <2> HIDE DEF a, b, r
  <2> QED  BY <1>1, <1>3, <1>4, GrowsOn
<1>6. Stands(r, a.slot, q.arg1) /\ Stands(r, b.slot, q.arg2)
  <2> HIDE DEF a, b, r
  <2> QED  BY <1>1, <1>3, <1>4, <1>5, StandsLater
<1>7. CASE Vm!Marker(q)
  <2>1. new = c
    BY <1>7 DEF Vm!CompileQuad, Vm!Marker
  <2> HIDE DEF new
  <2>2. QuadDone(c, new, code, q)
    BY <1>7, <2>1, GrowsNone DEF QuadDone
  <2> QED  BY <2>2 DEF new
<1>8. CASE q.op = "GOTO"
  <2> DEFINE in == Vm!Inst(q, no, no, no, target, 0)
  <2>1. new = [c EXCEPT !.code = Append(@, in)] /\ ~Vm!Marker(q)
    BY <1>8 DEF Vm!CompileQuad, Vm!Marker
  <2>2. Translates(c, in, q, code)
    BY <1>8 DEF Translates, Vm!Inst
  <2> HIDE DEF in, new
  <2>3. QuadDone(c, new, code, q)
    BY <2>1, <2>2, GrowsNone, TranslationAdded
  <2> QED  BY <2>3 DEF new
<1>9. CASE q.op = "IF_FALSE"
  <2> DEFINE in == Vm!Inst(q, a.slot, no, no, target, 0)
  <2>1. new = [a EXCEPT !.code = Append(@, in)] /\ ~Vm!Marker(q)
    BY <1>9 DEF Vm!CompileQuad, Vm!Marker
  <2>2. Translates(a, in, q, code)
    <3> HIDE DEF a
    <3> QED  BY <1>1, <1>9 DEF Translates, Vm!Inst
  <2> HIDE DEF in, new, a
  <2>3. QuadDone(c, new, code, q)
    BY <1>1, <2>1, <2>2, TranslationAdded
  <2> QED  BY <2>3 DEF new
<1>10. CASE q.op = "CALL"
  <2> DEFINE in == Vm!Inst(q, no, no, s.slot, -1, q.arg2.ival)
  <2>1. new = [s EXCEPT !.code = Append(@, in)] /\ ~Vm!Marker(q)
    BY <1>10 DEF Vm!CompileQuad, Vm!Marker
  <2>2. Translates(s, in, q, code)
    <3> HIDE DEF s
    <3> QED  BY <1>2, <1>10 DEF Translates, Vm!Inst
  <2> HIDE DEF in, new, s
  <2>3. QuadDone(c, new, code, q)
    BY <1>2, <2>1, <2>2, TranslationAdded
  <2> QED  BY <2>3 DEF new
<1>11. CASE ~Vm!Marker(q) /\ q.op \notin {"GOTO", "IF_FALSE", "CALL"}
  <2> DEFINE in == Vm!Inst(q, a.slot, b.slot, r.slot, -1, 0)
  <2>1. new = [r EXCEPT !.code = Append(@, in)]
    BY <1>11 DEF Vm!CompileQuad
  <2>2. Translates(r, in, q, code)
    <3> HIDE DEF a, b, r
    <3> QED  BY <1>4, <1>6, <1>11 DEF Translates, Vm!Inst
  <2>3. r.code = c.code
    <3> HIDE DEF a, b, r
    <3> QED  BY <1>1, <1>3, <1>4
  <2> HIDE DEF in, new, a, b, r
  <2>4. QuadDone(c, new, code, q)
    BY <1>4, <1>5, <1>11, <2>1, <2>2, <2>3, TranslationAdded
  <2> QED  BY <2>4 DEF new
<1> QED  BY <1>7, <1>8, <1>9, <1>10, <1>11
(* The instructions before quad n: one for each quad that is no marker.     *)
LEMMA BeforeCounts ==
  ASSUME NEW code, NEW n \in Nat \ {0}
  PROVE  /\ Vm!Before(code, n) \in Nat /\ Vm!Before(code, 1) = 0
         /\ Vm!Before(code, n + 1) = IF Vm!Marker(code[n]) THEN Vm!Before(code, n) ELSE Vm!Before(code, n) + 1
         /\ \A k \in 1 .. n : Vm!Before(code, k) <= Vm!Before(code, n)
<1> DEFINE Quads(k) == {j \in 1 .. k - 1 : ~Vm!Marker(code[j])}
<1>1. \A k \in Nat \ {0} : Vm!Before(code, k) = Cardinality(Quads(k))
  BY SameTables DEF Vm!Before
<1>2. \A k \in 1 .. n + 1 : Quads(k) \subseteq 1 .. k - 1 /\ IsFiniteSet(1 .. k - 1)
  BY FS_Interval
<1>3. \A k \in 1 .. n + 1 : IsFiniteSet(Quads(k)) /\ Cardinality(Quads(k)) \in Nat
  BY <1>2, FS_Subset, FS_CardinalityType
<1>4. Quads(1) = {}
  OBVIOUS
<1>5. Quads(n + 1) = IF Vm!Marker(code[n]) THEN Quads(n) ELSE Quads(n) \cup {n}
  OBVIOUS
<1>6. n \notin Quads(n)
  OBVIOUS
<1>7. \A k \in 1 .. n : Quads(k) \subseteq Quads(n)
  OBVIOUS
<1> HIDE DEF Quads
<1>8. Cardinality(Quads(n + 1)) = IF Vm!Marker(code[n]) THEN Cardinality(Quads(n)) ELSE Cardinality(Quads(n)) + 1
  BY <1>3, <1>5, <1>6, FS_AddElement
<1>9. \A k \in 1 .. n : Cardinality(Quads(k)) <= Cardinality(Quads(n))
  BY <1>3, <1>7, FS_Subset
<1> QED  BY <1>1, <1>3, <1>4, <1>8, <1>9, FS_EmptySet

-----------------------------------------------------------------------------
(* The compiler goes over a list: of parameters, of quads, of functions.    *)

Stage(how, st, n) ==
  CASE how.kind = "params" -> Vm!Numbered(st, how.list[n])
    [] how.kind = "code"   -> Vm!After(st, Vm!CompileQuad(st, how.list, how.list[n]))
    [] how.kind = "names"  -> Vm!CompileFunction(st, how.list[n], how.fns[how.list[n]].params, how.fns[how.list[n]].code)

IsPass(f, how, start, L) == f = [n \in 0 .. L |-> IF n = 0 THEN start ELSE Stage(how, f[n - 1], n)]

LEMMA PassExtends ==
  ASSUME NEW how, NEW start, NEW L \in Nat, NEW f, IsPass(f, how, start, L)
  PROVE  \E g : IsPass(g, how, start, L + 1)
<1> DEFINE g == [n \in 0 .. L + 1 |-> IF n = L + 1 THEN Stage(how, f[L], L + 1) ELSE f[n]]
<1>1. \A n \in 0 .. L : f[n] = IF n = 0 THEN start ELSE Stage(how, f[n - 1], n)
  BY DEF IsPass
<1>2. ASSUME NEW n \in 0 .. L + 1
      PROVE  g[n] = IF n = 0 THEN start ELSE Stage(how, g[n - 1], n)
  <2>1. CASE n = L + 1
    <3>1. n # 0 /\ n - 1 = L /\ g[n - 1] = f[L] /\ g[n] = Stage(how, f[L], L + 1)
      BY <2>1
    <3> QED  BY <2>1, <3>1
  <2>2. CASE n # L + 1
    <3>1. n \in 0 .. L /\ g[n] = f[n] /\ (n # 0 => g[n - 1] = f[n - 1])
      BY <2>2
    <3> QED  BY <1>1, <3>1
  <2> QED  BY <2>1, <2>2
<1>3. IsPass(g, how, start, L + 1)
  BY <1>2 DEF IsPass
<1> QED  BY <1>3

LEMMA PassExists ==
  ASSUME NEW how, NEW start, NEW L \in Nat
  PROVE  \E f : IsPass(f, how, start, L)
<1> DEFINE G == {n \in Nat : \E f : IsPass(f, how, start, n)}
<1>1. 0 \in G
  <2>1. IsPass([n \in 0 .. 0 |-> start], how, start, 0)
    BY DEF IsPass
  <2> QED  BY <2>1
<1>2. \A n \in 0 .. L : n \in G /\ n < L => n + 1 \in G
  BY PassExtends
<1>3. L \in G
  <2>1. L \in 0 .. L
    OBVIOUS
  <2> HIDE DEF G
  <2> QED  BY <1>1, <1>2, <2>1, SetInduction
<1> QED  BY <1>3

LEMMA PassStages ==
  ASSUME NEW how, NEW start, NEW L \in Nat, NEW f, IsPass(f, how, start, L)
  PROVE  f[0] = start /\ \A n \in 0 .. L : n < L => f[n + 1] = Stage(how, f[n], n + 1)
<1>1. \A n \in 0 .. L : f[n] = IF n = 0 THEN start ELSE Stage(how, f[n - 1], n)
  BY DEF IsPass
<1>2. f[0] = start
  BY <1>1
<1>3. ASSUME NEW n \in 0 .. L, n < L PROVE f[n + 1] = Stage(how, f[n], n + 1)
  <2>1. n + 1 \in 0 .. L /\ n + 1 # 0 /\ (n + 1) - 1 = n
    BY <1>3
  <2> QED  BY <1>1, <2>1
<1> QED  BY <1>2, <1>3
IsParams(params) ==
  /\ IsSequence(params)
  /\ \A j, k \in DOMAIN params : params[j] = params[k] => j = k

(* The parameters have the numbers from 0, in order.                        *)
NumbersParams(t, params, n) ==
  /\ Numbering(t) /\ DOMAIN t = {params[k] : k \in 1 .. n} /\ Cardinality(DOMAIN t) = n
  /\ \A k \in 1 .. n : t[params[k]] = k - 1

LEMMA ParamNumbered ==
  ASSUME NEW params, IsParams(params), NEW n \in 0 .. Len(params), n < Len(params), NEW t, NumbersParams(t, params, n)
  PROVE  NumbersParams(Vm!Numbered(t, params[n + 1]), params, n + 1)
<1> DEFINE x == params[n + 1]
           u == Vm!Numbered(t, x)
<1>1. /\ Len(params) \in Nat /\ DOMAIN params = 1 .. Len(params)
      /\ \A j, k \in DOMAIN params : params[j] = params[k] => j = k
  BY SequenceFacts DEF IsParams
<1>2. /\ Numbering(t) /\ DOMAIN t = {params[k] : k \in 1 .. n} /\ Cardinality(DOMAIN t) = n
      /\ \A k \in 1 .. n : t[params[k]] = k - 1
  BY DEF NumbersParams
<1>3. x \notin DOMAIN t
  <2>1. n + 1 \in DOMAIN params /\ \A k \in 1 .. n : k \in DOMAIN params /\ k # n + 1
    BY <1>1
  <2>2. \A k \in 1 .. n : params[k] # x
    BY <1>1, <2>1
  <2> HIDE DEF x
  <2> QED  BY <1>2, <2>2
<1>4. Numbering(u) /\ Extends(t, u) /\ DOMAIN u = DOMAIN t \cup {x} /\ u[x] = n
  BY <1>2, <1>3, NumberGiven
<1> HIDE DEF u
<1>5. DOMAIN u = {params[k] : k \in 1 .. n + 1}
  <2>1. 1 .. n + 1 = (1 .. n) \cup {n + 1}
    OBVIOUS
  <2>2. {params[k] : k \in 1 .. n + 1} = {params[k] : k \in 1 .. n} \cup {x}
    BY <2>1
  <2> HIDE DEF x
  <2> QED  BY <1>2, <1>4, <2>2
<1>6. Cardinality(DOMAIN u) = n + 1
  <2>1. IsFiniteSet(DOMAIN t)
    BY <1>2 DEF Numbering
  <2> HIDE DEF x
  <2>2. Cardinality(DOMAIN t \cup {x}) = Cardinality(DOMAIN t) + 1
    BY <1>3, <2>1, FS_AddElement
  <2> QED  BY <1>2, <1>4, <2>2
<1>7. \A k \in 1 .. n + 1 : u[params[k]] = k - 1
  BY <1>2, <1>4 DEF Extends
<1>8. NumbersParams(u, params, n + 1)
  BY <1>4, <1>5, <1>6, <1>7 DEF NumbersParams
<1> QED  BY <1>8 DEF u

LEMMA ParamsNumbered ==
  ASSUME NEW params, IsParams(params)
  PROVE  NumbersParams(Vm!ParamRegisters(params), params, Len(params))
<1> DEFINE L   == Len(params)
           how == [kind |-> "params", list |-> params]
           start == <<>>
           f   == CHOOSE g : IsPass(g, how, start, L)
           G   == {n \in 0 .. L : NumbersParams(f[n], params, n)}
<1>1. L \in Nat
  BY SequenceFacts DEF IsParams
<1>2. Vm!ParamRegisters(params) = f[L]
  BY DEF Vm!ParamRegisters, IsPass, Stage
<1>3. \A t, n : Stage(how, t, n) = Vm!Numbered(t, params[n])
  BY DEF Stage
<1> HIDE DEF how, start, L
<1>4. IsPass(f, how, start, L)
  BY <1>1, PassExists
<1> HIDE DEF f
<1>5. f[0] = start /\ \A n \in 0 .. L : n < L => f[n + 1] = Vm!Numbered(f[n], params[n + 1])
  BY <1>1, <1>3, <1>4, PassStages
<1>6. 0 \in G
  <2>1. DOMAIN <<>> = {} /\ {params[k] : k \in 1 .. 0} = {}
    OBVIOUS
  <2>2. NumbersParams(<<>>, params, 0)
    BY <2>1, NothingNumbered, FS_EmptySet DEF NumbersParams
  <2> QED  BY <1>1, <1>5, <2>2 DEF start
<1>7. \A n \in 0 .. L : n \in G /\ n < L => n + 1 \in G
  <2> SUFFICES ASSUME NEW n \in 0 .. L, n \in G, n < L PROVE n + 1 \in G
    OBVIOUS
  <2>1. NumbersParams(Vm!Numbered(f[n], params[n + 1]), params, n + 1)
    BY ParamNumbered DEF L
  <2> QED  BY <1>1, <1>5, <2>1
<1>8. L \in G
  <2>1. L \in 0 .. L
    BY <1>1
  <2> HIDE DEF G
  <2> QED  BY <1>1, <1>6, <1>7, <2>1, SetInduction
<1> QED  BY <1>2, <1>8 DEF L

(* Quads 1 .. n of the code are compiled, from start to c.                  *)
QuadsDone(start, c, code, n) ==
  /\ IsCompiler(c) /\ Grows(start, c) /\ Len(c.code) = Vm!Before(code, n + 1)
  /\ \A k \in 1 .. n : ~Vm!Marker(code[k]) =>
       /\ Vm!Before(code, k) + 1 \in 1 .. Len(c.code)
       /\ Translates(c, c.code[Vm!Before(code, k) + 1], code[k], code)

LEMMA OneMoreQuad ==
  ASSUME NEW start, NEW c, NEW code, NEW n \in Nat, QuadsDone(start, c, code, n), NEW d, QuadDone(c, d, code, code[n + 1])
  PROVE  QuadsDone(start, d, code, n + 1)
<1> DEFINE L == Vm!Before(code, n + 1)
           M == Vm!Before(code, (n + 1) + 1)
<1>1. /\ IsCompiler(c) /\ Grows(start, c) /\ Len(c.code) = L
      /\ \A k \in 1 .. n : ~Vm!Marker(code[k]) => /\ Vm!Before(code, k) + 1 \in 1 .. L
                                                  /\ Translates(c, c.code[Vm!Before(code, k) + 1], code[k], code)
  BY DEF QuadsDone
<1>2. L \in Nat /\ M = IF Vm!Marker(code[n + 1]) THEN L ELSE L + 1
  <2>1. n + 1 \in Nat \ {0}
    OBVIOUS
  <2> QED  BY <2>1, BeforeCounts
<1>3. IsCompiler(d) /\ Grows(c, d)
  BY DEF QuadDone
<1>4. Grows(start, d)
  BY <1>1, <1>3, GrowsOn
<1>5. Len(d.code) = M /\ \A k \in 1 .. L : d.code[k] = c.code[k]
  BY <1>1, <1>2 DEF QuadDone
<1>6. ASSUME NEW k \in 1 .. n + 1, ~Vm!Marker(code[k])
      PROVE  /\ Vm!Before(code, k) + 1 \in 1 .. M
             /\ Translates(d, d.code[Vm!Before(code, k) + 1], code[k], code)
  <2>1. CASE k = n + 1
    <3>1. M = L + 1 /\ Translates(d, d.code[L + 1], code[k], code)
      BY <1>1, <1>2, <1>6, <2>1 DEF QuadDone
    <3> HIDE DEF M
    <3> QED  BY <1>2, <2>1, <3>1
  <2>2. CASE k # n + 1
    <3> DEFINE j == Vm!Before(code, k) + 1
    <3>1. j \in 1 .. L /\ Translates(c, c.code[j], code[k], code)
      BY <1>1, <1>6, <2>2
    <3> HIDE DEF j, L, M
    <3>2. d.code[j] = c.code[j] /\ j \in 1 .. M
      BY <1>2, <1>5, <3>1
    <3>3. Translates(d, c.code[j], code[k], code)
      BY <1>3, <3>1, TranslatesLater
    <3> QED  BY <3>2, <3>3 DEF j
  <2> QED  BY <2>1, <2>2
<1> QED  BY <1>3, <1>4, <1>5, <1>6 DEF QuadsDone

LEMMA CodeCompiled ==
  ASSUME NEW start, IsCompiler(start), start.code = <<>>, NEW code, IsSequence(code)
  PROVE  QuadsDone(start, Vm!Compiled(start, code), code, Len(code))
<1> DEFINE L   == Len(code)
           how == [kind |-> "code", list |-> code]
           f   == CHOOSE g : IsPass(g, how, start, L)
           G   == {n \in 0 .. L : QuadsDone(start, f[n], code, n)}
<1>1. L \in Nat
  BY SequenceFacts
<1>2. Vm!Compiled(start, code) = f[L]
  BY DEF Vm!Compiled, IsPass, Stage
<1>3. \A c, n : Stage(how, c, n) = Vm!CompileQuad(c, code, code[n])
  BY SameTables DEF Stage
<1> HIDE DEF how, L
<1>4. IsPass(f, how, start, L)
  BY <1>1, PassExists
<1> HIDE DEF f
<1>5. f[0] = start /\ \A n \in 0 .. L : n < L => f[n + 1] = Vm!CompileQuad(f[n], code, code[n + 1])
  BY <1>1, <1>3, <1>4, PassStages
<1>6. 0 \in G
  <2>1. Vm!Before(code, 0 + 1) = 0 /\ Len(<<>>) = 0
    BY BeforeCounts
  <2>2. QuadsDone(start, start, code, 0)
    BY <2>1, GrowsNone DEF QuadsDone
  <2> QED  BY <1>1, <1>5, <2>2
<1>7. \A n \in 0 .. L : n \in G /\ n < L => n + 1 \in G
  <2> SUFFICES ASSUME NEW n \in 0 .. L, n \in G, n < L PROVE n + 1 \in G
    OBVIOUS
  <2> DEFINE d == Vm!CompileQuad(f[n], code, code[n + 1])
  <2>1. QuadsDone(start, f[n], code, n) /\ IsCompiler(f[n])
    BY DEF QuadsDone
  <2>2. QuadDone(f[n], d, code, code[n + 1])
    BY <2>1, QuadCompiled
  <2> HIDE DEF d
  <2>3. QuadsDone(start, d, code, n + 1)
    BY <1>1, <2>1, <2>2, OneMoreQuad
  <2> QED  BY <1>1, <1>5, <2>3 DEF d
<1>8. L \in G
  <2>1. L \in 0 .. L
    BY <1>1
  <2> HIDE DEF G
  <2> QED  BY <1>1, <1>6, <1>7, <2>1, SetInduction
<1> QED  BY <1>2, <1>8 DEF L
-----------------------------------------------------------------------------
(* Bytecode p runs a function: its parameters have the first registers, and *)
(* its instructions do what its quads say.                                  *)

NumbersFirst(t, params) ==
  /\ Numbering(t)
  /\ \A k \in 1 .. Len(params) : params[k] \in DOMAIN t /\ t[params[k]] = k - 1

TablesOf(p, f) == [registers |-> p.functions[f].registers, globals |-> p.globals, consts |-> p.consts]

Runs(p, f, params, code) ==
  LET fn == p.functions[f]
  IN  /\ NumbersFirst(fn.registers, params) /\ fn.params = Len(params)
      /\ Len(fn.code) = Vm!Before(code, Len(code) + 1)
      /\ \A k \in 1 .. Len(code) : ~Vm!Marker(code[k]) =>
           /\ Vm!Before(code, k) + 1 \in 1 .. Len(fn.code)
           /\ Translates(TablesOf(p, f), fn.code[Vm!Before(code, k) + 1], code[k], code)

IsProgram(p) == Numbering(p.globals) /\ IsSequence(p.consts)

LEMMA RunsLater ==
  ASSUME NEW p, NEW r, NEW f, r.functions[f] = p.functions[f], Extends(p.globals, r.globals), Extends(p.consts, r.consts),
         NEW params, NEW code, Runs(p, f, params, code)
  PROVE  Runs(r, f, params, code)
<1> DEFINE fn == p.functions[f]
<1>1. /\ NumbersFirst(fn.registers, params) /\ fn.params = Len(params)
      /\ Len(fn.code) = Vm!Before(code, Len(code) + 1)
      /\ \A k \in 1 .. Len(code) : ~Vm!Marker(code[k]) =>
           /\ Vm!Before(code, k) + 1 \in 1 .. Len(fn.code)
           /\ Translates(TablesOf(p, f), fn.code[Vm!Before(code, k) + 1], code[k], code)
  BY Zenon DEF Runs
<1>2. Grows(TablesOf(p, f), TablesOf(r, f))
  BY DEF Grows, TablesOf, Extends
<1>3. \A in, q : Translates(TablesOf(p, f), in, q, code) => Translates(TablesOf(r, f), in, q, code)
  BY <1>2, TranslatesLater
<1> QED  BY <1>1, <1>3 DEF Runs

LEMMA FunctionCompiled ==
  ASSUME NEW p, IsProgram(p), NEW f, NEW params, IsParams(params), NEW code, IsSequence(code)
  PROVE  LET r == Vm!CompileFunction(p, f, params, code)
         IN  /\ IsProgram(r) /\ Extends(p.globals, r.globals) /\ Extends(p.consts, r.consts)
             /\ DOMAIN r.functions = DOMAIN p.functions \cup {f}
             /\ \A g \in DOMAIN p.functions \ {f} : r.functions[g] = p.functions[g]
             /\ Runs(r, f, params, code)
<1> DEFINE start == Vm!Compiling(p, params)
           c == Vm!Compiled(start, code)
           fn == [registers |-> c.registers, params |-> Len(params), code |-> c.code]
           r == Vm!CompileFunction(p, f, params, code)
           fns == Bound(p.functions, f, fn)
<1>1. start = [registers |-> Vm!ParamRegisters(params), globals |-> p.globals, consts |-> p.consts, code |-> <<>>, slot |-> Vm!Nowhere]
  BY DEF Vm!Compiling
<1>2. NumbersParams(start.registers, params, Len(params))
  <2>1. start.registers = Vm!ParamRegisters(params)
    BY <1>1
  <2> HIDE DEF start
  <2> QED  BY <2>1, ParamsNumbered
<1>3. IsCompiler(start) /\ start.code = <<>>
  <2>1. <<>> \in Seq({})
    OBVIOUS
  <2>2. IsSequence(<<>>)
    BY <2>1 DEF IsSequence
  <2> HIDE DEF start
  <2> QED  BY <1>1, <1>2, <2>2 DEF IsCompiler, IsProgram, NumbersParams
<1> HIDE DEF start
<1>4. QuadsDone(start, c, code, Len(code))
  BY <1>3, CodeCompiled
<1>5. r = [globals |-> c.globals, consts |-> c.consts, functions |-> fns]
  BY SameTables DEF Vm!CompileFunction, start
<1>6. fn.registers = c.registers /\ fn.params = Len(params) /\ fn.code = c.code
  OBVIOUS
<1> HIDE DEF c, fn
<1>7. DOMAIN fns = DOMAIN p.functions \cup {f} /\ fns[f] = fn /\ \A g \in DOMAIN p.functions \ {f} : fns[g] = p.functions[g]
  BY DEF Bound, Whole
<1> HIDE DEF r, fns
<1>8. /\ IsCompiler(c) /\ Grows(start, c) /\ Len(c.code) = Vm!Before(code, Len(code) + 1)
      /\ \A k \in 1 .. Len(code) : ~Vm!Marker(code[k]) =>
           /\ Vm!Before(code, k) + 1 \in 1 .. Len(c.code)
           /\ Translates(c, c.code[Vm!Before(code, k) + 1], code[k], code)
  BY <1>4 DEF QuadsDone
<1>9. IsProgram(r)
  BY <1>5, <1>8 DEF IsProgram, IsCompiler
<1>10. Extends(p.globals, r.globals) /\ Extends(p.consts, r.consts)
  BY <1>1, <1>5, <1>8 DEF Grows
<1>11. NumbersFirst(c.registers, params)
  BY <1>2, <1>8 DEF NumbersFirst, NumbersParams, IsCompiler, Grows, Extends
<1>12. \A in, q : Translates(c, in, q, code) => Translates(TablesOf(r, f), in, q, code)
  <2>1. Grows(c, TablesOf(r, f))
    BY <1>5, <1>6, <1>7 DEF Grows, TablesOf, Extends
  <2> QED  BY <2>1, TranslatesLater
<1>13. Runs(r, f, params, code)
  <2>1. r.functions[f] = fn
    BY <1>5, <1>7
  <2> QED  BY <1>6, <1>8, <1>11, <1>12, <2>1 DEF Runs
<1> QED  BY <1>5, <1>7, <1>9, <1>10, <1>13 DEF r

-----------------------------------------------------------------------------
(* The bytecode of a unit.                                                  *)

CodeOf(u, f)   == IF f = InitFrame THEN u.init ELSE u.functions[f].code
ParamsOf(u, f) == IF f = InitFrame THEN <<>> ELSE u.functions[f].params

RunsFunctions(u, p, fs) ==
  /\ IsProgram(p) /\ DOMAIN p.functions = fs
  /\ \A f \in fs : Runs(p, f, ParamsOf(u, f), CodeOf(u, f))

Compiles(u, p) == RunsFunctions(u, p, DOMAIN u.functions \cup {InitFrame})

LEMMA ListIsSequence == ASSUME NEW s, IsList(s) PROVE IsSequence(s)
BY DEF IsList, IsSequence

LEMMA UnitParts ==
  ASSUME NEW u, IsUnit(u)
  PROVE  /\ IsFiniteSet(DOMAIN u.functions) /\ InitFrame \notin DOMAIN u.functions /\ "main" \in DOMAIN u.functions
         /\ \A f \in DOMAIN u.functions \cup {InitFrame} :
              /\ IsParams(ParamsOf(u, f)) /\ IsSequence(CodeOf(u, f))
              /\ \A k \in 1 .. Len(CodeOf(u, f)) : IsLowered(CodeOf(u, f)[k])
<1>1. \A c : IsCode(c) => IsSequence(c) /\ \A k \in 1 .. Len(c) : IsLowered(c[k])
  BY ListIsSequence, SequenceFacts DEF IsCode
<1>2. IsParams(<<>>)
  <2>1. <<>> \in Seq({}) /\ DOMAIN <<>> = {}
    OBVIOUS
  <2> QED  BY <2>1 DEF IsParams, IsSequence
<1>3. \A f \in DOMAIN u.functions : IsCode(u.functions[f].code) /\ IsParams(u.functions[f].params)
  BY ListIsSequence DEF IsUnit, IsParams
<1>4. IsFiniteSet(DOMAIN u.functions) /\ "main" \in DOMAIN u.functions /\ InitFrame \notin DOMAIN u.functions /\ IsCode(u.init)
  BY DEF IsUnit
<1>5. ASSUME NEW f \in DOMAIN u.functions \cup {InitFrame}
      PROVE  IsParams(ParamsOf(u, f)) /\ IsCode(CodeOf(u, f))
  BY <1>2, <1>3, <1>4 DEF ParamsOf, CodeOf
<1> QED  BY <1>1, <1>4, <1>5

LEMMA FunctionAdded ==
  ASSUME NEW u, IsUnit(u), NEW p, NEW fs, RunsFunctions(u, p, fs), NEW f \in DOMAIN u.functions \cup {InitFrame}
  PROVE  RunsFunctions(u, Vm!CompileFunction(p, f, ParamsOf(u, f), CodeOf(u, f)), fs \cup {f})
<1> DEFINE r == Vm!CompileFunction(p, f, ParamsOf(u, f), CodeOf(u, f))
<1>1. IsParams(ParamsOf(u, f)) /\ IsSequence(CodeOf(u, f))
  BY UnitParts
<1>2. IsProgram(p) /\ DOMAIN p.functions = fs /\ \A g \in fs : Runs(p, g, ParamsOf(u, g), CodeOf(u, g))
  BY DEF RunsFunctions
<1>3. /\ IsProgram(r) /\ Extends(p.globals, r.globals) /\ Extends(p.consts, r.consts)
      /\ DOMAIN r.functions = DOMAIN p.functions \cup {f}
      /\ \A g \in DOMAIN p.functions \ {f} : r.functions[g] = p.functions[g]
      /\ Runs(r, f, ParamsOf(u, f), CodeOf(u, f))
  BY <1>1, <1>2, FunctionCompiled
<1> HIDE DEF r
<1>4. ASSUME NEW g \in fs \ {f} PROVE Runs(r, g, ParamsOf(u, g), CodeOf(u, g))
  BY <1>2, <1>3, RunsLater
<1>5. RunsFunctions(u, r, fs \cup {f})
  BY <1>2, <1>3, <1>4 DEF RunsFunctions
<1> QED  BY <1>5 DEF r

LEMMA Listed ==
  ASSUME NEW S, IsFiniteSet(S)
  PROVE  LET names == Vm!SetToSeq(S) IN Len(names) \in Nat /\ S = {names[k] : k \in 1 .. Len(names)}
<1> DEFINE n == Cardinality(S)
           names == Vm!SetToSeq(S)
<1>1. n \in Nat /\ ExistsBijection(1 .. n, S)
  BY FS_CardinalityType
<1>2. PICK f : f \in Bijection(1 .. n, S)
  BY <1>1 DEF ExistsBijection
<1>3. f \in [1 .. n -> S] /\ IsInjective(f)
  BY <1>2 DEF Bijection, Injection, IsInjective
<1>4. names = CHOOSE g \in [1 .. n -> S] : IsInjective(g)
  BY SameTables DEF Vm!SetToSeq, Vm!IsInjective, IsInjective
<1> HIDE DEF names, n
<1>5. names \in [1 .. n -> S] /\ IsInjective(names)
  BY <1>3, <1>4
<1>6. names \in Surjection(1 .. n, S)
  <2>1. names \in Injection(1 .. n, S)
    BY <1>5 DEF Injection, IsInjective
  <2>2. Cardinality(1 .. n) = Cardinality(S)
    BY <1>1, FS_Interval DEF n
  <2> QED  BY <2>1, <2>2, FS_Injection
<1>7. Len(names) = n
  BY <1>1, <1>5
<1>8. \A x \in S : \E k \in 1 .. n : names[k] = x
  BY <1>6 DEF Surjection
<1> QED  BY <1>1, <1>5, <1>7, <1>8 DEF names

(* Of every lowered program the compiler makes one instruction per quad     *)
(* that is no label or NOP, for each function and the initialisers, whose   *)
(* slots stand for the quad's operands in tables that give each name one    *)
(* number, parameters first, and whose jumps go to the instruction after    *)
(* their last label (compileFn of vm.cpp).                                  *)
THEOREM CompiledAsWritten ==
  ASSUME NEW u, IsUnit(u)
  PROVE  Compiles(u, Vm!Bytecode(u.functions, u.init))
<1> DEFINE names == Vm!SetToSeq(DOMAIN u.functions)
           L     == Len(names)
           how   == [kind |-> "names", list |-> names, fns |-> u.functions]
           none  == [globals |-> <<>>, consts |-> <<>>, functions |-> <<>>]
           start == Vm!CompileFunction(none, Vm!InitCode, <<>>, u.init)
           f     == CHOOSE g : IsPass(g, how, start, L)
           Done(n) == {names[k] : k \in 1 .. n} \cup {InitFrame}
           G     == {n \in 0 .. L : RunsFunctions(u, f[n], Done(n))}
<1>1. L \in Nat /\ DOMAIN u.functions = {names[k] : k \in 1 .. L}
  BY UnitParts, Listed
<1>2. Vm!Bytecode(u.functions, u.init) = f[L]
  BY DEF Vm!Bytecode, IsPass, Stage
<1>3. \A p, n : Stage(how, p, n) = Vm!CompileFunction(p, names[n], u.functions[names[n]].params, u.functions[names[n]].code)
  BY DEF Stage
<1>4. RunsFunctions(u, start, {InitFrame})
  <2>1. RunsFunctions(u, none, {})
    <3>1. <<>> \in Seq({}) /\ DOMAIN <<>> = {}
      OBVIOUS
    <3> QED  BY <3>1, NothingNumbered DEF RunsFunctions, IsProgram, IsSequence
  <2>2. start = Vm!CompileFunction(none, InitFrame, ParamsOf(u, InitFrame), CodeOf(u, InitFrame))
    BY DEF Vm!InitCode, InitFrame, ParamsOf, CodeOf
  <2> HIDE DEF none, start
  <2>3. RunsFunctions(u, start, {} \cup {InitFrame})
    BY <2>1, <2>2, FunctionAdded
  <2> QED  BY <2>3
<1> HIDE DEF how, L, none, start, names
<1>5. IsPass(f, how, start, L)
  BY <1>1, PassExists
<1> HIDE DEF f
<1>6. /\ f[0] = start
      /\ \A n \in 0 .. L : n < L => f[n + 1] = Vm!CompileFunction(f[n], names[n + 1], u.functions[names[n + 1]].params,
                                                                 u.functions[names[n + 1]].code)
  <2>1. L \in Nat
    BY <1>1
  <2>2. f[0] = start /\ \A n \in 0 .. L : n < L => f[n + 1] = Stage(how, f[n], n + 1)
    BY <1>5, <2>1, PassStages
  <2> QED  BY <1>3, <2>2, Zenon
<1>7. 0 \in G
  <2>1. Done(0) = {InitFrame}
    OBVIOUS
  <2>2. f[0] = start
    BY <1>6
  <2> HIDE DEF Done
  <2>3. RunsFunctions(u, f[0], Done(0))
    BY <1>4, <2>1, <2>2
  <2>4. 0 \in 0 .. L
    BY <1>1
  <2> QED  BY <2>3, <2>4
<1>8. \A n \in 0 .. L : n \in G /\ n < L => n + 1 \in G
  <2> SUFFICES ASSUME NEW n \in 0 .. L, n \in G, n < L PROVE n + 1 \in G
    OBVIOUS
  <2> DEFINE x == names[n + 1]
  <2>1. x \in DOMAIN u.functions /\ x # InitFrame
    BY <1>1, UnitParts
  <2>2. Done(n + 1) = Done(n) \cup {x}
    <3>1. 1 .. n + 1 = (1 .. n) \cup {n + 1}
      OBVIOUS
    <3> QED  BY <3>1
  <2>3. f[n + 1] = Vm!CompileFunction(f[n], x, ParamsOf(u, x), CodeOf(u, x))
    BY <1>6, <2>1 DEF ParamsOf, CodeOf
  <2>4. RunsFunctions(u, f[n], Done(n))
    OBVIOUS
  <2> HIDE DEF x, Done
  <2>5. RunsFunctions(u, f[n + 1], Done(n + 1))
    BY <2>1, <2>2, <2>3, <2>4, FunctionAdded
  <2> QED  BY <1>1, <2>5
<1>9. L \in G
  <2>1. L \in 0 .. L
    BY <1>1
  <2> HIDE DEF G
  <2> QED  BY <1>1, <1>7, <1>8, <2>1, SetInduction
<1> QED  BY <1>1, <1>2, <1>9 DEF Compiles
-----------------------------------------------------------------------------
(* The simulation.  A frame of the VM is at instruction Before(code, q) of  *)
(* its function's code and its registers hold what the names do.            *)

IsState(m) ==
  /\ m = [stack |-> m.stack, globals |-> m.globals, heap |-> m.heap, pending |-> m.pending, output |-> m.output,
          returned |-> m.returned, status |-> m.status]
  /\ IsSequence(m.stack)

FrameSim(u, p, f, g, q) ==
  /\ f = [name |-> f.name, code |-> CodeOf(u, f.name), pc |-> f.pc, vars |-> f.vars]
  /\ f.name \in DOMAIN u.functions \cup {InitFrame}
  /\ f.pc \in 1 .. Len(CodeOf(u, f.name)) + 1
  /\ g = [fn |-> f.name, pc |-> Vm!Before(CodeOf(u, f.name), q), regs |-> g.regs]
  /\ HoldsNames(p.functions[f.name].registers, g.regs, f.vars)

(* The frame below that of callee: its call is done in the VM, and not yet  *)
(* in the interpreter; the global initialisers are not called.              *)
Waiting(u, p, f, g, callee) ==
  IF callee = InitFrame THEN FrameSim(u, p, f, g, f.pc)
  ELSE /\ FrameSim(u, p, f, g, f.pc + 1)
       /\ f.pc \in 1 .. Len(CodeOf(u, f.name)) /\ CodeOf(u, f.name)[f.pc].op = "CALL"

Callers(u, p, s, t) ==
  /\ Len(s) >= 1 /\ Len(t) = Len(s) /\ s[1].name # InitFrame
  /\ \A n \in 1 .. Len(s) - 1 : Waiting(u, p, s[n], t[n], s[n + 1].name)

SameData(m, v) ==
  /\ v.status = m.status /\ v.output = m.output /\ v.heap = m.heap /\ v.pending = m.pending /\ v.returned = m.returned

(* State v of the VM is at quad q of the running function where m is in the *)
(* interpreter.                                                             *)
Sim(u, p, m, v, q) ==
  /\ IsState(m) /\ IsState(v) /\ SameData(m, v)
  /\ HoldsNames(p.globals, v.globals, m.globals)
  /\ Callers(u, p, m.stack, v.stack)
  /\ FrameSim(u, p, Top(m), Top(v), q)

(* What every step ends in.                                                 *)
Outcome(u, p, m, v) ==
  /\ SameData(m, v) /\ HoldsNames(p.globals, v.globals, m.globals)
  /\ m.status = "running" => Sim(u, p, m, v, Top(m).pc)

LEMMA SameTop == \A v : Vm!Top(v) = Top(v)
BY DEF Vm!Top, Top

(* State m with f for its top frame.                                        *)
WithTop(m, f) == [m EXCEPT !.stack = [@ EXCEPT ![Len(@)] = f]]

LEMMA WithTopFacts ==
  ASSUME NEW m, IsState(m), Len(m.stack) >= 1, NEW f
  PROVE  LET w == WithTop(m, f)
         IN  /\ IsState(w) /\ Top(w) = f /\ Len(w.stack) = Len(m.stack)
             /\ \A n \in 1 .. Len(m.stack) - 1 : w.stack[n] = m.stack[n]
             /\ w.globals = m.globals /\ w.heap = m.heap /\ w.pending = m.pending /\ w.output = m.output
             /\ w.returned = m.returned /\ w.status = m.status
<1> DEFINE L == Len(m.stack)
           s == [m.stack EXCEPT ![L] = f]
           w == WithTop(m, f)
<1>1. /\ m = [stack |-> m.stack, globals |-> m.globals, heap |-> m.heap, pending |-> m.pending, output |-> m.output,
              returned |-> m.returned, status |-> m.status]
      /\ IsSequence(m.stack)
  BY DEF IsState
<1>2. L \in Nat /\ DOMAIN m.stack = 1 .. L /\ L \in DOMAIN m.stack
  BY <1>1, SequenceFacts
<1>3. IsSequence(s) /\ Len(s) = L /\ s[L] = f /\ \A n \in DOMAIN m.stack \ {L} : s[n] = m.stack[n]
  BY <1>1, <1>2, Replaced
<1>4. w = [m EXCEPT !.stack = s]
  BY DEF WithTop
<1> HIDE DEF s, w, L
<1>5. w = [stack |-> s, globals |-> m.globals, heap |-> m.heap, pending |-> m.pending, output |-> m.output,
           returned |-> m.returned, status |-> m.status]
  BY <1>1, <1>4
<1>6. IsState(w)
  BY <1>3, <1>5 DEF IsState
<1>7. Top(w) = f
  BY <1>3, <1>5 DEF Top
<1>8. Len(w.stack) = L /\ \A n \in 1 .. L - 1 : w.stack[n] = m.stack[n]
  BY <1>2, <1>3, <1>5
<1> QED  BY <1>5, <1>6, <1>7, <1>8 DEF L, w

LEMMA WithTopSelf ==
  ASSUME NEW m, IsState(m), Len(m.stack) >= 1
  PROVE  WithTop(m, Top(m)) = m
<1> DEFINE L == Len(m.stack)
           s == [m.stack EXCEPT ![L] = m.stack[L]]
<1>1. /\ m = [stack |-> m.stack, globals |-> m.globals, heap |-> m.heap, pending |-> m.pending, output |-> m.output,
              returned |-> m.returned, status |-> m.status]
      /\ IsSequence(m.stack)
  BY DEF IsState
<1>2. s = m.stack
  <2>1. PICK S : m.stack \in Seq(S)
    BY <1>1 DEF IsSequence
  <2>2. m.stack = [n \in DOMAIN m.stack |-> m.stack[n]]
    BY <2>1
  <2> QED  BY <2>2
<1>3. WithTop(m, Top(m)) = [m EXCEPT !.stack = s]
  BY DEF WithTop, Top
<1> HIDE DEF s, L
<1> QED  BY <1>1, <1>2, <1>3

LEMMA SimParts ==
  ASSUME NEW u, NEW p, NEW m, NEW v, NEW q, Sim(u, p, m, v, q)
  PROVE  /\ IsState(m) /\ IsState(v) /\ Len(m.stack) >= 1 /\ Len(v.stack) = Len(m.stack) /\ Len(m.stack) \in Nat
         /\ SameData(m, v) /\ HoldsNames(p.globals, v.globals, m.globals)
         /\ FrameSim(u, p, Top(m), Top(v), q)
BY SequenceFacts DEF Sim, Callers, IsState

(* The two may give their top frames new contents together.                 *)
LEMMA WithTops ==
  ASSUME NEW u, NEW p, NEW m, NEW v, NEW q, Sim(u, p, m, v, q),
         NEW f, NEW g, NEW r, f.name = Top(m).name, FrameSim(u, p, f, g, r)
  PROVE  Sim(u, p, WithTop(m, f), WithTop(v, g), r)
<1> DEFINE w == WithTop(m, f)
           x == WithTop(v, g)
           L == Len(m.stack)
<1>1. /\ IsState(m) /\ IsState(v) /\ L >= 1 /\ Len(v.stack) = L /\ L \in Nat
      /\ SameData(m, v) /\ HoldsNames(p.globals, v.globals, m.globals)
  BY SimParts
<1>2. /\ IsState(w) /\ Top(w) = f /\ Len(w.stack) = L /\ \A n \in 1 .. L - 1 : w.stack[n] = m.stack[n]
      /\ w.globals = m.globals /\ w.heap = m.heap /\ w.pending = m.pending /\ w.output = m.output
      /\ w.returned = m.returned /\ w.status = m.status
  BY <1>1, WithTopFacts
<1>3. /\ IsState(x) /\ Top(x) = g /\ Len(x.stack) = L /\ \A n \in 1 .. L - 1 : x.stack[n] = v.stack[n]
      /\ x.globals = v.globals /\ x.heap = v.heap /\ x.pending = v.pending /\ x.output = v.output
      /\ x.returned = v.returned /\ x.status = v.status
  BY <1>1, WithTopFacts
<1>4. m.stack[1].name # InitFrame /\ \A n \in 1 .. L - 1 : Waiting(u, p, m.stack[n], v.stack[n], m.stack[n + 1].name)
  BY DEF Sim, Callers
<1> HIDE DEF w, x, L
<1>5. w.stack[L] = f /\ m.stack[L].name = f.name
  BY <1>2 DEF Top, L
<1>6. \A n \in 1 .. L : w.stack[n].name = m.stack[n].name
  <2>1. \A n \in 1 .. L : n = L \/ n \in 1 .. L - 1
    BY <1>1
  <2> QED  BY <1>2, <1>5, <2>1
<1>7. \A n \in 1 .. L - 1 : n + 1 \in 1 .. L
  BY <1>1
<1>8. Callers(u, p, w.stack, x.stack)
  <2>1. 1 \in 1 .. L
    BY <1>1
  <2> QED  BY <1>1, <1>2, <1>3, <1>4, <1>6, <1>7, <2>1 DEF Callers
<1>9. SameData(w, x) /\ HoldsNames(p.globals, x.globals, w.globals)
  BY <1>1, <1>2, <1>3 DEF SameData
<1> QED  BY <1>2, <1>3, <1>8, <1>9 DEF Sim, w, x
LEMMA CompiledParts ==
  ASSUME NEW u, NEW p, Compiles(u, p)
  PROVE  /\ Numbering(p.globals) /\ IsSequence(p.consts) /\ DOMAIN p.functions = DOMAIN u.functions \cup {InitFrame}
         /\ \A f \in DOMAIN u.functions \cup {InitFrame} :
              Runs(p, f, ParamsOf(u, f), CodeOf(u, f)) /\ Numbering(p.functions[f].registers)
BY DEF Compiles, RunsFunctions, IsProgram, Runs, NumbersFirst

(* The interpreter goes to quad q, where the VM is.                         *)
LEMMA Moved ==
  ASSUME NEW u, NEW p, NEW m, NEW v, NEW q, Sim(u, p, m, v, q), q \in 1 .. Len(CodeOf(u, Top(m).name)) + 1
  PROVE  Outcome(u, p, At(m, q), v)
<1> DEFINE f == Top(m)
           g == Top(v)
           h == [f EXCEPT !.pc = q]
           w == WithTop(m, h)
<1>1. At(m, q) = w
  BY DEF At, WithTop, Top
<1>2. IsState(m) /\ IsState(v) /\ Len(m.stack) >= 1 /\ Len(v.stack) = Len(m.stack) /\ FrameSim(u, p, f, g, q)
  BY SimParts
<1>3. f = [name |-> f.name, code |-> CodeOf(u, f.name), pc |-> f.pc, vars |-> f.vars]
  BY <1>2 DEF FrameSim
<1> HIDE DEF f, g
<1>4. h = [name |-> f.name, code |-> CodeOf(u, f.name), pc |-> q, vars |-> f.vars]
  BY <1>3
<1> HIDE DEF h
<1>5. FrameSim(u, p, h, g, q)
  BY <1>2, <1>4 DEF FrameSim, f
<1>6. h.name = f.name /\ h.pc = q
  BY <1>4
<1>7. Sim(u, p, w, WithTop(v, g), q)
  BY <1>5, <1>6, WithTops DEF f
<1>8. WithTop(v, g) = v
  BY <1>2, WithTopSelf DEF g
<1>9. Top(w) = h
  BY <1>2, WithTopFacts
<1> HIDE DEF w
<1>10. Outcome(u, p, w, v)
  BY <1>6, <1>7, <1>8, <1>9 DEF Outcome, Sim
<1> QED  BY <1>1, <1>10

(* The VM goes to the instruction of quad r.                                *)
LEMMA Sent ==
  ASSUME NEW u, NEW p, NEW m, NEW v, NEW q, Sim(u, p, m, v, q), NEW r
  PROVE  Sim(u, p, m, [v EXCEPT !.stack[Len(v.stack)].pc = Vm!Before(CodeOf(u, Top(m).name), r)], r)
<1> DEFINE f == Top(m)
           g == Top(v)
           pc == Vm!Before(CodeOf(u, f.name), r)
           h == [g EXCEPT !.pc = pc]
           w == [v EXCEPT !.stack[Len(v.stack)].pc = pc]
<1>1. w = WithTop(v, h)
  BY DEF WithTop, Top
<1>2. IsState(m) /\ IsState(v) /\ Len(m.stack) >= 1 /\ FrameSim(u, p, f, g, q)
  BY SimParts
<1>3. g = [fn |-> f.name, pc |-> Vm!Before(CodeOf(u, f.name), q), regs |-> g.regs]
  BY <1>2 DEF FrameSim
<1>4. WithTop(m, f) = m
  BY <1>2, WithTopSelf
<1> HIDE DEF f, g, pc
<1>5. h = [fn |-> f.name, pc |-> pc, regs |-> g.regs]
  BY <1>3
<1> HIDE DEF h
<1>6. FrameSim(u, p, f, h, r)
  BY <1>2, <1>5 DEF FrameSim, pc
<1>7. Sim(u, p, WithTop(m, f), WithTop(v, h), r)
  BY <1>6, WithTops DEF f
<1> HIDE DEF w
<1>8. Sim(u, p, m, w, r)
  BY <1>1, <1>4, <1>7
<1> QED  BY <1>8 DEF w, pc, f

(* An operand has the value of its slot.                                    *)
LEMMA SameRead ==
  ASSUME NEW u, NEW p, NEW m, NEW v, NEW q, Sim(u, p, m, v, q),
         NEW s, NEW o, Stands(TablesOf(p, Top(m).name), s, o), Evaluable(o)
  PROVE  Vm!Get(p, v, s) = Value(m, o)
<1> DEFINE f == Top(m)
           t == p.functions[f.name].registers
<1>1. HoldsNames(p.globals, v.globals, m.globals) /\ HoldsNames(t, Top(v).regs, f.vars)
  BY SimParts DEF FrameSim
<1>2. /\ IsConst(o) => s.where = "CONST" /\ s.index + 1 \in DOMAIN p.consts /\ p.consts[s.index + 1] = Num(o.ival)
      /\ o.kind \in {"TEMPORARY", "LOCAL"} => s.where = "REG" /\ o.name \in DOMAIN t /\ s.index = t[o.name]
      /\ IsGlobal(o) => s.where = "GLOBAL" /\ o.name \in DOMAIN p.globals /\ s.index = p.globals[o.name]
  BY DEF Stands, TablesOf
<1>3. Vm!Top(v) = Top(v)
  BY SameTop
<1> HIDE DEF f, t
<1>4. CASE IsConst(o)
  BY <1>2, <1>4 DEF Vm!Get, Value, IsConst, IsGlobal
<1>5. CASE IsGlobal(o)
  <2>1. v.globals[s.index + 1] = Lookup(m.globals, o.name)
    BY <1>1, <1>2, <1>5 DEF HoldsNames
  <2> QED  BY <1>2, <1>5, <2>1 DEF Vm!Get, Value, IsConst, IsGlobal
<1>6. CASE o.kind \in {"TEMPORARY", "LOCAL"}
  <2>1. Top(v).regs[s.index + 1] = Lookup(f.vars, o.name)
    BY <1>1, <1>2, <1>6 DEF HoldsNames
  <2> QED  BY <1>2, <1>3, <1>6, <2>1 DEF Vm!Get, Value, IsConst, IsGlobal, f
<1> QED  BY <1>4, <1>5, <1>6 DEF Evaluable, IsNameOperand, IsGlobal

(* Both store to a name.                                                    *)
LEMMA SameWrite ==
  ASSUME NEW u, NEW p, Compiles(u, p), NEW m, NEW v, NEW q, Sim(u, p, m, v, q),
         NEW s, NEW o, Stands(TablesOf(p, Top(m).name), s, o), IsNameOperand(o), NEW x
  PROVE  LET w == Store(m, o, x)
         IN  Sim(u, p, w, Vm!Put(v, s, x), q) /\ Top(w).name = Top(m).name /\ Top(w).pc = Top(m).pc
<1> DEFINE f == Top(m)
           g == Top(v)
           w == Store(m, o, x)
           y == Vm!Put(v, s, x)
           t == p.functions[f.name].registers
<1> SUFFICES Sim(u, p, w, y, q) /\ Top(w).name = f.name /\ Top(w).pc = f.pc
  OBVIOUS
<1>1. /\ IsState(m) /\ IsState(v) /\ Len(m.stack) >= 1 /\ Len(v.stack) = Len(m.stack)
      /\ SameData(m, v) /\ HoldsNames(p.globals, v.globals, m.globals) /\ FrameSim(u, p, f, g, q)
  BY SimParts
<1>2. Numbering(p.globals) /\ Numbering(t)
  BY <1>1, CompiledParts DEF FrameSim
<1>3. CASE IsGlobal(o)
  <2> DEFINE gm == Bound(m.globals, o.name, x)
             gv == [v.globals EXCEPT ![s.index + 1] = x]
  <2>1. s.where = "GLOBAL" /\ o.name \in DOMAIN p.globals /\ s.index = p.globals[o.name]
    BY <1>3 DEF Stands, TablesOf
  <2>2. HoldsNames(p.globals, gv, gm)
    BY <1>1, <1>2, <2>1, SlotWritten
  <2>3. w = [m EXCEPT !.globals = gm] /\ y = [v EXCEPT !.globals = gv]
    BY <1>3, <2>1 DEF Store, Vm!Put
  <2> HIDE DEF gm, gv, w, y, f, g, t
  <2>4. /\ w = [stack |-> m.stack, globals |-> gm, heap |-> m.heap, pending |-> m.pending, output |-> m.output,
                returned |-> m.returned, status |-> m.status]
        /\ y = [stack |-> v.stack, globals |-> gv, heap |-> v.heap, pending |-> v.pending, output |-> v.output,
                returned |-> v.returned, status |-> v.status]
    BY <1>1, <2>3 DEF IsState
  <2>5. IsState(w) /\ IsState(y) /\ SameData(w, y) /\ HoldsNames(p.globals, y.globals, w.globals)
    BY <1>1, <2>2, <2>4 DEF IsState, SameData
  <2>6. w.stack = m.stack /\ y.stack = v.stack /\ Top(w) = Top(m) /\ Top(y) = Top(v)
    BY <2>4 DEF Top
  <2>7. Sim(u, p, w, y, q)
    BY <2>5, <2>6 DEF Sim
  <2> QED  BY <2>6, <2>7 DEF f
<1>4. CASE o.kind \in {"TEMPORARY", "LOCAL"}
  <2> DEFINE store == Bound(f.vars, o.name, x)
             regs  == [g.regs EXCEPT ![s.index + 1] = x]
             h == [f EXCEPT !.vars = store]
             k == [g EXCEPT !.regs = regs]
  <2>1. s.where = "REG" /\ o.name \in DOMAIN t /\ s.index = t[o.name]
    BY <1>4 DEF Stands, TablesOf
  <2>2. HoldsNames(t, regs, store)
    BY <1>1, <1>2, <2>1, SlotWritten DEF FrameSim
  <2>3. w = WithTop(m, h)
    BY <1>4 DEF Store, WithTop, Top, IsGlobal
  <2>4. y = WithTop(v, k)
    BY <2>1 DEF Vm!Put, WithTop, Top
  <2>5. /\ f = [name |-> f.name, code |-> CodeOf(u, f.name), pc |-> f.pc, vars |-> f.vars]
        /\ g = [fn |-> f.name, pc |-> Vm!Before(CodeOf(u, f.name), q), regs |-> g.regs]
    BY <1>1 DEF FrameSim
  <2> HIDE DEF store, regs, f, g, w, y
  <2>6. /\ h = [name |-> f.name, code |-> CodeOf(u, f.name), pc |-> f.pc, vars |-> store]
        /\ k = [fn |-> f.name, pc |-> Vm!Before(CodeOf(u, f.name), q), regs |-> regs]
    BY <2>5
  <2> HIDE DEF h, k
  <2>7. h.name = f.name /\ h.pc = f.pc /\ FrameSim(u, p, h, k, q)
    BY <1>1, <2>2, <2>6 DEF FrameSim
  <2>8. Sim(u, p, w, y, q)
    BY <2>3, <2>4, <2>7, WithTops DEF f
  <2>9. Top(w) = h
    BY <1>1, <2>3, WithTopFacts
  <2> QED  BY <2>7, <2>8, <2>9
<1> QED  BY <1>3, <1>4 DEF IsNameOperand, IsGlobal
(* A fault stops both.                                                      *)
LEMMA Failed ==
  ASSUME NEW u, NEW p, NEW m, NEW v, NEW q, Sim(u, p, m, v, q), NEW fault, fault # "running"
  PROVE  Outcome(u, p, Fail(m, fault), Vm!Fail(v, fault))
<1> DEFINE w == Fail(m, fault)
           y == Vm!Fail(v, fault)
<1>1. IsState(m) /\ IsState(v) /\ SameData(m, v) /\ HoldsNames(p.globals, v.globals, m.globals)
  BY SimParts
<1>2. w = [m EXCEPT !.status = fault] /\ y = [v EXCEPT !.status = fault]
  BY DEF Fail, Vm!Fail
<1> HIDE DEF w, y
<1>3. /\ w = [stack |-> m.stack, globals |-> m.globals, heap |-> m.heap, pending |-> m.pending, output |-> m.output,
              returned |-> m.returned, status |-> fault]
      /\ y = [stack |-> v.stack, globals |-> v.globals, heap |-> v.heap, pending |-> v.pending, output |-> v.output,
              returned |-> v.returned, status |-> fault]
  BY <1>1, <1>2 DEF IsState
<1>4. Outcome(u, p, w, y)
  BY <1>1, <1>3 DEF Outcome, SameData
<1> QED  BY <1>4 DEF w, y

(* Quad pc of the top frame is executed: the VM is at the next one.         *)
AtQuad(u, p, m, v) ==
  /\ Sim(u, p, m, v, Top(m).pc + 1)
  /\ Top(m).pc \in 1 .. Len(CodeOf(u, Top(m).name)) /\ Len(CodeOf(u, Top(m).name)) \in Nat

LEMMA Advanced ==
  ASSUME NEW u, NEW p, NEW m, NEW v, AtQuad(u, p, m, v)
  PROVE  Outcome(u, p, Advance(m), v)
<1> DEFINE pc == Top(m).pc
           L  == Len(CodeOf(u, Top(m).name))
<1>1. Sim(u, p, m, v, pc + 1) /\ pc \in 1 .. L /\ L \in Nat
  BY DEF AtQuad
<1>2. pc + 1 \in 1 .. L + 1
  <2> HIDE DEF pc, L
  <2> QED  BY <1>1
<1>3. Outcome(u, p, At(m, pc + 1), v)
  BY <1>1, <1>2, Moved
<1> QED  BY <1>3 DEF Advance

LEMMA Stored ==
  ASSUME NEW u, NEW p, Compiles(u, p), NEW m, NEW v, AtQuad(u, p, m, v),
         NEW s, NEW o, Stands(TablesOf(p, Top(m).name), s, o), IsNameOperand(o), NEW x
  PROVE  AtQuad(u, p, Store(m, o, x), Vm!Put(v, s, x))
<1>1. LET w == Store(m, o, x)
      IN  Sim(u, p, w, Vm!Put(v, s, x), Top(m).pc + 1) /\ Top(w).name = Top(m).name /\ Top(w).pc = Top(m).pc
  BY SameWrite DEF AtQuad
<1> QED  BY <1>1 DEF AtQuad

(* State m with memory h, queued arguments a and output o.                  *)
With(m, h, a, o) ==
  [stack |-> m.stack, globals |-> m.globals, heap |-> h, pending |-> a, output |-> o, returned |-> m.returned, status |-> m.status]

LEMMA ChangesOne ==
  ASSUME NEW m, IsState(m), NEW x
  PROVE  /\ [m EXCEPT !.heap = x] = With(m, x, m.pending, m.output)
         /\ [m EXCEPT !.pending = x] = With(m, m.heap, x, m.output)
         /\ [m EXCEPT !.output = x] = With(m, m.heap, m.pending, x)
BY DEF IsState, With

LEMMA Changed ==
  ASSUME NEW u, NEW p, NEW m, NEW v, AtQuad(u, p, m, v), NEW h, NEW a, NEW o
  PROVE  AtQuad(u, p, With(m, h, a, o), With(v, h, a, o)) /\ Top(With(m, h, a, o)) = Top(m)
<1> DEFINE w == With(m, h, a, o)
           y == With(v, h, a, o)
<1>1. /\ IsState(m) /\ IsState(v) /\ SameData(m, v) /\ HoldsNames(p.globals, v.globals, m.globals)
      /\ Callers(u, p, m.stack, v.stack) /\ FrameSim(u, p, Top(m), Top(v), Top(m).pc + 1)
  BY DEF AtQuad, Sim
<1>2. IsState(w) /\ IsState(y) /\ SameData(w, y)
  BY <1>1 DEF IsState, SameData, With
<1>3. w.stack = m.stack /\ y.stack = v.stack /\ w.globals = m.globals /\ y.globals = v.globals
  BY DEF With
<1> HIDE DEF w, y
<1>4. Top(w) = Top(m) /\ Top(y) = Top(v)
  BY <1>3 DEF Top
<1>5. Sim(u, p, w, y, Top(w).pc + 1)
  BY <1>1, <1>2, <1>3, <1>4 DEF Sim
<1> QED  BY <1>4, <1>5 DEF AtQuad, w, y

LEMMA Tried ==
  ASSUME NEW u, NEW p, NEW m, NEW v, AtQuad(u, p, m, v), NEW fault, fault # "running",
         NEW w, NEW y, fault = "" => AtQuad(u, p, w, y)
  PROVE  Outcome(u, p, Faulting(m, fault, w), Vm!Faulting(v, fault, y))
<1>1. CASE fault = ""
  BY <1>1, Advanced DEF Faulting, Vm!Faulting
<1>2. CASE fault # ""
  <2>1. Outcome(u, p, Fail(m, fault), Vm!Fail(v, fault))
    BY Failed DEF AtQuad
  <2> QED  BY <1>2, <2>1 DEF Faulting, Vm!Faulting
<1> QED  BY <1>1, <1>2

(* The last label of a name.                                                *)
LEMMA LastPlace ==
  ASSUME NEW N \in Nat, NEW S, S \subseteq 1 .. N, S # {}
  PROVE  LET k == CHOOSE i \in S : \A j \in S : j <= i IN k \in S
<1> DEFINE G == {n \in 0 .. N : S \cap (1 .. n) # {} => \E i \in S : \A j \in S : j <= n => j <= i}
<1>1. 0 \in G
  OBVIOUS
<1>2. \A n \in 0 .. N : n \in G /\ n < N => n + 1 \in G
  <2> SUFFICES ASSUME NEW n \in 0 .. N, n \in G, n < N PROVE n + 1 \in G
    OBVIOUS
  <2>1. n + 1 \in 0 .. N
    OBVIOUS
  <2>2. CASE n + 1 \in S
    <3>1. \A j \in S : j <= n + 1 => j <= n + 1
      OBVIOUS
    <3> QED  BY <2>1, <2>2, <3>1
  <2>3. CASE n + 1 \notin S
    <3>1. \A j \in S : j <= n + 1 => j <= n
      BY <2>3
    <3>2. S \cap (1 .. n + 1) = S \cap (1 .. n)
      BY <2>3
    <3> QED  BY <2>1, <3>1, <3>2
  <2> QED  BY <2>2, <2>3
<1>3. N \in G
  <2>1. N \in 0 .. N
    OBVIOUS
  <2> HIDE DEF G
  <2> QED  BY <1>1, <1>2, <2>1, SetInduction
<1>4. \E i \in S : \A j \in S : j <= i
  <2>1. S \cap (1 .. N) # {}
    OBVIOUS
  <2> QED  BY <1>3, <2>1
<1> QED  BY <1>4

(* A jump: to the last label of the name, or to none.                       *)
LEMMA Jumped ==
  ASSUME NEW u, IsUnit(u), NEW p, NEW m, NEW v, AtQuad(u, p, m, v), NEW l, l = Label(l.name)
  PROVE  Outcome(u, p, Jump(m, l), Vm!JumpTo(v, Vm!Target(CodeOf(u, Top(m).name), l)))
<1> DEFINE code   == CodeOf(u, Top(m).name)
           places == {k \in DOMAIN code : code[k].op = "LABEL" /\ code[k].result = l}
           k      == CHOOSE i \in places : \A j \in places : j <= i
           target == Vm!Target(code, l)
<1>1. Sim(u, p, m, v, Top(m).pc + 1) /\ FrameSim(u, p, Top(m), Top(v), Top(m).pc + 1)
  BY SimParts DEF AtQuad
<1>2. Top(m).name \in DOMAIN u.functions \cup {InitFrame} /\ Top(m).code = code
  BY <1>1 DEF FrameSim
<1>3. Len(code) \in Nat /\ DOMAIN code = 1 .. Len(code) /\ \A i \in 1 .. Len(code) : IsLowered(code[i])
  <2> HIDE DEF code
  <2>1. IsSequence(code) /\ \A i \in 1 .. Len(code) : IsLowered(code[i])
    BY <1>2, UnitParts DEF code
  <2> QED  BY <2>1, SequenceFacts
<1> HIDE DEF code
<1>4. \A i \in DOMAIN code : code[i].op = "LABEL" => (code[i].result = l <=> code[i].result.name = l.name)
  <2>1. \A i \in DOMAIN code : code[i].op = "LABEL" => code[i].result = Label(code[i].result.name)
    BY <1>3 DEF IsLowered
  <2> QED  BY <2>1
<1>5. places = {i \in DOMAIN code : code[i].op = "LABEL" /\ code[i].result.name = l.name}
  BY <1>4
<1>6. /\ Jump(m, l) = IF places = {} THEN Fail(m, "internal") ELSE At(m, k)
      /\ target = IF places = {} THEN -1 ELSE Vm!Before(code, k)
  <2> DEFINE named == {i \in DOMAIN code : code[i].op = "LABEL" /\ code[i].result.name = l.name}
  <2>1. target = IF named = {} THEN -1 ELSE Vm!Before(code, CHOOSE i \in named : \A j \in named : j <= i)
    BY DEF Vm!Target
  <2>2. Jump(m, l) = IF places = {} THEN Fail(m, "internal") ELSE At(m, k)
    BY <1>2 DEF Jump
  <2>3. places = named
    BY <1>5
  <2> HIDE DEF target, places, named
  <2> QED  BY <2>1, <2>2, <2>3
<1>7. CASE places = {}
  <2>1. Jump(m, l) = Fail(m, "internal") /\ Vm!JumpTo(v, target) = Vm!Fail(v, "internal")
    BY <1>6, <1>7 DEF Vm!JumpTo
  <2>2. Outcome(u, p, Fail(m, "internal"), Vm!Fail(v, "internal"))
    BY <1>1, Failed
  <2> QED  BY <2>1, <2>2 DEF target, code
<1>8. CASE places # {}
  <2>1. k \in 1 .. Len(code) + 1 /\ k \in Nat \ {0}
    <3>1. places \subseteq 1 .. Len(code)
      BY <1>3
    <3> HIDE DEF places
    <3>2. k \in places
      BY <1>3, <1>8, <3>1, LastPlace
    <3> HIDE DEF k
    <3> QED  BY <1>3, <3>1, <3>2
  <2> HIDE DEF places, k
  <2>2. Vm!Before(code, k) \in Nat
    BY <2>1, BeforeCounts
  <2> DEFINE y == [v EXCEPT !.stack[Len(v.stack)].pc = Vm!Before(code, k)]
  <2>3. Jump(m, l) = At(m, k) /\ Vm!JumpTo(v, target) = y
    BY <1>6, <1>8, <2>2 DEF Vm!JumpTo
  <2>4. Sim(u, p, m, y, k)
    BY <1>1, Sent DEF code
  <2> HIDE DEF y
  <2>5. Outcome(u, p, At(m, k), y)
    BY <2>1, <2>4, Moved DEF code
  <2> QED  BY <2>3, <2>5 DEF target, code
<1> QED  BY <1>7, <1>8
(* The quad being executed, and the instruction the VM has just passed.     *)
LEMMA AtInstruction ==
  ASSUME NEW u, IsUnit(u), NEW p, Compiles(u, p), NEW m, NEW v, AtQuad(u, p, m, v)
  PROVE  LET code == CodeOf(u, Top(m).name)
             q    == code[Top(m).pc]
         IN  /\ IsLowered(q) /\ Top(v).fn = Top(m).name /\ Top(m).name \in DOMAIN u.functions \cup {InitFrame}
             /\ ~Vm!Marker(q) => Translates(TablesOf(p, Top(m).name), p.functions[Top(m).name].code[Top(v).pc], q, code)
<1> DEFINE f    == Top(m).name
           code == CodeOf(u, f)
           pc   == Top(m).pc
           q    == code[pc]
<1>1. Sim(u, p, m, v, pc + 1) /\ pc \in 1 .. Len(code) /\ Len(code) \in Nat
  BY DEF AtQuad
<1>2. f \in DOMAIN u.functions \cup {InitFrame} /\ Top(v) = [fn |-> f, pc |-> Vm!Before(code, pc + 1), regs |-> Top(v).regs]
  BY <1>1, SimParts DEF FrameSim
<1>3. Top(v).fn = f /\ Top(v).pc = Vm!Before(code, pc + 1)
  BY <1>2
<1>4. IsLowered(q)
  BY <1>1, <1>2, UnitParts
<1>5. Runs(p, f, ParamsOf(u, f), code)
  BY <1>2, CompiledParts
<1> HIDE DEF f, code, pc
<1>6. Vm!Before(code, pc + 1) = IF Vm!Marker(q) THEN Vm!Before(code, pc) ELSE Vm!Before(code, pc) + 1
  <2>1. pc \in Nat \ {0}
    BY <1>1
  <2> QED  BY <2>1, BeforeCounts
<1>7. ~Vm!Marker(q) => Translates(TablesOf(p, f), p.functions[f].code[Vm!Before(code, pc) + 1], q, code)
  BY <1>1, <1>5 DEF Runs
<1>8. ~Vm!Marker(q) => Translates(TablesOf(p, f), p.functions[f].code[Top(v).pc], q, code)
  <2> HIDE DEF q
  <2> QED  BY <1>3, <1>6, <1>7
<1> QED  BY <1>2, <1>3, <1>4, <1>8 DEF f, code, pc

LEMMA NothingThere == ~IsNameOperand(NoOperand) /\ ~IsConst(NoOperand) /\ ~Evaluable(NoOperand)
<1>1. NoOperand.kind = "NONE"
  BY DEF NoOperand
<1> QED  BY <1>1 DEF IsNameOperand, IsConst, Evaluable

(* A call's result is stored, if it has one.                                *)
LEMMA Answered ==
  ASSUME NEW u, NEW p, Compiles(u, p), NEW m, NEW v, AtQuad(u, p, m, v),
         NEW q, IsLowered(q), q.op = "CALL", NEW s, Stands(TablesOf(p, Top(m).name), s, q.result), NEW x
  PROVE  Outcome(u, p, Advance(IF q.result = NoOperand THEN m ELSE Store(m, q.result, x)),
                       IF s = Vm!Nowhere THEN v ELSE Vm!Put(v, s, x))
<1>1. IsNameOperand(q.result) \/ q.result = NoOperand
  BY DEF IsLowered
<1>2. CASE q.result = NoOperand
  <2>1. s = Vm!Nowhere
    BY <1>2, NothingThere DEF Stands
  <2>2. Outcome(u, p, Advance(m), v)
    BY Advanced
  <2> QED  BY <1>2, <2>1, <2>2
<1>3. CASE IsNameOperand(q.result)
  <2>1. q.result # NoOperand
    BY <1>3, NothingThere
  <2>2. s.where \in {"REG", "GLOBAL"}
    BY <1>3 DEF Stands, IsNameOperand, IsGlobal
  <2>3. s # Vm!Nowhere
    BY <2>2 DEF Vm!Nowhere, Vm!Slot
  <2>4. AtQuad(u, p, Store(m, q.result, x), Vm!Put(v, s, x))
    BY <1>3, Stored
  <2>5. Outcome(u, p, Advance(Store(m, q.result, x)), Vm!Put(v, s, x))
    BY <2>4, Advanced
  <2> QED  BY <2>1, <2>3, <2>5
<1> QED  BY <1>1, <1>2, <1>3

(* A function's end.                                                        *)
LEMMA Left ==
  ASSUME NEW u, IsUnit(u), NEW p, Compiles(u, p), NEW m, NEW v, NEW q, Sim(u, p, m, v, q), NEW x
  PROVE  Outcome(u, p, LeaveWith(m, x), Vm!LeaveWith(p, v, x))
<1> DEFINE L  == Len(m.stack)
           ms == SubSeq(m.stack, 1, L - 1)
           vs == SubSeq(v.stack, 1, L - 1)
           pm == [m EXCEPT !.stack = SubSeq(@, 1, Len(@) - 1)]
           pv == [v EXCEPT !.stack = Vm!Front(@)]
<1>1. /\ IsState(m) /\ IsState(v) /\ L >= 1 /\ Len(v.stack) = L /\ L \in Nat
      /\ SameData(m, v) /\ HoldsNames(p.globals, v.globals, m.globals) /\ FrameSim(u, p, Top(m), Top(v), q)
  BY SimParts
<1>2. m.stack[1].name # InitFrame /\ \A n \in 1 .. L - 1 : Waiting(u, p, m.stack[n], v.stack[n], m.stack[n + 1].name)
  BY DEF Sim, Callers
<1>3. /\ IsSequence(ms) /\ Len(ms) = L - 1 /\ \A k \in 1 .. L - 1 : ms[k] = m.stack[k]
      /\ IsSequence(vs) /\ Len(vs) = L - 1 /\ \A k \in 1 .. L - 1 : vs[k] = v.stack[k]
  BY <1>1, Popped DEF IsState
<1>4. pm = [m EXCEPT !.stack = ms] /\ pv = [v EXCEPT !.stack = vs]
  BY <1>1 DEF Vm!Front
<1>5. Top(v).fn = Top(m).name
  BY <1>1 DEF FrameSim
<1>6. Top(m) = m.stack[L]
  BY DEF Top
<1>7. /\ LeaveWith(m, x) = IF Top(m).name = InitFrame THEN pm
                           ELSE IF L = 1 THEN [pm EXCEPT !.returned = x, !.status = "done"]
                           ELSE LET call == Top(pm).code[Top(pm).pc]
                                IN  Advance(IF call.result = NoOperand THEN pm ELSE Store(pm, call.result, x))
      /\ Vm!LeaveWith(p, v, x) = IF Top(m).name = InitFrame THEN pv
                                 ELSE IF L = 1 THEN [pv EXCEPT !.returned = x, !.status = "done"]
                                 ELSE LET call == p.functions[Top(pv).fn].code[Top(pv).pc]
                                      IN  IF call.r = Vm!Nowhere THEN pv ELSE Vm!Put(pv, call.r, x)
  <2>1. LeaveWith(m, x) = IF Top(m).name = InitFrame THEN pm
                          ELSE IF L = 1 THEN [pm EXCEPT !.returned = x, !.status = "done"]
                          ELSE LET call == Top(pm).code[Top(pm).pc]
                               IN  Advance(IF call.result = NoOperand THEN pm ELSE Store(pm, call.result, x))
    BY DEF LeaveWith
  <2>2. Vm!Top(v).fn = Top(m).name /\ Vm!InitCode = InitFrame /\ Len(v.stack) = L /\ Vm!Top(pv) = Top(pv)
    BY <1>1, <1>5, SameTop DEF Vm!InitCode, InitFrame
  <2>3. Vm!LeaveWith(p, v, x) = IF Top(m).name = InitFrame THEN pv
                                ELSE IF L = 1 THEN [pv EXCEPT !.returned = x, !.status = "done"]
                                ELSE LET call == p.functions[Top(pv).fn].code[Top(pv).pc]
                                     IN  IF call.r = Vm!Nowhere THEN pv ELSE Vm!Put(pv, call.r, x)
    BY <2>2 DEF Vm!LeaveWith
  <2> QED  BY <2>1, <2>3
<1> HIDE DEF L, ms, vs, pm, pv
<1>8. /\ pm = [stack |-> ms, globals |-> m.globals, heap |-> m.heap, pending |-> m.pending, output |-> m.output,
               returned |-> m.returned, status |-> m.status]
      /\ pv = [stack |-> vs, globals |-> v.globals, heap |-> v.heap, pending |-> v.pending, output |-> v.output,
               returned |-> v.returned, status |-> v.status]
  BY <1>1, <1>4 DEF IsState
<1>9. IsState(pm) /\ IsState(pv) /\ SameData(pm, pv) /\ HoldsNames(p.globals, pv.globals, pm.globals)
  BY <1>1, <1>3, <1>8 DEF IsState, SameData
<1>10. ASSUME L # 1
       PROVE  /\ Callers(u, p, pm.stack, pv.stack) /\ Top(pm) = m.stack[L - 1] /\ Top(pv) = v.stack[L - 1]
              /\ Waiting(u, p, Top(pm), Top(pv), Top(m).name)
  <2>1. L - 1 \in 1 .. L - 1 /\ 1 \in 1 .. L - 1 /\ (L - 1) + 1 = L
    BY <1>1, <1>10
  <2>2. Top(pm) = m.stack[L - 1] /\ Top(pv) = v.stack[L - 1]
    BY <1>3, <1>8, <2>1 DEF Top
  <2>3. Waiting(u, p, Top(pm), Top(pv), Top(m).name)
    BY <1>2, <1>6, <2>1, <2>2
  <2>4. \A n \in 1 .. (L - 1) - 1 : n \in 1 .. L - 1 /\ n + 1 \in 1 .. L - 1
    BY <1>1
  <2>5. Callers(u, p, ms, vs)
    <3>1. \A n \in 1 .. Len(ms) - 1 : Waiting(u, p, ms[n], vs[n], ms[n + 1].name)
      BY <1>2, <1>3, <2>4
    <3> QED  BY <1>1, <1>2, <1>3, <2>1, <3>1 DEF Callers
  <2> QED  BY <1>8, <2>2, <2>3, <2>5
<1>11. CASE Top(m).name = InitFrame
  <2>1. L # 1
    BY <1>2, <1>6, <1>11
  <2>2. Sim(u, p, pm, pv, Top(pm).pc)
    BY <1>9, <1>10, <1>11, <2>1 DEF Waiting, Sim
  <2>3. Outcome(u, p, pm, pv)
    BY <1>9, <2>2 DEF Outcome
  <2> QED  BY <1>7, <1>11, <2>3
<1>12. CASE Top(m).name # InitFrame /\ L = 1
  <2> DEFINE rm == [pm EXCEPT !.returned = x]
             rv == [pv EXCEPT !.returned = x]
             w == [rm EXCEPT !.status = "done"]
             y == [rv EXCEPT !.status = "done"]
  <2>1. LeaveWith(m, x) = w /\ Vm!LeaveWith(p, v, x) = y
    BY <1>7, <1>12
  <2>2. rm = [pm EXCEPT !.returned = x] /\ rv = [pv EXCEPT !.returned = x]
    OBVIOUS
  <2>3. w = [rm EXCEPT !.status = "done"] /\ y = [rv EXCEPT !.status = "done"]
    OBVIOUS
  <2> HIDE DEF rm, rv, w, y
  <2>4. /\ rm = [stack |-> ms, globals |-> m.globals, heap |-> m.heap, pending |-> m.pending, output |-> m.output,
                 returned |-> x, status |-> m.status]
        /\ rv = [stack |-> vs, globals |-> v.globals, heap |-> v.heap, pending |-> v.pending, output |-> v.output,
                 returned |-> x, status |-> v.status]
    BY <1>8, <2>2
  <2>5. /\ w = [stack |-> ms, globals |-> m.globals, heap |-> m.heap, pending |-> m.pending, output |-> m.output,
                returned |-> x, status |-> "done"]
        /\ y = [stack |-> vs, globals |-> v.globals, heap |-> v.heap, pending |-> v.pending, output |-> v.output,
                returned |-> x, status |-> "done"]
    BY <2>3, <2>4
  <2>6. Outcome(u, p, w, y)
    BY <1>1, <2>5 DEF Outcome, SameData
  <2> QED  BY <2>1, <2>6
<1>13. CASE Top(m).name # InitFrame /\ L # 1
  <2> DEFINE code == CodeOf(u, Top(pm).name)
             call == code[Top(pm).pc]
             in   == p.functions[Top(pm).name].code[Top(pv).pc]
  <2>1. /\ FrameSim(u, p, Top(pm), Top(pv), Top(pm).pc + 1)
        /\ Top(pm).pc \in 1 .. Len(code) /\ call.op = "CALL"
    BY <1>10, <1>13 DEF Waiting
  <2>2. Len(code) \in Nat
    <3>1. Top(pm).name \in DOMAIN u.functions \cup {InitFrame}
      BY <2>1 DEF FrameSim
    <3>2. IsSequence(code)
      BY <3>1, UnitParts
    <3> HIDE DEF code
    <3> QED  BY <3>2, SequenceFacts
  <2>3. AtQuad(u, p, pm, pv)
    BY <1>9, <1>10, <1>13, <2>1, <2>2 DEF AtQuad, Sim
  <2>4. Top(pm).code = code
    BY <2>1 DEF FrameSim
  <2>5. IsLowered(call) /\ Top(pv).fn = Top(pm).name /\ (~Vm!Marker(call) => Translates(TablesOf(p, Top(pm).name), in, call, code))
    BY <2>3, AtInstruction
  <2> HIDE DEF call, in, code
  <2>6. Stands(TablesOf(p, Top(pm).name), in.r, call.result)
    BY <2>1, <2>5 DEF Translates, Vm!Marker
  <2>7. Outcome(u, p, Advance(IF call.result = NoOperand THEN pm ELSE Store(pm, call.result, x)),
                      IF in.r = Vm!Nowhere THEN pv ELSE Vm!Put(pv, in.r, x))
    BY <2>1, <2>3, <2>5, <2>6, Answered
  <2>8. /\ LeaveWith(m, x) = Advance(IF call.result = NoOperand THEN pm ELSE Store(pm, call.result, x))
        /\ Vm!LeaveWith(p, v, x) = IF in.r = Vm!Nowhere THEN pv ELSE Vm!Put(pv, in.r, x)
    BY <1>7, <1>13, <2>4, <2>5 DEF call, in
  <2> QED  BY <2>7, <2>8
<1> QED  BY <1>11, <1>12, <1>13
(* A function is entered with the same arguments.                           *)
LEMMA FrameEntered ==
  ASSUME NEW u, IsUnit(u), NEW p, Compiles(u, p), NEW f \in DOMAIN u.functions, NEW args
  PROVE  FrameSim(u, p, Enter(u.functions, f, args), Vm!Frame(p, f, args), 1) /\ Enter(u.functions, f, args).name = f
<1> DEFINE params == u.functions[f].params
           code   == u.functions[f].code
           t      == p.functions[f].registers
           at(x)    == CHOOSE k \in DOMAIN params : params[k] = x
           value(x) == IF at(x) <= Len(args) THEN args[at(x)] ELSE Num(0)
           vars == [x \in {params[k] : k \in DOMAIN params} |-> value(x)]
           regs == [k \in 1 .. Cardinality(DOMAIN t) |-> IF k <= Len(params) /\ k <= Len(args) THEN args[k] ELSE Num(0)]
           e == Enter(u.functions, f, args)
           g == Vm!Frame(p, f, args)
<1>1. f # InitFrame /\ CodeOf(u, f) = code /\ ParamsOf(u, f) = params
  BY UnitParts DEF CodeOf, ParamsOf
<1>2. IsParams(params) /\ IsSequence(code)
  BY <1>1, UnitParts
<1>3. Runs(p, f, params, code)
  BY <1>1, CompiledParts
<1>4. /\ Numbering(t) /\ p.functions[f].params = Len(params)
      /\ \A k \in 1 .. Len(params) : params[k] \in DOMAIN t /\ t[params[k]] = k - 1
  BY <1>3 DEF Runs, NumbersFirst
<1>5. e = [name |-> f, code |-> code, pc |-> 1, vars |-> vars]
  BY DEF Enter, Frame
<1>6. g = [fn |-> f, pc |-> 0, regs |-> regs]
  BY <1>4, SameTables, SameValues DEF Vm!Frame
<1>7. /\ Len(params) \in Nat /\ DOMAIN params = 1 .. Len(params)
      /\ \A j, k \in DOMAIN params : params[j] = params[k] => j = k
  BY <1>2, SequenceFacts DEF IsParams
<1>8. ASSUME NEW x \in DOMAIN t PROVE regs[t[x] + 1] = Lookup(vars, x)
  <2>1. t[x] \in 0 .. Cardinality(DOMAIN t) - 1 /\ Cardinality(DOMAIN t) \in Nat
    BY <1>4, FS_CardinalityType DEF Numbering
  <2>2. t[x] + 1 \in 1 .. Cardinality(DOMAIN t)
    BY <2>1
  <2>3. CASE \E k \in DOMAIN params : params[k] = x
    <3>1. PICK k \in DOMAIN params : params[k] = x
      BY <2>3
    <3>2. at(x) = k
      BY <1>7, <3>1
    <3>3. value(x) = IF k <= Len(args) THEN args[k] ELSE Num(0)
      <4> HIDE DEF at
      <4> QED  BY <3>2
    <3>4. vars[x] = value(x) /\ x \in DOMAIN vars
      BY <3>1
    <3>5. t[x] + 1 = k /\ k <= Len(params)
      BY <1>4, <1>7, <3>1
    <3>6. regs[k] = IF k <= Len(args) THEN args[k] ELSE Num(0)
      BY <2>2, <3>5
    <3> HIDE DEF vars, value, regs
    <3> QED  BY <3>3, <3>4, <3>5, <3>6 DEF Lookup
  <2>4. CASE ~\E k \in DOMAIN params : params[k] = x
    <3>1. ~(t[x] + 1 <= Len(params))
      <4>1. SUFFICES ASSUME t[x] + 1 <= Len(params) PROVE FALSE
        OBVIOUS
      <4> DEFINE k == t[x] + 1
      <4>2. k \in 1 .. Len(params) /\ k - 1 = t[x]
        BY <1>7, <2>1, <4>1
      <4> HIDE DEF k
      <4>3. params[k] \in DOMAIN t /\ t[params[k]] = t[x]
        BY <1>4, <4>2
      <4>4. params[k] = x
        BY <1>4, <4>3 DEF Numbering
      <4> QED  BY <1>7, <2>4, <4>2, <4>4
    <3>2. regs[t[x] + 1] = Num(0)
      BY <2>2, <3>1
    <3>3. x \notin DOMAIN vars
      BY <2>4
    <3> HIDE DEF vars, regs
    <3> QED  BY <3>2, <3>3 DEF Lookup
  <2> QED  BY <2>3, <2>4
<1>9. HoldsNames(t, regs, vars)
  <2>1. regs = [k \in 1 .. Cardinality(DOMAIN t) |-> regs[k]]
    OBVIOUS
  <2> HIDE DEF regs, vars
  <2> QED  BY <1>8, <2>1 DEF HoldsNames
<1>10. Vm!Before(code, 1) = 0 /\ 1 \in 1 .. Len(code) + 1
  <2> HIDE DEF code
  <2>1. Len(code) \in Nat
    BY <1>2, SequenceFacts
  <2> QED  BY <2>1, BeforeCounts
<1> HIDE DEF e, g, vars, regs, code, params
<1> QED  BY <1>1, <1>5, <1>6, <1>9, <1>10 DEF FrameSim, e, g

LEMMA StackPushed ==
  ASSUME NEW u, NEW p, NEW m, NEW v, IsState(m), IsState(v), SameData(m, v), HoldsNames(p.globals, v.globals, m.globals),
         Callers(u, p, m.stack, v.stack),
         NEW e, NEW g, Waiting(u, p, Top(m), Top(v), e.name), FrameSim(u, p, e, g, e.pc)
  PROVE  Outcome(u, p, [m EXCEPT !.stack = Append(@, e)], [v EXCEPT !.stack = Append(@, g)])
<1> DEFINE L == Len(m.stack)
           s == Append(m.stack, e)
           t == Append(v.stack, g)
           w == [m EXCEPT !.stack = Append(@, e)]
           y == [v EXCEPT !.stack = Append(@, g)]
<1>1. /\ L \in Nat /\ L >= 1 /\ Len(v.stack) = L /\ m.stack[1].name # InitFrame
      /\ \A n \in 1 .. L - 1 : Waiting(u, p, m.stack[n], v.stack[n], m.stack[n + 1].name)
  BY SequenceFacts DEF Callers, IsState
<1>2. /\ IsSequence(s) /\ Len(s) = L + 1 /\ s[L + 1] = e /\ \A k \in 1 .. L : s[k] = m.stack[k]
      /\ IsSequence(t) /\ Len(t) = L + 1 /\ t[L + 1] = g /\ \A k \in 1 .. L : t[k] = v.stack[k]
  BY <1>1, Appended DEF IsState
<1>3. w = [m EXCEPT !.stack = s] /\ y = [v EXCEPT !.stack = t]
  OBVIOUS
<1>4. Top(m) = m.stack[L] /\ Top(v) = v.stack[L]
  BY <1>1 DEF Top
<1> HIDE DEF L, s, t, w, y
<1>5. /\ w = [stack |-> s, globals |-> m.globals, heap |-> m.heap, pending |-> m.pending, output |-> m.output,
              returned |-> m.returned, status |-> m.status]
      /\ y = [stack |-> t, globals |-> v.globals, heap |-> v.heap, pending |-> v.pending, output |-> v.output,
              returned |-> v.returned, status |-> v.status]
  BY <1>3 DEF IsState
<1>6. IsState(w) /\ IsState(y) /\ SameData(w, y) /\ HoldsNames(p.globals, y.globals, w.globals)
  BY <1>2, <1>5 DEF IsState, SameData
<1>7. Top(w) = e /\ Top(y) = g
  BY <1>2, <1>5 DEF Top
<1>8. Callers(u, p, s, t)
  <2>1. ASSUME NEW n \in 1 .. (L + 1) - 1 PROVE Waiting(u, p, s[n], t[n], s[n + 1].name)
    <3>1. CASE n = L
      BY <1>1, <1>2, <1>4, <3>1
    <3>2. CASE n # L
      <4>1. n \in 1 .. L - 1 /\ n \in 1 .. L /\ n + 1 \in 1 .. L
        BY <1>1, <3>2
      <4> QED  BY <1>1, <1>2, <4>1
    <3> QED  BY <3>1, <3>2
  <2>2. 1 \in 1 .. L
    BY <1>1
  <2> QED  BY <1>1, <1>2, <2>1, <2>2 DEF Callers
<1>9. Outcome(u, p, w, y)
  BY <1>5, <1>6, <1>7, <1>8 DEF Outcome, Sim
<1> QED  BY <1>9 DEF w, y

LEMMA Entered ==
  ASSUME NEW u, IsUnit(u), NEW p, Compiles(u, p), NEW m, NEW v, AtQuad(u, p, m, v),
         CodeOf(u, Top(m).name)[Top(m).pc].op = "CALL", NEW f \in DOMAIN u.functions, NEW args
  PROVE  Outcome(u, p, [m EXCEPT !.stack = Append(@, Enter(u.functions, f, args))],
                       [v EXCEPT !.stack = Append(@, Vm!Frame(p, f, args))])
<1> DEFINE e == Enter(u.functions, f, args)
           g == Vm!Frame(p, f, args)
<1>1. FrameSim(u, p, e, g, 1) /\ e.name = f
  BY FrameEntered
<1>2. e.pc = 1
  BY DEF Enter, Frame
<1> HIDE DEF e, g
<1>3. f # InitFrame
  BY UnitParts
<1>4. /\ IsState(m) /\ IsState(v) /\ SameData(m, v) /\ HoldsNames(p.globals, v.globals, m.globals)
      /\ Callers(u, p, m.stack, v.stack) /\ FrameSim(u, p, Top(m), Top(v), Top(m).pc + 1)
      /\ Top(m).pc \in 1 .. Len(CodeOf(u, Top(m).name))
  BY DEF AtQuad, Sim
<1>5. Waiting(u, p, Top(m), Top(v), e.name)
  BY <1>1, <1>3, <1>4 DEF Waiting
<1>6. Outcome(u, p, [m EXCEPT !.stack = Append(@, e)], [v EXCEPT !.stack = Append(@, g)])
  BY <1>1, <1>2, <1>4, <1>5, StackPushed
<1> QED  BY <1>6 DEF e, g
-----------------------------------------------------------------------------
(* One quad and its instruction.                                            *)

(* What lowered code reads has a value, and what it writes can be stored.   *)
LEMMA Usable ==
  ASSUME NEW q, IsLowered(q)
  PROVE  /\ q.op \in {"COPY", "IF_FALSE", "PARAM", "ALLOC_ARRAY", "LOAD_INDEX", "STORE_INDEX", "COPY_BLOCK"}
                       \cup UnaryExprOps \cup BinaryExprOps => Evaluable(q.arg1)
         /\ q.op \in {"LOAD_INDEX", "STORE_INDEX"} \cup BinaryExprOps => Evaluable(q.arg2)
         /\ q.op \in {"STORE_INDEX", "COPY_BLOCK"} => Evaluable(q.result)
         /\ q.op \in {"COPY", "ALLOC_ARRAY", "LOAD_INDEX"} \cup UnaryExprOps \cup BinaryExprOps => IsNameOperand(q.result)
<1>1. ~Unreadable(q) /\ ~Unstorable(q) /\ (q.op = "ALLOC_ARRAY" => Evaluable(q.arg1))
  BY DEF IsLowered
<1>2. q.op # "RET" => \A f \in UseFields(q.op) : Evaluable(q[f])
  BY <1>1 DEF Unreadable
<1>3. /\ q.op \in {"COPY", "IF_FALSE", "PARAM"} \cup UnaryExprOps => UseFields(q.op) = {"arg1"}
      /\ q.op = "LOAD_INDEX" => UseFields(q.op) = {"arg1", "arg2"}
      /\ q.op = "STORE_INDEX" => UseFields(q.op) = {"arg1", "arg2", "result"}
      /\ q.op = "COPY_BLOCK" => UseFields(q.op) = {"arg1", "result"}
      /\ q.op \in BinaryExprOps => UseFields(q.op) = {"arg1", "arg2"}
  BY DEF UseFields, UnaryExprOps, BinaryExprOps, Comparisons, TrappingOps
<1>4. /\ q.op \in {"COPY", "IF_FALSE", "PARAM", "LOAD_INDEX", "STORE_INDEX", "COPY_BLOCK"} \cup UnaryExprOps \cup BinaryExprOps
            => q.op # "RET"
  BY DEF UnaryExprOps, BinaryExprOps, Comparisons, TrappingOps
<1>5. q.op \in {"COPY", "ALLOC_ARRAY", "LOAD_INDEX"} \cup UnaryExprOps \cup BinaryExprOps => IsNameOperand(q.result)
  BY <1>1 DEF Unstorable
<1> QED  BY <1>1, <1>2, <1>3, <1>4, <1>5

(* No fault has the name of a running state.                                *)
LEMMA FaultNames ==
  /\ \A op, a, b, ty : BinaryFault(op, a, b, ty) # "running"
  /\ \A heap, a, i : SlotFault(heap, a, i) # "running"
  /\ \A heap, a, r, n : MoveFault(heap, a, r, n) # "running"
<1>1. \A op, a, b : PointerFault(op, a, b) # "running"
  BY DEF PointerFault
<1>2. \A op, b, ty : NumberFault(op, b, ty) # "running"
  BY DEF NumberFault
<1>3. \A op, a, b, ty : BinaryFault(op, a, b, ty) # "running"
  BY <1>1, <1>2 DEF BinaryFault
<1>4. \A heap, a, i : SlotFault(heap, a, i) # "running"
  BY DEF SlotFault
<1>5. \A heap, a, r, n : MoveFault(heap, a, r, n) # "running"
  BY DEF MoveFault
<1> QED  BY <1>3, <1>4, <1>5

(* The quad q being executed, its instruction in, and the values a, b and r *)
(* the interpreter has for its operands, x, y and z the VM.                 *)
AtOp(u, p, m, v, q, in, a, b, r, x, y, z) ==
  LET t == TablesOf(p, Top(m).name)
  IN  /\ IsUnit(u) /\ Compiles(u, p) /\ AtQuad(u, p, m, v) /\ SameData(m, v) /\ IsState(m) /\ IsState(v)
      /\ q = CodeOf(u, Top(m).name)[Top(m).pc] /\ IsLowered(q)
      /\ Translates(t, in, q, CodeOf(u, Top(m).name))
      /\ Stands(t, in.a, q.arg1) => (Evaluable(q.arg1) => x = a) /\ (~Evaluable(q.arg1) => x = Num(0))
      /\ Stands(t, in.b, q.arg2) => (Evaluable(q.arg2) => y = b) /\ (IsConst(q.arg2) => b = Num(q.arg2.ival))
      /\ Stands(t, in.r, q.result) /\ Evaluable(q.result) => z = r

LEMMA Written ==
  ASSUME NEW u, NEW p, NEW m, NEW v, NEW q, NEW in, NEW a, NEW b, NEW r, NEW x, NEW y, NEW z, AtOp(u, p, m, v, q, in, a, b, r, x, y, z),
         q.op \in {"COPY", "ALLOC_ARRAY", "LOAD_INDEX"} \cup UnaryExprOps \cup BinaryExprOps, NEW value
  PROVE  AtQuad(u, p, Store(m, q.result, value), Vm!Put(v, in.r, value))
<1>1. IsNameOperand(q.result)
  BY Usable DEF AtOp
<1>2. q.op \notin {"GOTO", "IF_FALSE", "CALL"}
  BY DEF UnaryExprOps, BinaryExprOps, Comparisons, TrappingOps
<1>3. Stands(TablesOf(p, Top(m).name), in.r, q.result)
  BY <1>2 DEF AtOp, Translates
<1> QED  BY <1>1, <1>3, Stored DEF AtOp

(* The operands the VM reads of an instruction that has all three.          *)
LEMMA AllRead ==
  ASSUME NEW u, NEW p, NEW m, NEW v, NEW q, NEW in, NEW a, NEW b, NEW r, NEW x, NEW y, NEW z, AtOp(u, p, m, v, q, in, a, b, r, x, y, z),
         q.op \notin {"GOTO", "IF_FALSE", "CALL"}
  PROVE  /\ in.op = q.op /\ in.ty = q.ty
         /\ (Evaluable(q.arg1) => x = a) /\ (~Evaluable(q.arg1) => x = Num(0))
         /\ (Evaluable(q.arg2) => y = b) /\ (IsConst(q.arg2) => b = Num(q.arg2.ival))
         /\ (Evaluable(q.result) => z = r)
BY DEF AtOp, Translates

LEMMA Computed ==
  ASSUME NEW u, NEW p, NEW m, NEW v, NEW q, NEW in, NEW a, NEW b, NEW r, NEW x, NEW y, NEW z, AtOp(u, p, m, v, q, in, a, b, r, x, y, z),
         q.op \in {"COPY"} \cup UnaryExprOps \cup BinaryExprOps
  PROVE  Outcome(u, p, Execute(u.functions, m, q, a, b, r), Vm!Execute(p, v, in, x, y, z))
<1>1. q.op \notin {"GOTO", "IF_FALSE", "CALL"}
  BY DEF UnaryExprOps, BinaryExprOps, Comparisons, TrappingOps
<1>2. in.op = q.op /\ in.ty = q.ty /\ x = a /\ (q.op \in BinaryExprOps => y = b)
  <2>1. in.op = q.op /\ in.ty = q.ty /\ (Evaluable(q.arg1) => x = a) /\ (Evaluable(q.arg2) => y = b)
    BY <1>1, AllRead
  <2>2. IsLowered(q)
    BY DEF AtOp
  <2>3. Evaluable(q.arg1) /\ (q.op \in BinaryExprOps => Evaluable(q.arg2))
    BY <2>2, Usable
  <2> QED  BY <2>1, <2>3
<1>3. \A value : AtQuad(u, p, Store(m, q.result, value), Vm!Put(v, in.r, value))
  BY Written
<1>4. CASE q.op = "COPY"
  <2>1. Execute(u.functions, m, q, a, b, r) = Advance(Store(m, q.result, a))
    BY <1>4 DEF Execute, UnaryExprOps, BinaryExprOps, Comparisons, TrappingOps
  <2>2. Vm!Execute(p, v, in, x, y, z) = Vm!Put(v, in.r, a)
    BY <1>2, <1>4, SameOperands DEF Vm!Execute, UnaryExprOps, BinaryExprOps, Comparisons, TrappingOps
  <2> QED  BY <1>3, <2>1, <2>2, Advanced
<1>5. CASE q.op \in UnaryExprOps
  <2>1. Execute(u.functions, m, q, a, b, r) = Advance(Store(m, q.result, Unary(q.op, a, q.ty)))
    BY <1>5 DEF Execute, UnaryExprOps, BinaryExprOps, Comparisons, TrappingOps
  <2>2. Vm!Execute(p, v, in, x, y, z) = Vm!Put(v, in.r, Vm!Unary(q.op, a, q.ty))
    BY <1>2, <1>5, SameOperands DEF Vm!Execute, UnaryExprOps, BinaryExprOps, Comparisons, TrappingOps
  <2>3. Vm!Unary(q.op, a, q.ty) = Unary(q.op, a, q.ty)
    BY SameArithmetic
  <2> QED  BY <1>3, <2>1, <2>2, <2>3, Advanced
<1>6. CASE q.op \in BinaryExprOps
  <2> DEFINE fault == BinaryFault(q.op, a, b, q.ty)
             value == Binary(q.op, a, b, q.ty)
  <2>1. Execute(u.functions, m, q, a, b, r) = Faulting(m, fault, Store(m, q.result, value))
    BY <1>6 DEF Execute, UnaryExprOps, BinaryExprOps, Comparisons, TrappingOps
  <2>2. Vm!Execute(p, v, in, x, y, z) = Vm!Faulting(v, Vm!BinaryFault(q.op, a, b, q.ty), Vm!Put(v, in.r, Vm!Binary(q.op, a, b, q.ty)))
    BY <1>2, <1>6, SameOperands DEF Vm!Execute, UnaryExprOps, BinaryExprOps, Comparisons, TrappingOps
  <2>3. Vm!BinaryFault(q.op, a, b, q.ty) = fault /\ Vm!Binary(q.op, a, b, q.ty) = value
    BY SameArithmetic
  <2>4. fault # "running"
    BY FaultNames
  <2>5. AtQuad(u, p, m, v)
    BY DEF AtOp
  <2> HIDE DEF fault, value
  <2>6. Outcome(u, p, Faulting(m, fault, Store(m, q.result, value)), Vm!Faulting(v, fault, Vm!Put(v, in.r, value)))
    BY <1>3, <2>4, <2>5, Tried
  <2> QED  BY <2>1, <2>2, <2>3, <2>6
<1> QED  BY <1>4, <1>5, <1>6
LEMMA MemoryOps ==
  ASSUME NEW u, NEW p, NEW m, NEW v, NEW q, NEW in, NEW a, NEW b, NEW r, NEW x, NEW y, NEW z, AtOp(u, p, m, v, q, in, a, b, r, x, y, z),
         q.op \in {"ALLOC_ARRAY", "LOAD_INDEX", "STORE_INDEX", "COPY_BLOCK"}
  PROVE  Outcome(u, p, Execute(u.functions, m, q, a, b, r), Vm!Execute(p, v, in, x, y, z))
<1>1. /\ AtQuad(u, p, m, v) /\ IsLowered(q) /\ IsState(m) /\ IsState(v) /\ v.heap = m.heap /\ v.pending = m.pending /\ v.output = m.output
  BY DEF AtOp, SameData
<1>2. /\ in.op = q.op /\ in.ty = q.ty
      /\ (Evaluable(q.arg1) => x = a) /\ (Evaluable(q.arg2) => y = b) /\ (IsConst(q.arg2) => b = Num(q.arg2.ival))
      /\ (Evaluable(q.result) => z = r)
  BY AllRead
<1>3. x = a /\ (q.op \in {"LOAD_INDEX", "STORE_INDEX"} => y = b) /\ (q.op \in {"STORE_INDEX", "COPY_BLOCK"} => z = r)
  <2>1. /\ Evaluable(q.arg1) /\ (q.op \in {"LOAD_INDEX", "STORE_INDEX"} => Evaluable(q.arg2))
        /\ (q.op \in {"STORE_INDEX", "COPY_BLOCK"} => Evaluable(q.result))
    BY <1>1, Usable
  <2> QED  BY <1>2, <2>1
<1>4. /\ \A value : [m EXCEPT !.heap = value] = With(m, value, m.pending, m.output)
      /\ \A value : [v EXCEPT !.heap = value] = With(v, value, m.pending, m.output)
  <2>1. ASSUME NEW value PROVE [m EXCEPT !.heap = value] = With(m, value, m.pending, m.output)
    BY <1>1, ChangesOne
  <2>2. ASSUME NEW value PROVE [v EXCEPT !.heap = value] = With(v, value, v.pending, v.output)
    BY <1>1, ChangesOne
  <2> QED  BY <1>1, <2>1, <2>2
<1>5. \A value : LET w == With(m, value, m.pending, m.output)
                 IN  AtQuad(u, p, w, With(v, value, m.pending, m.output)) /\ Top(w) = Top(m)
  BY <1>1, Changed
<1>6. \A value : AtQuad(u, p, [m EXCEPT !.heap = value], [v EXCEPT !.heap = value]) /\ Top([m EXCEPT !.heap = value]) = Top(m)
  BY <1>4, <1>5
<1>7. CASE q.op = "ALLOC_ARRAY"
  <2> DEFINE n == IF IntOf(a) < 0 THEN 0 ELSE IntOf(a)
             heap == Append(m.heap, Zeros(n))
             w == [m EXCEPT !.heap = heap]
             k == [v EXCEPT !.heap = heap]
             new == NewArray(m.heap)
  <2>1. Execute(u.functions, m, q, a, b, r) = Advance(Store(w, q.result, new))
    BY <1>7 DEF Execute, Allocate, UnaryExprOps, BinaryExprOps, Comparisons, TrappingOps
  <2>2. Vm!Execute(p, v, in, x, y, z) = Vm!Put(k, in.r, new)
    <3>1. Vm!IntOf(a) = IntOf(a) /\ Vm!NewArray(m.heap) = new /\ Vm!Zeros(n) = Zeros(n)
      BY SameValues
    <3>2. Vm!Execute(p, v, in, x, y, z)
            = Vm!Put([v EXCEPT !.heap = Append(@, Vm!Zeros(IF Vm!IntOf(a) < 0 THEN 0 ELSE Vm!IntOf(a)))], in.r, Vm!NewArray(v.heap))
      BY <1>2, <1>3, <1>7, SameOperands DEF Vm!Execute, UnaryExprOps, BinaryExprOps, Comparisons, TrappingOps
    <3> QED  BY <1>1, <3>1, <3>2
  <2>3. AtQuad(u, p, w, k) /\ Top(w) = Top(m)
    <3> HIDE DEF heap
    <3> QED  BY <1>6
  <2>4. IsNameOperand(q.result) /\ Stands(TablesOf(p, Top(m).name), in.r, q.result) /\ Compiles(u, p)
    BY <1>1, <1>7, Usable DEF AtOp, Translates
  <2> HIDE DEF w, k, new
  <2>5. AtQuad(u, p, Store(w, q.result, new), Vm!Put(k, in.r, new))
    BY <2>3, <2>4, Stored
  <2> QED  BY <2>1, <2>2, <2>5, Advanced
<1>8. CASE q.op = "LOAD_INDEX"
  <2> DEFINE i == IntOf(b)
             fault == SlotFault(m.heap, a, i)
             value == Peek(m.heap, a, i)
             w == IF fault = "" THEN Store(m, q.result, value) ELSE m
             k == Vm!Put(v, in.r, value)
  <2>1. Execute(u.functions, m, q, a, b, r) = Faulting(m, fault, w)
    BY <1>8 DEF Execute, Load, UnaryExprOps, BinaryExprOps, Comparisons, TrappingOps
  <2>2. Vm!Execute(p, v, in, x, y, z) = Vm!Faulting(v, fault, k)
    <3>1. Vm!IntOf(b) = i /\ Vm!SlotFault(m.heap, a, i) = fault /\ Vm!Peek(m.heap, a, i) = value
      BY SameValues, SameMemory
    <3>2. Vm!Execute(p, v, in, x, y, z)
            = Vm!Faulting(v, Vm!SlotFault(v.heap, a, Vm!IntOf(b)), Vm!Put(v, in.r, Vm!Peek(v.heap, a, Vm!IntOf(b))))
      BY <1>2, <1>3, <1>8, SameOperands DEF Vm!Execute, UnaryExprOps, BinaryExprOps, Comparisons, TrappingOps
    <3> QED  BY <1>1, <3>1, <3>2
  <2>3. AtQuad(u, p, Store(m, q.result, value), k)
    BY <1>8, Written
  <2>4. fault # "running"
    BY FaultNames
  <2>5. fault = "" => AtQuad(u, p, w, k)
    BY <2>3
  <2> HIDE DEF fault, w, k
  <2> QED  BY <1>1, <2>1, <2>2, <2>4, <2>5, Tried
<1>9. CASE q.op = "STORE_INDEX"
  <2> DEFINE i == IntOf(a)
             fault == SlotFault(m.heap, r, i)
             heap == Poke(m.heap, r, i, b)
             w == [m EXCEPT !.heap = heap]
             k == [v EXCEPT !.heap = heap]
  <2>1. Execute(u.functions, m, q, a, b, r) = Faulting(m, fault, w)
    BY <1>9 DEF Execute, StoreSlot, UnaryExprOps, BinaryExprOps, Comparisons, TrappingOps
  <2>2. Vm!Execute(p, v, in, x, y, z) = Vm!Faulting(v, fault, k)
    <3>1. Vm!IntOf(a) = i /\ Vm!SlotFault(m.heap, r, i) = fault /\ Vm!Poke(m.heap, r, i, b) = heap
      BY SameValues, SameMemory
    <3>2. Vm!Execute(p, v, in, x, y, z)
            = Vm!Faulting(v, Vm!SlotFault(v.heap, r, Vm!IntOf(a)), [v EXCEPT !.heap = Vm!Poke(@, r, Vm!IntOf(a), b)])
      BY <1>2, <1>3, <1>9, SameOperands DEF Vm!Execute, UnaryExprOps, BinaryExprOps, Comparisons, TrappingOps
    <3> QED  BY <1>1, <3>1, <3>2
  <2>3. AtQuad(u, p, w, k)
    BY <1>6
  <2>4. fault # "running"
    BY FaultNames
  <2> HIDE DEF fault, w, k
  <2> QED  BY <1>1, <2>1, <2>2, <2>3, <2>4, Tried
<1>10. CASE q.op = "COPY_BLOCK"
  <2> DEFINE n == q.arg2.ival
             fault == MoveFault(m.heap, a, r, n)
             heap == Move(m.heap, a, r, n)
             w == IF n > 0 THEN [m EXCEPT !.heap = heap] ELSE m
             k == IF n > 0 THEN [v EXCEPT !.heap = heap] ELSE v
  <2>1. Execute(u.functions, m, q, a, b, r) = Faulting(m, fault, w)
    BY <1>10 DEF Execute, CopyBlock, UnaryExprOps, BinaryExprOps, Comparisons, TrappingOps
  <2>2. Vm!IntOf(y) = n
    <3>1. IsConst(q.arg2)
      BY <1>1, <1>10 DEF IsLowered
    <3>2. y = Num(n)
      BY <1>2, <3>1 DEF Evaluable
    <3> QED  BY <3>2, SameValues DEF IntOf, IsAddress, Num
  <2>3. Vm!Execute(p, v, in, x, y, z) = Vm!Faulting(v, fault, k)
    <3>1. Vm!MoveFault(m.heap, a, r, n) = fault /\ Vm!Move(m.heap, a, r, n) = heap
      BY SameMemory
    <3>2. Vm!Execute(p, v, in, x, y, z)
            = Vm!Faulting(v, Vm!MoveFault(v.heap, a, r, Vm!IntOf(y)),
                          IF Vm!IntOf(y) > 0 THEN [v EXCEPT !.heap = Vm!Move(@, a, r, Vm!IntOf(y))] ELSE v)
      BY <1>2, <1>3, <1>10, SameOperands DEF Vm!Execute, UnaryExprOps, BinaryExprOps, Comparisons, TrappingOps
    <3> QED  BY <1>1, <2>2, <3>1, <3>2
  <2>4. AtQuad(u, p, w, k)
    BY <1>1, <1>6
  <2>5. fault # "running"
    BY FaultNames
  <2> HIDE DEF fault, w, k
  <2> QED  BY <1>1, <2>1, <2>3, <2>4, <2>5, Tried
<1> QED  BY <1>7, <1>8, <1>9, <1>10
LEMMA Passed ==
  ASSUME NEW u, NEW p, NEW m, NEW v, NEW q, NEW in, NEW a, NEW b, NEW r, NEW x, NEW y, NEW z, AtOp(u, p, m, v, q, in, a, b, r, x, y, z),
         q.op = "PARAM"
  PROVE  Outcome(u, p, Execute(u.functions, m, q, a, b, r), Vm!Execute(p, v, in, x, y, z))
<1> DEFINE s == Append(m.pending, a)
           w == [m EXCEPT !.pending = s]
           k == [v EXCEPT !.pending = s]
<1>1. /\ AtQuad(u, p, m, v) /\ IsLowered(q) /\ IsState(m) /\ IsState(v) /\ v.heap = m.heap /\ v.pending = m.pending /\ v.output = m.output
  BY DEF AtOp, SameData
<1>2. in.op = q.op /\ (Evaluable(q.arg1) => x = a)
  BY AllRead
<1>3. x = a
  BY <1>1, <1>2, Usable
<1>4. Execute(u.functions, m, q, a, b, r) = Advance(w)
  BY DEF Execute, UnaryExprOps, BinaryExprOps, Comparisons, TrappingOps
<1>5. Vm!Execute(p, v, in, x, y, z) = k
  BY <1>1, <1>2, <1>3, SameOperands DEF Vm!Execute, UnaryExprOps, BinaryExprOps, Comparisons, TrappingOps
<1> HIDE DEF s
<1>6. w = With(m, m.heap, s, m.output) /\ k = With(v, m.heap, s, m.output)
  <2>1. w = With(m, m.heap, s, m.output)
    BY <1>1, ChangesOne
  <2>2. k = With(v, v.heap, s, v.output)
    BY <1>1, ChangesOne
  <2> QED  BY <1>1, <2>1, <2>2
<1>7. AtQuad(u, p, With(m, m.heap, s, m.output), With(v, m.heap, s, m.output))
  BY <1>1, Changed
<1> HIDE DEF w, k
<1> QED  BY <1>4, <1>5, <1>6, <1>7, Advanced

LEMMA Called ==
  ASSUME NEW u, NEW p, NEW m, NEW v, NEW q, NEW in, NEW a, NEW b, NEW r, NEW x, NEW y, NEW z, AtOp(u, p, m, v, q, in, a, b, r, x, y, z),
         q.op = "CALL"
  PROVE  Outcome(u, p, Execute(u.functions, m, q, a, b, r), Vm!Execute(p, v, in, x, y, z))
<1> DEFINE kept  == Len(m.pending) - q.arg2.ival
           rest  == SubSeq(m.pending, 1, kept)
           args  == SubSeq(m.pending, kept + 1, Len(m.pending))
           out   == m.output \o [i \in DOMAIN args |-> IntOf(args[i])]
           f     == q.arg1.name
           first == Num(IntOf(args[1]))
           t     == TablesOf(p, Top(m).name)
           m1    == [m EXCEPT !.pending = rest]
           v1    == [v EXCEPT !.pending = rest]
           m2    == [m1 EXCEPT !.output = out]
           v2    == [v1 EXCEPT !.output = out]
<1>1. /\ IsUnit(u) /\ Compiles(u, p) /\ AtQuad(u, p, m, v) /\ IsLowered(q) /\ IsState(m) /\ IsState(v)
      /\ v.heap = m.heap /\ v.pending = m.pending /\ v.output = m.output
      /\ CodeOf(u, Top(m).name)[Top(m).pc].op = "CALL"
  BY DEF AtOp, SameData
<1>2. in.op = "CALL" /\ in.callee = f /\ in.argc = q.arg2.ival /\ Stands(t, in.r, q.result)
  BY DEF AtOp, Translates
<1>3. f \in DOMAIN u.functions <=> f \in DOMAIN p.functions
  BY <1>1, CompiledParts DEF IsLowered
<1>4. Execute(u.functions, m, q, a, b, r) =
        IF kept < 0 THEN Fail(m, "internal")
        ELSE IF f \in DOMAIN u.functions THEN [m1 EXCEPT !.stack = Append(@, Enter(u.functions, f, args))]
        ELSE Advance(IF q.result = NoOperand THEN m2 ELSE Store(m2, q.result, first))
  <2>1. m1.output = m.output
    BY <1>1 DEF IsState
  <2>2. Execute(u.functions, m, q, a, b, r) = Call(u.functions, m, q, kept)
    BY DEF Execute, UnaryExprOps, BinaryExprOps, Comparisons, TrappingOps
  <2>3. Call(u.functions, m, q, kept) = IF kept < 0 THEN Fail(m, "internal") ELSE Invoke(u.functions, m1, q, args)
    BY DEF Call
  <2> HIDE DEF m1, args
  <2>4. Invoke(u.functions, m1, q, args) =
          IF f \in DOMAIN u.functions THEN [m1 EXCEPT !.stack = Append(@, Enter(u.functions, f, args))]
          ELSE Advance(IF q.result = NoOperand THEN m2 ELSE Store(m2, q.result, first))
    BY <2>1 DEF Invoke
  <2> QED  BY <2>2, <2>3, <2>4
<1>5. Vm!Execute(p, v, in, x, y, z) =
        IF kept < 0 THEN Vm!Fail(v, "internal")
        ELSE IF f \in DOMAIN p.functions THEN [v1 EXCEPT !.stack = Append(@, Vm!Frame(p, f, args))]
        ELSE IF in.r = Vm!Nowhere THEN v2 ELSE Vm!Put(v2, in.r, first)
  <2>1. v1.output = m.output
    BY <1>1 DEF IsState
  <2>2. Vm!Execute(p, v, in, x, y, z) = Vm!Call(p, v, in)
    BY <1>2, SameOperands DEF Vm!Execute, UnaryExprOps, BinaryExprOps, Comparisons, TrappingOps
  <2>3. /\ [i \in DOMAIN args |-> Vm!IntOf(args[i])] = [i \in DOMAIN args |-> IntOf(args[i])]
        /\ Vm!Num(Vm!IntOf(args[1])) = first
    BY SameValues
  <2> DEFINE out2 == v1.output \o [i \in DOMAIN args |-> Vm!IntOf(args[i])]
             v3   == [v1 EXCEPT !.output = out2]
  <2>4. Vm!Call(p, v, in) =
          IF kept < 0 THEN Vm!Fail(v, "internal")
          ELSE IF f \in DOMAIN p.functions THEN [v1 EXCEPT !.stack = Append(@, Vm!Frame(p, f, args))]
          ELSE IF in.r = Vm!Nowhere THEN v3 ELSE Vm!Put(v3, in.r, Vm!Num(Vm!IntOf(args[1])))
    BY <1>1, <1>2 DEF Vm!Call
  <2>5. out2 = out
    BY <2>1, <2>3
  <2>6. v3 = v2
    <3> HIDE DEF out2, out, v1
    <3> QED  BY <2>5
  <2> HIDE DEF v1, v2, v3, args, first, kept
  <2> QED  BY <2>2, <2>3, <2>4, <2>6
<1> HIDE DEF kept, rest, args, out, f, first, t
<1>6. AtQuad(u, p, m1, v1) /\ Top(m1) = Top(m) /\ IsState(m1) /\ IsState(v1)
  <2>1. m1 = With(m, m.heap, rest, m.output)
    BY <1>1, ChangesOne
  <2>2. v1 = With(v, v.heap, rest, v.output)
    BY <1>1, ChangesOne
  <2>3. AtQuad(u, p, With(m, m.heap, rest, m.output), With(v, m.heap, rest, m.output)) /\ Top(With(m, m.heap, rest, m.output)) = Top(m)
    BY <1>1, Changed
  <2> HIDE DEF m1, v1
  <2>4. AtQuad(u, p, m1, v1) /\ Top(m1) = Top(m)
    BY <1>1, <2>1, <2>2, <2>3
  <2> QED  BY <2>4 DEF AtQuad, Sim
<1> HIDE DEF m1, v1
<1>7. AtQuad(u, p, m2, v2) /\ Top(m2) = Top(m1)
  <2>1. v1.heap = m1.heap /\ v1.pending = m1.pending
    BY <1>6 DEF AtQuad, Sim, SameData
  <2>2. m2 = With(m1, m1.heap, m1.pending, out)
    BY <1>6, ChangesOne
  <2>3. v2 = With(v1, v1.heap, v1.pending, out)
    BY <1>6, ChangesOne
  <2>4. AtQuad(u, p, With(m1, m1.heap, m1.pending, out), With(v1, m1.heap, m1.pending, out)) /\ Top(With(m1, m1.heap, m1.pending, out)) = Top(m1)
    BY <1>6, Changed
  <2> HIDE DEF m2, v2
  <2> QED  BY <2>1, <2>2, <2>3, <2>4
<1> HIDE DEF m2, v2
<1>8. CASE kept < 0
  <2>1. Outcome(u, p, Fail(m, "internal"), Vm!Fail(v, "internal"))
    BY <1>1, Failed DEF AtQuad
  <2> QED  BY <1>4, <1>5, <1>8, <2>1
<1>9. CASE ~(kept < 0) /\ f \in DOMAIN u.functions
  <2>1. Outcome(u, p, [m1 EXCEPT !.stack = Append(@, Enter(u.functions, f, args))], [v1 EXCEPT !.stack = Append(@, Vm!Frame(p, f, args))])
    BY <1>1, <1>6, <1>9, Entered
  <2> QED  BY <1>3, <1>4, <1>5, <1>9, <2>1
<1>10. CASE ~(kept < 0) /\ f \notin DOMAIN u.functions
  <2>1. Stands(TablesOf(p, Top(m2).name), in.r, q.result)
    BY <1>2, <1>6, <1>7 DEF t
  <2>2. Outcome(u, p, Advance(IF q.result = NoOperand THEN m2 ELSE Store(m2, q.result, first)),
                      IF in.r = Vm!Nowhere THEN v2 ELSE Vm!Put(v2, in.r, first))
    BY <1>1, <1>7, <2>1, Answered
  <2> QED  BY <1>3, <1>4, <1>5, <1>10, <2>2
<1> QED  BY <1>8, <1>9, <1>10

LEMMA Turned ==
  ASSUME NEW u, NEW p, NEW m, NEW v, NEW q, NEW in, NEW a, NEW b, NEW r, NEW x, NEW y, NEW z, AtOp(u, p, m, v, q, in, a, b, r, x, y, z),
         q.op \in {"GOTO", "IF_FALSE", "RET"}
  PROVE  Outcome(u, p, Execute(u.functions, m, q, a, b, r), Vm!Execute(p, v, in, x, y, z))
<1> DEFINE code == CodeOf(u, Top(m).name)
           target == Vm!Target(code, q.result)
<1>1. IsUnit(u) /\ Compiles(u, p) /\ AtQuad(u, p, m, v) /\ IsLowered(q)
  BY DEF AtOp
<1>2. in.op = q.op /\ (q.op \in {"GOTO", "IF_FALSE"} => in.target = target)
  BY DEF AtOp, Translates
<1>3. q.op \in {"GOTO", "IF_FALSE"} => Outcome(u, p, Jump(m, q.result), Vm!JumpTo(v, target))
  <2>1. q.op \in {"GOTO", "IF_FALSE"} => q.result = Label(q.result.name)
    BY <1>1 DEF IsLowered
  <2> QED  BY <1>1, <2>1, Jumped
<1>4. CASE q.op = "GOTO"
  <2>1. Execute(u.functions, m, q, a, b, r) = Jump(m, q.result)
    BY <1>4 DEF Execute, UnaryExprOps, BinaryExprOps, Comparisons, TrappingOps
  <2>2. Vm!Execute(p, v, in, x, y, z) = Vm!JumpTo(v, in.target)
    BY <1>2, <1>4, SameOperands DEF Vm!Execute, UnaryExprOps, BinaryExprOps, Comparisons, TrappingOps
  <2> QED  BY <1>2, <1>3, <1>4, <2>1, <2>2
<1>5. CASE q.op = "IF_FALSE"
  <2>1. x = a
    <3>1. Evaluable(q.arg1)
      BY <1>1, <1>5, Usable
    <3> QED  BY <1>5, <3>1 DEF AtOp, Translates
  <2>2. Vm!Truthy(a) <=> Truthy(a)
    BY SameValues
  <2>3. CASE Truthy(a)
    <3>1. Execute(u.functions, m, q, a, b, r) = Advance(m)
      BY <1>5, <2>3 DEF Execute, UnaryExprOps, BinaryExprOps, Comparisons, TrappingOps
    <3>2. Vm!Execute(p, v, in, x, y, z) = v
      BY <1>2, <1>5, <2>1, <2>2, <2>3, SameOperands DEF Vm!Execute, UnaryExprOps, BinaryExprOps, Comparisons, TrappingOps
    <3> QED  BY <1>1, <3>1, <3>2, Advanced
  <2>4. CASE ~Truthy(a)
    <3>1. Execute(u.functions, m, q, a, b, r) = Jump(m, q.result)
      BY <1>5, <2>4 DEF Execute, UnaryExprOps, BinaryExprOps, Comparisons, TrappingOps
    <3>2. Vm!Execute(p, v, in, x, y, z) = Vm!JumpTo(v, in.target)
      BY <1>2, <1>5, <2>1, <2>2, <2>4, SameOperands DEF Vm!Execute, UnaryExprOps, BinaryExprOps, Comparisons, TrappingOps
    <3> QED  BY <1>2, <1>3, <1>5, <3>1, <3>2
  <2> QED  BY <2>3, <2>4
<1>6. CASE q.op = "RET"
  <2> DEFINE value == IF q.arg1 = NoOperand THEN Num(0) ELSE a
  <2>1. Execute(u.functions, m, q, a, b, r) = LeaveWith(m, value)
    BY <1>6 DEF Execute, UnaryExprOps, BinaryExprOps, Comparisons, TrappingOps
  <2>2. Vm!Execute(p, v, in, x, y, z) = Vm!LeaveWith(p, v, x)
    BY <1>2, <1>6, SameOperands DEF Vm!Execute, UnaryExprOps, BinaryExprOps, Comparisons, TrappingOps
  <2>3. x = value
    <3>1. (Evaluable(q.arg1) => x = a) /\ (~Evaluable(q.arg1) => x = Num(0))
      BY <1>6, AllRead
    <3>2. Evaluable(q.arg1) \/ q.arg1 = NoOperand
      BY <1>1, <1>6 DEF IsLowered
    <3> QED  BY <3>1, <3>2, NothingThere
  <2> HIDE DEF value
  <2>4. Outcome(u, p, LeaveWith(m, value), Vm!LeaveWith(p, v, value))
    BY <1>1, Left DEF AtQuad
  <2> QED  BY <2>1, <2>2, <2>3, <2>4
<1> QED  BY <1>4, <1>5, <1>6
LEMMA Executed ==
  ASSUME NEW u, NEW p, NEW m, NEW v, NEW q, NEW in, NEW a, NEW b, NEW r, NEW x, NEW y, NEW z, AtOp(u, p, m, v, q, in, a, b, r, x, y, z),
         ~Vm!Marker(q)
  PROVE  Outcome(u, p, Execute(u.functions, m, q, a, b, r), Vm!Execute(p, v, in, x, y, z))
<1>1. q.op \in QuadOps /\ q.op \notin {"LABEL", "NOP"}
  BY DEF AtOp, IsLowered, Vm!Marker
<1>2. \/ q.op \in {"COPY"} \cup UnaryExprOps \cup BinaryExprOps
      \/ q.op \in {"ALLOC_ARRAY", "LOAD_INDEX", "STORE_INDEX", "COPY_BLOCK"}
      \/ q.op = "PARAM" \/ q.op = "CALL" \/ q.op \in {"GOTO", "IF_FALSE", "RET"}
  BY <1>1 DEF QuadOps
<1> QED  BY <1>2, Computed, MemoryOps, Passed, Called, Turned

-----------------------------------------------------------------------------
(* A step of both.                                                          *)

(* At the end of the code the frame is left with 0.                         *)
LEMMA AtTheEnd ==
  ASSUME NEW u, IsUnit(u), NEW p, Compiles(u, p), NEW m, NEW v, Sim(u, p, m, v, Top(m).pc), Top(m).pc > Len(Top(m).code)
  PROVE  ~AtMarker(m) /\ Outcome(u, p, Step(u.functions, m), Vm!Step(p, v))
<1> DEFINE f    == Top(m).name
           code == CodeOf(u, f)
           pc   == Top(m).pc
           fn   == p.functions[f]
<1>1. FrameSim(u, p, Top(m), Top(v), pc)
  BY SimParts
<1>2. /\ Top(m).code = code /\ f \in DOMAIN u.functions \cup {InitFrame} /\ pc \in 1 .. Len(code) + 1
      /\ Top(v).fn = f /\ Top(v).pc = Vm!Before(code, pc)
  BY <1>1 DEF FrameSim
<1>3. Len(code) \in Nat
  <2>1. IsSequence(code)
    BY <1>2, UnitParts
  <2> HIDE DEF code
  <2> QED  BY <2>1, SequenceFacts
<1>4. Len(fn.code) = Vm!Before(code, Len(code) + 1)
  BY <1>2, CompiledParts DEF Runs
<1>5. pc > Len(code)
  BY <1>2
<1> HIDE DEF code, pc, f
<1>6. pc = Len(code) + 1
  BY <1>2, <1>3, <1>5
<1>7. Vm!Before(code, pc) \in Nat
  <2>1. pc \in Nat \ {0}
    BY <1>3, <1>6
  <2> QED  BY <2>1, BeforeCounts
<1>8. ~AtMarker(m)
  BY <1>2, <1>3, <1>6 DEF AtMarker, pc
<1>9. Step(u.functions, m) = LeaveWith(m, Num(0))
  BY DEF Step
<1>10. Vm!Step(p, v) = Vm!LeaveWith(p, v, Num(0))
  <2>1. Vm!Top(v) = Top(v) /\ Vm!Num(0) = Num(0)
    BY SameTop, SameValues
  <2>2. Top(v).pc >= Len(p.functions[Top(v).fn].code)
    BY <1>2, <1>4, <1>6, <1>7
  <2> QED  BY <2>1, <2>2 DEF Vm!Step
<1>11. Outcome(u, p, LeaveWith(m, Num(0)), Vm!LeaveWith(p, v, Num(0)))
  BY Left
<1> QED  BY <1>8, <1>9, <1>10, <1>11

(* Inside it: the interpreter is at a quad that lowered code may have.      *)
AtCode(u, p, m, v) ==
  /\ IsUnit(u) /\ Compiles(u, p) /\ Sim(u, p, m, v, Top(m).pc)
  /\ Top(m).pc <= Len(Top(m).code)

LEMMA Fetched ==
  ASSUME NEW u, NEW p, NEW m, NEW v, AtCode(u, p, m, v)
  PROVE  LET f    == Top(m).name
             code == CodeOf(u, f)
             pc   == Top(m).pc
             q    == code[pc]
         IN  /\ Top(m).code = code /\ f \in DOMAIN u.functions \cup {InitFrame}
             /\ pc \in 1 .. Len(code) /\ Len(code) \in Nat /\ IsLowered(q)
             /\ Top(v).fn = f /\ Top(v).pc = Vm!Before(code, pc)
             /\ Runs(p, f, ParamsOf(u, f), code)
             /\ Vm!Before(code, pc) \in Nat
             /\ Vm!Before(code, pc + 1) = IF Vm!Marker(q) THEN Vm!Before(code, pc) ELSE Vm!Before(code, pc) + 1
             /\ Step(u.functions, m) = Execute(u.functions, m, q, Value(m, q.arg1), Value(m, q.arg2), Value(m, q.result))
             /\ AtMarker(m) <=> Vm!Marker(q)
<1> DEFINE f    == Top(m).name
           code == CodeOf(u, f)
           pc   == Top(m).pc
           q    == code[pc]
<1>1. IsUnit(u) /\ Compiles(u, p) /\ FrameSim(u, p, Top(m), Top(v), pc) /\ pc <= Len(Top(m).code)
  BY SimParts DEF AtCode
<1>2. /\ Top(m).code = code /\ f \in DOMAIN u.functions \cup {InitFrame} /\ pc \in 1 .. Len(code) + 1
      /\ Top(v).fn = f /\ Top(v).pc = Vm!Before(code, pc)
  BY <1>1 DEF FrameSim
<1>3. IsSequence(code) /\ \A k \in 1 .. Len(code) : IsLowered(code[k])
  BY <1>1, <1>2, UnitParts
<1>4. Runs(p, f, ParamsOf(u, f), code)
  BY <1>1, <1>2, CompiledParts
<1>5. pc <= Len(code)
  BY <1>1, <1>2
<1>6. Step(u.functions, m) = Fetch(u.functions, m, q)
  <2>1. ~(Top(m).pc > Len(Top(m).code))
    <3>1. Len(code) \in Nat
      <4> HIDE DEF code
      <4> QED  BY <1>3, SequenceFacts
    <3> HIDE DEF code
    <3> QED  BY <1>2, <1>5, <3>1
  <2> QED  BY <1>2, <2>1 DEF Step
<1>7. AtMarker(m) <=> Vm!Marker(q)
  BY <1>2, <1>5 DEF AtMarker
<1> HIDE DEF code, pc, f
<1>8. Len(code) \in Nat /\ pc \in 1 .. Len(code) /\ pc \in Nat \ {0}
  <2>1. Len(code) \in Nat
    BY <1>3, SequenceFacts
  <2> QED  BY <1>2, <1>5, <2>1
<1>9. IsLowered(q)
  BY <1>3, <1>8
<1> HIDE DEF q
<1>10. Step(u.functions, m) = Execute(u.functions, m, q, Value(m, q.arg1), Value(m, q.arg2), Value(m, q.result))
  BY <1>6, <1>9 DEF Fetch, IsLowered
<1>11. /\ Vm!Before(code, pc) \in Nat
       /\ Vm!Before(code, pc + 1) = IF Vm!Marker(q) THEN Vm!Before(code, pc) ELSE Vm!Before(code, pc) + 1
  BY <1>8, BeforeCounts DEF q
<1> QED  BY <1>2, <1>4, <1>7, <1>8, <1>9, <1>10, <1>11 DEF code, pc, f, q
LEMMA AtLabel ==
  ASSUME NEW u, NEW p, NEW m, NEW v, AtCode(u, p, m, v), AtMarker(m)
  PROVE  Outcome(u, p, Step(u.functions, m), v)
<1> DEFINE f    == Top(m).name
           code == CodeOf(u, f)
           pc   == Top(m).pc
           q    == code[pc]
<1>1. /\ Vm!Marker(q) /\ pc \in 1 .. Len(code) /\ Len(code) \in Nat
      /\ Vm!Before(code, pc + 1) = Vm!Before(code, pc)
      /\ Step(u.functions, m) = Execute(u.functions, m, q, Value(m, q.arg1), Value(m, q.arg2), Value(m, q.result))
  BY Fetched
<1>2. Execute(u.functions, m, q, Value(m, q.arg1), Value(m, q.arg2), Value(m, q.result)) = Advance(m)
  <2> HIDE DEF q
  <2>1. q.op \in {"LABEL", "NOP"}
    BY <1>1 DEF Vm!Marker
  <2> QED  BY <2>1 DEF Execute, UnaryExprOps, BinaryExprOps, Comparisons, TrappingOps
<1>3. Sim(u, p, m, v, pc)
  BY DEF AtCode
<1>4. Sim(u, p, m, v, pc + 1)
  <2>1. /\ FrameSim(u, p, Top(m), Top(v), pc)
        /\ IsState(m) /\ IsState(v) /\ SameData(m, v) /\ HoldsNames(p.globals, v.globals, m.globals) /\ Callers(u, p, m.stack, v.stack)
    BY <1>3 DEF Sim
  <2> HIDE DEF pc
  <2>2. FrameSim(u, p, Top(m), Top(v), pc + 1)
    BY <1>1, <2>1 DEF FrameSim
  <2> QED  BY <2>1, <2>2 DEF Sim
<1>5. AtQuad(u, p, m, v)
  BY <1>1, <1>4 DEF AtQuad
<1> QED  BY <1>1, <1>2, <1>5, Advanced

LEMMA AtAnOp ==
  ASSUME NEW u, NEW p, NEW m, NEW v, AtCode(u, p, m, v), ~AtMarker(m)
  PROVE  Outcome(u, p, Step(u.functions, m), Vm!Step(p, v))
<1> DEFINE f    == Top(m).name
           code == CodeOf(u, f)
           pc   == Top(m).pc
           q    == code[pc]
           fn   == p.functions[f]
           in   == fn.code[Vm!Before(code, pc) + 1]
           next == [v EXCEPT !.stack[Len(v.stack)].pc = Vm!Before(code, pc + 1)]
           t    == TablesOf(p, f)
           a == Value(m, q.arg1)
           b == Value(m, q.arg2)
           r == Value(m, q.result)
           x == Vm!Get(p, v, in.a)
           y == Vm!Get(p, v, in.b)
           z == Vm!Get(p, v, in.r)
<1>1. /\ ~Vm!Marker(q) /\ pc \in 1 .. Len(code) /\ Len(code) \in Nat /\ IsLowered(q)
      /\ Top(v).fn = f /\ Top(v).pc = Vm!Before(code, pc) /\ Runs(p, f, ParamsOf(u, f), code)
      /\ Vm!Before(code, pc) \in Nat /\ Vm!Before(code, pc + 1) = Vm!Before(code, pc) + 1
      /\ Step(u.functions, m) = Execute(u.functions, m, q, a, b, r)
  BY Fetched
<1>2. IsUnit(u) /\ Compiles(u, p) /\ Sim(u, p, m, v, pc)
  BY DEF AtCode
<1>3. Vm!Before(code, pc) + 1 \in 1 .. Len(fn.code) /\ Translates(t, in, q, code)
  <2> HIDE DEF code, pc
  <2> QED  BY <1>1 DEF Runs
<1>4. Sim(u, p, m, next, pc + 1)
  BY <1>2, Sent
<1>5. Vm!Step(p, v) = Vm!Execute(p, next, in, x, y, z)
  <2> DEFINE w == [v EXCEPT !.stack[Len(v.stack)].pc = @ + 1]
  <2>1. w = next
    BY <1>1 DEF Top
  <2>2. ~(Top(v).pc >= Len(fn.code))
    <3> DEFINE n == Vm!Before(code, pc)
    <3> HIDE DEF n, fn
    <3>1. n \in Nat /\ n + 1 \in 1 .. Len(fn.code) /\ Top(v).pc = n
      BY <1>1, <1>3 DEF n
    <3> QED  BY <3>1
  <2>3. Vm!Top(v) = Top(v)
    BY SameTop
  <2> HIDE DEF w, next
  <2>4. Vm!Step(p, v) = Vm!Execute(p, w, in, x, y, z)
    BY <1>1, <2>2, <2>3 DEF Vm!Step, w
  <2> QED  BY <2>1, <2>4
<1> HIDE DEF next, code, pc, fn, in, f
<1>6. AtQuad(u, p, m, next)
  BY <1>1, <1>4 DEF AtQuad, f, code, pc
<1>7. IsState(m) /\ IsState(next) /\ SameData(m, next)
  BY <1>4 DEF Sim
<1>8. \A s, o : Stands(t, s, o) => (Evaluable(o) => Vm!Get(p, v, s) = Value(m, o)) /\ (~Evaluable(o) => Vm!Get(p, v, s) = Num(0))
  <2>1. \A s, o : Stands(t, s, o) /\ Evaluable(o) => Vm!Get(p, v, s) = Value(m, o)
    BY <1>2, SameRead DEF f
  <2>2. Vm!Get(p, v, Vm!Nowhere) = Num(0)
    BY SameValues DEF Vm!Get, Vm!Nowhere, Vm!Slot
  <2>3. \A s, o : Stands(t, s, o) /\ ~Evaluable(o) => s = Vm!Nowhere
    BY DEF Stands
  <2> QED  BY <2>1, <2>2, <2>3
<1>9. IsConst(q.arg2) => b = Num(q.arg2.ival)
  BY DEF Value, IsConst, IsGlobal
<1>10. AtOp(u, p, m, next, q, in, a, b, r, x, y, z)
  <2>1. q = CodeOf(u, Top(m).name)[Top(m).pc] /\ t = TablesOf(p, Top(m).name) /\ code = CodeOf(u, Top(m).name)
    BY DEF f, code, pc
  <2> HIDE DEF q, t, a, b, r, x, y, z
  <2>2. /\ Stands(t, in.a, q.arg1) => (Evaluable(q.arg1) => x = a) /\ (~Evaluable(q.arg1) => x = Num(0))
        /\ Stands(t, in.b, q.arg2) => (Evaluable(q.arg2) => y = b) /\ (IsConst(q.arg2) => b = Num(q.arg2.ival))
        /\ Stands(t, in.r, q.result) /\ Evaluable(q.result) => z = r
    BY <1>8, <1>9 DEF a, b, r, x, y, z
  <2> QED  BY <1>1, <1>2, <1>3, <1>6, <1>7, <2>1, <2>2 DEF AtOp
<1> HIDE DEF q, a, b, r, x, y, z
<1>11. Outcome(u, p, Execute(u.functions, m, q, a, b, r), Vm!Execute(p, next, in, x, y, z))
  BY <1>1, <1>10, Executed
<1> QED  BY <1>1, <1>5, <1>11

LEMMA Stepped ==
  ASSUME NEW u, IsUnit(u), NEW p, Compiles(u, p), NEW m, NEW v, Sim(u, p, m, v, Top(m).pc)
  PROVE  Outcome(u, p, Step(u.functions, m), IF AtMarker(m) THEN v ELSE Vm!Step(p, v))
<1>1. CASE Top(m).pc > Len(Top(m).code)
  BY <1>1, AtTheEnd
<1>2. CASE ~(Top(m).pc > Len(Top(m).code))
  <2>1. Top(m).pc \in Nat /\ Len(Top(m).code) \in Nat
    <3>1. FrameSim(u, p, Top(m), Top(v), Top(m).pc)
      BY SimParts
    <3>2. /\ Top(m).code = CodeOf(u, Top(m).name) /\ Top(m).name \in DOMAIN u.functions \cup {InitFrame}
          /\ Top(m).pc \in 1 .. Len(CodeOf(u, Top(m).name)) + 1
      BY <3>1 DEF FrameSim
    <3>3. IsSequence(Top(m).code)
      BY <3>2, UnitParts
    <3> QED  BY <3>2, <3>3, SequenceFacts
  <2>2. AtCode(u, p, m, v)
    BY <1>2, <2>1 DEF AtCode
  <2> QED  BY <2>2, AtLabel, AtAnOp
<1> QED  BY <1>1, <1>2
-----------------------------------------------------------------------------
(* The start, and the invariant.                                            *)

LEMMA NothingStored ==
  ASSUME NEW t, Numbering(t)
  PROVE  HoldsNames(t, [k \in 1 .. Cardinality(DOMAIN t) |-> Num(0)], <<>>)
<1> DEFINE N == Cardinality(DOMAIN t)
           slots == [k \in 1 .. N |-> Num(0)]
<1>1. N \in Nat /\ \A x \in DOMAIN t : t[x] \in 0 .. N - 1
  BY FS_CardinalityType DEF Numbering
<1>2. \A x : Lookup(<<>>, x) = Num(0)
  BY DEF Lookup
<1> HIDE DEF N
<1>3. \A x \in DOMAIN t : t[x] + 1 \in 1 .. N
  BY <1>1
<1>4. \A x \in DOMAIN t : slots[t[x] + 1] = Num(0)
  BY <1>3
<1>5. slots = [k \in 1 .. N |-> slots[k]]
  OBVIOUS
<1> HIDE DEF slots
<1>6. HoldsNames(t, slots, <<>>)
  BY <1>2, <1>4, <1>5 DEF HoldsNames, N
<1> QED  BY <1>6 DEF slots, N

(* The frame of the global initialisers, which has no parameters.           *)
LEMMA InitFrameEntered ==
  ASSUME NEW u, IsUnit(u), NEW p, Compiles(u, p)
  PROVE  LET e == Frame(InitFrame, u.init, <<>>)
         IN  FrameSim(u, p, e, Vm!Frame(p, InitFrame, <<>>), 1) /\ e.name = InitFrame /\ e.pc = 1
<1> DEFINE e == Frame(InitFrame, u.init, <<>>)
           g == Vm!Frame(p, InitFrame, <<>>)
           t == p.functions[InitFrame].registers
           regs == [k \in 1 .. Cardinality(DOMAIN t) |-> Num(0)]
<1>1. CodeOf(u, InitFrame) = u.init /\ ParamsOf(u, InitFrame) = <<>>
  BY DEF CodeOf, ParamsOf
<1>2. Numbering(t) /\ p.functions[InitFrame].params = 0
  <2>1. Runs(p, InitFrame, ParamsOf(u, InitFrame), CodeOf(u, InitFrame))
    BY CompiledParts
  <2>2. Len(<<>>) = 0
    OBVIOUS
  <2> QED  BY <1>1, <2>1, <2>2 DEF Runs, NumbersFirst
<1>3. e = [name |-> InitFrame, code |-> u.init, pc |-> 1, vars |-> <<>>]
  BY DEF Frame
<1>4. g = [fn |-> InitFrame, pc |-> 0, regs |-> regs]
  <2>1. \A k \in 1 .. Cardinality(DOMAIN t) : ~(k <= 0)
    OBVIOUS
  <2>2. g = [fn |-> InitFrame, pc |-> 0,
             regs |-> [k \in 1 .. Cardinality(DOMAIN t) |-> IF k <= 0 /\ k <= Len(<<>>) THEN <<>>[k] ELSE Num(0)]]
    BY <1>2, SameTables, SameValues DEF Vm!Frame
  <2> QED  BY <2>1, <2>2
<1>5. HoldsNames(t, regs, <<>>)
  BY <1>2, NothingStored
<1>6. Vm!Before(u.init, 1) = 0 /\ 1 \in 1 .. Len(u.init) + 1
  <2>1. IsSequence(u.init)
    BY <1>1, UnitParts
  <2>2. Len(u.init) \in Nat
    BY <2>1, SequenceFacts
  <2>3. 1 \in Nat \ {0}
    OBVIOUS
  <2> QED  BY <2>2, <2>3, BeforeCounts
<1> HIDE DEF e, g, regs
<1>7. FrameSim(u, p, e, g, 1)
  BY <1>1, <1>3, <1>4, <1>5, <1>6 DEF FrameSim
<1> QED  BY <1>3, <1>7 DEF e, g

LEMMA Started ==
  ASSUME NEW u, IsUnit(u), NEW p, Compiles(u, p)
  PROVE  Outcome(u, p, Start(u.functions, "main", <<>>, u.init), Vm!Start(p))
<1> DEFINE e == Enter(u.functions, "main", <<>>)
           f == Frame(InitFrame, u.init, <<>>)
           g == Vm!Frame(p, "main", <<>>)
           h == Vm!Frame(p, InitFrame, <<>>)
           slots == [k \in 1 .. Cardinality(DOMAIN p.globals) |-> Num(0)]
           m == [stack |-> <<e, f>>, globals |-> <<>>, heap |-> <<>>, pending |-> <<>>, output |-> <<>>,
                 returned |-> Num(0), status |-> "running"]
           v == [stack |-> <<g, h>>, globals |-> slots, heap |-> <<>>, pending |-> <<>>, output |-> <<>>,
                 returned |-> Num(0), status |-> "running"]
<1>1. Start(u.functions, "main", <<>>, u.init) = m
  <2>1. [i \in DOMAIN <<>> |-> Num(<<>>[i])] = <<>>
    OBVIOUS
  <2> QED  BY <2>1 DEF Start
<1>2. Vm!Start(p) = v
  BY SameTables, SameValues DEF Vm!Start, Vm!InitCode, InitFrame
<1>3. "main" \in DOMAIN u.functions /\ InitFrame \notin DOMAIN u.functions
  BY UnitParts
<1>4. FrameSim(u, p, e, g, 1) /\ e.name = "main"
  BY <1>3, FrameEntered
<1>5. FrameSim(u, p, f, h, 1) /\ f.name = InitFrame /\ f.pc = 1
  BY InitFrameEntered
<1>6. e.pc = 1
  BY DEF Enter, Frame
<1>7. HoldsNames(p.globals, slots, <<>>)
  BY CompiledParts, NothingStored
<1> HIDE DEF e, f, g, h, slots
<1>8. IsState(m) /\ IsState(v) /\ SameData(m, v) /\ m.status = "running"
  <2>1. <<e, f>> \in Seq({e, f}) /\ <<g, h>> \in Seq({g, h})
    OBVIOUS
  <2> QED  BY <2>1 DEF IsState, SameData, IsSequence
<1>9. Top(m) = f /\ Top(v) = h
  BY DEF Top
<1>10. Callers(u, p, <<e, f>>, <<g, h>>)
  <2>1. Waiting(u, p, e, g, f.name)
    BY <1>4, <1>5, <1>6 DEF Waiting
  <2>2. e.name # InitFrame
    BY <1>3, <1>4
  <2>3. Len(<<e, f>>) = 2 /\ Len(<<g, h>>) = 2 /\ \A n \in 1 .. 2 - 1 : n = 1
    OBVIOUS
  <2> QED  BY <2>1, <2>2, <2>3 DEF Callers
<1>11. HoldsNames(p.globals, v.globals, m.globals) /\ m.stack = <<e, f>> /\ v.stack = <<g, h>>
  BY <1>7
<1> HIDE DEF m, v
<1>12. Sim(u, p, m, v, Top(m).pc)
  BY <1>5, <1>8, <1>9, <1>10, <1>11 DEF Sim
<1> QED  BY <1>1, <1>2, <1>8, <1>11, <1>12 DEF Outcome

(* What holds of every state: the unit is lowered code, and once the two    *)
(* run it is compiled and the VM simulates the interpreter.                 *)
LockInv ==
  /\ unit = [lowered |-> unit.lowered, bytecode |-> unit.bytecode]
  /\ unit.lowered \in Units
  /\ Begun => Compiles(unit.lowered, unit.bytecode) /\ Outcome(unit.lowered, unit.bytecode, quads, vm)
LEMMA Loaded == LoadedInit => LockInv
<1> SUFFICES ASSUME LoadedInit PROVE LockInv
  OBVIOUS
<1>1. ~Begun
  BY DEF LoadedInit, Begun, NotRun
<1>2. PICK u \in Units : unit = [lowered |-> u, bytecode |-> NotRun]
  BY DEF LoadedInit
<1> QED  BY <1>1, <1>2 DEF LockInv

LEMMA Launched ==
  ASSUME LockInv, Launch
  PROVE  LockInv'
<1> DEFINE u == unit.lowered
           p == Vm!Bytecode(u.functions, u.init)
<1>1. unit = [lowered |-> u, bytecode |-> unit.bytecode] /\ u \in Units
  BY DEF LockInv
<1>2. unit' = [unit EXCEPT !.bytecode = p] /\ vm' = Vm!Start(p) /\ quads' = Start(u.functions, "main", <<>>, u.init)
  BY DEF Launch
<1>3. IsUnit(u)
  BY <1>1, UnitsAssumption
<1>4. Compiles(u, p)
  BY <1>3, CompiledAsWritten
<1> HIDE DEF u, p
<1>5. unit' = [lowered |-> u, bytecode |-> p]
  BY <1>1, <1>2
<1>6. Outcome(u, p, quads', vm')
  BY <1>2, <1>3, <1>4, Started
<1> QED  BY <1>1, <1>4, <1>5, <1>6 DEF LockInv

LEMMA BothStepped ==
  ASSUME LockInv, StepBoth
  PROVE  LockInv'
<1> DEFINE u == unit.lowered
           p == unit.bytecode
<1>1. unit = [lowered |-> u, bytecode |-> p] /\ u \in Units /\ quads.status = "running" /\ unit' = unit
  BY DEF LockInv, StepBoth
<1>2. quads' = Step(u.functions, quads) /\ vm' = IF AtMarker(quads) THEN vm ELSE Vm!Step(p, vm)
  BY DEF StepBoth
<1>3. Begun
  BY <1>1 DEF Begun
<1>4. Compiles(u, p) /\ Outcome(u, p, quads, vm)
  BY <1>3 DEF LockInv
<1>5. IsUnit(u)
  BY <1>1, UnitsAssumption
<1> HIDE DEF u, p
<1>6. Sim(u, p, quads, vm, Top(quads).pc)
  BY <1>1, <1>4 DEF Outcome
<1>7. Outcome(u, p, quads', vm')
  BY <1>2, <1>4, <1>5, <1>6, Stepped
<1>8. unit' = [lowered |-> u, bytecode |-> p]
  BY <1>1
<1> QED  BY <1>1, <1>4, <1>7, <1>8 DEF LockInv

(* A caller of the interpreter and its frame in the VM.                     *)
LEMMA FramesAgree ==
  ASSUME NEW u, NEW p, NEW f, NEW g, NEW q, FrameSim(u, p, f, g, q)
  PROVE  /\ f.name = g.fn /\ g.pc = Vm!Before(f.code, q)
         /\ \A x \in DOMAIN p.functions[g.fn].registers : g.regs[p.functions[g.fn].registers[x] + 1] = Lookup(f.vars, x)
<1>1. f.code = CodeOf(u, f.name) /\ g.fn = f.name /\ g.pc = Vm!Before(CodeOf(u, f.name), q)
  BY DEF FrameSim
<1>2. HoldsNames(p.functions[f.name].registers, g.regs, f.vars)
  BY DEF FrameSim
<1> QED  BY <1>1, <1>2 DEF HoldsNames

LEMMA Agreed == LockInv => VMAgrees
<1> SUFFICES ASSUME LockInv, Begun PROVE VMAgrees
  BY DEF VMAgrees
<1> DEFINE u == unit.lowered
           p == unit.bytecode
<1>1. Outcome(u, p, quads, vm)
  BY DEF LockInv
<1>2. SameData(quads, vm) /\ HoldsNames(p.globals, vm.globals, quads.globals)
  BY <1>1 DEF Outcome
<1>3. SameGlobals
  BY <1>2 DEF SameGlobals, HoldsNames
<1>4. ASSUME quads.status = "running" PROVE SameFrames
  <2> DEFINE L == Len(quads.stack)
  <2>1. Sim(u, p, quads, vm, Top(quads).pc)
    BY <1>1, <1>4 DEF Outcome
  <2>2. /\ IsState(quads) /\ L \in Nat /\ L >= 1 /\ Len(vm.stack) = L
        /\ FrameSim(u, p, Top(quads), Top(vm), Top(quads).pc)
    BY <2>1, SimParts
  <2>3. \A n \in 1 .. L - 1 : Waiting(u, p, quads.stack[n], vm.stack[n], quads.stack[n + 1].name)
    BY <2>1 DEF Sim, Callers
  <2>4. DOMAIN quads.stack = 1 .. L
    BY <2>2, SequenceFacts DEF IsState
  <2>5. Top(quads) = quads.stack[L] /\ Top(vm) = vm.stack[L]
    BY <2>2 DEF Top
  <2> HIDE DEF L, u, p
  <2>6. ASSUME NEW n \in 1 .. L
        PROVE  LET f == quads.stack[n]
                   waits == n < L /\ quads.stack[n + 1].name # InitFrame
               IN  FrameSim(u, p, f, vm.stack[n], IF waits THEN f.pc + 1 ELSE f.pc)
    <3>1. CASE n = L
      <4>1. ~(n < L)
        BY <2>2, <3>1
      <4> QED  BY <2>2, <2>5, <3>1, <4>1
    <3>2. CASE n # L
      <4>1. n \in 1 .. L - 1 /\ n < L
        BY <2>2, <3>2
      <4>2. Waiting(u, p, quads.stack[n], vm.stack[n], quads.stack[n + 1].name)
        BY <2>3, <4>1
      <4> QED  BY <4>1, <4>2 DEF Waiting
    <3> QED  BY <3>1, <3>2
  <2>7. \A f, g, q : FrameSim(u, p, f, g, q) => SameFrame(f, g, q)
    BY FramesAgree DEF SameFrame, p
  <2> QED  BY <2>2, <2>4, <2>6, <2>7 DEF SameFrames, L
<1> QED  BY <1>2, <1>3, <1>4 DEF VMAgrees, SameData

(* In every state of every run of every lowered program, compiled to        *)
(* bytecode, the VM has the interpreter's output, memory, globals, queued   *)
(* arguments, returned value and status, and a register for every name of   *)
(* every call with the value the interpreter has for it (vm.h: the two must *)
(* agree byte for byte).                                                    *)
THEOREM VMFollows == LockstepSpec => []VMAgrees
<1>1. LoadedInit => LockInv
  BY Loaded
<1>2. LockInv /\ [Launch \/ StepBoth]_both => LockInv'
  <2> SUFFICES ASSUME LockInv, [Launch \/ StepBoth]_both PROVE LockInv'
    OBVIOUS
  <2>1. CASE Launch
    BY <2>1, Launched
  <2>2. CASE StepBoth
    BY <2>2, BothStepped
  <2>3. CASE UNCHANGED both
    BY <2>3 DEF both, LockInv, Begun, Outcome, Sim
  <2> QED  BY <2>1, <2>2, <2>3
<1>3. LockInv => VMAgrees
  BY Agreed
<1> QED  BY <1>1, <1>2, <1>3, PTL DEF LockstepSpec
=============================================================================
