------------------------------- MODULE Quads -------------------------------
(***************************************************************************)
(* The three-address code every component shares: operands, quads, what a  *)
(* quad reads and writes, and the integer arithmetic of an operation.      *)
(*                                                                         *)
(* Abstracted: source lines, float and string constants, I16 and the 64    *)
(* bit types other than the untyped native one, and the bitwise operators, *)
(* which no instance evaluates.  A VARIABLE operand is split into LOCAL    *)
(* (its name carries the '#' IRGen puts there) and GLOBAL (it does not),   *)
(* the only thing the code ever reads from the spelling of a name.         *)
(***************************************************************************)
EXTENDS Integers, Sequences

CONSTANTS
  ByteBits,     \* width of I8 and U8
  WordBits,     \* width of I32 and U32
  NativeBits    \* width of the interpreter's long long: what NONE computes in

ASSUME WidthAssumption ==
  /\ ByteBits \in Nat \ {0}
  /\ WordBits \in Nat
  /\ NativeBits \in Nat
  /\ ByteBits <= WordBits
  /\ WordBits < NativeBits

\* v itself.  TLC computes a value it compares once, where it would otherwise
\* compute parts of it again at each use.
Whole(v) == IF v = v THEN v ELSE v

\* v, computed after s has been.
After(s, v) == IF s = s THEN Whole(v) ELSE v

\* The store in which x is v.
Bound(store, x, v) == Whole([y \in DOMAIN store \cup {x} |-> IF y = x THEN v ELSE store[y]])

-----------------------------------------------------------------------------
(* Operands *)

NoOperand == [kind |-> "NONE", name |-> "", ival |-> 0]
Local(x)  == [kind |-> "LOCAL", name |-> x, ival |-> 0]
Global(x) == [kind |-> "GLOBAL", name |-> x, ival |-> 0]
Temp(x)   == [kind |-> "TEMPORARY", name |-> x, ival |-> 0]
Label(x)  == [kind |-> "LABEL_REF", name |-> x, ival |-> 0]
Const(v)  == [kind |-> "INT_CONST", name |-> "", ival |-> v]

IsNameOperand(o) == o.kind \in {"LOCAL", "GLOBAL", "TEMPORARY"}
IsGlobal(o)      == o.kind = "GLOBAL"
IsConst(o)       == o.kind = "INT_CONST"

-----------------------------------------------------------------------------
(* Quads *)

Comparisons    == {"LT", "LE", "GT", "GE", "EQ", "NE"}
TrappingOps    == {"DIV", "MOD", "SHL", "SHR"}
BinaryExprOps  == {"ADD", "SUB", "MUL", "AND", "OR", "BITAND", "BITOR", "BITXOR"}
                    \cup Comparisons \cup TrappingOps
UnaryExprOps   == {"NEG", "NOT", "BITNOT", "TO_INT", "TO_FLOAT"}
Terminators    == {"GOTO", "IF_FALSE", "RET"}

Quad(op, a, b, r)        == [op |-> op, arg1 |-> a, arg2 |-> b, result |-> r, ty |-> "NONE"]
TypedQuad(op, a, b, r, t) == [Quad(op, a, b, r) EXCEPT !.ty = t]
LabelQuad(l)             == Quad("LABEL", NoOperand, NoOperand, Label(l))

(* The fields of a quad that are uses: STORE_INDEX and COPY_BLOCK read the  *)
(* pointer named by their result.                                           *)
UseFields(op) ==
  CASE op \in {"COPY", "IF_FALSE", "PARAM", "RET"} \cup UnaryExprOps -> {"arg1"}
    [] op = "LOAD_INDEX"  -> {"arg1", "arg2"}
    [] op = "STORE_INDEX" -> {"arg1", "arg2", "result"}
    [] op = "COPY_BLOCK"  -> {"arg1", "result"}
    [] op \in {"LABEL", "GOTO", "CALL", "NOP", "ALLOC_ARRAY"} -> {}
    [] OTHER -> {"arg1", "arg2"}

ReadSlots(q) == {f \in UseFields(q.op) : IsNameOperand(q[f])}
ReadsOf(q)   == {q[f] : f \in ReadSlots(q)}
ReadNames(q) == {o.name : o \in ReadsOf(q)}

Writes(q) ==
  /\ q.op \notin {"LABEL", "GOTO", "IF_FALSE", "PARAM", "RET", "NOP", "STORE_INDEX", "COPY_BLOCK"}
  /\ IsNameOperand(q.result)

WritesName(q, x) == Writes(q) /\ q.result.name = x

(* One key per distinct computation: operator, type and operands.           *)
ExprKey(q) == <<q.op, q.ty, q.arg1, q.arg2>>

-----------------------------------------------------------------------------
(* Integer semantics, shared by the interpreter and by constant folding.    *)

IntBits(t) ==
  CASE t \in {"I8", "U8"}   -> ByteBits
    [] t \in {"I32", "U32"} -> WordBits
    [] OTHER                -> NativeBits

IsUnsigned(t) == t \in {"U8", "U32"}

(* v modulo 2^bits, brought into the range of t.                            *)
Signed(u, m) == IF 2 * u >= m THEN u - m ELSE u

WrapInt(v, t) ==
  IF IsUnsigned(t) THEN v % 2 ^ IntBits(t) ELSE Signed(v % 2 ^ IntBits(t), 2 ^ IntBits(t))

InRange(v, t) == v = WrapInt(v, t)

Bool(b) == IF b THEN 1 ELSE 0

(* C's division: the quotient is truncated towards zero.                    *)
Abs(v) == IF v < 0 THEN -v ELSE v
TruncDiv(a, b) == LET q == Abs(a) \div Abs(b) IN IF (a < 0) = (b < 0) THEN q ELSE -q

(* Where C is undefined the run stops: zero divisor, bad shift count.       *)
Traps(op, b, t) ==
  \/ op \in {"DIV", "MOD"} /\ b = 0
  \/ op \in {"SHL", "SHR"} /\ (b < 0 \/ b >= IntBits(t))

Holds(op, a, b) ==
  CASE op = "AND" -> a # 0 /\ b # 0
    [] op = "OR"  -> a # 0 \/ b # 0
    [] op = "LT"  -> a < b
    [] op = "LE"  -> a <= b
    [] op = "GT"  -> a > b
    [] op = "GE"  -> a >= b
    [] op = "EQ"  -> a = b
    [] op = "NE"  -> a # b

Arithmetic(op, a, b) ==
  CASE op = "ADD" -> a + b
    [] op = "SUB" -> a - b
    [] op = "MUL" -> a * b
    [] op = "DIV" -> TruncDiv(a, b)
    [] op = "MOD" -> a - b * TruncDiv(a, b)
    [] op = "SHL" -> a * 2 ^ b
    [] op = "SHR" -> a \div 2 ^ b

BinaryValue(op, a, b, t) ==
  IF op \in Comparisons \cup {"AND", "OR"} THEN Bool(Holds(op, a, b))
                                           ELSE WrapInt(Arithmetic(op, a, b), t)

UnaryValue(op, a, t) ==
  IF op = "NOT" THEN Bool(a = 0)
  ELSE WrapInt(CASE op = "NEG" -> -a [] op = "BITNOT" -> -a - 1 [] op = "TO_INT" -> a, t)
-----------------------------------------------------------------------------
(* Values and memory, which the three engines share (include/interp.h, and  *)
(* applyBinary, applyPointerBinary and checkedSlot of src/interp/interp.cpp). *)
(*                                                                         *)
(* A value is a number, or a pointer n slots into array arr of the memory;  *)
(* null is the number 0.  Memory is a sequence of arrays, each a sequence   *)
(* of values.  An operation that stops the run gives the fault, named for   *)
(* the error it reports, or "" for none; "internal" stands for every        *)
(* message that begins with "internal error".  Left out: floats and format  *)
(* strings.                                                                 *)

Num(n)       == [arr |-> 0, n |-> n]
PointerAt(k, n) == [arr |-> k, n |-> n]
IsAddress(v) == v.arr # 0
IntOf(v)     == IF IsAddress(v) THEN 0 ELSE v.n
Truthy(v)    == IsAddress(v) \/ v.n # 0
IsNull(v)    == v = Num(0)

(* The operations C defines on pointers.                                    *)
PointerFault(op, a, b) ==
  CASE op = "ADD" -> IF IsAddress(a) /\ IsAddress(b) THEN "internal" ELSE ""
    [] op = "SUB" -> IF ~IsAddress(a) THEN "internal" ELSE IF IsAddress(b) /\ a.arr # b.arr THEN "unrelated" ELSE ""
    [] op \in {"EQ", "NE", "AND", "OR"} -> ""
    [] op \in {"LT", "LE", "GT", "GE"}  -> IF a.arr # b.arr THEN "unrelated" ELSE ""
    [] OTHER -> "internal"

PointerValue(op, a, b) ==
  CASE op = "ADD" -> PointerAt(a.arr + b.arr, a.n + b.n)
    [] op = "SUB" -> PointerAt(a.arr - b.arr, a.n - b.n)
    [] op = "EQ"  -> Num(Bool(a = b))
    [] op = "NE"  -> Num(Bool(a # b))
    [] op = "AND" -> Num(Bool(Truthy(a) /\ Truthy(b)))
    [] op = "OR"  -> Num(Bool(Truthy(a) \/ Truthy(b)))
    [] OTHER      -> Num(BinaryValue(op, a.n, b.n, "NONE"))

NumberFault(op, b, ty) ==
  IF ~Traps(op, b, ty) THEN "" ELSE IF op \in {"DIV", "MOD"} THEN "zero" ELSE "shift"

OnPointers(a, b) == IsAddress(a) \/ IsAddress(b)
BinaryFault(op, a, b, ty) == IF OnPointers(a, b) THEN PointerFault(op, a, b) ELSE NumberFault(op, b.n, ty)
Binary(op, a, b, ty) == IF OnPointers(a, b) THEN PointerValue(op, a, b) ELSE Num(BinaryValue(op, a.n, b.n, ty))
Unary(op, a, ty) == IF op = "NOT" THEN Num(Bool(~Truthy(a))) ELSE Num(UnaryValue(op, IntOf(a), ty))

-----------------------------------------------------------------------------
(* Memory *)

Zeros(n) == [i \in 1 .. n |-> Num(0)]
NewArray(heap) == PointerAt(Len(heap) + 1, 0)

(* The slot i on from p: is it one of the array's?                          *)
SlotFault(heap, p, i) ==
  IF IsNull(p) THEN "null" ELSE IF ~IsAddress(p) THEN "internal"
  ELSE IF p.n + i \in 0 .. Len(heap[p.arr]) - 1 THEN "" ELSE "bounds"

Peek(heap, p, i)   == heap[p.arr][p.n + i + 1]
Poke(heap, p, i, v) == [heap EXCEPT ![p.arr][p.n + i + 1] = v]

(* n slots from p to r: both ends are checked before anything moves.        *)
RunInside(heap, p, n) == p.n >= 0 /\ p.n + n <= Len(heap[p.arr])
MoveFault(heap, p, r, n) ==
  IF ~IsAddress(p) \/ ~IsAddress(r) THEN (IF IsNull(p) \/ IsNull(r) THEN "null" ELSE "internal")
  ELSE IF n <= 0 \/ (RunInside(heap, p, n) /\ RunInside(heap, r, n)) THEN "" ELSE "bounds"

Move(heap, p, r, n) ==
  [heap EXCEPT ![r.arr] = [i \in DOMAIN @ |-> IF i - 1 \in r.n .. r.n + n - 1 THEN Peek(heap, p, i - 1 - r.n) ELSE @[i]]]

-----------------------------------------------------------------------------
(* What a run lets its user see: of a pointer only that it is one, of an    *)
(* array named by a global its contents.                                    *)
Opaque(v) == IF IsAddress(v) THEN PointerAt(1, 0) ELSE v
Contents(heap, v) ==
  IF IsAddress(v) THEN [i \in DOMAIN heap[v.arr] |-> Opaque(heap[v.arr][i])] ELSE <<v>>
=============================================================================
