-------------------------------- MODULE Types --------------------------------
(***************************************************************************)
(* C types as the syntax tree carries them (include/ast.h): an integer      *)
(* type, void or a struct, a number of stars, and the dimensions of an      *)
(* array.  Pointers and arrays are one thing once used as a value.          *)
(* Left out: floats; and, in expressions, short and unsigned long, which     *)
(* differ from the modelled integers by their width only.                   *)
(*                                                                         *)
(* Two sizes are kept of every type: the slots it takes in the engines,     *)
(* where every scalar takes one, and the bytes C says it has.               *)
(***************************************************************************)
EXTENDS Quads, SequencesExt

(* A tree is a record with a field k for its kind and, once semantic         *)
(* analysis is done, t for the type of an expression.                       *)
NoTree == [k |-> "none"]
Absent(t) == t.k = "none"

Base(b)      == [base |-> b, struct |-> "", ptr |-> 0, dims |-> <<>>, array |-> FALSE]
IntT         == Base("I32")
UnsignedT    == Base("U32")
CharT        == Base("I8")
ByteT        == Base("U8")
LongT        == Base("I64")
VoidT        == Base("VOID")
StructT(id)  == [Base("STRUCT") EXCEPT !.struct = id]
PointerTo(T) == [T EXCEPT !.ptr = @ + 1]
(* dims holds the sizes of an array, outermost first; a pointer to a row    *)
(* keeps those of the row.                                                  *)
ArrayOf(T, dims) == [T EXCEPT !.array = TRUE, !.dims = dims]

IsPointer(T)     == ~T.array /\ T.ptr > 0
IsPointerLike(T) == T.array \/ T.ptr > 0
IsVoid(T)        == T.base = "VOID" /\ T.ptr = 0 /\ ~T.array
IsStructValue(T) == T.base = "STRUCT" /\ T.ptr = 0 /\ ~T.array
IsInteger(T)     == ~IsPointerLike(T) /\ T.base \in {"I8", "U8", "I32", "U32", "I64"}
IsAggregate(T)   == T.array \/ IsStructValue(T)

(* An array used as a value points to its first element, or first row.      *)
Decayed(T) == IF T.array THEN [T EXCEPT !.array = FALSE, !.dims = Tail(@), !.ptr = @ + 1] ELSE T

PointeeOf(T) ==
  LET D == Decayed(T)
      P == [D EXCEPT !.ptr = IF @ > 0 THEN @ - 1 ELSE 0]
  IN  IF D.dims = <<>> THEN P ELSE [P EXCEPT !.array = TRUE]

AddressOf(T) == [T EXCEPT !.array = FALSE, !.dims = IF T.array THEN Tail(@) ELSE @, !.ptr = @ + 1]

Product(dims) == FoldLeft(LAMBDA n, d : n * d, 1, dims)
Elements(T)   == IF T.array THEN Product(T.dims) ELSE 1

(* Slots and bytes, by a table of struct layouts.                           *)
SlotsIn(table, T) == Elements(T) * (IF T.ptr = 0 /\ T.base = "STRUCT" THEN table[T.struct].slots ELSE 1)

ElemBytes(table, T) ==
  CASE T.ptr > 0 -> 8
    [] T.ptr = 0 /\ T.base \in {"I8", "U8", "VOID"} -> 1
    [] T.ptr = 0 /\ T.base = "STRUCT" -> table[T.struct].bytes
    [] T.ptr = 0 /\ T.base \in {"I16", "U16"} -> 2
    [] T.ptr = 0 /\ T.base \in {"I32", "U32"} -> 4
    [] T.ptr = 0 /\ T.base \in {"I64", "U64"} -> 8

AlignOf(table, T) == IF T.ptr = 0 /\ T.base = "STRUCT" THEN table[T.struct].align ELSE ElemBytes(table, T)

(* The layout of a struct with these fields, pairs of a name and a type:    *)
(* slots are packed, bytes are padded to each field's alignment.            *)
RoundUp(n, al) == ((n + al - 1) \div al) * al

AddField(table, lay, f) ==
  LET al == AlignOf(table, f.type)
      at == RoundUp(lay.bytes, al)
  IN  [fields |-> Append(lay.fields, [name |-> f.name, type |-> f.type, slot |-> lay.slots, byte |-> at]),
       slots  |-> lay.slots + SlotsIn(table, f.type),
       bytes  |-> at + Elements(f.type) * ElemBytes(table, f.type),
       align  |-> IF al > lay.align THEN al ELSE lay.align]

LayOut(table, fields) ==
  LET lay == FoldLeft(LAMBDA l, f : AddField(table, l, f), [fields |-> <<>>, slots |-> 0, bytes |-> 0, align |-> 1], fields)
  IN  [lay EXCEPT !.bytes = RoundUp(@, lay.align)]

(* The integer type an operation on T wraps to; pointers have none.         *)
TypeTag(T) == IF IsInteger(T) THEN T.base ELSE "NONE"
=============================================================================
