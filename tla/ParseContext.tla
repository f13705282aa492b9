----------------------------- MODULE ParseContext -----------------------------
(***************************************************************************)
(* What declarations mean, shared by both parsers                           *)
(* (src/parser/parse_context.cpp): struct layouts, the tables of typedef    *)
(* names and enumerators, constant expressions, and the flattening of brace *)
(* initialisers.  The operators take the state s of a parser and change its *)
(* tables and its errors; the result of one that makes something is s.out.  *)
(* Abstracted: an error is named for its diagnostic, without its place; of  *)
(* the typedef names the standard headers supply, one.  Left out: floats,   *)
(* and the and, or and exclusive or of bits in constants.                   *)
(***************************************************************************)
EXTENDS Types
CONSTANT MaxErrors  \* the diagnostics a state keeps; those after it are dropped

(* A table of struct layouts by tag; an anonymous struct has its number.    *)
Incomplete == [fields |-> <<>>, slots |-> 0, bytes |-> 0, align |-> 1, complete |-> FALSE]

Context ==
  [structs |-> <<>>, typedefs |-> "size_t" :> IntT, enums |-> <<>>, nextEnum |-> 0, open |-> <<>>, errors |-> <<>>,
   out |-> NoTree]

(* Op of x, with x worked out once.                                         *)
With(x, Op(_)) == CHOOSE y \in {Op(v) : v \in {x}} : TRUE
Report(s, wrong, what) == IF wrong /\ Len(s.errors) < MaxErrors THEN [s EXCEPT !.errors = Append(@, what)] ELSE s
Yielding(s, out) == [s EXCEPT !.out = out]

-----------------------------------------------------------------------------
(* Types *)

(* The words of a specifier list seen so far, and the type they are about.  *)
NoWords == [any |-> FALSE, static |-> FALSE, unsigned |-> FALSE, short |-> FALSE, long |-> FALSE, int |-> FALSE, type |-> IntT]

(* Width and signedness applied to the type.                                *)
FinishType(w) ==
  LET width == IF w.short THEN "16" ELSE IF w.long THEN "64" ELSE "32"
      sign  == IF w.unsigned THEN "U" ELSE "I"
  IN  CASE w.int /\ w.type.base = "I32" -> [w.type EXCEPT !.base = sign \o width]
        [] w.type.base \in {"I8", "U8"} -> [w.type EXCEPT !.base = sign \o "8"]
        [] OTHER -> w.type

-----------------------------------------------------------------------------
(* Structs *)

DeclareStruct(s, tag) == [s EXCEPT !.structs = (tag :> Incomplete) @@ @]

StructReference(s, tag) ==
  Yielding(IF tag \in DOMAIN s.structs THEN s ELSE DeclareStruct(s, tag), StructT(tag))

(* An anonymous struct is declared anew; its tag is its number.             *)
BeginStruct(s, tag) ==
  LET id == IF tag = "" THEN ToString(Cardinality(DOMAIN s.structs)) ELSE tag
      known == id \in DOMAIN s.structs
      t == Report(s, known /\ s.structs[id].complete, "struct redefined")
      u == IF known THEN t ELSE DeclareStruct(t, id)
  IN  Yielding([u EXCEPT !.open = Append(@, [id |-> id, layout |-> Incomplete])], StructT(id))

AddFieldTo(s, T, name) ==
  LET top == Len(s.open)
      own == s.open[top].layout
      bad == T.base = "STRUCT" /\ T.ptr = 0 /\ ~s.structs[T.struct].complete
      t == Report(s, bad, "incomplete field")
      u == Report(t, T.base = "VOID" /\ T.ptr = 0, "void field")
      v == Report(u, \E n \in DOMAIN own.fields : own.fields[n].name = name, "duplicate field")
  IN  [v EXCEPT !.open[top].layout = AddField(s.structs, own, [name |-> name, type |-> T]) @@ own]

FinishStruct(s) ==
  LET o == Last(s.open)
      laid == [o.layout EXCEPT !.bytes = RoundUp(@, o.layout.align), !.complete = TRUE]
  IN  Yielding([s EXCEPT !.open = Front(@), !.structs[o.id] = laid], StructT(o.id))

(* A body that failed to parse leaves its struct incomplete.                *)
AbandonStruct(s) == [s EXCEPT !.open = Front(@)]

ResetEnum(s) == [s EXCEPT !.nextEnum = 0]

AddEnumerator(s, name, valued, v) ==
  LET n == IF valued THEN v ELSE s.nextEnum
  IN  [s EXCEPT !.enums = (name :> n) @@ @, !.nextEnum = n + 1]

-----------------------------------------------------------------------------
(* Constant expressions *)

NotConstant == [ok |-> FALSE, v |-> 0]
Constant(v) == [ok |-> TRUE, v |-> v]

ConstUnary(op, v) ==
  CASE ~v.ok \/ op \notin {"NEG", "POS", "NOT", "BITNOT"} -> NotConstant
    [] v.ok /\ op = "POS" -> v
    [] v.ok /\ op \in {"NEG", "NOT", "BITNOT"} -> Constant(UnaryValue(op, v.v, "I64"))

ConstBinary(op, v, w) ==
  LET bits == CASE op = "LOGAND" -> "AND" [] op = "LOGOR" -> "OR" [] OTHER -> op
  IN  IF ~v.ok \/ ~w.ok \/ Traps(bits, w.v, "I64") \/ (bits \in {"SHL", "SHR"} /\ w.v = NativeBits - 1)
      THEN NotConstant
      ELSE Constant(BinaryValue(bits, v.v, w.v, "I64"))

ConstCond(c, v, w) ==
  IF \E x \in {c, v, w} : ~x.ok THEN NotConstant ELSE IF c.v # 0 THEN v ELSE w

(* The value of an expression of literals and operators, in the widest      *)
(* integer type whatever the types of the operands are; a cast is dropped.  *)
RECURSIVE EvalConst(_)
EvalConst(e) ==
  CASE e.k = "int"    -> Constant(e.v)
    [] e.k = "char"   -> Constant(WrapInt(e.v, "I8"))
    [] e.k = "sizeof" -> IF e.oftype THEN Constant(e.v) ELSE NotConstant
    [] e.k = "cast"   -> EvalConst(e.l)
    [] e.k = "un"     -> With(EvalConst(e.l), LAMBDA v : ConstUnary(e.op, v))
    [] e.k = "cond"   -> With(<<EvalConst(e.c), EvalConst(e.l), EvalConst(e.r)>>, LAMBDA v : ConstCond(v[1], v[2], v[3]))
    [] e.k = "bin"    -> With(<<EvalConst(e.l), EvalConst(e.r)>>, LAMBDA v : ConstBinary(e.op, v[1], v[2]))
    [] OTHER -> NotConstant

(* ... and 1 in place of one that has none, which is an error.              *)
ConstInt(s, e, what) ==
  With(EvalConst(e), LAMBDA v : Yielding(Report(s, ~v.ok, what), IF v.ok THEN v.v ELSE 1))

(* One [size], or [] with no size; the length is stored as an int.  The     *)
(* first takes the place of the length the type itself has.                 *)
ApplyDim(s, T, size, first, emptyFirst) ==
  LET own == IF T.array THEN Tail(T.dims) ELSE T.dims
      Positive(v) == Yielding(Report(v, v.out <= 0, "array size not positive"), IF v.out <= 0 THEN 1 ELSE v.out)
      Dimension(t, n) == Yielding(t, IF first THEN ArrayOf(T, <<n>> \o own) ELSE [T EXCEPT !.dims = Append(@, n)])
  IN  With(IF Absent(size) THEN Yielding(Report(s, ~(first /\ emptyFirst), "empty dimension"), -1)
           ELSE With(ConstInt(s, size, "array size"), Positive),
           LAMBDA t : With(WrapInt(t.out, "I32"), LAMBDA n : Dimension(t, n)))

-----------------------------------------------------------------------------
(* Brace initialisers: a tree of lists and expressions, flattened into one  *)
(* expression for each slot of a type.                                      *)

InitExpr(e)    == [isList |-> FALSE, e |-> e, kids |-> <<>>]
InitList(kids) == [isList |-> TRUE, e |-> NoTree, kids |-> kids]

Zero == [k |-> "int", v |-> 0, unsigned |-> FALSE]
Chars(text) == [n \in DOMAIN text |-> [k |-> "char", v |-> text[n]]]

Length(T) == IF Head(T.dims) < 0 THEN 1 ELSE Head(T.dims)

(* The types an aggregate is made of, in order.                             *)
PartsOf(table, T) ==
  IF T.array THEN [n \in 1 .. Length(T) |-> PointeeOf(T)]
  ELSE [n \in DOMAIN table[T.struct].fields |-> table[T.struct].fields[n].type]

RECURSIVE ZeroFill(_, _)
ZeroFill(table, T) ==
  IF IsAggregate(T) THEN FoldLeft(LAMBDA es, P : es \o ZeroFill(table, P), <<>>, PartsOf(table, T)) ELSE <<Zero>>

(* The flattening f of a list so far: the next of its kids, the expressions *)
(* and the errors.                                                          *)
RECURSIVE FlattenOne(_, _, _, _)

FlattenAgg(table, T, kids, f) ==
  FoldLeft(LAMBDA g, P : FlattenOne(table, P, kids, g), f, PartsOf(table, T))

Excess(f, kids) == IF f.cur <= Len(kids) THEN [f EXCEPT !.errors = Append(@, "excess elements")] ELSE f

(* Whether kid fills the char array T with a string.                        *)
FillsWithText(T, kid) ==
  /\ T.array
  /\ T.base \in {"I8", "U8"}
  /\ T.ptr = 0
  /\ Len(T.dims) = 1
  /\ kid.e.k = "str"

FlattenOne(table, T, kids, f) ==
  IF f.cur > Len(kids) THEN [f EXCEPT !.out = @ \o ZeroFill(table, T)]
  ELSE
    LET kid  == kids[f.cur]
        past == [f EXCEPT !.cur = @ + 1]
        with(es) == [past EXCEPT !.out = @ \o es]
    IN  CASE ~IsAggregate(T) /\ ~kid.isList -> with(<<kid.e>>)
          [] ~IsAggregate(T) /\ kid.isList  ->
               IF kid.kids = <<>> THEN with(<<Zero>>) ELSE IF kid.kids[1].isList THEN with(<<Zero>>) ELSE with(<<kid.kids[1].e>>)
          [] IsAggregate(T) /\ kid.isList   ->
               LET inner == Excess(FlattenAgg(table, T, kid.kids, [past EXCEPT !.cur = 1]), kid.kids)
               IN  [inner EXCEPT !.cur = past.cur]
          [] IsAggregate(T) /\ ~kid.isList  ->
               IF FillsWithText(T, kid)
               THEN LET text == kid.e.v
                        len  == IF Head(T.dims) < 0 THEN Len(text) + 1 ELSE Head(T.dims)
                    IN  with(Chars([n \in 1 .. len |-> IF n <= Len(text) THEN text[n] ELSE 0]))
               ELSE IF IsStructValue(T) THEN [with(ZeroFill(table, T)) EXCEPT !.errors = Append(@, "struct without braces")]
               ELSE FlattenAgg(table, T, kids, f)

Flatten(table, T, kids) ==
  Excess(FlattenAgg(table, T, kids, [cur |-> 1, out |-> <<>>, errors |-> <<>>]), kids)

-----------------------------------------------------------------------------
(* Declarators *)

NoInit == [kind |-> "none"]

VarTree(T, name, init, list) ==
  [k |-> "decl", name |-> name, type |-> T, static |-> FALSE, init |-> init, list |-> list]

(* The length of an array of aggregates that leaves its first one empty:    *)
(* the lists at the top, or the scalars by the slots of an element.         *)
InferredLength(table, T, kids) ==
  LET per == IF kids # <<>> /\ \A n \in DOMAIN kids : kids[n].isList THEN 1
             ELSE IF SlotsIn(table, PointeeOf(T)) = 0 THEN 1 ELSE SlotsIn(table, PointeeOf(T))
      n == (Len(kids) + per - 1) \div per
  IN  IF n <= 0 THEN 1 ELSE n

(* The declaration of name with its initialiser: none, a list, a string     *)
(* that fills an array, or an expression.                                   *)
Declarator(s, T, name, init) ==
  LET aggregate == IsStructValue(T) \/ (T.array /\ (Len(T.dims) > 1 \/ (T.base = "STRUCT" /\ T.ptr = 0)))
      open == T.array /\ Head(T.dims) < 0
      list == init.kind = "list"
      plain == SelectSeq(init.kids, LAMBDA kid : ~kid.isList)
      Sized == IF list /\ aggregate /\ open THEN [T EXCEPT !.dims[1] = InferredLength(s.structs, T, init.kids)] ELSE T
      Held(size) ==
        CASE list /\ aggregate  -> Flatten(s.structs, size, init.kids)
          [] list /\ ~aggregate -> [out |-> [n \in DOMAIN plain |-> plain[n].e],
                                   errors |-> IF plain = init.kids THEN <<>> ELSE <<"nested list">>]
          [] init.kind = "string" ->
               [out |-> Chars(init.text \o (IF T.dims[1] >= 0 /\ Len(init.text) = T.dims[1] THEN <<>> ELSE <<0>>)), errors |-> <<>>]
          [] OTHER -> [out |-> <<>>, errors |-> <<>>]
      Declared(size, held) ==
        LET short == size.array /\ Head(size.dims) < 0
            final == IF short THEN [size EXCEPT !.dims[1] = IF held.out = <<>> THEN 1 ELSE Len(held.out)] ELSE size
            told == FoldLeft(LAMBDA u, what : Report(u, TRUE, what), s, held.errors)
        IN  Yielding(Report(told, short /\ held.out = <<>>, "no size"),
                     VarTree(final, name, IF init.kind = "expr" THEN init.e ELSE NoTree, held.out))
  IN  With(Sized, LAMBDA size : With(Held(size), LAMBDA held : Declared(size, held)))

(* A parameter with brackets is a pointer; its inner lengths are kept.      *)
ParameterOf(T, name, brackets) ==
  [name |-> name, type |-> IF brackets THEN [T EXCEPT !.dims[1] = -1] ELSE T]
=============================================================================
