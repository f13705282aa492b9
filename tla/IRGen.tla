-------------------------------- MODULE IRGen --------------------------------
(***************************************************************************)
(* IR generation (src/ir/irgen.cpp): the trees semantic analysis leaves     *)
(* (module Sema) to quads.                                                  *)
(*                                                                         *)
(* The generator's state s: the code so far and where globalInit stands,    *)
(* the next temporary and label numbers, the stack of [break, continue]     *)
(* labels, the scopes from names to operands, the declarations whose address *)
(* is taken, the names that hold a one-slot box because of it, the last      *)
(* value and, next to it while an address is made, the base it is in.       *)
(***************************************************************************)
EXTENDS Types, TLC

CONSTANT Structs   \* name -> layout, as the parser laid it out (LayOut of module Types)

(* The slots a T takes in the engines.                                      *)
SlotsOf(T) == SlotsIn(Structs, T)

Fresh == [code |-> <<>>, init |-> <<>>, fn |-> "", temps |-> 0, labels |-> 0, loops |-> <<>>,
          scopes |-> <<>>, taken |-> {}, boxed |-> {}, value |-> NoOperand, base |-> NoOperand]

(* The k-th temporary or label taken from s on.                             *)
TempOf(s, k)  == Temp((IF s.fn = "" THEN "gt" ELSE "t") \o ToString(s.temps + k))
LabelOf(s, k) == Label((IF s.fn = "" THEN "GL" ELSE "L") \o ToString(s.labels + k))
TakeTemps(s, n)  == [s EXCEPT !.temps = @ + n]
TakeLabels(s, n) == [s EXCEPT !.labels = @ + n]

Emit(s, q)     == [s EXCEPT !.code = Append(@, q)]
EmitGoto(s, l) == Emit(s, Quad("GOTO", NoOperand, NoOperand, l))
EmitLabel(s, l) == Emit(s, LabelQuad(l.name))
EmitCopy(s, v, x) == Emit(s, Quad("COPY", v, NoOperand, x))
EmitValue(s, x) == EmitCopy(s, s.value, x)
EmitTest(s, l) == Emit(s, Quad("IF_FALSE", s.value, NoOperand, l))
EmitAlloc(s, n, x) == Emit(s, Quad("ALLOC_ARRAY", Const(n), NoOperand, x))
EmitStore(s, i, v, x) == Emit(s, Quad("STORE_INDEX", i, v, x))
EmitBlock(s, from, n, x) == Emit(s, Quad("COPY_BLOCK", from, Const(n), x))
Giving(s, v)   == [s EXCEPT !.value = v]

(* A quad whose result is a new temporary, which becomes the value.         *)
Compute(s, op, a, b, ty) ==
  Giving(Emit(TakeTemps(s, 1), TypedQuad(op, a, b, TempOf(s, 0), ty)), TempOf(s, 0))

Looping(s, brk, cont)  == [s EXCEPT !.loops = Append(@, [break |-> brk, continue |-> cont])]
LeavingLoop(s) == [s EXCEPT !.loops = Front(@)]

-----------------------------------------------------------------------------
(* Names *)

Qualified(x, off) == x \o "#" \o ToString(off)
PushScope(s) == [s EXCEPT !.scopes = Append(@, <<>>)]
PopScope(s)  == [s EXCEPT !.scopes = Front(@)]
Declare(s, x, o) == [s EXCEPT !.scopes[Len(s.scopes)] = (x :> o) @@ @]

(* The innermost declaration of x, or else the global of that name.         *)
Resolve(s, x) ==
  LET in == {n \in DOMAIN s.scopes : x \in DOMAIN s.scopes[n]}
  IN  IF in = {} THEN Global(x) ELSE s.scopes[CHOOSE n \in in : \A m \in in : m <= n][x]

Boxed(s, x) == Resolve(s, x).name \in s.boxed

-----------------------------------------------------------------------------
RECURSIVE Gen(_, _)

(* Code that goes to l when e is false, or true, and falls through otherwise. *)
JumpFalse(s, e, l) == Gen(s, [k |-> "unless", c |-> e, l |-> l])
JumpTrue(s, e, l)  == Gen(s, [k |-> "when", c |-> e, l |-> l])
GenOptional(s, e) == IF Absent(e) THEN s ELSE Gen(s, e)

\* Mutant: a conversion to a narrow type is taken for a relabelling.
ConvertOnlyWidens(s, from, to) ==
  IF IsPointerLike(from) \/ to.ptr > 0 \/ to.base \in {"VOID", "I8", "U8", from.base} THEN s
  ELSE Compute(s, "TO_INT", s.value, NoOperand, TypeTag(to))

(* A number becomes one of another integer type; pointers are relabelled.   *)
Convert(s, from, to) ==
  IF IsPointerLike(from) \/ to.ptr > 0 \/ to.base = "VOID" \/ from.base = to.base THEN s
  ELSE Compute(s, "TO_INT", s.value, NoOperand, TypeTag(to))

(* The value times the slots of an element, or moved by k slots.            *)
Scaled(s, n) ==
  IF n = 1 THEN s
  ELSE IF IsConst(s.value) THEN Giving(s, Const(s.value.ival * n))
  ELSE Compute(s, "MUL", s.value, Const(n), "NONE")

Moved(s, k) ==
  IF k = 0 THEN s
  ELSE IF IsConst(s.value) THEN Giving(s, Const(s.value.ival + k))
  ELSE Compute(s, "ADD", s.value, Const(k), "NONE")

\* Mutant: a struct passed by value is shared.
SharedIfStruct(s, T) == s

(* A struct passed or returned by value is copied to storage of its own.    *)
CopiedIfStruct(s, T) ==
  IF ~IsStructValue(T) THEN s
  ELSE Giving(EmitBlock(EmitAlloc(TakeTemps(s, 1), SlotsOf(T), TempOf(s, 0)), s.value, SlotsOf(T), TempOf(s, 0)),
              TempOf(s, 0))

(* The base of e[...]: a name that holds an array or pointer, or a value.   *)
GenBase(s, e) ==
  IF e.k = "ident" /\ ~Boxed(s, e.name) THEN Giving(s, Resolve(s, e.name)) ELSE Gen(s, e)

(* Where e is stored: a base that becomes s.base, and an index as value.    *)
Based(s, base) == [s EXCEPT !.base = base]
AtStart(s) == Giving(Based(s, s.value), Const(0))
RECURSIVE GenAddr(_, _)
GenAddr(s, e) ==
  CASE e.k = "ident"  -> Giving(Based(s, Resolve(s, e.name)), Const(0))
    [] e.k = "index"  -> LET b == GenBase(s, e.b)
                         IN  Based(Scaled(Gen(b, e.i), SlotsOf(e.t)), b.value)
    [] e.k = "member" /\ e.arrow -> LET b == Gen(s, e.b) IN Giving(Based(b, b.value), Const(e.off))
    [] e.k = "member" /\ ~e.arrow -> Moved(GenAddr(s, e.b), e.off)
    [] e.k = "un" /\ e.op = "DEREF" -> AtStart(Gen(s, e.l))
    [] OTHER -> AtStart(Gen(s, e))

(* An address as a pointer value, and what an address holds.                *)
PointerFrom(a) ==
  IF a.value = Const(0) THEN Giving(a, a.base) ELSE Compute(a, "ADD", a.base, a.value, "NONE")
LoadFrom(a, T) ==
  IF IsAggregate(T) THEN PointerFrom(a) ELSE Compute(a, "LOAD_INDEX", a.base, a.value, "NONE")

(* A target is an address in memory, or a name alone.                       *)
InMemory(s, e) == e.k # "ident" \/ Boxed(s, e.name)
GenTarget(s, e) == IF InMemory(s, e) THEN GenAddr(s, e) ELSE Based(s, Resolve(s, e.name))
WriteTo(s, mem, a, v) ==
  Giving(IF mem THEN EmitStore(s, a.value, v, a.base) ELSE EmitCopy(s, v, a.base), v)

GenIdent(s, e) ==
  IF Boxed(s, e.name) THEN Compute(s, "LOAD_INDEX", Resolve(s, e.name), Const(0), "NONE")
                      ELSE Giving(s, Resolve(s, e.name))

(* A string literal is fresh storage, which is zero already.                *)
GenString(s, e) ==
  LET array == TempOf(s, 0)
      put(t, i) == IF e.v[i] = 0 THEN t ELSE EmitStore(t, Const(i - 1), Const(e.v[i]), array)
  IN  Giving(FoldLeft(put, EmitAlloc(TakeTemps(s, 1), Len(e.v) + 1, array), [i \in DOMAIN e.v |-> i]), array)

(* A conditional expression: the value is copied into one temporary on both *)
(* sides, unless it is void.                                                *)
GenCond(s, e) ==
  LET void   == IsVoid(e.t)
      result == IF void THEN NoOperand ELSE TempOf(s, 0)
      other  == LabelOf(s, 0)
      end    == LabelOf(s, 1)
      keep(t) == IF void THEN t ELSE EmitValue(t, result)
      start  == TakeLabels(IF void THEN s ELSE TakeTemps(s, 1), 2)
      a == Gen(JumpFalse(start, e.c, other), e.l)
      b == Gen(EmitLabel(EmitGoto(keep(a), end), other), e.r)
  IN  Giving(EmitLabel(keep(b), end), result)

(* && and || as a value: the jumps leave 1 behind when they fall through.   *)
GenLogical(s, e) ==
  LET result == TempOf(s, 0)
      false  == LabelOf(s, 0)
      end    == LabelOf(s, 1)
      one == EmitCopy(JumpFalse(TakeLabels(TakeTemps(s, 1), 2), e, false), Const(1), result)
  IN  Giving(EmitLabel(EmitCopy(EmitLabel(EmitGoto(one, end), false), Const(0), result), end), result)

(* Pointers count slots and the source elements: the integer side is scaled *)
(* up, a difference down.  b holds the right side as value; l is the left.  *)
EmitPointerBinary(b, e, l) ==
  LET lp == IsPointerLike(e.l.t)
      rp == IsPointerLike(e.r.t)
      elem == SlotsOf(PointeeOf(IF lp THEN e.l.t ELSE e.r.t))
      moves == e.op \in {"ADD", "SUB"}
      onto(t, x) == Compute(t, e.op, t.value, x, "NONE")
      from(t) == Compute(t, e.op, l, t.value, "NONE")
      apart(t) == IF moves /\ lp /\ rp /\ elem # 1 THEN Compute(t, "DIV", t.value, Const(elem), "NONE") ELSE t
  IN  IF moves /\ ~lp THEN onto(Scaled(Giving(b, l), elem), b.value)
      ELSE IF moves /\ ~rp THEN from(Scaled(b, elem))
      ELSE apart(from(b))

EmitBinary(b, e, l) ==
  LET shifted(t) == Compute(t, e.op, t.value, b.value, TypeTag(e.t))
  IN  IF IsPointerLike(e.l.t) \/ IsPointerLike(e.r.t) THEN EmitPointerBinary(b, e, l)
      ELSE IF e.op \in {"SHL", "SHR"} THEN shifted(Convert(Giving(b, l), e.l.t, e.t))
      ELSE Compute(b, e.op, l, b.value, TypeTag(IF e.op \in Comparisons THEN e.l.t ELSE e.t))

GenBinary(s, e) ==
  LET then(a) == EmitBinary(Gen(a, e.r), e, a.value) IN then(Gen(s, e.l))

GenUnary(s, e) ==
  CASE e.op = "POS" -> Gen(s, e.l)
    [] e.op \in {"NEG", "BITNOT"} ->
         LET a == Convert(Gen(s, e.l), e.l.t, e.t) IN Compute(a, e.op, a.value, NoOperand, TypeTag(e.t))
    [] e.op = "NOT"  -> LET a == Gen(s, e.l) IN Compute(a, "NOT", a.value, NoOperand, "NONE")
    [] e.op = "ADDR" -> PointerFrom(GenAddr(s, e.l))
    [] e.op = "DEREF" -> LoadFrom(GenAddr(s, e), e.t)

(* What a target holds: its slot is loaded, or the name itself is the value. *)
Held(s, mem, a) == IF mem THEN Compute(s, "LOAD_INDEX", a.base, a.value, "NONE") ELSE Giving(s, a.base)

(* ++x, --x, x++, x--: the target is located once, read and written.  The   *)
(* old value of a name is kept in a temporary.                              *)
EmitIncrement(a, e, mem) ==
  LET one == Const(IF IsPointer(e.l.t) THEN SlotsOf(PointeeOf(e.l.t)) ELSE 1)
      old == IF mem THEN Held(a, mem, a) ELSE Giving(EmitCopy(TakeTemps(a, 1), a.base, TempOf(a, 0)), TempOf(a, 0))
      put(t) == Giving(WriteTo(t, mem, a, t.value), IF e.pre THEN t.value ELSE old.value)
  IN  put(Compute(old, e.op, old.value, one, TypeTag(e.l.t)))

GenIncrement(s, e) == EmitIncrement(GenTarget(s, e.l), e, InMemory(s, e.l))

(* x op= v computes at the type of the operation and narrows the result to  *)
(* that of x; a holds the target, v is the value.                           *)
EmitCompound(a, e, mem, v) ==
  LET T == e.l.t
      intOp == IsInteger(e.opt) /\ ~IsPointer(T)
      wide(t) == IF intOp THEN Convert(t, T, e.opt) ELSE t
      thin(t) == IF IsInteger(T) /\ IsInteger(e.opt) THEN Convert(t, e.opt, T) ELSE t
      by(t, x) == Compute(t, e.op, t.value, x, IF intOp THEN TypeTag(e.opt) ELSE "NONE")
      put(t) == WriteTo(t, mem, a, t.value)
      with(t) == put(thin(by(wide(Held(t, mem, a)), t.value)))
  IN  with(IF IsPointer(T) THEN Scaled(Giving(a, v), SlotsOf(PointeeOf(T))) ELSE Giving(a, v))

(* The value is evaluated before the target is located; v holds it.         *)
EmitAssign(v, e) ==
  LET mem == InMemory(v, e.l)
      fill(to) == EmitBlock(to, v.value, SlotsOf(e.l.t), to.value)
      put(a) == IF e.op = "ASSIGN" THEN WriteTo(a, mem, a, v.value) ELSE EmitCompound(a, e, mem, v.value)
  IN  IF IsStructValue(e.l.t) THEN fill(PointerFrom(GenAddr(v, e.l))) ELSE put(GenTarget(v, e.l))

GenAssign(s, e) ==
  LET converts == e.op \notin {"ASSIGN", "SHL", "SHR"} /\ IsInteger(e.opt) /\ ~IsPointer(e.l.t)
      v == Gen(s, e.r)
  IN  EmitAssign(IF converts THEN Convert(v, e.r.t, e.opt) ELSE v, e)

(* Each argument is queued as soon as it is evaluated.                      *)
GenArg(s, arg) ==
  LET a == CopiedIfStruct(Gen(s, arg), arg.t) IN Emit(a, Quad("PARAM", a.value, NoOperand, NoOperand))

EmitCall(s, e, r) == Giving(Emit(s, Quad("CALL", Label(e.f), Const(Len(e.args)), r)), r)

GenArgs(s, args) ==
  LET done[n \in 0 .. Len(args)] == IF n = 0 THEN s ELSE GenArg(done[n - 1], args[n]) IN done[Len(args)]

GenCall(s, e) ==
  LET call(a) == IF IsVoid(e.t) THEN EmitCall(a, e, NoOperand) ELSE EmitCall(TakeTemps(a, 1), e, TempOf(a, 0))
  IN  call(GenArgs(s, e.args))

GenExpr(s, e) ==
  CASE e.k \in {"int", "char"} -> Giving(s, Const(e.v))
    [] e.k = "str"   -> GenString(s, e)
    [] e.k = "ident" -> GenIdent(s, e)
    [] e.k \in {"index", "member"} -> LoadFrom(GenAddr(s, e), e.t)
    [] e.k = "comma" -> Gen(Gen(s, e.l), e.r)
    [] e.k = "cond"  -> GenCond(s, e)
    [] e.k = "un"    -> GenUnary(s, e)
    [] e.k = "inc"   -> GenIncrement(s, e)
    [] e.k = "bin" /\ e.op \in {"LOGAND", "LOGOR"} -> GenLogical(s, e)
    [] e.k = "bin" /\ e.op \notin {"LOGAND", "LOGOR"} -> GenBinary(s, e)
    [] e.k = "assign" -> GenAssign(s, e)
    [] e.k = "call"  -> GenCall(s, e)
    [] e.k = "cast"  -> Convert(Gen(s, e.l), e.l.t, e.t)
    [] e.k = "convert" -> LET a == Gen(s, e.l) IN Compute(a, "TO_INT", a.value, NoOperand, TypeTag(e.t))

(* What && and || skip is jumped over.                                      *)
GenJumpFalse(s, e, l) ==
  CASE e.k = "bin" /\ e.op = "LOGAND" -> JumpFalse(JumpFalse(s, e.l, l), e.r, l)
    [] e.k = "bin" /\ e.op = "LOGOR"  ->
         LET yes == LabelOf(s, 0)
         IN  EmitLabel(JumpFalse(JumpTrue(TakeLabels(s, 1), e.l, yes), e.r, l), yes)
    [] e.k = "un" /\ e.op = "NOT" -> JumpTrue(s, e.l, l)
    [] OTHER -> EmitTest(Gen(s, e), l)

(* There is no IF_TRUE: jump over a goto.                                   *)
EmitJumpTrue(s, l) ==
  LET skip == LabelOf(s, 0) IN EmitLabel(EmitGoto(EmitTest(TakeLabels(s, 1), skip), l), skip)

GenJumpTrue(s, e, l) ==
  CASE e.k = "bin" /\ e.op = "LOGOR"  -> JumpTrue(JumpTrue(s, e.l, l), e.r, l)
    [] e.k = "bin" /\ e.op = "LOGAND" ->
         LET no == LabelOf(s, 0)
         IN  EmitLabel(JumpTrue(JumpFalse(TakeLabels(s, 1), e.l, no), e.r, l), no)
    [] e.k = "un" /\ e.op = "NOT" -> JumpFalse(s, e.l, l)
    [] OTHER -> EmitJumpTrue(Gen(s, e), l)

-----------------------------------------------------------------------------
(* Declarations *)

IsFlatRun(T) == IsStructValue(T) \/ (T.array /\ (Len(T.dims) > 1 \/ (T.base = "STRUCT" /\ T.ptr = 0)))

(* The values of an initialiser, evaluated before the name is declared.     *)
GenValues(s, list) ==
  LET next(p, e) == LET a == Gen(p.s, e) IN [s |-> a, values |-> Append(p.values, a.value)]
      done[n \in 0 .. Len(list)] == IF n = 0 THEN [s |-> s, values |-> <<>>] ELSE next(done[n - 1], list[n])
  IN  done[Len(list)]

StoreEach(s, slot, values, wanted) ==
  FoldLeft(LAMBDA t, i : EmitStore(t, Const(i - 1), values[i], slot), s, SetToSortSeq(wanted, <))

Announce(s, d, slot) == IF IsGlobal(slot) THEN s ELSE Declare(s, d.name, slot)

(* One flat run of slots; zeros of the list need no store.                  *)
DeclareRun(s, d, slot) ==
  LET from == GenOptional(s, d.init)
      vals == GenValues(from, d.list)
      n    == SlotsOf(d.type)
      room == EmitAlloc(Announce(vals.s, d, slot), n, slot)
      full == IF Absent(d.init) THEN room ELSE EmitBlock(room, from.value, n, slot)
  IN  StoreEach(full, slot, vals.values, {i \in DOMAIN vals.values : vals.values[i] # Const(0)})

(* Elements the list does not reach are set to zero.                        *)
DeclareArray(s, d, slot) ==
  LET vals == GenValues(s, d.list)
      size == Head(d.type.dims)
      all  == [i \in 1 .. size |-> IF i \in DOMAIN vals.values THEN vals.values[i] ELSE Const(0)]
  IN  StoreEach(EmitAlloc(Announce(vals.s, d, slot), size, slot), slot, all, 1 .. size)

\* Mutant: a declaration is known by its name alone, and the first of a function is meant.
AddressTakenOfFirst(s, d) == <<s.fn, d.name, 0>> \in s.taken

AddressTaken(s, d) == <<s.fn, d.name, d.off>> \in s.taken

(* Every scalar is initialised, with zero if nothing else.                  *)
DeclareScalar(s, d, slot) ==
  LET from == IF Absent(d.init) THEN Giving(s, Const(0)) ELSE Gen(s, d.init)
      here == Announce(from, d, slot)
  IN  IF AddressTaken(s, d)
      THEN EmitStore(EmitAlloc([here EXCEPT !.boxed = @ \cup {slot.name}], 1, slot), Const(0), from.value, slot)
      ELSE EmitCopy(here, from.value, slot)

DeclareInto(s, d, slot) ==
  IF IsFlatRun(d.type) THEN DeclareRun(s, d, slot)
  ELSE IF d.type.array THEN DeclareArray(s, d, slot)
  ELSE DeclareScalar(s, d, slot)

(* A static local is a global of its own, initialised once before main; the *)
(* scope sees it by its short name.                                         *)
Swapped(s) == [s EXCEPT !.code = s.init, !.init = s.code]

GenDecl(s, d) ==
  IF s.fn = "" THEN DeclareInto(s, d, Global(d.name))
  ELSE IF d.static
  THEN LET q == Global(s.fn \o "." \o d.name \o "." \o ToString(d.off))
       IN  Declare(Swapped(DeclareInto(Swapped(s), d, q)), d.name, q)
  ELSE DeclareInto(s, d, Local(Qualified(d.name, d.off)))

-----------------------------------------------------------------------------
(* Statements *)

GenIf(s, st) ==
  LET l0 == LabelOf(s, 0)
      l1 == LabelOf(s, 1)
      then(n) == Gen(JumpFalse(TakeLabels(s, n), st.c, l0), st.a)
  IN  IF Absent(st.b) THEN EmitLabel(then(1), l0)
      ELSE EmitLabel(Gen(EmitLabel(EmitGoto(then(2), l1), l0), st.b), l1)

GenWhile(s, st) ==
  LET top  == LabelOf(s, 0)
      end  == LabelOf(s, 1)
      test == JumpFalse(EmitLabel(TakeLabels(s, 2), top), st.c, end)
      body == LeavingLoop(Gen(Looping(test, end, top), st.a))
  IN  EmitLabel(EmitGoto(body, top), end)

GenDo(s, st) ==
  LET top  == LabelOf(s, 0)
      cont == LabelOf(s, 1)
      end  == LabelOf(s, 2)
      body == LeavingLoop(Gen(Looping(EmitLabel(TakeLabels(s, 3), top), end, cont), st.a))
  IN  EmitLabel(JumpTrue(EmitLabel(body, cont), st.c, top), end)

\* Mutant: continue goes to the test.
GenForContinuesAtTest(s, st) ==
  LET i    == GenOptional(s, st.init)
      top  == LabelOf(i, 0)
      end  == LabelOf(i, 1)
      head == EmitLabel(TakeLabels(i, 2), top)
      test == IF Absent(st.c) THEN head ELSE JumpFalse(head, st.c, end)
      body == LeavingLoop(Gen(Looping(test, end, top), st.a))
  IN  EmitLabel(EmitGoto(GenOptional(body, st.step), top), end)

(* Continue runs the step; each of the three parts may be absent.           *)
GenFor(s, st) ==
  LET i    == GenOptional(s, st.init)
      top  == LabelOf(i, 0)
      cont == LabelOf(i, 1)
      end  == LabelOf(i, 2)
      head == EmitLabel(TakeLabels(i, 3), top)
      test == IF Absent(st.c) THEN head ELSE JumpFalse(head, st.c, end)
      body == LeavingLoop(Gen(Looping(test, end, cont), st.a))
  IN  EmitLabel(EmitGoto(GenOptional(EmitLabel(body, cont), st.step), top), end)

RECURSIVE GenStmts(_, _)
GenStmts(s, stmts) ==
  IF stmts = <<>> THEN s ELSE After(s, GenStmts(Gen(s, Head(stmts)), Tail(stmts)))

(* One test per case, a jump to the default or the end, then the cases,     *)
(* each falling through into the next.  A case is [v, default, stmts].      *)
GenSwitch(s, st) ==
  LET c     == Gen(s, st.c)
      end   == LabelOf(c, 0)
      label(i) == LabelOf(c, i)
      n     == Len(st.cases)
      defaults == {i \in 1 .. n : st.cases[i].default}
      start == TakeLabels(c, n + 1)
      test(t, i) ==
        IF i \in defaults THEN t
        ELSE LET u == Compute(t, "NE", c.value, Const(st.cases[i].v), "NONE")
             IN  EmitTest(u, label(i))
      tests == FoldLeft(test, start, [i \in 1 .. n |-> i])
      jump  == EmitGoto(tests, IF defaults = {} THEN end ELSE label(CHOOSE i \in defaults : \A j \in defaults : j <= i))
      outer == IF s.loops = <<>> THEN NoOperand ELSE Last(s.loops).continue
      body[i \in 0 .. n] == IF i = 0 THEN PushScope(Looping(jump, end, outer))
                            ELSE GenStmts(EmitLabel(body[i - 1], label(i)), st.cases[i].stmts)
  IN  EmitLabel(LeavingLoop(PopScope(body[n])), end)

GenReturn(s, st) ==
  IF Absent(st.e) THEN Emit(s, Quad("RET", NoOperand, NoOperand, NoOperand))
  ELSE LET a == CopiedIfStruct(Gen(s, st.e), st.e.t) IN Emit(a, Quad("RET", a.value, NoOperand, NoOperand))

(* A break or continue with nothing to leave is dropped.                    *)
GenLeave(s, to) == IF s.loops = <<>> \/ Last(s.loops)[to] = NoOperand THEN s ELSE EmitGoto(s, Last(s.loops)[to])

(* Trees are lowered by their kind: a jump, a statement or an expression.   *)
Gen(s, t) ==
  After(s, CASE t.k = "unless" -> GenJumpFalse(s, t.c, t.l)
        [] t.k = "when"   -> GenJumpTrue(s, t.c, t.l)
        [] t.k = "expr"   -> GenOptional(s, t.e)
        [] t.k = "decl"   -> GenDecl(s, t)
        [] t.k = "block"  -> PopScope(GenStmts(GenStmts(PushScope(s), t.locals), t.stmts))
        [] t.k = "if"     -> GenIf(s, t)
        [] t.k = "while"  -> GenWhile(s, t)
        [] t.k = "do"     -> GenDo(s, t)
        [] t.k = "for"    -> GenFor(s, t)
        [] t.k = "switch" -> GenSwitch(s, t)
        [] t.k = "return" -> GenReturn(s, t)
        [] t.k \in {"break", "continue"} -> GenLeave(s, t.k)
        [] t.k = "goto"   -> EmitGoto(s, Label("U_" \o t.label))
        [] t.k = "label"  -> Gen(EmitLabel(s, Label("U_" \o t.label)), t.a)
        [] OTHER          -> GenExpr(s, t))

-----------------------------------------------------------------------------
(* Functions and the program *)

(* A parameter whose address is taken arrives under another name and is     *)
(* moved into a box.                                                        *)
Boxes(s, p) == AddressTaken(s, p) /\ ~p.type.array
Incoming(s, p) == Qualified(IF Boxes(s, p) THEN p.name \o "@in" ELSE p.name, p.off)

GenParam(s, p) ==
  LET box == Local(Qualified(p.name, p.off))
      t   == Declare(s, p.name, box)
  IN  IF Boxes(s, p)
      THEN EmitStore(EmitAlloc([t EXCEPT !.boxed = @ \cup {box.name}], 1, box), Const(0), Local(Incoming(s, p)), box)
      ELSE t

(* A function's code joins those of the program, under its name.            *)
GenFunction(p, fn) ==
  LET s == [Fresh EXCEPT !.init = p.init, !.fn = fn.name, !.taken = p.taken, !.boxed = p.boxed]
      made(t) == [params |-> [i \in DOMAIN fn.params |-> Incoming(s, fn.params[i])], code |-> t.code]
      joined(t) == [p EXCEPT !.init = t.init, !.boxed = t.boxed, !.functions = (fn.name :> made(t)) @@ @]
  IN  joined(Gen(FoldLeft(GenParam, PushScope(s), fn.params), fn.body))

(* First the globals, then every function.                                  *)
GenFunctions(p, fns) ==
  LET done[n \in 0 .. Len(fns)] == IF n = 0 THEN p ELSE GenFunction(done[n - 1], fns[n]) IN done[Len(fns)]

Generate(prog) ==
  LET program(s) == [init |-> s.code, taken |-> prog.taken, boxed |-> s.boxed, functions |-> <<>>]
  IN  GenFunctions(program(GenStmts([Fresh EXCEPT !.taken = prog.taken], prog.globals)), prog.functions)
=============================================================================
