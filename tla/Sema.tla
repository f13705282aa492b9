-------------------------------- MODULE Sema --------------------------------
(***************************************************************************)
(* Semantic analysis (src/sema/sema.cpp): the parser's trees become the     *)
(* trees IRGen lowers, with the type t of every expression, a convert node  *)
(* wherever C converts implicitly, the offset of every declaration and the  *)
(* set of declarations whose address is taken; or the program is rejected.  *)
(*                                                                         *)
(* The analyser's state s: the stack of scopes from names to symbols, the   *)
(* next offset, the function and what it returns, the signatures, the       *)
(* labels defined and used, the errors found, and the last tree made (out). *)
(* Abstracted: an error is named for its diagnostic, without line or text;  *)
(* of the library, the functions a program is given in Builtins.  Left out: *)
(* floats, formats, sizeof, and structs still incomplete.                   *)
(***************************************************************************)
EXTENDS IRGen

CONSTANT Builtins   \* library functions: name -> [ret, params]

Analysing(sigs) ==
  [scopes |-> <<<<>>>>, next |-> 0, fn |-> "", ret |-> IntT, sigs |-> sigs, labels |-> {}, gotos |-> {},
   taken |-> {}, errors |-> {}, out |-> NoTree]

Reject(s, wrong, what) == IF wrong THEN [s EXCEPT !.errors = @ \cup {what}] ELSE s
Making(s, tree)   == [s EXCEPT !.out = tree]
Typed(s, tree, T) == Making(s, [t |-> T] @@ tree)

-----------------------------------------------------------------------------
(* Scopes *)

EnterScope(s) == [s EXCEPT !.scopes = Append(@, <<>>)]
ExitScope(s)  == [s EXCEPT !.scopes = Front(@)]

Visible(s, x) == \E n \in DOMAIN s.scopes : x \in DOMAIN s.scopes[n]
SymbolOf(s, x) ==
  LET in == {n \in DOMAIN s.scopes : x \in DOMAIN s.scopes[n]}
  IN  s.scopes[CHOOSE n \in in : \A m \in in : m <= n][x]

(* A symbol: its type, and the key of its declaration.                      *)
DeclKey(fn, x, off) == <<fn, x, off>>

(* Declares x at the next offset; a second declaration in one scope is an   *)
(* error, one that shadows an outer scope is not.                           *)
DeclareSymbol(s, x, T) ==
  LET top == Len(s.scopes)
      t   == [s EXCEPT !.next = @ + 1]
  IN  IF x \in DOMAIN s.scopes[top] THEN Reject(t, TRUE, "redeclaration")
      ELSE [t EXCEPT !.scopes[top] = (x :> [type |-> T, key |-> DeclKey(s.fn, x, s.next)]) @@ @]

-----------------------------------------------------------------------------
(* Types of operations *)

Promote(T) == IF IsInteger(T) /\ T.base \in {"I8", "U8"} THEN IntT ELSE T

(* The usual arithmetic conversions: the wider type, and at equal width the *)
(* unsigned one; int in place of what is no number.                         *)
UsualArith(A, B) ==
  IF ~IsInteger(A) \/ ~IsInteger(B) THEN IntT
  ELSE LET bases == {Promote(A).base, Promote(B).base}
       IN  Base(CHOOSE b \in bases : \A c \in bases : c = b \/ b = "I64" \/ (b = "U32" /\ c = "I32"))

IsNullLiteral(e) == e.k = "int" /\ e.v = 0

(* May e, of type From, be stored into a To?                                *)
Assignable(To, e) ==
  LET A == Decayed(To)
      B == Decayed(e.t)
  IN  IF IsVoid(To) \/ IsVoid(e.t) THEN IsVoid(To) /\ IsVoid(e.t)
      ELSE IF IsStructValue(To) \/ IsStructValue(e.t)
      THEN IsStructValue(To) /\ IsStructValue(e.t) /\ To.struct = e.t.struct
      ELSE CASE A.ptr = 0 /\ B.ptr = 0 -> TRUE
             [] A.ptr > 0 /\ B.ptr > 0 ->
                  \/ A.ptr = B.ptr /\ A.base = B.base /\ A.struct = B.struct /\ A.dims = B.dims
                  \/ A = PointerTo(VoidT)
                  \/ B = PointerTo(VoidT)
             [] A.ptr > 0 /\ B.ptr = 0 -> IsNullLiteral(e)
             [] A.ptr = 0 /\ B.ptr > 0 -> FALSE

(* e converted to T where numbers of different types meet.                  *)
Wrapped(e, T) ==
  IF IsPointerLike(e.t) \/ IsPointerLike(T) \/ e.t.base = T.base \/ {e.t.base, T.base} \cap {"VOID", "STRUCT"} # {}
  THEN e
  ELSE [k |-> "convert", l |-> e, t |-> T]

(* The type of each slot of a T, in memory order.                           *)
RECURSIVE SlotTypes(_)
SlotTypes(T) ==
  IF T.array THEN LET one == SlotTypes(PointeeOf(T))
                  IN  [i \in 1 .. Head(T.dims) * Len(one) |-> one[((i - 1) % Len(one)) + 1]]
  ELSE IF IsStructValue(T)
  THEN FoldLeft(LAMBDA types, f : types \o SlotTypes(f.type), <<>>, Structs[T.struct].fields)
  ELSE <<T>>

RECURSIVE Returns(_)
Returns(st) ==
  CASE st.k = "return" -> TRUE
    [] st.k = "block"  -> \E i \in DOMAIN st.stmts : Returns(st.stmts[i])
    [] st.k = "if"     -> ~Absent(st.b) /\ Returns(st.a) /\ Returns(st.b)
    [] OTHER           -> FALSE

-----------------------------------------------------------------------------
RECURSIVE Check(_, _), CheckEach(_, _), CheckOptional(_, _), CheckCondition(_, _), CheckIndex(_, _), CheckCall(_, _), CheckUnary(_, _), CheckIncrement(_, _), CheckBinary(_, _), CheckAssign(_, _), CheckCast(_, _), CheckMember(_, _), CheckConditional(_, _), CheckExpr(_, _), CheckDecl(_, _), CheckBlock(_, _), CheckFor(_, _), CheckReturn(_, _), CheckSwitch(_, _), CheckLabel(_, _), CheckIf(_, _), CheckWhile(_, _), CheckDo(_, _)

(* The trees of a list, checked in order.                                   *)
CheckEach(s, list) ==
  LET next(p, e) == LET c == Check(p.s, e) IN [s |-> c, trees |-> Append(p.trees, c.out)]
      done[n \in 0 .. Len(list)] == IF n = 0 THEN [s |-> s, trees |-> <<>>] ELSE next(done[n - 1], list[n])
  IN  done[Len(list)]

CheckOptional(s, e) == IF Absent(e) THEN Making(s, NoTree) ELSE Check(s, e)

CheckCondition(s, e) ==
  LET c == Check(s, e)
  IN  Reject(c, IsStructValue(c.out.t) \/ IsVoid(c.out.t), "condition")

CheckIdent(s, e) ==
  IF Visible(s, e.name) THEN Typed(s, e, SymbolOf(s, e.name).type) ELSE Typed(Reject(s, TRUE, "undeclared"), e, IntT)

(* What may index and move a pointer: the code asks only what it is not.    *)
IsIntegral(T) == ~IsPointerLike(T) /\ T.base # "VOID"

CheckIndex(s, e) ==
  LET b == Check(s, e.b)
      i == Check(b, e.i)
      B == b.out.t
      r == Reject(Reject(i, ~IsPointerLike(B), "subscript"), ~IsIntegral(i.out.t), "index type")
      tree == [e EXCEPT !.b = b.out, !.i = i.out]
  IN  IF Decayed(B) = PointerTo(VoidT) THEN Typed(Reject(r, TRUE, "void pointer"), tree, IntT)
      ELSE Typed(r, tree, IF IsPointerLike(B) THEN PointeeOf(B) ELSE IntT)

(* The arguments are converted to the types of the parameters.              *)
CheckCall(s, e) ==
  LET args == CheckEach(s, e.args)
      known == e.f \in DOMAIN s.sigs \/ e.f \in DOMAIN Builtins
      sig  == IF e.f \in DOMAIN s.sigs THEN s.sigs[e.f] ELSE Builtins[e.f]
      n    == Len(args.trees)
      fits(i) == i > Len(sig.params) \/ Assignable(sig.params[i], args.trees[i])
      tree == [e EXCEPT !.args = [i \in 1 .. n |->
                 IF i <= Len(sig.params) /\ fits(i) THEN Wrapped(args.trees[i], sig.params[i]) ELSE args.trees[i]]]
      r == Reject(Reject(args.s, n # Len(sig.params), "argument count"), \E i \in 1 .. n : ~fits(i), "argument type")
  IN  IF known THEN Typed(r, tree, sig.ret)
      ELSE Typed(Reject(args.s, TRUE, "undeclared function"), [e EXCEPT !.args = args.trees], IntT)

IsLvalueShape(e) == e.k \in {"ident", "index", "member"} \/ (e.k = "un" /\ e.op = "DEREF")

(* & marks the declaration of a scalar: it has to live in memory.           *)
CheckAddress(s, e, a) ==
  LET T == a.out.t
      r == Reject(a, ~IsLvalueShape(e.l), "address of a value")
      marks == e.l.k = "ident" /\ Visible(s, e.l.name) /\ ~IsAggregate(T)
      m == IF marks THEN [r EXCEPT !.taken = @ \cup {SymbolOf(s, e.l.name).key}] ELSE r
  IN  Typed(m, [e EXCEPT !.l = a.out], IF T.array THEN Decayed(T) ELSE AddressOf(T))

CheckDeref(s, e, a) ==
  LET P == Decayed(a.out.t)
      tree == [e EXCEPT !.l = a.out]
  IN  IF P.ptr = 0 THEN Typed(Reject(a, TRUE, "not a pointer"), tree, IntT)
      ELSE IF P = PointerTo(VoidT) THEN Typed(Reject(a, TRUE, "void pointer"), tree, IntT)
      ELSE Typed(a, tree, PointeeOf(P))

CheckUnary(s, e) ==
  LET a == Check(s, e.l)
      T == a.out.t
      tree == [e EXCEPT !.l = a.out]
      bad  == IsPointerLike(T) \/ IsVoid(T) \/ IsStructValue(T)
  IN  CASE e.op = "ADDR"  -> CheckAddress(s, e, a)
        [] e.op = "DEREF" -> CheckDeref(s, e, a)
        [] e.op = "NOT"   -> Typed(Reject(a, IsAggregate(T), "operand"), tree, IntT)
        [] e.op \in {"NEG", "POS", "BITNOT"} -> Typed(Reject(a, bad, "operand"), tree, IF IsInteger(T) THEN Promote(T) ELSE IntT)

CheckIncrement(s, e) ==
  LET a == Check(s, e.l)
      T == a.out.t
      r == Reject(Reject(a, ~IsLvalueShape(e.l), "increment of a value"), IsAggregate(T) \/ IsVoid(T), "operand")
  IN  Typed(r, [e EXCEPT !.l = a.out], [T EXCEPT !.array = FALSE])

(* A pointer moves by an integer; two pointers subtract and compare.        *)
CheckPointerBinary(s, tree) ==
  LET L == tree.l.t
      R == tree.r.t
      both == IsPointerLike(L) /\ IsPointerLike(R)
      number == IF IsPointerLike(L) THEN R ELSE L
      pointer == Decayed(IF IsPointerLike(L) THEN L ELSE R)
  IN  CASE tree.op = "ADD" /\ both  -> Typed(Reject(s, TRUE, "pointer arithmetic"), tree, Decayed(L))
        [] tree.op = "SUB" /\ both  -> Typed(s, tree, LongT)
        [] ~both /\ (tree.op = "ADD" \/ (tree.op = "SUB" /\ IsPointerLike(L))) ->
             IF IsIntegral(number) THEN Typed(s, tree, pointer)
             ELSE Typed(Reject(s, TRUE, "pointer arithmetic"), tree, IntT)
        [] tree.op \in Comparisons \cup {"LOGAND", "LOGOR"} -> Typed(s, tree, IntT)
        [] OTHER -> Typed(Reject(s, TRUE, "operand"), tree, IntT)

(* Numbers: both sides take the common type, but for a shift, which has the *)
(* promoted type of its left side.                                          *)
CheckNumbers(s, tree) ==
  LET T == UsualArith(tree.l.t, tree.r.t)
      same == [tree EXCEPT !.l = Wrapped(@, T), !.r = Wrapped(@, T)]
  IN  CASE tree.op \in {"LOGAND", "LOGOR"} -> Typed(s, tree, IntT)
        [] tree.op \in Comparisons -> Typed(s, same, IntT)
        [] tree.op \in {"SHL", "SHR"} -> Typed(s, tree, IF IsInteger(tree.l.t) THEN Promote(tree.l.t) ELSE IntT)
        [] tree.op \in {"DIV", "MOD"} -> Typed(Reject(s, IsNullLiteral(tree.r), "division by zero"), same, T)
        [] OTHER -> Typed(s, same, T)

CheckBinary(s, e) ==
  LET l == Check(s, e.l)
      r == Check(l, e.r)
      tree == [e EXCEPT !.l = l.out, !.r = r.out]
      sides == {l.out.t, r.out.t}
      ok == Reject(r, \E T \in sides : IsVoid(T), "operand")
  IN  IF \E T \in sides : IsStructValue(T) THEN Typed(Reject(ok, TRUE, "operand"), tree, IntT)
      ELSE IF \E T \in sides : IsPointerLike(T) THEN CheckPointerBinary(ok, tree)
      ELSE CheckNumbers(ok, tree)

(* x = v converts v; x op= v only notes the type to compute in, and IRGen   *)
(* narrows the result.                                                      *)
CheckAssign(s, e) ==
  LET l == Check(s, e.l)
      r == Check(l, e.r)
      T == l.out.t
      V == r.out.t
      plain == e.op = "ASSIGN"
      wrong ==
        CASE T.array -> "assignment to an array"
          [] IsStructValue(T) /\ ~plain -> "operand"
          [] ~T.array /\ plain -> IF Assignable(T, r.out) THEN "" ELSE "type mismatch"
          [] IsPointer(T) /\ ~plain ->
               IF e.op \notin {"ADD", "SUB"} THEN "operand" ELSE IF IsPointerLike(V) THEN "type mismatch" ELSE ""
          [] OTHER -> IF IsPointerLike(V) \/ IsStructValue(V) \/ IsVoid(T) # IsVoid(V) THEN "type mismatch" ELSE ""
      value == IF plain /\ wrong = "" THEN Wrapped(r.out, T) ELSE r.out
      op == IF plain \/ IsPointer(T) THEN IntT ELSE IF e.op \in {"SHL", "SHR"} THEN Promote(T) ELSE UsualArith(T, V)
      tree == [opt |-> op] @@ [e EXCEPT !.l = l.out, !.r = value]
  IN  Typed(Reject(r, IsLvalueShape(e.l) /\ wrong # "", wrong), tree, T)

CheckCast(s, e) ==
  LET a == Check(s, e.l)
      T == a.out.t
  IN  Typed(Reject(a, IsVoid(T) \/ IsStructValue(T) \/ IsStructValue(e.to)
                        \/ (T.array /\ ~IsPointer(Decayed(e.to)) /\ ~IsVoid(e.to)), "cast"),
            [e EXCEPT !.l = a.out], e.to)

(* . wants a struct, -> a pointer to one; the tree gets the field's slot.   *)
CheckMember(s, e) ==
  LET b == Check(s, e.b)
      B == b.out.t
      D == Decayed(B)
      points == D.ptr = 1 /\ D.base = "STRUCT" /\ D.dims = <<>>
      ok == IF e.arrow THEN points ELSE IsStructValue(B)
      fields == IF ok THEN Structs[B.struct].fields ELSE <<>>
      found  == {i \in DOMAIN fields : fields[i].name = e.field}
      tree   == [off |-> 0] @@ [e EXCEPT !.b = b.out]
  IN  IF found = {} THEN Typed(Reject(b, TRUE, "member"), tree, IntT)
      ELSE LET f == fields[CHOOSE i \in found : TRUE] IN Typed(b, [tree EXCEPT !.off = f.slot], f.type)

CheckConditional(s, e) ==
  LET c == CheckCondition(s, e.c)
      l == Check(c, e.l)
      r == Check(l, e.r)
      A == l.out.t
      B == r.out.t
      N == UsualArith(A, B)
      tree == [e EXCEPT !.c = c.out, !.l = l.out, !.r = r.out]
  IN  IF IsVoid(A) \/ IsVoid(B) THEN Typed(Reject(r, IsVoid(A) # IsVoid(B), "branches"), tree, VoidT)
      ELSE IF IsStructValue(A) \/ IsStructValue(B) THEN Typed(Reject(r, A # B, "branches"), tree, A)
      ELSE IF ~IsPointerLike(A) /\ ~IsPointerLike(B) 
      THEN Typed(r, [tree EXCEPT !.l = Wrapped(@, N), !.r = Wrapped(@, N)], N)
      ELSE IF Assignable(Decayed(A), r.out) THEN Typed(r, tree, Decayed(A))
      ELSE IF Assignable(Decayed(B), l.out) THEN Typed(r, tree, Decayed(B))
      ELSE Typed(Reject(r, TRUE, "branches"), tree, Decayed(A))

CheckExpr(s, e) ==
  CASE e.k = "int"    -> Typed(s, e, IF e.unsigned THEN UnsignedT ELSE IntT)
    [] e.k = "char"   -> Typed(s, e, CharT)
    [] e.k = "str"    -> Typed(s, e, PointerTo(CharT))
    [] e.k = "ident"  -> CheckIdent(s, e)
    [] e.k = "index"  -> CheckIndex(s, e)
    [] e.k = "call"   -> CheckCall(s, e)
    [] e.k = "un"     -> CheckUnary(s, e)
    [] e.k = "inc"    -> CheckIncrement(s, e)
    [] e.k = "bin"    -> CheckBinary(s, e)
    [] e.k = "assign" -> CheckAssign(s, e)
    [] e.k = "cast"   -> CheckCast(s, e)
    [] e.k = "member" -> CheckMember(s, e)
    [] e.k = "cond"   -> CheckConditional(s, e)
    [] e.k = "comma"  -> LET l == Check(s, e.l)
                             r == Check(l, e.r)
                         IN  Typed(r, [e EXCEPT !.l = l.out, !.r = r.out], r.out.t)

-----------------------------------------------------------------------------
(* Declarations *)

(* The elements of a list, each converted to the type of its slot.          *)
Fitted(list, types) ==
  [i \in DOMAIN list |-> IF i \in DOMAIN types /\ Assignable(types[i], list[i]) THEN Wrapped(list[i], types[i]) ELSE list[i]]
Misfits(list, types) == \E i \in DOMAIN list : i \in DOMAIN types /\ ~Assignable(types[i], list[i])

(* The element type of a list: width, sign and struct are not passed on.    *)
ListElement(T) ==
  [Base(CASE T.base \in {"I8", "U8"} -> "I8" [] T.base \in {"I32", "U32", "I64"} -> "I32" [] OTHER -> T.base)
     EXCEPT !.ptr = T.ptr]

SlotsExpected(d) ==
  IF IsFlatRun(d.type) THEN SlotTypes(d.type)
  ELSE IF d.type.array THEN [i \in DOMAIN d.list |-> ListElement(d.type)]
  ELSE <<>>

(* The initialiser is checked before the name is declared.                  *)
CheckDecl(s, d) ==
  LET i == CheckOptional(s, d.init)
      l == CheckEach(i, d.list)
      T == d.type
      types == SlotsExpected(d)
      r1 == Reject(l.s, T.base = "VOID" /\ T.ptr = 0, "void variable")
      r2 == Reject(r1, T.array /\ ~Absent(d.init), "array from a scalar")
      r3 == Reject(r2, ~T.array /\ ~Absent(d.init) /\ ~Assignable(T, i.out), "type mismatch")
      r4 == Reject(r3, IsFlatRun(T) /\ d.list # <<>> /\ Len(d.list) # Len(types), "layout")
      r5 == Reject(r4, T.array /\ ~IsFlatRun(T) /\ Len(d.list) > Head(T.dims), "too many initializers")
      r6 == Reject(r5, ~T.array /\ ~IsStructValue(T) /\ d.list # <<>>, "not an array")
      r7 == Reject(r6, Misfits(l.trees, types), "initializer type")
      init == IF Absent(d.init) \/ IsAggregate(T) \/ ~Assignable(T, i.out) THEN i.out ELSE Wrapped(i.out, T)
  IN  Making(DeclareSymbol(r7, d.name, T),
             [d EXCEPT !.init = init, !.list = Fitted(l.trees, types)] @@ [off |-> s.next])

-----------------------------------------------------------------------------
(* Statements *)

CheckBlock(s, st) ==
  LET l == CheckEach(EnterScope(s), st.locals)
      b == CheckEach(l.s, st.stmts)
  IN  Making(ExitScope(b.s), [st EXCEPT !.locals = l.trees, !.stmts = b.trees])

CheckFor(s, st) ==
  LET i == CheckOptional(s, st.init)
      c == IF Absent(st.c) THEN Making(i, NoTree) ELSE CheckCondition(i, st.c)
      p == CheckOptional(c, st.step)
      a == Check(p, st.a)
  IN  Making(a, [st EXCEPT !.init = i.out, !.c = c.out, !.step = p.out, !.a = a.out])

CheckReturn(s, st) ==
  LET e == CheckOptional(s, st.e)
      void == IsVoid(s.ret)
      fits == ~Absent(st.e) /\ ~void /\ Assignable(s.ret, e.out)
  IN  Making(Reject(e, ~fits /\ ~(Absent(st.e) /\ void), "return"),
             [st EXCEPT !.e = IF fits THEN Wrapped(e.out, s.ret) ELSE e.out])

(* All cases share one scope.                                               *)
CheckSwitch(s, st) ==
  LET c == Check(s, st.c)
      n == Len(st.cases)
      twice == \E i \in 1 .. n : \E j \in 1 .. i - 1 :
                 /\ st.cases[i].default = st.cases[j].default
                 /\ st.cases[i].default \/ st.cases[i].v = st.cases[j].v
      start == EnterScope(Reject(Reject(c, ~IsInteger(c.out.t), "switch type"), twice, "duplicate case"))
      next(p, cs) == LET b == CheckEach(p.s, cs.stmts) IN [s |-> b.s, cases |-> Append(p.cases, [cs EXCEPT !.stmts = b.trees])]
      done[i \in 0 .. n] == IF i = 0 THEN [s |-> start, cases |-> <<>>] ELSE next(done[i - 1], st.cases[i])
      body == done[n]
  IN  Making(ExitScope(body.s), [st EXCEPT !.c = c.out, !.cases = body.cases])

CheckLabel(s, st) ==
  LET r == Reject([s EXCEPT !.labels = @ \cup {st.label}], st.label \in s.labels, "duplicate label")
      a == Check(r, st.a)
  IN  Making(a, [st EXCEPT !.a = a.out])

(* if, while and do: a condition and what it governs, in source order.      *)
CheckIf(s, st) ==
  LET c == CheckCondition(s, st.c)
      a == Check(c, st.a)
      b == CheckOptional(a, st.b)
  IN  Making(b, [st EXCEPT !.c = c.out, !.a = a.out, !.b = b.out])

CheckWhile(s, st) ==
  LET c == CheckCondition(s, st.c)
      a == Check(c, st.a)
  IN  Making(a, [st EXCEPT !.c = c.out, !.a = a.out])

CheckDo(s, st) ==
  LET a == Check(s, st.a)
      c == CheckCondition(a, st.c)
  IN  Making(c, [st EXCEPT !.c = c.out, !.a = a.out])

Check(s, t) ==
  After(s, CASE t.k = "decl"   -> CheckDecl(s, t)
        [] t.k = "expr"   -> LET e == CheckOptional(s, t.e) IN Making(e, [t EXCEPT !.e = e.out])
        [] t.k = "block"  -> CheckBlock(s, t)
        [] t.k = "if"     -> CheckIf(s, t)
        [] t.k = "while"  -> CheckWhile(s, t)
        [] t.k = "do"     -> CheckDo(s, t)
        [] t.k = "for"    -> CheckFor(s, t)
        [] t.k = "switch" -> CheckSwitch(s, t)
        [] t.k = "return" -> CheckReturn(s, t)
        [] t.k = "goto"   -> Making([s EXCEPT !.gotos = @ \cup {t.label}], t)
        [] t.k = "label"  -> CheckLabel(s, t)
        [] t.k \in {"break", "continue"} -> Making(s, t)
        [] OTHER          -> CheckExpr(s, t))

-----------------------------------------------------------------------------
(* Functions and the program *)

(* A function has its offsets and labels to itself.                         *)
OpenFunction(s, fn) ==
  LET start == EnterScope([s EXCEPT !.next = 0, !.fn = fn.name, !.ret = fn.ret, !.labels = {}, !.gotos = {}])
  IN  FoldLeft(LAMBDA t, x : DeclareSymbol(t, x.name, x.type), start, fn.params)

CloseFunction(s, fn, ret) ==
  LET r1 == Reject(s, ~IsVoid(fn.ret) /\ ~Returns(fn.body), "missing return")
      r2 == Reject(r1, ~(s.gotos \subseteq s.labels), "undefined label")
  IN  Making([ExitScope(r2) EXCEPT !.fn = "", !.ret = ret],
             [fn EXCEPT !.body = s.out, !.params = [i \in DOMAIN @ |-> @[i] @@ [off |-> i - 1]]])

CheckFunction(s, fn) == CloseFunction(Check(OpenFunction(s, fn), fn.body), fn, s.ret)

(* Every signature is known before a body is checked; the first of two      *)
(* functions of one name stands.                                            *)
Signatures(functions) ==
  FoldLeft(LAMBDA sigs, fn : sigs @@ (fn.name :> [ret |-> fn.ret, params |-> [i \in DOMAIN fn.params |-> fn.params[i].type]]),
           <<>>, functions)

(* The functions of a program, after its globals.                           *)
Noted(p, s) == [p EXCEPT !.s = s, !.trees = Append(@, s.out)]

CheckFunctions(p, fns) ==
  LET next(q, fn) == Noted(q, CheckFunction(q.s, fn))
      done[n \in 0 .. Len(fns)] == IF n = 0 THEN p ELSE next(done[n - 1], fns[n])
  IN  done[Len(fns)]

Analysed(p) == [globals |-> p.globals, functions |-> p.trees, taken |-> p.s.taken, errors |-> p.s.errors]

(* The declarations of a program in source order: globals, then functions.  *)
Analyse(prog) ==
  LET fns == prog.functions
      s0 == Reject(Analysing(Signatures(fns)), \E i, j \in DOMAIN fns : i < j /\ fns[i].name = fns[j].name, "redeclaration")
      checked(g) == CheckFunctions([s |-> g.s, globals |-> g.trees, trees |-> <<>>], fns)
  IN  Analysed(checked(CheckEach(s0, prog.globals)))

Accepts(prog) == Analyse(prog).errors = {}
=============================================================================
