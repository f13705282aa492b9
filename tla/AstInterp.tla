------------------------------ MODULE AstInterp ------------------------------
(***************************************************************************)
(* The reference interpreter (src/astinterp/ast_interp.cpp): it runs the    *)
(* trees semantic analysis leaves and never sees a quad.  A goto unwinds to *)
(* the nearest statement that holds the label and enters it again, skipping *)
(* all up to the label.                                                     *)
(*                                                                         *)
(* The state s: the program, scopes from names to bindings, globals and static locals,   *)
(* the memory, the output, the function being run, the control flow a       *)
(* statement ended with, the label sought and whether the search is on, the *)
(* value of the last expression and, of an address, the base it is in, the  *)
(* value returned, the binding last made, and the status (see Machine).     *)
(* Left out: floats, sizeof, the library but for what prints, and the byte  *)
(* counts of memcpy and its kin.                                            *)
(***************************************************************************)
EXTENDS Types, TLC

CONSTANT Structs   \* name -> layout, as the parser laid it out (LayOut of module Types)

(* The slots a T takes in the engines.                                      *)
SlotsOf(T) == SlotsIn(Structs, T)

CONSTANT Turns   \* loop turns, jumps and calls after which a run counts as endless

Beginning(prog) ==
  [prog |-> prog, scopes |-> <<>>, globals |-> <<>>, statics |-> <<>>, heap |-> <<>>, output |-> <<>>, fn |-> "", flow |-> "NORMAL",
   label |-> "", seeking |-> FALSE, value |-> Num(0), base |-> Num(0), returned |-> Num(0),
   bound |-> [array |-> 0, aggregate |-> FALSE], turns |-> Turns, status |-> "running"]

Stopped(s)   == s.status # "running"
Fault(s, f)  == IF Stopped(s) \/ f = "" THEN s ELSE [s EXCEPT !.status = f]
Giving(s, v) == [s EXCEPT !.value = v]
Flowing(s, f) == [s EXCEPT !.flow = f]
Turn(s)      == IF s.turns = 0 THEN Fault(s, "endless") ELSE [s EXCEPT !.turns = @ - 1]
Based(s, base, i) == [s EXCEPT !.base = base, !.value = Num(i)]

RECURSIVE Run(_, _)
EvalOptional(s, e) == IF Absent(e) THEN s ELSE Run(s, e)

(* The values of a list, evaluated in order.                                *)
EvalEach(s, list) ==
  LET next(p, e) == LET t == Run(p.s, e) IN [s |-> t, values |-> Append(p.values, t.value)]
      done[n \in 0 .. Len(list)] == IF n = 0 THEN [s |-> s, values |-> <<>>] ELSE next(done[n - 1], list[n])
  IN  done[Len(list)]

-----------------------------------------------------------------------------
(* Memory: a name is bound to an array of its own, of one slot for a scalar. *)

Bind(s, cells, aggregate) ==
  [s EXCEPT !.heap = Append(@, cells), !.bound = [array |-> Len(s.heap) + 1, aggregate |-> aggregate]]

SetName(s, x) == [s EXCEPT !.scopes[Len(s.scopes)] = (x :> s.bound) @@ @]

IsBound(s, x) == x \in DOMAIN s.globals \/ \E n \in DOMAIN s.scopes : x \in DOMAIN s.scopes[n]
Lookup(s, x) ==
  LET in == {n \in DOMAIN s.scopes : x \in DOMAIN s.scopes[n]}
  IN  IF in = {} THEN s.globals[x] ELSE s.scopes[CHOOSE n \in in : \A m \in in : m <= n][x]

Load(a) ==
  LET fault == SlotFault(a.heap, a.base, IntOf(a.value))
  IN  IF fault = "" THEN Giving(a, Peek(a.heap, a.base, IntOf(a.value))) ELSE Fault(a, fault)

StoreAt(s, base, i, v) ==
  LET fault == SlotFault(s.heap, base, i)
  IN  IF Stopped(s) \/ fault # "" THEN Fault(s, fault) ELSE Giving([s EXCEPT !.heap = Poke(@, base, i, v)], v)

PointerFrom(a) ==
  LET fault == IF a.value = Num(0) THEN "" ELSE BinaryFault("ADD", a.base, a.value, "NONE")
  IN  IF fault # "" THEN Fault(a, fault)
      ELSE Giving(a, IF a.value = Num(0) THEN a.base ELSE Binary("ADD", a.base, a.value, "NONE"))

CopyBlock(s, from, to, n) ==
  LET fault == MoveFault(s.heap, from, to, n)
  IN  IF Stopped(s) \/ fault # "" THEN Fault(s, fault)
      ELSE IF n > 0 THEN [s EXCEPT !.heap = Move(@, from, to, n)] ELSE s

(* The struct the value points to, in slots of its own.                     *)
CopyIfStruct(s, T) ==
  IF ~IsStructValue(T) \/ Stopped(s) THEN s
  ELSE Giving(CopyBlock([s EXCEPT !.heap = Append(@, Zeros(SlotsOf(T)))], s.value, NewArray(s.heap), SlotsOf(T)), NewArray(s.heap))

Compute(s, op, a, b, ty) ==
  LET fault == BinaryFault(op, a, b, ty)
  IN  IF Stopped(s) \/ fault # "" THEN Fault(s, fault) ELSE Giving(s, Binary(op, a, b, ty))

Convert(s, from, to) ==
  IF IsPointerLike(from) \/ to.ptr > 0 \/ to.base = "VOID" \/ from.base = to.base THEN s
  ELSE Giving(s, Unary("TO_INT", s.value, TypeTag(to)))

(* A declaration: the initialiser first, then the storage.                  *)
IsScalarArray(T) == T.array /\ Len(T.dims) = 1 /\ ~(T.base = "STRUCT" /\ T.ptr = 0)

DeclareAggregate(s, d, run) ==
  LET from == IF run THEN EvalOptional(s, d.init) ELSE s
      vals == EvalEach(from, IF run THEN d.list ELSE <<>>)
      n    == IF IsScalarArray(d.type) THEN Head(d.type.dims) ELSE SlotsOf(d.type)
      room == Bind(vals.s, Zeros(n), TRUE)
      here == PointerAt(room.bound.array, 0)
      full == IF run /\ ~Absent(d.init) THEN CopyBlock(room, from.value, here, n) ELSE room
  IN  FoldLeft(LAMBDA t, i : StoreAt(t, here, i - 1, vals.values[i]), full, [i \in DOMAIN vals.values |-> i])

DeclareScalar(s, d, run) ==
  LET v == IF run /\ ~Absent(d.init) THEN Run(s, d.init) ELSE Giving(s, Num(0)) IN Bind(v, <<v.value>>, FALSE)

Declare(s, d, run) == IF IsAggregate(d.type) THEN DeclareAggregate(s, d, run) ELSE DeclareScalar(s, d, run)

DeclKey(s, d) == <<s.fn, d.name, d.off>>
DeclareLocal(s, d, run) ==
  IF d.static THEN SetName([s EXCEPT !.bound = s.statics[DeclKey(s, d)]], d.name)
  ELSE LET t == Declare(s, d, run) IN IF Stopped(t) THEN t ELSE SetName(t, d.name)

-----------------------------------------------------------------------------
(* Expressions *)

(* Where e is: the base, and the index as the value.                        *)
RECURSIVE Addr(_, _)
Addr(s, e) ==
  CASE e.k = "ident" /\ ~IsAggregate(e.t) ->
         IF IsBound(s, e.name) THEN Based(s, PointerAt(Lookup(s, e.name).array, 0), 0) ELSE Fault(s, "internal")
    [] e.k = "index" ->
         LET b == Run(s, e.b)
             i == Run(b, e.i)
         IN  Based(i, b.value, IntOf(i.value) * SlotsOf(e.t))
    [] e.k = "member" /\ e.arrow  -> LET b == Run(s, e.b) IN Based(b, b.value, e.off)
    [] e.k = "member" /\ ~e.arrow -> LET b == Addr(s, e.b) IN Based(b, b.base, IntOf(b.value) + e.off)
    [] e.k = "un" /\ e.op = "DEREF" -> LET b == Run(s, e.l) IN Based(b, b.value, 0)
    [] OTHER -> LET b == Run(s, e) IN Based(b, b.value, 0)

LoadFrom(a, T) == IF Stopped(a) THEN a ELSE IF IsAggregate(T) THEN PointerFrom(a) ELSE Load(a)

EvalIdent(s, e) ==
  IF ~IsBound(s, e.name) THEN Fault(s, "internal")
  ELSE LET b == Lookup(s, e.name) IN Giving(s, IF b.aggregate THEN PointerAt(b.array, 0) ELSE s.heap[b.array][1])

EvalString(s, e) ==
  Giving([s EXCEPT !.heap = Append(@, [i \in 1 .. Len(e.v) + 1 |-> Num(IF i <= Len(e.v) THEN e.v[i] ELSE 0)])], NewArray(s.heap))

EvalLogical(s, e) ==
  LET l == Run(s, e.l)
      r == Run(l, e.r)
      decided == Truthy(l.value) = (e.op = "LOGOR")
  IN  IF Stopped(l) \/ (~decided /\ Stopped(r)) THEN (IF Stopped(l) THEN l ELSE r)
      ELSE IF decided THEN Giving(l, Num(Bool(Truthy(l.value)))) ELSE Giving(r, Num(Bool(Truthy(r.value))))

(* A pointer moves by whole elements; a difference is in elements.  r holds *)
(* the right side as value; l is the left.                                  *)
Combine(r, e, l) ==
  LET lp == IsPointerLike(e.l.t)
      rp == IsPointerLike(e.r.t)
      elem  == SlotsOf(PointeeOf(IF lp THEN e.l.t ELSE e.r.t))
      scaled(v) == IF elem = 1 THEN Giving(r, v) ELSE Compute(r, "MUL", v, Num(elem), "NONE")
      apart(t)  == IF elem = 1 THEN t ELSE Compute(t, "DIV", t.value, Num(elem), "NONE")
      onto(t)   == Compute(t, e.op, l, t.value, "NONE")
      under(t)  == Compute(t, e.op, t.value, r.value, "NONE")
      left == IF e.op \in {"SHL", "SHR"} THEN Convert(Giving(r, l), e.l.t, e.t).value ELSE l
      tag  == IF lp \/ rp THEN "NONE" ELSE TypeTag(IF e.op \in Comparisons THEN e.l.t ELSE e.t)
  IN  IF Stopped(r) THEN r
      ELSE IF e.op \notin {"ADD", "SUB"} \/ (~lp /\ ~rp) THEN Compute(r, e.op, left, r.value, tag)
      ELSE IF lp /\ rp THEN apart(Compute(r, "SUB", l, r.value, "NONE"))
      ELSE IF lp THEN onto(scaled(r.value)) ELSE under(scaled(l))

EvalBinary(s, e) == LET then(l) == Combine(Run(l, e.r), e, l.value) IN then(Run(s, e.l))

EvalUnary(s, e) ==
  LET a == Convert(Run(s, e.l), e.l.t, e.t)
  IN  CASE e.op = "POS"   -> Run(s, e.l)
        [] e.op = "ADDR"  -> LET w == Addr(s, e.l) IN IF Stopped(w) THEN w ELSE PointerFrom(w)
        [] e.op = "DEREF" -> LoadFrom(Addr(s, e), e.t)
        [] e.op = "NOT"   -> LET v == Run(s, e.l) IN Giving(v, Num(Bool(~Truthy(v.value))))
        [] e.op \in {"NEG", "BITNOT"} -> Giving(a, Unary(e.op, a.value, TypeTag(e.t)))

(* ++x, x--: the place is found once, as w.                                 *)
Increment(w, e) ==
  LET T   == e.l.t
      one == IF IsPointer(T) THEN SlotsOf(PointeeOf(T)) ELSE 1
      old == Load(w)
      put(t) == StoreAt(t, w.base, IntOf(w.value), t.value)
      out == put(Compute(old, e.op, old.value, Num(one), TypeTag(T)))
  IN  IF Stopped(w) THEN w ELSE IF Stopped(old) THEN old ELSE IF e.pre THEN out ELSE Giving(out, old.value)

EvalIncrement(s, e) == Increment(Addr(s, e.l), e)

(* x op= v computes at the type of the operation and comes back to that of  *)
(* x; w is the place, v holds the value.                                    *)
AssignAt(w, e, v) ==
  LET T   == e.l.t
      at(t) == StoreAt(t, w.base, IntOf(w.value), t.value)
      fill(to) == CopyBlock(to, v.value, to.value, SlotsOf(T))
      intOp == IsInteger(e.opt) /\ ~IsPointer(T)
      rhs == IF intOp /\ e.op \notin {"SHL", "SHR"} THEN Convert(v, e.r.t, e.opt).value ELSE v.value
      by  == IF IsPointer(T) /\ SlotsOf(PointeeOf(T)) # 1
             THEN Compute(w, "MUL", rhs, Num(SlotsOf(PointeeOf(T))), "NONE") ELSE Giving(w, rhs)
      wide(t) == IF intOp THEN Convert(t, T, e.opt) ELSE t
      thin(t) == IF IsInteger(T) /\ IsInteger(e.opt) THEN Convert(t, e.opt, T) ELSE t
      out(t)  == Compute(t, e.op, t.value, by.value, IF intOp THEN TypeTag(e.opt) ELSE "NONE")
      put(old) == IF Stopped(old) THEN old ELSE at(thin(out(wide(old))))
  IN  IF Stopped(w) THEN w
      ELSE IF IsStructValue(T) THEN fill(PointerFrom(w))
      ELSE IF e.op = "ASSIGN" THEN at(Giving(w, v.value))
      ELSE put(Load(Based(by, w.base, IntOf(w.value))))

(* The value is evaluated before the place is found.                        *)
EvalAssign(s, e) == LET then(v) == AssignAt(Addr(v, e.l), e, v) IN then(Run(s, e.r))

(* A callee sees its parameters and the globals alone.                      *)
FunctionNamed(s, f) == SelectSeq(s.prog.functions, LAMBDA fn : fn.name = f)

Enter(s, fn, args) ==
  LET param(t, i) == SetName(Bind(t, <<IF i <= Len(args) THEN args[i] ELSE Num(0)>>, FALSE), fn.params[i].name)
  IN  FoldLeft(param, [Turn(s) EXCEPT !.scopes = << <<>> >>, !.fn = fn.name], [i \in DOMAIN fn.params |-> i])

(* Back in the caller s, from the callee's last state t.                    *)
BackIn(s, t) ==
  IF t.flow = "GOTO" THEN Fault(t, "internal")
  ELSE Giving([t EXCEPT !.scopes = s.scopes, !.fn = s.fn, !.flow = "NORMAL"], IF t.flow = "RETURN" THEN t.returned ELSE Num(0))

CallFunction(s, fn, args) == BackIn(s, Run(Enter(s, fn, args), fn.body))

EvalArgs(s, list) ==
  LET next(p, e) == LET t == CopyIfStruct(Run(p.s, e), e.t) IN [s |-> t, values |-> Append(p.values, t.value)]
      done[n \in 0 .. Len(list)] == IF n = 0 THEN [s |-> s, values |-> <<>>] ELSE next(done[n - 1], list[n])
  IN  done[Len(list)]

(* The one library function prints its arguments.                           *)
CallWith(args, f) ==
  LET fns   == FunctionNamed(args.s, f)
      print == [args.s EXCEPT !.output = @ \o [i \in DOMAIN args.values |-> IntOf(args.values[i])]]
  IN  IF Stopped(args.s) THEN args.s
      ELSE IF fns # <<>> THEN CallFunction(args.s, Head(fns), args.values)
      ELSE Giving(print, Num(IntOf(Head(args.values))))

EvalCall(s, e) == CallWith(EvalArgs(s, e.args), e.f)

EvalConditional(s, e) ==
  LET c == Run(s, e.c)
      v == IF Stopped(c) THEN c ELSE Run(c, IF Truthy(c.value) THEN e.l ELSE e.r)
  IN  IF IsVoid(e.t) THEN Giving(v, Num(0)) ELSE v

EvalAny(s, e) ==
  CASE e.k \in {"int", "char"} -> Giving(s, Num(e.v))
    [] e.k = "str"    -> EvalString(s, e)
    [] e.k = "ident"  -> EvalIdent(s, e)
    [] e.k \in {"index", "member"} -> LoadFrom(Addr(s, e), e.t)
    [] e.k = "call"   -> EvalCall(s, e)
    [] e.k = "un"     -> EvalUnary(s, e)
    [] e.k = "inc"    -> EvalIncrement(s, e)
    [] e.k = "bin"    -> IF e.op \in {"LOGAND", "LOGOR"} THEN EvalLogical(s, e) ELSE EvalBinary(s, e)
    [] e.k = "assign" -> EvalAssign(s, e)
    [] e.k = "cast"   -> Convert(Run(s, e.l), e.l.t, e.t)
    [] e.k = "convert" -> LET v == Run(s, e.l) IN Giving(v, Unary("TO_INT", v.value, TypeTag(e.t)))
    [] e.k = "cond"   -> EvalConditional(s, e)
    [] e.k = "comma"  -> Run(Run(s, e.l), e.r)

-----------------------------------------------------------------------------
(* Statements *)

(* The labels defined inside a statement.                                   *)
RECURSIVE LabelsIn(_)
LabelsIn(st) ==
  CASE st.k = "block"  -> UNION {LabelsIn(st.stmts[i]) : i \in DOMAIN st.stmts}
    [] st.k = "if"     -> LabelsIn(st.a) \cup LabelsIn(st.b)
    [] st.k \in {"while", "do", "for"} -> LabelsIn(st.a)
    [] st.k = "label"  -> {st.label} \cup LabelsIn(st.a)
    [] st.k = "switch" -> UNION {UNION {LabelsIn(st.cases[i].stmts[j]) : j \in DOMAIN st.cases[i].stmts} : i \in DOMAIN st.cases}
    [] OTHER           -> {}

Seeking(s) == [Turn(s) EXCEPT !.seeking = TRUE, !.flow = "NORMAL"]
GoesInto(s, st) == s.flow = "GOTO" /\ s.label \in LabelsIn(st)
PushScope(s) == [s EXCEPT !.scopes = Append(@, <<>>)]
PopScope(s)  == [s EXCEPT !.scopes = Front(@)]

(* A block from its i-th statement on; a label in it starts it over.        *)
RECURSIVE BlockFrom(_, _, _)
BlockFrom(s, st, i) ==
  LET t == Run(s, st.stmts[i])
  IN  IF i > Len(st.stmts) THEN s
      ELSE IF Stopped(t) THEN t
      ELSE IF GoesInto(t, st) THEN BlockFrom(Seeking(t), st, 1)
      ELSE IF t.flow # "NORMAL" THEN t
      ELSE BlockFrom(t, st, i + 1)

DeclareLocals(s, locals) ==
  LET done[n \in 0 .. Len(locals)] == IF n = 0 THEN s ELSE DeclareLocal(done[n - 1], locals[n], ~s.seeking) IN done[Len(locals)]

ExecBlock(s, st) == PopScope(BlockFrom(DeclareLocals(PushScope(s), st.locals), st, 1))

(* The cases of a switch from statement j of case i on, falling through.    *)
CaseHas(s, cs) == \E j \in DOMAIN cs.stmts : s.label \in LabelsIn(cs.stmts[j])

RECURSIVE CasesFrom(_, _, _, _)
CasesFrom(s, st, i, j) ==
  LET t == Run(s, st.cases[i].stmts[j])
      has == {n \in DOMAIN st.cases : CaseHas(t, st.cases[n])}
  IN  IF i > Len(st.cases) THEN s
      ELSE IF j > Len(st.cases[i].stmts) THEN CasesFrom(s, st, i + 1, 1)
      ELSE IF Stopped(t) THEN t
      ELSE IF t.flow = "GOTO" /\ has # {} THEN CasesFrom(Seeking(t), st, CHOOSE n \in has : \A m \in has : m <= n, 1)
      ELSE IF t.flow # "NORMAL" THEN t
      ELSE CasesFrom(t, st, i, j + 1)

ExecSwitch(s, st) ==
  LET c == IF s.seeking THEN s ELSE Run(s, st.c)
      n == Len(st.cases)
      chosen ==
        IF s.seeking THEN {i \in 1 .. n : CaseHas(s, st.cases[i])}
        ELSE {i \in 1 .. n : ~st.cases[i].default /\ st.cases[i].v = IntOf(c.value)}
      defaults == {i \in 1 .. n : st.cases[i].default}
      start == IF chosen # {} THEN CHOOSE i \in chosen : \A j \in chosen : i <= j
               ELSE IF ~s.seeking /\ defaults # {} THEN CHOOSE i \in defaults : \A j \in defaults : j <= i
               ELSE n + 1
      t == PopScope(CasesFrom(PushScope(c), st, start, 1))
  IN  IF Stopped(c) THEN c ELSE IF t.flow = "BREAK" THEN Flowing(t, "NORMAL") ELSE t

ExecIf(s, st) ==
  LET c == IF s.seeking THEN s ELSE Run(s, st.c)
      then == IF s.seeking THEN s.label \in LabelsIn(st.a) ELSE Truthy(c.value)
  IN  IF Stopped(c) THEN c ELSE IF then THEN Run(c, st.a) ELSE IF Absent(st.b) THEN c ELSE Run(c, st.b)

(* One turn of a loop and the turns after it.  A label in the body starts   *)
(* the next turn without the test; the step follows a continue.             *)
RECURSIVE Loop(_, _)
Loop(s, st) ==
  LET tested == ~s.seeking /\ st.k # "do" /\ ~Absent(st.c)
      c == IF tested THEN Run(s, st.c) ELSE s
      t == Run(c, st.a)
      u == Flowing(t, "NORMAL")
      v == IF st.k = "for" THEN EvalOptional(u, st.step) ELSE IF st.k = "do" THEN Run(u, st.c) ELSE u
  IN  IF Stopped(c) \/ (tested /\ ~Truthy(c.value)) THEN c
      ELSE IF Stopped(t) THEN t
      ELSE IF t.flow = "BREAK" THEN u
      ELSE IF GoesInto(t, st.a) THEN Loop(Seeking(t), st)
      ELSE IF t.flow \notin {"NORMAL", "CONTINUE"} THEN t
      ELSE IF Stopped(v) \/ (st.k = "do" /\ ~Truthy(v.value)) THEN v
      ELSE Loop(Turn(v), st)

ExecReturn(s, st) ==
  LET v == IF Absent(st.e) THEN Giving(s, Num(0)) ELSE CopyIfStruct(Run(s, st.e), st.e.t)
  IN  Flowing([v EXCEPT !.returned = v.value], "RETURN")

(* What a search passes over: a declaration still brings its name in.       *)
PassOver(s, st) ==
  IF st.k = "decl" /\ st.name \notin DOMAIN Last(s.scopes) THEN DeclareLocal(s, st, FALSE) ELSE s

ExecAny(s, st) ==
  CASE st.k = "expr"   -> EvalOptional(s, st.e)
    [] st.k = "decl"   -> DeclareLocal(s, st, TRUE)
    [] st.k = "storage" -> Declare(s, st.d, TRUE)
    [] st.k = "block"  -> ExecBlock(s, st)
    [] st.k = "if"     -> ExecIf(s, st)
    [] st.k \in {"while", "do"} -> Loop(s, st)
    [] st.k = "for"    -> Loop(IF s.seeking THEN s ELSE EvalOptional(s, st.init), st)
    [] st.k = "return" -> ExecReturn(s, st)
    [] st.k = "break"  -> Flowing(s, "BREAK")
    [] st.k = "continue" -> Flowing(s, "CONTINUE")
    [] st.k = "switch" -> ExecSwitch(s, st)
    [] st.k = "goto"   -> [Flowing(s, "GOTO") EXCEPT !.label = st.label]
    [] st.k = "label"  -> Run(IF s.label = st.label THEN [s EXCEPT !.seeking = FALSE] ELSE s, st.a)

Statements == {"expr", "decl", "storage", "block", "if", "while", "do", "for", "return", "break", "continue", "switch", "goto", "label"}

Run(s, t) ==
  After(s, IF Stopped(s) THEN s
           ELSE IF t.k \notin Statements THEN EvalAny(s, t)
           ELSE IF s.seeking /\ s.label \notin LabelsIn(t) THEN PassOver(s, t)
           ELSE ExecAny(s, t))

-----------------------------------------------------------------------------
(* The program: globals, then static locals, then main.                     *)

RECURSIVE StaticsIn(_)
StaticsIn(st) ==
  LET each(stmts) == FoldLeft(LAMBDA all, x : all \o StaticsIn(x), <<>>, stmts)
  IN  CASE st.k = "block"  -> SelectSeq(st.locals, LAMBDA d : d.static) \o each(st.stmts)
        [] st.k = "decl"   -> IF st.static THEN <<st>> ELSE <<>>
        [] st.k = "if"     -> StaticsIn(st.a) \o StaticsIn(st.b)
        [] st.k \in {"while", "do", "for", "label"} -> StaticsIn(st.a)
        [] st.k = "switch" -> FoldLeft(LAMBDA all, cs : all \o each(cs.stmts), <<>>, st.cases)
        [] OTHER           -> <<>>

Stored(s, d) == Run(s, [k |-> "storage", d |-> d])   \* d declared, known to no scope
SetGlobal(t, name)  == [t EXCEPT !.globals = (name :> t.bound) @@ @]
SetStatic(t, key)   == [t EXCEPT !.statics = (key :> t.bound) @@ @]

RECURSIVE SetGlobals(_, _)
SetGlobals(s, ds) ==
  IF ds = <<>> THEN s ELSE SetGlobals(SetGlobal(Stored(s, Head(ds)), Head(ds).name), Tail(ds))

RECURSIVE SetStatics(_, _)
SetStatics(s, ds) ==
  IF ds = <<>> THEN s ELSE SetStatics(SetStatic(Stored(s, Head(ds)), DeclKey(s, Head(ds))), Tail(ds))

RECURSIVE SetAllStatics(_, _)
SetAllStatics(s, fns) ==
  IF fns = <<>> THEN [s EXCEPT !.fn = ""]
  ELSE SetAllStatics(SetStatics([s EXCEPT !.fn = Head(fns).name], StaticsIn(Head(fns).body)), Tail(fns))

CallMain(s) == CallFunction(s, Head(FunctionNamed(s, "main")), <<>>)

(* What its user sees of a run, as in module Machine.                       *)
Shown(s) ==
  LET shown(x) == LET b == s.globals[x]
                  IN  Contents(s.heap, IF b.aggregate THEN PointerAt(b.array, 0) ELSE s.heap[b.array][1])
  IN  [output |-> s.output, returned |-> Opaque(s.value), status |-> IF Stopped(s) THEN s.status ELSE "done",
       globals |-> [x \in DOMAIN s.globals |-> shown(x)]]

Answer(prog) == Shown(Whole(CallMain(SetAllStatics(SetGlobals(Beginning(prog), prog.globals), prog.functions))))
=============================================================================
