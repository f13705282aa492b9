-------------------------------- MODULE Source --------------------------------
(* Constructors of the syntax trees the parser hands to semantic analysis,  *)
(* for the programs of the instances.                                       *)
EXTENDS Types

a == "a"
b == "b"
c == "c"
i == "i"
j == "j"
p == "p"
q == "q"
g == "g"
h == "h"
mem == "mem"

(* Expressions *)
I(v)      == [k |-> "int", v |-> v, unsigned |-> FALSE]
U(v)      == [k |-> "int", v |-> v, unsigned |-> TRUE]
Text(v)   == [k |-> "str", v |-> v]
V(x)      == [k |-> "ident", name |-> x]
At(e, n)  == [k |-> "index", b |-> e, i |-> n]
Item(x, n) == At(V(x), n)
Dot(e, f) == [k |-> "member", b |-> e, field |-> f, arrow |-> FALSE]
Arrow(e, f) == [k |-> "member", b |-> e, field |-> f, arrow |-> TRUE]
Bin(l, op, r) == [k |-> "bin", op |-> op, l |-> l, r |-> r]
Un(op, e) == [k |-> "un", op |-> op, l |-> e]
Not(e)    == Un("NOT", e)
Addr(e)   == Un("ADDR", e)
Deref(e)  == Un("DEREF", e)
To(e, T)  == [k |-> "cast", l |-> e, to |-> T]
And(l, r) == Bin(l, "LOGAND", r)
Or(l, r)  == Bin(l, "LOGOR", r)
Cond(e, l, r) == [k |-> "cond", c |-> e, l |-> l, r |-> r]
Comma(l, r) == [k |-> "comma", l |-> l, r |-> r]
CallOf(f, args) == [k |-> "call", f |-> f, args |-> args]
AssignOp(l, op, r) == [k |-> "assign", op |-> op, l |-> l, r |-> r]
Inc(e, op, pre) == [k |-> "inc", op |-> op, pre |-> pre, l |-> e]
AssignTo(x, e) == AssignOp(V(x), "ASSIGN", e)
Tick(x, op)    == Inc(V(x), op, FALSE)

(* Statements *)
Do(e)     == [k |-> "expr", e |-> e]
Set(x, e) == Do(AssignTo(x, e))
Put(l, e) == Do(AssignOp(l, "ASSIGN", e))
Upd(x, op, e) == Do(AssignOp(V(x), op, e))
Show(e)   == Do(CallOf("print_int", <<e>>))
Exec(f)   == Do(CallOf(f, <<>>))
Block(stmts) == [k |-> "block", locals |-> <<>>, stmts |-> stmts]
If(e, s)  == [k |-> "if", c |-> e, a |-> s, b |-> NoTree]
IfElse(e, s, t) == [k |-> "if", c |-> e, a |-> s, b |-> t]
While(e, s) == [k |-> "while", c |-> e, a |-> s]
DoWhile(s, e) == [k |-> "do", c |-> e, a |-> s]
For(init, e, step, s) == [k |-> "for", init |-> init, c |-> e, step |-> step, a |-> s]
UpTo(x, n, s) == For(AssignTo(x, I(0)), Bin(V(x), "LT", n), Tick(x, "ADD"), s)
Switch(e, cases) == [k |-> "switch", c |-> e, cases |-> cases]
Case(v, s) == [v |-> v, default |-> FALSE, stmts |-> <<s>>]
Default(s) == [v |-> 0, default |-> TRUE, stmts |-> <<s>>]
Return(e) == [k |-> "return", e |-> e]
Break     == [k |-> "break"]
Continue  == [k |-> "continue"]
Goto(l)   == [k |-> "goto", label |-> l]
Mark(l, s)  == [k |-> "label", label |-> l, a |-> s]

(* Declarations *)
Var(T, x, e)   == [k |-> "decl", name |-> x, type |-> T, static |-> FALSE, init |-> e, list |-> <<>>]
List(T, x, es) == [Var(T, x, NoTree) EXCEPT !.list = es]
Local0(x)      == Var(IntT, x, NoTree)
Static(d)      == [d EXCEPT !.static = TRUE]
Function(ret, name, params, stmts) ==
  [name |-> name, ret |-> ret, params |-> params, body |-> Block(stmts)]
Param(T, x) == [name |-> x, type |-> T]

(* What the programs print with.                                            *)
Output ==
  [f \in {"print_int", "putchar"} |-> [params |-> <<IntT>>, ret |-> IF f = "putchar" THEN IntT ELSE VoidT]]

(* f(p, q), which has some int variables and returns one if its last word   *)
(* is a return, with the globals g, h and mem, and bump(), which adds 1 to g. *)
Program(name, locals, body, inputs) == [name |-> name, locals |-> locals, body |-> body, inputs |-> inputs]

Globals == <<Var(IntT, g, I(5)), Local0(h), Var(ArrayOf(IntT, <<3>>), mem, NoTree)>>
Bump    == Function(VoidT, "bump", <<>>, <<Upd(g, "ADD", I(1))>>)

Parsed(t) ==
  LET ret == IF \E n \in DOMAIN t.body : t.body[n].k = "return" THEN IntT ELSE VoidT
      decls == [n \in DOMAIN t.locals |-> Local0(t.locals[n])]
  IN  [globals |-> Globals,
       functions |-> <<Function(ret, "f", <<Param(IntT, p), Param(IntT, q)>>, decls \o t.body), Bump>>]
=============================================================================
