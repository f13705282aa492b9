----------------------------- MODULE MCPrograms -----------------------------
(* The programs the optimizer's instances compile, each named for what it   *)
(* exercises.                                                               *)
EXTENDS Source

\* Inputs: arguments of f(p, q).
Once  == {<<2, 3>>}
Twice == {<<0, 3>>, <<2, 1>>}

Straight ==
  {Program("fold", <<a, b, c>>, <<
     Set(a, Bin(Bin(I(6), "MUL", I(7)), "SUB", I(2))),
     Set(b, To(Bin(I(12), "ADD", I(9)), ByteT)),
     Show(Bin(V(a), "ADD", V(b))),
     Set(c, Bin(Bin(I(-7), "DIV", I(2)), "ADD", Bin(I(-7), "MOD", I(2)))),
     Return(Cond(Not(V(c)), I(100), Bin(I(100), "MUL", I(3))))>>, Once),
   Program("trap", <<a>>, <<
     Show(V(p)), Set(a, Bin(I(8), "DIV", V(p))), Show(I(1)), Set(a, I(0)), Return(V(a))>>, Twice),
   Program("copies", <<a, b>>, <<
     Set(a, V(p)), Upd(p, "ADD", I(1)), Show(V(a)), Set(b, V(a)), Set(a, V(p)),
     Show(Bin(V(a), "SUB", V(b))), Do(Tick(b, "SUB")), Show(Bin(V(b), "MUL", V(p)))>>, Once),
   Program("globalcopy", <<a, b>>, <<
     Set(a, V(g)), Exec("bump"), Show(V(a)), Set(b, V(g)), Set(g, I(9)), Show(Bin(V(a), "ADD", V(b))),
     Set(h, V(p)), Return(V(h))>>, Once),
   Program("cse", <<a, b, c>>, <<
     Set(a, Bin(V(p), "ADD", V(q))), Set(b, Bin(V(p), "ADD", V(q))), Set(p, V(b)),
     Set(c, Bin(V(p), "ADD", V(q))), Show(To(Bin(V(p), "ADD", V(q)), ByteT)),
     Show(Bin(Bin(V(a), "MUL", V(b)), "SUB", V(c)))>>, Once),
   Program("deadstores", <<a, b>>, <<
     Set(g, I(1)), Set(a, V(g)), Set(a, Bin(V(p), "LT", V(q))), Set(g, V(a)),
     Set(b, CallOf("putchar", <<V(a)>>)), Set(b, I(3)), Return(V(p))>>, Once)}

Branches ==
  {Program("merge", <<a, b>>, <<
     IfElse(V(p), Set(a, I(2)), Set(a, I(2))), Show(V(a)), Set(b, I(5)),
     If(V(p), Set(b, V(p))), Show(V(b)), If(V(q), Set(p, I(3))), Return(V(p))>>, Twice),
   Program("unsetlocal", <<c>>, <<
     If(V(p), Goto("in")), Block(<<Var(IntT, a, I(4)), Mark("in", Set(c, V(a))), Show(V(a))>>),
     Return(V(c))>>, Twice),
   Program("constbranches", <<a>>, <<
     IfElse(Bin(I(2), "LT", I(1)), Show(I(1)), Show(I(2))), While(I(0), Show(I(3))),
     Set(a, I(0)), If(V(a), Show(I(4))), DoWhile(Show(I(5)), I(0)),
     IfElse(I(1), Show(I(6)), Show(I(7)))>>, Once),
   Program("afterreturn", <<>>, <<
     If(V(p), Block(<<Show(I(1)), Return(I(1)), Show(I(2))>>)), While(I(1), Block(<<Show(V(q)), Break, Show(I(3))>>)),
     Return(I(4)), Show(I(5))>>, Twice),
   Program("logical", <<a, b>>, <<
     If(Or(And(V(p), Bin(Bin(I(6), "DIV", V(p)), "GT", I(1))), Not(V(q))), Show(I(1))),
     Set(a, Or(V(p), V(q))), Set(b, And(Not(V(p)), Bin(V(q), "GT", I(2)))), Show(Bin(V(a), "SUB", V(b)))>>, Twice),
   Program("switch", <<>>, <<
     Switch(V(p), <<Case(0, Show(I(1))), Default(Block(<<Show(I(2)), Break>>)), Case(2, Block(<<Show(I(3)), Break>>))>>),
     Switch(I(1), <<Case(1, Break), Case(3, Show(I(4)))>>), Return(V(p))>>, Twice),
   Program("irreducible", <<a, i>>, <<
     If(V(p), Goto("mid")), Mark("top", Set(a, Bin(V(q), "MUL", I(2)))), Show(V(a)),
     Mark("mid", Do(Tick(i, "ADD"))), If(Bin(V(i), "LT", I(2)), Goto("top")), Return(V(a))>>, Twice),
   Program("spin", <<>>, <<
     If(Bin(V(p), "GT", I(9)), Mark("self", Goto("self"))), Show(V(p))>>, Once)}

Loops ==
  {Program("multiples", <<i>>, <<
     UpTo(i, I(3), Block(<<Show(Bin(V(i), "MUL", I(4))), Show(Bin(I(3), "MUL", V(i))),
                          Show(Bin(V(i), "MUL", I(4)))>>)), Return(V(i))>>, Once),
   Program("countdown", <<a, i>>, <<
     For(AssignTo(i, I(3)), Bin(V(i), "GT", I(0)), [Tick(i, "SUB") EXCEPT !.pre = TRUE], Block(<<
        Upd(a, "ADD", Bin(V(i), "MUL", I(5))), If(Bin(V(a), "GT", I(20)), Continue), Show(V(a)), Continue>>)),
     Return(V(a))>>, Once),
   Program("wrapping", <<i>>, <<
     Set(i, I(120)), While(Bin(V(i), "GT", I(0)), Block(<<Show(Bin(V(i), "MUL", I(3))), Upd(i, "ADD", I(3))>>))>>, Once),
   Program("zerotrip", <<a, b, i>>, <<
     Set(a, I(1)), While(Bin(V(i), "LT", V(p)), Block(<<
        Set(a, Bin(V(q), "MUL", I(2))), Upd(b, "ADD", V(a)), Do(Tick(i, "ADD"))>>)),
     Show(V(a)), Return(V(b))>>, Twice),
   Program("globalloop", <<a, i>>, <<
     UpTo(i, V(p), Block(<<Exec("bump"), Set(a, Bin(V(g), "MUL", I(2))), Set(h, V(q)), Show(V(a))>>))>>, Twice),
   Program("nested", <<a, i, j>>, <<
     UpTo(i, I(3), UpTo(j, V(p), Block(<<
        Set(a, Bin(V(q), "ADD", I(1))), If(Bin(V(j), "EQ", V(i)), Break), Show(Bin(V(i), "MUL", V(a)))>>)))>>, Twice),
   Program("chain", <<>>, <<
     While(Bin(V(p), "GT", I(0)), Block(<<
        IfElse(Bin(V(p), "EQ", I(2)), Block(<<Upd(p, "SUB", I(1)), Continue>>), If(V(q), Break)), Upd(p, "SUB", I(1))>>)),
     Show(V(p))>>, Twice),
   Program("threaded", <<i>>, <<
     While(V(p), Block(<<
        Upd(p, "SUB", I(1)),
        While(Bin(V(i), "LT", V(p)), Block(<<Do(Tick(i, "ADD")), If(Bin(V(i), "EQ", V(q)), Show(V(i)))>>))>>)),
     Return(V(i))>>, Twice),
   Program("dowhile", <<i>>, <<
     DoWhile(Block(<<Do(Tick(i, "ADD")), If(Bin(V(i), "EQ", V(p)), Continue), Show(V(i))>>),
             And(Bin(V(i), "LT", I(3)), V(q)))>>, Twice),
   Program("recursion", <<a>>, <<
     If(Bin(V(p), "LE", I(0)), Return(V(q))),
     Set(a, CallOf("f", <<Bin(V(p), "SUB", I(1)), Bin(V(q), "ADD", V(p))>>)), Show(V(a)), Return(V(a))>>, Twice)}

SSAShapes ==
  {Program("swap", <<a, b, c, i>>, <<
     Set(a, I(1)), Set(b, I(2)),
     UpTo(i, V(p), Block(<<Set(c, V(a)), Set(a, V(b)), Set(b, V(c))>>)), Show(V(a)), Show(V(b))>>, Twice),
   Program("lostcopy", <<a, b, i>>, <<
     Set(a, I(0)), Set(b, I(0)), UpTo(i, V(p), Block(<<Set(b, V(a)), Upd(a, "ADD", I(1))>>)),
     Return(Bin(Bin(V(a), "MUL", I(10)), "ADD", V(b)))>>, Twice),
   Program("deadcycle", <<a, c, i>>, <<
     UpTo(i, V(p), Block(<<Upd(c, "ADD", Bin(V(i), "MUL", I(3))), Upd(a, "ADD", V(i))>>)), Return(V(a))>>, Twice),
   Program("loopconstant", <<a, b, c, i>>, <<
     Set(a, I(7)), UpTo(i, V(p), Block(<<If(Bin(V(a), "NE", I(7)), Upd(a, "ADD", I(1))), Upd(b, "ADD", V(a)),
                            If(Bin(V(a), "EQ", I(7)), Upd(c, "ADD", V(i)))>>)),
     Return(Bin(V(b), "SUB", V(c)))>>, Twice),
   Program("crossblock", <<a, b>>, <<
     Set(a, Bin(V(p), "MUL", V(q))),
     IfElse(Bin(V(q), "GT", I(0)), Set(b, Bin(Bin(V(q), "MUL", V(p)), "ADD", I(1))),
                                   Set(b, Bin(Bin(V(p), "MUL", V(q)), "SUB", I(1)))),
     Show(Bin(V(a), "ADD", V(b)))>>, Twice),
   Program("traphoist", <<i>>, <<
     UpTo(i, V(p), Block(<<Show(V(i)), If(V(i), Show(Bin(V(q), "DIV", V(p)))), Show(Bin(V(q), "DIV", I(2)))>>))>>, Twice)}

Correct == Straight \cup Branches \cup Loops \cup SSAShapes

(* Every small program of one shape: a statement, a loop of two statements  *)
(* and its counter, and the values shown at the end.                        *)
Setups == {Set(a, V(b)), Set(b, V(a)), Set(a, V(g)), Set(a, Bin(V(q), "MUL", I(2)))}

Statements ==
  Setups \cup {Set(b, Bin(V(i), "MUL", I(3))), Exec("bump"), Set(g, V(b)), If(V(a), Show(V(b)))}

Small ==
  {Program("small", <<a, b, i>>, <<
     first, While(Bin(V(i), "LT", V(p)), Block(<<second, third, Do(Tick(i, "ADD"))>>)), Show(V(a)), Return(V(b))>>, Once) :
     first \in Setups, second \in Statements, third \in Statements}

-----------------------------------------------------------------------------
(* Programs the code miscompiles or never settles on. *)

\* if (p) {} as the last statement of a loop.
EmptyThenInLoop ==
  Program("emptythen", <<>>, <<
    While(V(p), Block(<<Upd(p, "SUB", I(1)), Show(V(p)), If(Bin(V(p), "EQ", V(q)), Block(<<>>))>>))>>, Once)

\* A branch on a constant with nothing to skip.
EmptyThenOnConstant ==
  Program("emptyconst", <<>>, <<Show(I(1)), If(I(1), Block(<<>>)), Show(I(2)), Return(I(7))>>, Once)

\* An expression over a global, computed again after a call that writes it.
ExpressionAcrossCall ==
  Program("exprcall", <<a, b>>, <<
    Set(a, Bin(V(g), "ADD", I(1))), Exec("bump"), Set(b, Bin(V(g), "ADD", I(1))), Show(Bin(V(b), "SUB", V(a)))>>, Once)

\* A global that counts a loop whose body calls a function that writes it.
GlobalCounter ==
  Program("globalcounter", <<>>, <<
    For(AssignTo(g, I(0)), Bin(V(g), "LT", I(6)), Tick(g, "ADD"), Block(<<Show(Bin(V(g), "MUL", I(5))), Exec("bump")>>))>>, Once)

\* A store nothing reads, in a block nothing reaches.
DeadStoreAfterReturn ==
  Program("deadstore", <<a>>, <<
    If(V(p), Block(<<Show(I(1)), Return(I(1)), Set(a, I(2))>>)), Return(I(4))>>, Once)

\* A copy of a name to itself.
SelfCopy == Program("selfcopy", <<a>>, <<Set(a, V(a)), Show(V(a))>>, Once)

-----------------------------------------------------------------------------
(* The programs the engines run; their main is called with nothing and      *)
(* prints what it finds.                                                    *)

(* Structs: a pair, a list, and one that holds a pair and an array.         *)
PairT  == StructT("pair")
NodeT  == StructT("node")
FrameT == StructT("frame")
Field(f, T) == [name |-> f, type |-> T]

Layouts ==
  LET pair == [pair |-> LayOut(<<>>, <<Field("x", IntT), Field("y", CharT)>>)]
      node == [node |-> LayOut(pair, <<Field("val", IntT), Field("next", PointerTo(NodeT))>>)] @@ pair
  IN  [frame |-> LayOut(node, <<Field("tag", CharT), Field("at", PairT), Field("row", ArrayOf(IntT, <<2>>))>>)] @@ node

k == "k"
n == "n"
r == "r"
s == "s"
t == "t"
u == "u"
x == "x"
Main(stmts) == Function(IntT, "main", <<>>, <<Local0(i), Local0(j)>> \o Append(stmts, Return(I(0))))
Unit(globals, functions) == [globals |-> globals, functions |-> functions]
JustMain(stmts) == Unit(<<>>, <<Main(stmts)>>)
Number(name, e) == Var(IntT, name, e)
Row(name, es)   == List(ArrayOf(IntT, <<Len(es)>>), name, es)
IntPtr == PointerTo(IntT)
Sum(l, e) == Bin(l, "ADD", e)
Less(l, e) == Bin(l, "SUB", e)

(* The optimizer's programs, called on their inputs.                        *)
Calling(prog) ==
  LET made == Parsed(prog)
      args == SetToSeq(prog.inputs)
      call(in) == CallOf("f", <<I(in[1]), I(in[2])>>)
  IN  [made EXCEPT !.functions = Append(@, Main([m \in DOMAIN args |->
         IF made.functions[1].ret = VoidT THEN Do(call(args[m])) ELSE Show(call(args[m]))]))]

(* Narrow and unsigned types, and the conversions between them.             *)
Narrowing ==
  [compound |-> JustMain(<<Var(CharT, k, I(5)), Var(ByteT, u, I(9)), Var(UnsignedT, n, I(0)),
     Upd(k, "ADD", I(4)), Show(V(k)), Upd(u, "MUL", I(3)), Show(V(u)), Do(Inc(V(u), "SUB", TRUE)),
     Upd(n, "SUB", I(1)), Show(Bin(V(n), "GT", I(1))), Show(Bin(V(k), "LT", V(u)))>>),
   shifted |-> JustMain(<<Var(CharT, k, Un("NEG", I(7))), Var(ByteT, u, I(10)),
     Upd(k, "SHL", I(1)), Show(V(k)), Do(Tick(k, "ADD")), Show(V(k)), Upd(u, "DIV", V(k)), Show(V(u))>>),
   converting |-> Unit(<<>>, <<
     Function(CharT, "low", <<Param(IntT, x)>>, <<Return(V(x))>>),
     Function(IntT, "wide", <<Param(ByteT, x)>>, <<Upd(x, "ADD", I(1)), Return(V(x))>>),
     Main(<<Show(CallOf("low", <<I(25)>>)), Show(CallOf("wide", <<I(31)>>)), Show(To(I(-1), ByteT)),
            Var(LongT, n, Sum(I(100), U(100))), Show(V(n)), Show(Un("NEG", U(1))), Show(Un("BITNOT", To(I(3), CharT))),
            Show(Cond(I(1), To(I(-1), IntT), U(0)))>>)>>)]

(* Pointers and arrays.                                                     *)
Pointers ==
  [exchange |-> Unit(<<>>, <<
     Function(VoidT, "exchange", <<Param(IntPtr, p), Param(IntPtr, q)>>,
       <<Number(t, Deref(V(p))), Put(Deref(V(p)), Deref(V(q))), Put(Deref(V(q)), V(t))>>),
     Main(<<Number(a, I(3)), Number(b, I(4)), Do(CallOf("exchange", <<Addr(V(a)), Addr(V(b))>>)), Show(Less(V(a), V(b)))>>)>>),
   walk |-> JustMain(<<Row(a, <<I(4), I(5), I(6), I(0)>>), Var(IntPtr, p, V(a)), Number(s, I(0)),
     While(Deref(V(p)), Do(AssignOp(V(s), "ADD", Deref(Inc(V(p), "ADD", FALSE))))),
     Show(V(s)), Show(Less(V(p), V(a))), Put(At(V(p), I(-1)), I(9)), Show(Item(a, I(2))),
     Upd(p, "SUB", I(2)), Show(Bin(Addr(Item(a, I(1))), "EQ", V(p))), Show(Deref(Sum(I(1), V(p))))>>),
   twice |-> JustMain(<<Number(a, I(2)), Var(IntPtr, p, Addr(V(a))), Var(PointerTo(IntPtr), q, Addr(V(p))),
     Put(Deref(Deref(V(q))), I(7)), Show(V(a)), Set(p, I(0)), Show(Not(Deref(V(q))))>>),
   once |-> Unit(<<Number(g, I(0)), Var(ArrayOf(IntT, <<3>>), "mem", NoTree)>>, <<
     Function(IntT, "next", <<>>, <<Return(Inc(V(g), "ADD", FALSE))>>),
     Main(<<Do(Inc(Item("mem", CallOf("next", <<>>)), "ADD", FALSE)), Do(AssignOp(Item("mem", CallOf("next", <<>>)), "ADD", I(5))),
            Put(Item("mem", V(g)), Sum(Item("mem", I(0)), Item("mem", I(1)))), Show(Item("mem", I(2))), Show(V(g))>>)>>),
   grid |-> JustMain(<<List(ArrayOf(IntT, <<2, 2>>), a, <<I(1), I(2), I(3), I(4)>>), Number(s, I(0)),
     UpTo(i, I(2), UpTo(j, I(2), Upd(s, "ADD", Bin(At(Item(a, V(i)), V(j)), "MUL", Sum(V(i), V(j)))))),
     Show(V(s)), Var([PointerTo(IntT) EXCEPT !.dims = <<2>>], r, Sum(V(a), I(1))), Show(At(Deref(V(r)), I(1))), Show(Less(V(r), V(a)))>>),
   zeroed |-> JustMain(<<UpTo(i, I(2), Block(<<List(ArrayOf(IntT, <<3>>), a, <<V(i)>>), Show(Sum(Item(a, I(0)), Item(a, I(2)))),
     Put(Item(a, I(2)), I(8))>>))>>),
   text |-> JustMain(<<Var(PointerTo(CharT), s, Text(<<3, 1, 2>>)), Number(n, I(0)),
     While(At(V(s), V(n)), Do(Tick(n, "ADD"))), Show(V(n)), Show(Deref(Sum(V(s), I(1))))>>)]

(* Structs: copied, passed and returned by value, reached through pointers. *)
Aggregates ==
  [byvalue |-> Unit(<<Var(PairT, g, NoTree)>>, <<
     Function(PairT, "bumped", <<Param(PairT, p)>>,
       <<Do(AssignOp(Dot(V(p), "x"), "ADD", I(1))), Put(Dot(V(p), "y"), I(20)), Return(V(p))>>),
     Main(<<List(PairT, a, <<I(1), I(2)>>), Var(PairT, b, CallOf("bumped", <<V(a)>>)),
            Show(Dot(V(a), "x")), Show(Dot(V(b), "x")), Show(Dot(V(b), "y")), Set(g, V(b)), Put(Dot(V(b), "x"), I(9)),
            Show(Dot(CallOf("bumped", <<V(g)>>), "x")), Set(a, Cond(Dot(V(a), "x"), V(g), V(b))), Show(Dot(V(a), "x"))>>)>>),
   nested |-> JustMain(<<Var(FrameT, r, NoTree), Var(PointerTo(FrameT), p, Addr(V(r))), Put(Dot(V(r), "tag"), I(3)),
     Put(Dot(Arrow(V(p), "at"), "x"), I(5)), Do(Inc(Dot(Dot(V(r), "at"), "y"), "SUB", TRUE)), Put(At(Arrow(V(p), "row"), I(1)), I(6)),
     Show(Sum(Dot(Dot(V(r), "at"), "x"), Dot(Dot(V(r), "at"), "y"))), Show(At(Dot(V(r), "row"), I(1)))>>),
   list |-> Unit(<<>>, <<
     Function(IntT, "total", <<Param(PointerTo(NodeT), p)>>, <<
       If(Not(V(p)), Return(I(0))), Return(Sum(Arrow(V(p), "val"), CallOf("total", <<Arrow(V(p), "next")>>)))>>),
     Main(<<Var(NodeT, a, NoTree), Var(NodeT, b, NoTree), Put(Dot(V(a), "val"), I(4)), Put(Dot(V(a), "next"), Addr(V(b))),
            Put(Dot(V(b), "val"), I(5)), Show(CallOf("total", <<Addr(V(a))>>)), Put(Arrow(Dot(V(a), "next"), "val"), I(1)), Show(Dot(V(b), "val"))>>)>>),
   table |-> JustMain(<<List(ArrayOf(PairT, <<2>>), a, <<I(1), I(2), I(3), I(4)>>), Var(PointerTo(PairT), p, V(a)), Do(Inc(V(p), "ADD", TRUE)),
     Show(Arrow(V(p), "x")), Number(b, Dot(Item(a, I(0)), "y")), Put(Item(a, I(0)), Deref(V(p))), Show(Sum(V(b), Dot(Item(a, I(0)), "x"))),
     Show(Less(V(p), V(a)))>>)]

(* Control: what leaves, repeats or enters a statement in the middle.       *)
Control ==
  [leaving |-> JustMain(<<UpTo(i, I(4), Block(<<
     Switch(V(i), <<Case(1, Continue), Case(2, Break), Default(Show(I(7))), Case(3, Show(V(i)))>>), Show(Sum(V(i), I(20)))>>))>>),
   turns |-> JustMain(<<DoWhile(Block(<<Do(Tick(i, "ADD")), If(Bin(V(i), "LT", I(2)), Continue), Show(V(i)), If(Bin(V(i), "EQ", I(3)), Break)>>),
     Bin(V(i), "LT", I(9))), For(NoTree, NoTree, Tick(j, "ADD"), Block(<<If(Bin(V(j), "GT", I(2)), Break), If(V(j), Continue), Show(V(j))>>))>>),
   outof |-> JustMain(<<UpTo(i, I(3), UpTo(j, I(3), If(Bin(Bin(V(i), "MUL", V(j)), "EQ", I(2)), Goto("found")))), Show(I(-1)),
     Mark("found", Show(Sum(Bin(V(i), "MUL", I(4)), V(j))))>>),
   into |-> JustMain(<<Number(n, I(0)), Goto("body"), While(Bin(V(n), "LT", I(3)), Block(<<Show(V(n)), Mark("body", Do(Tick(n, "ADD"))),
     If(Bin(V(n), "EQ", I(2)), Goto("last")), Show(I(9)), Mark("last", Do(NoTree))>>)), Show(V(n))>>),
   cases |-> JustMain(<<Number(n, I(0)), Mark("again", Do(Tick(n, "ADD"))), Switch(V(n), <<Case(1, Goto("three")), Default(Show(I(6))),
     Case(3, Mark("three", Show(V(n)))), Case(5, Break)>>), If(Bin(V(n), "LT", I(5)), Goto("again"))>>),
   effects |-> JustMain(<<Number(n, I(0)), If(And(V(n), Inc(V(n), "ADD", TRUE)), Show(I(1))), If(Or(Inc(V(n), "ADD", TRUE), Tick(n, "ADD")), Show(V(n))),
     Show(Comma(AssignTo(i, I(3)), Sum(V(i), I(1)))), Show(Cond(Bin(V(n), "GT", I(1)), Tick(n, "ADD"), Tick(n, "SUB"))), Show(V(n))>>),
   chained |-> JustMain(<<Number(n, I(1)), Set(i, I(3)),
     Show(Not(Or(V(n), And(V(i), V(j))))), Set(i, AssignTo(n, Tick(j, "ADD"))), Show(V(i))>>),
   counting |-> Unit(<<>>, <<
     Function(IntT, "count", <<>>, <<Static(Number(n, I(5))), Return(Inc(V(n), "ADD", TRUE))>>),
     Function(IntT, "fact", <<Param(IntT, x)>>, <<Number(n, V(x)), If(Bin(V(x), "LE", I(1)), Return(I(1))),
       Return(Bin(CallOf("fact", <<Less(V(x), I(1))>>), "MUL", V(n)))>>),
     Main(<<Show(CallOf("count", <<>>)), Block(<<Number(n, I(1)), Block(<<Number(n, Sum(V(n), I(1))), Show(V(n))>>), Show(V(n))>>),
            Show(CallOf("fact", <<I(4)>>)), Show(CallOf("count", <<>>))>>)>>)]

(* Where C leaves no meaning the run stops, in the middle of a call.        *)
Stopping(name, e) ==
  Unit(<<Var(ArrayOf(IntT, <<2>>), "mem", NoTree)>>, <<
    Function(IntT, "stop", <<Param(IntT, x), Param(IntPtr, p)>>, <<Show(V(x)), Number(a, I(3)), Return(e)>>),
    Main(<<Set(i, CallOf("stop", <<CallOf("stop", <<I(1), Addr(V(j))>>), I(0)>>)), Show(V(i))>>)>>)

Faults ==
  [null  |-> Stopping("null", Deref(V(p))),
   bound |-> Stopping("bound", Item("mem", Sum(V(x), I(1)))),
   zero  |-> Stopping("zero", Bin(I(6), "MOD", Less(V(x), I(1)))),
   shift |-> Stopping("shift", Bin(V(x), "SHL", Sum(V(x), I(4)))),
   apart |-> Stopping("apart", Bin(V(p), "LT", Addr(V(a)))),
   apart2 |-> Stopping("apart2", Less(Addr(V(a)), V("mem")))]

Chosen ==
  [name \in {prog.name : prog \in Correct} \ {"spin"} |->
     Calling(CHOOSE prog \in Correct : prog.name = name)]

MCProgramSet == Narrowing @@ Pointers @@ Aggregates @@ Control @@ Faults @@ Chosen

-----------------------------------------------------------------------------
(* Programs on which the engines, or the types and the values, disagree. *)

\* The address of one function's local is taken; another's of the same name and offset is a plain number.
BoxesLeak ==
  [boxesleak |-> Unit(<<>>, <<
     Function(IntT, "f", <<>>, <<Number(x, I(1)), Var(IntPtr, p, Addr(V(x))), Return(Deref(V(p)))>>),
     Function(IntT, "g", <<>>, <<Number(x, I(4)), Return(V(x))>>),
     Main(<<Show(CallOf("f", <<>>)), Show(CallOf("g", <<>>))>>)>>)]

\* A call that returns nothing, added to a pointer.
VoidOperand ==
  [voidoperand |-> Unit(<<>>, <<
     Function(VoidT, "quiet", <<>>, <<Show(I(1))>>),
     Main(<<Row(a, <<I(4), I(5)>>), Var(IntPtr, p, V(a)), Do(AssignOp(V(p), "ADD", CallOf("quiet", <<>>))), Show(Deref(V(p)))>>)>>)]

\* A struct, added to a pointer.
StructOperand ==
  [structoperand |-> JustMain(<<Var(PairT, s, NoTree), Row(a, <<I(4), I(5)>>), Var(IntPtr, p, V(a)),
     Do(AssignOp(V(p), "ADD", V(s))), Show(Deref(V(p)))>>)]

\* The elements of an unsigned char array, given as a list.
NarrowArray == [narrowarray |-> JustMain(<<List(ArrayOf(ByteT, <<2>>), a, <<I(12), I(3)>>), Show(Item(a, I(0)))>>)]

\* A variable read before a call in the same expression changes it.
LateRead ==
  [lateread |-> Unit(<<Number(g, I(1))>>, <<
     Function(IntT, "bumped", <<>>, <<Upd(g, "ADD", I(1)), Return(I(10))>>),
     Main(<<Show(Sum(V(g), CallOf("bumped", <<>>)))>>)>>)]

\* A goto past the declaration of an array.
PastDeclaration ==
  [pastdeclaration |-> JustMain(<<If(Not(V(i)), Goto("in")), Block(<<Var(ArrayOf(IntT, <<2>>), a, NoTree), Mark("in", Show(Item(a, I(0))))>>)>>)]
=============================================================================
