------------------------------- MODULE MCParser -------------------------------
(***************************************************************************)
(* An instance of Parser and Grammar: files that are in order, which have to *)
(* be parsed as they were written, and files with one thing wrong in them.  *)
(***************************************************************************)
EXTENDS Grammar

-----------------------------------------------------------------------------
(* The words of a syntax tree: the grammar read from the other side, for    *)
(* checking that what is parsed is what was written.  Parentheses stand     *)
(* only where the levels of the operators call for them.                    *)

(* A literal is written as its value.                                       *)
LiteralWord(e) == IF e.k = "str" THEN ToString(e.v) ELSE IF e.unsigned THEN ToString(e.v) \o "u" ELSE ToString(e.v)

Comma == <<",">>
Parted(parts, by) ==
  FoldLeft(LAMBDA ws, n : ws \o (IF n = 1 THEN <<>> ELSE by) \o parts[n], <<>>, [n \in DOMAIN parts |-> n])
Bracketed(l, ws, r) == <<l>> \o ws \o <<r>>
WordFor(ops, name) == CHOOSE w \in DOMAIN ops : ops[w] = name
BinaryWord(name) == CHOOSE w \in DOMAIN BinaryOps : BinaryOps[w].name = name

(* The binary operators of C, from those that bind least.                   *)
Levels ==
  <<{"LOGOR"}, {"LOGAND"}, {"BITOR"}, {"BITXOR"}, {"BITAND"}, {"EQ", "NE"}, {"LT", "LE", "GT", "GE"}, {"SHL", "SHR"},
    {"ADD", "SUB"}, {"MUL", "DIV", "MOD"}>>

(* From the comma, which binds least, to what needs no parentheses.         *)
LevelOf(e) ==
  CASE e.k = "comma"  -> 0
    [] e.k = "assign" -> 1
    [] e.k = "cond"   -> 2
    [] e.k = "bin"    -> 2 + CHOOSE n \in DOMAIN Levels : e.op \in Levels[n]
    [] e.k = "cast"   -> 13
    [] e.k \in {"un", "sizeof"} \/ (e.k = "inc" /\ e.pre) -> 14
    [] OTHER          -> 15

TypeWords(T) ==
  (IF T.base \in {"U8", "U16", "U32", "U64"} THEN <<"unsigned">> ELSE <<>>)
    \o (CASE T.base \in {"I8", "U8"} -> <<"char">>
          [] T.base \in {"I16", "U16"} -> <<"short">>
          [] T.base \in {"I32", "U32"} -> <<"int">>
          [] T.base \in {"I64", "U64"} -> <<"long">>
          [] T.base = "VOID" -> <<"void">>
          [] T.base = "STRUCT" -> <<"struct", T.struct>>)
Stars(T) == [n \in 1 .. T.ptr |-> "*"]

(* A length left out is -1; that of a row is told by the pointer to it.     *)
Dims(T) ==
  FoldLeft(LAMBDA ws, d : ws \o (IF d = -1 THEN <<"[", "]">> ELSE <<"[", ToString(d), "]">>), <<>>, IF T.array THEN T.dims ELSE <<>>)
Named(T, name) == TypeWords(T) \o Stars(T) \o <<name>> \o Dims(T)

(* The words of e where an expression of level n or more may stand.         *)
RECURSIVE WordsOf(_, _)
WordsOf(e, n) ==
  LET level == LevelOf(e)
      plain ==
        CASE e.k \in {"int", "str"} -> <<LiteralWord(e)>>
          [] e.k = "ident"  -> <<e.name>>
          [] e.k = "index"  -> WordsOf(e.b, 15) \o Bracketed("[", WordsOf(e.i, 0), "]")
          [] e.k = "member" -> WordsOf(e.b, 15) \o <<IF e.arrow THEN "->" ELSE ".", e.field>>
          [] e.k = "call"   -> <<e.f>> \o Bracketed("(", Parted([m \in DOMAIN e.args |-> WordsOf(e.args[m], 1)], Comma), ")")
          [] e.k = "un"     -> <<WordFor(UnaryOps, e.op)>> \o WordsOf(e.l, 13)
          [] e.k = "cast"   -> Bracketed("(", TypeWords(e.to) \o Stars(e.to), ")") \o WordsOf(e.l, 13)
          [] e.k = "sizeof" -> <<"sizeof">> \o WordsOf(e.l, 14)
          [] e.k = "inc"    -> IF e.pre THEN <<WordFor(StepOps, e.op)>> \o WordsOf(e.l, 14)
                               ELSE WordsOf(e.l, 15) \o <<WordFor(StepOps, e.op)>>
          [] e.k = "bin"    -> WordsOf(e.l, level) \o <<BinaryWord(e.op)>> \o WordsOf(e.r, level + 1)
          [] e.k = "cond"   -> WordsOf(e.c, 3) \o Bracketed("?", WordsOf(e.l, 0), ":") \o WordsOf(e.r, 2)
          [] e.k = "assign" -> WordsOf(e.l, 14) \o <<WordFor(AssignOps, e.op)>> \o WordsOf(e.r, 1)
          [] e.k = "comma"  -> WordsOf(e.l, 0) \o Comma \o WordsOf(e.r, 1)
          [] e.k = "none"   -> <<>>
  IN  IF level < n THEN Bracketed("(", plain, ")") ELSE plain

Expr(e) == WordsOf(e, 0)

(* The expressions of a list between the braces of the aggregates of T, as   *)
(* [words, and what is left of the list].                                   *)
RECURSIVE Braced(_, _, _)
Braced(table, T, es) ==
  IF ~IsAggregate(T) THEN [words |-> WordsOf(Head(es), 1), left |-> Tail(es)]
  ELSE
    LET parts == IF T.array THEN [n \in 1 .. Head(T.dims) |-> PointeeOf(T)]
                 ELSE [n \in DOMAIN table[T.struct].fields |-> table[T.struct].fields[n].type]
        all == FoldLeft(LAMBDA w, P :
                 IF w.left = <<>> THEN w
                 ELSE LET o == Braced(table, P, w.left)
                      IN  [words |-> w.words \o (IF w.words = <<>> THEN <<>> ELSE Comma) \o o.words, left |-> o.left],
                 [words |-> <<>>, left |-> es], parts)
    IN  [all EXCEPT !.words = Bracketed("{", @, "}")]

DeclarationWords(table, d) ==
  (IF d.static THEN <<"static">> ELSE <<>>) \o Named(d.type, d.name)
    \o (IF d.list # <<>> THEN <<"=">> \o Braced(table, d.type, d.list).words
        ELSE IF Absent(d.init) THEN <<>> ELSE <<"=">> \o WordsOf(d.init, 1))
    \o <<";">>

Condition(e) == Bracketed("(", Expr(e), ")")
CaseLabel(arm) == IF arm.default THEN <<"default", ":">> ELSE <<"case", ToString(arm.v), ":">>

(* The words of a statement, or a declaration among statements.             *)
RECURSIVE StatementWords(_, _)
StatementWords(table, s) ==
  LET each(stmts) == Parted([n \in DOMAIN stmts |-> StatementWords(table, stmts[n])], <<>>)
      part(t) == StatementWords(table, t)
  IN  CASE s.k = "decl"   -> DeclarationWords(table, s)
        [] s.k = "block"  -> Bracketed("{", each(s.stmts), "}")
        [] s.k = "if"     -> <<"if">> \o Condition(s.c) \o part(s.a) \o (IF Absent(s.b) THEN <<>> ELSE <<"else">> \o part(s.b))
        [] s.k = "while"  -> <<"while">> \o Condition(s.c) \o part(s.a)
        [] s.k = "do"     -> <<"do">> \o part(s.a) \o <<"while">> \o Condition(s.c) \o <<";">>
        [] s.k = "for"    -> <<"for">> \o Bracketed("(", Parted(<<Expr(s.init), Expr(s.c), Expr(s.step)>>, <<";">>), ")") \o part(s.a)
        [] s.k = "switch" ->
             <<"switch">> \o Condition(s.c)
               \o Bracketed("{", Parted([n \in DOMAIN s.cases |-> CaseLabel(s.cases[n]) \o each(s.cases[n].stmts)], <<>>), "}")
        [] s.k = "return" -> Bracketed("return", Expr(s.e), ";")
        [] s.k = "break"  -> <<"break", ";">>
        [] s.k = "continue" -> <<"continue", ";">>
        [] s.k = "goto"   -> <<"goto", s.label, ";">>
        [] s.k = "label"  -> <<s.label, ":">> \o part(s.a)
        [] s.k = "expr"   -> Expr(s.e) \o <<";">>

FunctionWords(table, f) ==
  Named(f.ret, f.name)
    \o Bracketed("(", IF f.params = <<>> THEN <<"void">>
                      ELSE Parted([n \in DOMAIN f.params |-> Named(f.params[n].type, f.params[n].name)], Comma), ")")
    \o StatementWords(table, f.body)

StructWords(table, tag) ==
  <<"struct", tag>>
    \o Bracketed("{", Parted([n \in DOMAIN table[tag].fields |-> Named(table[tag].fields[n].type, table[tag].fields[n].name) \o <<";">>], <<>>), "}")
    \o <<";">>

(* A file: the structs with these tags, the globals, the functions.         *)
FileWords(table, tags, unit) ==
  Parted([n \in DOMAIN tags |-> StructWords(table, tags[n])], <<>>)
    \o Parted([n \in DOMAIN unit.globals |-> DeclarationWords(table, unit.globals[n])], <<>>)
    \o Parted([n \in DOMAIN unit.functions |-> FunctionWords(table, unit.functions[n])], <<>>)
    \o <<Eof>>

-----------------------------------------------------------------------------
(* Files *)

P == INSTANCE MCPrograms

LiteralSet == {P!I(n) : n \in 0 .. 130} \cup {P!U(n) : n \in {0, 1, 100}} \cup {P!Text(<<3, 1, 2>>)}
LiteralTable == [w \in {LiteralWord(e) : e \in LiteralSet} |-> CHOOSE e \in LiteralSet : LiteralWord(e) = w]
MCLiterals == LiteralTable

(* What a file holds: its words, the declarations and errors it amounts to. *)
Sample(words, decs, errors) == [words |-> Append(words, Eof), decls |-> decs, errors |-> errors]
Right(words, decs) == Sample(words, decs, <<>>)
Written(table, tags, unit) == Right(Front(FileWords(table, tags, unit)), unit.globals \o unit.functions)
WrittenMain(stmts) == Written(<<>>, <<>>, P!Unit(<<>>, <<Tree!Function(IntT, "main", <<>>, stmts)>>))

-----------------------------------------------------------------------------
(* The programs the engines run, but for one whose pointer to a row no       *)
(* declaration writes, and those with negative literals, which no file has. *)
ToStructs == <<"pair", "node", "frame">>
PlainPrograms == P!Narrowing @@ P!Pointers @@ P!Control @@ P!Faults
Negative == {ToString(-m) : m \in 1 .. 20}
Programs ==
  {s \in {Written(P!Layouts, <<>>, PlainPrograms[name]) : name \in DOMAIN PlainPrograms \ {"grid"}}
           \cup {Written(P!Layouts, ToStructs, P!Aggregates[name]) : name \in DOMAIN P!Aggregates} :
     Range(s.words) \cap Negative = {}}

(* Two operators, either way round: one of each level, and those of a level. *)
X == Tree!V("x")
Y == Tree!V("y")
Z == Tree!V("z")
ByLevel == {"LOGOR", "LOGAND", "BITOR", "BITXOR", "BITAND", "EQ", "LT", "SHL", "SUB", "DIV"}
Operators == (ByLevel \X ByLevel) \cup UNION {Levels[n] \X Levels[n] : n \in DOMAIN Levels}
OperatorPairs ==
  {WrittenMain(<<Tree!Return(Tree!Bin(Tree!Bin(X, o[1], Y), o[2], Z))>>) : o \in Operators}
    \cup {WrittenMain(<<Tree!Return(Tree!Bin(X, o[1], Tree!Bin(Y, o[2], Z)))>>) : o \in Operators}

(* Every expression with e in some place of it, and those inside each other. *)
Around(e) ==
  {Tree!Bin(e, "SUB", Y), Tree!Bin(Y, "SUB", e), Tree!Cond(e, Y, Z), Tree!Cond(Y, e, Z), Tree!Cond(Y, Z, e),
   Tree!Comma(e, Y), Tree!Comma(Y, e), Tree!AssignOp(Y, "ASSIGN", e), Tree!Un("NEG", e), Tree!Deref(e), Tree!To(e, CharT),
   SizeofExpr(e), Tree!At(e, Y), Tree!At(Y, e), Tree!Dot(e, "f"), Tree!Arrow(e, "f"), Tree!CallOf("h", <<Y, e>>)}
    \cup (IF IsLvalue(e)
          THEN {Tree!AssignOp(e, "ADD", Y), Tree!Addr(e), Tree!Inc(e, "ADD", TRUE), Tree!Inc(e, "ADD", FALSE)} ELSE {})
Nested == {WrittenMain(<<Tree!Do(e)>>) : e \in UNION {Around(inner) : inner \in Around(X)}}

-----------------------------------------------------------------------------
(* Declarations *)

Number(x) == Tree!Local0(x)
Valued(T, x, e) == Tree!Var(T, x, e)
Listed(T, x, ns) == Tree!List(T, x, [n \in DOMAIN ns |-> Tree!I(ns[n])])
Quoted == LiteralWord(Tree!Text(<<3, 1, 2>>))
CharArray(n) == ArrayOf(CharT, <<n>>)
PairOf == <<"struct", "pair", "{", "int", "x", ";", "char", "y", ",", "*", "z", ";", "}">>
PairTag == StructT("pair")
VoidMain(words) == <<"void", "main", "(", ")", "{">> \o words \o <<"}">>
MainOf(stmts) == Tree!Function(VoidT, "main", <<>>, stmts)

Declared ==
  {Right(<<"typedef", "int", "row", "[", "2", "]", ",", "*", "ref", ";", "row", "a", "=", "{", "1", ",", "2", ",", "}",
           ";", "const", "ref", "*", "const", "p", ";", "size_t", "n", ";">>,
         <<Listed(ArrayOf(IntT, <<2>>), "a", <<1, 2>>), Valued(PointerTo(PointerTo(IntT)), "p", NoTree), Number("n")>>),
   Right(<<"enum", "hue", "{", "red", ",", "green", "=", "1", "<<", "3", "-", "1", ",", "blue", ",", "}", ";", "enum", "hue",
           "h", "=", "blue", ";", "enum", "{", "low", "=", "-", "2", "}", ";", "int", "a", "[", "green", "?", "blue", ":", "1", "]", ";">>,
         <<Valued(IntT, "h", Tree!I(5)), Valued(ArrayOf(IntT, <<5>>), "a", NoTree)>>),
   Right(PairOf \o <<"v", "[", "]", "=", "{", "{", "1", "}", ",", "{", "2", ",", "3", ",", "0", "}", "}", ",",
           "w", "=", "{", "1", ",", "{", "2", "}", "}", ";">>,
         <<Listed(ArrayOf(PairTag, <<2>>), "v", <<1, 0, 0, 2, 3, 0>>), Listed(PairTag, "w", <<1, 2, 0>>)>>),
   Right(<<"struct", "{", "int", "r", "[", "2", "]", ";", "}", "t", "=", "{", "{", "1", "}", "}", ";", "int", "m", "[", "]", "[", "2", "]",
           "=", "{", "1", ",", "2", ",", "3", "}", ";", "struct", "pair", "*", "q", ";">> \o PairOf \o <<";">>,
         <<Listed(StructT("0"), "t", <<1, 0>>), Listed(ArrayOf(IntT, <<2, 2>>), "m", <<1, 2, 3, 0>>), Valued(PointerTo(PairTag), "q", NoTree)>>),
   Right(<<"char", "s", "[", "]", "=", Quoted, ",", "t", "[", "3", "]", "=", Quoted, ",", "u", "[", "2", "]", "[", "4", "]", "=", "{", Quoted, "}", ";">>,
         <<[Valued(CharArray(4), "s", NoTree) EXCEPT !.list = Chars(<<3, 1, 2, 0>>)], [Valued(CharArray(3), "t", NoTree) EXCEPT !.list = Chars(<<3, 1, 2>>)],
           [Valued(ArrayOf(CharT, <<2, 4>>), "u", NoTree) EXCEPT !.list = Chars(<<3, 1, 2, 0>>) \o [n \in 1 .. 4 |-> Zero]]>>),
   Right(<<"typedef", "int", "word", ";", "unsigned", "word", ";", "word", "*", "p", ",", "*", "word", ";", "struct", "word", "{", "word", "word",
           ";", "}", "s", ";">>,
         <<Valued([IntT EXCEPT !.base = "U32"], "word", NoTree), Valued(PointerTo(IntT), "p", NoTree), Valued(PointerTo(IntT), "word", NoTree), Valued(StructT("word"), "s", NoTree)>>),
   Right(<<"int", "f", "(", "int", "a", "[", "]", ",", "char", "b", "[", "2", "]", "[", "3", "]", ")", ";", "extern", "unsigned", "short",
           "int", "g", ";", "struct", "ahead", ";", "void", "h", "(", "int", "a", "[", "]", ",", "char", "b", "[", "2", "]", "[", "3", "]", ")", "{", "}">>,
         <<Valued([IntT EXCEPT !.base = "U16"], "g", NoTree),
           Tree!Function(VoidT, "h", <<Tree!Param(ArrayOf(IntT, <<-1>>), "a"), Tree!Param(ArrayOf(CharT, <<-1, 3>>), "b")>>, <<>>)>>)}

Blocks ==
  {Right(VoidMain(<<"static", "int", "i", "=", "1", ",", "j", ";", "for", "(", "int", "i", "=", "0", ",", "j", "=", "2", ";", ";", ")", ";", "out", ":", "}">>
                   \o <<"void", "g", "(", ")", "{", "typedef", "char", "tiny", ";", "tiny", "t", ";", "int", ";", "(", "tiny", ")", "t", ";",
                        "sizeof", "(", "tiny", ")", ";", "sizeof", "(", "int", "*", "[", "2", "]", ")", ";">>),
         <<MainOf(<<[Valued(IntT, "i", Tree!I(1)) EXCEPT !.static = TRUE], [Number("j") EXCEPT !.static = TRUE],
                    Tree!Block(<<Valued(IntT, "i", Tree!I(0)), Valued(IntT, "j", Tree!I(2)), Tree!For(NoTree, NoTree, NoTree, Tree!Do(NoTree))>>),
                    Tree!Mark("out", Tree!Do(NoTree))>>),
           Tree!Function(VoidT, "g", <<>>, <<Valued(CharT, "t", NoTree), Tree!Do(Tree!To(Tree!V("t"), CharT)),
                    Tree!Do(SizeofType(ElemBytes(<<>>, CharT))), Tree!Do(SizeofType(2 * ElemBytes(<<>>, PointerTo(IntT))))>>)>>)}

(* What is wrong but no reason to stop is told, and taken as it stands.     *)
Tolerated ==
  {Sample(VoidMain(<<"1", "=", "x", ";", "x", "(", "1", ")", "(", "2", ")", ";">>),
          <<MainOf(<<Tree!Do(Tree!AssignOp(Tree!I(1), "ASSIGN", X)), Tree!Do(Tree!CallOf("", <<Tree!I(2)>>))>>)>>, <<"lvalue", "callee">>),
   Sample(<<"int", "a", "[", "]", ",", "b", "[", "0", "]", ",", "c", "[", "g", "]", ",", "d", "[", "2", "]", "[", "]", ";">>,
          <<Valued(ArrayOf(IntT, <<1>>), "a", NoTree), Valued(ArrayOf(IntT, <<1>>), "b", NoTree), Valued(ArrayOf(IntT, <<1>>), "c", NoTree),
            Valued(ArrayOf(IntT, <<2, -1>>), "d", NoTree)>>, <<"no size", "array size not positive", "array size", "empty dimension">>),
   Sample(PairOf \o <<";">> \o PairOf \o <<"v", "=", "{", "1", ",", "2", ",", "0", ",", "4", "}", ";">>,
          <<Listed(PairTag, "v", <<1, 2, 0>>)>>, <<"struct redefined", "excess elements">>),
   Sample(PairOf \o <<"v", "[", "1", "]", "=", "{", "1", "}", ";", "int", "a", "[", "]", "=", "{", "{", "1", "}", "}", ";">>,
          <<Listed(ArrayOf(PairTag, <<1>>), "v", <<0, 0, 0>>), Valued(ArrayOf(IntT, <<1>>), "a", NoTree)>>,
          <<"struct without braces", "nested list", "no size">>),
   Sample(<<"struct", "s", "{", "struct", "s", "in", ";", "void", "v", ";", "int", "v", ";", "}", ";">>, <<>>,
          <<"incomplete field", "void field", "duplicate field">>)}

-----------------------------------------------------------------------------
(* Names of types that stand for less than they were given: a char without   *)
(* its sign, an array of arrays without their length.                       *)
Renamed ==
  {Right(<<"typedef", "unsigned", "char", "byte", ";", "byte", "b", ";">>, <<Valued(ByteT, "b", NoTree)>>),
   Right(<<"typedef", "int", "row", "[", "2", "]", ";", "row", "b", "[", "3", "]", ";">>, <<Valued(ArrayOf(IntT, <<3, 2>>), "b", NoTree)>>)}

-----------------------------------------------------------------------------
(* Files with something wrong between the first function and the last.      *)

First == <<"int", "f", "(", "int", "p", ")", "{", "return", "p", ";", "}">>
FOf == Tree!Function(IntT, "f", <<Tree!Param(IntT, "p")>>, <<Tree!Return(Tree!V("p"))>>)
Final == <<"int", "h", "(", "void", ")", "{", "return", "1", ";", "}", Eof>>
HOf == Tree!Function(IntT, "h", <<>>, <<Tree!Return(Tree!I(1))>>)

Body ==
  <<"int", "i", "=", "0", ";", "if", "(", "p", "<", "q", ")", "{", "i", "=", "p", "+", "1", ";", "}", "else", "i", "=", "q", ";",
    "while", "(", "i", ")", "{", "i", "--", ";", "}", "switch", "(", "p", ")", "{", "case", "1", ":", "break", ";", "default", ":", "i", "=", "2",
    ";", "}", "return", "i", ";">>
Braces == {"{", "}"}
WithBody(body) == <<"int", "g", "(", "int", "p", ",", "int", "q", ")", "{">> \o body \o <<"}">>
Lost    == {WithBody(SubSeq(Body, 1, n - 1) \o SubSeq(Body, n + 1, Len(Body))) : n \in {m \in DOMAIN Body : Body[m] \notin Braces \cup {"case"}}}

Deep == WithBody([n \in 1 .. MaxDepth + 1 |-> "("] \o <<"p">> \o [n \in 1 .. MaxDepth + 1 |-> ")"] \o <<";">>)
Between ==
  {<<"int", "=", ";">>, <<"static", "a", ";">>, <<"struct", ";">>, <<"enum", "{", "1", "}", ";">>, <<"1", ";">>, <<"typedef", "int", "(", ")", ";">>,
   <<"struct", "s", "{", "int", "a", ";", "int", "}", ";">>, <<"struct", "s", "{", "struct", "{", "int", "}", "}", ";">>, <<"}">>,
   <<"int", "a", "[", "2", "]", "=", "{", "1", ",", ";", "}", ";">>, WithBody(<<"switch", "(", "p", ")", "{", "p", ";", "case", "1", ":", "p", ";", "}">>), Deep}

Spoiled == {First \o middle \o Final : middle \in Lost \cup Between}

-----------------------------------------------------------------------------
(* A variable that is the only one of its type, and lasts.                  *)
Lasting ==
  {Right(VoidMain(<<"static", "struct", "{", "int", "x", ";", "}", "s", ";">>),
         <<MainOf(<<Tree!Static(Valued(StructT("0"), "s", NoTree))>>)>>)}

-----------------------------------------------------------------------------
InOrder == Programs \cup OperatorPairs \cup Nested \cup Declared \cup Blocks \cup Tolerated
SampleSet == InOrder \cup Renamed \cup Lasting
FileSet == {s.words : s \in InOrder} \cup Spoiled
MCFiles == FileSet
MCRenamedFiles == {s.words : s \in Renamed}
MCLastingFiles == {s.words : s \in Lasting}

Done == Ended /\ UNCHANGED vars
MCSpec == Init /\ [][Next \/ Done]_vars /\ WF_vars(Next)

(* A file in order is parsed as what was written, and what can be put up     *)
(* with is told and taken: operators by their level and side, elses, labels   *)
(* and declarators by what is next to them, initialisers slot by slot       *)
(* (parser.cpp:100-118, 255-330, 870-1078; parse_context.cpp:176-330).      *)
ParsedAsWritten ==
  Ended /\ file \notin Spoiled =>
    \E s \in SampleSet : s.words = file /\ s.decls = decls /\ s.errors = ctx.errors

(* What is wrong in one place of a file costs nothing but what is around it: *)
(* the functions before and after are whole, and no struct in the making or  *)
(* count of what was given up is left behind (parser.cpp:95-130).           *)
ErrorsAreContained ==
  Ended => /\ file \in Spoiled => Head(decls) = FOf /\ Last(decls) = HOf
           /\ ctx.open = <<>> /\ depth = 0 /\ vals = <<>>

(* The two parsers are one: of a file neither has anything against as far as  *)
(* syntax goes they make the same trees and say the same, and the first thing *)
(* they have against another is at the same word (parser_bison.y:23-29,     *)
(* docs/front-ends.md:33, 50-52; run_all.sh:262).                           *)
Broken == "syntax" \in Range(ctx.errors)
SameTrees ==
  Ended /\ ~Broken =>
    \E o \in {Outcome(file)} : o.stop = 0 /\ o.decls = decls /\ o.errors = ctx.errors
SameFirstError ==
  ~Ended /\ ctx.errors = <<>> /\ Fails => Outcome(file).first = pos
ParsersAgree == SameTrees /\ SameFirstError
=============================================================================
