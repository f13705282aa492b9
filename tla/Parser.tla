-------------------------------- MODULE Parser --------------------------------
(***************************************************************************)
(* The hand-written parser (src/parser/parser.cpp), as the stack machine its *)
(* recursion is: `todo` holds what the calls in progress have yet to do, the *)
(* words they expect, the functions they will call and what they do with     *)
(* the results, which are on `vals`, the last on top.  A throw drops what is *)
(* to do up to the nearest handler, a CATCH, and goes on from there.        *)
(* Abstracted: places, and the wording of diagnostics.  Left out: floats.   *)
(***************************************************************************)
EXTENDS ParseContext
CONSTANTS
  Literals, \* the literals of the files -> their trees
  Files,    \* the sequences of words to parse
  MaxDepth  \* how deep expressions may nest

-----------------------------------------------------------------------------
(* The words of a program as the parsers see them (include/token.h).  A     *)
(* file is a sequence of words; the kind of a keyword or punctuator is the  *)
(* word itself.                                                             *)

Eof == "<eof>"

TypeKeywords == {"int", "char", "void", "long", "short", "unsigned", "signed"}
Keywords ==
  TypeKeywords \cup {"const", "static", "extern", "struct", "enum", "typedef", "if", "else", "while", "for", "do",
                     "return", "break", "continue", "sizeof", "switch", "case", "default", "goto"}

(* Every operator that stands between two operands: its level, lowest first, *)
(* and its name.                                                            *)
Operator(level, name) == [level |-> level, name |-> name]
BinaryTable ==
  "||" :> Operator(1, "LOGOR") @@ "&&" :> Operator(2, "LOGAND") @@ "|" :> Operator(3, "BITOR") @@
  "^" :> Operator(4, "BITXOR") @@ "&" :> Operator(5, "BITAND") @@ "==" :> Operator(6, "EQ") @@
  "!=" :> Operator(6, "NE") @@ "<" :> Operator(7, "LT") @@ "<=" :> Operator(7, "LE") @@ ">" :> Operator(7, "GT") @@
  ">=" :> Operator(7, "GE") @@ "<<" :> Operator(8, "SHL") @@ ">>" :> Operator(8, "SHR") @@ "+" :> Operator(9, "ADD") @@
  "-" :> Operator(9, "SUB") @@ "*" :> Operator(10, "MUL") @@ "/" :> Operator(10, "DIV") @@ "%" :> Operator(10, "MOD")

AssignTable ==
  "=" :> "ASSIGN" @@ "+=" :> "ADD" @@ "-=" :> "SUB" @@ "*=" :> "MUL" @@ "/=" :> "DIV" @@ "%=" :> "MOD" @@
  "&=" :> "BITAND" @@ "|=" :> "BITOR" @@ "^=" :> "BITXOR" @@ "<<=" :> "SHL" @@ ">>=" :> "SHR"

UnaryTable ==
  "&" :> "ADDR" @@ "*" :> "DEREF" @@ "!" :> "NOT" @@ "~" :> "BITNOT" @@ "-" :> "NEG" @@ "+" :> "POS"
StepTable == "++" :> "ADD" @@ "--" :> "SUB"

BinaryOps == [w \in DOMAIN BinaryTable |-> BinaryTable[w]]
AssignOps == [w \in DOMAIN AssignTable |-> AssignTable[w]]
UnaryOps == [w \in DOMAIN UnaryTable |-> UnaryTable[w]]
StepOps == [w \in DOMAIN StepTable |-> StepTable[w]]

Punctuators ==
  DOMAIN BinaryOps \cup DOMAIN AssignOps \cup DOMAIN UnaryOps \cup DOMAIN StepOps
    \cup {".", "->", "?", ":", "(", ")", "{", "}", "[", "]", ",", ";"}

Reserved == Keywords \cup Punctuators \cup {Eof}

KindOf(w) ==
  IF w \in Reserved THEN w
  ELSE IF w \notin DOMAIN Literals THEN "IDENT"
  ELSE IF Literals[w].k = "str" THEN "STRING" ELSE "LITERAL"

(* The word n places on from pos; the file ends in Eof, and stays there.    *)
WordAt(file, pos, n) == IF pos + n > Len(file) THEN Last(file) ELSE file[pos + n]

-----------------------------------------------------------------------------
(* What the expressions and statements are made into *)

Tree == INSTANCE Source

IsLvalue(e) == e.k \in {"ident", "index", "member"} \/ (e.k = "un" /\ e.op = "DEREF")

SizeofType(bytes) == [k |-> "sizeof", oftype |-> TRUE, v |-> bytes]
SizeofExpr(e) == [k |-> "sizeof", oftype |-> FALSE, l |-> e]

(* A name is an enumerator or a variable.                                   *)
NameTree(enums, x) == IF x \in DOMAIN enums THEN Tree!I(enums[x]) ELSE Tree!V(x)

(* What is called has to be a name.                                         *)
CallTree(e, args) == Tree!CallOf(IF e.k = "ident" THEN e.name ELSE "", args)

LoopWithLocals(locals, loop) == Tree!Block(Append(locals, loop))

(* A pointer-sized bytes count for the whole of an array.                   *)
BytesOf(table, T) == Elements(T) * ElemBytes(table, T)

(* A type on the way to a declarator: its name so far, and the declarations *)
(* made from it.                                                            *)
TypeValue(T) == [k |-> "type", t |-> T, name |-> "", list |-> <<>>, static |-> FALSE]
NameValue(x) == [k |-> "name", name |-> x]

-----------------------------------------------------------------------------
VARIABLES file, pos, todo, vals, ctx, static, depth, decls
vars == <<file, pos, todo, vals, ctx, static, depth, decls>>

Each(names) == [n \in DOMAIN names |-> <<names[n], 0>>]

Init ==
  /\ file \in Files
  /\ pos = 1
  /\ todo = Each(<<"PROGRAM">>)
  /\ vals = <<>>
  /\ ctx = Context
  /\ static = FALSE
  /\ depth = 0
  /\ decls = <<>>

Look(n) == WordAt(file, pos, n)
Word    == Look(0)
Kind    == KindOf(Word)
IsIdent == Kind = "IDENT"
IsTypedefName(w) == KindOf(w) = "IDENT" /\ w \in DOMAIN ctx.typedefs

StartsTypeName(w) == w \in TypeKeywords \cup {"const", "struct", "enum"} \/ IsTypedefName(w)
AtTypeSpecStart   == Word \in {"static", "extern"} \/ StartsTypeName(Word)

Ended     == todo = <<>>
Symbol    == todo[1][1]
Given     == todo[1][2]
Now(name) == ~Ended /\ Symbol = name

Nth(n)   == vals[Len(vals) - n + 1]
Top      == Nth(1)
Below(n) == SubSeq(vals, 1, Len(vals) - n)

-----------------------------------------------------------------------------
(* The functions: what each does next, by the words ahead.                  *)

When(words, these, others) == Each(IF Word \in words THEN these ELSE others)

DeclarationSteps ==
  CASE Symbol = "PROGRAM"     -> When({Eof}, <<>>, <<"DECLARATION", "CATCH ALL", "PROGRAM">>)
    [] Symbol = "DECLARATION" -> When({"typedef"}, <<"TYPEDEF">>, <<"TYPE", "DECLARED">>)
    [] Symbol = "DECLARED"    -> When({";"}, <<";", "DROP">>, <<"BASE", "STARS", "NAME", "GLOBAL">>)
    [] Symbol = "GLOBAL"      -> When({"("}, <<"(", "NOTHING", "PARAMETERS", ")", "BLOCK", "FUNCTION">>,
                                      <<"VARIABLE", "VARIABLES", ";", "GLOBALS">>)
    [] Symbol = "NOTHING"     -> Each(IF Word = "void" /\ Look(1) = ")" THEN <<"void">> ELSE <<>>)
    [] Symbol = "PARAMETERS"  -> When({")"}, <<>>, <<"PARAMETER">>)
    [] Symbol = "PARAMETER"   -> Each(<<"TYPE", "STARS", "NAME", "BRACKETS", "ADD PARAMETER", "PARAMETERS,">>)
    [] Symbol = "BRACKETS"    -> When({"["}, <<"SIZES", "DECAY">>, <<>>)
    [] Symbol = "PARAMETERS," -> When({","}, <<",", "PARAMETER">>, <<>>)
    [] Symbol = "VARIABLES"   -> When({","}, <<",", "BASE", "STARS", "NAME", "VARIABLE", "VARIABLES">>, <<>>)
    [] Symbol = "VARIABLE"    -> Each(<<"SIZES", "INITIALIZER", "DECLARE">>)
    [] Symbol = "STARS"       -> When({"*"}, <<"*", "POINTER", "CONST", "STARS">>, <<>>)
    [] Symbol = "CONST"       -> When({"const"}, <<"const", "CONST">>, <<>>)
    [] Symbol = "TYPEDEF"     -> Each(<<"typedef", "TYPE", "NEW TYPES", ";", "DROP">>)
    [] Symbol = "NEW TYPES"   -> Each(<<"BASE", "STARS", "NO PAREN", "NAME", "DIMENSIONS", "ADD TYPE", "NEW TYPES,">>)
    [] Symbol = "NEW TYPES,"  -> When({","}, <<",", "NEW TYPES">>, <<>>)
    [] Symbol = "NO PAREN"    -> <<>>

(* Of the first dimension, SIZES may leave the length out.                  *)
TypeSteps ==
  CASE Symbol = "DIMENSIONS" -> When({"["}, <<"[", "SIZE", "FIRST", "]", "REST">>, <<>>)
    [] Symbol = "SIZES"      -> When({"["}, <<"[", "SIZE", "FIRST OR NONE", "]", "REST">>, <<>>)
    [] Symbol = "REST"       -> When({"["}, <<"[", "SIZE", "LATER", "]", "REST">>, <<>>)
    [] Symbol = "SIZE"       -> When({"]"}, <<"NO TREE">>, <<"CONDITIONAL">>)
    [] Symbol = "STRUCT"     -> Each(IF IsIdent THEN <<"TAG", "STRUCT BODY">> ELSE <<"NO TAG", "STRUCT BODY">>)
    [] Symbol = "FIELDS"     -> When({"}", Eof}, <<>>, <<"TYPE", "FIELD", ";", "DROP", "FIELDS">>)
    [] Symbol = "FIELD"      -> Each(<<"BASE", "STARS", "NAME", "DIMENSIONS", "ADD FIELD", "FIELDS,">>)
    [] Symbol = "FIELDS,"    -> When({","}, <<",", "FIELD">>, <<>>)
    [] Symbol = "ENUM"       -> Each(IF IsIdent THEN <<"TAG", "DROP", "ENUM BODY">> ELSE <<"ENUM BODY">>)
    [] Symbol = "ENUM BODY"  -> When({"{"}, <<"{", "RESET", "ENUMERATORS", "}">>, <<>>)
    [] Symbol = "ENUMERATORS" -> When({"}", Eof}, <<>>, <<"TAG", "ENUMERATOR", "ENUMERATORS,">>)
    [] Symbol = "ENUMERATOR"  -> When({"="}, <<"=", "CONDITIONAL", "CONSTANT", "SET">>, <<"NEXT">>)
    [] Symbol = "ENUMERATORS," -> When({","}, <<",", "ENUMERATORS">>, <<>>)
    [] Symbol = "INITIALIZER" -> When({"="}, <<"=", "VALUE">>, <<"NO VALUE">>)
    [] Symbol = "VALUE" ->
         IF Word = "{" THEN Each(<<"NODE", "AS LIST">>)
         ELSE IF Top.t.array /\ Kind = "STRING" THEN Each(<<"LITERAL", "AS STRING">>)
         ELSE Each(<<"ITEM VALUE", "AS EXPR">>)
    [] Symbol = "NODE"   -> When({"{"}, <<"{", "NO NODES", "NODES", "}">>, <<"ITEM VALUE", "LEAF">>)
    [] Symbol = "NODES"  -> When({"}", Eof}, <<>>, <<"NODE", "ADD NODE", "NODES,">>)
    [] Symbol = "NODES," -> When({","}, <<",", "NODES">>, <<>>)

(* A declaration in a block, or a statement.                                *)
ItemSteps ==
  IF Word = "typedef" THEN Each(<<"TYPEDEF">>)
  ELSE IF AtTypeSpecStart THEN Each(<<"TYPE", "KEEP STATIC", "LOCAL">>)
  ELSE Each(<<"STATEMENT", "ADD">>)

StatementOf ==
  CASE Word = "{"        -> <<"BLOCK">>
    [] Word = "if"       -> <<"if", "(", "EXPRESSION", ")", "STATEMENT", "ELSE">>
    [] Word = "while"    -> <<"while", "(", "EXPRESSION", ")", "STATEMENT", "WHILE">>
    [] Word = "do"       -> <<"do", "STATEMENT", "while", "(", "EXPRESSION", ")", ";", "DO">>
    [] Word = "for"      -> <<"for", "(", "FOR">>
    [] Word = "switch"   -> <<"switch", "(", "EXPRESSION", ")", "{", "SWITCH", "CASES", "}", "SWITCH END">>
    [] Word = "return"   -> <<"return", "UNLESS ;", ";", "RETURN">>
    [] Word = "break"    -> <<"break", ";", "BREAK">>
    [] Word = "continue" -> <<"continue", ";", "CONTINUE">>
    [] Word = "goto"     -> <<"goto", "TAG", ";", "GOTO">>
    [] OTHER             -> <<"UNLESS ;", ";", "EXPRESSION STATEMENT">>

StatementSteps ==
  CASE Symbol = "BLOCK" -> Each(<<"{", "LIST", "ITEMS", "}", "BLOCK END">>)
    [] Symbol = "ITEMS" -> When({"}", Eof}, <<>>, <<"ITEM", "CATCH", "ITEMS">>)
    [] Symbol = "ITEM"  -> ItemSteps
    [] Symbol = "LOCAL" -> When({";"}, <<";", "DROP">>, <<"BASE", "STARS", "NAME", "VARIABLE", "VARIABLES", ";", "LOCALS">>)
    [] Symbol = "STATEMENT" -> Each(IF IsIdent /\ Look(1) = ":" THEN <<"TAG", ":", "LABELLED", "LABEL">> ELSE StatementOf)
    [] Symbol = "LABELLED"  -> When({"}"}, <<"NO TREE", "EXPRESSION STATEMENT">>, <<"STATEMENT">>)
    [] Symbol = "ELSE"      -> When({"else"}, <<"else", "STATEMENT", "IF ELSE">>, <<"IF">>)
    [] Symbol = "FOR"       ->
         Each((IF AtTypeSpecStart THEN <<"TYPE", "BASE", "STARS", "NAME", "VARIABLE", "VARIABLES", ";", "NO TREE">>
               ELSE <<"UNLESS ;", ";">>)
              \o <<"UNLESS ;", ";", "UNLESS )", ")", "STATEMENT", "LOOP">>
              \o (IF AtTypeSpecStart THEN <<"LOOP BLOCK">> ELSE <<>>))
    [] Symbol = "UNLESS ;"  -> When({";"}, <<"NO TREE">>, <<"EXPRESSION">>)
    [] Symbol = "UNLESS )"  -> When({")"}, <<"NO TREE">>, <<"EXPRESSION">>)
    [] Symbol = "CASES"     -> When({"}", Eof}, <<>>, <<"CASE", "CATCH", "CASES">>)
    [] Symbol = "CASE"      ->
         IF Word = "case" THEN Each(<<"case", "CONDITIONAL", "CONSTANT", ":", "ADD CASE">>)
         ELSE IF Word = "default" THEN Each(<<"default", ":", "ADD DEFAULT">>)
         ELSE ItemSteps

(* The levels of binary operators are climbed at once: OPERATORS n takes     *)
(* those of level n and above.                                              *)
UnarySteps ==
  IF Word = "(" /\ StartsTypeName(Look(1)) THEN Each(<<"(", "TYPE", "STARS", ")", "UNARY", "CAST">>)
  ELSE IF Word = "sizeof" /\ Look(1) = "(" /\ StartsTypeName(Look(2))
       THEN Each(<<"sizeof", "(", "TYPE", "STARS", "DIMENSIONS", ")", "SIZEOF TYPE">>)
  ELSE IF Word = "sizeof" THEN Each(<<"sizeof", "UNARY", "SIZEOF">>)
  ELSE IF Word \in DOMAIN UnaryOps THEN Each(<<Word, "UNARY">>) \o <<<<"PREFIX", UnaryOps[Word]>>>>
  ELSE IF Word \in DOMAIN StepOps THEN Each(<<Word, "UNARY">>) \o <<<<"STEP", StepOps[Word]>>>>
  ELSE Each(<<"PRIMARY", "POSTFIX">>)

PostfixSteps ==
  CASE Word = "[" -> Each(<<"[", "EXPRESSION", "]", "INDEX", "POSTFIX">>)
    [] Word = "(" -> Each(<<"CALLEE", "(", "NO ARGUMENTS", "ARGUMENTS", ")", "CALL", "POSTFIX">>)
    [] Word = "." -> Each(<<".", "TAG", "MEMBER", "POSTFIX">>)
    [] Word = "->" -> Each(<<"->", "TAG", "ARROW", "POSTFIX">>)
    [] Word \in DOMAIN StepOps -> Each(<<Word>>) \o <<<<"STEP AFTER", StepOps[Word]>>>> \o Each(<<"POSTFIX">>)
    [] OTHER -> <<>>

\* Mutant of OperatorSteps: what follows an operator takes others of its level.
OperatorStepsRight ==
  IF Word \in DOMAIN BinaryOps /\ BinaryOps[Word].level >= Given
  THEN <<<<Word, 0>>, <<"UNARY", 0>>, <<"OPERATORS", BinaryOps[Word].level>>,
         <<"BINARY", BinaryOps[Word].name>>, <<"OPERATORS", Given>>>>
  ELSE <<>>

OperatorSteps ==
  IF Word \in DOMAIN BinaryOps /\ BinaryOps[Word].level >= Given
  THEN <<<<Word, 0>>, <<"UNARY", 0>>, <<"OPERATORS", BinaryOps[Word].level + 1>>,
         <<"BINARY", BinaryOps[Word].name>>, <<"OPERATORS", Given>>>>
  ELSE <<>>

ExpressionSteps ==
  CASE Symbol = "COMMAS"      -> When({","}, <<",", "ASSIGNMENT", "COMMA", "COMMAS">>, <<>>)
    [] Symbol = "ASSIGNMENT"  -> Each(<<"CONDITIONAL", "ASSIGN">>)
    [] Symbol = "ASSIGN"      ->
         IF Word \in DOMAIN AssignOps
         THEN Each(<<"LVALUE", Word, "ASSIGNMENT">>) \o <<<<"SET TO", AssignOps[Word]>>>> ELSE <<>>
    [] Symbol = "CONDITIONAL" -> Each(<<"UNARY">>) \o <<<<"OPERATORS", 1>>>> \o Each(<<"CHOICE">>)
    [] Symbol = "CHOICE"      -> When({"?"}, <<"?", "EXPRESSION", ":", "CONDITIONAL", "COND">>, <<>>)
    [] Symbol = "OPERATORS"   -> OperatorSteps
    [] Symbol = "UNARY"       -> UnarySteps
    [] Symbol = "POSTFIX"     -> PostfixSteps
    [] Symbol = "PRIMARY"     ->
         CASE IsIdent -> Each(<<"VARIABLE NAME">>)
           [] Kind \in {"LITERAL", "STRING"} -> Each(<<"LITERAL">>)
           [] OTHER -> Each(<<"(", "EXPRESSION", ")">>)
    [] Symbol = "ARGUMENTS"   -> When({")"}, <<>>, <<"ARGUMENT">>)
    [] Symbol = "ARGUMENT"    -> Each(<<"ITEM VALUE", "ADD ARGUMENT", "ARGUMENTS,">>)
    [] Symbol = "ARGUMENTS,"  -> When({","}, <<",", "ARGUMENT">>, <<>>)

(* The symbols that call for more, one set for each of the tables above.    *)
DeclarationSymbols ==
  {"PROGRAM", "DECLARATION", "DECLARED", "GLOBAL", "NOTHING", "PARAMETERS", "PARAMETER", "BRACKETS", "PARAMETERS,",
   "VARIABLES", "VARIABLE", "STARS", "CONST", "TYPEDEF", "NEW TYPES", "NEW TYPES,", "NO PAREN"}
TypeSymbols ==
  {"DIMENSIONS", "SIZES", "REST", "SIZE", "STRUCT", "FIELDS", "FIELD", "FIELDS,", "ENUM", "ENUM BODY", "ENUMERATORS",
   "ENUMERATOR", "ENUMERATORS,", "INITIALIZER", "VALUE", "NODE", "NODES", "NODES,"}
StatementSymbols ==
  {"BLOCK", "ITEMS", "ITEM", "LOCAL", "STATEMENT", "LABELLED", "ELSE", "FOR", "UNLESS ;", "UNLESS )", "CASES", "CASE"}
ExpressionSymbols ==
  {"COMMAS", "ASSIGNMENT", "ASSIGN", "CONDITIONAL", "CHOICE", "OPERATORS", "UNARY", "POSTFIX", "PRIMARY",
   "ARGUMENTS", "ARGUMENT", "ARGUMENTS,"}

-----------------------------------------------------------------------------
(* What is made of the values on top of the stack                           *)

Replaced(n, v) == Append(Below(n), v)
Pushed(v)      == Append(vals, v)

ExpressionMade ==
  CASE Symbol = "COMMA"        -> Replaced(2, Tree!Comma(Nth(2), Top))
    [] Symbol = "SET TO"       -> Replaced(2, Tree!AssignOp(Nth(2), Given, Top))
    [] Symbol = "COND"         -> Replaced(3, Tree!Cond(Nth(3), Nth(2), Top))
    [] Symbol = "BINARY"       -> Replaced(2, Tree!Bin(Nth(2), Given, Top))
    [] Symbol = "PREFIX"       -> Replaced(1, Tree!Un(Given, Top))
    [] Symbol = "STEP"         -> Replaced(1, Tree!Inc(Top, Given, TRUE))
    [] Symbol = "STEP AFTER"   -> Replaced(1, Tree!Inc(Top, Given, FALSE))
    [] Symbol = "CAST"         -> Replaced(2, Tree!To(Top, Nth(2).t))
    [] Symbol = "SIZEOF"       -> Replaced(1, SizeofExpr(Top))
    [] Symbol = "SIZEOF TYPE"  -> Replaced(1, SizeofType(BytesOf(ctx.structs, Top.t)))
    [] Symbol = "INDEX"        -> Replaced(2, Tree!At(Nth(2), Top))
    [] Symbol = "MEMBER"       -> Replaced(2, Tree!Dot(Nth(2), Top.name))
    [] Symbol = "ARROW"        -> Replaced(2, Tree!Arrow(Nth(2), Top.name))
    [] Symbol = "NO ARGUMENTS" -> Pushed([k |-> "arguments", items |-> <<>>])
    [] Symbol = "ADD ARGUMENT" -> Replaced(2, [Nth(2) EXCEPT !.items = Append(@, Top)])
    [] Symbol = "CALL"         -> Replaced(2, CallTree(Nth(2), Top.items))
    [] Symbol = "NO TREE"      -> Pushed(NoTree)

(* A statement goes to the block being read, or to its last case.           *)
WithStatements(holder, stmts) ==
  IF holder.k = "list" THEN [holder EXCEPT !.items = @ \o stmts]
  ELSE [holder EXCEPT !.cases[Len(holder.cases)].stmts = @ \o stmts]

WithCase(v, default) == [v |-> v, default |-> default, stmts |-> <<>>]

StatementMade ==
  CASE Symbol = "LIST"        -> Pushed([k |-> "list", items |-> <<>>])
    [] Symbol = "BLOCK END"   -> Replaced(1, Tree!Block(Top.items))
    [] Symbol = "ADD"         -> Replaced(2, WithStatements(Nth(2), <<Top>>))
    [] Symbol = "LOCALS"      ->
         Replaced(2, WithStatements(Nth(2), [n \in DOMAIN Top.list |-> [Top.list[n] EXCEPT !.static = Top.static]]))
    [] Symbol = "IF"          -> Replaced(2, Tree!If(Nth(2), Top))
    [] Symbol = "IF ELSE"     -> Replaced(3, Tree!IfElse(Nth(3), Nth(2), Top))
    [] Symbol = "WHILE"       -> Replaced(2, Tree!While(Nth(2), Top))
    [] Symbol = "DO"          -> Replaced(2, Tree!DoWhile(Nth(2), Top))
    [] Symbol = "LOOP"        -> Replaced(4, Tree!For(Nth(4), Nth(3), Nth(2), Top))
    [] Symbol = "LOOP BLOCK"  -> Replaced(2, LoopWithLocals(Nth(2).list, Top))
    [] Symbol = "RETURN"      -> Replaced(1, Tree!Return(Top))
    [] Symbol = "BREAK"       -> Pushed(Tree!Break)
    [] Symbol = "CONTINUE"    -> Pushed(Tree!Continue)
    [] Symbol = "GOTO"        -> Replaced(1, Tree!Goto(Top.name))
    [] Symbol = "LABEL"       -> Replaced(2, Tree!Mark(Nth(2).name, Top))
    [] Symbol = "EXPRESSION STATEMENT" -> Replaced(1, Tree!Do(Top))
    [] Symbol = "SWITCH"      -> Replaced(1, [k |-> "cases", c |-> Top, cases |-> <<>>])
    [] Symbol = "ADD CASE"    -> Replaced(2, [Nth(2) EXCEPT !.cases = Append(@, WithCase(Top.v, FALSE))])
    [] Symbol = "ADD DEFAULT" -> Replaced(1, [Top EXCEPT !.cases = Append(@, WithCase(0, TRUE))])
    [] Symbol = "SWITCH END"  -> Replaced(1, Tree!Switch(Top.c, Top.cases))

DeclarationMade ==
  CASE Symbol = "BASE"          -> Pushed([Top EXCEPT !.list = <<>>])
    [] Symbol = "DROP"          -> Below(1)
    [] Symbol = "POINTER"       -> Replaced(1, [Top EXCEPT !.t = PointerTo(@)])
    [] Symbol = "DECAY"         -> Replaced(1, [Top EXCEPT !.t.dims[1] = -1])
    [] Symbol = "KEEP STATIC"   -> Replaced(1, [Top EXCEPT !.static = static])
    [] Symbol = "ADD PARAMETER" -> Replaced(2, [Nth(2) EXCEPT !.list = Append(@, Tree!Param(Top.t, Top.name))])
    [] Symbol = "NO TAG"        -> Pushed(NameValue(""))
    [] Symbol = "TAKE TYPE"     -> Replaced(2, [Nth(2) EXCEPT !.type = Top.t, !.any = TRUE])
    [] Symbol = "TAKE INT"      -> Replaced(1, [Top EXCEPT !.type = IntT, !.any = TRUE])
    [] Symbol = "NO VALUE"      -> Pushed(NoInit)
    [] Symbol = "AS LIST"       -> Replaced(1, [kind |-> "list", kids |-> Top.kids])
    [] Symbol = "AS STRING"     -> Replaced(1, [kind |-> "string", text |-> Top.v])
    [] Symbol = "AS EXPR"       -> Replaced(1, [kind |-> "expr", e |-> Top])
    [] Symbol = "NO NODES"      -> Pushed(InitList(<<>>))
    [] Symbol = "LEAF"          -> Replaced(1, InitExpr(Top))
    [] Symbol = "ADD NODE"      -> Replaced(2, [Nth(2) EXCEPT !.kids = Append(@, Top)])

ExpressionValues ==
  {"COMMA", "SET TO", "COND", "BINARY", "PREFIX", "STEP", "STEP AFTER", "CAST", "SIZEOF", "SIZEOF TYPE", "INDEX", "MEMBER",
   "ARROW", "NO ARGUMENTS", "ADD ARGUMENT", "CALL", "NO TREE"}
StatementValues ==
  {"LIST", "BLOCK END", "ADD", "LOCALS", "IF", "IF ELSE", "WHILE", "DO", "LOOP", "LOOP BLOCK", "RETURN", "BREAK", "CONTINUE",
   "GOTO", "LABEL", "EXPRESSION STATEMENT", "SWITCH", "ADD CASE", "ADD DEFAULT", "SWITCH END"}
DeclarationValues ==
  {"BASE", "DROP", "POINTER", "DECAY", "KEEP STATIC", "ADD PARAMETER", "NO TAG", "TAKE TYPE", "TAKE INT", "NO VALUE",
   "AS LIST", "AS STRING", "AS EXPR", "NO NODES", "LEAF", "ADD NODE"}

-----------------------------------------------------------------------------
(* What fails here                                                          *)

Fails ==
  \/ Symbol \in Reserved /\ Word # Symbol
  \/ Symbol \in {"NAME", "TAG"} /\ ~IsIdent
  \/ Symbol = "DECLARATION" /\ Word # "typedef" /\ ~AtTypeSpecStart
  \/ Symbol = "END TYPE" /\ ~Top.any
  \/ Symbol = "STRUCT BODY" /\ Word # "{" /\ Top.name = ""
  \/ Symbol = "NO PAREN" /\ Word = "("
  \/ Symbol = "CASE" /\ Word \notin {"case", "default"} /\ Top.cases = <<>>
  \/ Symbol \in {"EXPRESSION", "ITEM VALUE"} /\ depth >= MaxDepth
  \/ Symbol = "PRIMARY" /\ ~IsIdent /\ Kind \notin {"LITERAL", "STRING", "("}

Going == ~Ended /\ ~Fails

(* The ways on: the stack of what is to do, and of values, and the tables.  *)
Onward(rest) == todo' = rest /\ UNCHANGED <<file, static, depth>>
Giving(values, tables) == Onward(Tail(todo)) /\ vals' = values /\ ctx' = tables /\ UNCHANGED <<pos, decls>>

(* expect, match, advance.                                                  *)
Shift ==
  /\ Going
  /\ Symbol \in Reserved
  /\ pos' = pos + 1
  /\ Onward(Tail(todo))
  /\ UNCHANGED <<vals, ctx, decls>>

CallNext(symbols, steps) ==
  /\ Going
  /\ Symbol \in symbols
  /\ Onward(steps \o Tail(todo))
  /\ UNCHANGED <<pos, vals, ctx, decls>>

Make(symbols, values) == Going /\ Symbol \in symbols /\ Giving(values, ctx)

(* A word that is a value: a name, a literal.                               *)
TakeWord ==
  /\ Going
  /\ Symbol \in {"NAME", "TAG", "LITERAL", "VARIABLE NAME"}
  /\ pos' = pos + 1
  /\ vals' = CASE Symbol = "NAME"    -> Replaced(1, [Top EXCEPT !.name = Word])
               [] Symbol = "TAG"     -> Pushed(NameValue(Word))
               [] Symbol = "LITERAL" -> Pushed(Literals[Word])
               [] Symbol = "VARIABLE NAME" -> Pushed(NameTree(ctx.enums, Word))
  /\ Onward(Tail(todo))
  /\ UNCHANGED <<ctx, decls>>

-----------------------------------------------------------------------------
(* parseTypeSpec *)

StartType ==
  /\ Now("TYPE")
  /\ static' = FALSE
  /\ vals' = Pushed(NoWords)
  /\ todo' = Each(<<"WORDS">>) \o Tail(todo)
  /\ UNCHANGED <<file, pos, ctx, depth, decls>>

(* The words that may be followed by more, and those that may not.          *)
MoreWords == {"static", "const", "extern", "unsigned", "signed", "long", "short", "int"}

Tallied(w) ==
  CASE Word \in {"static", "const", "extern"} -> w
    [] Word = "char" -> [w EXCEPT !.type = CharT, !.any = TRUE]
    [] Word = "void" -> [w EXCEPT !.type = VoidT, !.any = TRUE]
    [] Word \in MoreWords \ {"static", "const", "extern"} ->
         [w EXCEPT !.type = IntT, !.any = TRUE, !.int = TRUE, !.unsigned = @ \/ Word = "unsigned",
                   !.long = @ \/ Word = "long", !.short = @ \/ Word = "short"]

TypeWord ==
  /\ Now("WORDS")
  /\ Word \in MoreWords \cup {"char", "void"}
  /\ static' = (static \/ Word = "static")
  /\ vals' = Replaced(1, Tallied(Top))
  /\ todo' = Each(<<IF Word \in MoreWords THEN "WORDS" ELSE "END TYPE">>) \o Tail(todo)
  /\ pos' = pos + 1
  /\ UNCHANGED <<file, ctx, depth, decls>>

(* A typedef name is a type where no type has been seen.                    *)
NamedType ==
  /\ Now("WORDS")
  /\ IsTypedefName(Word)
  /\ ~Top.any
  /\ vals' = Replaced(1, [Top EXCEPT !.type = ctx.typedefs[Word], !.any = TRUE])
  /\ pos' = pos + 1
  /\ Onward(Each(<<"END TYPE">>) \o Tail(todo))
  /\ UNCHANGED <<ctx, decls>>

(* A struct or an enum, or no more words.                                   *)
OtherType ==
  /\ Now("WORDS")
  /\ Word \notin MoreWords \cup {"char", "void"}
  /\ ~(IsTypedefName(Word) /\ ~Top.any)
  /\ Onward((CASE Word = "struct" -> Each(<<"struct", "STRUCT", "TAKE TYPE", "END TYPE">>)
               [] Word = "enum"   -> Each(<<"enum", "ENUM", "TAKE INT", "END TYPE">>)
               [] OTHER           -> Each(<<"END TYPE">>)) \o Tail(todo))
  /\ UNCHANGED <<pos, vals, ctx, decls>>

EndType == Going /\ Symbol = "END TYPE" /\ Giving(Replaced(1, TypeValue(FinishType(Top))), ctx)

(* A body opens a struct; without one its tag refers to it.                 *)
OpenStruct ==
  /\ Now("STRUCT BODY")
  /\ Word = "{"
  /\ ctx' = Yielding(BeginStruct(ctx, Top.name), NoTree)
  /\ vals' = Below(1)
  /\ Onward(Each(<<"{", "FIELDS", "}", "CLOSE STRUCT">>) \o Tail(todo))
  /\ UNCHANGED <<pos, decls>>

(* Those that change the tables, and leave in ctx.out what they make.       *)
Meaning ==
  CASE Symbol = "STRUCT BODY"  -> StructReference(ctx, Top.name)
    [] Symbol = "CLOSE STRUCT" -> FinishStruct(ctx)
    [] Symbol = "ADD FIELD"    -> AddFieldTo(ctx, Top.t, Top.name)
    [] Symbol = "RESET"        -> ResetEnum(ctx)
    [] Symbol = "SET"          -> AddEnumerator(ctx, Nth(2).name, TRUE, Top.v)
    [] Symbol = "NEXT"         -> AddEnumerator(ctx, Top.name, FALSE, 0)
    [] Symbol = "ADD TYPE"     -> [ctx EXCEPT !.typedefs = (Top.name :> Top.t) @@ @]
    [] Symbol = "CONSTANT"     -> ConstInt(ctx, Top, "constant")
    [] Symbol = "FIRST"        -> ApplyDim(ctx, Nth(2).t, Top, TRUE, FALSE)
    [] Symbol = "FIRST OR NONE" -> ApplyDim(ctx, Nth(2).t, Top, TRUE, TRUE)
    [] Symbol = "LATER"        -> ApplyDim(ctx, Nth(2).t, Top, FALSE, FALSE)
    [] Symbol = "DECLARE"      -> Declarator(ctx, Nth(2).t, Nth(2).name, Top)
    [] Symbol = "CALLEE"       -> Report(ctx, Top.k # "ident", "callee")
    [] Symbol = "LVALUE"       -> Report(ctx, ~IsLvalue(Top), "lvalue")

ValuesGiven(out) ==
  CASE Symbol = "STRUCT BODY"   -> Replaced(1, TypeValue(out))
    [] Symbol = "CLOSE STRUCT"  -> Pushed(TypeValue(out))
    [] Symbol \in {"ADD FIELD", "ADD TYPE", "NEXT"} -> Below(1)
    [] Symbol = "SET"           -> Below(2)
    [] Symbol = "CONSTANT"      -> Replaced(1, Tree!I(out))
    [] Symbol \in {"FIRST", "FIRST OR NONE", "LATER"} -> Replaced(2, [Nth(2) EXCEPT !.t = out])
    [] Symbol = "DECLARE"       -> Replaced(3, [Nth(3) EXCEPT !.list = Append(@, out)])
    [] Symbol \in {"RESET", "CALLEE", "LVALUE"} -> vals

Meanings ==
  {"STRUCT BODY", "CLOSE STRUCT", "ADD FIELD", "RESET", "SET", "NEXT", "ADD TYPE", "CONSTANT", "FIRST", "FIRST OR NONE",
   "LATER", "DECLARE", "CALLEE", "LVALUE"}

Mean ==
  /\ Going
  /\ Symbol \in Meanings
  /\ ~(Symbol = "STRUCT BODY" /\ Word = "{")
  /\ \E s \in {Meaning} : Giving(ValuesGiven(s.out), Yielding(s, NoTree))

-----------------------------------------------------------------------------
(* Expressions in progress are counted.                                     *)
Nest ==
  /\ Going
  /\ Symbol \in {"EXPRESSION", "ITEM VALUE"}
  /\ depth' = depth + 1
  /\ todo' = Each(IF Symbol = "EXPRESSION" THEN <<"ASSIGNMENT", "COMMAS", "LEAVE">> ELSE <<"ASSIGNMENT", "LEAVE">>) \o Tail(todo)
  /\ UNCHANGED <<file, pos, vals, ctx, static, decls>>

Leave ==
  /\ Now("LEAVE")
  /\ depth' = depth - 1
  /\ todo' = Tail(todo)
  /\ UNCHANGED <<file, pos, vals, ctx, static, decls>>

(* The declarations of the file.                                            *)
Emit ==
  /\ Going
  /\ Symbol \in {"GLOBALS", "FUNCTION"}
  /\ IF Symbol = "GLOBALS"
     THEN decls' = decls \o Top.list /\ vals' = Below(1)
     ELSE /\ decls' = Append(decls, [name |-> Nth(2).name, ret |-> Nth(2).t, params |-> Nth(2).list, body |-> Top])
          /\ vals' = Below(3)
  /\ Onward(Tail(todo))
  /\ UNCHANGED <<pos, ctx>>

(* A parameter list whose closing parenthesis is followed by a semicolon is  *)
(* skipped, up to the first semicolon.                                      *)
Opened(n) == Cardinality({m \in pos .. n : file[m] = "("}) - Cardinality({m \in pos .. n : file[m] = ")"})
Closing   == {n \in pos .. Len(file) : file[n] = ")" /\ Opened(n) = 0}
IsPrototype ==
  /\ Word = "("
  /\ Closing # {}
  /\ WordAt(file, Min(Closing), 1) = ";"

SkipPrototype ==
  /\ Now("GLOBAL")
  /\ IsPrototype
  /\ pos' = Min({n \in pos .. Len(file) : file[n] = ";"}) + 1
  /\ vals' = Below(2)
  /\ Onward(Tail(todo))
  /\ UNCHANGED <<ctx, decls>>

-----------------------------------------------------------------------------
(* Errors *)

Restarts ==
  {"}", "if", "while", "for", "do", "return", "break", "continue", "int", "char", "void", "struct", "typedef", "enum",
   "switch", "{"}

\* Mutant of Synchronized: the word in error is looked at again.
SynchronizedInPlace ==
  Min({n \in pos .. Len(file) : \/ file[n] \in Restarts \cup {Eof}
                                \/ n > 1 /\ file[n - 1] = ";"})

(* synchronize: past the word in error, to the next word one may start at.  *)
Synchronized ==
  IF Word = Eof THEN pos
  ELSE Min({n \in pos + 1 .. Len(file) : file[n] \in Restarts \cup {Eof} \/ file[n - 1] = ";"})

Handlers == {n \in DOMAIN todo : todo[n][1] \in {"CATCH", "CATCH ALL"}}
Handler  == Min(Handlers)

(* What was dropped: structs being read, expressions being counted.         *)
Dropped(name) == Cardinality({n \in 1 .. Handler : todo[n][1] = name})

(* The values of the blocks and switches that go on are kept.               *)
IsHolder(v) == "k" \in DOMAIN v /\ v.k \in {"list", "cases"}
GoingOn == Cardinality({n \in Handler .. Len(todo) : todo[n][1] \in {"BLOCK END", "SWITCH END"}})
Holders == {n \in DOMAIN vals : IsHolder(vals[n])}
LastHolder == Max({0} \cup {n \in Holders : Cardinality({m \in Holders : m <= n}) <= GoingOn})

AbandonStructs(s) == [s EXCEPT !.open = SubSeq(@, 1, Len(@) - Dropped("CLOSE STRUCT"))]

\* Mutant of Resumed: a block skips words at its own brace too.
ResumedAlways == Synchronized

(* A block leaves its own closing brace alone.                              *)
Resumed == IF todo[Handler][1] = "CATCH" /\ Word = "}" THEN pos ELSE Synchronized

Throw ==
  /\ ~Ended
  /\ Fails
  /\ ctx' = AbandonStructs(Report(ctx, TRUE, "syntax"))
  /\ depth' = depth - Dropped("LEAVE")
  /\ vals' = SubSeq(vals, 1, LastHolder)
  /\ pos' = Resumed
  /\ todo' = SubSeq(todo, Handler + 1, Len(todo))
  /\ UNCHANGED <<file, static, decls>>

(* A handler nothing was thrown to.                                         *)
Pass == ~Ended /\ Symbol \in {"CATCH", "CATCH ALL"} /\ Giving(vals, ctx)

-----------------------------------------------------------------------------
Call ==
  \/ CallNext(DeclarationSymbols, DeclarationSteps) /\ ~(Symbol = "GLOBAL" /\ IsPrototype)
  \/ CallNext(TypeSymbols, TypeSteps)
  \/ CallNext(StatementSymbols, StatementSteps)
  \/ CallNext(ExpressionSymbols, ExpressionSteps)
Build == Make(ExpressionValues, ExpressionMade) \/ Make(StatementValues, StatementMade) \/ Make(DeclarationValues, DeclarationMade)
Typing == StartType \/ TypeWord \/ NamedType \/ OtherType \/ EndType \/ OpenStruct

Next ==
  \/ Shift
  \/ TakeWord
  \/ Call
  \/ Build
  \/ Typing
  \/ Mean
  \/ Nest
  \/ Leave
  \/ Emit
  \/ SkipPrototype
  \/ Throw
  \/ Pass

Spec == Init /\ [][Next]_vars /\ WF_vars(Next)

(* Every file is read to its end, whatever is wrong in it: recovering from    *)
(* an error always leaves words behind (parser.cpp:95-118).                 *)
EveryFileEnds == <>(Ended /\ Word = Eof)
=============================================================================
