------------------------------- MODULE Grammar --------------------------------
(***************************************************************************)
(* The generated parser (src/parser/parser_bison.y): its grammar, its        *)
(* actions, and the feed of words that tells the names of types from other  *)
(* names.  It is a table of rules, read with one word of lookahead: a       *)
(* reading has on `todo` what is still to come, words, symbols of the       *)
(* grammar and actions, and on `vals` the values made so far; a word leaves *)
(* the readings of the file so far that it can go on.  As the grammar has   *)
(* no conflicts, one of them is left where the generated tables reduce.     *)
(* Lists the grammar writes with left recursion are repetitions here, and   *)
(* rules that begin alike are joined up to where they part.  Left out: what *)
(* follows the first syntax error (the rules with `error`), the wording of  *)
(* diagnostics, floats, a string in parentheses that initialises an array.  *)
(***************************************************************************)
EXTENDS Parser

(* Symbols that are shifted; those of names and literals have a value.      *)
NameKinds == {"IDENT", "TYPE NAME"}
LiteralKinds == {"LITERAL", "STRING"}
Terminals == Reserved \cup NameKinds \cup LiteralKinds

-----------------------------------------------------------------------------
(* Rules: the sequences of symbols a symbol stands for.  Actions have names *)
(* in capitals.                                                             *)

TopRules ==
  "program"  :> {<<>>, <<"top_decl", "program">>} @@
  "top_decl" :> {<<"typedef_decl">>, <<"decl_specs", "declared">>} @@
  "declared" :> {<<";", "DROP">>, <<"DECLARATORS", "var_declarators", ";", "GLOBALS">>,
                 <<"named", "(", "NO PARAMETERS", "params", ")", "body">>} @@
  "body"     :> {<<"compound", "FUNCTION">>, <<";", "PROTOTYPE">>}

SpecifierRules ==
  "decl_specs"  :> {<<"NO WORDS", "type_end">>, <<"NO WORDS", "prefix_item", "prefix_list">>} @@
  "prefix_list" :> {<<"A TYPE">>, <<"prefix_item", "prefix_list">>, <<"type_end">>} @@
  "prefix_item" :> {<<w, "APPLY">> : w \in {"static", "const", "extern", "unsigned", "signed", "long", "short", "int"}} @@
  "type_end"    :> {<<"char", "CHAR">>, <<"void", "VOID">>, <<"struct_spec">>, <<"enum_spec">>, <<"TYPE NAME", "TYPEDEF NAME">>}

TagRules ==
  "struct_spec" :> {<<"struct", "IDENT", "REFERENCE">>, <<"struct", "IDENT", "{", "BEGIN", "fields", "}", "FINISH">>,
                    <<"struct", "{", "NO TAG", "BEGIN", "fields", "}", "FINISH">>} @@
  "fields"      :> {<<>>, <<"decl_specs", "field_declarators", ";", "DROP", "fields">>} @@
  "field_declarators" :> {<<"named", "dims", "FIELD", "more_fields">>} @@
  "more_fields" :> {<<>>, <<",", "field_declarators">>} @@
  "enum_spec"   :> {<<"enum", "IDENT", "DROP", "ENUM">>, <<"enum", "IDENT", "DROP", "{", "RESET", "enumerators", "}", "ENUM">>,
                    <<"enum", "{", "RESET", "enumerators", "}", "ENUM">>} @@
  "enumerators" :> {<<>>, <<"enumerator", "more_enumerators">>} @@
  "more_enumerators" :> {<<>>, <<",">>, <<",", "enumerator", "more_enumerators">>} @@
  "enumerator"  :> {<<"IDENT", "NEXT">>, <<"IDENT", "=", "conditional", "SET">>}

DeclaratorRules ==
  "typedef_decl" :> {<<"typedef", "decl_specs", "typedef_list", ";", "DROP">>} @@
  "typedef_list" :> {<<"named", "dims", "TYPEDEF", "more_typedefs">>} @@
  "more_typedefs" :> {<<>>, <<",", "typedef_list">>} @@
  "stars"  :> {<<>>, <<"*", "STAR", "more_stars">>} @@
  "stars1" :> {<<"*", "STAR", "more_stars">>} @@
  "more_stars" :> {<<>>, <<"*", "STAR", "more_stars">>, <<"const", "more_stars">>} @@
  "named"  :> {<<"NO STARS", "IDENT", "NAMED">>, <<"NO STARS", "stars1", "name">>} @@
  "name"   :> {<<"IDENT", "NAMED">>, <<"TYPE NAME", "NAMED">>} @@
  "type_name" :> {<<"decl_specs", "NO STARS", "stars", "TYPE">>} @@
  "dims"   :> {<<"NO SIZES", "more_dims">>} @@
  "more_dims" :> {<<>>, <<"[", "]", "NO SIZE", "more_dims">>, <<"[", "conditional", "]", "SIZE", "more_dims">>}

VariableRules ==
  "var_declarators" :> {<<"var_declarator", "more_variables">>} @@
  "more_variables"  :> {<<>>, <<",", "var_declarators">>} @@
  "var_declarator"  :> {<<"named", "dims", "TYPED", "init_opt", "DECLARE">>} @@
  "init_opt"   :> {<<"NO VALUE">>, <<"=", "init_node", "INITIALIZER">>} @@
  "init_node"  :> {<<"assignment", "LEAF">>, <<"{", "NO NODES", "init_list", "}">>} @@
  "init_list"  :> {<<>>, <<"init_items">>} @@
  "init_items" :> {<<"init_node", "ADD NODE", "more_items">>} @@
  "more_items" :> {<<>>, <<",">>, <<",", "init_items">>} @@
  "params"      :> {<<>>, <<"param", "more_params">>} @@
  "more_params" :> {<<>>, <<",", "param", "more_params">>, <<",", ".", ".", ".">>} @@
  "param"       :> {<<"decl_specs", "parameter">>} @@
  "parameter"   :> {<<"UNNAMED">>, <<"NO STARS", "stars1", "UNNAMED POINTER">>, <<"named", "dims", "PARAMETER">>}

BlockRules ==
  "compound"    :> {<<"{", "LIST", "block_items">>} @@
  "block_items" :> {<<"}", "BLOCK">>, <<"IDENT", ":", "}", "MARK END", "BLOCK">>, <<"block_item", "ADD ITEMS", "block_items">>} @@
  "block_item"  :> {<<"LIST", "statement", "ADD">>, <<"LIST", "typedef_decl">>, <<"LIST", "decl_specs", "local_decl">>} @@
  "local_decl"  :> {<<";", "DROP">>, <<"locals">>} @@
  "locals"      :> {<<"DECLARATORS", "var_declarators", ";", "LOCALS">>}

StatementRules ==
  "statement" :>
    {<<"compound">>, <<"if", "(", "expression", ")", "statement", "else_part">>, <<"while", "(", "expression", ")", "statement", "WHILE">>,
     <<"do", "statement", "while", "(", "expression", ")", ";", "DO">>,
     <<"for", "(", "expr_opt", ";", "expr_opt", ";", "expr_opt", ")", "statement", "FOR">>,
     <<"for", "(", "LIST", "decl_specs", "locals", "NO TREE", "expr_opt", ";", "expr_opt", ")", "statement", "FOR", "ADD", "BLOCK">>,
     <<"return", "expr_opt", ";", "RETURN">>, <<"break", ";", "BREAK">>, <<"continue", ";", "CONTINUE">>, <<"goto", "IDENT", ";", "GOTO">>,
     <<"IDENT", ":", "statement", "LABEL">>, <<"switch", "(", "expression", ")", "{", "SWITCH", "switch_items">>,
     <<"expression", ";", "EXPRESSION">>, <<"NO TREE", ";", "EXPRESSION">>} @@
  "else_part"    :> {<<"IF">>, <<"else", "statement", "IF ELSE">>} @@
  "switch_items" :> {<<"}", "SWITCH END">>, <<"switch_item", "switch_items">>} @@
  "switch_item"  :> {<<"case", "conditional", ":", "CASE">>, <<"default", ":", "DEFAULT">>, <<"block_item", "ADD TO CASE">>} @@
  "expr_opt"     :> {<<"NO TREE">>, <<"expression">>}

AssignmentRules ==
  "expression" :> {<<"assignment", "commas">>} @@
  "commas"     :> {<<>>, <<",", "assignment", "COMMA", "commas">>} @@
  "assignment" :> {<<"conditional", "assigned">>} @@
  "assigned"   :> ({<<>>} \cup {<<w, "OPERATOR", "assignment", "ASSIGN">> : w \in DOMAIN AssignOps}) @@
  "conditional" :> {<<"logical_or", "choice">>} @@
  "choice"     :> {<<>>, <<"?", "expression", ":", "conditional", "COND">>}

(* One symbol for each level of the binary operators, lowest first, and one  *)
(* for what follows its first operand.                                      *)
LevelOperators ==
  <<{"||"}, {"&&"}, {"|"}, {"^"}, {"&"}, {"==", "!="}, {"<", "<=", ">", ">="}, {"<<", ">>"}, {"+", "-"}, {"*", "/", "%"}>>
LevelSymbols ==
  <<"logical_or", "logical_and", "bit_or", "bit_xor", "bit_and", "equality", "relational", "shift", "additive", "multiplicative", "cast">>
LevelRest == <<"||...", "&&...", "|...", "^...", "&...", "==...", "<...", "<<...", "+...", "*...">>

\* Mutant of LevelRules: what follows an operator may hold others of its level.
LevelRulesRight(n) ==
  LevelSymbols[n] :> {<<LevelSymbols[n + 1], LevelRest[n]>>} @@
  LevelRest[n] :> ({<<>>} \cup {<<w, "OPERATOR", LevelSymbols[n], "BINARY">> : w \in LevelOperators[n]})

LevelRules(n) ==
  LevelSymbols[n] :> {<<LevelSymbols[n + 1], LevelRest[n]>>} @@
  LevelRest[n] :> ({<<>>} \cup {<<w, "OPERATOR", LevelSymbols[n + 1], "BINARY", LevelRest[n]>> : w \in LevelOperators[n]})

UnaryRules ==
  "cast"  :> {<<"unary">>, <<"(", "type_name", ")", "cast", "CAST">>} @@
  "unary" :> ({<<"postfix">>, <<"sizeof", "(", "type_name", "dims", ")", "SIZEOF TYPE">>, <<"sizeof", "unary", "SIZEOF">>}
                \cup {<<w, "OPERATOR", "cast", "PREFIX">> : w \in DOMAIN UnaryOps}
                \cup {<<w, "OPERATOR", "cast", "STEP">> : w \in DOMAIN StepOps})

PostfixRules ==
  "postfix" :> {<<"primary", "applied">>} @@
  "applied" :> ({<<>>, <<"[", "expression", "]", "INDEX", "applied">>, <<"(", "NO ARGUMENTS", ")", "CALL", "applied">>,
                 <<"(", "NO ARGUMENTS", "args", ")", "CALL", "applied">>, <<".", "IDENT", "MEMBER", "applied">>,
                 <<"->", "IDENT", "ARROW", "applied">>} \cup {<<w, "OPERATOR", "STEP AFTER", "applied">> : w \in DOMAIN StepOps}) @@
  "args"      :> {<<"assignment", "ADD ARGUMENT", "more_args">>} @@
  "more_args" :> {<<>>, <<",", "args">>}

PrimaryRules ==
  "primary" :> {<<"IDENT", "VARIABLE">>, <<"LITERAL">>, <<"STRING">>, <<"(", "expression", ")">>}

RuleTable ==
  FoldLeft(LAMBDA rules, n : rules @@ LevelRules(n), TopRules @@ SpecifierRules @@ TagRules @@ DeclaratorRules @@ VariableRules @@ BlockRules
    @@ StatementRules @@ AssignmentRules @@ UnaryRules @@ PostfixRules @@ PrimaryRules, [n \in DOMAIN LevelOperators |-> n])
Rules == [s \in DOMAIN RuleTable |-> RuleTable[s]]

-----------------------------------------------------------------------------
(* Actions: what is made of the last values of a reading                    *)

Value(r, n)   == r.vals[Len(r.vals) - n + 1]
Give(r, n, v) == [r EXCEPT !.vals = Append(SubSeq(@, 1, Len(@) - n), v)]
Less(r, n)    == [r EXCEPT !.vals = SubSeq(@, 1, Len(@) - n)]
Meant(r, s)   == [r EXCEPT !.ctx = Yielding(s, NoTree)]

(* A diagnostic at a place; the first one counts.                           *)
Told(r, wrong, what, at) ==
  IF ~wrong THEN r ELSE [r EXCEPT !.ctx = Report(@, TRUE, what), !.first = IF @ = 0 THEN at ELSE @]

Collection(k, items) == [k |-> k, items |-> items]
Added(c, more) == [c EXCEPT !.items = @ \o more]

(* The effect of one word of a specifier list.                              *)
Apply(w, word) ==
  CASE word = "static" -> [w EXCEPT !.static = TRUE]
    [] word \in {"const", "extern"} -> w
    [] OTHER -> [w EXCEPT !.unsigned = @ \/ word = "unsigned", !.long = @ \/ word = "long", !.short = @ \/ word = "short",
                          !.int = TRUE, !.any = TRUE, !.type = IntT]

Starred(w, head) == [FinishType(w) EXCEPT !.ptr = @ + head.stars]
ApplySizes(s, T, sizes, emptyFirst) ==
  LET sized[n \in 0 .. Len(sizes)] ==
        IF n = 0 THEN Yielding(s, T)
        ELSE With(sized[n - 1], LAMBDA u : ApplyDim(u, u.out, sizes[n], n = 1, emptyFirst))
  IN  sized[Len(sizes)]

(* The type of the words, head and sizes on top.                            *)
Sized(r, emptyFirst) == ApplySizes(r.ctx, Starred(Value(r, 3), Value(r, 2)), Value(r, 1).items, emptyFirst)

SpecifierActions == {"NO WORDS", "A TYPE", "APPLY", "CHAR", "VOID", "TYPEDEF NAME"}
SpecifierAction(r, a) ==
  LET w == Value(r, 1)
      typed(n, T) == Give(r, n, [Value(r, n) EXCEPT !.type = T, !.any = TRUE])
  IN  CASE a = "NO WORDS" -> Give(r, 0, NoWords)
        [] a = "A TYPE"   -> r
        [] a = "APPLY"    -> Give(r, 1, Apply(w, r.last))
        [] a = "CHAR"     -> typed(1, CharT)
        [] a = "VOID"     -> typed(1, VoidT)
        [] a = "TYPEDEF NAME" -> typed(2, r.ctx.typedefs[w.name])

TagActions == {"REFERENCE", "NO TAG", "BEGIN", "FIELD", "FINISH", "ENUM", "RESET", "NEXT", "SET"}
TagAction(r, a) ==
  LET v == Value(r, 1)
      typed(n, s, T) == Meant(Give(r, n, [Value(r, n) EXCEPT !.type = T, !.any = TRUE]), s)
  IN  CASE a = "REFERENCE" -> With(StructReference(r.ctx, v.name), LAMBDA s : typed(2, s, s.out))
        [] a = "NO TAG"   -> Give(r, 0, NameValue(""))
        [] a = "BEGIN"    -> Meant(Less(r, 1), BeginStruct(r.ctx, v.name))
        [] a = "FIELD"    -> Meant(Less(r, 2), With(Sized(r, FALSE), LAMBDA s : AddFieldTo(s, s.out, Value(r, 2).name)))
        [] a = "FINISH"   -> With(FinishStruct(r.ctx), LAMBDA s : typed(1, s, s.out))
        [] a = "ENUM"     -> typed(1, r.ctx, IntT)
        [] a = "RESET"    -> Meant(r, ResetEnum(r.ctx))
        [] a = "NEXT"     -> Meant(Less(r, 1), AddEnumerator(r.ctx, v.name, FALSE, 0))
        [] a = "SET"      ->
             Meant(Less(r, 2), With(ConstInt(r.ctx, v, "constant"), LAMBDA s : AddEnumerator(s, Value(r, 2).name, TRUE, s.out)))

DeclaratorActions == {"NO STARS", "STAR", "NAMED", "TYPE", "NO SIZES", "NO SIZE", "SIZE", "TYPEDEF", "DROP"}
DeclaratorAction(r, a) ==
  LET v == Value(r, 1)
  IN  CASE a = "NO STARS" -> Give(r, 0, [stars |-> 0, name |-> ""])
        [] a = "STAR"     -> Give(r, 1, [v EXCEPT !.stars = @ + 1])
        [] a = "NAMED"    -> Give(r, 2, [Value(r, 2) EXCEPT !.name = v.name])
        [] a = "TYPE"     -> Give(r, 2, TypeValue(Starred(Value(r, 2), v)))
        [] a = "NO SIZES" -> Give(r, 0, Collection("sizes", <<>>))
        [] a = "NO SIZE"  -> Give(r, 1, Added(v, <<NoTree>>))
        [] a = "SIZE"     -> Give(r, 2, Added(Value(r, 2), <<v>>))
        [] a = "TYPEDEF"  -> Meant(Less(r, 2), With(Sized(r, FALSE), LAMBDA s : [s EXCEPT !.typedefs = (Value(r, 2).name :> s.out) @@ @]))
        [] a = "DROP"     -> Less(r, 1)

VariableActions == {"DECLARATORS", "TYPED", "NO VALUE", "LEAF", "NO NODES", "ADD NODE", "INITIALIZER", "DECLARE"}
VariableAction(r, a) ==
  LET v == Value(r, 1)
      sized == ApplySizes(r.ctx, Starred(Value(r, 3).words, Value(r, 2)), v.items, TRUE)
  IN  CASE a = "DECLARATORS" -> Give(r, 1, [words |-> v, made |-> <<>>])
        [] a = "TYPED"    -> With(sized, LAMBDA s : Meant(Give(r, 2, [TypeValue(s.out) EXCEPT !.name = Value(r, 2).name]), s))
        [] a = "NO VALUE" -> Give(r, 0, NoInit)
        [] a = "LEAF"     -> Give(r, 1, InitExpr(v))
        [] a = "NO NODES" -> Give(r, 0, InitList(<<>>))
        [] a = "ADD NODE" -> Give(r, 2, [Value(r, 2) EXCEPT !.kids = Append(@, v)])
        [] a = "INITIALIZER" ->
             Give(r, 1, IF v.isList THEN [kind |-> "list", kids |-> v.kids]
                        ELSE IF Value(r, 2).t.array /\ v.e.k = "str" THEN [kind |-> "string", text |-> v.e.v]
                        ELSE [kind |-> "expr", e |-> v.e])
        [] a = "DECLARE"  ->
             With(Declarator(r.ctx, Value(r, 2).t, Value(r, 2).name, v),
                  LAMBDA s : Meant(Give(r, 3, [Value(r, 3) EXCEPT !.made = Append(@, s.out)]), s))

ParameterActions == {"NO PARAMETERS", "UNNAMED", "UNNAMED POINTER", "PARAMETER"}
ParameterAction(r, a) ==
  LET v == Value(r, 1)
      unnamed(T) == [named |-> FALSE, at |-> r.at, type |-> T, name |-> ""]
      sized == Sized(r, TRUE)
  IN  CASE a = "NO PARAMETERS" -> Give(r, 0, Collection("params", <<>>))
        [] a = "UNNAMED" -> Give(r, 2, Added(Value(r, 2), <<unnamed(FinishType(v))>>))
        [] a = "UNNAMED POINTER" -> Give(r, 3, Added(Value(r, 3), <<unnamed(Starred(Value(r, 2), v))>>))
        [] a = "PARAMETER" ->
             LET p == ParameterOf(sized.out, Value(r, 2).name, v.items # <<>>)
             IN  Meant(Give(r, 4, Added(Value(r, 4), <<[named |-> TRUE, at |-> 0, type |-> p.type, name |-> p.name]>>)), sized)

(* A parameter may lack a name in a prototype, which is dropped, and in the *)
(* one of a function that has none.                                         *)
TopActions == {"PROTOTYPE", "FUNCTION", "GLOBALS"}
TopAction(r, a) ==
  LET v == Value(r, 1)
      ps == Value(r, 2).items
      none == Len(ps) = 1 /\ ~ps[1].named /\ ps[1].type = VoidT
      blamed == FoldLeft(LAMBDA q, x : Told(q, ~x.named /\ ~none, "parameter", x.at), r, ps)
      params == SelectSeq(ps, LAMBDA x : x.named)
      function == [name |-> Value(r, 3).name, ret |-> Starred(Value(r, 4), Value(r, 3)), body |-> v,
                   params |-> [n \in DOMAIN params |-> Tree!Param(params[n].type, params[n].name)]]
  IN  CASE a = "PROTOTYPE" -> Less(r, 3)
        [] a = "FUNCTION"  -> [Less(blamed, 4) EXCEPT !.decls = Append(@, function)]
        [] a = "GLOBALS"   -> [Less(r, 1) EXCEPT !.decls = @ \o v.made]

BlockActions == {"LIST", "ADD", "ADD ITEMS", "LOCALS", "MARK END", "BLOCK"}
BlockAction(r, a) ==
  LET v == Value(r, 1)
      u == Value(r, 2)
      kept(d) == [d EXCEPT !.static = v.words.static]
  IN  CASE a = "LIST"      -> Give(r, 0, [k |-> "list", items |-> <<>>, at |-> r.at])
        [] a = "ADD"       -> Give(r, 2, Added(u, <<v>>))
        [] a = "ADD ITEMS" -> Give(r, 2, Added(u, v.items))
        [] a = "LOCALS"    -> Give(r, 2, Added(u, [n \in DOMAIN v.made |-> kept(v.made[n])]))
        [] a = "MARK END"  -> Give(r, 2, Added(u, <<Tree!Mark(v.name, Tree!Do(NoTree))>>))
        [] a = "BLOCK"     -> Give(r, 1, Tree!Block(v.items))

StatementActions == {"IF", "IF ELSE", "WHILE", "DO", "FOR", "RETURN", "BREAK", "CONTINUE", "GOTO", "LABEL", "EXPRESSION"}
StatementAction(r, a) ==
  LET v == Value(r, 1)
      u == Value(r, 2)
  IN  CASE a = "IF"        -> Give(r, 2, Tree!If(u, v))
        [] a = "IF ELSE"   -> Give(r, 3, Tree!IfElse(Value(r, 3), u, v))
        [] a = "WHILE"     -> Give(r, 2, Tree!While(u, v))
        [] a = "DO"        -> Give(r, 2, Tree!DoWhile(u, v))
        [] a = "FOR"       -> Give(r, 4, Tree!For(Value(r, 4), Value(r, 3), u, v))
        [] a = "RETURN"    -> Give(r, 1, Tree!Return(v))
        [] a = "BREAK"     -> Give(r, 0, Tree!Break)
        [] a = "CONTINUE"  -> Give(r, 0, Tree!Continue)
        [] a = "GOTO"      -> Give(r, 1, Tree!Goto(v.name))
        [] a = "LABEL"     -> Give(r, 2, Tree!Mark(u.name, v))
        [] a = "EXPRESSION" -> Give(r, 1, Tree!Do(v))

(* A statement before the first case is dropped and reported where it began. *)
SwitchActions == {"SWITCH", "CASE", "DEFAULT", "ADD TO CASE", "SWITCH END"}
SwitchAction(r, a) ==
  LET v == Value(r, 1)
      u == Value(r, 2)
      label == ConstInt(r.ctx, v, "constant")
  IN  CASE a = "SWITCH"    -> Give(r, 1, [k |-> "cases", c |-> v, cases |-> <<>>])
        [] a = "CASE"      -> Meant(Give(r, 2, [u EXCEPT !.cases = Append(@, WithCase(label.out, FALSE))]), label)
        [] a = "DEFAULT"   -> Give(r, 1, [v EXCEPT !.cases = Append(@, WithCase(0, TRUE))])
        [] a = "ADD TO CASE" ->
             IF u.cases = <<>> THEN Told(Less(r, 1), v.items # <<>>, "before the first case", v.at)
             ELSE Give(r, 2, WithStatements(u, v.items))
        [] a = "SWITCH END" -> Give(r, 1, Tree!Switch(v.c, v.cases))

AssignmentActions == {"NO TREE", "OPERATOR", "COMMA", "ASSIGN", "COND"}
AssignmentAction(r, a) ==
  LET v == Value(r, 1)
      u == Value(r, 2)
      target == Value(r, 3)
  IN  CASE a = "NO TREE"  -> Give(r, 0, NoTree)
        [] a = "OPERATOR" -> Give(r, 0, NameValue(r.last))
        [] a = "COMMA"    -> Give(r, 2, Tree!Comma(u, v))
        [] a = "ASSIGN"   -> Meant(Give(r, 3, Tree!AssignOp(target, AssignOps[u.name], v)), Report(r.ctx, ~IsLvalue(target), "lvalue"))
        [] a = "COND"     -> Give(r, 3, Tree!Cond(target, u, v))

BinaryAction(r) == Give(r, 3, Tree!Bin(Value(r, 3), BinaryOps[Value(r, 2).name].name, Value(r, 1)))

UnaryActions == {"CAST", "SIZEOF TYPE", "SIZEOF", "PREFIX", "STEP"}
UnaryAction(r, a) ==
  LET v == Value(r, 1)
      u == Value(r, 2)
      sized == ApplySizes(r.ctx, u.t, v.items, FALSE)
  IN  CASE a = "CAST"     -> Give(r, 2, Tree!To(v, u.t))
        [] a = "SIZEOF TYPE" -> Meant(Give(r, 2, SizeofType(BytesOf(sized.structs, sized.out))), sized)
        [] a = "SIZEOF"   -> Give(r, 1, SizeofExpr(v))
        [] a = "PREFIX"   -> Give(r, 2, Tree!Un(UnaryOps[u.name], v))
        [] a = "STEP"     -> Give(r, 2, Tree!Inc(v, StepOps[u.name], TRUE))

PostfixActions == {"STEP AFTER", "INDEX", "NO ARGUMENTS", "ADD ARGUMENT", "CALL", "MEMBER", "ARROW", "VARIABLE"}
PostfixAction(r, a) ==
  LET v == Value(r, 1)
      u == Value(r, 2)
  IN  CASE a = "STEP AFTER" -> Give(r, 2, Tree!Inc(u, StepOps[v.name], FALSE))
        [] a = "INDEX"    -> Give(r, 2, Tree!At(u, v))
        [] a = "NO ARGUMENTS" -> Give(r, 0, Collection("arguments", <<>>))
        [] a = "ADD ARGUMENT" -> Give(r, 2, Added(u, <<v>>))
        [] a = "CALL"     -> Meant(Give(r, 2, CallTree(u, v.items)), Report(r.ctx, u.k # "ident", "callee"))
        [] a = "MEMBER"   -> Give(r, 2, Tree!Dot(u, v.name))
        [] a = "ARROW"    -> Give(r, 2, Tree!Arrow(u, v.name))
        [] a = "VARIABLE" -> Give(r, 1, NameTree(r.ctx.enums, v.name))

Acted(r, a) ==
  CASE a = "BINARY"            -> BinaryAction(r)
    [] a \in SpecifierActions  -> SpecifierAction(r, a)
    [] a \in TagActions        -> TagAction(r, a)
    [] a \in DeclaratorActions -> DeclaratorAction(r, a)
    [] a \in VariableActions   -> VariableAction(r, a)
    [] a \in ParameterActions  -> ParameterAction(r, a)
    [] a \in TopActions        -> TopAction(r, a)
    [] a \in BlockActions      -> BlockAction(r, a)
    [] a \in StatementActions  -> StatementAction(r, a)
    [] a \in SwitchActions     -> SwitchAction(r, a)
    [] a \in AssignmentActions -> AssignmentAction(r, a)
    [] a \in UnaryActions      -> UnaryAction(r, a)
    [] a \in PostfixActions    -> PostfixAction(r, a)

(* Where an action or the precedence of else refuses: specifiers without a  *)
(* type, an if that ends before its else.                                   *)
Refused(r, a, kind) == (a = "A TYPE" /\ ~Value(r, 1).any) \/ (a = "IF" /\ kind = "else")

-----------------------------------------------------------------------------
(* Readings: those r leads to that have a word of this kind next, or, at    *)
(* the end of the file, nothing.  A reading that has neither first chooses  *)
(* a rule or carries out an action.                                         *)
RECURSIVE Ready(_, _)
Ready(r, kind) ==
  LET next == Head(r.todo)
      rest == [r EXCEPT !.todo = Tail(@)]
  IN  IF r.todo = <<>> THEN (IF kind = Eof THEN {r} ELSE {})
      ELSE IF next \in Terminals THEN (IF next = kind THEN {r} ELSE {})
      ELSE UNION {Ready(s, kind) : s \in
             IF next \in DOMAIN Rules THEN {[rest EXCEPT !.todo = way \o @] : way \in Rules[next]}
             ELSE IF Refused(r, next, kind) THEN {} ELSE {With(rest, LAMBDA q : Acted(q, next))}}

(* ... and what they are when the word has been shifted.                    *)
Shifted(r, kind, word) ==
  LET s == [r EXCEPT !.todo = Tail(@), !.last = word]
  IN  IF kind \in NameKinds THEN Give(s, 0, NameValue(word)) ELSE IF kind \in LiteralKinds THEN Give(s, 0, Literals[word]) ELSE s

(* The feed: an identifier is the name of a type if it is one of the        *)
(* typedefs so far, unless a word of a type or one that asks for a name     *)
(* comes before it; a bracket beyond the limit is no word at all.           *)
NamesNoType == {"struct", "enum", ".", "->", "goto"}
FedKind(f, word) ==
  IF word \in {"(", "["} /\ f.open >= MaxDepth THEN "<error>"
  ELSE IF /\ KindOf(word) = "IDENT"
          /\ \E r \in f.readings : word \in DOMAIN r.ctx.typedefs
          /\ ~f.typeSeen
          /\ f.prev \notin NamesNoType
       THEN "TYPE NAME" ELSE KindOf(word)

Feed(f, word) ==
  LET kind == FedKind(f, word)
      at == f.at + 1
      Fed(ready) ==
        IF ready = {} THEN [f EXCEPT !.stop = at]
        ELSE [readings |-> {IF kind = Eof THEN r ELSE Shifted(r, kind, word) : r \in ready},
              at |-> at, stop |-> 0, prev |-> word,
              typeSeen |-> kind = "TYPE NAME" \/ word \in TypeKeywords \/ (f.typeSeen /\ word \in {"static", "const", "extern"}),
              open |-> IF word \in {"(", "["} THEN f.open + 1 ELSE IF word \in {")", "]"} /\ f.open > 0 THEN f.open - 1 ELSE f.open]
  IN  IF f.stop # 0 THEN f ELSE With(UNION {Ready([r EXCEPT !.at = at], kind) : r \in f.readings}, Fed)

Reading == [todo |-> <<"program">>, vals |-> <<>>, ctx |-> Context, decls |-> <<>>, last |-> Eof, at |-> 0, first |-> 0]
Feeding == [readings |-> {Reading}, at |-> 0, stop |-> 0, prev |-> Eof, typeSeen |-> FALSE, open |-> 0]

(* What comes of a file: the declarations and errors, where it stops making  *)
(* sense (0 if it does not), and the place of its first diagnostic.         *)
Outcome(words) ==
  LET fed[n \in 0 .. Len(words)] == IF n = 0 THEN Feeding ELSE With(fed[n - 1], LAMBDA f : Feed(f, words[n]))
      Result(f, r) == [decls |-> r.decls, errors |-> r.ctx.errors, stop |-> f.stop, first |-> IF r.first = 0 THEN f.stop ELSE r.first]
  IN  With(fed[Len(words)], LAMBDA f : Result(f, CHOOSE r \in f.readings : TRUE))
=============================================================================
