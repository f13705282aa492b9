------------------------------ MODULE MCDriver ------------------------------
(***************************************************************************)
(* Command lines for Driver: every mode on programs the engines may take    *)
(* apart, and every way of choosing a pipeline, wrong ones included.        *)
(***************************************************************************)
EXTENDS Driver

-----------------------------------------------------------------------------
(* Arguments *)

Tells       == [is |-> "tell"]
NoOpt       == [is |-> "no-opt"]
VerifyEach  == [is |-> "verify-each"]
Lexer(n)    == [is |-> "lexer", name |-> n]
Parser(n)   == [is |-> "parser", name |-> n]
Preset(n)   == [is |-> "preset", name |-> n]
Config      == [is |-> "config"]
Opt(names)  == [is |-> "opt", names |-> names]
Mode(m)     == [is |-> "mode", name |-> m, kind |-> ""]
Bench(n)    == [is |-> "mode", name |-> "--bench-engines", kind |-> n]
Analysis(k) == [is |-> "mode", name |-> "--dump-dataflow", kind |-> k]
File        == [is |-> "file"]

-----------------------------------------------------------------------------
(* Config files *)

Str(s)  == [kind |-> "string", str |-> s]
Num(n)  == [kind |-> "number", num |-> n]
Arr(a)  == [kind |-> "array", arr |-> a]
Obj(kv) == [kind |-> "object", obj |-> kv]
Key(k, v) == [key |-> k, value |-> v]
Names(ns) == Arr([i \in DOMAIN ns |-> Str(ns[i])])
PassesOf(ns) == Obj(<<Key("passes", Names(ns))>>)
Groups(gs) == Obj(<<Key("groups", Arr(gs))>>)

Missing == [kind |-> "missing"]
Invalid == [kind |-> "invalid"]

Sweeps == {Str("fixpoint"), Str("twice"), Num(0), Num(1), Num(32), Num(33)}

RightConfigs ==
  {Obj(<<Key("preset", Str(p))>>) : p \in Presets}
    \cup {Groups(<<PassesOf(<<"ssa", "gvn">>), PassesOf(<<"dce", "dce">>)>>),
          Groups(<<PassesOf(<<"ssa">>)>>)}
    \cup {Groups(<<Obj(<<Key("passes", Names(<<"fold">>)), Key("repeat", s), Key("passes", Names(<<"cse">>))>>)>>) :
            s \in Sweeps}

WrongConfigs ==
  {Missing, Invalid, Names(<<>>), Obj(<<>>), Groups(<<>>), Groups(<<Str("fold")>>), Groups(<<Obj(<<>>)>>),
   Obj(<<Key("preset", Num(1))>>), Obj(<<Key("preset", Str("fast"))>>), Obj(<<Key("pass", Str("fold"))>>),
   Obj(<<Key("preset", Str("classic")), Key("groups", Arr(<<>>))>>),
   Groups(<<Obj(<<Key("passes", Str("fold"))>>)>>), Groups(<<Obj(<<Key("passes", Arr(<<Num(1)>>))>>)>>),
   Groups(<<Obj(<<Key("sweeps", Num(1))>>)>>), Groups(<<PassesOf(<<"inline">>)>>), Groups(<<PassesOf(<<"sort">>)>>),
   Groups(<<PassesOf(<<"gvn", "dce">>)>>)}

\* A group that asks for SSA form by name, around a pass on plain quads.
SsaAroundTac == Groups(<<PassesOf(<<"ssa", "dce">>)>>)

-----------------------------------------------------------------------------
(* Programs *)

Script(ops, value) == [ops |-> ops, value |-> value]

Calm    == Script(<<"println">>, "0")
Unended == Script(<<"print">>, "0")
Other   == Script(<<"println">>, "1")
Reader  == Script(<<"read_int", "read_int">>, "0")
Getter  == Script(<<"getchar", "print", "getchar", "getchar">>, "0")
Trap    == Script(<<"print", "trap">>, "0")

Scripts == {Calm, Unended, Other, Reader, Getter, Trap}

\* Engines that agree but for at most one.
Behaviours ==
  {[e \in Engines |-> IF e = odd THEN t ELSE s] : s \in Scripts, t \in Scripts, odd \in Engines}

Sound(does) == [lexer |-> FALSE, parser |-> FALSE, sema |-> FALSE, broken |-> FALSE, does |-> does]
Steady      == Sound([e \in Engines |-> Reader])
Broken      == [Steady EXCEPT !.broken = TRUE]
Faulty      == {[Steady EXCEPT !.lexer = l, !.parser = p, !.sema = s] : l, p, s \in BOOLEAN}

Inputs == {<<>>, <<"4">>, <<"4", "5">>}

-----------------------------------------------------------------------------
(* Sessions *)

Session(args, config, program, input) ==
  [args |-> args, verify |-> FALSE, opens |-> TRUE, config |-> config, program |-> program, input |-> input]

EngineModes == {<<Mode("--trace-json"), File>>, <<NoOpt, Mode("--trace-json"), File>>, <<Bench(2), File>>,
             <<Mode("--metrics"), File>>, <<NoOpt, Mode("--metrics"), File>>, <<Mode("--run"), File>>,
             <<Preset("optimized"), File, Mode("--run")>>, <<Mode("--run-vm"), File>>, <<Mode("--run-ast"), File>>}

EngineSessions ==
  {Session(a, Missing, Sound(d), i) : a \in EngineModes, d \in Behaviours, i \in Inputs}

Listings == {Mode(m) : m \in {"--dump-ir", "--compile", "--dump-cfg", "--emit-asm", "--dump-ast", "--dump-tokens",
                              "--check", "--print-pipeline", "--run", "--trace-json", "--metrics", "--run-vm", "--dump"}}
              \cup {Analysis("live"), Analysis("dead"), Bench(0)}

ModeSessions ==
  {[Session(<<m, VerifyEach>> \o sel \o <<File>>, Missing, p, <<"4", "5">>) EXCEPT !.opens = o] :
     m \in Listings, sel \in {<<>>, <<Preset("classic")>>}, p \in Faulty \cup {Broken}, o \in BOOLEAN}
    \cup {[Session(<<Mode("--run"), Preset("balanced"), File>>, Missing, Broken, <<>>) EXCEPT !.verify = v] : v \in BOOLEAN}

ArgumentSessions ==
  {Session(a, Missing, Steady, <<>>) :
     a \in {<<>>, <<Tells>>, <<Mode("--trace-json"), Tells>>, <<Mode("--run")>>, <<File>>,
            <<Lexer("handwritten"), Parser("bison"), File, Mode("--check")>>,
            <<NoOpt, Preset("classic"), File>>, <<Opt(<<>>), Config, File>>, <<Preset(""), Mode("--dump-ir"), File>>,
            <<Preset("fast"), Mode("--run"), File>>, <<Opt(<<>>), Mode("--trace-json"), File>>}}

PassNames == {"ssa", "gvn", "sccp", "dce", "fold", "sort", "inline"}

ChoiceSessions ==
  {Session(<<Opt(<<x, y>>), Opt(<<z>>), Mode("--print-pipeline")>>, Missing, Steady, <<>>) : x, y, z \in PassNames}
    \cup {Session(<<Config, Mode("--compile"), File>>, c, Steady, <<>>) : c \in RightConfigs \cup WrongConfigs}

MCSessions == EngineSessions \cup ModeSessions \cup ArgumentSessions \cup ChoiceSessions

MixedSessions == {Session(<<Config, Mode("--compile"), File>>, c, Steady, <<>>) : c \in RightConfigs \cup {SsaAroundTac}}
=============================================================================
