------------------------------- MODULE Driver -------------------------------
(***************************************************************************)
(* The command line (src/main.cpp): the arguments, the choice of pipeline,  *)
(* the stages a mode goes through, the engines that run on the program's    *)
(* input with std::cin and std::cout redirected, and what is left on        *)
(* stdout, on stderr and as exit code.                                      *)
(*                                                                         *)
(* A stage is its outcome: a program is [lexer, parser, sema, broken, does], *)
(* saying whether each of the front end's stages reports something, whether *)
(* a pass leaves what the verifier refuses, and for each engine the reads,  *)
(* prints and traps it makes of the program, in order, with main's value.   *)
(* The engines need not agree: that they do is module Engines' concern.     *)
(***************************************************************************)
EXTENDS Integers, Sequences, FiniteSets, SequencesExt

(* How a pipeline is chosen (src/opt/pipeline.cpp): from a preset, from the *)
(* names of --opt=, or from a --config file, and what resolvePipeline lets  *)
(* through.  A verdict is [pipeline, err]; err is "none" when it is         *)
(* accepted, else it names the reason.  Messages are left out.              *)
(*                                                                         *)
(* A JSON value is [kind] with str, num, arr or obj; an object is a         *)
(* sequence of [key, value] in the order of the file, repeated keys too.    *)

TacOrder == <<"fold", "constprop", "copyprop", "cse", "dce", "unreachable", "strength", "licm", "peephole">>
SsaOrder == <<"sccp", "gvn", "licm-ssa", "ssa-dce">>

TacNames == Range(TacOrder)
SsaNames == Range(SsaOrder)

(* The transforms of the technique registry; no transform conflicts with    *)
(* another one.                                                             *)
Planned == {"inline", "loop-unroll", "vectorize"}
KindOf(n) ==
  CASE n \in TacNames           -> "transform-tac"
    [] n \in SsaNames \cup Planned -> "transform-ssa"
    [] OTHER                    -> "none"
ConflictsWith(n) == {}

FixpointGroup(passes) == [passes |-> passes, fixpoint |-> TRUE, sweeps |-> 32, ssa |-> FALSE]

Accepted(pl) == [pipeline |-> pl, err |-> "none"]
Refused(err) == [pipeline |-> <<>>, err |-> err]

-----------------------------------------------------------------------------
(* resolvePipeline *)

(* What it objects to in one name of a group.                               *)
NameFault(g, n) ==
  IF n = "ssa" THEN "none"
  ELSE IF KindOf(n) = "none" THEN "unknown pass"
  ELSE IF n \in Planned THEN "planned"
  ELSE IF ConflictsWith(n) \cap Range(g.passes) # {} THEN "conflict"
  ELSE "none"

OfKind(g, kind) == {n \in Range(g.passes) : KindOf(n) = kind}
Kept(g)     == SelectSeq(g.passes, LAMBDA n : n # "ssa")
WantsSsa(g) == g.ssa \/ "ssa" \in Range(g.passes)
Mixed(g)    == OfKind(g, "transform-ssa") # {} /\ OfKind(g, "transform-tac") # {}

(* The first fault of a group; the names come before the group as a whole.  *)
GroupFault(g) ==
  LET faulty == SelectSeq(g.passes, LAMBDA n : NameFault(g, n) # "none")
  IN  IF faulty # <<>> THEN NameFault(g, faulty[1])
      ELSE IF Mixed(g) THEN "mixed"
      ELSE IF Kept(g) = <<>> /\ ~WantsSsa(g) THEN "no passes"
      ELSE "none"

Marked(g) == [g EXCEPT !.passes = Kept(g), !.ssa = WantsSsa(g) \/ OfKind(g, "transform-ssa") # {}]

ResolvePipeline(groups) ==
  LET faults == SelectSeq([i \in DOMAIN groups |-> GroupFault(groups[i])], LAMBDA f : f # "none")
  IN  IF faults = <<>> THEN Accepted([i \in DOMAIN groups |-> Marked(groups[i])]) ELSE Refused(faults[1])

-----------------------------------------------------------------------------
(* The three ways to choose *)

Presets == {"correctness", "balanced", "classic", "optimized"}

PresetPipeline(name) ==
  CASE name = "correctness" -> Accepted(<<>>)
    [] name = "balanced" ->
         ResolvePipeline(<<FixpointGroup(<<"fold", "constprop", "copyprop", "dce", "unreachable", "peephole">>)>>)
    [] name = "classic"   -> ResolvePipeline(<<FixpointGroup(TacOrder)>>)
    [] name = "optimized" ->
         ResolvePipeline(<<FixpointGroup(SsaOrder), FixpointGroup(SelectSeq(TacOrder, LAMBDA n : n # "strength"))>>)
    [] OTHER -> Refused("unknown preset")

(* --opt=: whatever the order asked for, each pass once, in the order of    *)
(* the tables, the SSA passes in a group of their own ahead of the others.  *)
PipelineFromPassList(names) ==
  LET asked   == Range(names)
      unknown == SelectSeq(names, LAMBDA n : n \notin {"ssa"} \cup SsaNames \cup TacNames)
      ssa     == SelectSeq(SsaOrder, LAMBDA n : n \in asked)
      tac     == SelectSeq(TacOrder, LAMBDA n : n \in asked)
      first   == IF "ssa" \in asked \/ ssa # <<>> THEN <<[FixpointGroup(ssa) EXCEPT !.ssa = TRUE]>> ELSE <<>>
      second  == IF tac # <<>> THEN <<FixpointGroup(tac)>> ELSE <<>>
  IN  IF unknown # <<>> THEN ResolvePipeline(<<FixpointGroup(<<unknown[1]>>)>>) ELSE ResolvePipeline(first \o second)

(* A key's first value; get() gives a null pointer when there is none.      *)
Has(json, key) == \E i \in DOMAIN json.obj : json.obj[i].key = key
Get(json, key) == SelectSeq(json.obj, LAMBDA kv : kv.key = key)[1].value

(* One key of a group, onto the group as the keys before it left it.        *)
WithKey(g, kv) ==
  IF g.err # "none" THEN g
  ELSE CASE kv.key = "passes" ->
              IF kv.value.kind # "array" THEN [g EXCEPT !.err = "passes"]
              ELSE IF \E i \in DOMAIN kv.value.arr : kv.value.arr[i].kind # "string" THEN [g EXCEPT !.err = "names"]
              ELSE [g EXCEPT !.group.passes = @ \o [i \in DOMAIN kv.value.arr |-> kv.value.arr[i].str]]
         [] kv.key = "repeat" ->
              IF kv.value.kind = "string" /\ kv.value.str = "fixpoint" THEN [g EXCEPT !.group.fixpoint = TRUE]
              ELSE IF kv.value.kind = "number" /\ kv.value.num \in 1 .. 32
                     THEN [g EXCEPT !.group.fixpoint = FALSE, !.group.sweeps = kv.value.num]
              ELSE [g EXCEPT !.err = "repeat"]
         [] OTHER -> [g EXCEPT !.err = "group key"]

GroupOf(json) ==
  IF json.kind # "object" THEN [group |-> FixpointGroup(<<>>), err |-> "group"]
  ELSE FoldLeft(WithKey, [group |-> FixpointGroup(<<>>), err |-> "none"], json.obj)

(* A --config file, parsed as far as its JSON: kind "invalid" is no JSON.   *)
ParsePipelineConfig(json) ==
  LET groups == [i \in DOMAIN Get(json, "groups").arr |-> GroupOf(Get(json, "groups").arr[i])]
      faulty == SelectSeq(groups, LAMBDA g : g.err # "none")
  IN  IF json.kind = "invalid" THEN Refused("json")
      ELSE IF json.kind # "object" THEN Refused("config")
      ELSE IF \E i \in DOMAIN json.obj : json.obj[i].key \notin {"preset", "groups"} THEN Refused("config key")
      ELSE IF Has(json, "preset") /\ Has(json, "groups") THEN Refused("either")
      ELSE IF Has(json, "preset")
             THEN IF Get(json, "preset").kind = "string" THEN PresetPipeline(Get(json, "preset").str)
                  ELSE Refused("preset")
      ELSE IF ~Has(json, "groups") \/ Get(json, "groups").kind # "array" THEN Refused("groups")
      ELSE IF Get(json, "groups").arr = <<>> THEN Refused("groups")
      ELSE IF faulty # <<>> THEN Refused(faulty[1].err)
      ELSE ResolvePipeline([i \in DOMAIN groups |-> groups[i].group])

-----------------------------------------------------------------------------
(* The process *)

CONSTANT Sessions   \* [args, verify, opens, config, program, input]: what a process is started with

Engines == {"ast", "quads", "optimized", "vm"}
Ops     == {"print", "println", "read_int", "getchar", "trap"}

ASSUME SessionsAssumption ==
  \A s \in Sessions :
    /\ s.verify \in BOOLEAN /\ s.opens \in BOOLEAN
    /\ s.args \in Seq(Range(s.args))
    /\ \A a \in Range(s.args) : a.is = "mode" /\ a.name = "--bench-engines" => a.kind \in Int
    /\ s.input \in Seq(Range(s.input))
    /\ \A e \in Engines : s.program.does[e].ops \in Seq(Ops)

VARIABLES
  session,   \* what the process was started with
  rest,      \* the arguments not read yet
  opts,      \* what those read so far chose
  pipeline,  \* OptConfig::pipeline
  pc,        \* "args", "mode", "optimize", "engines"; "exited"
  jobs,      \* the engine runs ahead, [engine, replay, capture]; the first is the one that runs
  at,        \* how many operations it has made; -1 between runs
  stdin,     \* what is left of the process's input
  slurped,   \* what slurpStdin took of it
  cin,       \* std::cin: [replays, feed, failed]; feed is the replayed input left
  cout,      \* std::cout: [captures, text]; text is what it captured
  results,   \* what engines left: [output, rc, count]
  stdout,    \* what the process printed
  documents, \* the JSON documents among it
  stderr,
  exit       \* the exit code; -1 while the process runs

vars == <<session, rest, opts, pipeline, pc, jobs, at, stdin, slurped, cin, cout, results,
          stdout, documents, stderr, exit>>

settings == <<session, rest, opts, pipeline>>
streams  == <<stdin, slurped, cin, cout>>
work     == <<jobs, at, results>>

NoCin  == [replays |-> FALSE, feed |-> <<>>, failed |-> FALSE]
NoCout == [captures |-> FALSE, text |-> <<>>]

Unset == [mode |-> "", kind |-> "", file |-> FALSE, preset |-> "", config |-> FALSE, list |-> FALSE, only |-> <<>>,
          noOpt |-> FALSE, requested |-> FALSE, verify |-> FALSE, lexer |-> "re2c", parser |-> "handwritten"]

Init ==
  /\ session \in Sessions
  /\ rest = session.args
  /\ opts = [Unset EXCEPT !.verify = session.verify]
  /\ pipeline = <<>>
  /\ pc = "args"
  /\ jobs = <<>> /\ at = -1 /\ results = <<>>
  /\ stdin = session.input /\ slurped = <<>> /\ cin = NoCin /\ cout = NoCout
  /\ stdout = <<>> /\ documents = <<>> /\ stderr = <<>>
  /\ exit = -1

-----------------------------------------------------------------------------
(* How a process ends: what it prints last on each stream, and its code.    *)
Exit(code, printed, complaint) ==
  /\ pc' = "exited"
  /\ exit' = code
  /\ stdout' = stdout \o printed
  /\ stderr' = stderr \o complaint

(* A document is printed whole.                                             *)
Answer(code, doc) ==
  /\ Exit(code, <<"document">>, <<>>)
  /\ documents' = Append(documents, doc)

Fails(code, complaint) == Exit(code, <<>>, <<complaint>>) /\ UNCHANGED documents

GoTo(stage) == pc' = stage /\ UNCHANGED <<stdout, documents, stderr, exit>>

-----------------------------------------------------------------------------
(* Arguments *)

NoArguments ==
  /\ pc = "args"
  /\ session.args = <<>>
  /\ Exit(1, <<"usage">>, <<>>)
  /\ UNCHANGED <<settings, documents, streams, work>>

(* --help, --version and --list-techniques end the process where they stand. *)
Tell ==
  /\ pc = "args"
  /\ rest # <<>>
  /\ Head(rest).is = "tell"
  /\ Exit(0, <<"usage">>, <<>>)
  /\ UNCHANGED <<settings, documents, streams, work>>

(* What one argument does to the options; of two of a kind the last counts, *)
(* but the names of --opt= accumulate.                                      *)
With(o, a) ==
  CASE a.is = "no-opt"      -> [o EXCEPT !.requested = TRUE, !.noOpt = TRUE]
    [] a.is = "verify-each" -> [o EXCEPT !.verify = TRUE]
    [] a.is = "lexer"       -> [o EXCEPT !.lexer = a.name]
    [] a.is = "parser"      -> [o EXCEPT !.parser = a.name]
    [] a.is = "preset"      -> [o EXCEPT !.requested = TRUE, !.preset = a.name]
    [] a.is = "config"      -> [o EXCEPT !.requested = TRUE, !.config = TRUE]
    [] a.is = "opt"         -> [o EXCEPT !.requested = TRUE, !.list = TRUE, !.only = @ \o a.names]
    [] a.is = "mode"        -> [o EXCEPT !.mode = a.name, !.kind = a.kind]
    [] OTHER                -> [o EXCEPT !.file = TRUE]

ReadArgument ==
  /\ pc = "args"
  /\ rest # <<>>
  /\ Head(rest).is # "tell"
  /\ opts' = With(opts, Head(rest))
  /\ rest' = Tail(rest)
  /\ UNCHANGED <<session, pipeline, pc, streams, work, stdout, documents, stderr, exit>>

(* The ways of choosing a pipeline that were used; an empty --preset= is none. *)
Sources == Cardinality({w \in {"no-opt", "opt", "preset", "config"} :
  CASE w = "no-opt" -> opts.noOpt
    [] w = "opt"    -> opts.list
    [] w = "preset" -> opts.preset # ""
    [] w = "config" -> opts.config})

Chosen ==
  IF opts.noOpt \/ (opts.list /\ opts.only = <<>>) THEN PresetPipeline("correctness")
  ELSE IF opts.list THEN PipelineFromPassList(opts.only)
  ELSE IF opts.preset # "" THEN PresetPipeline(opts.preset)
  ELSE IF opts.config THEN ParsePipelineConfig(session.config)
  ELSE PresetPipeline("classic")

Unreadable == opts.config /\ session.config.kind = "missing"

Choose ==
  /\ pc = "args"
  /\ rest = <<>>
  /\ session.args # <<>>
  /\ \/ Sources > 1 /\ Fails(3, "choose one") /\ UNCHANGED pipeline
     \/ Sources <= 1 /\ Unreadable /\ Fails(2, "cannot open config") /\ UNCHANGED pipeline
     \/ /\ Sources <= 1
        /\ ~Unreadable
        /\ \E verdict \in {Chosen} :
             IF verdict.err # "none" THEN Fails(3, "invalid pipeline") /\ UNCHANGED pipeline
             ELSE /\ pipeline' = verdict.pipeline
                  /\ IF opts.mode = "--print-pipeline" THEN Exit(0, <<"listing">>, <<>>) /\ UNCHANGED documents
                     ELSE IF ~opts.file THEN Fails(1, "no input file")
                     ELSE GoTo("mode")
  /\ UNCHANGED <<session, rest, opts, streams, work>>

-----------------------------------------------------------------------------
(* Modes *)

Program == session.program

CheckedModes == {"--dump-ir", "--run", "--run-ast", "--run-vm", "--compile", "--bench-engines", "--dump-cfg",
                 "--dump-dataflow", "--emit-asm", "--metrics"}
FrontModes   == {"--dump-tokens", "", "--dump-ast", "--check"}
KnownModes   == CheckedModes \cup FrontModes \cup {"--trace-json"}

(* What the stages complain of, as far as a mode goes; semantic analysis    *)
(* only runs on what was lexed and parsed without a complaint.              *)
Complaints(upTo) ==
  LET front == {s \in {"lexer", "parser"} \cap upTo : Program[s]}
  IN  front \cup {s \in {"sema"} \cap upTo : front = {} /\ Program[s]}
AllStages == {"lexer", "parser", "sema"}
Complain(upTo) == IF Complaints(upTo) = {} THEN <<>> ELSE <<"error">>

UnknownMode ==
  /\ pc = "mode"
  /\ opts.mode \notin KnownModes
  /\ Fails(3, "unknown option")
  /\ UNCHANGED <<settings, streams, work>>

(* --dump-tokens, --dump-ast and --check stop at their stage; what they     *)
(* print does not depend on whether something was reported.                 *)
FrontStage ==
  /\ pc = "mode"
  /\ opts.mode \in FrontModes
  /\ IF ~session.opens THEN Fails(2, "cannot open")
     ELSE LET upTo == CASE opts.mode \in {"--dump-tokens", ""} -> {"lexer"}
                        [] opts.mode = "--dump-ast"           -> {"lexer", "parser"}
                        [] opts.mode = "--check"              -> AllStages
          IN  /\ Exit(IF Complaints(upTo) = {} THEN 0 ELSE 1,
                      IF opts.mode = "--check" THEN <<>> ELSE <<"listing">>, Complain(upTo))
              /\ UNCHANGED documents
  /\ UNCHANGED <<settings, streams, work>>

BadAnalysis == opts.mode = "--dump-dataflow" /\ opts.kind \notin {"reach", "avail", "live"}

(* checkedParse: code is only generated for a program without an error.     *)
CheckedParse ==
  /\ pc = "mode"
  /\ opts.mode \in CheckedModes
  /\ IF BadAnalysis THEN Fails(2, "expects")
     ELSE IF ~session.opens THEN Fails(1, "cannot open")
     ELSE IF Complaints(AllStages) # {} THEN Fails(1, "error")
     ELSE GoTo("optimize")
  /\ UNCHANGED <<settings, streams, work>>

(* --trace-json reports what the others print.                              *)
TraceFront ==
  /\ pc = "mode"
  /\ opts.mode = "--trace-json"
  /\ IF ~session.opens THEN Answer(2, [is |-> "trace", ok |-> FALSE, diagnostics |-> {}])
     ELSE IF Complaints(AllStages) # {}
       THEN Answer(1, [is |-> "trace", ok |-> FALSE, diagnostics |-> Complaints(AllStages)])
     ELSE GoTo("optimize")
  /\ UNCHANGED <<settings, streams, work>>

-----------------------------------------------------------------------------
(* The optimizer, and what is to run after it *)

Optimizes ==
  \/ opts.mode \in {"--dump-ir", "--run", "--run-vm", "--compile", "--dump-cfg", "--emit-asm"} /\ opts.requested
  \/ opts.mode = "--metrics" /\ ~opts.noOpt
  \/ opts.mode \in {"--bench-engines", "--trace-json"}

(* With no pass the code stays as it was generated.                         *)
OptimizedCode == IF Optimizes /\ pipeline # <<>> THEN "optimized" ELSE "quads"

Plain(engine)    == [engine |-> engine, replay |-> FALSE, capture |-> FALSE]
Counted(engine)  == [engine |-> engine, replay |-> TRUE, capture |-> FALSE]
Captured(engine) == [engine |-> engine, replay |-> TRUE, capture |-> TRUE]

(* --bench-engines=N runs each engine N times, but once at least and 101    *)
(* times at most.                                                           *)
Runs == IF opts.kind < 1 THEN 1 ELSE IF opts.kind > 101 THEN 101 ELSE opts.kind
BenchJobs ==
  [i \in 1 .. 3 * Runs |->
     Captured(IF i <= Runs THEN OptimizedCode ELSE IF i <= 2 * Runs THEN "vm" ELSE "ast")]

TraceJobs == <<Captured("quads"), Captured(OptimizedCode), Captured("ast"), Captured("vm")>>

JobsOf(mode) ==
  CASE mode = "--run"           -> <<Plain(OptimizedCode)>>
    [] mode = "--run-vm"        -> <<Plain("vm")>>
    [] mode = "--run-ast"       -> <<Plain("ast")>>
    [] mode = "--metrics"       -> <<Counted("quads"), Counted(OptimizedCode)>>
    [] mode = "--trace-json"    -> TraceJobs
    [] mode = "--bench-engines" -> BenchJobs
    [] OTHER                    -> <<>>

(* Runs that replay their input take it from the process first.             *)
Slurps == opts.mode \in {"--metrics", "--trace-json", "--bench-engines"}

Optimize ==
  /\ pc = "optimize"
  /\ IF Optimizes /\ pipeline # <<>> /\ opts.verify /\ Program.broken
       THEN Fails(4, "IR verifier failed") /\ UNCHANGED <<streams, work>>
     ELSE IF JobsOf(opts.mode) = <<>>
       THEN Exit(0, <<"listing">>, <<>>) /\ UNCHANGED <<documents, streams, work>>
     ELSE /\ pc' = "engines"
          /\ jobs' = JobsOf(opts.mode)
          /\ slurped' = IF Slurps THEN stdin ELSE slurped
          /\ stdin' = IF Slurps THEN <<>> ELSE stdin
          /\ stdout' = IF opts.mode = "--metrics" THEN Append(stdout, "listing") ELSE stdout
          /\ UNCHANGED <<at, results, cin, cout, documents, stderr, exit>>
  /\ UNCHANGED settings

-----------------------------------------------------------------------------
(* Running one engine.  Input is a sequence of items, each a number on a    *)
(* line of its own.                                                         *)

Job    == jobs[1]
Does   == Program.does[Job.engine]
Source == IF cin.replays THEN cin.feed ELSE stdin

\* Mutant of StartJob: the runs share one pass over the input.
StartJobUnreplayed ==
  /\ pc = "engines"
  /\ jobs # <<>>
  /\ at = -1
  /\ at' = 0
  /\ cin' = [replays |-> Job.replay, failed |-> cin.failed /\ ~Job.replay,
             feed |-> IF results = <<>> THEN slurped ELSE cin.feed]
  /\ cout' = [captures |-> Job.capture, text |-> <<>>]
  /\ UNCHANGED <<settings, pc, jobs, stdin, slurped, results, stdout, documents, stderr, exit>>

(* The streams are redirected as the run wants; redirecting std::cin also   *)
(* clears it.                                                               *)
StartJob ==
  /\ pc = "engines"
  /\ jobs # <<>>
  /\ at = -1
  /\ at' = 0
  /\ cin' = [replays |-> Job.replay, failed |-> cin.failed /\ ~Job.replay,
             feed |-> IF Job.replay THEN slurped ELSE <<>>]
  /\ cout' = [captures |-> Job.capture, text |-> <<>>]
  /\ UNCHANGED <<settings, pc, jobs, stdin, slurped, results, stdout, documents, stderr, exit>>

(* One operation on a stream that has `left` to give: read_int prints the   *)
(* number it reads, and its failure sticks to the stream; getchar prints    *)
(* what it got, and clears the stream at its end.                           *)
Exec(op, left, failed) ==
  LET ended == failed \/ left = <<>>
      does(prints, fails, stops) ==
        [prints |-> prints, failed |-> fails, stops |-> stops,
         left |-> IF op \in {"read_int", "getchar"} /\ ~ended THEN Tail(left) ELSE left]
  IN  CASE op = "print"    -> does(<<"text">>, failed, FALSE)
        [] op = "println"  -> does(<<"text", "newline">>, failed, FALSE)
        [] op = "trap"     -> does(<<>>, failed, TRUE)
        [] op = "read_int" -> IF ended THEN does(<<>>, TRUE, TRUE) ELSE does(<<left[1]>>, FALSE, FALSE)
        [] op = "getchar"  -> IF ended THEN does(<<"-1">>, FALSE, FALSE) ELSE does(<<left[1]>>, FALSE, FALSE)

(* What captureRun makes of a run's output and its end.                     *)
Rendered(text, ending) ==
  (IF text # <<>> /\ Last(text) # "newline" THEN Append(text, "newline") ELSE text) \o ending

Value == <<Does.value, "newline">>

(* The run is over and the streams are as they were before it.              *)
Restore == cin' = [NoCin EXCEPT !.failed = cin.failed /\ ~Job.replay] /\ cout' = NoCout

\* Mutant of EndJob: a run that fails leaves std::cout redirected.
EndJobUnrestored(rc, ending) ==
  /\ at' = -1
  /\ jobs' = Tail(jobs)
  /\ IF Job.capture /\ rc # 0 THEN cout' = cout /\ cin' = NoCin ELSE Restore
  /\ IF Job.capture
       THEN /\ results' = Append(results, [output |-> Rendered(cout.text, ending), rc |-> rc, count |-> at])
            /\ UNCHANGED <<pc, stdout, documents, stderr, exit>>
     ELSE IF rc # 0 THEN Fails(1, "runtime error") /\ UNCHANGED results
     ELSE IF Job.replay
       THEN /\ results' = Append(results, [output |-> <<>>, rc |-> 0, count |-> at])
            /\ UNCHANGED <<pc, stdout, documents, stderr, exit>>
     ELSE Exit(0, ending, <<>>) /\ UNCHANGED <<results, documents>>
  /\ UNCHANGED <<settings, stdin, slurped>>

(* The run ended, with a value or in a runtime error: captured, that is one *)
(* more result; else an error ends the process, and so does a lone run.     *)
EndJob(rc, ending) ==
  /\ at' = -1
  /\ jobs' = Tail(jobs)
  /\ Restore
  /\ IF Job.capture
       THEN /\ results' = Append(results, [output |-> Rendered(cout.text, ending), rc |-> rc, count |-> at])
            /\ UNCHANGED <<pc, stdout, documents, stderr, exit>>
     ELSE IF rc # 0 THEN Fails(1, "runtime error") /\ UNCHANGED results
     ELSE IF Job.replay
       THEN /\ results' = Append(results, [output |-> <<>>, rc |-> 0, count |-> at])
            /\ UNCHANGED <<pc, stdout, documents, stderr, exit>>
     ELSE Exit(0, ending, <<>>) /\ UNCHANGED <<results, documents>>
  /\ UNCHANGED <<settings, stdin, slurped>>

Running == pc = "engines" /\ jobs # <<>> /\ at >= 0

(* An operation that does not stop the program.                             *)
Operate ==
  /\ Running
  /\ at < Len(Does.ops)
  /\ \E done \in {Exec(Does.ops[at + 1], Source, cin.failed)} :
       /\ ~done.stops
       /\ at' = at + 1
       /\ stdin' = IF cin.replays THEN stdin ELSE done.left
       /\ cin' = [cin EXCEPT !.feed = IF cin.replays THEN done.left ELSE @, !.failed = done.failed]
       /\ cout' = IF cout.captures THEN [cout EXCEPT !.text = @ \o done.prints] ELSE cout
       /\ stdout' = IF cout.captures THEN stdout ELSE stdout \o done.prints
  /\ UNCHANGED <<settings, pc, jobs, slurped, results, documents, stderr, exit>>

RuntimeError ==
  /\ Running
  /\ at < Len(Does.ops)
  /\ Exec(Does.ops[at + 1], Source, cin.failed).stops
  /\ EndJob(1, <<"runtime error">>)

Return ==
  /\ Running
  /\ at = Len(Does.ops)
  /\ EndJob(0, Value)

-----------------------------------------------------------------------------
(* Reports *)

Same(x, y) == x.output = y.output /\ x.rc = y.rc

(* The document goes to std::cout, wherever that leads.                     *)
Report(doc) ==
  /\ pc' = "exited"
  /\ exit' = 0
  /\ IF cout.captures THEN cout' = [cout EXCEPT !.text = Append(@, "document")] /\ UNCHANGED <<stdout, documents>>
     ELSE stdout' = Append(stdout, "document") /\ documents' = Append(documents, doc) /\ UNCHANGED cout
  /\ UNCHANGED <<settings, work, stdin, slurped, cin, stderr>>

AllRun == pc = "engines" /\ jobs = <<>>

ReportTrace ==
  /\ AllRun
  /\ opts.mode = "--trace-json"
  /\ LET matches == Same(results[1], results[2])
     IN  Report([is |-> "trace", ok |-> TRUE, diagnostics |-> {}, outputsMatch |-> matches,
                allAgree |-> matches /\ Same(results[3], results[1]) /\ Same(results[4], results[2])])

(* The last of an engine's runs is the one compared, by its output alone.   *)
ReportBench ==
  /\ AllRun
  /\ opts.mode = "--bench-engines"
  /\ LET last(i) == results[i * Runs].output
     IN  Report([is |-> "bench", agree |-> last(1) = last(2) /\ last(1) = last(3)])

ReportMetrics ==
  /\ AllRun
  /\ opts.mode = "--metrics"
  /\ Report([is |-> "metrics", before |-> results[1].count, after |-> results[2].count])

Exited == pc = "exited" /\ UNCHANGED vars

Next ==
  \/ NoArguments \/ Tell \/ ReadArgument \/ Choose
  \/ UnknownMode \/ FrontStage \/ CheckedParse \/ TraceFront
  \/ Optimize
  \/ StartJob \/ Operate \/ RuntimeError \/ Return
  \/ ReportTrace \/ ReportBench \/ ReportMetrics
  \/ Exited

Spec == Init /\ [][Next]_vars

-----------------------------------------------------------------------------
(* Properties *)

(* A run with nothing around it: what is left of its input, what it has     *)
(* printed, and 1 once an operation has stopped it.                         *)
AtStart == [left |-> session.input, failed |-> FALSE, text |-> <<>>, rc |-> 0, count |-> 0]

AfterOp(run, op) ==
  LET done == Exec(op, run.left, run.failed)
  IN  IF run.rc = 1 THEN run
      ELSE [left |-> done.left, failed |-> done.failed, text |-> run.text \o done.prints,
            rc |-> IF done.stops THEN 1 ELSE 0, count |-> run.count + 1]

(* Such a run of an engine after its first n operations.                    *)
Course(engine) ==
  LET ops == Program.does[engine].ops
      course[n \in 0 .. Len(ops)] == IF n = 0 THEN AtStart ELSE AfterOp(course[n - 1], ops[n])
  IN  course

(* What an engine makes of the program by itself, on all of the input.      *)
Alone(engine) ==
  LET does == Program.does[engine]
      end  == Course(engine)[Len(does.ops)]
  IN  [output |-> Rendered(end.text, IF end.rc = 1 THEN <<"runtime error">> ELSE <<does.value, "newline">>),
       rc |-> end.rc, count |-> end.count]

(* What a document says, as it would have to say it.                        *)
Truthful(doc) ==
  LET all == {Alone(e) : e \in {"quads", OptimizedCode, "ast", "vm"}}
  IN  /\ doc.is = "trace" /\ doc.ok =>
           /\ doc.outputsMatch <=> Same(Alone("quads"), Alone(OptimizedCode))
           /\ doc.allAgree <=> \A x, y \in all : Same(x, y)
      /\ doc.is = "bench" =>
           (doc.agree <=> \A e \in {"ast", "vm"} : Same(Alone(e), Alone(OptimizedCode)))
      /\ doc.is = "metrics" =>
           doc.before = Alone("quads").count /\ doc.after = Alone(OptimizedCode).count

(* A verdict is about the program, not about the order of the runs: the     *)
(* outputs "match", the engines "agree" and the instruction counts compare  *)
(* exactly as they would had each engine run in a process of its own, on    *)
(* all of the input.  (--trace-json, --bench-engines and --metrics read     *)
(* stdin once and replay it; stdin, its error flag and std::cout are shared *)
(* by the runs.)                                                            *)
VerdictIsTrue == \A n \in DOMAIN documents : Truthful(documents[n])

(* A tool that asked for JSON gets one document and nothing around it,      *)
(* whatever the program prints or fails at; or no output at all, and the    *)
(* reason on stderr.                                                        *)
OneDocument ==
  pc = "exited" /\ rest = <<>> /\ opts.mode \in {"--trace-json", "--bench-engines"} =>
    \/ stdout = <<"document">> /\ Len(documents) = 1 /\ stderr = <<>>
    \/ stdout = <<>> /\ documents = <<>> /\ stderr # <<>> /\ exit # 0

(* "Cannot mix SSA and plain-TAC passes in one group (a TAC pass would not  *)
(* understand phis)" (include/pipeline.h:6-8): of a pipeline that was       *)
(* accepted, no group in SSA form has a pass on plain quads.                *)
GroupsAreUnmixed ==
  \A i \in DOMAIN pipeline : pipeline[i].ssa => Range(pipeline[i].passes) \cap TacNames = {}
=============================================================================
