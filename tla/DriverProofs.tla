---------------------------- MODULE DriverProofs ----------------------------
(***************************************************************************)
(* Whatever programs, inputs and arguments: a tool that asks for JSON gets  *)
(* one document and nothing around it, or nothing and a reason; and what a  *)
(* document says of the engines is what each makes of the program by itself. *)
(***************************************************************************)
EXTENDS Driver, GraphProofs

JsonModes    == {"--trace-json", "--bench-engines"}
CapturedJobs == [engine : Engines, replay : {TRUE}, capture : {TRUE}]

Silent == stdout = <<>> /\ documents = <<>> /\ stderr = <<>>

(* The options come from the arguments.                                     *)
OptionsInv ==
  /\ session \in Sessions
  /\ rest \in Seq(Range(session.args))
  /\ opts = [mode |-> opts.mode, kind |-> opts.kind, file |-> opts.file, preset |-> opts.preset,
             config |-> opts.config, list |-> opts.list, only |-> opts.only, noOpt |-> opts.noOpt,
             requested |-> opts.requested, verify |-> opts.verify, lexer |-> opts.lexer, parser |-> opts.parser]
  /\ opts.mode = "--bench-engines" => opts.kind \in Int
  /\ session.args = <<>> => rest = <<>> /\ opts.mode = ""

(* Before the engines run nothing has been printed and nothing redirected.  *)
EarlyInv ==
  pc \in {"args", "mode", "optimize"} => Silent /\ jobs = <<>> /\ at = -1 /\ ~cout.captures

(* While they run for a document, std::cout is redirected exactly during a  *)
(* run, so that nothing reaches stdout.                                     *)
EnginesInv ==
  pc = "engines" /\ opts.mode \in JsonModes =>
    /\ Silent
    /\ jobs \in Seq(CapturedJobs)
    /\ cout.captures <=> at # -1
    /\ at # -1 => jobs # <<>>

StreamsInv ==
  /\ at \in Int
  /\ cout = [captures |-> cout.captures, text |-> cout.text]

DocumentInv == OptionsInv /\ StreamsInv /\ EarlyInv /\ EnginesInv /\ OneDocument

-----------------------------------------------------------------------------
(* A process starts in order.                                               *)
LEMMA InitInvariant == Init => DocumentInv
<1> SUFFICES ASSUME Init PROVE DocumentInv
  OBVIOUS
<1>1. session.args \in Seq(Range(session.args))
  BY SessionsAssumption DEF Init
<1>2. OptionsInv
  BY <1>1 DEF Init, OptionsInv, Unset
<1> QED  BY <1>2 DEF Init, DocumentInv, StreamsInv, EarlyInv, EnginesInv, OneDocument, Silent, NoCout

-----------------------------------------------------------------------------
(* One lemma per group of actions.                                          *)

(* An argument that is read leaves the options well formed.                 *)
LEMMA WithKeeps ==
  ASSUME OptionsInv, NEW a \in Range(session.args)
  PROVE  LET o == With(opts, a)
         IN  /\ o = [mode |-> o.mode, kind |-> o.kind, file |-> o.file, preset |-> o.preset,
                     config |-> o.config, list |-> o.list, only |-> o.only, noOpt |-> o.noOpt,
                     requested |-> o.requested, verify |-> o.verify, lexer |-> o.lexer, parser |-> o.parser]
             /\ o.mode = "--bench-engines" => o.kind \in Int
<1>1. a.is = "mode" /\ a.name = "--bench-engines" => a.kind \in Int
  BY SessionsAssumption DEF OptionsInv
<1> QED  BY <1>1 DEF OptionsInv, With

LEMMA ArgumentsKeep ==
  ASSUME DocumentInv, NoArguments \/ Tell \/ ReadArgument
  PROVE  DocumentInv'
<1>1. CASE NoArguments
  BY <1>1 DEF NoArguments, Exit, settings, streams, work, DocumentInv, OptionsInv, StreamsInv, EarlyInv, EnginesInv,
     OneDocument
<1>2. CASE Tell
  BY <1>2 DEF Tell, Exit, settings, streams, work, DocumentInv, OptionsInv, StreamsInv, EarlyInv, EnginesInv,
     OneDocument
<1>3. CASE ReadArgument
  <2> DEFINE Given == Range(session.args)
  <2>0. rest \in Seq(Given) /\ rest # <<>> /\ session.args # <<>> /\ rest' = Tail(rest) /\ session' = session
    BY <1>3 DEF ReadArgument, DocumentInv, OptionsInv
  <2>1. Head(rest) \in Given /\ rest' \in Seq(Given) /\ session.args # <<>>
    <3> HIDE DEF Given
    <3> QED  BY <2>0
  <2>2. OptionsInv'
    BY <1>3, <2>1, WithKeeps DEF ReadArgument, DocumentInv, OptionsInv
  <2> QED  BY <1>3, <2>2 DEF ReadArgument, streams, work, DocumentInv, StreamsInv, EarlyInv, EnginesInv, OneDocument,
       Silent
<1> QED  BY <1>1, <1>2, <1>3

(* A process that ended as it should is in order.                           *)
LEMMA FailureCodes == 1 # 0 /\ 2 # 0 /\ 3 # 0 /\ 4 # 0
  OBVIOUS

(* A complaint ends the process with nothing on stdout.                     *)
LEMMA FailureIsTold ==
  ASSUME Silent, NEW code, NEW complaint, code # 0, Fails(code, complaint)
  PROVE  pc' = "exited" /\ OneDocument'
  BY DEF Fails, Exit, Silent, OneDocument

LEMMA ExitKeeps ==
  ASSUME OptionsInv', StreamsInv', pc' = "exited", OneDocument'
  PROVE  DocumentInv'
  BY DEF DocumentInv, EarlyInv, EnginesInv

LEMMA ChooseKeeps ==
  ASSUME DocumentInv, Choose
  PROVE  DocumentInv'
<1> DEFINE Refuses == \/ Fails(3, "choose one") \/ Fails(2, "cannot open config")
                      \/ Fails(3, "invalid pipeline") \/ Fails(1, "no input file")
           Lists   == opts.mode = "--print-pipeline" /\ Exit(0, <<"listing">>, <<>>)
<1>1. Silent /\ OptionsInv' /\ StreamsInv' /\ opts' = opts
  BY DEF Choose, DocumentInv, EarlyInv, OptionsInv, StreamsInv, streams, work
<1>2. CASE Refuses
  <2>1. pc' = "exited" /\ OneDocument'
    <3>1. CASE Fails(3, "choose one")
      BY <1>1, <3>1, FailureCodes, FailureIsTold, Zenon
    <3>2. CASE Fails(2, "cannot open config")
      BY <1>1, <3>2, FailureCodes, FailureIsTold, Zenon
    <3>3. CASE Fails(3, "invalid pipeline")
      BY <1>1, <3>3, FailureCodes, FailureIsTold, Zenon
    <3>4. CASE Fails(1, "no input file")
      BY <1>1, <3>4, FailureCodes, FailureIsTold, Zenon
    <3> QED  BY <1>2, <3>1, <3>2, <3>3, <3>4
  <2> QED  BY <1>1, <2>1, ExitKeeps
<1>3. CASE Lists
  BY <1>1, <1>3, ExitKeeps DEF Exit, OneDocument, JsonModes
<1>4. CASE GoTo("mode")
  BY <1>1, <1>4 DEF Choose, GoTo, streams, work, DocumentInv, EarlyInv, EnginesInv, OneDocument, Silent
<1>5. Refuses \/ Lists \/ GoTo("mode")
  BY DEF Choose
<1> QED  BY <1>2, <1>3, <1>4, <1>5

(* A mode's front end.                                                      *)
LEMMA ModeKeeps ==
  ASSUME DocumentInv, UnknownMode \/ FrontStage \/ CheckedParse \/ TraceFront
  PROVE  DocumentInv'
<1> DEFINE Refuses == \/ Fails(3, "unknown option") \/ Fails(2, "cannot open") \/ Fails(2, "expects")
                      \/ Fails(1, "cannot open") \/ Fails(1, "error")
           Answers == \E code \in {1, 2}, doc \in {[is |-> "trace", ok |-> FALSE, diagnostics |-> {}],
                        [is |-> "trace", ok |-> FALSE, diagnostics |-> Complaints(AllStages)]} : Answer(code, doc)
<1>1. Silent /\ OptionsInv' /\ StreamsInv' /\ UNCHANGED <<opts, rest, streams, work>> /\ pc = "mode"
  BY DEF UnknownMode, FrontStage, CheckedParse, TraceFront, DocumentInv, EarlyInv, OptionsInv, StreamsInv, settings,
     streams, work
<1>2. CASE Refuses
  <2>1. pc' = "exited" /\ OneDocument'
    <3>1. CASE Fails(3, "unknown option")
      BY <1>1, <3>1, FailureCodes, FailureIsTold, Zenon
    <3>2. CASE Fails(2, "cannot open")
      BY <1>1, <3>2, FailureCodes, FailureIsTold, Zenon
    <3>3. CASE Fails(2, "expects")
      BY <1>1, <3>3, FailureCodes, FailureIsTold, Zenon
    <3>4. CASE Fails(1, "cannot open")
      BY <1>1, <3>4, FailureCodes, FailureIsTold, Zenon
    <3>5. CASE Fails(1, "error")
      BY <1>1, <3>5, FailureCodes, FailureIsTold, Zenon
    <3> QED  BY <1>2, <3>1, <3>2, <3>3, <3>4, <3>5
  <2> QED  BY <1>1, <2>1, ExitKeeps
<1>3. CASE Answers
  <2>1. pc' = "exited" /\ OneDocument'
    BY <1>1, <1>3 DEF Answer, Exit, Silent, OneDocument
  <2> QED  BY <1>1, <2>1, ExitKeeps
<1>4. CASE opts.mode \notin JsonModes /\ pc' = "exited"
  <2>1. OneDocument'
    BY <1>1, <1>4 DEF OneDocument, JsonModes
  <2> QED  BY <1>1, <1>4, <2>1, ExitKeeps
<1>5. CASE GoTo("optimize")
  BY <1>1, <1>5 DEF GoTo, streams, work, DocumentInv, EarlyInv, EnginesInv, OneDocument, Silent
<1>6. CASE UnknownMode
  BY <1>2, <1>6 DEF UnknownMode
<1>7. CASE FrontStage
  BY <1>4, <1>7 DEF FrontStage, FrontModes, JsonModes, Fails, Exit
<1>8. CASE CheckedParse
  BY <1>2, <1>5, <1>8 DEF CheckedParse
<1>9. CASE TraceFront
  BY <1>3, <1>5, <1>9 DEF TraceFront
<1> QED  BY <1>6, <1>7, <1>8, <1>9

(* What runs for a document runs captured.                                  *)
LEMMA JobsAreCaptured ==
  ASSUME opts.mode \in JsonModes, opts.mode = "--bench-engines" => opts.kind \in Int
  PROVE  JobsOf(opts.mode) \in Seq(CapturedJobs) /\ JobsOf(opts.mode) # <<>>
<1>1. OptimizedCode \in Engines /\ "quads" \in Engines /\ "ast" \in Engines /\ "vm" \in Engines
  BY DEF OptimizedCode, Engines
<1>2. \A e \in Engines : Captured(e) \in CapturedJobs
  BY DEF Captured, CapturedJobs
<1>3. CASE opts.mode = "--trace-json"
  <2>1. TraceJobs \in Seq(CapturedJobs) /\ TraceJobs # <<>>
    BY <1>1, <1>2 DEF TraceJobs
  <2>2. JobsOf(opts.mode) = TraceJobs
    BY <1>3 DEF JobsOf
  <2> QED  BY <2>1, <2>2
<1>4. CASE opts.mode = "--bench-engines"
  <2>1. Runs \in Nat \ {0}
    BY <1>4 DEF Runs
  <2> DEFINE Last3 == 3 * Runs
  <2>2. Last3 \in Nat /\ Last3 >= 1
    BY <2>1
  <2>3. BenchJobs = [i \in 1 .. Last3 |-> BenchJobs[i]] /\ \A i \in 1 .. Last3 : BenchJobs[i] \in CapturedJobs
    BY <1>1, <1>2 DEF BenchJobs
  <2>4. BenchJobs \in Seq(CapturedJobs) /\ BenchJobs # <<>>
    <3> HIDE DEF Last3
    <3>1. BenchJobs \in [1 .. Last3 -> CapturedJobs]
      BY <2>3
    <3>2. BenchJobs \in Seq(CapturedJobs) /\ Len(BenchJobs) = Last3
      BY <2>2, <3>1
    <3> QED  BY <2>2, <3>2
  <2>5. JobsOf(opts.mode) = BenchJobs
    BY <1>4 DEF JobsOf
  <2> QED  BY <2>4, <2>5
<1> QED  BY <1>3, <1>4 DEF JsonModes

(* The optimizer, and the engines that are to run after it.                 *)
LEMMA OptimizeKeeps ==
  ASSUME DocumentInv, Optimize
  PROVE  DocumentInv'
<1>1. Silent /\ OptionsInv' /\ UNCHANGED <<opts, rest>> /\ pc = "optimize" /\ jobs = <<>> /\ at = -1 /\ ~cout.captures
  BY DEF Optimize, DocumentInv, EarlyInv, OptionsInv, settings
<1>2. StreamsInv'
  BY DEF Optimize, DocumentInv, StreamsInv, streams, work
<1>3. CASE Fails(4, "IR verifier failed")
  <2>1. pc' = "exited" /\ OneDocument'
    BY <1>1, <1>3, FailureCodes, FailureIsTold, Zenon
  <2> QED  BY <1>1, <1>2, <2>1, ExitKeeps
<1>4. CASE JobsOf(opts.mode) = <<>> /\ Exit(0, <<"listing">>, <<>>)
  <2>1. opts.mode \notin JsonModes
    BY <1>4, JobsAreCaptured DEF DocumentInv, OptionsInv
  <2>2. pc' = "exited" /\ OneDocument'
    BY <1>1, <1>4, <2>1 DEF Exit, OneDocument, JsonModes
  <2> QED  BY <1>1, <1>2, <2>2, ExitKeeps
<1>5. CASE /\ pc' = "engines"
           /\ jobs' = JobsOf(opts.mode)
           /\ stdout' = IF opts.mode = "--metrics" THEN Append(stdout, "listing") ELSE stdout
           /\ UNCHANGED <<at, cout, documents, stderr>>
  <2>1. opts.mode \in JsonModes => jobs' \in Seq(CapturedJobs)
    BY <1>5, JobsAreCaptured DEF DocumentInv, OptionsInv
  <2>2. opts.mode \in JsonModes => Silent'
    BY <1>1, <1>5 DEF Silent, JsonModes
  <2> QED  BY <1>1, <1>2, <1>5, <2>1, <2>2 DEF DocumentInv, EarlyInv, EnginesInv, OneDocument
<1> QED  BY <1>3, <1>4, <1>5 DEF Optimize

(* A run begins: the streams are redirected.                                *)
LEMMA StartKeeps ==
  ASSUME DocumentInv, StartJob
  PROVE  DocumentInv'
<1>1. OptionsInv' /\ UNCHANGED <<opts, rest>>
  BY DEF StartJob, DocumentInv, OptionsInv, settings
<1>2. EnginesInv'
  <2> SUFFICES ASSUME opts.mode \in JsonModes
               PROVE  Silent' /\ jobs' \in Seq(CapturedJobs) /\ cout'.captures /\ at' = 0 /\ jobs' # <<>>
    BY <1>1 DEF EnginesInv
  <2>1. Silent /\ jobs \in Seq(CapturedJobs) /\ jobs # <<>>
    BY DEF StartJob, DocumentInv, EnginesInv
  <2>2. jobs[1] \in CapturedJobs
    BY <2>1
  <2> QED  BY <2>1, <2>2 DEF StartJob, Silent, Job, CapturedJobs
<1> QED  BY <1>1, <1>2 DEF StartJob, DocumentInv, StreamsInv, EarlyInv, OneDocument

(* An operation: what a captured program prints stays captured.             *)
LEMMA OperateKeeps ==
  ASSUME DocumentInv, Operate
  PROVE  DocumentInv'
<1>1. PICK done : /\ at' = at + 1
                  /\ cout' = IF cout.captures THEN [cout EXCEPT !.text = @ \o done.prints] ELSE cout
                  /\ stdout' = IF cout.captures THEN stdout ELSE stdout \o done.prints
  BY DEF Operate
<1>2. pc = "engines" /\ jobs # <<>> /\ at >= 0 /\ UNCHANGED <<opts, rest, pc, jobs, documents, stderr>> /\ OptionsInv'
  BY DEF Operate, Running, DocumentInv, OptionsInv, settings
<1>3. StreamsInv' /\ cout'.captures = cout.captures
  <2>1. at \in Int /\ cout = [captures |-> cout.captures, text |-> cout.text]
    BY DEF DocumentInv, StreamsInv
  <2>2. \E t : cout' = [captures |-> cout.captures, text |-> t]
    <3>1. CASE cout.captures
      <4>1. cout' = [cout EXCEPT !.text = cout.text \o done.prints]
        BY <1>1, <3>1
      <4> QED  BY <2>1, <4>1
    <3>2. CASE ~cout.captures
      BY <1>1, <2>1, <3>2
    <3> QED  BY <3>1, <3>2
  <2>3. at' \in Int
    BY <1>1, <2>1
  <2> QED  BY <2>2, <2>3 DEF StreamsInv
<1>4. at # -1 /\ at' # -1
  BY <1>1, <1>2 DEF DocumentInv, StreamsInv
<1>5. EnginesInv'
  BY <1>1, <1>2, <1>3, <1>4 DEF DocumentInv, EnginesInv, Silent
<1> QED  BY <1>2, <1>3, <1>5 DEF DocumentInv, EarlyInv, OneDocument

(* The end of a run, well or ill: a captured one is one more result, and    *)
(* std::cout leads to stdout again.                                         *)
LEMMA EndKeeps ==
  ASSUME DocumentInv, Running, NEW rc, NEW ending, EndJob(rc, ending)
  PROVE  DocumentInv'
<1>1. OptionsInv' /\ UNCHANGED <<opts, rest>> /\ at' = -1 /\ ~cout'.captures /\ StreamsInv'
  <2>1. OptionsInv' /\ UNCHANGED <<opts, rest>>
    BY DEF EndJob, settings, DocumentInv, OptionsInv
  <2>2. at' = -1 /\ cout' = [captures |-> FALSE, text |-> <<>>]
    BY DEF EndJob, Restore, NoCout
  <2> QED  BY <2>1, <2>2 DEF StreamsInv
<1>2. CASE opts.mode \in JsonModes
  <2>1. Silent /\ jobs \in Seq(CapturedJobs) /\ jobs # <<>>
    BY <1>2 DEF Running, DocumentInv, EnginesInv
  <2>2. Job.capture
    <3>1. jobs[1] \in CapturedJobs
      BY <2>1
    <3> QED  BY <3>1 DEF Job, CapturedJobs
  <2>3. UNCHANGED <<pc, stdout, documents, stderr>> /\ jobs' \in Seq(CapturedJobs)
    BY <2>1, <2>2 DEF EndJob
  <2> QED  BY <1>1, <2>1, <2>3 DEF Running, DocumentInv, EarlyInv, EnginesInv, OneDocument, Silent
<1>3. CASE opts.mode \notin JsonModes
  <2>1. pc' \in {"engines", "exited"}
    BY DEF EndJob, Running, Fails, Exit
  <2> QED  BY <1>1, <1>3, <2>1 DEF DocumentInv, EarlyInv, EnginesInv, OneDocument, JsonModes
<1> QED  BY <1>2, <1>3

LEMMA RunEndKeeps ==
  ASSUME DocumentInv, RuntimeError \/ Return
  PROVE  DocumentInv'
<1>1. CASE RuntimeError
  BY <1>1, EndKeeps DEF RuntimeError
<1>2. CASE Return
  BY <1>2, EndKeeps DEF Return
<1> QED  BY <1>1, <1>2

(* The document leaves on stdout, which has nothing else on it.             *)
LEMMA ReportsKeep ==
  ASSUME DocumentInv, ReportTrace \/ ReportBench \/ ReportMetrics
  PROVE  DocumentInv'
<1>1. PICK doc : Report(doc)
  BY DEF ReportTrace, ReportBench, ReportMetrics
<1>2. pc = "engines" /\ jobs = <<>>
  BY DEF ReportTrace, ReportBench, ReportMetrics, AllRun
<1>3. OptionsInv' /\ UNCHANGED <<opts, rest>> /\ pc' = "exited" /\ StreamsInv'
  BY <1>1 DEF Report, settings, work, DocumentInv, OptionsInv, StreamsInv
<1>4. OneDocument'
  <2> SUFFICES ASSUME opts.mode \in JsonModes
               PROVE  stdout' = <<"document">> /\ Len(documents') = 1 /\ stderr' = <<>>
    BY <1>3 DEF OneDocument, JsonModes
  <2>1. Silent /\ ~cout.captures
    BY <1>2 DEF DocumentInv, EnginesInv
  <2>2. stdout' = Append(<<>>, "document") /\ documents' = Append(<<>>, doc) /\ stderr' = <<>>
    BY <1>1, <2>1 DEF Report, Silent
  <2> QED  BY <2>2
<1> QED  BY <1>3, <1>4, ExitKeeps

-----------------------------------------------------------------------------
LEMMA StutterKeeps ==
  ASSUME DocumentInv, UNCHANGED vars
  PROVE  DocumentInv'
BY DEF vars, DocumentInv, OptionsInv, StreamsInv, EarlyInv, EnginesInv, OneDocument, Silent

THEOREM NextKeeps ==
  ASSUME DocumentInv, [Next]_vars
  PROVE  DocumentInv'
BY ArgumentsKeep, ChooseKeeps, ModeKeeps, OptimizeKeeps, StartKeeps, OperateKeeps, RunEndKeeps, ReportsKeep,
   StutterKeeps DEF Next, Exited

(* Every mode, every program, every input: a process asked for JSON (the    *)
(* application's --trace-json, its benchmark's --bench-engines) leaves one  *)
(* document on stdout and nothing else, or nothing and a reason on stderr.  *)
THEOREM AnswersInOneDocument == Spec => []OneDocument
<1>1. Init => DocumentInv
  BY InitInvariant
<1>2. DocumentInv /\ [Next]_vars => DocumentInv'
  BY NextKeeps
<1>3. DocumentInv => OneDocument
  BY DEF DocumentInv
<1> QED  BY <1>1, <1>2, <1>3, PTL DEF Spec

-----------------------------------------------------------------------------
(* The course of a run by itself.                                           *)

Given == Range(session.input)
Words == Given \cup {"text", "newline", "-1", "runtime error"} \cup {Program.does[e].value : e \in Engines}

(* Where such a run can stand.                                              *)
RunOK(run) ==
  /\ run.left \in Seq(Given)
  /\ run.text \in Seq(Words)
  /\ run.rc \in {0, 1}
  /\ run.count \in Nat

OpsOf(e) == Program.does[e].ops
LEMMA OpsKnown ==
  ASSUME session \in Sessions, NEW e \in Engines
  PROVE  OpsOf(e) \in Seq(Ops) /\ Len(OpsOf(e)) \in Nat /\ (\A n \in 1 .. Len(OpsOf(e)) : OpsOf(e)[n] \in Ops)
<1>1. OpsOf(e) \in Seq(Ops)
  BY SessionsAssumption DEF OpsOf, Program
<1> QED  BY <1>1

(* A function with the recursion's equation up to n; one exists for every n. *)
IsCourse(f, ops, n) == f = [i \in 0 .. n |-> IF i = 0 THEN AtStart ELSE AfterOp(f[i - 1], ops[i])]

LEMMA CourseExtends ==
  ASSUME NEW ops, NEW n \in Nat, NEW f, IsCourse(f, ops, n)
  PROVE  \E g : IsCourse(g, ops, n + 1)
<1> DEFINE g == [i \in 0 .. n + 1 |-> IF i = n + 1 THEN AfterOp(f[n], ops[n + 1]) ELSE f[i]]
<1>1. \A i \in 0 .. n : f[i] = IF i = 0 THEN AtStart ELSE AfterOp(f[i - 1], ops[i])
  BY DEF IsCourse
<1>2. \A i \in 0 .. n + 1 : g[i] = IF i = 0 THEN AtStart ELSE AfterOp(g[i - 1], ops[i])
  <2> SUFFICES ASSUME NEW i \in 0 .. n + 1
               PROVE  g[i] = IF i = 0 THEN AtStart ELSE AfterOp(g[i - 1], ops[i])
    OBVIOUS
  <2>1. CASE i = n + 1
    BY <2>1
  <2>2. CASE i # n + 1
    <3>1. i \in 0 .. n /\ g[i] = f[i] /\ (i # 0 => g[i - 1] = f[i - 1])
      BY <2>2
    <3> QED  BY <1>1, <3>1
  <2> QED  BY <2>1, <2>2
<1>3. IsCourse(g, ops, n + 1)
  BY <1>2 DEF IsCourse
<1> QED  BY <1>3

LEMMA CourseFollows ==
  ASSUME session \in Sessions, NEW e \in Engines
  PROVE  /\ Course(e)[0] = AtStart
         /\ \A n \in 1 .. Len(OpsOf(e)) : Course(e)[n] = AfterOp(Course(e)[n - 1], OpsOf(e)[n])
<1> DEFINE ops == OpsOf(e)
           L   == Len(ops)
           G   == {n \in Nat : \E f : IsCourse(f, ops, n)}
<1>1. L \in Nat
  BY OpsKnown
<1> HIDE DEF L, ops
<1>2. 0 \in G
  <2>1. IsCourse([i \in 0 .. 0 |-> AtStart], ops, 0)
    BY DEF IsCourse
  <2> QED  BY <2>1
<1>3. \A n \in 0 .. L : n \in G /\ n < L => n + 1 \in G
  BY CourseExtends
<1>4. L \in G
  <2> HIDE DEF G
  <2> QED  BY <1>1, <1>2, <1>3, SetInduction
<1>5. Course(e) = CHOOSE f : IsCourse(f, ops, L)
  BY DEF Course, IsCourse, L, ops, OpsOf
<1>6. IsCourse(Course(e), ops, L)
  BY <1>4, <1>5
<1>7. \A i \in 0 .. L : Course(e)[i] = IF i = 0 THEN AtStart ELSE AfterOp(Course(e)[i - 1], ops[i])
  BY <1>6 DEF IsCourse
<1> QED  BY <1>1, <1>7 DEF L, ops

LEMMA TupleOK ==
  ASSUME NEW S, NEW a \in S, NEW b \in S
  PROVE  <<a>> \in Seq(S) /\ Len(<<a>>) >= 1 /\ <<a, b>> \in Seq(S) /\ Len(<<a, b>>) >= 1
  OBVIOUS

LEMMA JoinOK ==
  ASSUME NEW S, NEW s \in Seq(S), NEW t \in Seq(S)
  PROVE  /\ s \o t \in Seq(S)
         /\ t = <<>> => s \o t = s
         /\ Len(t) >= 1 => (s \o t)[Len(s \o t)] = t[Len(t)]
  OBVIOUS

(* An operation prints words, and leaves a part of the input.               *)
LEMMA ExecOK ==
  ASSUME NEW op \in Ops, NEW left \in Seq(Given), NEW failed
  PROVE  LET done == Exec(op, left, failed)
         IN  done.left \in Seq(Given) /\ done.prints \in Seq(Words) /\ (done.stops => done.prints = <<>>)
<1>1. left # <<>> => Tail(left) \in Seq(Given) /\ <<left[1]>> \in Seq(Words)
  <2>1. left # <<>> => Tail(left) \in Seq(Given) /\ left[1] \in Given
    OBVIOUS
  <2>2. Given \subseteq Words
    BY DEF Words
  <2>3. \A w \in Words : <<w>> \in Seq(Words)
    OBVIOUS
  <2> QED  BY <2>1, <2>2, <2>3
<1>2. <<"text">> \in Seq(Words) /\ <<"text", "newline">> \in Seq(Words) /\ <<"-1">> \in Seq(Words) /\ <<>> \in Seq(Words)
  BY DEF Words
<1>3. CASE op = "print"
  BY <1>2, <1>3 DEF Exec
<1>4. CASE op = "println"
  BY <1>2, <1>4 DEF Exec
<1>5. CASE op = "trap"
  BY <1>2, <1>5 DEF Exec
<1>6. CASE op = "read_int"
  BY <1>1, <1>2, <1>6 DEF Exec
<1>7. CASE op = "getchar"
  BY <1>1, <1>2, <1>7 DEF Exec
<1> QED  BY <1>3, <1>4, <1>5, <1>6, <1>7 DEF Ops

(* An operation leaves such a run where one can stand.                      *)
LEMMA AfterOK ==
  ASSUME session \in Sessions, NEW run, RunOK(run), NEW op \in Ops
  PROVE  RunOK(AfterOp(run, op)) /\ (AfterOp(run, op).rc = 1 /\ run.rc = 0 => AfterOp(run, op).text = run.text)
<1> DEFINE done == Exec(op, run.left, run.failed)
<1>1. CASE run.rc = 1
  BY <1>1 DEF AfterOp, RunOK
<1>2. CASE run.rc = 0
  <2>1. run.left # <<>> => run.left[1] \in Given /\ Tail(run.left) \in Seq(Given)
    BY DEF RunOK
  <2>2. done.left \in Seq(Given) /\ done.prints \in Seq(Words) /\ (done.stops => done.prints = <<>>)
    BY <2>1, ExecOK DEF RunOK
  <2> HIDE DEF done
  <2>3. run.text \o done.prints \in Seq(Words) /\ (done.stops => run.text \o done.prints = run.text)
    <3>1. run.text \in Seq(Words) /\ done.prints \in Seq(Words)
      BY <2>2 DEF RunOK
    <3> QED  BY <2>2, <3>1, JoinOK, Zenon
  <2>4. AfterOp(run, op) = [left |-> done.left, failed |-> done.failed, text |-> run.text \o done.prints,
                          rc |-> IF done.stops THEN 1 ELSE 0, count |-> run.count + 1]
    BY <1>2 DEF AfterOp, done
  <2>5. run.count + 1 \in Nat
    BY DEF RunOK
  <2>6. /\ AfterOp(run, op).left = done.left /\ AfterOp(run, op).text = run.text \o done.prints
        /\ AfterOp(run, op).count = run.count + 1 /\ AfterOp(run, op).rc = IF done.stops THEN 1 ELSE 0
    <3> DEFINE r == AfterOp(run, op)
               t == run.text \o done.prints
    <3>1. r = [left |-> done.left, failed |-> done.failed, text |-> t,
               rc |-> IF done.stops THEN 1 ELSE 0, count |-> run.count + 1]
      BY <2>4
    <3> HIDE DEF r, t
    <3>2. r.left = done.left /\ r.text = t /\ r.count = run.count + 1 /\ r.rc = IF done.stops THEN 1 ELSE 0
      BY <3>1
    <3> QED  BY <3>2 DEF r, t
  <2>7. (AfterOp(run, op).rc = 1 => done.stops) /\ AfterOp(run, op).rc \in {0, 1}
    BY <2>6
  <2> QED  BY <2>2, <2>3, <2>5, <2>6, <2>7, Zenon DEF RunOK
<1> QED  BY <1>1, <1>2 DEF RunOK

LEMMA CourseOK ==
  ASSUME session \in Sessions, NEW e \in Engines
  PROVE  \A n \in 0 .. Len(OpsOf(e)) : RunOK(Course(e)[n])
<1> DEFINE L == Len(OpsOf(e))
           G == {n \in 0 .. L : RunOK(Course(e)[n])}
<1>1. L \in Nat
  BY OpsKnown
<1>2. 0 \in G
  <2>1. session.input \in Seq(Given)
    BY SessionsAssumption DEF Given
  <2>2. RunOK(AtStart)
    BY <2>1 DEF AtStart, RunOK
  <2> QED  BY <1>1, <2>2, CourseFollows
<1>3. ASSUME NEW n \in 0 .. L, n \in G, n < L PROVE n + 1 \in G
  <2>1. n + 1 \in 1 .. L /\ (n + 1) - 1 = n
    BY <1>1, <1>3
  <2>2. Course(e)[n + 1] = AfterOp(Course(e)[n], OpsOf(e)[n + 1]) /\ OpsOf(e)[n + 1] \in Ops
    BY <2>1, CourseFollows, OpsKnown
  <2>3. RunOK(Course(e)[n + 1])
    BY <1>3, <2>2, AfterOK
  <2> QED  BY <1>1, <2>1, <2>3
<1> HIDE DEF G
<1>4. \A n \in 0 .. L : n \in G
  BY <1>1, <1>2, <1>3, SetInduction
<1> QED  BY <1>4 DEF G

(* A run that was stopped stays where it is.                                *)
LEMMA StoppedStays ==
  ASSUME session \in Sessions, NEW e \in Engines, NEW m \in 0 .. Len(OpsOf(e)), Course(e)[m].rc = 1
  PROVE  Course(e)[Len(OpsOf(e))] = Course(e)[m]
<1> DEFINE L == Len(OpsOf(e))
           G == {n \in m .. L : Course(e)[n] = Course(e)[m]}
<1>1. L \in Nat /\ m \in Nat
  BY OpsKnown
<1>2. ASSUME NEW n \in m .. L, n \in G, n < L PROVE n + 1 \in G
  <2>1. n + 1 \in 1 .. L /\ (n + 1) - 1 = n /\ n + 1 \in m .. L
    BY <1>1, <1>2
  <2>2. Course(e)[n + 1] = AfterOp(Course(e)[n], OpsOf(e)[n + 1])
    BY <2>1, CourseFollows
  <2> QED  BY <1>2, <2>1, <2>2 DEF AfterOp
<1>3. m \in G
  BY <1>1
<1> HIDE DEF G
<1>4. \A n \in m .. L : n \in G
  BY <1>1, <1>2, <1>3, SetInduction
<1> QED  BY <1>1, <1>4 DEF G

(* What a run comes to, as the machine sees it: it has made n operations,   *)
(* of which none stopped it, and is at its end or at one that does.         *)
Ending(e, stopped) == IF stopped THEN <<"runtime error">> ELSE <<Program.does[e].value, "newline">>

LEMMA AloneReturns ==
  ASSUME session \in Sessions, NEW e \in Engines, Course(e)[Len(OpsOf(e))].rc = 0
  PROVE  LET end == Course(e)[Len(OpsOf(e))]
         IN  Alone(e) = [output |-> Rendered(end.text, Ending(e, FALSE)), rc |-> 0, count |-> end.count]
BY DEF Alone, OpsOf, Ending

LEMMA AloneStops ==
  ASSUME session \in Sessions, NEW e \in Engines, NEW n \in 0 .. Len(OpsOf(e)), n < Len(OpsOf(e)),
         Course(e)[n].rc = 0, Exec(OpsOf(e)[n + 1], Course(e)[n].left, Course(e)[n].failed).stops
  PROVE  Alone(e).output = Rendered(Course(e)[n].text, Ending(e, TRUE)) /\ Alone(e).rc = 1
<1>1. n + 1 \in 1 .. Len(OpsOf(e)) /\ n + 1 \in 0 .. Len(OpsOf(e)) /\ (n + 1) - 1 = n
  BY OpsKnown
<1>2. Course(e)[n + 1] = AfterOp(Course(e)[n], OpsOf(e)[n + 1]) /\ OpsOf(e)[n + 1] \in Ops
  BY <1>1, CourseFollows, OpsKnown
<1>3. Course(e)[n + 1].rc = 1
  BY <1>2 DEF AfterOp
<1>4. Course(e)[n + 1].text = Course(e)[n].text
  BY <1>2, <1>3, AfterOK, CourseOK
<1>5. Course(e)[Len(OpsOf(e))] = Course(e)[n + 1]
  BY <1>1, <1>3, StoppedStays
<1> QED  BY <1>3, <1>4, <1>5 DEF Alone, OpsOf, Ending

(* The outputs tell how the run ended.                                      *)
LEMMA OutputTellsEnd ==
  ASSUME session \in Sessions, NEW d \in Engines, NEW e \in Engines
  PROVE  Alone(d).output = Alone(e).output <=> Same(Alone(d), Alone(e))
<1>1. ASSUME NEW x \in Engines
      PROVE  /\ Alone(x).rc \in {0, 1}
             /\ Alone(x).output[Len(Alone(x).output)] = IF Alone(x).rc = 1 THEN "runtime error" ELSE "newline"
  <2> DEFINE end == Course(x)[Len(OpsOf(x))]
  <2>1. RunOK(end)
    BY OpsKnown, CourseOK
  <2>2. Alone(x).output = Rendered(end.text, Ending(x, end.rc = 1)) /\ Alone(x).rc = end.rc
    BY DEF Alone, OpsOf, Ending
  <2> DEFINE begin  == IF end.text # <<>> /\ Last(end.text) # "newline" THEN Append(end.text, "newline") ELSE end.text
             ending == Ending(x, end.rc = 1)
  <2>3. begin \in Seq(Words) /\ ending \in Seq(Words) /\ Len(ending) >= 1
    <3>1. "newline" \in Words /\ "runtime error" \in Words /\ Program.does[x].value \in Words
      BY DEF Words
    <3>2. end.text \in Seq(Words)
      BY <2>1 DEF RunOK
    <3>3. begin \in Seq(Words)
      <4>1. \A t \in Seq(Words), w \in Words : Append(t, w) \in Seq(Words)
        OBVIOUS
      <4> HIDE DEF end
      <4> QED  BY <3>1, <3>2, <4>1
    <3>4. ending \in Seq(Words) /\ Len(ending) >= 1
      <4> DEFINE value == Program.does[x].value
      <4>1. value \in Words
        BY <3>1
      <4> HIDE DEF value
      <4>2. /\ <<"runtime error">> \in Seq(Words) /\ Len(<<"runtime error">>) >= 1
            /\ <<value, "newline">> \in Seq(Words) /\ Len(<<value, "newline">>) >= 1
        BY <3>1, <4>1, TupleOK
      <4>3. ending = <<"runtime error">> \/ ending = <<value, "newline">>
        BY DEF Ending, value
      <4> HIDE DEF ending
      <4> QED  BY <4>2, <4>3, Zenon
    <3> QED  BY <3>3, <3>4
  <2>4. ending[Len(ending)] = IF end.rc = 1 THEN "runtime error" ELSE "newline"
    BY DEF Ending
  <2>5. Alone(x).output = begin \o ending
    BY <2>2 DEF Rendered
  <2> HIDE DEF begin, ending
  <2>6. (begin \o ending)[Len(begin \o ending)] = ending[Len(ending)]
    BY <2>3, JoinOK
  <2> QED  BY <2>1, <2>2, <2>4, <2>5, <2>6 DEF RunOK
<1>2. Alone(d).output = Alone(e).output => Alone(d).rc = Alone(e).rc
  <2>1. ASSUME NEW x \in Engines PROVE Alone(x).rc = 1 <=> Alone(x).output[Len(Alone(x).output)] = "runtime error"
    BY <1>1
  <2>2. ASSUME NEW x \in Engines PROVE Alone(x).rc = 1 \/ Alone(x).rc = 0
    BY <1>1
  <2> QED  BY <2>1, <2>2, Zenon
<1> QED  BY <1>2 DEF Same

-----------------------------------------------------------------------------
(* The invariant of a run under way, and of those that are over.            *)
Ahead == JobsOf(opts.mode)

(* What a run has left is what its engine makes of the program by itself.   *)
Faithful(result, job) ==
  IF job.capture THEN result.output = Alone(job.engine).output /\ result.rc = Alone(job.engine).rc
  ELSE result.count = Alone(job.engine).count

ReplayedJobs == [engine : Engines, replay : {TRUE}, capture : BOOLEAN]
IsSequence(s) == \E S : s \in Seq(S)

(* A run under way is where it would be by itself.                          *)
InCourse ==
  LET now == Course(Job.engine)[at]
  IN  /\ at \in 0 .. Len(OpsOf(Job.engine))
      /\ now.rc = 0 /\ now.count = at
      /\ cin = [replays |-> TRUE, feed |-> now.left, failed |-> now.failed]
      /\ cout.captures = Job.capture
      /\ Job.capture => cout.text = now.text

(* The runs are made in order, each with one faithful result.               *)
Queued ==
  /\ IsSequence(results)
  /\ jobs \in Seq(ReplayedJobs)
  /\ Len(results) + Len(jobs) = Len(Ahead)
  /\ \A i \in 1 .. Len(jobs) : jobs[i] = Ahead[Len(results) + i]
  /\ \A i \in 1 .. Len(results) : Faithful(results[i], Ahead[i])

Tracking == slurped = session.input /\ Queued /\ (at # -1 => jobs # <<>> /\ InCourse)

TrackingInv ==
  /\ pc # "exited" => documents = <<>>
  /\ pc \in {"args", "mode", "optimize"} => results = <<>> /\ stdin = session.input
  /\ pc = "engines" /\ Slurps => Tracking

VerdictInv == DocumentInv /\ TrackingInv /\ VerdictIsTrue

LEMMA AppendOK ==
  ASSUME NEW s, IsSequence(s), NEW x
  PROVE  /\ IsSequence(Append(s, x)) /\ Len(s) \in Nat /\ Len(Append(s, x)) = Len(s) + 1
         /\ \A i \in 1 .. Len(s) : Append(s, x)[i] = s[i]
         /\ Append(s, x)[Len(s) + 1] = x
<1>1. PICK S : s \in Seq(S)
  BY DEF IsSequence
<1>2. Append(s, x) \in Seq(S \cup {x})
  BY <1>1
<1> QED  BY <1>1, <1>2 DEF IsSequence

(* Truthful, of what the engines make of the program.                       *)
SaysTrue(doc, quads, optimized, ast, vm) ==
  /\ doc.is = "trace" /\ doc.ok =>
       /\ doc.outputsMatch <=> Same(quads, optimized)
       /\ doc.allAgree <=> \A x, y \in {quads, optimized, ast, vm} : Same(x, y)
  /\ doc.is = "bench" => (doc.agree <=> Same(ast, optimized) /\ Same(vm, optimized))
  /\ doc.is = "metrics" => doc.before = quads.count /\ doc.after = optimized.count

(* What the settings fix.                                                   *)
LEMMA SettingsFix ==
  ASSUME UNCHANGED <<session, opts, pipeline>>
  PROVE  /\ Ahead' = Ahead /\ Slurps' = Slurps
         /\ \A e : OpsOf(e)' = OpsOf(e) /\ Course(e)' = Course(e) /\ Alone(e)' = Alone(e)
         /\ \A doc : Truthful(doc)' <=> Truthful(doc)
         /\ \A r, j : Faithful(r, j)' <=> Faithful(r, j)
<1>0. session' = session /\ opts' = opts /\ pipeline' = pipeline
  OBVIOUS
<1>1. OptimizedCode' = OptimizedCode /\ Slurps' = Slurps
  BY <1>0 DEF OptimizedCode, Optimizes, Slurps
<1>2. Ahead' = Ahead
  BY <1>0, <1>1, Zenon DEF Ahead, JobsOf, TraceJobs, BenchJobs, Runs
<1>3. ASSUME NEW e PROVE OpsOf(e)' = OpsOf(e) /\ Course(e)' = Course(e) /\ Alone(e)' = Alone(e)
  BY <1>0, Zenon DEF OpsOf, Course, Alone, AtStart, Program
<1>4. ASSUME NEW doc PROVE Truthful(doc)' <=> Truthful(doc)
  <2> DEFINE qd == Alone("quads")
             op == Alone(OptimizedCode)
             as == Alone("ast")
             vm == Alone("vm")
  <2>1. qd' = qd /\ op' = op /\ as' = as /\ vm' = vm
    BY <1>0, <1>1, ZenonT(60) DEF Alone, Course, AtStart, Program
  <2> HIDE DEF qd, op, as, vm
  <2>2. Truthful(doc) <=> SaysTrue(doc, qd, op, as, vm)
    BY DEF Truthful, SaysTrue, qd, op, as, vm
  <2>3. Truthful(doc)' <=> SaysTrue(doc, qd', op', as', vm')
    BY DEF Truthful, SaysTrue, qd, op, as, vm
  <2> QED  BY <2>1, <2>2, <2>3
<1>5. ASSUME NEW r, NEW j PROVE Faithful(r, j)' <=> Faithful(r, j)
  <2>1. Alone(j.engine)' = Alone(j.engine)
    BY <1>0, Zenon DEF Alone, Course, AtStart, Program
  <2> QED  BY <2>1 DEF Faithful
<1> QED  BY <1>1, <1>2, <1>3, <1>4, <1>5

-----------------------------------------------------------------------------
(* One lemma per group of actions.                                          *)
LEMMA NothingSaid ==
  ASSUME documents' = <<>>
  PROVE  VerdictIsTrue'
BY DEF VerdictIsTrue

(* Before the engines run nothing is answered but that the front end failed. *)
LEMMA FrontTracks ==
  ASSUME TrackingInv, NoArguments \/ Tell \/ ReadArgument \/ Choose \/ UnknownMode \/ FrontStage \/ CheckedParse \/ TraceFront
  PROVE  TrackingInv' /\ VerdictIsTrue'
<1>1. /\ documents = <<>> /\ results' = <<>> /\ stdin' = session'.input
      /\ pc' \in {"args", "mode", "optimize", "exited"}
  BY DEF TrackingInv, NoArguments, Tell, ReadArgument, Choose, UnknownMode, FrontStage, CheckedParse, TraceFront,
     Exit, Fails, Answer, GoTo, settings, streams, work
<1>2. \/ documents' = documents
      \/ \E doc : documents' = Append(documents, doc) /\ doc.is = "trace" /\ ~doc.ok /\ pc' = "exited"
  <2>1. CASE TraceFront
    <3> DEFINE none == [is |-> "trace", ok |-> FALSE, diagnostics |-> {}]
               some == [is |-> "trace", ok |-> FALSE, diagnostics |-> Complaints(AllStages)]
    <3>1. none.is = "trace" /\ ~none.ok /\ some.is = "trace" /\ ~some.ok
      OBVIOUS
    <3>2. Answer(2, none) \/ Answer(1, some) \/ GoTo("optimize")
      BY <2>1 DEF TraceFront
    <3> HIDE DEF none, some
    <3> QED  BY <3>1, <3>2 DEF Answer, Exit, GoTo
  <2>2. CASE ~TraceFront
    BY <2>2 DEF NoArguments, Tell, ReadArgument, Choose, UnknownMode, FrontStage, CheckedParse, Exit, Fails, GoTo
  <2> QED  BY <2>1, <2>2
<1>3. CASE documents' = documents
  BY <1>1, <1>3, NothingSaid DEF TrackingInv
<1>4. CASE documents' # documents
  <2>1. PICK doc : documents' = Append(documents, doc) /\ doc.is = "trace" /\ ~doc.ok /\ pc' = "exited"
    BY <1>2, <1>4
  <2>2. documents' = <<doc>>
    BY <1>1, <2>1
  <2>3. VerdictIsTrue'
    BY <2>1, <2>2 DEF VerdictIsTrue, Truthful
  <2> QED  BY <1>1, <2>1, <2>3 DEF TrackingInv
<1> QED  BY <1>3, <1>4

(* Runs whose results count replay their input.                             *)
LEMMA JobsAreReplayed ==
  ASSUME OptionsInv, Slurps
  PROVE  Ahead \in Seq(ReplayedJobs)
<1>1. OptimizedCode \in Engines /\ "quads" \in Engines /\ "ast" \in Engines /\ "vm" \in Engines
  BY DEF OptimizedCode, Engines
<1>2. CASE opts.mode \in JsonModes
  <2>1. Ahead \in Seq(CapturedJobs)
    BY <1>2, JobsAreCaptured DEF Ahead, OptionsInv
  <2>2. CapturedJobs \subseteq ReplayedJobs
    BY DEF CapturedJobs, ReplayedJobs
  <2> QED  BY <2>1, <2>2
<1>3. CASE opts.mode = "--metrics"
  <2>1. Ahead = <<Counted("quads"), Counted(OptimizedCode)>>
    BY <1>3 DEF Ahead, JobsOf
  <2>2. Counted("quads") \in ReplayedJobs /\ Counted(OptimizedCode) \in ReplayedJobs
    BY <1>1 DEF Counted, ReplayedJobs
  <2> QED  BY <2>1, <2>2
<1> QED  BY <1>2, <1>3 DEF Slurps, JsonModes

LEMMA OptimizeTracks ==
  ASSUME DocumentInv, TrackingInv, Optimize
  PROVE  TrackingInv' /\ VerdictIsTrue'
<1>1. pc = "optimize" /\ documents' = <<>> /\ VerdictIsTrue' /\ UNCHANGED <<session, opts, pipeline>>
  BY NothingSaid DEF Optimize, TrackingInv, Fails, Exit, settings
<1>2. CASE pc' = "exited"
  BY <1>1, <1>2 DEF TrackingInv
<1>3. CASE pc' # "exited"
  <2>1. pc' = "engines" /\ jobs' = Ahead /\ slurped' = (IF Slurps THEN stdin ELSE slurped) /\ at' = at /\ results' = results
    BY <1>3 DEF Optimize, Fails, Exit, Ahead
  <2>2. results = <<>> /\ at = -1 /\ stdin = session.input
    BY <1>1 DEF TrackingInv, DocumentInv, EarlyInv
  <2>3. ASSUME Slurps PROVE Tracking'
    <3>1. Ahead' = Ahead /\ Ahead \in Seq(ReplayedJobs)
      BY <1>1, <2>3, SettingsFix, JobsAreReplayed DEF DocumentInv
    <3>2. IsSequence(results')
      BY <2>1, <2>2 DEF IsSequence
    <3>3. Len(results') = 0 /\ Len(jobs') \in Nat
      BY <2>1, <2>2, <3>1
    <3>4. Queued'
      BY <2>1, <3>1, <3>2, <3>3 DEF Queued
    <3> QED  BY <1>1, <2>1, <2>2, <2>3, <3>4 DEF Tracking
  <2> QED  BY <1>1, <2>1, <2>3, SettingsFix DEF TrackingInv
<1> QED  BY <1>2, <1>3

(* A run that begins begins as one by itself does.                          *)
LEMMA StartTracks ==
  ASSUME DocumentInv, TrackingInv, StartJob
  PROVE  TrackingInv' /\ VerdictIsTrue'
<1>1. /\ pc = "engines" /\ pc' = pc /\ documents' = <<>> /\ VerdictIsTrue' /\ UNCHANGED <<session, opts, pipeline>>
      /\ jobs # <<>> /\ UNCHANGED <<jobs, results, slurped>> /\ at' = 0
  BY NothingSaid DEF StartJob, TrackingInv, settings
<1>2. ASSUME Slurps PROVE Tracking'
  <2>1. slurped = session.input /\ Queued
    BY <1>1, <1>2 DEF TrackingInv, Tracking
  <2>2. jobs[1] \in ReplayedJobs
    BY <1>1, <2>1 DEF Queued
  <2> DEFINE e == Job.engine
  <2>3. e \in Engines /\ Job.replay /\ Job' = Job /\ session \in Sessions
    BY <1>1, <2>2 DEF Job, ReplayedJobs, DocumentInv, OptionsInv
  <2>4. Course(e)[0] = AtStart /\ Course(e)' = Course(e) /\ OpsOf(e)' = OpsOf(e) /\ Len(OpsOf(e)) \in Nat
    BY <1>1, <2>3, CourseFollows, SettingsFix, OpsKnown
  <2>5. InCourse'
    <3>1. cin' = [replays |-> TRUE, feed |-> session.input, failed |-> FALSE] /\ cout'.captures = Job.capture /\ cout'.text = <<>>
      BY <2>1, <2>3 DEF StartJob
    <3>2. AtStart.rc = 0 /\ AtStart.count = 0 /\ AtStart.left = session.input /\ AtStart.failed = FALSE /\ AtStart.text = <<>>
      BY DEF AtStart
    <3>3. Course(Job.engine)'[at'] = AtStart /\ at' \in 0 .. Len(OpsOf(Job.engine)')
      BY <1>1, <2>4
    <3> QED  BY <1>1, <2>3, <3>1, <3>2, <3>3 DEF InCourse
  <2>6. Queued'
    BY <1>1, <2>1, SettingsFix DEF Queued
  <2> QED  BY <1>1, <2>1, <2>5, <2>6 DEF Tracking
<1> QED  BY <1>1, <1>2, SettingsFix DEF TrackingInv

(* What is known of the run under way.                                      *)
LEMMA UnderWay ==
  ASSUME DocumentInv, TrackingInv, Slurps, Running
  PROVE  /\ session \in Sessions /\ Job.engine \in Engines /\ Job \in ReplayedJobs
         /\ slurped = session.input /\ Queued /\ InCourse
         /\ documents = <<>> /\ at \in Nat /\ at <= Len(OpsOf(Job.engine)) /\ Does.ops = OpsOf(Job.engine)
<1>1. pc = "engines" /\ jobs # <<>> /\ at >= 0 /\ at \in Int
  BY DEF Running, DocumentInv, StreamsInv
<1>2. slurped = session.input /\ Queued /\ InCourse
  BY <1>1 DEF TrackingInv, Tracking
<1>3. Job \in ReplayedJobs
  BY <1>1, <1>2 DEF Queued, Job
<1>4. session \in Sessions /\ Job.engine \in Engines /\ Does.ops = OpsOf(Job.engine) /\ documents = <<>>
  BY <1>1, <1>3 DEF ReplayedJobs, DocumentInv, OptionsInv, Does, OpsOf, TrackingInv
<1>5. at <= Len(OpsOf(Job.engine))
  BY <1>1, <1>2, <1>4, OpsKnown DEF InCourse
<1> QED  BY <1>1, <1>2, <1>3, <1>4, <1>5

(* An operation takes a run one step on its course.                         *)
LEMMA OperateTracks ==
  ASSUME DocumentInv, TrackingInv, Operate
  PROVE  TrackingInv' /\ VerdictIsTrue'
<1>1. /\ pc = "engines" /\ pc' = pc /\ documents' = <<>> /\ VerdictIsTrue' /\ UNCHANGED <<session, opts, pipeline>>
      /\ jobs # <<>> /\ UNCHANGED <<jobs, results, slurped>>
  BY NothingSaid DEF Operate, Running, TrackingInv, settings
<1>2. ASSUME Slurps PROVE Tracking'
  <2> DEFINE e    == Job.engine
             now  == Course(e)[at]
             op   == OpsOf(e)[at + 1]
             done == Exec(op, now.left, now.failed)
             next == Course(e)[at + 1]
  <2>1. /\ session \in Sessions /\ e \in Engines /\ slurped = session.input /\ Queued /\ InCourse
        /\ at \in Nat /\ at < Len(OpsOf(e)) /\ Does.ops = OpsOf(e)
    BY <1>2, UnderWay DEF Operate
  <2>2. /\ now.rc = 0 /\ now.count = at /\ cin = [replays |-> TRUE, feed |-> now.left, failed |-> now.failed]
        /\ cout.captures = Job.capture /\ (Job.capture => cout.text = now.text)
    BY <2>1 DEF InCourse
  <2>3. /\ ~done.stops /\ at' = at + 1
        /\ cin' = [cin EXCEPT !.feed = done.left, !.failed = done.failed]
        /\ cout' = IF cout.captures THEN [cout EXCEPT !.text = @ \o done.prints] ELSE cout
    <3>1. PICK d \in {Exec(Does.ops[at + 1], Source, cin.failed)} :
            /\ ~d.stops /\ at' = at + 1
            /\ cin' = [cin EXCEPT !.feed = IF cin.replays THEN d.left ELSE @, !.failed = d.failed]
            /\ cout' = IF cout.captures THEN [cout EXCEPT !.text = @ \o d.prints] ELSE cout
      BY DEF Operate
    <3>2. cin.replays = TRUE /\ cin.feed = now.left /\ cin.failed = now.failed
      BY <2>2
    <3>3. d = done
      BY <2>1, <3>2 DEF Source
    <3> HIDE DEF done
    <3> QED  BY <3>1, <3>2, <3>3
  <2>4. at + 1 \in 0 .. Len(OpsOf(e)) /\ at + 1 \in 1 .. Len(OpsOf(e)) /\ (at + 1) - 1 = at
    BY <2>1, OpsKnown
  <2>5. next = AfterOp(now, op)
    BY <2>1, <2>4, CourseFollows
  <2>6. next = [left |-> done.left, failed |-> done.failed, text |-> now.text \o done.prints, rc |-> 0, count |-> at + 1]
    <3>1. now.rc # 1 /\ ~done.stops /\ now.count = at
      <4> HIDE DEF now, done
      <4> QED  BY <2>2, <2>3
    <3>2. AfterOp(now, op) = [left |-> done.left, failed |-> done.failed, text |-> now.text \o done.prints,
                              rc |-> IF done.stops THEN 1 ELSE 0, count |-> now.count + 1]
      BY <3>1 DEF AfterOp
    <3> HIDE DEF now, op, done, next
    <3> QED  BY <2>5, <3>1, <3>2
  <2>7. Job' = Job /\ Course(Job.engine)' = Course(Job.engine) /\ OpsOf(Job.engine)' = OpsOf(Job.engine)
    BY <1>1, <2>1, SettingsFix DEF Job
  <2>8. InCourse'
    <3> HIDE DEF done, now, next, op
    <3>1. next.rc = 0 /\ next.count = at + 1 /\ next.left = done.left /\ next.failed = done.failed /\ next.text = now.text \o done.prints
      BY <2>6
    <3>2. cin' = [replays |-> TRUE, feed |-> next.left, failed |-> next.failed]
      BY <2>2, <2>3, <3>1
    <3>3. cout'.captures = Job.capture /\ (Job.capture => cout'.text = next.text)
      <4>1. cout = [captures |-> cout.captures, text |-> cout.text]
        BY DEF DocumentInv, StreamsInv
      <4> QED  BY <2>2, <2>3, <3>1, <4>1
    <3>4. Course(Job.engine)'[at'] = next /\ at' \in 0 .. Len(OpsOf(Job.engine)')
      BY <2>3, <2>4, <2>7 DEF next
    <3> QED  BY <2>3, <2>7, <3>1, <3>2, <3>3, <3>4 DEF InCourse
  <2>9. Queued'
    BY <1>1, <2>1, SettingsFix DEF Queued
  <2> QED  BY <1>1, <2>1, <2>8, <2>9 DEF Tracking
<1> QED  BY <1>1, <1>2, SettingsFix DEF TrackingInv

(* A run that ends as its engine does by itself is one more faithful result. *)
LEMMA EndTracks ==
  ASSUME DocumentInv, TrackingInv, Running, NEW rc \in {0, 1}, NEW ending, EndJob(rc, ending),
         Slurps => /\ Alone(Job.engine).output = Rendered(Course(Job.engine)[at].text, ending)
                   /\ Alone(Job.engine).rc = rc
                   /\ rc = 0 => Alone(Job.engine).count = at
  PROVE  TrackingInv' /\ VerdictIsTrue'
<1>1. /\ pc = "engines" /\ pc' \in {"engines", "exited"} /\ documents' = <<>> /\ VerdictIsTrue'
      /\ UNCHANGED <<session, opts, pipeline, slurped>> /\ jobs # <<>> /\ jobs' = Tail(jobs) /\ at' = -1
  BY NothingSaid DEF EndJob, Exit, Fails, Running, TrackingInv, settings
<1>2. ASSUME Slurps, pc' = "engines" PROVE Tracking'
  <2>1. /\ Job.engine \in Engines /\ Job \in ReplayedJobs /\ slurped = session.input /\ Queued /\ InCourse
    BY <1>2, UnderWay
  <2>2. PICK result : results' = Append(results, result) /\ Faithful(result, Job)
    <3>1. Job.replay
      BY <2>1 DEF ReplayedJobs
    <3>2. CASE Job.capture
      <4> DEFINE result == [output |-> Rendered(cout.text, ending), rc |-> rc, count |-> at]
      <4>1. results' = Append(results, result)
        BY <3>2 DEF EndJob
      <4>2. cout.text = Course(Job.engine)[at].text
        BY <2>1, <3>2 DEF InCourse
      <4>3. Faithful(result, Job)
        BY <1>2, <3>2, <4>2 DEF Faithful
      <4> QED  BY <4>1, <4>3
    <3>3. CASE ~Job.capture
      <4> DEFINE result == [output |-> <<>>, rc |-> 0, count |-> at]
      <4>1. results' = Append(results, result) /\ rc = 0
        BY <1>2, <3>1, <3>3 DEF EndJob, Fails, Exit
      <4>2. Faithful(result, Job)
        BY <1>2, <3>3, <4>1 DEF Faithful
      <4> QED  BY <4>1, <4>2
    <3> QED  BY <3>2, <3>3
  <2>3. Queued'
    <3>1. /\ IsSequence(results') /\ Len(results) \in Nat /\ Len(results') = Len(results) + 1
          /\ \A i \in 1 .. Len(results) : results'[i] = results[i]
          /\ results'[Len(results) + 1] = result
      BY <2>1, <2>2, AppendOK DEF Queued
    <3>2. /\ jobs \in Seq(ReplayedJobs) /\ jobs' \in Seq(ReplayedJobs) /\ Len(jobs) \in Nat /\ Len(jobs') = Len(jobs) - 1
          /\ \A i \in 1 .. Len(jobs') : jobs'[i] = jobs[i + 1] /\ i + 1 \in 1 .. Len(jobs)
          /\ 1 \in 1 .. Len(jobs)
      BY <1>1, <2>1 DEF Queued
    <3>3. Ahead' = Ahead /\ \A r, j : Faithful(r, j)' <=> Faithful(r, j)
      BY <1>1, SettingsFix
    <3>4. Len(results') + Len(jobs') = Len(Ahead')
      <4>1. Len(results) + Len(jobs) = Len(Ahead)
        BY <2>1 DEF Queued
      <4>2. Len(results) \in Nat /\ Len(results') = Len(results) + 1 /\ Len(jobs) \in Nat /\ Len(jobs') = Len(jobs) - 1
        BY <3>1, <3>2
      <4>3. Len(results') + Len(jobs') = Len(results) + Len(jobs)
        BY <4>2
      <4> QED  BY <3>3, <4>1, <4>3, Zenon
    <3>5. ASSUME NEW i \in 1 .. Len(jobs') PROVE jobs'[i] = Ahead'[Len(results') + i]
      <4>1. jobs'[i] = jobs[i + 1] /\ i + 1 \in 1 .. Len(jobs) /\ Len(results) + (i + 1) = Len(results') + i
        BY <3>1, <3>2
      <4> QED  BY <2>1, <3>3, <4>1 DEF Queued
    <3>6. ASSUME NEW i \in 1 .. Len(results') PROVE Faithful(results'[i], Ahead[i])
      <4>1. CASE i = Len(results) + 1
        <5>1. Ahead[i] = Job
          BY <2>1, <3>2, <4>1 DEF Queued, Job
        <5> QED  BY <2>2, <3>1, <4>1, <5>1
      <4>2. CASE i # Len(results) + 1
        <5>1. i \in 1 .. Len(results)
          BY <3>1, <4>2
        <5> QED  BY <2>1, <3>1, <5>1 DEF Queued
      <4> QED  BY <4>1, <4>2
    <3>7. ASSUME NEW i \in 1 .. Len(results') PROVE Faithful(results[i], Ahead[i])'
      BY <3>3, <3>6
    <3> QED  BY <3>1, <3>2, <3>4, <3>5, <3>7 DEF Queued
  <2> QED  BY <1>1, <2>1, <2>3 DEF Tracking
<1> QED  BY <1>1, <1>2, SettingsFix DEF TrackingInv

LEMMA RunEndTracks ==
  ASSUME DocumentInv, TrackingInv, RuntimeError \/ Return
  PROVE  TrackingInv' /\ VerdictIsTrue'
<1> DEFINE e   == Job.engine
           now == Course(e)[at]
<1>1. CASE RuntimeError
  <2>1. Running /\ at < Len(Does.ops) /\ EndJob(1, <<"runtime error">>)
    BY <1>1 DEF RuntimeError
  <2>2. ASSUME Slurps PROVE Alone(e).output = Rendered(now.text, <<"runtime error">>) /\ Alone(e).rc = 1
    <3>1. session \in Sessions /\ e \in Engines /\ InCourse /\ at \in 0 .. Len(OpsOf(e)) /\ at < Len(OpsOf(e)) /\ Does.ops = OpsOf(e)
      BY <2>1, <2>2, UnderWay DEF InCourse
    <3>2. now.rc = 0 /\ cin = [replays |-> TRUE, feed |-> now.left, failed |-> now.failed]
      BY <3>1 DEF InCourse
    <3>3. Exec(OpsOf(e)[at + 1], now.left, now.failed).stops
      BY <1>1, <3>1, <3>2 DEF RuntimeError, Source
    <3> QED  BY <3>1, <3>2, <3>3, AloneStops DEF Ending
  <2>3. 1 \in {0, 1} /\ 1 # 0
    OBVIOUS
  <2> QED  BY <2>1, <2>2, <2>3, EndTracks
<1>2. CASE Return
  <2>1. Running /\ at = Len(Does.ops) /\ EndJob(0, Value)
    BY <1>2 DEF Return
  <2>2. ASSUME Slurps
        PROVE  Alone(e).output = Rendered(now.text, Value) /\ Alone(e).rc = 0 /\ Alone(e).count = at
    <3>1. session \in Sessions /\ e \in Engines /\ InCourse /\ at = Len(OpsOf(e))
      BY <2>1, <2>2, UnderWay
    <3>2. now.rc = 0 /\ now.count = at
      BY <3>1 DEF InCourse
    <3>3. Value = Ending(e, FALSE)
      BY DEF Value, Ending, Does
    <3> DEFINE made == [output |-> Rendered(now.text, Value), rc |-> 0, count |-> at]
    <3>4. Alone(e) = made
      BY <3>1, <3>2, <3>3, AloneReturns
    <3>5. made.output = Rendered(now.text, Value) /\ made.rc = 0 /\ made.count = at
      OBVIOUS
    <3> HIDE DEF made
    <3> QED  BY <3>4, <3>5
  <2>3. 0 \in {0, 1}
    OBVIOUS
  <2> HIDE DEF now, e
  <2> QED  BY <2>1, <2>2, <2>3, EndTracks DEF now, e
<1> QED  BY <1>1, <1>2

(* A true document is a true verdict.                                       *)
LEMMA TruthfulSays ==
  ASSUME NEW doc
  PROVE  Truthful(doc) <=> SaysTrue(doc, Alone("quads"), Alone(OptimizedCode), Alone("ast"), Alone("vm"))
<1> DEFINE qd == Alone("quads")
           op == Alone(OptimizedCode)
           as == Alone("ast")
           vm == Alone("vm")
<1> HIDE DEF qd, op, as, vm
<1>1. Truthful(doc) <=> SaysTrue(doc, qd, op, as, vm)
  BY DEF Truthful, SaysTrue, qd, op, as, vm
<1> QED  BY <1>1 DEF qd, op, as, vm

LEMMA Said ==
  ASSUME documents = <<>>, pc' = "exited", UNCHANGED <<session, opts, pipeline>>, NEW doc, Report(doc),
         SaysTrue(doc, Alone("quads"), Alone(OptimizedCode), Alone("ast"), Alone("vm"))
  PROVE  TrackingInv' /\ VerdictIsTrue'
<1>1. Truthful(doc)'
  BY SettingsFix, TruthfulSays
<1>2. documents' = <<>> \/ documents' = <<doc>>
  BY DEF Report
<1>3. VerdictIsTrue'
  BY <1>1, <1>2 DEF VerdictIsTrue
<1> QED  BY <1>3 DEF TrackingInv

(* What the document compares is what the engines make of the program.      *)
LEMMA ReportsTrack ==
  ASSUME DocumentInv, TrackingInv, ReportTrace \/ ReportBench \/ ReportMetrics
  PROVE  TrackingInv' /\ VerdictIsTrue'
<1> DEFINE qd == Alone("quads")
           op == Alone(OptimizedCode)
           as == Alone("ast")
           vm == Alone("vm")
<1>1. /\ pc = "engines" /\ jobs = <<>> /\ Slurps /\ documents = <<>>
      /\ UNCHANGED <<session, opts, pipeline>> /\ pc' = "exited"
  BY DEF ReportTrace, ReportBench, ReportMetrics, AllRun, Report, settings, Slurps, TrackingInv
<1>2. /\ OptionsInv /\ session \in Sessions /\ "quads" \in Engines /\ "ast" \in Engines /\ "vm" \in Engines
      /\ OptimizedCode \in Engines
  BY DEF DocumentInv, OptionsInv, Engines, OptimizedCode
<1>3. Queued /\ Len(results) = Len(Ahead) /\ \A i \in 1 .. Len(Ahead) : Faithful(results[i], Ahead[i])
  <2>1. Queued
    BY <1>1 DEF TrackingInv, Tracking
  <2>2. Len(jobs) = 0 /\ Len(results) \in Nat
    <3>1. PICK S : results \in Seq(S)
      BY <2>1 DEF Queued, IsSequence
    <3> QED  BY <1>1, <3>1
  <2> QED  BY <2>1, <2>2 DEF Queued
<1>4. ASSUME NEW e \in Engines, NEW i \in 1 .. Len(Ahead), Ahead[i] = Captured(e)
      PROVE  results[i].output = Alone(e).output /\ results[i].rc = Alone(e).rc
  BY <1>3, <1>4 DEF Faithful, Captured
<1>5. CASE ReportTrace
  <2> DEFINE matches == Same(results[1], results[2])
             doc == [is |-> "trace", ok |-> TRUE, diagnostics |-> {}, outputsMatch |-> matches,
                     allAgree |-> matches /\ Same(results[3], results[1]) /\ Same(results[4], results[2])]
  <2>1. Report(doc)
    BY <1>5 DEF ReportTrace
  <2>2. Ahead = <<Captured("quads"), Captured(OptimizedCode), Captured("ast"), Captured("vm")>>
    BY <1>5 DEF ReportTrace, Ahead, JobsOf, TraceJobs
  <2>3. /\ results[1].output = qd.output /\ results[1].rc = qd.rc
        /\ results[2].output = op.output /\ results[2].rc = op.rc
        /\ results[3].output = as.output /\ results[3].rc = as.rc
        /\ results[4].output = vm.output /\ results[4].rc = vm.rc
    BY <1>2, <1>4, <2>2
  <2>4. /\ matches <=> Same(qd, op)
        /\ doc.allAgree <=> \A x, y \in {qd, op, as, vm} : Same(x, y)
    <3> HIDE DEF qd, op, as, vm
    <3>1. matches <=> Same(qd, op)
      BY <2>3 DEF Same
    <3>2. doc.allAgree <=> Same(qd, op) /\ Same(as, qd) /\ Same(vm, op)
      BY <2>3 DEF Same
    <3>3. Same(qd, op) /\ Same(as, qd) /\ Same(vm, op) <=> \A x, y \in {qd, op, as, vm} : Same(x, y)
      BY DEF Same
    <3> QED  BY <3>1, <3>2, <3>3
  <2>5. SaysTrue(doc, qd, op, as, vm)
    <3> HIDE DEF qd, op, as, vm
    <3> QED  BY <2>4 DEF SaysTrue
  <2> QED  BY <1>1, <2>1, <2>5, Said
<1>6. CASE ReportBench
  <2> DEFINE doc == [is |-> "bench", agree |-> /\ results[1 * Runs].output = results[2 * Runs].output
                                               /\ results[1 * Runs].output = results[3 * Runs].output]
  <2>1. Report(doc) /\ opts.mode = "--bench-engines"
    BY <1>6 DEF ReportBench
  <2>2. Runs \in Nat \ {0}
    BY <1>2, <2>1 DEF Runs, OptionsInv
  <2>3. Ahead = BenchJobs
    BY <2>1 DEF Ahead, JobsOf
  <2> DEFINE n == Runs
  <2>4. /\ n \in 1 .. 3 * n /\ 2 * n \in 1 .. 3 * n /\ 3 * n \in 1 .. 3 * n /\ 1 * n = n /\ 3 * n \in Nat
        /\ n <= n /\ ~(2 * n <= n) /\ ~(3 * n <= n) /\ 2 * n <= 2 * n /\ ~(3 * n <= 2 * n)
    <3> HIDE DEF n
    <3>1. n \in Nat \ {0}
      BY <2>2 DEF n
    <3> QED  BY <3>1
  <2>5. Len(Ahead) = 3 * n /\ Ahead[1 * n] = Captured(OptimizedCode) /\ Ahead[2 * n] = Captured("vm")
        /\ Ahead[3 * n] = Captured("ast")
    BY <2>3, <2>4 DEF BenchJobs
  <2>6. results[1 * n].output = op.output /\ results[2 * n].output = vm.output /\ results[3 * n].output = as.output
    BY <1>2, <1>4, <2>4, <2>5
  <2>7. (op.output = vm.output <=> Same(vm, op)) /\ (op.output = as.output <=> Same(as, op))
    <3>1. (vm.output = op.output <=> Same(vm, op)) /\ (as.output = op.output <=> Same(as, op))
      BY <1>2, OutputTellsEnd
    <3> QED  BY <3>1
  <2>8. SaysTrue(doc, qd, op, as, vm)
    <3> HIDE DEF qd, op, as, vm
    <3> QED  BY <2>6, <2>7 DEF SaysTrue
  <2> QED  BY <1>1, <2>1, <2>8, Said
<1>7. CASE ReportMetrics
  <2> DEFINE doc == [is |-> "metrics", before |-> results[1].count, after |-> results[2].count]
  <2>1. Report(doc) /\ opts.mode = "--metrics"
    BY <1>7 DEF ReportMetrics
  <2>2. Ahead = <<Counted("quads"), Counted(OptimizedCode)>>
    BY <2>1 DEF Ahead, JobsOf
  <2>3. results[1].count = qd.count /\ results[2].count = op.count
    BY <1>3, <2>2 DEF Faithful, Counted
  <2>4. SaysTrue(doc, qd, op, as, vm)
    <3> HIDE DEF qd, op, as, vm
    <3> QED  BY <2>3 DEF SaysTrue
  <2> QED  BY <1>1, <2>1, <2>4, Said
<1> QED  BY <1>5, <1>6, <1>7

-----------------------------------------------------------------------------
LEMMA InitTracks == Init => VerdictInv
<1> SUFFICES ASSUME Init PROVE TrackingInv /\ VerdictIsTrue
  BY InitInvariant DEF VerdictInv
<1> QED  BY DEF Init, TrackingInv, VerdictIsTrue

LEMMA StutterTracks ==
  ASSUME TrackingInv, VerdictIsTrue, UNCHANGED vars
  PROVE  TrackingInv' /\ VerdictIsTrue'
<1>1. /\ UNCHANGED <<session, opts, pipeline>>
      /\ UNCHANGED <<pc, jobs, at, stdin, slurped, cin, cout, results, documents>>
  BY DEF vars
<1>2. VerdictIsTrue'
  BY <1>1, SettingsFix DEF VerdictIsTrue
<1>3. ASSUME Slurps, pc = "engines" PROVE Tracking'
  <2>1. Tracking
    BY <1>3 DEF TrackingInv
  <2>2. Queued'
    BY <1>1, <2>1, SettingsFix DEF Tracking, Queued
  <2>3. ASSUME at # -1 PROVE InCourse'
    <3>1. Job' = Job /\ Course(Job.engine)' = Course(Job.engine) /\ OpsOf(Job.engine)' = OpsOf(Job.engine)
      BY <1>1, SettingsFix DEF Job
    <3> QED  BY <1>1, <2>1, <2>3, <3>1 DEF Tracking, InCourse
  <2> QED  BY <1>1, <2>1, <2>2, <2>3 DEF Tracking
<1> QED  BY <1>1, <1>2, <1>3, SettingsFix DEF TrackingInv

THEOREM NextTracks ==
  ASSUME VerdictInv, [Next]_vars
  PROVE  VerdictInv'
<1>1. DocumentInv'
  BY NextKeeps DEF VerdictInv
<1>2. TrackingInv' /\ VerdictIsTrue'
  BY FrontTracks, OptimizeTracks, StartTracks, OperateTracks, RunEndTracks, ReportsTrack, StutterTracks
     DEF VerdictInv, Next, Exited
<1> QED  BY <1>1, <1>2 DEF VerdictInv

(* Every mode, every program and engine, every input: what a document says  *)
(* of the engines, that outputs match, that engines agree, how many         *)
(* instructions two runs took, is what they make of the program each by     *)
(* itself on all of the input, though they run one after another on one     *)
(* std::cin, with its error flag, and one std::cout.                        *)
THEOREM VerdictsAreTrue == Spec => []VerdictIsTrue
<1>1. Init => VerdictInv
  BY InitTracks
<1>2. VerdictInv /\ [Next]_vars => VerdictInv'
  BY NextTracks
<1>3. VerdictInv => VerdictIsTrue
  BY DEF VerdictInv
<1> QED  BY <1>1, <1>2, <1>3, PTL DEF Spec
=============================================================================
