------------------------------- MODULE AppModel ------------------------------
(***************************************************************************)
(* AppModel of Cppify (CppifyApp.swift): what the window shows while runs, *)
(* comparisons with clang and a benchmark are in flight.  All of it is on  *)
(* the main actor, so a step is what happens between two awaits.           *)
(*                                                                         *)
(* What is shown is abstracted to whose it is: 0 is nothing, n the n-th    *)
(* run.  A call of the compiler service answers once, in any order with    *)
(* the others (ServiceCall).                                               *)
(***************************************************************************)
EXTENDS Naturals

CONSTANTS
  Documents,   \* the texts the editor may hold
  Unsupported, \* those that use constructs MiniC lacks (SubsetAdvisor)
  MaxRuns,     \* bound: presses of Run
  MaxBenches   \* bound: presses of Run benchmark

ASSUME DocumentAssumption == Unsupported \subseteq Documents
ASSUME BoundAssumption == MaxRuns \in Nat /\ MaxBenches \in Nat

VARIABLES
  source,         \* the editor's text
  state,          \* CompilerState
  result,         \* whose result is shown
  clang,          \* whose comparison is shown
  serviceError,   \* whose error is shown
  compileSeconds, \* whose compile time is shown
  timedOut,       \* is the time-out shown
  comparing,      \* is the comparison's spinner shown
  selection,      \* whose pass is selected in the Processing panel
  startedAt,      \* runStartedAt: the latest run
  task,           \* per run: "none", "compiling", "comparing" or "done"
  comparison,     \* per run: "none", "running" or "ready"
  bench,          \* the number of the benchmark shown
  benches,        \* benchmarks begun
  benchRunning,
  overlapped,     \* history: did the latest run begin while another compiled
  replaced        \* history: was the document replaced since the latest run began

shown == <<result, clang, serviceError, compileSeconds, timedOut, selection>>
benchVars == <<bench, benches, benchRunning>>
history == <<overlapped, replaced>>
appVars == <<source, state, shown, comparing, startedAt, task, comparison, benchVars, history>>

Runs == 1 .. MaxRuns
Owners == 0 .. MaxRuns
InFlight(phase) == {n \in Runs : task[n] = phase}
Latest(n) == startedAt = n

(* "accepted" stands for the three states of a program that was run:        *)
(* succeeded, executionFailed and mismatch.                                 *)
States == {"idle", "compiling", "accepted", "failed", "unsupported"}

AppTypeOK ==
  /\ source \in Documents
  /\ state \in States
  /\ {result, clang, serviceError, compileSeconds, selection, startedAt} \subseteq Owners
  /\ {timedOut, comparing, benchRunning, overlapped, replaced} \subseteq BOOLEAN
  /\ task \in [Runs -> {"none", "compiling", "comparing", "done"}]
  /\ comparison \in [Runs -> {"none", "running", "ready"}]
  /\ bench \in 0 .. benches /\ benches \in 0 .. MaxBenches

AppInit ==
  /\ source \in Documents
  /\ state = "idle"
  /\ result = 0 /\ clang = 0 /\ serviceError = 0 /\ compileSeconds = 0 /\ selection = 0
  /\ timedOut = FALSE /\ comparing = FALSE
  /\ startedAt = 0
  /\ task = [n \in Runs |-> "none"]
  /\ comparison = [n \in Runs |-> "none"]
  /\ bench = 0 /\ benches = 0 /\ benchRunning = FALSE
  /\ overlapped = FALSE /\ replaced = FALSE

-----------------------------------------------------------------------------
(* Typing changes the text alone; New, Open and a sample replace the        *)
(* document, whatever is in flight.                                         *)

Type(text) ==
  /\ source' = text
  /\ UNCHANGED <<state, shown, comparing, startedAt, task, comparison, benchVars, history>>

Replace(text) ==
  /\ source' = text
  /\ result' = 0
  /\ clang' = 0
  /\ state' = "idle"
  /\ replaced' = TRUE
  /\ UNCHANGED <<serviceError, compileSeconds, timedOut, selection, comparing, startedAt, task, comparison, benchVars, overlapped>>

-----------------------------------------------------------------------------
(* compileAndRun.                                                           *)

\* Mutant of BeginRun: what an earlier run left is not cleared.
BeginKeepsError ==
  LET n == startedAt + 1
  IN  /\ n \in Runs
      /\ state # "compiling"
      /\ state' = "compiling"
      /\ clang' = 0 /\ selection' = 0 /\ compileSeconds' = 0
      /\ startedAt' = n
      /\ task' = [task EXCEPT ![n] = "compiling"]
      /\ comparing' = TRUE
      /\ comparison' = [comparison EXCEPT ![n] = "running"]
      /\ overlapped' = (InFlight("compiling") # {})
      /\ replaced' = FALSE
      /\ UNCHANGED <<source, result, serviceError, timedOut, benchVars>>

(* Up to the first await: the button is enabled unless a compile shows.     *)
BeginRun ==
  LET n == startedAt + 1
  IN  /\ n \in Runs
      /\ state # "compiling"
      /\ state' = "compiling"
      /\ serviceError' = 0 /\ clang' = 0 /\ selection' = 0 /\ compileSeconds' = 0 /\ timedOut' = FALSE
      /\ startedAt' = n
      /\ task' = [task EXCEPT ![n] = "compiling"]
      /\ comparing' = TRUE
      /\ comparison' = [comparison EXCEPT ![n] = "running"]
      /\ overlapped' = (InFlight("compiling") # {})
      /\ replaced' = FALSE
      /\ UNCHANGED <<source, result, benchVars>>

(* outcome(of:subsetIssues:): the issues are those of the text as it is now. *)
Rejected == IF source \in Unsupported THEN "unsupported" ELSE "failed"

\* Mutant of StopComparing: the spinner is left to the path that compares.
StopOnlyIfCompared(n) == comparing' = (comparing /\ ~(Latest(n) /\ task[n] = "comparing"))

(* The last line: a newer run keeps its spinner.                            *)
StopComparing(n) == comparing' = (comparing /\ ~Latest(n))

(* The program was accepted and run; a pass is selected if one changed      *)
(* something.  The comparison is awaited.                                   *)
CompileAccepted(n) ==
  /\ task[n] = "compiling"
  /\ compileSeconds' = n
  /\ result' = n
  /\ bench' = 0
  /\ state' = "accepted"
  /\ selection' \in {n, selection}
  /\ task' = [task EXCEPT ![n] = "comparing"]
  /\ UNCHANGED <<source, clang, serviceError, timedOut, comparing, startedAt, comparison,
                 benches, benchRunning, history>>

(* The program was rejected, with diagnostics.                              *)
CompileRejected(n) ==
  /\ task[n] = "compiling"
  /\ compileSeconds' = n
  /\ result' = n
  /\ bench' = 0
  /\ state' = Rejected
  /\ StopComparing(n)
  /\ task' = [task EXCEPT ![n] = "done"]
  /\ UNCHANGED <<source, clang, serviceError, timedOut, selection, startedAt, comparison,
                 benches, benchRunning, history>>

\* Mutant of CompileThrows: the state is not set.
ThrowsLeavesState(n) ==
  /\ task[n] = "compiling"
  /\ compileSeconds' = n
  /\ timedOut' \in {timedOut, TRUE}
  /\ serviceError' = n
  /\ StopComparing(n)
  /\ task' = [task EXCEPT ![n] = "done"]
  /\ UNCHANGED <<source, state, result, clang, selection, startedAt, comparison, benchVars, history>>

(* The call threw: no compiler, no launch, the time limit, or output that   *)
(* cannot be read.                                                          *)
CompileThrows(n) ==
  /\ task[n] = "compiling"
  /\ compileSeconds' = n
  /\ timedOut' \in {timedOut, TRUE}
  /\ serviceError' = n
  /\ state' = "failed"
  /\ StopComparing(n)
  /\ task' = [task EXCEPT ![n] = "done"]
  /\ UNCHANGED <<source, result, clang, selection, startedAt, comparison, benchVars, history>>

(* The task that runs clang, cancelled or not.                              *)
ComparisonEnds(n) ==
  /\ comparison[n] = "running"
  /\ comparison' = [comparison EXCEPT ![n] = "ready"]
  /\ UNCHANGED <<source, state, shown, comparing, startedAt, task, benchVars, history>>

\* Mutants of EndRun.
EndKeepsAlways(n) ==   \* the comparison is shown whoever is the latest
  /\ task[n] = "comparing" /\ comparison[n] = "ready"
  /\ clang' = n
  /\ StopComparing(n)
  /\ task' = [task EXCEPT ![n] = "done"]
  /\ UNCHANGED <<source, state, result, serviceError, compileSeconds, timedOut, selection, startedAt, comparison, benchVars, history>>

EndOnlyLatest(n) ==   \* an older run is not ended
  /\ task[n] = "comparing" /\ comparison[n] = "ready"
  /\ Latest(n)
  /\ clang' = n
  /\ StopComparing(n)
  /\ task' = [task EXCEPT ![n] = "done"]
  /\ UNCHANGED <<source, state, result, serviceError, compileSeconds, timedOut, selection, startedAt, comparison, benchVars, history>>

(* After the comparison: kept only if no newer run has started.             *)
EndRun(n) ==
  /\ task[n] = "comparing" /\ comparison[n] = "ready"
  /\ clang' = (IF Latest(n) THEN n ELSE clang)
  /\ StopComparing(n)
  /\ task' = [task EXCEPT ![n] = "done"]
  /\ UNCHANGED <<source, state, result, serviceError, compileSeconds, timedOut, selection, startedAt, comparison, benchVars, history>>

-----------------------------------------------------------------------------
(* runBenchmark.                                                            *)

BeginBenchmark ==
  /\ benches < MaxBenches /\ ~benchRunning
  /\ benches' = benches + 1
  /\ benchRunning' = TRUE
  /\ UNCHANGED <<source, state, shown, comparing, startedAt, task, comparison, bench, history>>

EndBenchmark ==
  /\ benchRunning
  /\ benchRunning' = FALSE
  /\ bench' \in {0, benches}
  /\ UNCHANGED <<source, state, shown, comparing, startedAt, task, comparison, benches, history>>

-----------------------------------------------------------------------------
CompileAnswers(n) == CompileAccepted(n) \/ CompileRejected(n) \/ CompileThrows(n)

AppNext ==
  \/ \E text \in Documents : Type(text) \/ Replace(text)
  \/ BeginRun
  \/ \E n \in Runs : CompileAnswers(n) \/ ComparisonEnds(n) \/ EndRun(n)
  \/ BeginBenchmark
  \/ EndBenchmark

(* The service answers every call (ServiceCall): the compiler takes the     *)
(* input it is given.  The main actor runs what was resumed; the user need  *)
(* not do anything.                                                         *)
AppFairness ==
  /\ \A n \in Runs : WF_appVars(CompileAnswers(n)) /\ WF_appVars(ComparisonEnds(n)) /\ WF_appVars(EndRun(n))
  /\ WF_appVars(EndBenchmark)

AppSpec == AppInit /\ [][AppNext]_appVars /\ AppFairness

-----------------------------------------------------------------------------
(* The clang column belongs to the newest run, however the comparisons of   *)
(* older ones end ("only keep it if no newer Run has started meanwhile").   *)
ComparisonIsOfLatestRun == clang \in {0, startedAt}

(* Once nothing is in flight nothing spins: the state has left `compiling`  *)
(* and the comparison's spinner is off, in whatever order the runs ended.   *)
SettledWhenIdle == InFlight("compiling") \cup InFlight("comparing") = {} => state # "compiling" /\ ~comparing

(* As long as no run began while another compiled, what is shown is the     *)
(* newest run's: its time, its error, its time-out, and its result once     *)
(* there is one; and the Run button is disabled while it compiles, until    *)
(* the document is replaced.                                                *)
ShownIsOfLatestRun ==
  ~overlapped =>
    /\ {compileSeconds, serviceError, selection} \subseteq {0, startedAt}
    /\ timedOut => serviceError = startedAt
    /\ state \in States \ {"idle", "compiling", "failed"} => result = startedAt
    /\ InFlight("compiling") # {} /\ ~replaced => state = "compiling"

(* "Timing of the latest Run, shown by the toolbar timer."                  *)
TimingIsOfLatestRun == compileSeconds \in {0, startedAt}

(* Every run comes to its end, also the one a newer run has overtaken.      *)
EveryRunEnds == \A n \in Runs : task[n] = "compiling" ~> task[n] = "done"
=============================================================================
