# A verification project for MiniC-Opt

MiniC-Opt is an optimizing compiler for a subset of C. The repository holds two
versions of its engine: the course compiler at the root (`src/`, `include/`) and
MiniCCore (`cppify/MiniCCore`), the maintained version that the macOS
application Cppify ships. This project models **MiniCCore** from the words of a
source file to the three engines that run a program, the command line around
them, and the part of **Cppify** that uses it: the service that calls the compiler
as a child process and the application's state. TLC checks the models on small instances; TLAPS proves what
does not depend on a particular program.

Source paths in the modules' comments (`src/opt/...`, `include/...`) are relative
to `cppify/MiniCCore`; Swift paths to `cppify`. `PROJECT.json` maps each definition to its lines.

## 1. Inventory

The compiler is a chain: source text -> tokens -> syntax tree -> checked tree ->
quads -> one control-flow graph (CFG) per function -> passes -> quads -> an
engine. It is sequential; what makes it hard is *state that is used after
something else changed it*: cached analyses, facts replayed over a block, edges of
a graph kept next to the jumps in its code, names that stand for several things,
pass reports that decide whether to go on. Cppify around it is concurrent: tasks
of the main actor that interleave at every await, and, within one call of the
compiler, a child process, pipes, read handlers on background queues, a
termination handler and a timer.

| Component | State | Operations | What makes it correct | Here |
|---|---|---|---|---|
| Quads and arithmetic (`ir.h`, `ir_utils.h`, `int_semantics.h`) | a quad: op, two operands, result, type | reads, writes, `wrapInt`, `intBinary` | folder and engines agree at every width | `Quads` (no floats) |
| CFG and loops (`cfg.cpp`, `loop_util.h`) | code, `succs`, `preds` of each block | construction, reachability, dominators, natural loops, flatten | edges are the transfers of the code; dominators are exact | `ControlFlow`, `Fixpoints` |
| Verifier (`verify.cpp`) | none | `verifyCFG`, the rules for SSA | accepts only graphs the passes may assume | `ControlFlow!WellFormed`, `SSA!WellFormedSSA` (not `checkShape`) |
| Data-flow solver (`dataflow.cpp`) | in/out of each block, `changed`, `iter` | one block visit, one more sweep | least solution, exact for unions, before the cap | `DataFlow`, `Solver` |
| Analyses (`dataflow.cpp`) | problem and solution | reaching definitions, live variables, available expressions | license exactly the rewrites that are sound | `Passes` (without the last) |
| Passes P1-P9 (`src/opt`) | a count and the graph | `run` | behaviour, graph and report are right after every run | `Passes` |
| SSA group (`src/ssa`) | phis, origins, lattice, work lists | construct, SCCP, GVN, SSA LICM, SSA DCE, destruct | behaviour kept; no lost copy or swap | `SSA`, `SSAPasses`, `Sccp` |
| Pass and analysis manager (`pass_manager.cpp`, `analysis_manager.h`) | sweep, pass, `anyChanged`, cached analyses | run a pass, invalidate, next sweep | nothing stale, stop at a fixed point only | `PassLoop`, `Pipeline`, `AnalysisCache`, `PassManager` |
| Pipeline runner (`pipeline.cpp`) | group, `fixedPoint` | accept or refuse a choice of passes; run the groups in order; SSA in and out | accepts what it documents; ends; honest about the fixed point | `Driver`, `PassLoop`, `Optimizer` |
| Parsers (`parser.cpp`, `parser_bison.y`, `parse_context.cpp`) | position, nesting, struct layouts, typedef names, enumerators, structs being laid out | one function, or one rule with its action, per construct; recovery from an error | the tree that was written, the same from both; an error costs what is around it; ends on every file | `Parser` (written by hand), `Grammar` (generated, up to its first error), `ParseContext`; no floats |
| Semantic analysis (`sema.cpp`) | scopes, types, labels, signatures | checks; conversions; boxing marks | every conversion is written down; rejects what lowering cannot take | `Sema`, `Types` |
| IR generator (`irgen.cpp`) | code, temp and label counters, loops, boxed names | one visit per node | lowering keeps the meaning | `IRGen` |
| Quad interpreter (`interp.cpp`) | frames, globals, memory, pending parameters, output | one quad | the reference behaviour | `Machine`, `Quads` |
| Bytecode VM (`vm.cpp`) | bytecode; registers, globals | compile; one instruction | agrees with the interpreter byte for byte | `VM`, `Lockstep` |
| AST interpreter (`ast_interp.cpp`) | scopes, memory, completion | evaluate a tree | an answer the lowering cannot influence | `AstInterp` |
| Cppify `CompilerService` | child process, three pipes, handlers, timer, the answer | launch, feed, read, drain, terminate, resume | answers once, with the whole output; leaves no process | `ProcessRun`, `ServiceCall` |
| Cppify `AppModel` | last result, comparison, spinners, running tasks | run, compare, benchmark, edit | shows the result of the newest run | `AppModel` |
| Command line (`main.cpp`) | options, redirected streams, results, exit code | arguments, stages of a mode, an engine's run, the report | one verdict, true of the engines run apart; one document or an error | `Driver` |
| Lexers, preprocessor, AST printer | position, tokens | recognise | accept the grammar | not modelled |
| Backend, traces, JSON text | none | print | layout | not modelled |
| Cppify panels, editor | views | draw | none | not modelled |
| Root compiler | as above | as above | as above | not modelled: an earlier version |

How they interact: `main` reads the arguments, resolves the pipeline, and goes
through lexer, parser and semantic analysis as far as the mode needs, each only if
the ones before it reported nothing. Both parsers call `ParseContext`, which
holds what declarations mean. `applyOptimization` (main.cpp) builds one CFG per function
and hands it to `runPipeline`, which runs a `PassManager` per group. A pass asks
the manager's `AnalysisManager` for analyses; the analyses call `solve`. Each
pass edits the graph in place and reports whether it changed anything, and that
Boolean alone decides which analyses are dropped and whether another sweep runs.
`--run`, `--run-vm` and `--run-ast` run one program on the three engines;
`--trace-json`, `--bench-engines` and `--metrics` run several of them in one
process, on the same input, with `std::cin` and `std::cout` redirected for each.
Cppify's `AppModel` awaits `CompilerService.run`, which is one child process per
call; answers of different calls may come in any order.

Hard behaviours: analyses kept across passes (`pass_manager.cpp:61`), dominators
kept across changes of passes that promise to leave edges alone, the fixed point
loop and its cap of 32, passes enabling and undoing one another, blocks with two
edges to one successor, calls that write globals, loops that run zero times,
instructions that trap, wrap-around at narrow types, cycles of jumps, parallel
copies of phis, two work lists that feed one another, one name used for boxes of
two functions, jumps into and out of statements, an error in the middle of a
declaration that has opened a struct, engines that read the same input one after
another, a pipe that is full on both
sides, a handler that holds data when the process ends, a timer racing the
termination handler, a run overtaken by the next one.
`PROJECT.json` lists each at its line, with the properties meant to catch it.
Two have no property. `licm_ssa.cpp:53` (aliases of hoisted loads): the
optimizer's instances have no arrays. `CompilerService.swift:216` (input written
before the timer is armed): it is a finding; the recipe in section 4 shows it.

## 2. Modules

| Module | Models | Built on |
|---|---|---|
| `Quads` | operands, quads, use/def, integer semantics; values, pointers and memory | |
| `Fixpoints` | what a loop repeated until nothing changes ends in, as a value: `Fixpoint`, `Closure` | |
| `ControlFlow` | CFG construction, dominators, loops, sccp's lattice, its equations and their solution `SccpFacts`, `WellFormed` | `Quads`, `Fixpoints` |
| `DataFlow` | the equations of a gen/kill problem, the rounds that solve it | `Fixpoints` |
| `Solver` | `solve()` step by step | `DataFlow` |
| `Passes` | reaching definitions, live variables; P1-P9, each `run` as one operator from graph (and facts) to `[g, count]` | `ControlFlow`, `DataFlow` |
| `SSA`, `SSAPasses` | SSA form in and out; SCCP's rewriting by `SccpFacts`, GVN, LICM, DCE on it | `Passes` |
| `Sccp` | the two work lists of SCCP, item by item | `ControlFlow` |
| `PassLoop` | groups, sweeps and passes as loops, whatever a pass does | |
| `Pipeline` | the *abstract* pipeline: every analysis computed afresh | `PassLoop` |
| `AnalysisCache` | the loops with the analysis manager's three slots | `PassLoop` |
| `PassManager` | the same over arbitrary passes; implements `Pipeline` | `AnalysisCache` |
| `Optimizer` | composition: `AnalysisCache` with the real passes and analyses, behaviour by `Machine` | `SSAPasses`, `Machine`, `AnalysisCache` |
| `Driver` | a process of the compiler from its arguments to its exit code; presets, `--opt=` and `--config`: the pipeline or the reason it is refused | |
| `ParseContext`, `Parser` | what declarations mean; the hand-written parser as a stack machine | `Types` |
| `Grammar` | the generated parser: rules, actions, the feed of words; `Outcome` of a file | `Parser` |
| `Types`, `Sema`, `IRGen` | types and layouts; semantic analysis; lowering | `Quads` |
| `Machine`, `VM`, `AstInterp` | the three engines, as step functions or evaluators | `Quads` |
| `Lockstep` | the VM beside the quad interpreter: what is lowered is compiled, and the two run it quad by quad | `Machine`, `VM` |
| `Engines` | the driver's phases, the engines side by side and what the tree says should come out | `Lockstep`, `AstInterp`, `Sema`, `IRGen` |
| `ServiceCall` | the *abstract* call of the compiler: answered at most once | |
| `ProcessRun` | one call: main actor, child, handlers, ender, timer, killer; implements `ServiceCall` | |
| `AppModel` | the application's published state and its tasks | |
| `MC*`, `Source`, `MCPrograms` | instances for TLC, tree constructors and programs | |
| `GraphProofs`, `SolverProofs`, `PassManagerProofs`, `OptimizerProofs`, `SccpProofs`, `CppifyProofs`, `DriverProofs`, `LockstepProofs` | theorems | `TLAPS` |

**State and actions.** `Solver`: `met` and `flow` are the two sides of a block
(in and out of a forward problem, out and in of a backward one), `at` the inner
loop's index, `changed` and `iter` the outer loop's; `VisitBlock` is one turn of
the inner loop, `NextSweep` the outer loop going round. `PassLoop`: `group` is
the loop of `runPipeline`, `sweep`, `next` and `anyChanged` those of
`PassManager::run`; `AnalysisCache` adds `cache`, the slots of the analysis
manager. `RunPass` is a whole `run` with everything the manager does after it
(invalidation, the flag). `Optimizer` adds `program` and `expected`, which never
change: what the program does before any pass. A group with `ssa` is three runs
of the manager, into SSA form, its passes, and out of it. `Sccp`: a step is one
turn of either inner loop. `Engines`: one action per phase of the driver; the last of
them, `Begin`, compiles and starts both engines (`Launch` of `Lockstep`), and each step
after it, `RunBoth`, is one quad and its instruction (`StepBoth`). `Parser`: `todo` is what the calls in
progress have yet to do (words to expect, functions to call, trees to make of
the results) and `vals` their results, so that a step is one `expect`, one call or
one construction; a `CATCH` among what is to do is a handler, and `Throw` drops what
is above the nearest one and synchronizes. `ctx` is the `ParseContext`.
`Grammar` is no second state machine but an operator from the words of a file: a
reading has the same `todo` and `vals` with the symbols and actions of the rules, a
word leaves the readings that can go on with it, and the first word that leaves none
is the syntax error. Bison's tables decide with one word of lookahead which reading
that is (`%expect 0`: never two), so the rules are modelled and the tables are not;
rules are mapped to the grammar file, actions to the code generated from it. `Driver`: an action
per argument, per stage of a mode, and per operation of an engine on the streams; a
program is the outcome of each stage and the operations each engine would make.
`ProcessRun`: `pc` holds where the
main actor, each handler, the termination handler (`ender`), the timer and the
killer are; a pipe is a bounded queue of units; the child is any program: it may
read or not, write, stop at any time or never, ignore SIGTERM. `AppModel`: a step
is what a task does between two awaits.

**Mutants.** An operator marked "Mutant of X" is X with a plausible bug. It is
never used by a specification; `PROJECT.json` says which property fails when it
takes X's place.

**Abstractions.** Names and labels are model strings; floats, strings and the
input built-ins are absent from the engines (`Driver` has a run read and print);
traces, timings and reports are left out and the passes' counts kept. `Parser`
starts from words, as the lexer would deliver them, and leaves places out.
Fresh names follow the code's numbering. A result is the
printed values, the globals at the end, the returned value and how the run stopped.
What the application shows is abstracted to the run it belongs to. Loops that
only compute a value are one operator (`Fixpoint`, `Closure`); `GraphProofs`
proves what these are.

## 3. Runs

| Run | Question | Properties |
|---|---|---|
| `solver` | Does the round-robin solver find the solution, always, before its cap? | `UnionIsExact` and `IntersectionIsSafe`, against paths of the graph rather than the equations; `OrderDoesNotMatter`, against all blocks advancing at once; `LeastSolution`; `FlowGrows`; `Converges` |
| `pass_manager` | For arbitrary honest passes, is the cache invisible, and does the loop stop where it should? | `CachesFresh`, `SettledIsFixed`, `ImplementsPipeline` (refinement), `Terminates` |
| `optimizer` | With the nine classic passes, is the function right after *every* pass? | `SameBehaviour`, `StaysWellFormed`, `DominatorsExact`, `PassesKeepPromises`, `ReachesFixedPoint` |
| `ssa` | The same through groups of SSA passes, alone, together, twice and after the classic ones | `SameBehaviour`, `StaysWellFormed`, `RoundTripKeepsNames` |
| `sccp` | Do SCCP's two work lists lose nothing, and end where the equations do? | `NoChangeIsLost`, `SettlesOnFacts` |
| `engines` | Do lowering and three engines agree, and are all values in range, at every step? | `VMAgrees`, `OracleAgrees`, `NoInternalError`, `ValuesInRange`, `EndsWithTheTree` |
| `parser` | Is what was written read back, by both parsers alike, are errors contained, does every file end? | `ParsedAsWritten`, `ParsersAgree`, `ErrorsAreContained`, `EveryFileEnds` |
| `command_line` | Are the verdicts those of engines run apart, and is the answer one document or an error? | `VerdictIsTrue`, `OneDocument` |
| `process_run` | Is a call answered once, with its output, in every order of its processes, and does it end whenever its input is taken? | `AnsweredOnce`, `FullPipeIsDrained`, `UndisturbedOutputIsWhole`, `ProcessEnds`, `ImplementsCall` (refinement) |
| `app_model` | Is what is shown the newest run's, with tasks overlapping at every await? | `ComparisonIsOfLatestRun`, `SettledWhenIdle`, `ShownIsOfLatestRun`, `EveryRunEnds` |
| `boxes_leak` | Two functions with a local of one name and offset, one boxed | `OracleAgrees` is violated |
| `parsers_differ` | A static local of a struct type written in its declaration | `ParsersAgree` is violated |

What passing shows: over the programs and pipelines of the instances, each
pass, at whatever point of whatever sweep, keeps the behaviour of the function on
its inputs and a graph that `--verify-each` accepts, drops every analysis it
makes stale, keeps its promises to the manager, and comes to rest with the others
before the cap; and the lowered program agrees quad by quad with the VM's
instructions and in its outcome with the tree. Of the cached facts only the
dominators have an invariant in `optimizer` (`DominatorsExact`): that nothing in the
cache is stale is `CachesFresh` of `pass_manager`, for passes that keep the promises
`PassesKeepPromises` checks of the real ones.

Of the parsers `parser` shows that
every tree written out comes back from both, with the same tables of types and the
same errors of meaning, and that where one word is left out of a function or
something foreign stands in it they stop making sense of it at the same word.

The programs of the passing runs stay clear of the patterns listed as findings;
they do contain calls, globals, constant branches, jump chains, boxes, structs
and traps in all the combinations that are handled.

`CHECK_DEADLOCK FALSE` is set because the systems end: a solver that is done, a
pipeline with no group left, a program that has run, a call that is answered and
an application without tasks have no further step. `parser` and `command_line` keep
the check: there a finished file or process stutters and nothing else may stop.
`Converges`, `Terminates`,
`ReachesFixedPoint`, `EndsWithTheTree`, `EveryFileEnds`, `ProcessEnds`, `ImplementsCall` (whose abstract
call is fair) and `EveryRunEnds` are what rules out stopping early.

A call of the service does *not* always end: the main actor writes the input before it
arms the timer (`CompilerService.swift:216`, 224), so a child that neither reads nor
ends leaves it in the write for ever (`MainActorFree`, findings). `ProcessEnds` and the
progress of `ImplementsCall` therefore assume `InputIsTaken`: the writer does not wait for
ever. What they show is that this is the only way: whatever else the child does, ignoring
SIGTERM included, it ends and the caller is answered, or the application is lost to a
write that nobody reads.

### Bounds

- **`Inner = {1,2,3}`, one fact** (`solver`): every graph of an entry and three
  blocks with at most two successors each (all a terminator can have), hence
  nested and crossing loops, dead blocks and self loops; every gen/kill choice;
  every direction and meet. Facts of a gen/kill problem are independent, so one
  fact loses only the coincidence of two facts in a sweep. `IterationCap = 6`
  is enough for all of them, as `Converges` shows; the code's cap is 10000.
  `CapIsDefensive` gives the bound for every problem.
- **Three shapes, three passes** (`pass_manager`): passes of each kind the code
  has (keeping edges and asking for both sorts of analysis, asking for none,
  changing edges) with *every* effect on three shapes, two of which share their
  edges. A pass that is given stale facts wrecks the graph, so one stale read
  can be seen. `SweepCap = 4` is reached by passes that oscillate.
- **`SweepCap = 32`** (`optimizer`, `ssa`): the code's own.
- **`ByteBits = 4`, `WordBits = 8`, `NativeBits = 16`**: chars, ints and
  longs scaled down so that programs reach overflow at each width; the order of
  the widths, which wrapping and folding depend on, is kept.
- **`Fuel = 20`** rounds of 20 quads: an upper bound on a run. `EndsAssumption` of
  `MCOptimizer` has TLC check that every program of `optimizer` and `ssa` ends
  within it as written. **`Turns = 100`**: loop turns, jumps and calls after
  which the tree interpreter gives a program up as endless; `OracleAgrees` and
  `EndsWithTheTree` are about those it does not give up.
- **Programs**: the chosen ones are each named for what they exercise; in
  `optimizer` each goes through three presets, two other orders and all 36 pairs
  of passes, and 256 small ones ("a statement; a loop over two statements; show"
  over statements that copy, multiply, call, write a global or branch) through two
  pipelines. Inputs are one or two argument lists, chosen so that loops run zero
  times, once, and more. `sccp` solves the same programs in SSA form, as they come
  and after value numbering. `ssa` also sends them through two groups of SSA passes, but for
  `swap` and `lostcopy`, whose names clash there (findings). `engines` runs 54 programs with arrays, pointers,
  structs, switches and gotos.
- **Files** (`parser`): the programs of `engines`, written out word by word from their
  trees by `MCParser`; every two operators next to one another and around the
  nested ones; declarations with pointers, dimensions and initialisers; and one long
  function with each of its words but the braces left out in turn, or
  something wrong between two good functions. `MaxDepth = 4` (the code's is 256) and
  `MaxErrors = 6` are reached.
- **Sessions** (`command_line`): every mode that runs engines with programs on which
  at most one engine differs from the others, and with no input, too little and
  enough; every mode with each front-end stage failing or not, a pass that breaks the
  graph, a file that does not open; every wrong and right way of choosing a pipeline.
- **`InRoom = OutRoom = 2`, inputs and outputs of 0 or 3 units, `ReadLimit = 1`** (`process_run`):
  a stream stays empty or needs more than its pipe holds, so the writer of the input and
  the child both come to wait; a read may leave data behind.
- **`MaxRuns = 3`, `MaxBenches = 1`, two documents** (`app_model`): a run, one that
  overtakes it, and one that overtakes that; a document that is outside the subset,
  for the path without a comparison.

### Fairness

The compiler is one sequential loop, so a step that can be taken is taken: weak
fairness of the whole next-state relation, never of a single action. `Solver`
and `Parser` state it as `WF_vars(Next)`; in `PassManager` and `Optimizer` weak fairness of
`Moves` says the same of the three counters that every step moves, so that TLC
need not run a pass to see that it could run; in `Engines` it is the step of the
engines, the only action of its stage. `ProcessRun` has weak fairness per process:
main actor, each read handler, termination handler, timer, killer and each party
that resumes the caller; queues run what is put on them and the clock runs out.
Nothing is assumed of the child there; `InputIsTaken` is a hypothesis of the two properties
that need it. `AppModel` assumes that each task goes on and that every call of the service
answers, which `ImplementsCall` shows of a call whose input is taken. Those it makes are
such calls unless the compiler hangs while it compiles: `minic-trace` ends on an error or
reads all of its input before it runs the program (`main.cpp:637`, 736), and clang is given none.

## 4. Findings

Violations and disagreements between the code and what its own comments, tests or
documents say, under "findings" in `PROJECT.json`, each with the line it quotes.
Two are shown by runs of their own. The others were found the same way and their
runs retired; each is had back by an edit of one configuration:

| Property | Configuration and change |
|---|---|
| `SameBehaviour` of a constant branch over nothing | `optimizer.cfg` with `Programs <- EmptyConstPrograms`, `Pipelines <- BalancedOnly`, `Tried <- EveryOne` |
| `StaysWellFormed`, `SameBehaviour`, `ReachesFixedPoint` of P4, P7, P9 and copy propagation | `optimizer.cfg` with `Programs <- EmptyThenPrograms`, `ExpressionCallPrograms`, `GlobalCounterPrograms` or `SelfCopyPrograms`, `Pipelines <- ClassicOnly` (or `BalancedOnly`), `Tried <- EveryOne`, and that property |
| `PassesKeepPromises` of unreachable code | `optimizer.cfg` with `Programs <- DeadStorePrograms`, `Pipelines <- EmptiedFirst`, `Tried <- EveryOne` |
| `SameBehaviour` of a second SSA group | `ssa.cfg` with `Programs <- SwapPrograms`, `Pipelines <- TwiceSSA`, `Tried <- EveryOne` |
| precision of an intersection | `solver.cfg` with `Meets = {FALSE}` and `IntersectionIsPrecise` of `Solver` |
| `VMAgrees` of a void operand, `NoInternalError` of a struct operand, `OracleAgrees` of a late read or a skipped declaration | `boxes_leak.cfg` with `Programs <- MCVoidOperand`, `MCStructOperand`, `MCLateRead` or `MCPastDeclaration`, `Units <- NoUnits`, and that property |
| `ValuesInRange` of an array of a narrow type | `boxes_leak.cfg` with `Programs <- MCNarrowArray`, `Units <- NoUnits`, and that property |
| `ParsedAsWritten` of a typedef's sign or dimensions | `parser.cfg` with `Files <- MCRenamedFiles` |
| `ParsersAgree` of names, limits and the order of diagnostics | no edit: the files of the findings given to `--check` and `--check --parser=bison` |
| `ErrorsAreContained` of a parameter without a name | no edit: `int f(int) { return 1; }` given to `--check` |
| `GroupsAreUnmixed` of a group that names `ssa` | `command_line.cfg` with `Sessions <- MixedSessions` and that property of `Driver` |
| `OutputIsWhole` of a handler that holds data at the end | `process_run.cfg` with that property of `ProcessRun` |
| `MainActorFree` of the service | `process_run.cfg` with that property of `ProcessRun` alone: a child that neither reads its input nor ends |
| `TimingIsOfLatestRun` of the application | `app_model.cfg` with `TimingIsOfLatestRun` of `AppModel` |

(`Units` matters only to `UnitsAssumption`, which a void operand does not satisfy: section 5.)

## 5. Proofs

Every theorem holds for all values of the constants that satisfy the named
assumptions, with no bound on blocks, facts, passes, sweeps, runs or data.

**`GraphProofs`**, first part, is what the other modules' loops rest on. `Fixpoint(step, x)`
is a recursive function over the step's domain, which the provers can unfold only
where such a function exists. `Basin`, the arguments from which the step leads to
an end, gives that existence without induction over the iteration: it is the least
set closed under "leads into". Then `LeastFixpoint` and `GreatestFixpoint`: a
monotone step on maps from a finite set to subsets of a finite set ends, from a map
below (above) its image, in the least (greatest) fixed point above (below) it.
`ClosureIsLeast` says the same of a set grown under successors.

**`SolverProofs`** assumes `ProblemAssumption` (problems are well formed) and
`CapAssumption` (the cap is positive).

- `TypeCorrect`: `Spec => []TypeOK`.
- `FlowOnlyGrows`: `Spec => FlowGrows`. `TypeOK` alone is not inductive enough:
  a visit could lower a flow side that was too high. `Ascending` says that
  every flow side lies below what a visit would now write; the empty seed starts
  so, and monotonicity (more on the flow sides never means less after meet and
  transfer) keeps it.
- `SolvesLeast`: `Spec => []LeastSolution`. `Below` (every flow side lies under
  every solution) gives leastness; `Settled` (blocks already visited in a sweep
  without change satisfy their equation) gives, at the end of a quiet sweep,
  that the result is a solution. This is the partial correctness of `solve`
  under either meet. It also explains the imprecision of an intersection: there
  one wants the greatest solution, and the code finds the least.
- `OrderIsImmaterial`: the result is that of all blocks advancing at once, from
  `SolvesLeast` and `LeastFixpoint`; the other modules compute analyses that way.
- `IntersectionNeverOverclaims`: the blocks at which the solver holds a fact
  include none of those it is lost on the way to: those without the fact in the
  met side are closed under the steps that carry a loss.
- `UnionComputesPaths`: in one direction the facts carried along paths are a
  solution, so the least one lies below; in the other a solution is closed under
  the steps that carry a fact.
- `CapIsDefensive`: if each problem has fewer pairs of a block and a fact than the
  cap, the loop is only ever left after a quiet sweep. `SweepsPaid` is the
  invariant: each sweep begun after another has added a pair. The hypothesis is
  needed; the code does not check it (10000 against blocks times definitions).

**`GraphProofs`**, second part: `DominatorsByPaths` states, for any graph with `IsGraph`
(block 0 exists; edges lead to blocks and are listed at both ends, as the verifier's
`EdgesMatchCode` requires and `StaysWellFormed` checks after every pass), that the
rounds of `computeDominators` end, for each block the entry leads to, in the blocks
no path to it avoids. `BuiltGraphs`
states that whatever the code, `BuildCFG` yields such a graph: the leaders are finitely
many, a branch's targets and the block it falls through to are blocks, and block b is
listed before c as often as c is after it, which is at least once for both or for none.

**`PassManagerProofs`** assumes `PipelineAssumption` (pipelines are sequences of
groups of known passes with at least one sweep) and `PassAssumption`: a pass
given fresh facts leaves a graph, reports a count of 0 only if it changed
nothing, and, if it says it preserves the CFG, leaves the dominators as they
were. The invariant is `IInv == TypeOK /\ CachesFresh /\ IdleSoFar`.

- `TypeCorrect` and `NeverStale` (`ManagedSpec => []CachesFresh`). They need one
  another: an action's type is known only if the pass was given fresh facts.
- `StopsAtFixedPoint` (`[]SettledIsFixed`), from `IdleSoFar`: as long as nothing
  has changed in a sweep, the passes that have run would still change nothing.
- `ManagerIsTransparent` (`ManagedSpec => ImplementsPipeline`): every step of the
  manager is a step of the pipeline that computes analyses afresh, because what
  `Filled` hands to a pass is what the analyses find now.

`PassAssumption` is a hypothesis about the passes, and `PassesKeepPromises` checks
it of the real ones in the run `optimizer`. It is *not* true of them all: an empty
dead block is detached without being reported (findings), and there the theorems
say nothing about the code until that count is repaired. `OptimizerProofs` needs no
such hypothesis.

**`OptimizerProofs`** is about the real passes. It assumes `ProgramAssumption` (a function's
code is a sequence of quads) and `PipelineAssumption` (as above), and nothing about what a
program means, so the theorems hold of programs the front end would never produce.

- `EdgesStayMutual` (`Spec => []IsGraph(graph)`): a pass never leaves an edge that only one
  of its ends knows, or one that leads nowhere. P6 and SCCP erase an edge at both ends in
  two statements, P9 replaces a successor in place, erases a predecessor there and appends
  it to another list, where it may be already, and construction forgets unreached blocks in
  every predecessor list; `CutKeepsShape`, `RedirectKeepsShape` and `ClearingKeepsShape` are
  these edits. `ChainsEndInBlocks`: a chain of gotos, even a circular one, ends in a block.
  Scans over the blocks are inductions with `SetInduction` (`WholeSweep`).
- `DominatorsStayExact` (`Spec => []DominatorsExact`): what P7, P8 and the SSA passes are
  given are the dominators of the graph as it is. `DominatorsExact` is not inductive by
  itself: that dominators computed now are exact needs the graph to be one, and the step of
  the manager needs what a pass that changed edges says of it. `Sound` has both:
  `Shape(graph)` and, of a cached `"dom"`, `ExactFor`. `PassOutcome` is the heart: a pass
  leaves the paths from the entry as they were (`SameReach`), or reports a change
  and does not claim to keep the edges. That is *weaker* than the promise P6 breaks: it
  detaches an empty dead block and reports nothing, so the cache is kept over a changed
  graph, but a block that is not reached lies on no path from the entry
  (`ClearedShapes`). `EdgesLeftAlone` is the other half: each of the eleven passes whose
  dominators the manager keeps does leave every edge alone.

**`CppifyProofs`**, the service: `AtMostOneAnswer` (`[]AnsweredOnce`). Not inductive alone:
`OneClaimant` says that who is about to resume holds the claim, alone, and nobody
resumed before. The rest builds on it, assuming pipes with room and reads of at
least one unit:

- `TypeCorrect`, and `Control`, where the parties may be together.
- `OutputWhole` (`[]UndisturbedOutputIsWhole`). `InOrder` is the heart: what is
  stored, held by the handler, held by the termination handler and in the pipe
  make up, in this order, all the child wrote, unless a handler was still at work
  when the child ended (`raced`). `Quiet` says what an undisturbed end leaves
  in the pipe (nothing, once drained), `Hands` who may hold data, `OutputIsLast`
  that the output is the answer only after the last append. `OutputIsWhole`, the
  same without `~raced`, is violated (findings).
- `ReadersStandBy`: while the child lives, a full pipe has its handler in place or
  at work. `FullPipeIsDrained` says it with ENABLED, which stays with TLC; the
  theorem is the same with the handler's guards written out.
- `AnswersOrIsLost`: every step is a step of `ServiceCall` or a stutter, from a
  state that maps to its initial one: the safety half of `ImplementsCall`.

**`CppifyProofs`**, the application: `LatestComparison`, `Settles` and `ShownIsLatest`, for
every number of runs. `NewestSpins` (what spins does so for the newest run, which has
still to end) and `NewestCompiles` (without an overlap only the newest run
compiles) are the strengthening.

**`DriverProofs`** assumes `SessionsAssumption` (arguments are a sequence, a count is an
integer, an engine's operations are those the model knows).

- `AnswersInOneDocument` (`[]OneDocument`): whatever the program prints, reads or
  fails at, a process asked for JSON leaves one document on stdout and nothing
  around it, or nothing and a reason on stderr. At exit this is only visible as
  an outcome; `DocumentInv` says what keeps it so on the way. `EarlyInv`: before the
  engines run nothing is printed and nothing redirected. `EnginesInv`: every run ahead
  of a JSON mode is a captured one, and `std::cout` is redirected exactly while one is
  under way, also when it ends in an error. `JobsAreCaptured` needs that
  `--bench-engines=N` makes at least one run, whatever N.
- `VerdictsAreTrue` (`[]VerdictIsTrue`): whatever the engines read, print and trap at, a
  document compares what each makes of the program by itself on all of the input.
  `Course` is such a run, one operation after another; the invariant, `TrackingInv`,
  sets the process beside it. `InCourse`: the run under way has what its course has left
  to read, the same error flag and the same captured text. `Queued`: the runs that are
  over each left a `Faithful` result, in the order of the runs ahead at first.
  `StoppedStays` carries a trap to the end of the course, and `OutputTellsEnd` is why
  `--bench-engines` may compare outputs alone: an output ends differently after an
  error. What a course computes for any number of operations is an
  induction, done on sets of numbers with `SetInduction` (`GraphProofs`); `SessionsAssumption`
  says the input is a sequence.

**`SccpProofs`** assumes `GraphsAssumption`: the graphs are in SSA form, with blocks
numbered from the entry, edges between blocks, and one definition for each of the
finitely many names of `ssaOrigin` (checked of every graph the run solves).

- `NothingIsLost` (`[]NoChangeIsLost`). The property is not inductive: a quad or phi that
  does not wait is current now, but nothing says it still will be after its name has
  moved. `Sound` adds that a definition never gives more than is known of its name
  (`PhisOver`, `QuadsOver`), which needs that evaluation is monotone (`QuadFalls`,
  `PhiFalls`) and that a name has no second definition. `Leads` says what any amount of
  work does: values only fall, edges and work are only added, a name that has fallen has
  its uses queued, a new edge waits to be followed. Then a definition that is fine stays
  so wherever the work leads (`QuadStays`, `PhiStays`): if it does not wait, what it reads
  has not moved, so it gives what it gave; its name is between that and itself. The
  evaluations of a block's phis, quads and successors are loops, done by induction with
  `SetInduction`.
- `SettlesOnBest` (`[](Settled => Best(...) /\ ...)`): with both lists empty, what is
  known solves the equations (`Solves`: the blocks that edges lead to claim nothing
  their quads and phis do not give), and *no* solution knows more of a name or does with
  fewer edges. So the order of the work cannot matter, and no optimistic choice is lost.
  That it solves them is `IInv` with nothing waiting, and `Covers`: an edge's target has
  run or waits. That it is the best is `WithinAll`: what is known is above every solution
  from the start, and evaluation being monotone (`Modest`), a step that lowers a name
  lowers it no further than any solution has it.
- `SettlesOnTheFacts` (`[]SettlesOnFacts`): with both lists empty, what is known is
  `SccpFacts`, the result `SSAPasses` rewrites the graph with, whatever order the work
  was done in. So `Optimizer` may take SCCP for one step. `FactsAreBest` is the half
  about the rounds: evaluating every definition at once takes nothing from a solution
  and is monotone, so the rounds from "nothing known" stay above every solution; a
  round that changes something raises `Rank` (names moved, names varied, edges found),
  and `Most` bounds it, so they end; what a round leaves alone solves the equations.
  There is one best solution (`OneBest`), so the lists and the rounds end in the same.

**`LockstepProofs`** assumes `UnitsAssumption`: a program has a `main`, its functions have
distinct parameters, and its quads are such as `IRGen` lowers to (`IsLowered`: what is
read has a value, what is written can be stored to, a label is one). The run `engines`
checks the assumption of the code of every program it lowers. It leaves out one thing the
front end does accept, a void function's value used as an operand: there the two engines
differ (findings).

- `CompiledAsWritten`: what `VM::compile` makes of any lowered program. Compilation is
  three nested loops that add to the same tables (functions, quads, operands); `Numbering`
  (n names have the numbers below n) and `Extends` (a number is never given anew) are what
  each turn keeps, so a slot resolved early means the same at the end.
- `VMFollows` (`LockstepSpec => []VMAgrees`): of any such program, at every quad of its
  run the VM has the interpreter's output, memory, globals, queued arguments, returned value
  and status, and for each name of each call in progress a register with its value.
  `LockstepSpec` is the part of `Engines` from a lowered program on: before `Begin`
  `VMAgrees` says nothing, and `Begin` and `RunBoth` are `Launch` and `StepBoth`. The
  property is not inductive: it says nothing of the code a frame runs, which function a
  caller waits in, whether the bytecode is that of this program, or what type a state has.
  `LockInv` adds them: `Compiles` of the bytecode, and `Sim`, in which the running
  frames correspond at the quad about to run and the frames below them at the quad after
  their call (`Waiting`; the frame of the initialisers lies above `main`'s, which
  waits at its first quad). The step is a case for each shape of quad (`AtAnOp`): both engines
  read the same operands (`SameRead`), compute with the same operators
  (`SameArithmetic`, `SameMemory`), fault alike, and store to a name and to the
  register that stands for it alone. `AtLabel` is the stutter of the VM, `AtTheEnd` a
  function that ends without a return.

**Only model-checked.** Liveness: `Converges`, `Terminates`, `ReachesFixedPoint`,
`EndsWithTheTree`, `EveryFileEnds`, `ProcessEnds`, `EveryRunEnds` and the fairness in
`ImplementsCall`. `FullPipeIsDrained` (ENABLED, see above).
`SameBehaviour`, `StaysWellFormed`, `PassesKeepPromises` and
`RoundTripKeepsNames` of `Optimizer`: what is proved of the graphs is their edges, and
these are about the code in them; the first is an induction over runs of the
interpreter, and the third is false of some programs (findings).
`ParsedAsWritten`, `ParsersAgree`, `ErrorsAreContained`, `OracleAgrees`,
`NoInternalError` and `ValuesInRange`: their modules reach RECURSIVE operators (constant
expressions, trees, type layouts), which the provers cannot take, and most need an
induction over runs or over trees.

## 6. Not modelled, and why

Lexing, preprocessing, printing, the writers of traces and diagnostics, the JSON
reader, the backend and the views turn one text into another and are best tested on
text. What the generated parser does after its first syntax error is documented
to differ, and nothing is compared there. Floats would need their own
arithmetic and add no control. Strings, format strings and the input built-ins
likewise. The optimizer's instances have no arrays or pointers, so the passes'
memory rules (alias sets, `COPY_BLOCK`) are not exercised; the engines' instances
have them. Available expressions are only printed. The root compiler is the frozen
version of the same design; its P2, P3, P7 and P8 lack guards that MiniCCore
added, and the mutants `AfterCallKeepsAll` and `HoistableIgnoresLiveIn` are two
of them.

## 7. Plan

Done, in this order: solver; pass manager with its abstract pipeline; CFG,
analyses and passes; interpreter and lowering; their composition; the SSA group and
the work lists of SCCP; memory, the VM, the tree interpreter and semantic analysis,
composed; the compiler service and the application model; proofs about the solver,
the manager, fixed points, dominators, the service and the application; the parser;
the command line with the choice of pipeline, and a proof about it; the grammar of the
generated parser, against the parser written by hand; the proofs about SCCP's work lists
and the rounds that solve its equations; the proofs about the graphs the passes edit and
the dominators they are given; the proof that the VM follows the quad interpreter.

Left:

1. **SCCP**: that what it claims constant is so in every run of the function.
2. **Graph edits**: that an edge is listed as often at one end as at the other.
3. **Passes**: that live variables are fresh too, but for the dead block P6 does not report.
4. **Memory in the passes**: arrays in the optimizer's instances, for the alias analysis.
5. **Front ends**: the lexer's tokens; the course compiler's passes.
