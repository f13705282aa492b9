------------------------------- MODULE Engines -------------------------------
(***************************************************************************)
(* The front end and the three engines together.  A program is analysed     *)
(* (module Sema) and lowered (module IRGen); the quad interpreter and the    *)
(* VM run the code side by side, quad by quad (module Lockstep), and the    *)
(* tree interpreter (module AstInterp) says what should come out:           *)
(* --run, --run-vm and --run-ast of src/main.cpp.                           *)
(***************************************************************************)
EXTENDS Lockstep, TLC

CONSTANTS
  Programs,   \* name -> the tree of a program, as the parser leaves it
  Turns,      \* see module AstInterp
  Structs,    \* see module Types
  Builtins    \* see module Sema

Front  == INSTANCE Sema
Oracle == INSTANCE AstInterp

ASSUME TurnsAssumption == Turns \in Nat

\* Semantic analysis accepts every program.
ASSUME AcceptedAssumption == \A x \in DOMAIN Programs : Front!Accepts(Programs[x])

VARIABLES
  program,   \* the name of the program
  stage      \* how far the driver is: "parsed", "analysed", "answered", "lowered", "running"
             \* (until it is answered, unit is the program's tree; then also its types and its answer)

vars == <<program, stage, unit, quads, vm>>

-----------------------------------------------------------------------------
(* Loading *)

(* The declarations of a statement, those of inner blocks included.         *)
RECURSIVE DeclsIn(_)
DeclsIn(st) ==
  LET each(stmts) == UNION {DeclsIn(stmts[n]) : n \in DOMAIN stmts}
  IN  CASE st.k = "decl"   -> {st}
        [] st.k = "block"  -> each(st.locals) \cup each(st.stmts)
        [] st.k = "if"     -> DeclsIn(st.a) \cup DeclsIn(st.b)
        [] st.k \in {"while", "do", "for", "label"} -> DeclsIn(st.a)
        [] st.k = "switch" -> UNION {each(st.cases[n].stmts) : n \in DOMAIN st.cases}
        [] OTHER           -> {}

(* The types of a function's own names, under the names quads use.          *)
NamesOf(fn) ==
  LET own  == {d \in DeclsIn(fn.body) : ~d.static}
      params == {[fn.params[n] EXCEPT !.type = Front!Decayed(@)] : n \in DOMAIN fn.params}
      name(d) == Front!Qualified(d.name, d.off)
      all == own \cup params
  IN  [x \in {name(d) : d \in all} |-> (CHOOSE d \in all : name(d) = x).type]

TypesOf(fns) == [f \in {fns[n].name : n \in DOMAIN fns} |-> NamesOf(fns[CHOOSE n \in DOMAIN fns : fns[n].name = f])]
GlobalTypes(ds) == [y \in {ds[n].name : n \in DOMAIN ds} |-> ds[CHOOSE n \in DOMAIN ds : ds[n].name = y].type]

(* One phase of the driver after another: the tree is checked, run by the   *)
(* tree interpreter, lowered, and compiled for the VM.                      *)
Phase(from, to) == stage = from /\ stage' = to

Init ==
  /\ program \in DOMAIN Programs
  /\ stage = "parsed"
  /\ unit = Programs[program]
  /\ quads = NotRun
  /\ vm = NotRun

Analyse ==
  /\ Phase("parsed", "analysed")
  /\ unit' = Front!Analyse(unit)
  /\ UNCHANGED <<program, quads, vm>>

RunTree ==
  /\ Phase("analysed", "answered")
  /\ unit' = [tree     |-> unit,
              types    |-> TypesOf(unit.functions),
              globals  |-> GlobalTypes(unit.globals),
              answer   |-> Oracle!Answer(unit),
              lowered  |-> NotRun,
              bytecode |-> NotRun]
  /\ UNCHANGED <<program, quads, vm>>

Generate ==
  /\ Phase("answered", "lowered")
  /\ unit' = [unit EXCEPT !.lowered = Front!Generate(unit.tree)]
  /\ UNCHANGED <<program, quads, vm>>

Begin == Phase("lowered", "running") /\ Launch /\ UNCHANGED program

RunBoth == stage = "running" /\ StepBoth /\ UNCHANGED <<stage, program>>

Next == Analyse \/ RunTree \/ Generate \/ Begin \/ RunBoth

Spec == Init /\ [][Next]_vars /\ WF_quads(RunBoth)

-----------------------------------------------------------------------------
(* The engines and the tree *)

\* The lowered program does what the tree says: the same output and the same error, or the same value and globals
\* (ast_interp.h: a second answer that IRGen cannot influence).
OracleAgrees == stage = "running" =>
  LET answer == unit.answer
      seen == Observed(quads)
  IN  quads.status # "running" /\ answer.status # "endless" =>
        /\ seen.output = answer.output
        /\ seen.status = answer.status
        /\ seen.status = "done" =>
             /\ seen.returned = answer.returned
             /\ \A x \in DOMAIN answer.globals : seen.globals[x] = answer.globals[x]

\* No program that semantic analysis accepts ends in an internal error of the interpreter.
NoInternalError == stage = "running" => quads.status # "internal"

-----------------------------------------------------------------------------
(* Values and types *)

ScalarFits(T, v) ==
  /\ Front!IsInteger(T) => ~IsAddress(v) /\ InRange(v.n, T.base)
  /\ Front!IsPointer(T) => IsAddress(v) \/ IsNull(v)

(* What a name of type T holds: of a number or pointer, itself, or a box    *)
(* with it; of a struct or array, its slots.                                *)
Fits(T, v, boxed) ==
  LET types == Front!SlotTypes(T)
      cells == quads.heap[v.arr]
  IN  IF Front!IsAggregate(T) \/ boxed
      THEN IsAddress(v) => \A n \in 1 .. Len(types) : v.n + n \in DOMAIN cells => ScalarFits(types[n], cells[v.n + n])
      ELSE ScalarFits(T, v)

IsBoxed(x) == x \in unit.lowered.boxed

\* Every named variable, at every step, holds a value in the range of its type, in each element and field
\* (int_semantics.h: a value of type T is always kept in T's range).
ValuesInRange == stage = "running" =>
  /\ \A n \in DOMAIN quads.stack :
       LET f == quads.stack[n]
           types == IF f.name = InitFrame THEN <<>> ELSE unit.types[f.name]
       IN  \A x \in DOMAIN f.vars \cap DOMAIN types : Fits(types[x], f.vars[x], IsBoxed(x))
  /\ \A x \in DOMAIN quads.globals \cap DOMAIN unit.globals :
       Fits(unit.globals[x], quads.globals[x], IsBoxed(x))

\* A program whose tree runs to an end runs to an end once lowered.
EndsWithTheTree == (stage = "running" /\ unit.answer.status # "endless") ~> quads.status \notin {"loading", "running"}
=============================================================================
