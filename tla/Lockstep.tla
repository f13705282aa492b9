------------------------------- MODULE Lockstep ------------------------------
(***************************************************************************)
(* The VM beside the quad interpreter: lowered code is compiled, and the    *)
(* two run it quad by quad (src/vm/vm.cpp, whose execute mirrors execCode   *)
(* of src/interp/interp.cpp "opcode for opcode").                           *)
(***************************************************************************)
EXTENDS Machine, FiniteSets

CONSTANT Units   \* the lowered programs: [functions, init]

Vm == INSTANCE VM

-----------------------------------------------------------------------------
(* What IRGen lowers to.  (A void function's value used as an operand is    *)
(* lowered to one that neither engine can read; see the findings.)           *)

IsList(s) == s \in Seq({s[k] : k \in DOMAIN s})

QuadOps == {"LABEL", "NOP", "GOTO", "IF_FALSE", "COPY", "ALLOC_ARRAY", "LOAD_INDEX", "STORE_INDEX", "COPY_BLOCK",
            "PARAM", "CALL", "RET"} \cup UnaryExprOps \cup BinaryExprOps

(* What is read has a value and what is written can be stored to; a label   *)
(* is one; a block's size is known; a call names a function.                *)
IsLowered(q) ==
  /\ q.op \in QuadOps /\ ~Unreadable(q) /\ ~Unstorable(q)
  /\ q.op \in {"LABEL", "GOTO", "IF_FALSE"} => q.result = Label(q.result.name)
  /\ q.op = "ALLOC_ARRAY" => Evaluable(q.arg1)
  /\ q.op = "COPY_BLOCK"  => IsConst(q.arg2)
  /\ q.op = "RET"  => Evaluable(q.arg1) \/ q.arg1 = NoOperand
  /\ q.op = "CALL" => q.arg1.name # InitFrame /\ (IsNameOperand(q.result) \/ q.result = NoOperand)

IsCode(code) == IsList(code) /\ \A k \in DOMAIN code : IsLowered(code[k])

IsUnit(u) ==
  /\ IsFiniteSet(DOMAIN u.functions) /\ "main" \in DOMAIN u.functions /\ InitFrame \notin DOMAIN u.functions
  /\ IsCode(u.init)
  /\ \A f \in DOMAIN u.functions :
       /\ IsCode(u.functions[f].code)
       /\ IsList(u.functions[f].params)
       /\ \A j, k \in DOMAIN u.functions[f].params : u.functions[f].params[j] = u.functions[f].params[k] => j = k

ASSUME UnitsAssumption == \A u \in Units : IsUnit(u)

VARIABLES
  unit,    \* what the engines load: lowered, and bytecode once it is compiled
  quads,   \* the quad interpreter's state
  vm       \* the VM's

both == <<unit, quads, vm>>
NotRun == [status |-> "loading"]
Begun  == quads.status # "loading"

LoadedInit ==
  /\ unit \in {[lowered |-> u, bytecode |-> NotRun] : u \in Units}
  /\ quads = NotRun
  /\ vm = NotRun

Launch ==
  /\ ~Begun
  /\ \E bytecode \in {Vm!Bytecode(unit.lowered.functions, unit.lowered.init)} :
       /\ unit' = [unit EXCEPT !.bytecode = bytecode]
       /\ vm' = Vm!Start(bytecode)
  /\ quads' = Start(unit.lowered.functions, "main", <<>>, unit.lowered.init)

(* A label or NOP, which the VM has no instruction for.                     *)
AtMarker(m) == Top(m).pc <= Len(Top(m).code) /\ Vm!Marker(Top(m).code[Top(m).pc])

StepBoth ==
  /\ quads.status = "running"
  /\ vm.status = "running"
  /\ quads' = Step(unit.lowered.functions, quads)
  /\ vm' = IF AtMarker(quads) THEN vm ELSE Vm!Step(unit.bytecode, vm)
  /\ UNCHANGED unit

LockstepSpec == LoadedInit /\ [][Launch \/ StepBoth]_both

-----------------------------------------------------------------------------
(* The VM simulates the interpreter *)

(* A frame of the VM and one of the interpreter, whose next quad is q: the  *)
(* registers hold what the names do.                                        *)
SameFrame(f, g, q) ==
  LET fn == unit.bytecode.functions[g.fn]
  IN  /\ f.name = g.fn
      /\ g.pc = Vm!Before(f.code, q)
      /\ \A x \in DOMAIN fn.registers : g.regs[fn.registers[x] + 1] = Lookup(f.vars, x)

(* A caller waits at its call, which the VM is already past.                *)
SameFrames ==
  /\ Len(quads.stack) = Len(vm.stack)
  /\ \A n \in DOMAIN quads.stack :
       LET f == quads.stack[n]
           waits == n < Len(quads.stack) /\ quads.stack[n + 1].name # InitFrame
       IN  SameFrame(f, vm.stack[n], IF waits THEN f.pc + 1 ELSE f.pc)

SameGlobals ==
  LET at == unit.bytecode.globals IN \A x \in DOMAIN at : vm.globals[at[x] + 1] = Lookup(quads.globals, x)

\* The VM agrees with the quad interpreter at every step: output, memory, queued arguments, globals, and
\* while it runs every register of every call (vm.h: the two must agree byte for byte).
VMAgrees == Begun =>
  /\ vm.status = quads.status
  /\ vm.output = quads.output
  /\ vm.heap = quads.heap
  /\ vm.pending = quads.pending
  /\ vm.returned = quads.returned
  /\ SameGlobals
  /\ quads.status = "running" => SameFrames
=============================================================================
