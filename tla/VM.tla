---------------------------------- MODULE VM ----------------------------------
(***************************************************************************)
(* The register VM (src/vm/vm.cpp): quads compiled to instructions whose    *)
(* operands are numbered registers, globals and constants and whose jumps   *)
(* are indexes, and the instructions run one at a time.                     *)
(*                                                                         *)
(* The bytecode: per function the registers of its names, the parameters    *)
(* and the code, and for the program its globals and constants.  A VM state *)
(* v has the fields of a state of module Machine; a frame holds a function, *)
(* the index of the next instruction and the registers.                     *)
(***************************************************************************)
EXTENDS Quads, SequencesExt

(* Operands: where one is, and its number there from 0.                     *)
Slot(where, index) == [where |-> where, index |-> index]
Nowhere == Slot("NONE", 0)

(* The numbers of names in the order they are met.                          *)
Numbered(table, x) == IF x \in DOMAIN table THEN table ELSE Bound(table, x, Cardinality(DOMAIN table))

ParamRegisters(params) ==
  LET after[n \in 0 .. Len(params)] == IF n = 0 THEN <<>> ELSE Numbered(after[n - 1], params[n])
  IN  after[Len(params)]

(* The compiler's state c: the tables so far, and the slot last given.      *)
Compiling(p, params) ==
  [registers |-> ParamRegisters(params), globals |-> p.globals, consts |-> p.consts, code |-> <<>>, slot |-> Nowhere]

SlotFor(c, o) ==
  CASE IsConst(o) -> [c EXCEPT !.consts = Append(@, Num(o.ival)), !.slot = Slot("CONST", Len(c.consts))]
    [] o.kind \in {"TEMPORARY", "LOCAL"} ->
         LET t == Numbered(c.registers, o.name)
         IN  [c EXCEPT !.registers = t, !.slot = Slot("REG", t[o.name])]
    [] IsGlobal(o) -> LET t == Numbered(c.globals, o.name)
                      IN  [c EXCEPT !.globals = t, !.slot = Slot("GLOBAL", t[o.name])]
    [] OTHER -> [c EXCEPT !.slot = Nowhere]

(* Labels and NOPs take no instruction; a label stands for the next one.    *)
Marker(q) == q.op \in {"LABEL", "NOP"}
Before(code, n) == Cardinality({k \in 1 .. n - 1 : ~Marker(code[k])})
\* Mutant: labels and NOPs are counted as instructions.
TargetCountsMarkers(code, l) ==
  LET places == {k \in DOMAIN code : code[k].op = "LABEL" /\ code[k].result.name = l.name}
  IN  IF places = {} THEN -1 ELSE (CHOOSE k \in places : \A m \in places : m <= k) - 1

Target(code, l) ==
  LET places == {k \in DOMAIN code : code[k].op = "LABEL" /\ code[k].result.name = l.name}
  IN  IF places = {} THEN -1 ELSE Before(code, CHOOSE k \in places : \A m \in places : m <= k)

Inst(q, a, b, r, target, argc) ==
  [op |-> q.op, ty |-> q.ty, a |-> a, b |-> b, r |-> r, target |-> target, callee |-> q.arg1.name, argc |-> argc]

(* The operands an instruction has depend on the quad.                      *)
CompileQuad(c, code, q) ==
  LET a == SlotFor(c, q.arg1)
      b == SlotFor(a, q.arg2)
      r == SlotFor(b, q.result)
      result == SlotFor(c, q.result)
      add(d, inst) == [d EXCEPT !.code = Append(@, inst)]
  IN  CASE Marker(q)     -> c
        [] q.op = "GOTO" -> add(c, Inst(q, Nowhere, Nowhere, Nowhere, Target(code, q.result), 0))
        [] q.op = "IF_FALSE" -> add(a, Inst(q, a.slot, Nowhere, Nowhere, Target(code, q.result), 0))
        [] q.op = "CALL" -> add(result, Inst(q, Nowhere, Nowhere, result.slot, -1, q.arg2.ival))
        [] OTHER         -> add(r, Inst(q, a.slot, b.slot, r.slot, -1, 0))

Compiled(start, code) ==
  LET after[n \in 0 .. Len(code)] ==
        IF n = 0 THEN start ELSE LET c == after[n - 1] IN After(c, CompileQuad(c, code, code[n]))
  IN  after[Len(code)]

(* Functions share the globals and the constants.                           *)
CompileFunction(p, name, params, code) ==
  LET c == Compiled(Compiling(p, params), code)
  IN  [globals |-> c.globals, consts |-> c.consts,
       functions |-> Bound(p.functions, name, [registers |-> c.registers, params |-> Len(params), code |-> c.code])]

InitCode == ""
Bytecode(fns, init) ==
  LET names == SetToSeq(DOMAIN fns)
      after[n \in 0 .. Len(names)] ==
        IF n = 0 THEN CompileFunction([globals |-> <<>>, consts |-> <<>>, functions |-> <<>>], InitCode, <<>>, init)
        ELSE CompileFunction(after[n - 1], names[n], fns[names[n]].params, fns[names[n]].code)
  IN  after[Len(names)]

-----------------------------------------------------------------------------
(* Running *)

(* A frame's registers start at zero, the parameters first among them.      *)
Frame(prog, f, args) ==
  LET fn == prog.functions[f]
  IN  [fn |-> f, pc |-> 0,
       regs |-> [k \in 1 .. Cardinality(DOMAIN fn.registers) |->
                   IF k <= fn.params /\ k <= Len(args) THEN args[k] ELSE Num(0)]]

Start(prog) ==
  [stack |-> <<Frame(prog, "main", <<>>), Frame(prog, InitCode, <<>>)>>, globals |-> [k \in 1 .. Cardinality(DOMAIN prog.globals) |-> Num(0)],
   heap |-> <<>>, pending |-> <<>>, output |-> <<>>, returned |-> Num(0), status |-> "running"]

Top(v) == v.stack[Len(v.stack)]
Fail(v, fault) == [v EXCEPT !.status = fault]

Get(prog, v, s) ==
  CASE s.where = "REG"    -> Top(v).regs[s.index + 1]
    [] s.where = "GLOBAL" -> v.globals[s.index + 1]
    [] s.where = "CONST"  -> prog.consts[s.index + 1]
    [] s.where = "NONE"   -> Num(0)

Put(v, s, x) ==
  CASE s.where = "REG"    -> [v EXCEPT !.stack[Len(v.stack)].regs[s.index + 1] = x]
    [] s.where = "GLOBAL" -> [v EXCEPT !.globals[s.index + 1] = x]
    [] OTHER              -> Fail(v, "internal")

JumpTo(v, target) == IF target < 0 THEN Fail(v, "internal") ELSE [v EXCEPT !.stack[Len(v.stack)].pc = target]

(* The end of a frame: the caller is past its call, which has the result.   *)
LeaveWith(prog, v, x) ==
  LET popped == [v EXCEPT !.stack = Front(@)]
      caller == Top(popped)
      call   == prog.functions[caller.fn].code[caller.pc]
  IN  IF Top(v).fn = InitCode THEN popped
      ELSE IF Len(v.stack) = 1 THEN [popped EXCEPT !.returned = x, !.status = "done"]
      ELSE IF call.r = Nowhere THEN popped ELSE Put(popped, call.r, x)

Call(prog, v, in) ==
  LET kept == Len(v.pending) - in.argc
      args == SubSeq(v.pending, kept + 1, Len(v.pending))
      w    == [v EXCEPT !.pending = SubSeq(@, 1, kept)]
      printed == [w EXCEPT !.output = @ \o [k \in DOMAIN args |-> IntOf(args[k])]]
  IN  IF kept < 0 THEN Fail(v, "internal")
      ELSE IF in.callee \in DOMAIN prog.functions THEN [w EXCEPT !.stack = Append(@, Frame(prog, in.callee, args))]
      ELSE IF in.r = Nowhere THEN printed ELSE Put(printed, in.r, Num(IntOf(args[1])))

Faulting(v, fault, done) == IF fault = "" THEN done ELSE Fail(v, fault)

(* Instruction in, on the operands a and b and what its result r holds.     *)
Execute(prog, v, in, a, b, r) ==
  CASE in.op = "GOTO" \/ (in.op = "IF_FALSE" /\ ~Truthy(a)) -> JumpTo(v, in.target)
    [] in.op = "IF_FALSE" /\ Truthy(a) -> v
    [] in.op = "COPY"        -> Put(v, in.r, a)
    [] in.op \in UnaryExprOps -> Put(v, in.r, Unary(in.op, a, in.ty))
    [] in.op = "ALLOC_ARRAY" -> Put([v EXCEPT !.heap = Append(@, Zeros(IF IntOf(a) < 0 THEN 0 ELSE IntOf(a)))], in.r, NewArray(v.heap))
    [] in.op = "LOAD_INDEX"  -> Faulting(v, SlotFault(v.heap, a, IntOf(b)), Put(v, in.r, Peek(v.heap, a, IntOf(b))))
    [] in.op = "STORE_INDEX" -> Faulting(v, SlotFault(v.heap, r, IntOf(a)), [v EXCEPT !.heap = Poke(@, r, IntOf(a), b)])
    [] in.op = "COPY_BLOCK"  ->
         Faulting(v, MoveFault(v.heap, a, r, IntOf(b)), IF IntOf(b) > 0 THEN [v EXCEPT !.heap = Move(@, a, r, IntOf(b))] ELSE v)
    [] in.op = "PARAM" -> [v EXCEPT !.pending = Append(@, a)]
    [] in.op = "CALL"  -> Call(prog, v, in)
    [] in.op = "RET"   -> LeaveWith(prog, v, a)
    [] in.op \in BinaryExprOps -> Faulting(v, BinaryFault(in.op, a, b, in.ty), Put(v, in.r, Binary(in.op, a, b, in.ty)))

Step(prog, v) ==
  LET code == prog.functions[Top(v).fn].code
      in   == code[Top(v).pc + 1]
      next == [v EXCEPT !.stack[Len(v.stack)].pc = @ + 1]
  IN  IF Top(v).pc >= Len(code) THEN LeaveWith(prog, v, Num(0))
      ELSE Execute(prog, next, in, Get(prog, v, in.a), Get(prog, v, in.b), Get(prog, v, in.r))
=============================================================================
