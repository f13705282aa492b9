------------------------------- MODULE Machine -------------------------------
(***************************************************************************)
(* The IR interpreter (src/interp/interp.cpp): one quad per step.           *)
(*                                                                         *)
(* fns maps a function's name to [params, code].  A machine state m holds  *)
(* the stack of frames (the C++ recursion of execFunction), the globals,   *)
(* the arrays that live in memory, the arguments PARAM has queued, the     *)
(* values printed, the value returned and a status: running, done, or the   *)
(* fault that stopped it.  Frame and globals are partial: a name never      *)
(* stored reads as 0.  Of the library, functions that print their arguments *)
(* and give back the first; left out are floats and the text of output.     *)
(***************************************************************************)
EXTENDS Quads

CONSTANT Fuel   \* rounds of 20 steps after which a run counts as endless

ASSUME FuelAssumption == Fuel \in Nat

-----------------------------------------------------------------------------
Frame(name, code, vars) == [name |-> name, code |-> code, pc |-> 1, vars |-> vars]

(* execFunction: missing arguments are 0, extra ones are dropped.           *)
Enter(fns, f, args) ==
  LET params == fns[f].params
      value(x) == LET i == CHOOSE k \in DOMAIN params : params[k] = x
                  IN  IF i <= Len(args) THEN args[i] ELSE Num(0)
  IN  Frame(f, fns[f].code, [x \in {params[k] : k \in DOMAIN params} |-> value(x)])

(* The code of globalInit runs first, in a frame of no function.            *)
InitFrame == ""
Start(fns, f, args, init) ==
  [stack |-> <<Enter(fns, f, [i \in DOMAIN args |-> Num(args[i])]), Frame(InitFrame, init, <<>>)>>,
   globals |-> <<>>, heap |-> <<>>, pending |-> <<>>, output |-> <<>>, returned |-> Num(0), status |-> "running"]

Top(m) == m.stack[Len(m.stack)]

Lookup(store, x) == IF x \in DOMAIN store THEN store[x] ELSE Num(0)

(* evalOperand; asked for the value of anything else it fails.              *)
Evaluable(o) == IsConst(o) \/ IsNameOperand(o)

Value(m, o) ==
  CASE IsConst(o)  -> Num(o.ival)
    [] IsGlobal(o) -> Lookup(m.globals, o.name)
    [] OTHER       -> Lookup(Top(m).vars, o.name)

(* store, into the top frame or the globals *)
Store(m, o, v) ==
  IF IsGlobal(o) THEN [m EXCEPT !.globals = Bound(@, o.name, v)]
                 ELSE [m EXCEPT !.stack[Len(m.stack)].vars = Bound(@, o.name, v)]

At(m, pc)   == [m EXCEPT !.stack[Len(m.stack)].pc = pc]
Advance(m)  == At(m, Top(m).pc + 1)
Fail(m, fault) == [m EXCEPT !.status = fault]

(* A jump to a label the code does not have is an internal error.           *)
Jump(m, label) ==
  LET code == Top(m).code
      places == {i \in DOMAIN code : code[i].op = "LABEL" /\ code[i].result = label}
  IN  IF places = {} THEN Fail(m, "internal") ELSE At(m, CHOOSE i \in places : \A j \in places : j <= i)

(* The end of a function, with a value: the caller stores it, if its call   *)
(* has a result, and goes on.  The last frame's end is the program's.       *)
LeaveWith(m, v) ==
  LET popped == [m EXCEPT !.stack = SubSeq(@, 1, Len(@) - 1)]
  IN  IF Top(m).name = InitFrame THEN popped
      ELSE IF Len(m.stack) = 1
      THEN [popped EXCEPT !.returned = v, !.status = "done"]
      ELSE LET call == Top(popped).code[Top(popped).pc]
           IN  Advance(IF call.result = NoOperand THEN popped ELSE Store(popped, call.result, v))

(* CALL takes the last argc queued arguments, and fails if there are fewer. *)
Invoke(fns, m, q, args) ==
  IF q.arg1.name \in DOMAIN fns
  THEN [m EXCEPT !.stack = Append(@, Enter(fns, q.arg1.name, args))]
  ELSE LET printed == [m EXCEPT !.output = @ \o [i \in DOMAIN args |-> IntOf(args[i])]]
       IN  Advance(IF q.result = NoOperand THEN printed ELSE Store(printed, q.result, Num(IntOf(args[1]))))

Call(fns, m, q, kept) ==
  IF kept < 0 THEN Fail(m, "internal")
  ELSE Invoke(fns, [m EXCEPT !.pending = SubSeq(@, 1, kept)], q,
              SubSeq(m.pending, kept + 1, Len(m.pending)))

(* Memory: an array of n zeros, one slot read or written, a block copied.   *)
Allocate(m, q, n) ==
  Store([m EXCEPT !.heap = Append(@, Zeros(IF n < 0 THEN 0 ELSE n))], q.result, NewArray(m.heap))

Faulting(m, fault, done) == IF fault = "" THEN Advance(done) ELSE Fail(m, fault)

Load(m, q, base, i) ==
  LET fault == SlotFault(m.heap, base, i)
  IN  Faulting(m, fault, IF fault = "" THEN Store(m, q.result, Peek(m.heap, base, i)) ELSE m)

StoreSlot(m, base, i, v) == Faulting(m, SlotFault(m.heap, base, i), [m EXCEPT !.heap = Poke(@, base, i, v)])

CopyBlock(m, from, to, n) ==
  Faulting(m, MoveFault(m.heap, from, to, n), IF n > 0 THEN [m EXCEPT !.heap = Move(@, from, to, n)] ELSE m)

(* Quad q, whose operands have the values a and b and its result r.         *)
Execute(fns, m, q, a, b, r) ==
  CASE q.op \in {"LABEL", "NOP"} -> Advance(m)
    [] q.op = "GOTO" \/ (q.op = "IF_FALSE" /\ ~Truthy(a)) -> Jump(m, q.result)
    [] q.op = "IF_FALSE" /\ Truthy(a) -> Advance(m)
    [] q.op = "COPY"  -> Advance(Store(m, q.result, a))
    [] q.op \in UnaryExprOps  -> Advance(Store(m, q.result, Unary(q.op, a, q.ty)))
    [] q.op \in BinaryExprOps -> Faulting(m, BinaryFault(q.op, a, b, q.ty), Store(m, q.result, Binary(q.op, a, b, q.ty)))
    [] q.op = "ALLOC_ARRAY" -> Advance(Allocate(m, q, IntOf(a)))
    [] q.op = "LOAD_INDEX"  -> Load(m, q, a, IntOf(b))
    [] q.op = "STORE_INDEX" -> StoreSlot(m, r, IntOf(a), b)
    [] q.op = "COPY_BLOCK"  -> CopyBlock(m, a, r, q.arg2.ival)
    [] q.op = "PARAM" -> Advance([m EXCEPT !.pending = Append(@, a)])
    [] q.op = "CALL"  -> Call(fns, m, q, Len(m.pending) - q.arg2.ival)
    [] q.op = "RET"   -> LeaveWith(m, IF q.arg1 = NoOperand THEN Num(0) ELSE a)

(* Operands read that have no value, or a result that cannot be stored to.  *)
Unreadable(q) == q.op # "RET" /\ \E f \in UseFields(q.op) : ~Evaluable(q[f])
Unstorable(q) ==
  q.op \in {"COPY", "ALLOC_ARRAY", "LOAD_INDEX"} \cup UnaryExprOps \cup BinaryExprOps /\ ~IsNameOperand(q.result)

Fetch(fns, m, q) ==
  IF Unreadable(q) \/ Unstorable(q) THEN Fail(m, "internal")
  ELSE Execute(fns, m, q, Value(m, q.arg1), Value(m, q.arg2), Value(m, q.result))

Step(fns, m) ==
  IF Top(m).pc > Len(Top(m).code) THEN LeaveWith(m, Num(0)) ELSE Fetch(fns, m, Top(m).code[Top(m).pc])

-----------------------------------------------------------------------------
(* The state a run ends in, or reaches after 20 * Fuel steps.               *)
RunSteps(fns, m) ==
  LET after[n \in 0 .. 20] ==
        IF n = 0 THEN m ELSE LET st == after[n - 1] IN IF st.status = "running" THEN Step(fns, st) ELSE st
  IN  after[20]

Run(fns, f, args, init) ==
  LET after[n \in 0 .. Fuel] ==
        IF n = 0 THEN Start(fns, f, args, init)
        ELSE LET st == after[n - 1] IN IF st.status = "running" THEN RunSteps(fns, st) ELSE st
  IN  after[Fuel]

(* What a run lets its user see.                                            *)
Observed(m) ==
  [output |-> m.output, returned |-> Opaque(m.returned), status |-> m.status,
   globals |-> [x \in DOMAIN m.globals |-> Contents(m.heap, m.globals[x])]]

Observe(fns, f, args, init) == Observed(Run(fns, f, args, init))
=============================================================================
