--------------------------------- MODULE VM ---------------------------------
(***************************************************************************)
(* The virtual machine (vm.c, stack.h, stack.c, callstack.h, callstack.c,  *)
(* closure.c): a loop over bytecode with one flat stack of values and a    *)
(* call stack of return records.                                           *)
(*                                                                         *)
(* Pointers are indices: into the stack (top, slots), into the code of the *)
(* running function (ip), and into the objects allocated so far (cl and    *)
(* the payload of str, tuple and closure values).  The stack is memory:    *)
(* popping moves top and leaves the cell as it is.                         *)
(*                                                                         *)
(* An operator named <definition>_<slip> is that definition with a         *)
(* plausible mistake; no behaviour of the specification uses it.  The runs *)
(* are repeated with each to see that the properties notice.               *)
(***************************************************************************)
EXTENDS Values, Bytecode

CONSTANTS
  Programs,       \* compiled programs: [functions |-> ..., strs |-> ...]
  StackSize,      \* cells of the stack; 128K in the program
  CallstackSize,  \* frames of the call stack; 8K in the program
  MemoryMayFail   \* may memory_alloc return an error?

ASSUME SizeAssumption == /\ StackSize \in Nat \ {0}
                         /\ CallstackSize \in Nat \ {0}
                         /\ MemoryMayFail \in BOOLEAN

VARIABLES
  functions,  \* all functions of the program; the first one is its body
  stack,      \* the cells of the value stack
  top,        \* index of the last cell in use, -1 when none is
  frames,     \* return records of the active calls
  cl,         \* the running closure
  ip,         \* address of the next instruction in its function
  slots,      \* index of the running frame's cell 0
  strs,       \* strings allocated so far
  tuples,     \* tuples allocated so far
  closures,   \* closures allocated so far
  status,     \* what the run is doing
  result,     \* Result: "ok" or the error it carries
  out         \* the values printed so far

heap == <<strs, tuples, closures>>
vars == <<functions, stack, top, frames, cl, ip, slots, strs, tuples,
          closures, status, result, out>>

(* Before vm_init; compile has made closure 1, the program.                *)
Fresh ==
  /\ stack = [i \in 0..(StackSize - 1) |-> Uninit]
  /\ top = -1
  /\ frames = <<>>
  /\ cl = 1 /\ ip = 0 /\ slots = 0
  /\ tuples = <<>>
  /\ closures = <<[fn |-> 1, nonlocals |-> <<>>]>>
  /\ status = "idle"
  /\ out = <<>>

Init ==
  /\ \E p \in Programs : functions = p.functions /\ strs = p.strs
  /\ result = "ok"
  /\ Fresh

-----------------------------------------------------------------------------
(* What instructions are made of.                                          *)

function == functions[closures[cl].fn]

At(op) == status = "running" /\ OpAt(function, ip) = op

Byte == read_byte(function, ip + 1)
Word == read_word(function, ip + 1)

(* Memory around the array belongs to the same fresh allocation.           *)
cell(i) == IF i \in 0..(StackSize - 1) THEN stack[i] ELSE Uninit

peek(i) == cell(top - i)

stack_is_full == top = StackSize - 1

callstack_is_full_late == Len(frames) > CallstackSize
callstack_is_full      == Len(frames) = CallstackSize

(* An error is stored in the result and every caller returns.              *)
Fail(error) ==
  /\ status' = "halted"
  /\ result' = error
  /\ UNCHANGED <<functions, stack, top, frames, cl, ip, slots, heap, out>>

OutOfMemory == MemoryMayFail /\ Fail("out of memory")

(* The process dies of an arithmetic trap.                                 *)
Trap ==
  /\ status' = "trapped"
  /\ UNCHANGED <<functions, stack, top, frames, cl, ip, slots, heap, result,
                 out>>

(* Go on at next with a new top and v stored in it.                        *)
Store(newTop, v, next) ==
  /\ stack' = [stack EXCEPT ![newTop] = v]
  /\ top' = newTop
  /\ ip' = next
  /\ UNCHANGED <<functions, frames, cl, slots, status, result>>

push(v, next) ==
  \/ stack_is_full /\ Fail("stack overflow")
  \/ ~stack_is_full /\ Store(top + 1, v, next) /\ UNCHANGED <<heap, out>>

(* The two operands of a binary instruction give way to its value.         *)
Reduce(v) == Store(top - 1, v, ip + 1)

Jump(newTop, next) ==
  /\ top' = newTop
  /\ ip' = next
  /\ UNCHANGED <<functions, stack, frames, cl, slots, heap, status, result,
                 out>>

-----------------------------------------------------------------------------
(* Start.                                                                  *)

vm_init ==
  /\ status = "idle"
  /\ \/ OutOfMemory
     \/ /\ status' = "ready"
        /\ UNCHANGED <<functions, stack, top, frames, cl, ip, slots, heap,
                       result, out>>

vm_run ==
  /\ status = "ready"
  /\ stack' = [stack EXCEPT ![top + 1] = closure_value(cl)]
  /\ top' = top + 1
  /\ status' = "running"
  /\ UNCHANGED <<functions, frames, cl, ip, slots, heap, result, out>>

-----------------------------------------------------------------------------
(* Constants and variables.                                                *)

do_nop_stuck == At("OP_NOP") /\ Jump(top, ip)
do_nop       == At("OP_NOP") /\ Jump(top, ip + 1)

do_false == At("OP_FALSE") /\ push(FALSE_VALUE, ip + 1)

do_true == At("OP_TRUE") /\ push(TRUE_VALUE, ip + 1)

do_int == At("OP_INT") /\ push(int_value(Word), ip + 3)

do_constant == At("OP_CONSTANT") /\ push(function.constants[Byte + 1], ip + 2)

do_local_off_by_one ==
  At("OP_LOCAL") /\ push(cell(slots + Byte + 1), ip + 2)

do_local == At("OP_LOCAL") /\ push(cell(slots + Byte), ip + 2)

do_nonlocal ==
  At("OP_NONLOCAL") /\ push(closures[cl].nonlocals[Byte + 1], ip + 2)

do_tuple_pushed_first ==
  /\ At("OP_TUPLE")
  /\ LET new == tuple_value(Len(tuples) + 1)
     IN tuples' = Append(tuples, [first |-> peek(1), second |-> new])
        /\ Reduce(new)
  /\ UNCHANGED <<strs, closures, out>>

do_tuple ==
  /\ At("OP_TUPLE")
  /\ \/ OutOfMemory
     \/ /\ tuples' = Append(tuples, [first |-> peek(1), second |-> peek(0)])
        /\ Reduce(tuple_value(Len(tuples) + 1))
        /\ UNCHANGED <<strs, closures, out>>

Captured_before_push(fn, newStack) ==
  [i \in 1..Len(fn.nonlocals) |->
     LET nonlocal == fn.nonlocals[i]
         at       == slots + nonlocal.index
     IN IF ~nonlocal.isLocal THEN closures[cl].nonlocals[nonlocal.index + 1]
        ELSE IF at \in 0..(StackSize - 1) THEN stack[at] ELSE Uninit]

(* The values captured by a new closure of fn.  The closure is already on  *)
(* the stack when its variables are read, so a slot may be its own.        *)
Captured(fn, newStack) ==
  [i \in 1..Len(fn.nonlocals) |->
     LET nonlocal == fn.nonlocals[i]
         at       == slots + nonlocal.index
     IN IF ~nonlocal.isLocal THEN closures[cl].nonlocals[nonlocal.index + 1]
        ELSE IF at \in 0..(StackSize - 1) THEN newStack[at] ELSE Uninit]

do_closure ==
  LET f        == function.functions[Byte + 1]
      v        == closure_value(Len(closures) + 1)
      newStack == [stack EXCEPT ![top + 1] = v]
  IN /\ At("OP_CLOSURE")
     /\ \/ OutOfMemory
        \/ stack_is_full /\ Fail("stack overflow")
        \/ /\ ~stack_is_full
           /\ Store(top + 1, v, ip + 2)
           /\ closures' = Append(closures,
                [fn |-> f, nonlocals |-> Captured(functions[f], newStack)])
           /\ UNCHANGED <<strs, tuples, out>>

-----------------------------------------------------------------------------
(* Operators.  Errors carry the kind of the message, not its wording.      *)

Ints == is_int(peek(1)) /\ is_int(peek(0))

Texts ==
  /\ is_str(peek(1)) \/ is_str(peek(0))
  /\ {peek(1).type, peek(0).type} \subseteq {"str", "int", "bool"}

to_str(v) == CASE v.type = "str"  -> strs[v.val]
               [] v.type = "bool" -> str_from_bool(v.val)
               [] v.type = "int"  -> str_from_int(v.val)

AddError == IF is_str(peek(1)) \/ is_str(peek(0))
            THEN "cannot convert to string" ELSE "cannot add"

(* A converted operand is a string of its own, garbage after the step; it  *)
(* is left out of strs.                                                    *)
do_add ==
  /\ At("OP_ADD")
  /\ \/ /\ Ints
        /\ Reduce(int_value(Wrap(peek(1).val + peek(0).val)))
        /\ UNCHANGED <<heap, out>>
     \/ /\ Texts
        /\ strs' = Append(strs, to_str(peek(1)) \o to_str(peek(0)))
        /\ Reduce(str_value(Len(strs) + 1))
        /\ UNCHANGED <<tuples, closures, out>>
     \/ Texts /\ OutOfMemory
     \/ ~Ints /\ ~Texts /\ Fail(AddError)

Arithmetic(op, n, error) ==
  /\ At(op)
  /\ \/ Ints /\ Reduce(int_value(n)) /\ UNCHANGED <<heap, out>>
     \/ ~Ints /\ Fail(error)

do_sub_swapped == Arithmetic("OP_SUB", Wrap(peek(0).val - peek(1).val),
                             "cannot subtract")

do_sub == Arithmetic("OP_SUB", Wrap(peek(1).val - peek(0).val),
                     "cannot subtract")

do_mul == Arithmetic("OP_MUL", Wrap(peek(1).val * peek(0).val),
                     "cannot multiply")

Division(op, n, error) ==
  /\ At(op)
  /\ \/ Ints /\ DivisionTraps(peek(1).val, peek(0).val) /\ Trap
     \/ /\ Ints /\ ~DivisionTraps(peek(1).val, peek(0).val)
        /\ Reduce(int_value(n))
        /\ UNCHANGED <<heap, out>>
     \/ ~Ints /\ Fail(error)

do_div == Division("OP_DIV", Quotient(peek(1).val, peek(0).val),
                   "cannot divide")

do_rem == Division("OP_REM", Remainder(peek(1).val, peek(0).val),
                   "cannot calculate remainder")

Logical(op, b) ==
  At(op) /\ Reduce(bool_value(b)) /\ UNCHANGED <<heap, out>>

do_eq == Logical("OP_EQ", value_equal(strs, tuples, peek(1), peek(0)))

do_neq == Logical("OP_NEQ", ~value_equal(strs, tuples, peek(1), peek(0)))

(* Both operands have been evaluated: there is no short circuit.           *)
do_and == Logical("OP_AND", ~(is_falsy(peek(1)) \/ is_falsy(peek(0))))

do_or == Logical("OP_OR", ~(is_falsy(peek(1)) /\ is_falsy(peek(0))))

Comparison(op, accepted) ==
  /\ At(op)
  /\ \/ /\ Comparable(peek(1), peek(0))
        /\ \E cmp \in value_compare(strs, peek(1), peek(0)) :
             Reduce(bool_value(Sign(cmp) \in accepted))
        /\ UNCHANGED <<heap, out>>
     \/ ~Comparable(peek(1), peek(0)) /\ Fail("cannot compare")

do_lt  == Comparison("OP_LT", {-1})
do_gt  == Comparison("OP_GT", {1})
do_lte == Comparison("OP_LTE", {-1, 0})
do_gte == Comparison("OP_GTE", {0, 1})

(* first and second replace a tuple by a component of it.                  *)
Component(op, name, error) ==
  /\ At(op)
  /\ \/ /\ is_tuple(peek(0))
        /\ Store(top, tuples[peek(0).val][name], ip + 1)
        /\ UNCHANGED <<heap, out>>
     \/ ~is_tuple(peek(0)) /\ Fail(error)

do_first  == Component("OP_FIRST", "first", "cannot get first element")
do_second == Component("OP_SECOND", "second", "cannot get second element")

(* print leaves its operand on the stack: it is the value of the term.     *)
do_print ==
  /\ At("OP_PRINT")
  /\ out' = Append(out, peek(0))
  /\ ip' = ip + 1
  /\ UNCHANGED <<functions, stack, top, frames, cl, slots, heap, status,
                 result>>

-----------------------------------------------------------------------------
(* Control.                                                                *)

do_jump_stuck == At("OP_JUMP") /\ Jump(top, ip)
do_jump       == At("OP_JUMP") /\ Jump(top, Word)

do_jump_if_false_short ==
  /\ At("OP_JUMP_IF_FALSE")
  /\ Jump(top - 1, IF is_falsy(peek(0)) THEN Word ELSE ip + 2)

do_jump_if_false ==
  /\ At("OP_JUMP_IF_FALSE")
  /\ Jump(top - 1, IF is_falsy(peek(0)) THEN Word ELSE ip + 3)

(* The callee lies below its arguments; its cell is cell 0 of its frame.   *)
Callee == cell(top - Byte)

CalleeError ==
  \/ ~is_closure(Callee) /\ Fail("cannot call")
  \/ /\ is_closure(Callee)
     /\ functions[closures[Callee.val].fn].arity # Byte
     /\ Fail("expected arguments")

Callable_any_arity == is_closure(Callee)

Callable ==
  is_closure(Callee) /\ functions[closures[Callee.val].fn].arity = Byte

do_call ==
  /\ At("OP_CALL")
  /\ \/ CalleeError
     \/ Callable /\ callstack_is_full /\ Fail("too many nested calls")
     \/ /\ Callable /\ ~callstack_is_full
        /\ frames' = Append(frames,
                            [cl |-> cl, ip |-> ip + 2, slots |-> slots])
        /\ cl' = Callee.val
        /\ ip' = 0
        /\ slots' = top - Byte
        /\ UNCHANGED <<functions, stack, top, heap, status, result, out>>

do_tail_call_keeps_callee ==
  /\ At("OP_TAIL_CALL")
  /\ \/ CalleeError
     \/ /\ Callable
        /\ stack' = [i \in DOMAIN stack |->
                       IF i \in (slots + 1)..(slots + Byte)
                       THEN cell(top - Byte + (i - slots)) ELSE stack[i]]
        /\ top' = slots + Byte
        /\ cl' = Callee.val
        /\ ip' = 0
        /\ UNCHANGED <<functions, frames, slots, heap, status, result, out>>

(* The callee takes over the running frame: it and its arguments are moved *)
(* down, lowest cell first, so overlapping ranges keep their values.       *)
do_tail_call ==
  /\ At("OP_TAIL_CALL")
  /\ \/ CalleeError
     \/ /\ Callable
        /\ stack' = [i \in DOMAIN stack |->
                       IF i \in slots..(slots + Byte)
                       THEN cell(top - Byte + (i - slots)) ELSE stack[i]]
        /\ top' = slots + Byte
        /\ cl' = Callee.val
        /\ ip' = 0
        /\ UNCHANGED <<functions, frames, slots, heap, status, result, out>>

do_return_to_new_slots ==
  /\ At("OP_RETURN")
  /\ \/ frames = <<>> /\ Fail("ok")
     \/ /\ frames # <<>>
        /\ LET frame == frames[Len(frames)]
           IN /\ cl' = frame.cl /\ ip' = frame.ip /\ slots' = frame.slots
              /\ stack' = [stack EXCEPT ![frame.slots] = peek(0)]
              /\ top' = frame.slots
        /\ frames' = SubSeq(frames, 1, Len(frames) - 1)
        /\ UNCHANGED <<functions, heap, status, result, out>>

(* The value replaces the callee in cell 0, which becomes the caller's     *)
(* last cell.  Without a caller the run is over.                           *)
do_return ==
  /\ At("OP_RETURN")
  /\ \/ /\ frames = <<>>
        /\ status' = "halted"
        /\ UNCHANGED <<functions, stack, top, frames, cl, ip, slots, heap,
                       result, out>>
     \/ /\ frames # <<>>
        /\ LET frame == frames[Len(frames)]
           IN cl' = frame.cl /\ ip' = frame.ip /\ slots' = frame.slots
        /\ frames' = SubSeq(frames, 1, Len(frames) - 1)
        /\ stack' = [stack EXCEPT ![slots] = peek(0)]
        /\ top' = slots
        /\ UNCHANGED <<functions, heap, status, result, out>>

(* The process has ended.                                                  *)
Ended == status \in {"halted", "trapped"} /\ UNCHANGED vars

Next ==
  \/ vm_init \/ vm_run
  \/ do_nop \/ do_false \/ do_true \/ do_int \/ do_constant \/ do_tuple
  \/ do_closure \/ do_local \/ do_nonlocal
  \/ do_add \/ do_sub \/ do_mul \/ do_div \/ do_rem
  \/ do_eq \/ do_neq \/ do_lt \/ do_gt \/ do_lte \/ do_gte
  \/ do_and \/ do_or
  \/ do_jump \/ do_jump_if_false
  \/ do_first \/ do_second \/ do_print
  \/ do_call \/ do_tail_call \/ do_return
  \/ Ended

Spec == Init /\ [][Next]_vars

(* One thread runs and nothing blocks it.                                  *)
FairSpec == Spec /\ WF_vars(Next)
=============================================================================
