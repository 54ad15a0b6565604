---------------------------- MODULE Activations ----------------------------
(***************************************************************************)
(* What the virtual machine promises (vm.c): every call has an activation  *)
(* with cells of its own, which nobody else can reach.  The callee and the *)
(* arguments leave the caller's cells and are the first of its own; what a *)
(* call returns is added to the caller's cells; a tail call starts afresh  *)
(* with nothing but its arguments.  There is no stack that calls share, no *)
(* memory but cells in use, and so no height to be right about.  VM, with  *)
(* one array and offsets into it, implements this (see VMActivations).     *)
(*                                                                         *)
(* How many cells there are altogether is left open: any push may find the *)
(* stack full.                                                             *)
(***************************************************************************)
EXTENDS Values, Bytecode

CONSTANTS Programs, CallstackSize, MemoryMayFail      \* see VM

VARIABLES
  functions,  \* all functions of the program
  cl, ip,     \* the running closure and its next instruction
  cells,      \* the cells of the running activation, the closure's own first
  callers,    \* the activations that wait: [cl |-> ..., ip |-> ..., cells |-> ...]
  strs, tuples, closures,
  status, result, out

heap == <<strs, tuples, closures>>
vars == <<functions, cl, ip, cells, callers, heap, status, result, out>>

Init ==
  /\ \E p \in Programs : functions = p.functions /\ strs = p.strs
  /\ cl = 1 /\ ip = 0
  /\ cells = <<>> /\ callers = <<>>
  /\ tuples = <<>>
  /\ closures = <<[fn |-> 1, nonlocals |-> <<>>]>>
  /\ status = "idle" /\ result = "ok" /\ out = <<>>

function == functions[closures[cl].fn]

At(op) == status = "running" /\ OpAt(function, ip) = op

Byte == read_byte(function, ip + 1)
Word == read_word(function, ip + 1)

peek(i)  == cells[Len(cells) - i]
Under(i) == SubSeq(cells, 1, Len(cells) - i)

Stop(how, error) ==
  /\ status' = how
  /\ result' = error
  /\ UNCHANGED <<functions, cl, ip, cells, callers, heap, out>>

Fail(error) == Stop("halted", error)
OutOfMemory == MemoryMayFail /\ Fail("out of memory")

(* The last n cells give way to v.                                         *)
Replace(n, v, next) ==
  /\ cells' = Append(Under(n), v)
  /\ ip' = next
  /\ UNCHANGED <<functions, cl, callers, status, result>>

push(v, next) ==
  \/ Fail("stack overflow")
  \/ Replace(0, v, next) /\ UNCHANGED <<heap, out>>

-----------------------------------------------------------------------------
vm_init ==
  /\ status = "idle"
  /\ OutOfMemory \/ Stop("ready", result)

vm_run ==
  /\ status = "ready"
  /\ status' = "running"
  /\ cells' = <<closure_value(cl)>>
  /\ UNCHANGED <<functions, cl, ip, callers, heap, result, out>>

load ==
  \/ At("OP_FALSE")    /\ push(FALSE_VALUE, ip + 1)
  \/ At("OP_TRUE")     /\ push(TRUE_VALUE, ip + 1)
  \/ At("OP_INT")      /\ push(int_value(Word), ip + 3)
  \/ At("OP_CONSTANT") /\ push(function.constants[Byte + 1], ip + 2)
  \/ At("OP_LOCAL")    /\ push(cells[Byte + 1], ip + 2)
  \/ At("OP_NONLOCAL") /\ push(closures[cl].nonlocals[Byte + 1], ip + 2)

do_tuple ==
  /\ At("OP_TUPLE")
  /\ \/ OutOfMemory
     \/ /\ tuples' = Append(tuples, [first |-> peek(1), second |-> peek(0)])
        /\ Replace(2, tuple_value(Len(tuples) + 1), ip + 1)
        /\ UNCHANGED <<strs, closures, out>>

(* A closure captures cells of the activation, its own included, or what   *)
(* the running closure has captured.                                       *)
do_closure ==
  LET f   == function.functions[Byte + 1]
      v   == closure_value(Len(closures) + 1)
      captured(nonlocal) ==
        IF nonlocal.isLocal THEN Append(cells, v)[nonlocal.index + 1]
                            ELSE closures[cl].nonlocals[nonlocal.index + 1]
      declared == functions[f].nonlocals
  IN /\ At("OP_CLOSURE")
     /\ \/ OutOfMemory
        \/ Fail("stack overflow")
        \/ /\ Replace(0, v, ip + 2)
           /\ closures' = Append(closures,
                [fn |-> f,
                 nonlocals |-> [i \in 1..Len(declared) |-> captured(declared[i])]])
           /\ UNCHANGED <<strs, tuples, out>>

-----------------------------------------------------------------------------
(* Operators.                                                              *)

Gives(n, v) == Replace(n, v, ip + 1) /\ UNCHANGED <<heap, out>>

Ints == is_int(peek(1)) /\ is_int(peek(0))

Texts ==
  /\ is_str(peek(1)) \/ is_str(peek(0))
  /\ {peek(1).type, peek(0).type} \subseteq {"str", "int", "bool"}

to_str(v) == CASE v.type = "str"  -> strs[v.val]
               [] v.type = "bool" -> str_from_bool(v.val)
               [] v.type = "int"  -> str_from_int(v.val)

do_add ==
  /\ At("OP_ADD")
  /\ \/ Ints /\ Gives(2, int_value(Wrap(peek(1).val + peek(0).val)))
     \/ /\ Texts
        /\ strs' = Append(strs, to_str(peek(1)) \o to_str(peek(0)))
        /\ Replace(2, str_value(Len(strs) + 1), ip + 1)
        /\ UNCHANGED <<tuples, closures, out>>
     \/ Texts /\ OutOfMemory
     \/ /\ ~Ints /\ ~Texts
        /\ Fail(IF is_str(peek(1)) \/ is_str(peek(0))
                THEN "cannot convert to string" ELSE "cannot add")

Arithmetic(op, refused, n, error) ==
  /\ At(op)
  /\ \/ Ints /\ ~refused /\ Gives(2, int_value(n))
     \/ Ints /\ refused /\ Stop("trapped", result)
     \/ ~Ints /\ Fail(error)

arithmetic ==
  LET a == peek(1).val
      b == peek(0).val
      traps == DivisionTraps(a, b)
  IN \/ Arithmetic("OP_SUB", FALSE, Wrap(a - b), "cannot subtract")
     \/ Arithmetic("OP_MUL", FALSE, Wrap(a * b), "cannot multiply")
     \/ Arithmetic("OP_DIV", traps, Quotient(a, b), "cannot divide")
     \/ Arithmetic("OP_REM", traps, Remainder(a, b), "cannot calculate remainder")

Logical(op, b) == At(op) /\ Gives(2, bool_value(b))

logical ==
  LET equal == value_equal(strs, tuples, peek(1), peek(0))
      left  == ~is_falsy(peek(1))
      right == ~is_falsy(peek(0))
  IN \/ Logical("OP_EQ", equal)
     \/ Logical("OP_NEQ", ~equal)
     \/ Logical("OP_AND", left /\ right)
     \/ Logical("OP_OR", left \/ right)

Comparison(op, accepted) ==
  /\ At(op)
  /\ \/ /\ Comparable(peek(1), peek(0))
        /\ \E cmp \in value_compare(strs, peek(1), peek(0)) :
             Gives(2, bool_value(Sign(cmp) \in accepted))
     \/ ~Comparable(peek(1), peek(0)) /\ Fail("cannot compare")

comparison ==
  \/ Comparison("OP_LT", {-1})
  \/ Comparison("OP_GT", {1})
  \/ Comparison("OP_LTE", {-1, 0})
  \/ Comparison("OP_GTE", {0, 1})

Component(op, name, error) ==
  /\ At(op)
  /\ \/ is_tuple(peek(0)) /\ Gives(1, tuples[peek(0).val][name])
     \/ ~is_tuple(peek(0)) /\ Fail(error)

component ==
  \/ Component("OP_FIRST", "first", "cannot get first element")
  \/ Component("OP_SECOND", "second", "cannot get second element")

do_print ==
  /\ At("OP_PRINT")
  /\ out' = Append(out, peek(0))
  /\ ip' = ip + 1
  /\ UNCHANGED <<functions, cl, cells, callers, heap, status, result>>

-----------------------------------------------------------------------------
(* Control.                                                                *)

Jump(n, next) ==
  /\ cells' = Under(n)
  /\ ip' = next
  /\ UNCHANGED <<functions, cl, callers, heap, status, result, out>>

jump ==
  \/ At("OP_NOP") /\ Jump(0, ip + 1)
  \/ At("OP_JUMP") /\ Jump(0, Word)
  \/ /\ At("OP_JUMP_IF_FALSE")
     /\ Jump(1, IF is_falsy(peek(0)) THEN Word ELSE ip + 3)

(* The callee and its arguments.                                           *)
Called == SubSeq(cells, Len(cells) - Byte, Len(cells))

Callable ==
  is_closure(Called[1]) /\ functions[closures[Called[1].val].fn].arity = Byte

CalleeError ==
  \/ ~is_closure(Called[1]) /\ Fail("cannot call")
  \/ is_closure(Called[1]) /\ ~Callable /\ Fail("expected arguments")

Begin ==
  /\ cl' = Called[1].val
  /\ ip' = 0
  /\ cells' = Called
  /\ UNCHANGED <<functions, heap, status, result, out>>

do_call ==
  /\ At("OP_CALL")
  /\ \/ CalleeError
     \/ Callable /\ Len(callers) = CallstackSize /\ Fail("too many nested calls")
     \/ /\ Callable /\ Len(callers) # CallstackSize
        /\ callers' = Append(callers,
             [cl |-> cl, ip |-> ip + 2, cells |-> Under(Byte + 1)])
        /\ Begin

do_tail_call ==
  /\ At("OP_TAIL_CALL")
  /\ \/ CalleeError
     \/ Callable /\ Begin /\ UNCHANGED callers

do_return ==
  /\ At("OP_RETURN")
  /\ \/ callers = <<>> /\ Stop("halted", result)
     \/ /\ callers # <<>>
        /\ LET caller == callers[Len(callers)]
           IN /\ cl' = caller.cl /\ ip' = caller.ip
              /\ cells' = Append(caller.cells, peek(0))
        /\ callers' = SubSeq(callers, 1, Len(callers) - 1)
        /\ UNCHANGED <<functions, heap, status, result, out>>

Next ==
  \/ vm_init \/ vm_run \/ load \/ do_tuple \/ do_closure
  \/ do_add \/ arithmetic \/ logical \/ comparison \/ component \/ do_print
  \/ jump \/ do_call \/ do_tail_call \/ do_return

Spec == Init /\ [][Next]_vars
=============================================================================
