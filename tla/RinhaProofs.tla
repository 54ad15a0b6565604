---------------------------- MODULE RinhaProofs ----------------------------
(***************************************************************************)
(* The compiler and the machine in one process: what the compiler makes of *)
(* a disciplined program is what the machine's proof asks of its programs, *)
(* so the machine is safe on all of them.  The machine of VMProofs runs    *)
(* any program that has certificates; the machine of Rinha is shown to     *)
(* take the same steps.                                                    *)
(***************************************************************************)
EXTENDS RinhaSafety, CertifiedProofs

-----------------------------------------------------------------------------
(* The machine that can run whatever has certificates.                     *)

(* The numbers among the constants are ints.                               *)
IntsFit(p) ==
  \A f \in 1..Len(p.functions) : \A i \in 1..Len(p.functions[f].constants) :
    is_int(p.functions[f].constants[i]) =>
      p.functions[f].constants[i].val \in INT_MIN..INT_MAX

Certifiables ==
  {p \in [functions : Seq(Function), strs : Seq(Seq(Nat))] :
     IntsFit(p) /\ \E d : CertifiedBy(p, d)}

(* Certificates that are right whatever the strings of the program.        *)
Chosen ==
  [fns \in Seq(Function) |->
     CHOOSE d :
       \E texts \in Seq(Seq(Nat)) : CertifiedBy([functions |-> fns, strs |-> texts], d)]

Run == INSTANCE MachineProofs WITH Programs <- Certifiables, Depth <- Chosen

(* Both machines are the one of VM.                                        *)
LEMMA SameMachine ==
  /\ Machine!Next <=> Run!Next
  /\ Machine!Fresh <=> Run!Fresh
<1> USE DEF Machine!OutOfMemory, Machine!Fail, Machine!closure_value,
        Machine!Plain, Machine!FLAG_NONE, Machine!At, Machine!OpAt,
        Machine!OpNames, Machine!function, Machine!Jump, Machine!push,
        Machine!stack_is_full, Machine!Store, Machine!FALSE_VALUE,
        Machine!FLAG_FALSY, Machine!TRUE_VALUE, Machine!int_value,
        Machine!Word, Machine!read_word, Machine!Byte, Machine!read_byte,
        Machine!peek, Machine!cell, Machine!Uninit, Machine!Reduce,
        Machine!tuple_value, Machine!Captured, Machine!Ints, Machine!is_int,
        Machine!Wrap, Machine!INT_MIN, Machine!Texts, Machine!is_str,
        Machine!to_str, Machine!str_from_bool, Machine!str_from_int,
        Machine!Digits, Machine!DigitCount, Machine!str_value,
        Machine!AddError, Machine!Arithmetic, Machine!Division,
        Machine!DivisionTraps, Machine!Trap, Machine!Quotient, Machine!Abs,
        Machine!Remainder, Machine!Logical, Machine!bool_value,
        Machine!value_equal, Machine!is_tuple, Machine!FlatEqual,
        Machine!str_equal, Machine!Comparison, Machine!Comparable,
        Machine!value_compare, Machine!str_compare, Machine!Sign,
        Machine!is_falsy, Machine!Component, Machine!CalleeError,
        Machine!is_closure, Machine!Callee, Machine!Callable,
        Machine!callstack_is_full, Run!OutOfMemory, Run!Fail,
        Run!closure_value, Run!Plain, Run!FLAG_NONE, Run!At, Run!OpAt,
        Run!OpNames, Run!function, Run!Jump, Run!push, Run!stack_is_full,
        Run!Store, Run!FALSE_VALUE, Run!FLAG_FALSY, Run!TRUE_VALUE,
        Run!int_value, Run!Word, Run!read_word, Run!Byte, Run!read_byte,
        Run!peek, Run!cell, Run!Uninit, Run!Reduce, Run!tuple_value,
        Run!Captured, Run!Ints, Run!is_int, Run!Wrap, Run!INT_MIN, Run!Texts,
        Run!is_str, Run!to_str, Run!str_from_bool, Run!str_from_int,
        Run!Digits, Run!DigitCount, Run!str_value, Run!AddError,
        Run!Arithmetic, Run!Division, Run!DivisionTraps, Run!Trap,
        Run!Quotient, Run!Abs, Run!Remainder, Run!Logical, Run!bool_value,
        Run!value_equal, Run!is_tuple, Run!FlatEqual, Run!str_equal,
        Run!Comparison, Run!Comparable, Run!value_compare, Run!str_compare,
        Run!Sign, Run!is_falsy, Run!Component, Run!CalleeError,
        Run!is_closure, Run!Callee, Run!Callable, Run!callstack_is_full,
        Machine!heap, Machine!vars, Run!heap, Run!vars
<1>1. Machine!vm_init <=> Run!vm_init
  BY Zenon DEF Machine!vm_init, Run!vm_init
<1>2. Machine!vm_run <=> Run!vm_run
  BY Zenon DEF Machine!vm_run, Run!vm_run
<1>3. Machine!do_nop <=> Run!do_nop
  BY Zenon DEF Machine!do_nop, Run!do_nop
<1>4. Machine!do_false <=> Run!do_false
  BY Zenon DEF Machine!do_false, Run!do_false
<1>5. Machine!do_true <=> Run!do_true
  BY Zenon DEF Machine!do_true, Run!do_true
<1>6. Machine!do_int <=> Run!do_int
  BY Zenon DEF Machine!do_int, Run!do_int
<1>7. Machine!do_constant <=> Run!do_constant
  BY Zenon DEF Machine!do_constant, Run!do_constant
<1>8. Machine!do_tuple <=> Run!do_tuple
  BY Zenon DEF Machine!do_tuple, Run!do_tuple
<1>9. Machine!do_closure <=> Run!do_closure
  BY Zenon DEF Machine!do_closure, Run!do_closure
<1>10. Machine!do_local <=> Run!do_local
  BY Zenon DEF Machine!do_local, Run!do_local
<1>11. Machine!do_nonlocal <=> Run!do_nonlocal
  BY Zenon DEF Machine!do_nonlocal, Run!do_nonlocal
<1>12. Machine!do_add <=> Run!do_add
  BY Zenon DEF Machine!do_add, Run!do_add
<1>13. Machine!do_sub <=> Run!do_sub
  BY Zenon DEF Machine!do_sub, Run!do_sub
<1>14. Machine!do_mul <=> Run!do_mul
  BY Zenon DEF Machine!do_mul, Run!do_mul
<1>15. Machine!do_div <=> Run!do_div
  BY Zenon DEF Machine!do_div, Run!do_div
<1>16. Machine!do_rem <=> Run!do_rem
  BY Zenon DEF Machine!do_rem, Run!do_rem
<1>17. Machine!do_eq <=> Run!do_eq
  BY SMT DEF Machine!do_eq, Run!do_eq
<1>18. Machine!do_neq <=> Run!do_neq
  BY SMT DEF Machine!do_neq, Run!do_neq
<1>19. Machine!do_lt <=> Run!do_lt
  BY Zenon DEF Machine!do_lt, Run!do_lt
<1>20. Machine!do_gt <=> Run!do_gt
  BY Zenon DEF Machine!do_gt, Run!do_gt
<1>21. Machine!do_lte <=> Run!do_lte
  BY Zenon DEF Machine!do_lte, Run!do_lte
<1>22. Machine!do_gte <=> Run!do_gte
  BY Zenon DEF Machine!do_gte, Run!do_gte
<1>23. Machine!do_and <=> Run!do_and
  BY Zenon DEF Machine!do_and, Run!do_and
<1>24. Machine!do_or <=> Run!do_or
  BY Zenon DEF Machine!do_or, Run!do_or
<1>25. Machine!do_jump <=> Run!do_jump
  BY Zenon DEF Machine!do_jump, Run!do_jump
<1>26. Machine!do_jump_if_false <=> Run!do_jump_if_false
  BY Zenon DEF Machine!do_jump_if_false, Run!do_jump_if_false
<1>27. Machine!do_first <=> Run!do_first
  BY Zenon DEF Machine!do_first, Run!do_first
<1>28. Machine!do_second <=> Run!do_second
  BY Zenon DEF Machine!do_second, Run!do_second
<1>29. Machine!do_print <=> Run!do_print
  BY Zenon DEF Machine!do_print, Run!do_print
<1>30. Machine!do_call <=> Run!do_call
  BY Zenon DEF Machine!do_call, Run!do_call
<1>31. Machine!do_tail_call <=> Run!do_tail_call
  BY Zenon DEF Machine!do_tail_call, Run!do_tail_call
<1>32. Machine!do_return <=> Run!do_return
  BY Zenon DEF Machine!do_return, Run!do_return
<1>33. Machine!Ended <=> Run!Ended
  BY Zenon DEF Machine!Ended, Run!Ended
<1>34. Machine!Fresh <=> Run!Fresh
  BY Zenon DEF Machine!Fresh, Run!Fresh
<1> QED
  BY Zenon, <1>1, <1>2, <1>3, <1>4, <1>5, <1>6, <1>7, <1>8, <1>9, <1>10,
     <1>11, <1>12, <1>13, <1>14, <1>15, <1>16, <1>17, <1>18, <1>19, <1>20,
     <1>21, <1>22, <1>23, <1>24, <1>25, <1>26, <1>27, <1>28, <1>29, <1>30,
     <1>31, <1>32, <1>33, <1>34
     DEF Machine!Next, Run!Next

(* Strings matter only to constants.                                       *)
LEMMA CertificatesShared ==
  ASSUME NEW p, NEW q, NEW d, NEW e,
         CertifiedBy(p, d), CertifiedBy(q, e), p.functions = q.functions
  PROVE  CertifiedBy(p, e)
<1>1. \A g, h, a : SafeAt(q, g, h, a) => SafeAt(p, g, h, a)
  BY SMT DEF SafeAt
<1> QED BY Zenon, <1>1 DEF CertifiedBy

LEMMA SameCertified ==
  ASSUME NEW p, NEW d, CertifiedBy(p, d)
  PROVE  Run!CertifiedBy(p, d)
<1>1. \A g : dump_function(g) = Run!dump_function(g)
  BY SMT DEF dump_function, Size, OpAt, OpNames, WordOps, ByteOps,
    Run!dump_function, Run!Size, Run!OpAt, Run!OpNames, Run!WordOps, Run!ByteOps
<1>2. \A q, g, h, a : SafeAt(q, g, h, a) <=> Run!SafeAt(q, g, h, a)
  BY SMT DEF SafeAt, OpAt, OpNames, Size, WordOps, ByteOps, read_byte, read_word, Flows,
    CaptureSafe, Binary, Run!SafeAt, Run!OpAt, Run!OpNames, Run!Size, Run!WordOps,
    Run!ByteOps, Run!read_byte, Run!read_word, Run!Flows, Run!CaptureSafe, Run!Binary
<1>3. Function = Run!Function
  BY Zenon DEF Function, Value, Type, FLAG_NONE, FLAG_FALSY,
    Run!Function, Run!Value, Run!Type, Run!FLAG_NONE, Run!FLAG_FALSY
<1>4. /\ \A h, b, n : Flows(h, b, n) <=> Run!Flows(h, b, n)
      /\ \A v : (is_int(v) <=> Run!is_int(v)) /\ (is_str(v) <=> Run!is_str(v))
  BY DEF Flows, is_int, is_str, Run!Flows, Run!is_int, Run!is_str
<1>5. ASSUME NEW f \in 1..Len(p.functions), NEW g, g = p.functions[f], NEW h, h = d[g]
      PROVE  /\ DOMAIN h \subseteq Run!dump_function(g)
             /\ h \in [DOMAIN h -> Nat]
             /\ Run!Flows(h, 0, g.arity)
             /\ \A a \in DOMAIN h : Run!SafeAt(p, g, h, a)
             /\ \A i \in 1..Len(g.functions) : g.functions[i] \in 1..Len(p.functions)
             /\ \A i \in 1..Len(g.constants) :
                  \/ Run!is_int(g.constants[i])
                  \/ Run!is_str(g.constants[i]) /\ g.constants[i].val \in 1..Len(p.strs)
  <2>1. /\ DOMAIN h \subseteq dump_function(g)
        /\ h \in [DOMAIN h -> Nat]
        /\ Flows(h, 0, g.arity)
        /\ \A a \in DOMAIN h : SafeAt(p, g, h, a)
        /\ \A i \in 1..Len(g.functions) : g.functions[i] \in 1..Len(p.functions)
        /\ \A i \in 1..Len(g.constants) :
             \/ is_int(g.constants[i])
             \/ is_str(g.constants[i]) /\ g.constants[i].val \in 1..Len(p.strs)
    BY Zenon, <1>5 DEF CertifiedBy
  <2> QED BY <1>1, <1>2, <1>4, <2>1
<1>6. /\ p.functions \in Seq(Run!Function)
      /\ p.functions # <<>> /\ p.functions[1].arity = 0
      /\ p.functions[1].nonlocals = <<>>
      /\ p.strs \in Seq(Seq(Nat))
  BY Zenon, <1>3 DEF CertifiedBy
<1> QED BY Zenon, <1>5, <1>6 DEF Run!CertifiedBy

(* What VMSafety assumes of its programs holds of these.                   *)
LEMMA ChosenCertify == \A p \in Certifiables : Run!Certified(p)
<1> TAKE p \in Certifiables
<1>1. PICK d : CertifiedBy(p, d)
  BY DEF Certifiables
<1>2. /\ p.functions \in Seq(Function) /\ p.strs \in Seq(Seq(Nat))
      /\ p = [functions |-> p.functions, strs |-> p.strs]
  BY DEF Certifiables
<1>3. \E e : \E texts \in Seq(Seq(Nat)) :
        CertifiedBy([functions |-> p.functions, strs |-> texts], e)
  BY <1>1, <1>2
<1>4. PICK texts \in Seq(Seq(Nat)) :
        CertifiedBy([functions |-> p.functions, strs |-> texts], Chosen[p.functions])
  BY <1>2, <1>3 DEF Chosen
<1>5. CertifiedBy(p, Chosen[p.functions])
  BY <1>1, <1>4, CertificatesShared
<1> QED BY <1>5, SameCertified DEF Run!Certified

(* So whatever is proved of the machine is proved of this one.             *)
LEMMA MachineAssumed ==
  /\ Run!SizeAssumption /\ Run!IntAssumption
  /\ Run!ByteAssumption /\ Run!CertificateAssumption
  /\ Run!LayoutAssumption /\ Run!NumberAssumption
<1>1. Run!SizeAssumption /\ Run!IntAssumption
  BY MachineAssumption, IntAssumption DEF Run!SizeAssumption, Run!IntAssumption
<1>2. Run!ByteAssumption
  BY ByteAssumption DEF Run!ByteAssumption, OpNames, Run!OpNames
<1>3. Run!CertificateAssumption
  BY ChosenCertify DEF Run!CertificateAssumption
<1>4. Run!LayoutAssumption
  BY LayoutAssumption DEF Run!LayoutAssumption
<1>5. \A p \in Certifiables : IntsFit(p)
  BY DEF Certifiables
<1>6. Run!NumberAssumption
  BY Zenon, <1>5, WordAssumption DEF Run!NumberAssumption, IntsFit, is_int, INT_MIN,
    UINT16_MAX, Run!is_int, Run!INT_MIN, Run!UINT16_MAX
<1> QED BY <1>1, <1>2, <1>3, <1>4, <1>6

-----------------------------------------------------------------------------
(* From the compiler to the machine.                                       *)

(* While the program is compiled the machine is as vm_init will find it,   *)
(* and no error has been met; an error leaves what follows out of account. *)
Loading ==
  /\ Run!Fresh
  /\ ShapeInv /\ CodeInv /\ CapturesFound /\ CertInv
  /\ phase \in {"idle", "compiling", "done"} => result = "ok"

(* Afterwards it runs a program that is certified.                         *)
Loaded == phase = "done" /\ Run!IInv /\ Run!NumbersInRange

RInv == (command = "run" => emit) /\ (Loading \/ Loaded)

LEMMA RunKept ==
  ASSUME Run!IInv, Run!NumbersInRange, [Run!Next]_(Run!vars)
  PROVE  Run!IInv' /\ Run!NumbersInRange'
BY MachineAssumed, Run!NextInv, Run!NextInRange

(* The compiler has nothing left to do once it is done, and as long as it  *)
(* has met no error, the Result is ok.                                     *)
LEMMA CompileSteps ==
  ASSUME Compile
  PROVE  /\ phase \in {"idle", "compiling"}
         /\ phase' \in {"failed", "undefined"} \/ result' = result
<1> USE DEF steady
<1>1. /\ \A error : Fail(error) => phase' = "failed"
      /\ \A n : result_unexpected_token_error(n) => phase' = "failed"
      /\ OutOfMemory => phase' = "failed"
      /\ Undefined => phase' = "undefined"
  BY Zenon DEF Fail, FailAt, result_unexpected_token_error, OutOfMemory, Undefined
<1>2. \A n, act : next_token(n, act) => phase' = "failed" \/ result' = result
  BY <1>1 DEF next_token
<1>3. CASE start \/ finish
  BY <1>1, <1>3 DEF start, finish
<1>4. CASE consume \/ keep \/ keep_bool \/ first_item \/ next_item
  BY Zenon, <1>1, <1>2, <1>4 DEF consume, keep, keep_bool, first_item, next_item, Doing
<1>5. CASE call \/ term \/ dispatch \/ return \/ operator
  BY Zenon, <1>1, <1>5 DEF call, term, dispatch, return, operator, Enter, Doing
<1>6. /\ \A bytes : EmitBytes(bytes) => result' = result
      /\ \A v, s : add_constant(v, s) => phase' = "failed" \/ result' = result
      /\ \A c, n : Patch(c, n) => phase' = "failed" \/ result' = result
  BY Zenon, <1>1 DEF EmitBytes, add_constant, Patch
<1>7. ASSUME NEW step, Emission(step), step => phase' = "failed" \/ result' = result
      PROVE  phase' = "failed" \/ result' = result
  BY <1>1, <1>7 DEF Emission
<1>8. CASE chunk_emit_byte
  BY <1>6, <1>7, <1>8 DEF chunk_emit_byte, Doing
<1>9. CASE emit_int
  BY <1>1, <1>6, <1>7, <1>9 DEF emit_int, Doing
<1>10. CASE emit_str
  BY <1>6, <1>7, <1>10 DEF emit_str, Doing
<1>11. CASE emit_call
  BY <1>6, <1>7, <1>11 DEF emit_call, Doing
<1>12. CASE jump_if_false
  BY <1>7, <1>12 DEF jump_if_false, Doing
<1>13. CASE jump_over \/ jump_target
  BY <1>6, <1>7, <1>13 DEF jump_over, jump_target, Doing
<1>14. CASE open_function \/ set_arity \/ close_function
  BY <1>1, <1>14 DEF open_function, set_arity, close_function, Doing
<1>15. CASE add_local \/ resolve_variable
  BY <1>1, <1>15 DEF add_local, resolve_variable, Doing
<1> QED BY <1>3, <1>4, <1>5, <1>8, <1>9, <1>10, <1>11, <1>12, <1>13, <1>14, <1>15 DEF Compile

(* What compile hands over is a program of the machine.                    *)
LEMMA HandedOver ==
  ASSUME Loading, phase = "done", emit
  PROVE  Run!IInv /\ Run!NumbersInRange
<1>1. PICK d : CertifiedBy(compiled, d)
  BY DoneCertified DEF Loading, Certifiable
<1>2. compiled \in Certifiables
  <2>1. compiled.functions \in Seq(Function) /\ compiled.strs \in Seq(Seq(Nat))
    BY <1>1 DEF CertifiedBy
  <2>2. functions \in Seq(Function) /\ strs \in Seq(Seq(Nat))
    BY <2>1 DEF compiled
  <2>3. IntsFit(compiled)
    <3>1. DOMAIN functions = 1..Len(functions)
      BY <2>2
    <3>2. \A f \in 1..Len(functions) : \A i \in 1..Len(functions[f].constants) :
            KnownConstant(functions[f].constants[i], Len(strs))
      BY <3>1 DEF Loading, ShapeInv, ConstantsKnown
    <3> QED BY <3>2 DEF KnownConstant, is_int, is_str, IntsFit, compiled
  <2> QED BY <1>1, <2>2, <2>3 DEF Certifiables, compiled
<1>3. Run!Init
  <2>1. functions = compiled.functions /\ strs = compiled.strs
    BY DEF compiled
  <2>2. result = "ok" /\ Run!Fresh
    BY DEF Loading
  <2> QED BY <1>2, <2>1, <2>2 DEF Run!Init
<1>4. Run!NumbersInRange
  BY <1>3, MachineAssumed, Run!MadeInRange DEF Run!Init, Run!Fresh, Run!NumbersInRange
<1> QED BY <1>3, <1>4, MachineAssumed, Run!InitInv

LEMMA RinhaInit == ASSUME RInit PROVE RInv
<1>1. Init /\ emit = (command \in {"dump", "run"})
  BY DEF RInit
<1>2. Run!Fresh
  BY SameMachine DEF RInit
<1>3. CInv
  BY <1>1, InitInv
<1>4. ShapeInv /\ CodeInv /\ CapturesFound /\ CertInv
  BY <1>1, <1>3, InitShape, InitGood, InitCert
<1>5. result = "ok"
  BY <1>1 DEF Init
<1> QED BY <1>1, <1>2, <1>4, <1>5 DEF RInv, Loading

LEMMA CompileKept ==
  ASSUME RInv, Disciplined, Disciplined', compile
  PROVE  RInv'
<1>1. Compile /\ UNCHANGED command /\ UNCHANGED mvars
  BY DEF compile, process
<1>2. phase # "done"
  BY <1>1, CompileSteps
<1>3. Loading /\ (command = "run" => emit)
  BY <1>2 DEF RInv, Loaded
<1>4. [Next]_cvars
  BY <1>1 DEF Next
<1>5. CInv /\ ShapeInv /\ CodeInv /\ CapturesFound /\ CertInv
  BY <1>3 DEF Loading, ShapeInv
<1>6. CInv'
  BY <1>4, <1>5, NextInv
<1>7. ShapeInv' /\ CodeInv' /\ CapturesFound'
  BY <1>4, <1>5, <1>6, ShapeKept, NextGood, FoundKept
<1>8. CertInv'
  BY <1>4, <1>5, <1>7, CertKept
<1>9. emit' = emit
  BY <1>4, <1>5, PhaseStep
<1>10. Run!Fresh'
  BY <1>1, <1>3 DEF Loading, Run!Fresh, Run!Uninit, Run!Plain, Run!FLAG_NONE, mvars
<1>11. (phase \in {"idle", "compiling", "done"} => result = "ok")'
  BY <1>1, <1>3, CompileSteps DEF Loading
<1> QED BY <1>1, <1>3, <1>7, <1>8, <1>9, <1>10, <1>11 DEF RInv, Loading

LEMMA MachineKept ==
  ASSUME RInv, run
  PROVE  /\ Run!IInv /\ Run!Next
         /\ RInv'
<1>1. /\ phase = "done" /\ command = "run" /\ Run!Next
      /\ UNCHANGED <<phase, emit, command>>
  BY SameMachine DEF run, process
<1>2. Run!IInv /\ Run!NumbersInRange
  BY <1>1, HandedOver DEF RInv, Loaded
<1>3. Run!IInv' /\ Run!NumbersInRange'
  BY <1>1, <1>2, RunKept
<1> QED BY <1>1, <1>2, <1>3 DEF RInv, Loaded

LEMMA RinhaNext ==
  ASSUME RInv, Disciplined, Disciplined', [RNext]_rvars
  PROVE  RInv'
<1>1. CASE UNCHANGED <<command, cvars, mvars>>
  <2>1. /\ UNCHANGED <<command, file, src, emit, pos, calls, comps, functions, strs>>
        /\ UNCHANGED <<phase, result, mvars, cvars>>
    BY <1>1 DEF cvars
  <2>2. CASE Loading
    <3>1. CInv /\ ShapeInv /\ CodeInv /\ CapturesFound /\ CertInv /\ [Next]_cvars
      BY <2>1, <2>2 DEF Loading, ShapeInv
    <3>2. CInv'
      BY <3>1, NextInv
    <3>3. ShapeInv' /\ CodeInv' /\ CapturesFound'
      BY <3>1, <3>2, ShapeKept, NextGood, FoundKept
    <3>4. CertInv'
      BY <3>1, <3>3, CertKept
    <3>5. Run!Fresh'
      BY <2>1, <2>2 DEF Loading, Run!Fresh, Run!Uninit, Run!Plain, Run!FLAG_NONE, mvars
    <3> QED BY <2>1, <2>2, <3>3, <3>4, <3>5 DEF RInv, Loading
  <2>3. CASE Loaded
    <3>1. UNCHANGED Run!vars
      BY <2>1 DEF mvars, Run!vars
    <3>2. Run!IInv' /\ Run!NumbersInRange'
      BY <2>3, <3>1, RunKept DEF Loaded
    <3> QED BY <2>1, <2>3, <3>2 DEF RInv, Loaded
  <2> QED BY <2>2, <2>3 DEF RInv
<1>2. CASE main \/ read_file \/ exit \/ Gone \/ UNCHANGED rvars
  BY Zenon, <1>1, <1>2 DEF main, read_file, exit, Gone, Exit, Proceed, rvars, process
<1>3. CASE compile
  BY <1>3, CompileKept
<1>4. CASE run
  BY <1>4, MachineKept
<1> QED BY <1>2, <1>3, <1>4 DEF RNext

-----------------------------------------------------------------------------
(* The theorems.                                                           *)

(* Once compile has handed over, the machine's invariant holds.            *)
THEOREM RinhaInvariant == RSpec /\ []Disciplined => []RInv
<1>1. RInit => RInv
  BY RinhaInit
<1>2. RInv /\ Disciplined /\ Disciplined' /\ [RNext]_rvars => RInv'
  BY RinhaNext
<1> QED BY <1>1, <1>2, PTL DEF RSpec

LEMMA SafeMachine ==
  ASSUME Run!IInv
  PROVE  /\ Safety!StackDefined /\ Safety!HeapDefined /\ Safety!TuplesWellFounded
         /\ Safety!OutputDefined /\ Safety!RunsListedInstructions
<1>1. \A v : Run!Valid(v) <=> Safety!Valid(v)
  BY Zenon DEF Run!Valid, Run!Uninit, Run!Plain, Run!FLAG_NONE, Run!is_str, Run!is_tuple,
    Run!is_closure, Safety!Valid, Safety!Uninit, Safety!Plain, Safety!FLAG_NONE,
    Safety!is_str, Safety!is_tuple, Safety!is_closure
<1>2. \A v : Run!is_tuple(v) <=> Safety!is_tuple(v)
  BY DEF Run!is_tuple, Safety!is_tuple
<1>3. \A g : Safety!dump_function(g) = Run!dump_function(g)
  BY SMT DEF Safety!dump_function, Safety!Size, Safety!OpAt, Safety!OpNames, Safety!WordOps,
    Safety!ByteOps, Run!dump_function, Run!Size, Run!OpAt, Run!OpNames, Run!WordOps,
    Run!ByteOps
<1>4. Run!RunsListedInstructions
  BY MachineAssumed, Run!Listed
<1>5. Safety!StackDefined /\ Safety!HeapDefined /\ Safety!OutputDefined
  BY Zenon, <1>1 DEF Run!IInv, Run!StackDefined, Run!HeapDefined, Run!OutputDefined,
    Safety!StackDefined, Safety!HeapDefined, Safety!OutputDefined
<1>6. Safety!TuplesWellFounded
  BY Zenon, <1>2 DEF Run!IInv, Run!TuplesWellFounded, Safety!TuplesWellFounded
<1>7. Safety!RunsListedInstructions
  BY Zenon, <1>3, <1>4 DEF Run!RunsListedInstructions, Safety!RunsListedInstructions,
    Run!function, Safety!function
<1> QED BY <1>5, <1>6, <1>7

(* The two layouts are told of this machine as of the other.               *)
LEMMA SameLayouts ==
  /\ Run!AddressesFit <=> Layouts!AddressesFit
  /\ Run!LayoutsAgree <=> Layouts!LayoutsAgree
<1>1. \A v : Run!SurvivesTagging(v) <=> Layouts!SurvivesTagging(v)
  BY Zenon DEF Run!SurvivesTagging, Run!Untagged, Run!bits, Run!Wrap64, Run!TypeNumber,
    Run!type, Run!Type, Run!flags, Run!payload, Run!Wrap, Run!INT_MIN,
    Layouts!SurvivesTagging, Layouts!Untagged, Layouts!bits, Layouts!Wrap64,
    Layouts!TypeNumber, Layouts!type, Layouts!Type, Layouts!flags, Layouts!payload,
    Layouts!Wrap, Layouts!INT_MIN
<1>2. Run!LayoutsAgree <=> Layouts!LayoutsAgree
  BY Zenon, <1>1 DEF Run!LayoutsAgree, Layouts!LayoutsAgree
<1>3. Run!AddressesFit <=> Layouts!AddressesFit
  BY Zenon DEF Run!AddressesFit, Layouts!AddressesFit
<1> QED BY <1>2, <1>3

(* main hands the machine what compile has made and looks at none of it:   *)
(* every cell and object that vm_run goes on to use holds a computed       *)
(* value, and it executes listed instructions, whatever the file, the size *)
(* of a byte and of the stacks, and wherever memory runs out.  All that it *)
(* keeps and prints survives tagging.                                      *)
THEOREM RinhaMachineSafe == RSpec /\ []Disciplined => []MachineSafe
<1>1. RInv => MachineSafe
  <2>1. Loading => status = "idle"
    BY DEF Loading, Run!Fresh
  <2>2. Loaded => (Layouts!AddressesFit => Layouts!LayoutsAgree)
    BY MachineAssumed, Run!InRangeAgrees, SameLayouts DEF Loaded
  <2> QED BY <2>1, <2>2, SafeMachine DEF RInv, Loaded, MachineSafe
<1> QED BY <1>1, RinhaInvariant, PTL

(* A step of the machine is one from its invariant, and no other changes   *)
(* the stack or the frames.                                                *)
LEMMA MachineSteps ==
  ASSUME RInv, [RNext]_rvars
  PROVE  \/ Run!IInv /\ Run!Next
         \/ UNCHANGED <<stack, frames>>
<1>1. CASE main \/ read_file \/ compile \/ exit \/ Gone \/ UNCHANGED rvars
  BY <1>1 DEF main, read_file, compile, exit, Gone, Exit, Proceed, rvars, mvars
<1> QED BY <1>1, MachineKept DEF RNext

(* No call touches the cells of its callers, in any run of a compiled      *)
(* program.                                                                *)
THEOREM RinhaCallersUntouched == RSpec /\ []Disciplined => Safety!CallersUntouched
<1>1. RInv /\ [RNext]_rvars =>
        \A i \in 0..(StackSize - 1) : i < slots => stack'[i] = stack[i]
  BY MachineSteps, MachineAssumed, Run!CallersStay DEF Run!CallerCellsStay
<1>2. RInv /\ [RNext]_rvars =>
        [\A i \in 0..(StackSize - 1) : i < slots => stack'[i] = stack[i]]_(Safety!vars)
  BY <1>1
<1> QED BY <1>2, RinhaInvariant, PTL DEF RSpec, Safety!CallersUntouched

(* A call that returns leaves its caller with one value in place of the    *)
(* callee and its arguments, in any run of a compiled program.             *)
THEOREM RinhaReturnsToCaller == RSpec /\ []Disciplined => Safety!ReturnsToCaller
<1>1. RInv /\ [RNext]_rvars => (Len(frames') < Len(frames) => Run!ToCaller)
  <2>1. ASSUME RInv, frames' = frames, Len(frames') < Len(frames) PROVE FALSE
    <3>1. Len(frames) \in Nat
      BY <2>1 DEF RInv, Loading, Loaded, Run!Fresh, Run!IInv, Run!TypeOK
    <3> QED BY <2>1, <3>1
  <2> QED BY <2>1, MachineSteps, MachineAssumed, Run!ReturnsBack
<1>2. RInv /\ [RNext]_rvars => [Len(frames') < Len(frames) => Run!ToCaller]_(Safety!vars)
  BY <1>1
<1> QED BY <1>2, RinhaInvariant, PTL DEF RSpec, Safety!ReturnsToCaller, Run!ToCaller

-----------------------------------------------------------------------------
(* Activations.                                                            *)

(* Both machines see the same cells,                                       *)
LEMMA SameCells ==
  /\ Run!Cells = Safety!Cells /\ Run!Callers = Safety!Callers
  /\ Run!Cells' = Safety!Cells' /\ Run!Callers' = Safety!Callers'
BY DEF Run!Cells, Safety!Cells, Run!Callers, Safety!Callers, Run!From, Safety!From,
   Run!Base, Safety!Base

(* read the same operands, do the same with them                           *)
LEMMA SameCallsParts ==
  /\ \A op : Run!Calls!At(op) <=> Safety!Calls!At(op)
  /\ Run!Calls!Byte = Safety!Calls!Byte /\ Run!Calls!Word = Safety!Calls!Word
  /\ Run!Calls!function = Safety!Calls!function
  /\ \A i : Run!Calls!peek(i) = Safety!Calls!peek(i)
  /\ \A error : Run!Calls!Fail(error) <=> Safety!Calls!Fail(error)
  /\ Run!Calls!OutOfMemory <=> Safety!Calls!OutOfMemory
  /\ \A how, error : Run!Calls!Stop(how, error) <=> Safety!Calls!Stop(how, error)
  /\ \A n, v, next : Run!Calls!Replace(n, v, next) <=> Safety!Calls!Replace(n, v, next)
  /\ \A v, next : Run!Calls!push(v, next) <=> Safety!Calls!push(v, next)
  /\ \A n, v : Run!Calls!Gives(n, v) <=> Safety!Calls!Gives(n, v)
<1>1. Run!Calls!function = Safety!Calls!function
  BY DEF Run!Calls!function, Safety!Calls!function
<1>2. \A op : Run!Calls!At(op) <=> Safety!Calls!At(op)
  BY <1>1 DEF Run!Calls!At, Run!Calls!OpAt, Run!Calls!OpNames, Safety!Calls!At,
       Safety!Calls!OpAt, Safety!Calls!OpNames
<1>3. Run!Calls!Byte = Safety!Calls!Byte /\ Run!Calls!Word = Safety!Calls!Word
  BY <1>1 DEF Run!Calls!Byte, Run!Calls!Word, Run!Calls!read_byte,
       Run!Calls!read_word, Safety!Calls!Byte, Safety!Calls!Word,
       Safety!Calls!read_byte, Safety!Calls!read_word
<1>4. \A i : Run!Calls!peek(i) = Safety!Calls!peek(i)
  BY SameCells DEF Run!Calls!peek, Safety!Calls!peek
<1>5. /\ \A how, error : Run!Calls!Stop(how, error) <=> Safety!Calls!Stop(how, error)
      /\ \A error : Run!Calls!Fail(error) <=> Safety!Calls!Fail(error)
      /\ Run!Calls!OutOfMemory <=> Safety!Calls!OutOfMemory
  BY SameCells DEF Run!Calls!Stop, Run!Calls!Fail, Run!Calls!OutOfMemory,
       Run!Calls!heap, Safety!Calls!Stop, Safety!Calls!Fail,
       Safety!Calls!OutOfMemory, Safety!Calls!heap
<1>6. \A n, v, next : Run!Calls!Replace(n, v, next) <=> Safety!Calls!Replace(n, v, next)
  BY Zenon, SameCells DEF Run!Calls!Replace, Run!Calls!Under, Run!Calls!heap,
       Safety!Calls!Replace, Safety!Calls!Under, Safety!Calls!heap
<1>7. \A v, next : Run!Calls!push(v, next) <=> Safety!Calls!push(v, next)
  BY <1>5, <1>6 DEF Run!Calls!push, Run!Calls!heap, Safety!Calls!push,
       Safety!Calls!heap
<1>8. \A n, v : Run!Calls!Gives(n, v) <=> Safety!Calls!Gives(n, v)
  BY <1>6 DEF Run!Calls!Gives, Run!Calls!heap, Safety!Calls!Gives,
       Safety!Calls!heap
<1> QED BY <1>1, <1>2, <1>3, <1>4, <1>5, <1>6, <1>7, <1>8

(* and compute the same values.                                            *)
LEMMA SameCallsValues ==
  /\ \A n : Run!Calls!Wrap(n) = Safety!Calls!Wrap(n) /\ Run!Calls!int_value(n) = Safety!Calls!int_value(n)
  /\ Run!Calls!FALSE_VALUE = Safety!Calls!FALSE_VALUE /\ Run!Calls!TRUE_VALUE = Safety!Calls!TRUE_VALUE
  /\ \A b : Run!Calls!bool_value(b) = Safety!Calls!bool_value(b)
  /\ \A p : Run!Calls!str_value(p) = Safety!Calls!str_value(p)
  /\ \A v : Run!Calls!is_str(v) <=> Safety!Calls!is_str(v)
  /\ \A v : Run!Calls!is_falsy(v) <=> Safety!Calls!is_falsy(v)
  /\ Run!Calls!Ints <=> Safety!Calls!Ints
  /\ Run!Calls!Texts <=> Safety!Calls!Texts
  /\ \A v : Run!Calls!to_str(v) = Safety!Calls!to_str(v)
  /\ \A a, b : Run!Calls!Quotient(a, b) = Safety!Calls!Quotient(a, b)
  /\ \A a, b : Run!Calls!Remainder(a, b) = Safety!Calls!Remainder(a, b)
  /\ \A a, b : Run!Calls!DivisionTraps(a, b) = Safety!Calls!DivisionTraps(a, b)
  /\ \A v, w : Run!Calls!Comparable(v, w) <=> Safety!Calls!Comparable(v, w)
  /\ \A v, w : Run!Calls!value_compare(strs, v, w) = Safety!Calls!value_compare(strs, v, w)
  /\ \A v, w : Run!Calls!value_equal(strs, tuples, v, w) = Safety!Calls!value_equal(strs, tuples, v, w)
  /\ \A n : Run!Calls!Sign(n) = Safety!Calls!Sign(n)
<1>1. \A n : Run!Calls!Wrap(n) = Safety!Calls!Wrap(n) /\ Run!Calls!int_value(n) = Safety!Calls!int_value(n)
  BY DEF Run!Calls!Wrap, Run!Calls!INT_MIN, Run!Calls!int_value,
       Run!Calls!Plain, Run!Calls!FLAG_NONE, Safety!Calls!Wrap,
       Safety!Calls!INT_MIN, Safety!Calls!int_value, Safety!Calls!Plain,
       Safety!Calls!FLAG_NONE
<1>2. /\ Run!Calls!FALSE_VALUE = Safety!Calls!FALSE_VALUE /\ Run!Calls!TRUE_VALUE = Safety!Calls!TRUE_VALUE
      /\ \A b : Run!Calls!bool_value(b) = Safety!Calls!bool_value(b)
      /\ \A p : Run!Calls!str_value(p) = Safety!Calls!str_value(p)
  BY DEF Run!Calls!FALSE_VALUE, Run!Calls!TRUE_VALUE, Run!Calls!bool_value,
       Run!Calls!str_value, Run!Calls!Plain, Run!Calls!FLAG_NONE,
       Run!Calls!FLAG_FALSY, Safety!Calls!FALSE_VALUE,
       Safety!Calls!TRUE_VALUE, Safety!Calls!bool_value,
       Safety!Calls!str_value, Safety!Calls!Plain,
       Safety!Calls!FLAG_NONE, Safety!Calls!FLAG_FALSY
<1>3. /\ \A v : Run!Calls!is_str(v) <=> Safety!Calls!is_str(v)
      /\ \A v : Run!Calls!is_falsy(v) <=> Safety!Calls!is_falsy(v)
  BY DEF Run!Calls!is_str, Run!Calls!is_falsy, Run!Calls!FLAG_FALSY,
       Safety!Calls!is_str, Safety!Calls!is_falsy,
       Safety!Calls!FLAG_FALSY
<1>4. (Run!Calls!Ints <=> Safety!Calls!Ints) /\ (Run!Calls!Texts <=> Safety!Calls!Texts)
  BY SameCallsParts DEF Run!Calls!Ints, Run!Calls!Texts, Run!Calls!is_int,
       Run!Calls!is_str, Safety!Calls!Ints, Safety!Calls!Texts,
       Safety!Calls!is_int, Safety!Calls!is_str
<1>5. \A v : Run!Calls!to_str(v) = Safety!Calls!to_str(v)
  BY Zenon DEF Run!Calls!to_str, Run!Calls!str_from_bool, Run!Calls!str_from_int,
       Run!Calls!Digits, Run!Calls!DigitCount, Safety!Calls!to_str,
       Safety!Calls!str_from_bool, Safety!Calls!str_from_int,
       Safety!Calls!Digits, Safety!Calls!DigitCount
<1>6. /\ \A a, b : Run!Calls!Quotient(a, b) = Safety!Calls!Quotient(a, b)
      /\ \A a, b : Run!Calls!Remainder(a, b) = Safety!Calls!Remainder(a, b)
      /\ \A a, b : Run!Calls!DivisionTraps(a, b) = Safety!Calls!DivisionTraps(a, b)
  BY Zenon DEF Run!Calls!Quotient, Run!Calls!Remainder, Run!Calls!DivisionTraps,
       Run!Calls!Abs, Run!Calls!INT_MIN, Safety!Calls!Quotient,
       Safety!Calls!Remainder, Safety!Calls!DivisionTraps,
       Safety!Calls!Abs, Safety!Calls!INT_MIN
<1>7. \A v, w : Run!Calls!Comparable(v, w) <=> Safety!Calls!Comparable(v, w)
  BY DEF Run!Calls!Comparable, Safety!Calls!Comparable
<1>8. \A v, w : Run!Calls!value_compare(strs, v, w) = Safety!Calls!value_compare(strs, v, w)
  BY Zenon DEF Run!Calls!value_compare, Run!Calls!Wrap, Run!Calls!INT_MIN,
       Run!Calls!str_compare, Safety!Calls!value_compare,
       Safety!Calls!Wrap, Safety!Calls!INT_MIN, Safety!Calls!str_compare
<1>9. \A v, w : Run!Calls!value_equal(strs, tuples, v, w) = Safety!Calls!value_equal(strs, tuples, v, w)
  BY DEF Run!Calls!value_equal, Run!Calls!is_tuple, Run!Calls!FlatEqual,
       Run!Calls!is_str, Run!Calls!str_equal, Safety!Calls!value_equal,
       Safety!Calls!is_tuple, Safety!Calls!FlatEqual,
       Safety!Calls!is_str, Safety!Calls!str_equal
<1>10. \A n : Run!Calls!Sign(n) = Safety!Calls!Sign(n)
  BY DEF Run!Calls!Sign, Safety!Calls!Sign
<1> QED BY <1>1, <1>2, <1>3, <1>4, <1>5, <1>6, <1>7, <1>8, <1>9, <1>10

(* So they are one and the same there.                                     *)
LEMMA SameActivations ==
  /\ Run!Calls!Next <=> Safety!Calls!Next
  /\ Run!Calls!vars = Safety!Calls!vars
<1>1. Run!Calls!load <=> Safety!Calls!load
  BY SameCells, SameCallsParts, SameCallsValues DEF Run!Calls!load, Safety!Calls!load
<1>2. Run!Calls!do_add <=> Safety!Calls!do_add
  BY Zenon, SameCallsParts, SameCallsValues DEF Run!Calls!do_add, Safety!Calls!do_add
<1>3. \A op, refused, m, error :
        Run!Calls!Arithmetic(op, refused, m, error) <=> Safety!Calls!Arithmetic(op, refused, m, error)
  BY SameCallsParts, SameCallsValues DEF Run!Calls!Arithmetic, Safety!Calls!Arithmetic
<1>4. Run!Calls!arithmetic <=> Safety!Calls!arithmetic
  BY Zenon, SameCallsParts, SameCallsValues, <1>3 DEF Run!Calls!arithmetic, Safety!Calls!arithmetic
<1>5. \A op, b : Run!Calls!Logical(op, b) <=> Safety!Calls!Logical(op, b)
  BY SameCallsParts, SameCallsValues DEF Run!Calls!Logical, Safety!Calls!Logical
<1>6. Run!Calls!logical <=> Safety!Calls!logical
  BY Zenon, SameCallsParts, SameCallsValues, <1>5 DEF Run!Calls!logical, Safety!Calls!logical
<1>7. \A op, accepted : Run!Calls!Comparison(op, accepted) <=> Safety!Calls!Comparison(op, accepted)
  BY Zenon, SameCallsParts, SameCallsValues DEF Run!Calls!Comparison, Safety!Calls!Comparison
<1>8. Run!Calls!comparison <=> Safety!Calls!comparison
  BY Zenon, <1>7 DEF Run!Calls!comparison, Safety!Calls!comparison
<1> USE DEF Run!Calls!OutOfMemory, Run!Calls!Fail, Run!Calls!Stop,
        Run!Calls!Replace, Run!Calls!push, Run!Calls!function,
        Run!Calls!At, Run!Calls!OpAt, Run!Calls!OpNames, Run!Calls!Byte,
        Run!Calls!read_byte, Run!Calls!Word, Run!Calls!read_word,
        Run!Calls!peek, Run!Calls!Under, Run!Calls!closure_value,
        Run!Calls!Plain, Run!Calls!FLAG_NONE, Run!Calls!FLAG_FALSY,
        Run!Calls!FALSE_VALUE, Run!Calls!TRUE_VALUE, Run!Calls!int_value,
        Run!Calls!str_value, Run!Calls!tuple_value, Run!Calls!bool_value,
        Run!Calls!Gives, Run!Calls!Ints, Run!Calls!is_int,
        Run!Calls!Texts, Run!Calls!is_str, Run!Calls!is_tuple,
        Run!Calls!is_closure, Run!Calls!is_falsy, Run!Calls!to_str,
        Run!Calls!str_from_bool, Run!Calls!str_from_int, Run!Calls!Digits,
        Run!Calls!DigitCount, Run!Calls!Wrap, Run!Calls!INT_MIN,
        Run!Calls!Quotient, Run!Calls!Remainder, Run!Calls!Abs,
        Run!Calls!DivisionTraps, Run!Calls!value_equal,
        Run!Calls!FlatEqual, Run!Calls!str_equal, Run!Calls!value_compare,
        Run!Calls!str_compare, Run!Calls!Comparable, Run!Calls!Sign,
        Run!Calls!Arithmetic, Run!Calls!Logical, Run!Calls!Comparison,
        Run!Calls!Component, Run!Calls!Jump, Run!Calls!Called,
        Run!Calls!Callable, Run!Calls!CalleeError, Run!Calls!Begin,
        Run!Calls!heap, Run!Calls!vars, Safety!Calls!OutOfMemory,
        Safety!Calls!Fail, Safety!Calls!Stop, Safety!Calls!Replace,
        Safety!Calls!push, Safety!Calls!function, Safety!Calls!At,
        Safety!Calls!OpAt, Safety!Calls!OpNames, Safety!Calls!Byte,
        Safety!Calls!read_byte, Safety!Calls!Word, Safety!Calls!read_word,
        Safety!Calls!peek, Safety!Calls!Under, Safety!Calls!closure_value,
        Safety!Calls!Plain, Safety!Calls!FLAG_NONE,
        Safety!Calls!FLAG_FALSY, Safety!Calls!FALSE_VALUE,
        Safety!Calls!TRUE_VALUE, Safety!Calls!int_value,
        Safety!Calls!str_value, Safety!Calls!tuple_value,
        Safety!Calls!bool_value, Safety!Calls!Gives, Safety!Calls!Ints,
        Safety!Calls!is_int, Safety!Calls!Texts, Safety!Calls!is_str,
        Safety!Calls!is_tuple, Safety!Calls!is_closure,
        Safety!Calls!is_falsy, Safety!Calls!to_str,
        Safety!Calls!str_from_bool, Safety!Calls!str_from_int,
        Safety!Calls!Digits, Safety!Calls!DigitCount, Safety!Calls!Wrap,
        Safety!Calls!INT_MIN, Safety!Calls!Quotient,
        Safety!Calls!Remainder, Safety!Calls!Abs,
        Safety!Calls!DivisionTraps, Safety!Calls!value_equal,
        Safety!Calls!FlatEqual, Safety!Calls!str_equal,
        Safety!Calls!value_compare, Safety!Calls!str_compare,
        Safety!Calls!Comparable, Safety!Calls!Sign,
        Safety!Calls!Arithmetic, Safety!Calls!Logical,
        Safety!Calls!Comparison, Safety!Calls!Component,
        Safety!Calls!Jump, Safety!Calls!Called, Safety!Calls!Callable,
        Safety!Calls!CalleeError, Safety!Calls!Begin, Safety!Calls!heap,
        Safety!Calls!vars
<1>9. Run!Calls!vm_init <=> Safety!Calls!vm_init
  BY Zenon, SameCells DEF Run!Calls!vm_init, Safety!Calls!vm_init
<1>10. Run!Calls!vm_run <=> Safety!Calls!vm_run
  BY Zenon, SameCells DEF Run!Calls!vm_run, Safety!Calls!vm_run
<1>11. Run!Calls!do_tuple <=> Safety!Calls!do_tuple
  BY Zenon, SameCells DEF Run!Calls!do_tuple, Safety!Calls!do_tuple
<1>12. Run!Calls!do_closure <=> Safety!Calls!do_closure
  BY Zenon, SameCells DEF Run!Calls!do_closure, Safety!Calls!do_closure
<1>13. Run!Calls!component <=> Safety!Calls!component
  BY ZenonT(60), SameCells DEF Run!Calls!component, Safety!Calls!component
<1>14. Run!Calls!do_print <=> Safety!Calls!do_print
  BY Zenon, SameCells DEF Run!Calls!do_print, Safety!Calls!do_print
<1>15. Run!Calls!jump <=> Safety!Calls!jump
  BY Zenon, SameCells DEF Run!Calls!jump, Safety!Calls!jump
<1>16. Run!Calls!do_call <=> Safety!Calls!do_call
  BY Zenon, SameCells DEF Run!Calls!do_call, Safety!Calls!do_call
<1>17. Run!Calls!do_tail_call <=> Safety!Calls!do_tail_call
  BY Zenon, SameCells DEF Run!Calls!do_tail_call, Safety!Calls!do_tail_call
<1>18. Run!Calls!do_return <=> Safety!Calls!do_return
  BY Zenon, SameCells DEF Run!Calls!do_return, Safety!Calls!do_return
<1>19. Run!Calls!vars = Safety!Calls!vars
  BY SameCells
<1> QED
  BY Zenon, <1>1, <1>2, <1>4, <1>6, <1>8, <1>9, <1>10, <1>11, <1>12, <1>13, <1>14,
     <1>15, <1>16, <1>17, <1>18, <1>19 DEF Run!Calls!Next, Safety!Calls!Next

(* Before the machine has a program nobody waits, and the compiler leaves  *)
(* it so.                                                                  *)
LEMMA OrderKept ==
  ASSUME RInv, Run!Ordered, [RNext]_rvars
  PROVE  Run!Ordered'
<1>1. CASE main \/ read_file \/ compile \/ exit \/ Gone \/ UNCHANGED rvars
  <2>1. UNCHANGED <<frames, slots>>
    BY <1>1 DEF main, read_file, compile, exit, Gone, Exit, Proceed, rvars, mvars
  <2> QED BY <2>1, MachineAssumed, Run!OrderedSame
<1>2. CASE run
  BY <1>2, MachineKept, MachineAssumed, Run!OrderedNext
<1> QED BY <1>1, <1>2 DEF RNext

LEMMA ActivationStep ==
  ASSUME RInv, Run!Ordered, [RNext]_rvars
  PROVE  [compile \/ Safety!Calls!Next]_(Safety!Calls!vars)
<1>1. CASE main \/ read_file \/ exit \/ Gone \/ UNCHANGED rvars
  <2>1. /\ UNCHANGED <<functions, strs, result>>
        /\ UNCHANGED mvars
    BY Zenon, <1>1 DEF main, read_file, exit, Gone, Exit, Proceed, rvars, cvars
  <2>2. UNCHANGED <<stack, top, frames, cl, ip, slots, tuples, closures, status, out>>
    BY <2>1 DEF mvars
  <2>3. Safety!Cells' = Safety!Cells /\ Safety!Callers' = Safety!Callers
    BY <2>2 DEF Safety!Cells, Safety!Callers, Safety!From, Safety!Base
  <2> QED BY <2>1, <2>2, <2>3 DEF Safety!Calls!vars, Safety!Calls!heap
<1>2. CASE run
  <2>1. [Run!Calls!Next]_(Run!Calls!vars)
    BY <1>2, MachineKept, MachineAssumed, Run!StepRuns
  <2>2. Run!Calls!vars' = Safety!Calls!vars'
    BY DEF Run!Calls!vars, Safety!Calls!vars, Run!Calls!heap, Safety!Calls!heap,
       Run!Cells, Safety!Cells, Run!Callers, Safety!Callers, Run!From, Safety!From,
       Run!Base, Safety!Base
  <2> QED BY <2>1, <2>2, SameActivations
<1>3. CASE compile
  BY <1>3
<1> QED BY <1>1, <1>2, <1>3 DEF RNext

(* What the compiler makes of a disciplined program runs as in             *)
(* Activations: no call can tell that it shares the stack with others.     *)
THEOREM RinhaRunsAsActivations == RSpec /\ []Disciplined => RunsAsActivations
<1>1. RInit => Run!Ordered
  BY RinhaInit DEF RInit, Machine!Fresh, Run!Ordered
<1>2. RInv /\ Run!Ordered /\ [RNext]_rvars => Run!Ordered'
  BY OrderKept
<1>3. RInv /\ Run!Ordered /\ [RNext]_rvars =>
        [compile \/ Safety!Calls!Next]_(Safety!Calls!vars)
  BY ActivationStep
<1> QED BY <1>1, <1>2, <1>3, RinhaInvariant, PTL DEF RSpec, RunsAsActivations

-----------------------------------------------------------------------------
(* The exit status.                                                        *)

(* How far the process has come, by what main knows at each stage.         *)
ExitInv ==
  /\ disk \in Disks
  /\ stage \in {"main", "read_file", "compile"}
  /\ stage # "main" => argc \in 2..3 /\ command \in {"check", "dump", "run"}
  /\ IF stage = "compile" THEN argc = 3 /\ disk = "readable" ELSE phase = "idle"
  /\ phase \in {"idle", "compiling"} => result = "ok"
  /\ phase = "done" => result = "ok" \/ status = "halted"
  /\ status # "idle" => stage = "compile" /\ command = "run" /\ phase = "done"
  /\ ExitTells

LEMMA ExitInit == ASSUME RInit PROVE ExitInv
BY DEF RInit, Init, Machine!Fresh, ExitInv, ExitTells

LEMMA EndingsTell ==
  ASSUME ExitInv, exit
  PROVE  ExitInv'
<1>1. PICK how \in Endings : Exit(how)
  BY DEF exit
<1>2. At("compile") /\ exited' = how
      /\ UNCHANGED <<argc, command, disk, stage, phase, result, status>>
  BY <1>1 DEF exit, Exit, cvars, mvars
<1>3. \/ phase = "failed" /\ how = "failure"
      \/ phase = "undefined" /\ how \in {"success", "failure", "killed"}
      \/ phase = "done" /\ command # "run" /\ how = "success"
      \/ phase = "done" /\ command = "run" /\ status = "trapped" /\ how = "killed"
      \/ /\ phase = "done" /\ command = "run" /\ status = "halted"
         /\ how = IF result = "ok" THEN "success" ELSE "failure"
  <2>1. status # "idle" => command = "run"
    BY DEF ExitInv
  <2>2. CASE phase = "failed"
    BY <1>1, <2>2 DEF Endings
  <2>3. CASE phase = "undefined"
    BY <1>1, <2>3 DEF Endings
  <2>4. CASE phase = "done" /\ command # "run"
    BY <1>1, <2>1, <2>4 DEF Endings
  <2>5. CASE phase = "done" /\ command = "run"
    <3>1. CASE status \in {"halted", "trapped"}
      <4>1. Endings = Ran
        BY <2>5, <3>1 DEF Endings
      <4> QED BY <1>1, <2>5, <3>1, <4>1 DEF Ran
    <3>2. CASE status \notin {"halted", "trapped"}
      <4>1. Endings = {}
        BY <2>5, <3>2 DEF Endings
      <4> QED BY <1>1, <4>1
    <3> QED BY <3>1, <3>2
  <2>6. CASE phase \notin {"failed", "undefined", "done"}
    <3>1. Endings = {}
      BY <2>6 DEF Endings
    <3> QED BY <1>1, <3>1
  <2> QED BY <2>2, <2>3, <2>4, <2>5, <2>6
<1> QED BY <1>2, <1>3 DEF ExitInv, ExitTells, At

LEMMA ExitNext ==
  ASSUME ExitInv, [RNext]_rvars
  PROVE  ExitInv'
<1>1. CASE main
  BY <1>1 DEF main, At, Exit, Proceed, cvars, mvars, ExitInv, ExitTells
<1>2. CASE read_file
  <2>1. CASE Exit("failure") /\ (MemoryMayFail \/ ~open_file \/ ~fread)
    BY <1>2, <2>1 DEF read_file, At, open_file, fread, Exit, cvars, mvars, ExitInv,
       ExitTells
  <2>2. CASE open_file /\ fread /\ Proceed("compile")
    <3>1. argc = 3 /\ disk = "readable"
      BY <2>2 DEF ExitInv, Disks, open_file, fread
    <3> QED BY <1>2, <2>2, <3>1 DEF read_file, At, Proceed, cvars, mvars, ExitInv, ExitTells
  <2> QED BY <1>2, <2>1, <2>2 DEF read_file
<1>3. CASE compile
  <2>1. /\ At("compile") /\ UNCHANGED <<argc, command, disk, stage, exited, status>>
        /\ phase \in {"idle", "compiling"}
        /\ phase' \in {"failed", "undefined"} \/ result' = result
    BY <1>3, CompileSteps DEF compile, process, mvars
  <2> QED BY <2>1 DEF ExitInv, ExitTells, At
<1>4. CASE run
  <2>1. /\ At("compile") /\ command = "run" /\ phase = "done" /\ status # "halted"
        /\ UNCHANGED <<argc, command, disk, stage, exited, phase>>
        /\ status' = "halted" \/ result' = result
    BY <1>4, SameMachine, MachineAssumed, Run!ErrorsHalt DEF run, process
  <2> QED BY <2>1 DEF ExitInv, ExitTells, At
<1>5. CASE exit
  BY <1>5, EndingsTell
<1>6. CASE Gone \/ UNCHANGED rvars
  BY <1>6 DEF Gone, rvars, process, cvars, mvars, ExitInv, ExitTells
<1> QED BY <1>1, <1>2, <1>3, <1>4, <1>5, <1>6 DEF RNext

(* What the exit status says of the process is true, for every file and    *)
(* every use of the program.                                               *)
THEOREM RinhaExitTells == RSpec => []ExitTells
<1>1. RInit => ExitInv
  BY ExitInit
<1>2. ExitInv /\ [RNext]_rvars => ExitInv'
  BY ExitNext
<1>3. ExitInv => ExitTells
  BY DEF ExitInv
<1> QED BY <1>1, <1>2, <1>3, PTL DEF RSpec
=============================================================================
