------------------------------ MODULE VMProofs ------------------------------
(***************************************************************************)
(* Proofs about the virtual machine, for every set of certified programs,  *)
(* every size of the two stacks and every width of the integers.           *)
(***************************************************************************)
EXTENDS VMSafety, SequenceTheorems, TLAPS

(* The part of the invariant that speaks of the program and its objects.   *)
HeapTypes ==
  /\ functions \in Seq(Function)
  /\ strs \in Seq(Elements(strs))
  /\ tuples \in Seq([first : Value, second : Value])
  /\ closures \in Seq([fn : Nat, nonlocals : Seq(Value)])

HeapInv ==
  /\ HeapTypes
  /\ ProgramLoaded
  /\ HeapDefined
  /\ TuplesWellFounded

(* Objects are only added.                                                 *)
HeapGrows ==
  /\ functions' = functions
  /\ Len(strs') >= Len(strs)
  /\ Len(tuples') >= Len(tuples)
  /\ Len(closures') >= Len(closures)
  /\ \A c \in 1..Len(closures) : closures'[c] = closures[c]

(* A value stays valid when objects are added.                             *)
LEMMA ValidStays ==
  ASSUME IInv, HeapTypes', HeapGrows, NEW v \in Value, Valid(v)
  PROVE  Valid(v)'
<1>1. /\ Len(strs) \in Nat /\ Len(tuples) \in Nat /\ Len(closures) \in Nat
      /\ Len(strs') \in Nat /\ Len(tuples') \in Nat /\ Len(closures') \in Nat
  BY DEF IInv, TypeOK, HeapInv, HeapTypes
<1>2. v.val \in Int
  BY DEF Value
<1> QED
  BY <1>1, <1>2 DEF Valid, HeapGrows

(* A closure that can run can still run when objects are added.            *)
LEMMA CanRunStays ==
  ASSUME IInv, HeapInv', HeapGrows, NEW c, NEW a, NEW n, CanRun(c, a, n)
  PROVE  CanRun(c, a, n)'
<1>1. Len(closures) \in Nat /\ Len(closures') \in Nat
  BY DEF IInv, TypeOK, HeapInv, HeapTypes
<1> QED
  BY <1>1 DEF CanRun, HeapGrows

(* A waiting caller can still resume when its record and the first cell    *)
(* above its own stay.                                                     *)
LEMMA CanResumeStays ==
  ASSUME IInv, status = "running", HeapInv', HeapGrows,
         NEW k \in 1..Len(frames), frames'[k] = frames[k], Base(k)' = Base(k)
  PROVE  CanResume(k)'
<1>1. PICK c, a, m : /\ c = frames[k].cl /\ a = frames[k].ip
                     /\ m = Base(k) - frames[k].slots
  OBVIOUS
<1>2. frames[k].slots < Base(k) /\ CanRun(c, a, m)
  BY <1>1 DEF IInv, FramesNest, CanResume
<1>3. CanRun(c, a, m)'
  BY <1>2, CanRunStays
<1>4. /\ frames'[k].cl = c /\ frames'[k].ip = a
      /\ Base(k)' - frames'[k].slots = m
      /\ frames'[k].slots < Base(k)'
  BY <1>1, <1>2
<1> QED
  BY <1>3, <1>4 DEF CanResume

(* An error, a trap or the end of the run leaves the machine as it is.     *)
LEMMA StopKeeps ==
  ASSUME IInv, status' \in {"halted", "trapped", "ready"}, result' \in {"ok"} \cup Errors,
         status' = "ready" => status = "idle",
         UNCHANGED <<functions, stack, top, frames, cl, ip, slots, heap, out>>
  PROVE  IInv'
<1>1. TypeOK'
  BY DEF IInv, TypeOK, heap, Elements
<1>2. ProgramLoaded' /\ HeapDefined' /\ TuplesWellFounded'
  BY DEF IInv, heap, ProgramLoaded, HeapDefined, TuplesWellFounded, Valid
<1>3. StackDefined' /\ OutputDefined'
  BY DEF IInv, heap, StackDefined, OutputDefined, Valid
<1>4. FramesNest' /\ NotStarted'
  BY DEF IInv, FramesNest, NotStarted
<1> QED
  BY <1>1, <1>2, <1>3, <1>4 DEF IInv

(* An error of vm.c leaves the machine as it is.                           *)
LEMMA FailKeeps ==
  ASSUME IInv, NEW error \in Errors, Fail(error)
  PROVE  IInv'
<1>1. error \in Errors
  OBVIOUS
<1> QED
  BY StopKeeps, <1>1 DEF Fail
-----------------------------------------------------------------------------
(* What the certificate says of the instruction about to be executed.      *)

(* The program that runs is one of the certified ones.                     *)
LEMMA ProgramFacts ==
  ASSUME IInv
  PROVE  \E p \in Programs : /\ functions = p.functions
                             /\ Len(strs) >= Len(p.strs)
                             /\ Certified(p)
BY CertificateAssumption DEF IInv, ProgramLoaded

(* The certificate speaks of the instruction at ip: it is a whole one and  *)
(* its rules hold at a height that the frame has reached.                  *)
LEMMA Instruction ==
  ASSUME IInv, status = "running"
  PROVE  /\ top \in Nat /\ slots \in Nat /\ ip \in Nat
         /\ slots <= top /\ top < StackSize
         /\ function \in Function
         /\ cl \in 1..Len(closures)
         /\ ip \in DOMAIN Depth[functions][function]
         /\ Depth[functions][function] \in [DOMAIN Depth[functions][function] -> Nat]
         /\ Depth[functions][function][ip] \in Nat
         /\ Depth[functions][function][ip] <= top - slots
         /\ Len(closures[cl].nonlocals) = Len(function.nonlocals)
         /\ \E p \in Programs :
              /\ functions = p.functions
              /\ Len(strs) >= Len(p.strs)
              /\ Certified(p)
              /\ SafeAt(p, function, Depth[functions][function], ip)
<1>1. CanRun(cl, ip, top - slots)
  BY DEF IInv, FramesNest
<1>2. /\ cl \in 1..Len(closures)
      /\ Flows(Depth[functions][function], ip, top - slots)
  BY <1>1 DEF CanRun, function
<1>3. /\ closures[cl].fn \in 1..Len(functions)
      /\ Len(closures[cl].nonlocals) = Len(function.nonlocals)
  BY <1>2 DEF IInv, HeapDefined, function
<1>4. function \in Function
  BY SMTT(40), <1>3 DEF IInv, TypeOK, function
<1>5. PICK p \in Programs : /\ functions = p.functions
                            /\ Len(strs) >= Len(p.strs)
                            /\ Certified(p)
  BY ProgramFacts
<1>6. /\ Depth[functions][function] \in [DOMAIN Depth[functions][function] -> Nat]
      /\ \A a \in DOMAIN Depth[functions][function] :
           SafeAt(p, function, Depth[functions][function], a)
  BY <1>3, <1>5 DEF Certified, CertifiedBy, function
<1>7. Depth[functions][function][ip] \in Nat /\ Depth[functions][function][ip] <= top - slots
  BY <1>2, <1>6 DEF Flows
<1>8. /\ top \in -1..(StackSize - 1) /\ slots \in Nat /\ ip \in Nat
      /\ StackSize \in Nat
  BY SizeAssumption DEF IInv, TypeOK
<1>9. top \in Nat /\ slots <= top /\ top < StackSize
  BY <1>7, <1>8
<1> QED
  BY <1>2, <1>3, <1>4, <1>5, <1>6, <1>7, <1>8, <1>9 DEF Flows

(* The registers of a running machine.                                     *)
LEMMA Registers ==
  ASSUME IInv, status = "running"
  PROVE  /\ top \in Nat /\ slots \in Nat /\ ip \in Nat /\ StackSize \in Nat
         /\ slots <= top /\ top < StackSize
         /\ Depth[functions][function][ip] \in Nat
         /\ Depth[functions][function][ip] <= top - slots
BY Instruction, SizeAssumption

-----------------------------------------------------------------------------
(* The common shapes of steps.                                             *)

(* A step that allocates nothing keeps what is said of the objects.        *)
LEMMA HeapSame ==
  ASSUME IInv, UNCHANGED <<functions, heap>>
  PROVE  HeapInv' /\ HeapGrows
<1>1. functions' = functions /\ strs' = strs /\ tuples' = tuples
      /\ closures' = closures
  BY DEF heap
<1>2. HeapInv'
  BY <1>1 DEF IInv, TypeOK, HeapInv, HeapTypes, Elements, ProgramLoaded, HeapDefined,
              TuplesWellFounded, Valid
<1>3. HeapGrows
  BY <1>1 DEF HeapGrows, IInv, TypeOK
<1> QED
  BY <1>2, <1>3

(* Writing a valid value into the cell that becomes the top.               *)
LEMMA StoreKeeps ==
  ASSUME IInv, status = "running", HeapInv', HeapGrows,
         NEW k \in Nat, k <= top + 1, k < StackSize,
         NEW v \in Value, Valid(v)',
         NEW next \in Nat, CanRun(cl, next, k - slots),
         Store(k, v, next), out' = out
  PROVE  IInv'
<1>1. /\ top' = k /\ ip' = next
      /\ stack' = [stack EXCEPT ![k] = v]
      /\ functions' = functions /\ frames' = frames /\ cl' = cl
      /\ slots' = slots /\ status' = status /\ result' = result
  BY DEF Store
<1>2. stack \in [0..(StackSize - 1) -> Value] /\ top \in -1..(StackSize - 1)
  BY DEF IInv, TypeOK
<1>3. StackSize \in Nat
  BY SizeAssumption
<1>4. TypeOK'
  BY <1>1, <1>2, <1>3 DEF IInv, TypeOK, HeapInv, HeapTypes
<1>5. StackDefined'
  <2>1. SUFFICES ASSUME NEW i \in 0..k PROVE Valid(stack[i])'
    BY <1>1 DEF StackDefined
  <2>2. CASE i = k
    BY <1>1, <1>2, <1>3, <2>2
  <2>3. CASE i # k
    <3>1. i \in 0..top /\ i \in 0..(StackSize - 1)
      BY <1>2, <1>3, <2>3
    <3>2. stack'[i] = stack[i] /\ stack[i] \in Value
      BY <1>1, <1>2, <2>3, <3>1
    <3>3. Valid(stack[i])
      BY <3>1 DEF IInv, StackDefined
    <3> QED
      BY <3>2, <3>3, ValidStays DEF HeapInv
  <2> QED
    BY <2>2, <2>3
<1>6. OutputDefined'
  BY ValidStays, out' = out DEF IInv, TypeOK, HeapInv, OutputDefined
<1>7. FramesNest'
  <2>1. CanRun(cl, ip, top - slots)'
    BY <1>1, CanRunStays
  <2>2. ASSUME NEW j \in 1..Len(frames) PROVE CanResume(j)'
    <3>1. frames'[j] = frames[j] /\ Base(j)' = Base(j)
      BY <1>1 DEF Base
    <3> QED
      BY <3>1, CanResumeStays
  <2> QED
    BY <1>1, <2>1, <2>2 DEF FramesNest
<1>8. NotStarted'
  BY <1>1 DEF NotStarted
<1> QED
  BY <1>4, <1>5, <1>6, <1>7, <1>8 DEF IInv, HeapInv

(* Moving top within the frame, or going on elsewhere, without a write.    *)
LEMMA JumpKeeps ==
  ASSUME IInv, status = "running",
         NEW k \in Nat, k <= top, NEW next \in Nat,
         CanRun(cl, next, k - slots),
         top' = k, ip' = next, out' \in Seq(Value), OutputDefined',
         UNCHANGED <<functions, stack, frames, cl, slots, heap, status, result>>
  PROVE  IInv'
<1>1. HeapInv' /\ HeapGrows
  BY HeapSame
<1>2. TypeOK'
  <2>1. top' \in -1..(StackSize - 1)
    BY SizeAssumption DEF IInv, TypeOK
  <2> QED
    BY <1>1, <2>1 DEF IInv, TypeOK, HeapInv, HeapTypes, heap
<1>3. StackDefined'
  <2>1. SUFFICES ASSUME NEW i \in 0..k PROVE Valid(stack[i])'
    BY DEF StackDefined
  <2>2. i \in 0..top /\ i \in 0..(StackSize - 1)
    BY SizeAssumption DEF IInv, TypeOK
  <2>3. stack[i] \in Value /\ Valid(stack[i])
    BY <2>2 DEF IInv, TypeOK, StackDefined
  <2> QED
    BY <1>1, <2>3, ValidStays DEF HeapInv
<1>4. FramesNest'
  <2>1. CanRun(cl, ip, top - slots)'
    BY <1>1, CanRunStays
  <2>2. ASSUME NEW j \in 1..Len(frames) PROVE CanResume(j)'
    <3>1. frames'[j] = frames[j] /\ Base(j)' = Base(j)
      BY DEF Base
    <3> QED
      BY <1>1, <3>1, CanResumeStays
  <2> QED
    BY <2>1, <2>2 DEF FramesNest
<1>5. NotStarted'
  BY DEF NotStarted
<1> QED
  BY <1>1, <1>2, <1>3, <1>4, <1>5 DEF IInv, HeapInv

-----------------------------------------------------------------------------
(* Operands.                                                               *)

(* A cell in use is read as it was written, and holds a valid value.       *)
LEMMA CellInUse ==
  ASSUME IInv, NEW i \in 0..top
  PROVE  /\ cell(i) = stack[i]
         /\ cell(i) \in Value
         /\ Valid(cell(i))
<1>1. i \in 0..(StackSize - 1)
  BY SizeAssumption DEF IInv, TypeOK
<1> QED
  BY <1>1 DEF IInv, TypeOK, cell, StackDefined

(* An element of a sequence over S is in S.                                *)
LEMMA ElementTyped ==
  ASSUME NEW S, NEW s \in Seq(S), NEW i \in 1..Len(s)
  PROVE  s[i] \in S
OBVIOUS

(* The running closure and its function are well typed.                    *)
LEMMA ClosureTyped ==
  ASSUME IInv, NEW c \in 1..Len(closures)
  PROVE  /\ closures[c] \in [fn : Nat, nonlocals : Seq(Value)]
         /\ closures[c].nonlocals \in Seq(Value)
<1>1. closures \in Seq([fn : Nat, nonlocals : Seq(Value)])
  BY DEF IInv, TypeOK
<1>2. closures[c] \in [fn : Nat, nonlocals : Seq(Value)]
  BY <1>1, ElementTyped
<1> QED
  BY <1>2

(* Going on at next needs only the height the certificate gives.           *)
LEMMA GoesOn ==
  ASSUME IInv, status = "running", NEW next, NEW n \in Int, NEW m \in Int,
         Flows(Depth[functions][function], next, n), n <= m
  PROVE  CanRun(cl, next, m)
<1>1. /\ cl \in 1..Len(closures)
      /\ Depth[functions][function] \in [DOMAIN Depth[functions][function] -> Nat]
  BY Instruction
<1> QED
  BY <1>1 DEF CanRun, Flows, function

(* A Jump step.                                                            *)
LEMMA StepTo ==
  ASSUME IInv, status = "running", NEW k \in Nat, k <= top, NEW next \in Nat,
         CanRun(cl, next, k - slots), Jump(k, next)
  PROVE  IInv'
<1>1. OutputDefined' /\ out' \in Seq(Value)
  <2>1. HeapInv' /\ HeapGrows /\ out' = out
    BY HeapSame DEF Jump, heap
  <2> QED
    BY <2>1, ValidStays DEF IInv, TypeOK, HeapInv, OutputDefined
<1> QED
  BY <1>1, JumpKeeps DEF Jump

(* Values that are not pointers.                                           *)
LEMMA PlainValues ==
  /\ FALSE_VALUE \in Value /\ Valid(FALSE_VALUE)
  /\ TRUE_VALUE \in Value /\ Valid(TRUE_VALUE)
  /\ \A i \in Int : int_value(i) \in Value /\ Valid(int_value(i))
BY DEF FALSE_VALUE, TRUE_VALUE, int_value, Plain, Value, Type, FLAG_NONE,
       FLAG_FALSY, Valid, Uninit, is_str, is_tuple, is_closure

(* A push of a valid value, or the overflow stack_push reports, keeps the  *)
(* invariant.                                                              *)
LEMMA PushKeeps ==
  ASSUME IInv, status = "running", NEW v \in Value, Valid(v),
         NEW next \in Nat, CanRun(cl, next, top + 1 - slots), push(v, next)
  PROVE  IInv'
<1>1. CASE Fail("stack overflow")
  <2>1. "stack overflow" \in Errors
    BY DEF Errors
  <2> QED
    BY <1>1, <2>1, FailKeeps
<1>2. CASE ~stack_is_full /\ Store(top + 1, v, next) /\ UNCHANGED <<heap, out>>
  <2>1. HeapInv' /\ HeapGrows
    BY <1>2, HeapSame DEF Store
  <2>2. Valid(v)'
    BY <2>1, ValidStays DEF HeapInv
  <2>3. top + 1 \in Nat /\ top + 1 < StackSize /\ top + 1 <= top + 1
    BY <1>2, Registers DEF stack_is_full
  <2>4. Store(top + 1, v, next) /\ out' = out
    BY <1>2
  <2> QED
    BY <2>1, <2>2, <2>3, <2>4, Registers, StoreKeeps
<1> QED
  BY <1>1, <1>2 DEF push

(* Binary instructions have their two operands.                            *)
LEMMA Operands ==
  ASSUME IInv, status = "running", OpAt(function, ip) \in Binary
  PROVE  /\ top - 1 \in Nat /\ slots < top - 1
         /\ top < StackSize /\ top \in Nat
         /\ ip + 1 \in Nat
         /\ CanRun(cl, ip + 1, top - 1 - slots)
         /\ peek(0) \in Value /\ Valid(peek(0))
         /\ peek(1) \in Value /\ Valid(peek(1))
<1>1. PICK p \in Programs : SafeAt(p, function, Depth[functions][function], ip)
  BY Instruction
<1>2. /\ Depth[functions][function][ip] >= 2
      /\ Flows(Depth[functions][function], ip + 1, Depth[functions][function][ip] - 1)
  BY <1>1 DEF SafeAt
<1>3. /\ top - 1 \in Nat /\ slots < top - 1 /\ top \in Nat /\ top < StackSize
      /\ ip + 1 \in Nat
  <2>1. /\ top \in Nat /\ slots \in Nat /\ ip \in Nat
        /\ top < StackSize
    BY Instruction
  <2>2. PICK h \in Nat : h = Depth[functions][function][ip] /\ h <= top - slots
    BY Instruction
  <2>3. h >= 2
    BY <1>2, <2>2
  <2> QED
    BY SMTT(30), <2>1, <2>2, <2>3
<1>4. CanRun(cl, ip + 1, top - 1 - slots)
  BY SMTT(40), <1>2, Instruction, GoesOn
<1>5. top - 0 \in 0..top /\ top - 1 \in 0..top
  BY <1>3
<1> QED
  BY <1>3, <1>4, <1>5, CellInUse DEF peek

(* Replacing two operands by a valid value keeps the invariant.            *)
LEMMA ReduceKeeps ==
  ASSUME IInv, status = "running", OpAt(function, ip) \in Binary,
         HeapInv', HeapGrows, NEW v \in Value, Valid(v)', Reduce(v), out' = out
  PROVE  IInv'
<1>1. top - 1 \in Nat /\ top - 1 <= top + 1 /\ top - 1 < StackSize
  BY Operands, Registers
<1>2. ip + 1 \in Nat /\ CanRun(cl, ip + 1, top - 1 - slots)
  BY Operands
<1> QED
  BY <1>1, <1>2, StoreKeeps DEF Reduce

(* Operands of instructions are read inside the code.                      *)
LEMMA ByteOperand ==
  ASSUME IInv, status = "running", OpAt(function, ip) \in ByteOps
  PROVE  Byte \in Nat
<1>1. PICK p \in Programs : SafeAt(p, function, Depth[functions][function], ip)
  BY Instruction
<1>2. Size(OpAt(function, ip)) = 2
  BY DEF Size, ByteOps, WordOps
<1>3. ip + 2 <= Len(function.code)
  BY <1>1, <1>2 DEF SafeAt
<1>4. function.code \in Seq(0..UINT8_MAX) /\ ip \in Nat
  BY Instruction DEF Function
<1>5. function.code[ip + 2] \in Nat
  BY <1>3, <1>4, ByteAssumption
<1>6. (ip + 1) + 1 = ip + 2
  BY <1>4
<1> QED
  BY <1>5, <1>6 DEF Byte, read_byte

(* The word operand of a jump or an int is a number read inside the code.  *)
LEMMA WordOperand ==
  ASSUME IInv, status = "running", OpAt(function, ip) \in WordOps
  PROVE  Word \in Nat
<1>1. PICK p \in Programs : SafeAt(p, function, Depth[functions][function], ip)
  BY Instruction
<1>2. Size(OpAt(function, ip)) = 3
  BY DEF Size, WordOps
<1>3. ip + 3 <= Len(function.code)
  BY <1>1, <1>2 DEF SafeAt
<1>4. function.code \in Seq(0..UINT8_MAX) /\ ip \in Nat
  BY Instruction DEF Function
<1>5. function.code[ip + 2] \in Nat /\ function.code[ip + 3] \in Nat
  BY SMTT(40), <1>3, <1>4, ByteAssumption
<1>6. (ip + 1) + 1 = ip + 2 /\ (ip + 1) + 2 = ip + 3
  BY <1>4
<1>7. \A x, y \in Nat : x + (UINT8_MAX + 1) * y \in Nat
  BY ByteAssumption
<1> QED
  BY <1>5, <1>6, <1>7 DEF Word, read_word

-----------------------------------------------------------------------------
(* Start.                                                                  *)

(* Allocating the stack and the call stack, or failing to.                 *)
LEMMA vm_init_keeps ==
  ASSUME IInv, vm_init
  PROVE  IInv'
<1>1. CASE OutOfMemory
  BY <1>1, FailKeeps DEF OutOfMemory, Errors
<1>2. CASE /\ status' = "ready"
           /\ UNCHANGED <<functions, stack, top, frames, cl, ip, slots, heap,
                          result, out>>
  BY <1>2, StopKeeps DEF vm_init, IInv, TypeOK
<1> QED
  BY <1>1, <1>2 DEF vm_init

(* The closure of the program becomes cell 0 of the first frame.           *)
LEMMA vm_run_keeps ==
  ASSUME IInv, vm_run
  PROVE  IInv'
<1>1. /\ top = -1 /\ frames = <<>> /\ cl = 1 /\ ip = 0 /\ slots = 0
  BY DEF IInv, NotStarted, vm_run
<1>2. /\ stack' = [stack EXCEPT ![0] = closure_value(1)]
      /\ top' = 0 /\ status' = "running" /\ frames' = <<>>
      /\ cl' = 1 /\ ip' = 0 /\ slots' = 0
      /\ UNCHANGED <<functions, heap, result, out>>
  BY <1>1 DEF vm_run
<1>3. HeapInv' /\ HeapGrows
  BY <1>2, HeapSame
<1>4. closure_value(1) \in Value
  BY DEF closure_value, Plain, Value, Type, FLAG_NONE
<1>5. Len(closures) \in Nat \ {0}
  BY DEF IInv, TypeOK, ProgramLoaded
<1>6. Valid(closure_value(1))'
  BY <1>2, <1>5 DEF Valid, closure_value, Plain, Uninit, is_str, is_tuple,
                    is_closure, heap
<1>7. stack \in [0..(StackSize - 1) -> Value] /\ StackSize \in Nat \ {0}
  BY SizeAssumption DEF IInv, TypeOK
<1>8. TypeOK'
  BY <1>2, <1>3, <1>4, <1>7, SizeAssumption DEF IInv, TypeOK, HeapInv, HeapTypes
<1>9. StackDefined'
  BY <1>2, <1>6, <1>7 DEF StackDefined
<1>10. OutputDefined'
  BY <1>2, <1>3, ValidStays DEF IInv, TypeOK, HeapInv, OutputDefined
<1>11. FramesNest'
  <2>1. PICK p \in Programs : functions = p.functions /\ Certified(p)
    BY ProgramFacts
  <2>2. /\ functions \in Seq(Function) /\ functions # <<>>
        /\ functions[1].arity = 0
    BY <2>1 DEF Certified, CertifiedBy
  <2>3. 1 \in 1..Len(functions)
    BY <2>2
  <2>4. Flows(Depth[functions][functions[1]], 0, 0)
    BY <2>1, <2>2, <2>3 DEF Certified, CertifiedBy
  <2>5. CanRun(1, 0, 0)
    BY <1>5, <2>4 DEF CanRun, IInv, ProgramLoaded
  <2>6. CanRun(cl, ip, top - slots)'
    BY <1>2, <1>3, <2>5, CanRunStays
  <2> QED
    BY <1>2, <2>6 DEF FramesNest
<1>12. NotStarted'
  BY <1>2 DEF NotStarted
<1> QED
  BY <1>3, <1>8, <1>9, <1>10, <1>11, <1>12 DEF IInv, HeapInv

-----------------------------------------------------------------------------
(* Constants and variables.                                                *)

(* OP_NOP.                                                                 *)
LEMMA do_nop_keeps ==
  ASSUME IInv, do_nop
  PROVE  IInv'
<1>1. status = "running" /\ OpAt(function, ip) = "OP_NOP"
  BY DEF do_nop, At
<1>2. PICK p \in Programs : SafeAt(p, function, Depth[functions][function], ip)
  BY <1>1, Instruction
<1>3. Flows(Depth[functions][function], ip + 1, Depth[functions][function][ip])
  BY <1>1, <1>2 DEF SafeAt
<1>4. Depth[functions][function][ip] \in Nat /\ Depth[functions][function][ip] <= top - slots
  BY <1>1, Instruction
<1>5. top \in Nat /\ ip + 1 \in Nat /\ top - slots \in Int /\ top <= top
  BY <1>1, Registers
<1>6. CanRun(cl, ip + 1, top - slots)
  BY <1>1, <1>3, <1>4, <1>5, GoesOn
<1>7. Jump(top, ip + 1)
  BY DEF do_nop
<1> QED
  BY <1>1, <1>5, <1>6, <1>7, StepTo

(* The instructions that push a value and go on behind their operand.      *)
LEMMA PushInstruction ==
  ASSUME IInv, status = "running", NEW size \in Nat,
         \A p \in Programs :
           SafeAt(p, function, Depth[functions][function], ip) =>
             Flows(Depth[functions][function], ip + size, Depth[functions][function][ip] + 1),
         NEW v \in Value, Valid(v), push(v, ip + size)
  PROVE  IInv'
<1>1. PICK p \in Programs : SafeAt(p, function, Depth[functions][function], ip)
  BY Instruction
<1>2. Flows(Depth[functions][function], ip + size, Depth[functions][function][ip] + 1)
  BY <1>1
<1>3. /\ Depth[functions][function][ip] \in Nat
      /\ Depth[functions][function][ip] <= top - slots
  BY Instruction
<1>4. /\ ip + size \in Nat
      /\ Depth[functions][function][ip] + 1 \in Int /\ top + 1 - slots \in Int
      /\ Depth[functions][function][ip] + 1 <= top + 1 - slots
  BY <1>3, Registers
<1>5. CanRun(cl, ip + size, top + 1 - slots)
  BY <1>2, <1>4, GoesOn
<1> QED
  BY <1>4, <1>5, PushKeeps

(* OP_FALSE.                                                               *)
LEMMA do_false_keeps ==
  ASSUME IInv, do_false
  PROVE  IInv'
<1>1. status = "running" /\ OpAt(function, ip) = "OP_FALSE"
  BY DEF do_false, At
<1>2. \A p \in Programs :
        SafeAt(p, function, Depth[functions][function], ip) =>
          Flows(Depth[functions][function], ip + 1, Depth[functions][function][ip] + 1)
  BY <1>1 DEF SafeAt
<1>3. push(FALSE_VALUE, ip + 1)
  BY DEF do_false
<1> QED
  BY <1>1, <1>2, <1>3, PlainValues, PushInstruction

(* OP_TRUE.                                                                *)
LEMMA do_true_keeps ==
  ASSUME IInv, do_true
  PROVE  IInv'
<1>1. status = "running" /\ OpAt(function, ip) = "OP_TRUE"
  BY DEF do_true, At
<1>2. \A p \in Programs :
        SafeAt(p, function, Depth[functions][function], ip) =>
          Flows(Depth[functions][function], ip + 1, Depth[functions][function][ip] + 1)
  BY <1>1 DEF SafeAt
<1>3. push(TRUE_VALUE, ip + 1)
  BY DEF do_true
<1> QED
  BY <1>1, <1>2, <1>3, PlainValues, PushInstruction

(* OP_INT: the word read is an int.                                        *)
LEMMA do_int_keeps ==
  ASSUME IInv, do_int
  PROVE  IInv'
<1>1. status = "running" /\ OpAt(function, ip) = "OP_INT"
  BY DEF do_int, At
<1>2. \A p \in Programs :
        SafeAt(p, function, Depth[functions][function], ip) =>
          Flows(Depth[functions][function], ip + 3, Depth[functions][function][ip] + 1)
  BY <1>1 DEF SafeAt
<1>3. push(int_value(Word), ip + 3)
  BY DEF do_int
<1>4. Word \in Nat
  BY <1>1, WordOperand DEF WordOps
<1>5. int_value(Word) \in Value /\ Valid(int_value(Word))
  BY <1>4, PlainValues
<1> QED
  BY <1>1, <1>2, <1>3, <1>5, PushInstruction

(* OP_CONSTANT: the constant exists and is an int or a string of the       *)
(* program.                                                                *)
LEMMA do_constant_keeps ==
  ASSUME IInv, do_constant
  PROVE  IInv'
<1>1. status = "running" /\ OpAt(function, ip) = "OP_CONSTANT"
  BY DEF do_constant, At
<1>2. Byte \in Nat
  BY <1>1, ByteOperand DEF ByteOps
<1>3. PICK p \in Programs :
        /\ functions = p.functions
        /\ Len(strs) >= Len(p.strs)
        /\ Certified(p)
        /\ SafeAt(p, function, Depth[functions][function], ip)
  BY <1>1, Instruction
<1>4. Byte < Len(function.constants)
  BY <1>1, <1>3 DEF SafeAt, Byte
<1>5. function.constants \in Seq(Value)
  BY <1>1, Instruction DEF Function
<1>6. Byte + 1 \in 1..Len(function.constants)
  BY <1>2, <1>4, <1>5
<1>7. function.constants[Byte + 1] \in Value
  BY <1>5, <1>6
<1>8. \E f \in 1..Len(functions) : function = functions[f]
  BY <1>1, Instruction DEF IInv, HeapDefined, function
<1>9. \/ is_int(function.constants[Byte + 1])
      \/ /\ is_str(function.constants[Byte + 1])
         /\ function.constants[Byte + 1].val \in 1..Len(p.strs)
  BY <1>3, <1>6, <1>8 DEF Certified, CertifiedBy
<1>10. Len(p.strs) \in Nat /\ Len(strs) \in Nat
  BY <1>3 DEF Certified, CertifiedBy, IInv, TypeOK
<1>11. Valid(function.constants[Byte + 1])
  BY <1>3, <1>9, <1>10 DEF Valid, is_int, is_str, is_tuple, is_closure, Uninit,
                           Plain
<1>12. \A q \in Programs :
        SafeAt(q, function, Depth[functions][function], ip) =>
          Flows(Depth[functions][function], ip + 2, Depth[functions][function][ip] + 1)
  BY <1>1 DEF SafeAt
<1>13. push(function.constants[Byte + 1], ip + 2)
  BY DEF do_constant
<1> QED
  BY <1>1, <1>7, <1>11, <1>12, <1>13, PushInstruction

(* OP_LOCAL: the slot lies in the frame, in a cell in use.                 *)
LEMMA do_local_keeps ==
  ASSUME IInv, do_local
  PROVE  IInv'
<1>1. status = "running" /\ OpAt(function, ip) = "OP_LOCAL"
  BY DEF do_local, At
<1>2. Byte \in Nat
  BY <1>1, ByteOperand DEF ByteOps
<1>3. PICK p \in Programs : SafeAt(p, function, Depth[functions][function], ip)
  BY <1>1, Instruction
<1>4. Byte <= Depth[functions][function][ip]
  BY <1>1, <1>3 DEF SafeAt, Byte
<1>5. slots + Byte \in 0..top
  BY SMTT(40), <1>1, <1>2, <1>4, Instruction
<1>6. \A q \in Programs :
        SafeAt(q, function, Depth[functions][function], ip) =>
          Flows(Depth[functions][function], ip + 2, Depth[functions][function][ip] + 1)
  BY <1>1 DEF SafeAt
<1>7. push(cell(slots + Byte), ip + 2)
  BY DEF do_local
<1> QED
  BY <1>1, <1>5, CellInUse, <1>6, <1>7, PushInstruction

(* OP_NONLOCAL: the running closure captured the variable.                 *)
LEMMA do_nonlocal_keeps ==
  ASSUME IInv, do_nonlocal
  PROVE  IInv'
<1>1. status = "running" /\ OpAt(function, ip) = "OP_NONLOCAL"
  BY DEF do_nonlocal, At
<1>2. Byte \in Nat
  BY <1>1, ByteOperand DEF ByteOps
<1>3. PICK p \in Programs : SafeAt(p, function, Depth[functions][function], ip)
  BY <1>1, Instruction
<1>4. Byte < Len(function.nonlocals)
  BY <1>1, <1>3 DEF SafeAt, Byte
<1>5. /\ cl \in 1..Len(closures)
      /\ Len(closures[cl].nonlocals) = Len(function.nonlocals)
  BY <1>1, Instruction
<1>6. closures[cl].nonlocals \in Seq(Value)
  BY <1>5, ClosureTyped
<1>7. Byte + 1 \in 1..Len(closures[cl].nonlocals)
  BY <1>2, <1>4, <1>5, <1>6
<1>8. /\ closures[cl].nonlocals[Byte + 1] \in Value
      /\ Valid(closures[cl].nonlocals[Byte + 1])
  BY <1>5, <1>6, <1>7 DEF IInv, HeapDefined
<1>9. \A q \in Programs :
        SafeAt(q, function, Depth[functions][function], ip) =>
          Flows(Depth[functions][function], ip + 2, Depth[functions][function][ip] + 1)
  BY <1>1 DEF SafeAt
<1>10. push(closures[cl].nonlocals[Byte + 1], ip + 2)
  BY DEF do_nonlocal
<1> QED
  BY <1>1, <1>8, <1>9, <1>10, PushInstruction

-----------------------------------------------------------------------------
(* Operators.                                                              *)

(* The result of an overflow is a number.                                  *)
LEMMA WrapInt ==
  ASSUME NEW n \in Int
  PROVE  Wrap(n) \in Int
<1>1. INT_MIN \in Int /\ 2 * (INT_MAX + 1) \in Nat \ {0}
  BY IntAssumption DEF INT_MIN
<1>2. (n - INT_MIN) % (2 * (INT_MAX + 1)) \in Int
  BY <1>1
<1> QED
  BY <1>1, <1>2 DEF Wrap

(* Quotient and remainder are numbers where the hardware does not trap.    *)
LEMMA DivisionInt ==
  ASSUME NEW a \in Int, NEW b \in Int, ~DivisionTraps(a, b)
  PROVE  Quotient(a, b) \in Int /\ Remainder(a, b) \in Int
<1>1. Abs(a) \in Nat /\ Abs(b) \in Nat \ {0}
  BY DEF Abs, DivisionTraps
<1>2. Abs(a) \div Abs(b) \in Int
  BY <1>1
<1>3. Quotient(a, b) \in Int
  BY <1>2 DEF Quotient
<1>4. b * Quotient(a, b) \in Int
  BY <1>3
<1> QED
  BY <1>3, <1>4 DEF Remainder

(* A binary instruction whose value is not a pointer.                      *)
LEMMA PlainReduce ==
  ASSUME IInv, status = "running", OpAt(function, ip) \in Binary,
         NEW v \in Value, Valid(v), Reduce(v), UNCHANGED <<heap, out>>
  PROVE  IInv'
<1>1. HeapInv' /\ HeapGrows /\ out' = out
  BY HeapSame DEF Reduce, Store
<1>2. Valid(v)'
  BY <1>1, ValidStays DEF HeapInv
<1> QED
  BY <1>1, <1>2, ReduceKeeps

(* The payloads of both operands are numbers.                              *)
LEMMA IntOperands ==
  ASSUME IInv, status = "running", OpAt(function, ip) \in Binary
  PROVE  peek(1).val \in Int /\ peek(0).val \in Int
BY Operands DEF Value

(* Operations on two ints that give an int, or an error.                   *)
LEMMA ArithmeticKeeps ==
  ASSUME IInv, NEW op \in Binary, NEW n, Ints => n \in Int,
         NEW error \in Errors, Arithmetic(op, n, error)
  PROVE  IInv'
<1>1. status = "running" /\ OpAt(function, ip) \in Binary
  BY DEF Arithmetic, At
<1>2. CASE Ints /\ Reduce(int_value(n)) /\ UNCHANGED <<heap, out>>
  <2>1. int_value(n) \in Value /\ Valid(int_value(n))
    BY <1>2, PlainValues
  <2> QED
    BY <1>1, <1>2, <2>1, PlainReduce
<1>3. CASE ~Ints /\ Fail(error)
  BY <1>3, FailKeeps
<1> QED
  BY <1>2, <1>3 DEF Arithmetic

(* OP_SUB.                                                                 *)
LEMMA do_sub_keeps ==
  ASSUME IInv, do_sub
  PROVE  IInv'
<1>1. "OP_SUB" \in Binary /\ "cannot subtract" \in Errors
  BY DEF Binary, Errors
<1>2. peek(1).val \in Int /\ peek(0).val \in Int
  BY <1>1, IntOperands DEF do_sub, Arithmetic, At
<1>3. Wrap(peek(1).val - peek(0).val) \in Int
  BY <1>2, WrapInt
<1> QED
  BY <1>1, <1>3, ArithmeticKeeps DEF do_sub

(* OP_MUL.                                                                 *)
LEMMA do_mul_keeps ==
  ASSUME IInv, do_mul
  PROVE  IInv'
<1>1. "OP_MUL" \in Binary /\ "cannot multiply" \in Errors
  BY DEF Binary, Errors
<1>2. peek(1).val \in Int /\ peek(0).val \in Int
  BY <1>1, IntOperands DEF do_mul, Arithmetic, At
<1>3. Wrap(peek(1).val * peek(0).val) \in Int
  BY <1>2, WrapInt
<1> QED
  BY <1>1, <1>3, ArithmeticKeeps DEF do_mul

(* Division gives an int, traps or is an error.                            *)
LEMMA DivisionKeeps ==
  ASSUME IInv, NEW op \in Binary, NEW n,
         Ints /\ ~DivisionTraps(peek(1).val, peek(0).val) => n \in Int,
         NEW error \in Errors, Division(op, n, error)
  PROVE  IInv'
<1>1. status = "running" /\ OpAt(function, ip) \in Binary
  BY DEF Division, At
<1>2. CASE Trap
  BY <1>2, StopKeeps DEF Trap, IInv, TypeOK
<1>3. CASE /\ Ints /\ ~DivisionTraps(peek(1).val, peek(0).val)
           /\ Reduce(int_value(n))
           /\ UNCHANGED <<heap, out>>
  <2>1. int_value(n) \in Value /\ Valid(int_value(n))
    BY <1>3, PlainValues
  <2> QED
    BY <1>1, <1>3, <2>1, PlainReduce
<1>4. CASE ~Ints /\ Fail(error)
  BY <1>4, FailKeeps
<1> QED
  BY <1>2, <1>3, <1>4 DEF Division

(* OP_DIV.                                                                 *)
LEMMA do_div_keeps ==
  ASSUME IInv, do_div
  PROVE  IInv'
<1>1. "OP_DIV" \in Binary /\ "cannot divide" \in Errors
  BY DEF Binary, Errors
<1>2. peek(1).val \in Int /\ peek(0).val \in Int
  BY <1>1, IntOperands DEF do_div, Division, At
<1>3. ~DivisionTraps(peek(1).val, peek(0).val) =>
        Quotient(peek(1).val, peek(0).val) \in Int
  BY <1>2, DivisionInt
<1> QED
  BY <1>1, <1>3, DivisionKeeps DEF do_div

(* OP_REM.                                                                 *)
LEMMA do_rem_keeps ==
  ASSUME IInv, do_rem
  PROVE  IInv'
<1>1. "OP_REM" \in Binary /\ "cannot calculate remainder" \in Errors
  BY DEF Binary, Errors
<1>2. peek(1).val \in Int /\ peek(0).val \in Int
  BY <1>1, IntOperands DEF do_rem, Division, At
<1>3. ~DivisionTraps(peek(1).val, peek(0).val) =>
        Remainder(peek(1).val, peek(0).val) \in Int
  BY <1>2, DivisionInt
<1> QED
  BY <1>1, <1>3, DivisionKeeps DEF do_rem

(* The truth value of a comparison or a logical operation.                 *)
LEMMA BoolValue ==
  ASSUME NEW b
  PROVE  bool_value(b) \in Value /\ Valid(bool_value(b))
<1>1. bool_value(b) = TRUE_VALUE \/ bool_value(b) = FALSE_VALUE
  BY DEF bool_value
<1> QED
  BY <1>1, PlainValues

(* Operations on any two values that give a bool.                          *)
LEMMA LogicalKeeps ==
  ASSUME IInv, NEW op \in Binary, NEW b, Logical(op, b)
  PROVE  IInv'
<1>1. status = "running" /\ OpAt(function, ip) \in Binary
  BY DEF Logical, At
<1>2. Reduce(bool_value(b)) /\ UNCHANGED <<heap, out>>
  BY DEF Logical
<1> QED
  BY <1>1, <1>2, BoolValue, PlainReduce

(* OP_EQ, OP_NEQ, OP_AND and OP_OR.                                        *)
LEMMA logical_keeps ==
  ASSUME IInv, do_eq \/ do_neq \/ do_and \/ do_or
  PROVE  IInv'
<1>1. {"OP_EQ", "OP_NEQ", "OP_AND", "OP_OR"} \subseteq Binary
  BY DEF Binary
<1>2. CASE do_eq
  BY <1>1, <1>2, LogicalKeeps DEF do_eq
<1>3. CASE do_neq
  BY <1>1, <1>3, LogicalKeeps DEF do_neq
<1>4. CASE do_and
  BY <1>1, <1>4, LogicalKeeps DEF do_and
<1>5. CASE do_or
  BY <1>1, <1>5, LogicalKeeps DEF do_or
<1> QED
  BY <1>2, <1>3, <1>4, <1>5

(* A comparison gives a bool or is an error.                               *)
LEMMA ComparisonKeeps ==
  ASSUME IInv, NEW op \in Binary, NEW accepted, Comparison(op, accepted)
  PROVE  IInv'
<1>1. status = "running" /\ OpAt(function, ip) \in Binary
  BY DEF Comparison, At
<1>2. CASE /\ \E cmp \in value_compare(strs, peek(1), peek(0)) :
                Reduce(bool_value(Sign(cmp) \in accepted))
           /\ UNCHANGED <<heap, out>>
  <2>1. PICK cmp : Reduce(bool_value(Sign(cmp) \in accepted))
    BY <1>2
  <2> QED
    BY <1>1, <1>2, <2>1, BoolValue, PlainReduce
<1>3. CASE Fail("cannot compare")
  BY <1>3, FailKeeps DEF Errors
<1> QED
  BY <1>2, <1>3 DEF Comparison

(* OP_LT, OP_GT, OP_LTE and OP_GTE.                                        *)
LEMMA comparison_keeps ==
  ASSUME IInv, do_lt \/ do_gt \/ do_lte \/ do_gte
  PROVE  IInv'
<1>1. {"OP_LT", "OP_GT", "OP_LTE", "OP_GTE"} \subseteq Binary
  BY DEF Binary
<1> QED
  BY <1>1, ComparisonKeeps DEF do_lt, do_gt, do_lte, do_gte

-----------------------------------------------------------------------------
(* Instructions that allocate.                                             *)

(* A sequence extended by x is a sequence of its own elements.             *)
LEMMA AppendElements ==
  ASSUME NEW s, s \in Seq(Elements(s)), NEW x
  PROVE  /\ Append(s, x) \in Seq(Elements(Append(s, x)))
         /\ Len(Append(s, x)) = Len(s) + 1
<1> DEFINE S == Elements(s) \cup {x}
           t == Append(s, x)
<1>1. s \in Seq(S) /\ x \in S
  <2>1. Elements(s) \subseteq S
    OBVIOUS
  <2> QED
    BY <2>1
<1>2. t \in Seq(S) /\ Len(t) = Len(s) + 1
  BY <1>1
<1>3. DOMAIN t = 1..Len(t) /\ Len(t) \in Nat
  BY <1>2
<1>4. \A i \in 1..Len(t) : t[i] \in Elements(t)
  BY <1>3 DEF Elements
<1>5. t \in Seq(Elements(t))
  <2> HIDE DEF t
  <2> QED
    BY <1>2, <1>3, <1>4
<1> QED
  BY <1>2, <1>5

(* OP_ADD adds ints, or makes a new string; strings made before stay.      *)
LEMMA do_add_keeps ==
  ASSUME IInv, do_add
  PROVE  IInv'
<1>1. status = "running" /\ OpAt(function, ip) \in Binary
  BY DEF do_add, At, Binary
<1>2. CASE /\ Ints
           /\ Reduce(int_value(Wrap(peek(1).val + peek(0).val)))
           /\ UNCHANGED <<heap, out>>
  <2>1. peek(1).val + peek(0).val \in Int
    BY <1>1, IntOperands
  <2>2. Wrap(peek(1).val + peek(0).val) \in Int
    BY <2>1, WrapInt
  <2> QED
    BY <1>1, <1>2, <2>2, PlainValues, PlainReduce
<1>3. ASSUME NEW text,
             strs' = Append(strs, text),
             Reduce(str_value(Len(strs) + 1)),
             UNCHANGED <<tuples, closures, out>>
      PROVE  IInv'
  <2>1. strs' \in Seq(Elements(strs')) /\ Len(strs') = Len(strs) + 1
    BY <1>3, AppendElements DEF IInv, TypeOK
  <2>2. functions' = functions /\ tuples' = tuples /\ closures' = closures
    BY <1>3 DEF Reduce, Store
  <2>3. Len(strs) \in Nat
    BY DEF IInv, TypeOK
  <2>4. HeapTypes' /\ HeapGrows
    BY <2>1, <2>2, <2>3 DEF HeapTypes, HeapGrows, IInv, TypeOK
  <2>5. HeapInv'
    <3>1. ProgramLoaded'
      <4>1. PICK p \in Programs : functions = p.functions
                                  /\ Len(strs) >= Len(p.strs)
                                  /\ Certified(p)
        BY ProgramFacts
      <4>2. Len(p.strs) \in Nat
        BY <4>1 DEF Certified, CertifiedBy
      <4> QED
        BY <2>1, <2>2, <2>3, <4>1, <4>2 DEF IInv, ProgramLoaded
    <3>2. ASSUME NEW v, Valid(v) PROVE Valid(v)'
      BY <2>1, <2>2, <2>3, <3>2 DEF Valid
    <3>3. HeapDefined'
      BY <2>2, <3>2 DEF IInv, HeapDefined
    <3>4. TuplesWellFounded'
      BY <2>2 DEF IInv, TuplesWellFounded
    <3> QED
      BY <2>4, <3>1, <3>3, <3>4 DEF HeapInv
  <2>6. PICK v : v = str_value(Len(strs) + 1)
    OBVIOUS
  <2>7. v \in Value
    BY <2>3, <2>6 DEF str_value, Plain, Value, Type, FLAG_NONE
  <2>8. Valid(v)'
    BY <2>1, <2>3, <2>6 DEF Valid, str_value, Plain, Uninit, is_str, is_tuple,
                            is_closure
  <2> QED
    BY <1>1, <1>3, <2>4, <2>5, <2>6, <2>7, <2>8, ReduceKeeps
<1>4. CASE OutOfMemory
  BY <1>4, FailKeeps DEF OutOfMemory, Errors
<1>5. CASE Fail(AddError)
  <2>1. AddError \in Errors
    BY DEF AddError, Errors
  <2> QED
    BY <1>5, <2>1, FailKeeps
<1> QED
  BY <1>2, <1>3, <1>4, <1>5 DEF do_add

(* OP_TUPLE: the components are in use when the tuple is made, and older.  *)
LEMMA do_tuple_keeps ==
  ASSUME IInv, do_tuple
  PROVE  IInv'
<1>1. status = "running" /\ OpAt(function, ip) \in Binary
  BY DEF do_tuple, At, Binary
<1>2. CASE OutOfMemory
  BY <1>2, FailKeeps DEF OutOfMemory, Errors
<1>3. CASE /\ tuples' = Append(tuples, [first |-> peek(1), second |-> peek(0)])
           /\ Reduce(tuple_value(Len(tuples) + 1))
           /\ UNCHANGED <<strs, closures, out>>
  <2> DEFINE n == Len(tuples)
             t == [first |-> peek(1), second |-> peek(0)]
  <2>1. /\ peek(0) \in Value /\ Valid(peek(0))
        /\ peek(1) \in Value /\ Valid(peek(1))
    BY <1>1, Operands
  <2>2. /\ tuples \in Seq([first : Value, second : Value])
        /\ n \in Nat
    BY DEF IInv, TypeOK
  <2>3. t \in [first : Value, second : Value]
    BY <2>1
  <2>4. /\ tuples' \in Seq([first : Value, second : Value])
        /\ Len(tuples') = n + 1
        /\ tuples'[n + 1] = t
        /\ \A i \in 1..n : tuples'[i] = tuples[i]
    BY <1>3, <2>2, <2>3
  <2>5. functions' = functions /\ strs' = strs /\ closures' = closures
    BY <1>3 DEF Reduce, Store
  <2>6. HeapTypes' /\ HeapGrows
    BY <2>2, <2>4, <2>5 DEF HeapTypes, HeapGrows, IInv, TypeOK
  <2>7. ASSUME NEW v, Valid(v) PROVE Valid(v)'
    BY <2>2, <2>4, <2>5, <2>7 DEF Valid
  <2>8. HeapDefined'
    <3>1. ASSUME NEW i \in 1..(n + 1)
          PROVE  Valid(tuples[i].first)' /\ Valid(tuples[i].second)'
      <4>1. CASE i = n + 1
        <5>1. tuples'[i].first = peek(1) /\ tuples'[i].second = peek(0)
          BY <2>4, <4>1
        <5>2. Valid(peek(1)) /\ Valid(peek(0))
          BY <2>1
        <5> QED
          BY <2>2, <2>4, <2>5, <5>1, <5>2 DEF Valid
      <4>2. CASE i \in 1..n
        BY <2>4, <2>7, <4>2 DEF IInv, HeapDefined
      <4> QED
        BY <2>2, <4>1, <4>2
    <3>2. \A c \in 1..Len(closures) :
            /\ closures[c].fn \in 1..Len(functions)
            /\ Len(closures[c].nonlocals) = Len(functions[closures[c].fn].nonlocals)
            /\ \A i \in 1..Len(closures[c].nonlocals) :
                 Valid(closures[c].nonlocals[i])'
      BY <2>5, <2>7 DEF IInv, HeapDefined
    <3> QED
      BY <2>4, <2>5, <3>1, <3>2 DEF HeapDefined
  <2>9. TuplesWellFounded'
    <3>1. ASSUME NEW i \in 1..(n + 1)
          PROVE  /\ is_tuple(tuples'[i].first) => tuples'[i].first.val < i
                 /\ is_tuple(tuples'[i].second) => tuples'[i].second.val < i
      <4>1. CASE i = n + 1
        BY <2>1, <2>2, <2>4, <4>1 DEF Valid
      <4>2. CASE i \in 1..n
        BY <2>4, <4>2 DEF IInv, TuplesWellFounded
      <4> QED
        BY <2>2, <4>1, <4>2
    <3> QED
      BY <2>4, <3>1 DEF TuplesWellFounded
  <2>10. HeapInv'
    BY <2>5, <2>6, <2>8, <2>9 DEF HeapInv, IInv, ProgramLoaded
  <2>11. PICK v : v = tuple_value(n + 1)
    OBVIOUS
  <2>12. v \in Value
    BY <2>2, <2>11 DEF tuple_value, Plain, Value, Type, FLAG_NONE
  <2>13. Valid(v)'
    BY <2>2, <2>4, <2>11 DEF Valid, tuple_value, Plain, Uninit, is_str,
                             is_tuple, is_closure
  <2> QED
    BY <1>1, <1>3, <2>6, <2>10, <2>11, <2>12, <2>13, ReduceKeeps
<1> QED
  BY <1>2, <1>3 DEF do_tuple

(* first and second find their tuple, whose components exist.              *)
LEMMA ComponentKeeps ==
  ASSUME IInv, NEW op \in {"OP_FIRST", "OP_SECOND"},
         NEW name \in {"first", "second"}, NEW error \in Errors,
         Component(op, name, error)
  PROVE  IInv'
<1>1. status = "running" /\ OpAt(function, ip) = op
  BY DEF Component, At
<1>2. PICK p \in Programs : SafeAt(p, function, Depth[functions][function], ip)
  BY <1>1, Instruction
<1>3. /\ Depth[functions][function][ip] >= 1
      /\ Flows(Depth[functions][function], ip + 1, Depth[functions][function][ip])
  BY <1>1, <1>2 DEF SafeAt
<1>4. CASE /\ is_tuple(peek(0))
           /\ Store(top, tuples[peek(0).val][name], ip + 1)
           /\ UNCHANGED <<heap, out>>
  <2>1. top - 0 \in 0..top
    BY <1>1, Registers
  <2>2. peek(0) \in Value /\ Valid(peek(0))
    BY <2>1, CellInUse DEF peek
  <2>3. peek(0).val \in 1..Len(tuples)
    BY <1>4, <2>2 DEF Valid
  <2>4. tuples \in Seq([first : Value, second : Value])
    BY DEF IInv, TypeOK
  <2>5. PICK v : v = tuples[peek(0).val][name]
    OBVIOUS
  <2>6. v \in Value /\ Valid(v)
    <3>1. PICK t : t = tuples[peek(0).val]
      OBVIOUS
    <3>2. t \in [first : Value, second : Value]
      BY <2>3, <2>4, <3>1, ElementTyped
    <3>3. Valid(t.first) /\ Valid(t.second)
      BY <2>3, <3>1 DEF IInv, HeapDefined
    <3>4. t.first \in Value /\ t.second \in Value
      BY <3>2
    <3>5. v = t.first \/ v = t.second
      BY <2>5, <3>1
    <3> QED
      BY <3>3, <3>4, <3>5
  <2>7. HeapInv' /\ HeapGrows /\ out' = out
    BY <1>4, HeapSame DEF Store
  <2>8. Valid(v)'
    BY <2>6, <2>7, ValidStays DEF HeapInv
  <2>9. CanRun(cl, ip + 1, top - slots)
    BY <1>1, <1>3, Instruction, GoesOn
  <2>10. top \in Nat /\ top <= top + 1 /\ top < StackSize /\ ip + 1 \in Nat
    BY <1>1, Registers
  <2> QED
    BY <1>1, <1>4, <2>5, <2>6, <2>7, <2>8, <2>9, <2>10, StoreKeeps
<1>5. CASE Fail(error)
  BY <1>5, FailKeeps
<1> QED
  BY <1>4, <1>5 DEF Component

(* OP_FIRST and OP_SECOND.                                                 *)
LEMMA component_keeps ==
  ASSUME IInv, do_first \/ do_second
  PROVE  IInv'
<1>1. /\ "cannot get first element" \in Errors
      /\ "cannot get second element" \in Errors
  BY DEF Errors
<1> QED
  BY <1>1, ComponentKeeps DEF do_first, do_second

(* OP_PRINT leaves the stack as it is and its operand is valid.            *)
LEMMA do_print_keeps ==
  ASSUME IInv, do_print
  PROVE  IInv'
<1>1. status = "running" /\ OpAt(function, ip) = "OP_PRINT"
  BY DEF do_print, At
<1>2. PICK p \in Programs : SafeAt(p, function, Depth[functions][function], ip)
  BY <1>1, Instruction
<1>3. Flows(Depth[functions][function], ip + 1, Depth[functions][function][ip])
  BY <1>1, <1>2 DEF SafeAt
<1>4. CanRun(cl, ip + 1, top - slots)
  BY <1>1, <1>3, Instruction, GoesOn
<1>5. top \in Nat /\ top <= top /\ ip + 1 \in Nat /\ top - 0 \in 0..top
  BY <1>1, Registers
<1>6. peek(0) \in Value /\ Valid(peek(0))
  BY <1>5, CellInUse DEF peek
<1>7. out' = Append(out, peek(0)) /\ out \in Seq(Value)
  BY DEF do_print, IInv, TypeOK
<1>8. out' \in Seq(Value)
  BY <1>6, <1>7
<1>9. OutputDefined'
  <2>1. HeapInv' /\ HeapGrows
    BY HeapSame DEF do_print
  <2>2. SUFFICES ASSUME NEW i \in 1..Len(out') PROVE Valid(out[i])'
    BY DEF OutputDefined
  <2>3. PICK v : v = out'[i]
    OBVIOUS
  <2>4. v \in Value /\ Valid(v)
    BY <1>6, <1>7, <2>3 DEF IInv, OutputDefined
  <2>5. Valid(v)'
    BY <2>1, <2>4, ValidStays DEF HeapInv
  <2> QED
    BY <2>3, <2>5
<1> QED
  BY <1>1, <1>4, <1>5, <1>8, <1>9, JumpKeeps DEF do_print

(* OP_JUMP goes where the certificate allows.                              *)
LEMMA do_jump_keeps ==
  ASSUME IInv, do_jump
  PROVE  IInv'
<1>1. status = "running" /\ OpAt(function, ip) = "OP_JUMP"
  BY DEF do_jump, At
<1>2. PICK p \in Programs : SafeAt(p, function, Depth[functions][function], ip)
  BY <1>1, Instruction
<1>3. Flows(Depth[functions][function], Word, Depth[functions][function][ip])
  BY <1>1, <1>2 DEF SafeAt, Word
<1>4. Word \in Nat
  BY <1>1, WordOperand DEF WordOps
<1>5. CanRun(cl, Word, top - slots)
  BY <1>1, <1>3, Instruction, GoesOn
<1>6. top \in Nat /\ top <= top
  BY <1>1, Registers
<1> QED
  BY <1>1, <1>4, <1>5, <1>6, StepTo DEF do_jump

(* OP_JUMP_IF_FALSE takes one value off and goes either way.               *)
LEMMA do_jump_if_false_keeps ==
  ASSUME IInv, do_jump_if_false
  PROVE  IInv'
<1>1. status = "running" /\ OpAt(function, ip) = "OP_JUMP_IF_FALSE"
  BY DEF do_jump_if_false, At
<1>2. PICK p \in Programs : SafeAt(p, function, Depth[functions][function], ip)
  BY <1>1, Instruction
<1>3. /\ Depth[functions][function][ip] >= 1
      /\ Flows(Depth[functions][function], Word, Depth[functions][function][ip] - 1)
      /\ Flows(Depth[functions][function], ip + 3, Depth[functions][function][ip] - 1)
  BY <1>1, <1>2 DEF SafeAt, Word
<1>4. Word \in Nat
  BY <1>1, WordOperand DEF WordOps
<1>5. PICK next : /\ next \in {Word, ip + 3}
                  /\ Jump(top - 1, next)
  BY DEF do_jump_if_false
<1>6. CanRun(cl, next, top - 1 - slots)
  BY SMTT(40), <1>1, <1>3, <1>5, Instruction, GoesOn
<1>7. top - 1 \in Nat /\ top - 1 <= top /\ next \in Nat
  BY <1>1, <1>3, <1>4, <1>5, Registers
<1> QED
  BY <1>1, <1>5, <1>6, <1>7, StepTo

(* The stack with v in a new cell.                                         *)
Pushed(v) == [stack EXCEPT ![top + 1] = v]

(* A variable is captured with a valid value, or is the new closure v      *)
(* itself when its slot is the cell v was just pushed to.                  *)
LEMMA CapturedValue ==
  ASSUME IInv, status = "running", top + 1 < StackSize,
         NEW m \in Nat, m <= top + 1 - slots,
         NEW child \in Function, CaptureSafe(function, m, child),
         NEW v \in Value,
         NEW newStack, newStack = Pushed(v),
         NEW i \in 1..Len(child.nonlocals),
         NEW x, x = Captured(child, newStack)[i]
  PROVE  x \in Value /\ (x = v \/ Valid(x))
<1>1. PICK nonlocal : nonlocal = child.nonlocals[i]
  OBVIOUS
<1>2. child.nonlocals \in Seq([isLocal : BOOLEAN, index : Nat])
  BY DEF Function
<1>3. nonlocal \in [isLocal : BOOLEAN, index : Nat]
  BY <1>1, <1>2, ElementTyped
<1>4. PICK index \in Nat : index = nonlocal.index
  BY <1>3
<1>5. /\ top \in Nat /\ slots \in Nat /\ StackSize \in Nat /\ slots <= top
      /\ stack \in [0..(StackSize - 1) -> Value]
  BY Registers DEF IInv, TypeOK
<1>6. CASE nonlocal.isLocal
  <2>1. index <= m
    BY <1>1, <1>4, <1>6 DEF CaptureSafe
  <2>2. PICK at \in 0..(top + 1) : at = slots + index
    BY <1>5, <2>1
  <2>3. at \in 0..(StackSize - 1)
    BY <1>5
  <2>4. x = newStack[at]
    BY <1>1, <1>4, <1>6, <2>2, <2>3 DEF Captured
  <2>5. CASE at = top + 1
    BY <1>5, <2>3, <2>4, <2>5 DEF Pushed
  <2>6. CASE at \in 0..top
    <3>1. x = stack[at]
      BY <1>5, <2>3, <2>4, <2>6 DEF Pushed
    <3> QED
      BY <1>5, <2>3, <2>6, <3>1 DEF IInv, StackDefined
  <2> QED
    BY <1>5, <2>5, <2>6
<1>7. CASE ~nonlocal.isLocal
  <2>1. index < Len(function.nonlocals)
    BY <1>1, <1>4, <1>7 DEF CaptureSafe
  <2>2. /\ cl \in 1..Len(closures)
        /\ Len(closures[cl].nonlocals) = Len(function.nonlocals)
    BY Instruction
  <2>3. PICK nonlocals : nonlocals = closures[cl].nonlocals
    OBVIOUS
  <2>4. nonlocals \in Seq(Value)
    BY <2>2, <2>3, ClosureTyped
  <2>5. index + 1 \in 1..Len(nonlocals)
    BY <2>1, <2>2, <2>3, <2>4
  <2>6. x = nonlocals[index + 1]
    BY <1>1, <1>4, <1>7, <2>3 DEF Captured
  <2>7. Valid(nonlocals[index + 1])
    BY <2>2, <2>3, <2>5 DEF IInv, HeapDefined
  <2> QED
    BY <2>4, <2>5, <2>6, <2>7
<1> QED
  BY <1>6, <1>7

(* Adding a closure whose variables are valid, counting itself.            *)
LEMMA AllocateClosure ==
  ASSUME IInv, UNCHANGED <<functions, strs, tuples>>,
         NEW f \in 1..Len(functions), NEW w, w = closure_value(Len(closures) + 1),
         NEW captured \in Seq(Value),
         Len(captured) = Len(functions[f].nonlocals),
         \A i \in 1..Len(captured) : captured[i] = w \/ Valid(captured[i]),
         closures' = Append(closures, [fn |-> f, nonlocals |-> captured])
  PROVE  HeapInv' /\ HeapGrows /\ Valid(w)'
<1>1. PICK new : new = [fn |-> f, nonlocals |-> captured]
  OBVIOUS
<1>2. new \in [fn : Nat, nonlocals : Seq(Value)]
  BY <1>1 DEF IInv, TypeOK
<1>3. PICK n \in Nat : n = Len(closures)
  BY DEF IInv, TypeOK
<1>4. closures \in Seq([fn : Nat, nonlocals : Seq(Value)])
  BY DEF IInv, TypeOK
<1>5. /\ closures' \in Seq([fn : Nat, nonlocals : Seq(Value)])
      /\ Len(closures') = n + 1
      /\ closures'[n + 1] = new
      /\ \A c \in 1..n : closures'[c] = closures[c]
  BY <1>1, <1>2, <1>3, <1>4
<1>6. HeapTypes' /\ HeapGrows
  BY <1>3, <1>5 DEF HeapTypes, HeapGrows, IInv, TypeOK, Elements
<1>7. ASSUME NEW x, Valid(x) PROVE Valid(x)'
  BY <1>3, <1>5, <1>7 DEF Valid
<1>8. Valid(w)'
  BY <1>3, <1>5 DEF Valid, closure_value, Plain, Uninit, is_str, is_tuple,
                    is_closure
<1>9. ASSUME NEW c \in 1..(n + 1)
      PROVE  /\ closures'[c].fn \in 1..Len(functions)
             /\ Len(closures'[c].nonlocals)
                  = Len(functions[closures'[c].fn].nonlocals)
             /\ \A i \in 1..Len(closures'[c].nonlocals) :
                  Valid(closures[c].nonlocals[i])'
  <2>1. CASE c \in 1..n
    BY <1>3, <1>5, <1>7, <2>1 DEF IInv, HeapDefined
  <2>2. CASE c = n + 1
    <3>1. closures'[c].fn = f /\ closures'[c].nonlocals = captured
      BY <1>1, <1>5, <2>2
    <3>2. ASSUME NEW i \in 1..Len(captured)
          PROVE  Valid(closures[c].nonlocals[i])'
      <4>1. Valid(captured[i])'
        BY <1>7, <1>8
      <4> QED
        BY <3>1, <4>1
    <3> QED
      BY <3>1, <3>2
  <2> QED
    BY <1>3, <2>1, <2>2
<1>10. HeapDefined'
  <2>1. \A t \in 1..Len(tuples) :
          Valid(tuples[t].first)' /\ Valid(tuples[t].second)'
    BY <1>7 DEF IInv, HeapDefined
  <2> QED
    BY <1>5, <1>9, <2>1 DEF HeapDefined
<1>11. ProgramLoaded'
  <2>1. closures # <<>> /\ closures[1].fn = 1
    BY DEF IInv, ProgramLoaded
  <2>2. 1 \in 1..n
    BY <1>3, <1>4, <2>1
  <2>3. closures' # <<>> /\ closures'[1].fn = 1
    BY <1>5, <2>1, <2>2
  <2> QED
    BY <2>3 DEF IInv, ProgramLoaded
<1>12. TuplesWellFounded'
  BY DEF IInv, TuplesWellFounded
<1> QED
  BY <1>6, <1>8, <1>10, <1>11, <1>12 DEF HeapInv

(* The function of a new closure, and what it captures.                    *)
LEMMA NewClosure ==
  ASSUME IInv, status = "running", OpAt(function, ip) = "OP_CLOSURE",
         NEW f, f = function.functions[Byte + 1]
  PROVE  /\ f \in 1..Len(functions)
         /\ functions[f] \in Function
         /\ CaptureSafe(function, Depth[functions][function][ip] + 1, functions[f])
         /\ Flows(Depth[functions][function], ip + 2,
                  Depth[functions][function][ip] + 1)
<1>1. PICK p \in Programs : /\ functions = p.functions
                            /\ Certified(p)
                            /\ SafeAt(p, function, Depth[functions][function], ip)
  BY Instruction
<1>2. Byte \in Nat
  BY ByteOperand DEF ByteOps
<1>3. /\ Byte < Len(function.functions)
      /\ CaptureSafe(function, Depth[functions][function][ip] + 1, functions[f])
      /\ Flows(Depth[functions][function], ip + 2, Depth[functions][function][ip] + 1)
  BY <1>1 DEF SafeAt, Byte
<1>4. Byte + 1 \in 1..Len(function.functions)
  BY <1>2, <1>3, Instruction DEF Function
<1>5. \E g \in 1..Len(functions) : function = functions[g]
  BY Instruction DEF IInv, HeapDefined, function
<1>6. f \in 1..Len(functions)
  BY <1>1, <1>4, <1>5 DEF Certified, CertifiedBy
<1> QED
  BY <1>3, <1>6 DEF IInv, TypeOK

(* OP_CLOSURE: every variable captured is in use, the closure's own        *)
(* included.                                                               *)
LEMMA do_closure_keeps ==
  ASSUME IInv, do_closure
  PROVE  IInv'
<1>1. status = "running" /\ OpAt(function, ip) = "OP_CLOSURE"
  BY DEF do_closure, At
<1>2. CASE OutOfMemory
  BY <1>2, FailKeeps DEF OutOfMemory, Errors
<1>3. CASE Fail("stack overflow")
  BY <1>3, FailKeeps DEF Errors
<1>4. PICK f, v, newStack :
        /\ f = function.functions[Byte + 1]
        /\ v = closure_value(Len(closures) + 1)
        /\ newStack = [stack EXCEPT ![top + 1] = v]
  OBVIOUS
<1>5. PICK child : child = functions[f]
  OBVIOUS
<1>6. PICK captured : captured = Captured(child, newStack)
  OBVIOUS
<1>7. CASE /\ ~stack_is_full
           /\ Store(top + 1, v, ip + 2)
           /\ closures' = Append(closures, [fn |-> f, nonlocals |-> captured])
           /\ UNCHANGED <<strs, tuples, out>>
  <2>1. /\ f \in 1..Len(functions) /\ child \in Function
        /\ CaptureSafe(function, Depth[functions][function][ip] + 1, child)
        /\ Flows(Depth[functions][function], ip + 2,
                 Depth[functions][function][ip] + 1)
    BY <1>1, <1>4, <1>5, NewClosure
  <2>2. PICK h \in Nat : h = Depth[functions][function][ip] /\ h <= top - slots
    BY <1>1, Registers
  <2>3. /\ top \in Nat /\ slots \in Nat /\ top + 1 < StackSize
        /\ ip + 2 \in Nat /\ top + 1 \in Nat /\ top + 1 <= top + 1
    <3>1. /\ top \in Nat /\ slots \in Nat /\ ip \in Nat /\ StackSize \in Nat
          /\ top < StackSize
      BY <1>1, Registers
    <3>2. top # StackSize - 1
      BY <1>7 DEF stack_is_full
    <3> QED
      BY <3>1, <3>2
  <2>4. v \in Value
    BY <1>4 DEF closure_value, Plain, Value, Type, FLAG_NONE, IInv, TypeOK
  <2>5. ASSUME NEW i \in 1..Len(child.nonlocals)
         PROVE  captured[i] \in Value /\ (captured[i] = v \/ Valid(captured[i]))
    <3>1. PICK m \in Nat : m <= top + 1 - slots /\ CaptureSafe(function, m, child)
      <4>1. h + 1 \in Nat /\ h + 1 <= top + 1 - slots
        BY <2>2, <2>3
      <4>2. CaptureSafe(function, h + 1, child)
        BY <2>1, <2>2
      <4> QED
        BY <4>1, <4>2
    <3>2. PICK x : x = Captured(child, newStack)[i]
      OBVIOUS
    <3>3. x \in Value /\ (x = v \/ Valid(x))
      <4>1. status = "running" /\ top + 1 < StackSize
        BY <1>1, <2>3
      <4>2. newStack = Pushed(v)
        BY <1>4 DEF Pushed
      <4> QED
        BY <2>1, <2>4, <2>5, <3>1, <3>2, <4>1, <4>2, CapturedValue
    <3> QED
      BY <1>6, <3>2, <3>3
  <2>6. captured \in Seq(Value) /\ Len(captured) = Len(child.nonlocals)
    <3>1. PICK n \in Nat : n = Len(child.nonlocals)
      BY <2>1 DEF Function
    <3>2. DOMAIN captured = 1..n
          /\ captured = [i \in 1..n |-> captured[i]]
      BY <1>6, <3>1 DEF Captured
    <3>3. \A i \in 1..n : captured[i] \in Value
      BY <2>5, <3>1
    <3> HIDE <1>6
    <3>4. captured \in [1..n -> Value]
      BY <3>2, <3>3
    <3>5. captured \in Seq(Value) /\ Len(captured) = n
      BY <3>4
    <3> QED
      BY <3>1, <3>5
  <2>7. HeapInv' /\ HeapGrows /\ Valid(v)'
    <3>1. UNCHANGED <<functions, strs, tuples>>
      BY <1>7 DEF Store
    <3> QED
      BY <1>4, <1>5, <1>7, <2>1, <2>5, <2>6, <3>1, AllocateClosure
  <2>8. CanRun(cl, ip + 2, top + 1 - slots)
    <3>1. h + 1 \in Int /\ top + 1 - slots \in Int /\ h + 1 <= top + 1 - slots
      BY <2>2, <2>3
    <3> QED
      BY <1>1, <2>1, <2>2, <3>1, GoesOn
  <2> QED
    BY <1>1, <1>7, <2>3, <2>4, <2>7, <2>8, StoreKeeps
<1> QED
  BY <1>2, <1>3, <1>4, <1>5, <1>6, <1>7 DEF do_closure

-----------------------------------------------------------------------------
(* Calls.                                                                  *)

(* A closure can run from its first instruction over its arguments.        *)
LEMMA Enters ==
  ASSUME IInv, NEW c \in 1..Len(closures)
  PROVE  CanRun(c, 0, functions[closures[c].fn].arity)
<1>1. PICK p \in Programs : functions = p.functions /\ Certified(p)
  BY ProgramFacts
<1>2. closures[c].fn \in 1..Len(functions)
  BY DEF IInv, HeapDefined
<1>3. Flows(Depth[functions][functions[closures[c].fn]], 0, functions[closures[c].fn].arity)
  BY <1>1, <1>2 DEF Certified, CertifiedBy
<1> QED
  BY <1>3 DEF CanRun

(* The callee is a value of the frame, above its cell 0.                   *)
LEMMA CalleeInFrame ==
  ASSUME IInv, status = "running",
         OpAt(function, ip) \in {"OP_CALL", "OP_TAIL_CALL"}
  PROVE  /\ Byte \in Nat /\ Byte < Depth[functions][function][ip]
         /\ top - Byte \in Nat /\ slots < top - Byte /\ top - Byte <= top
         /\ Callee \in Value /\ Valid(Callee)
<1>1. PICK p \in Programs : SafeAt(p, function, Depth[functions][function], ip)
  BY Instruction
<1>2. Byte < Depth[functions][function][ip]
  BY <1>1 DEF SafeAt, Byte
<1>3. Byte \in Nat
  BY ByteOperand DEF ByteOps
<1>4. /\ top - Byte \in Nat /\ slots < top - Byte /\ top - Byte <= top
      /\ top - Byte \in 0..top
  BY <1>2, <1>3, Registers
<1> QED
  BY <1>2, <1>3, <1>4, CellInUse DEF Callee

(* A callee that cannot be called is an error.                             *)
LEMMA CalleeErrorKeeps ==
  ASSUME IInv, CalleeError
  PROVE  IInv'
BY FailKeeps DEF CalleeError, Errors

(* When only frames and registers change, the invariant is that of them.   *)
LEMMA CallKeeps ==
  ASSUME IInv, status = "running", UNCHANGED <<functions, heap, status, result, out>>,
         stack' \in [0..(StackSize - 1) -> Value],
         top' \in Nat, top' < StackSize,
         frames' \in Seq([cl : Nat, ip : Nat, slots : Nat]),
         Len(frames') <= CallstackSize,
         cl' \in Nat, ip' \in Nat, slots' \in Nat,
         \A i \in 0..top' : Valid(stack'[i]),
         FramesNest'
  PROVE  IInv'
<1>1. HeapInv' /\ HeapGrows
  BY HeapSame
<1>2. TypeOK'
  BY <1>1, SizeAssumption DEF IInv, TypeOK, HeapInv, HeapTypes
<1>3. StackDefined'
  <2>1. SUFFICES ASSUME NEW i \in 0..top' PROVE Valid(stack[i])'
    BY DEF StackDefined
  <2>2. Valid(stack'[i])
    OBVIOUS
  <2>3. strs' = strs /\ tuples' = tuples /\ closures' = closures
    BY DEF heap
  <2>4. PICK v : v = stack'[i]
    OBVIOUS
  <2>5. Valid(v)'
    BY <2>2, <2>3, <2>4 DEF Valid
  <2> QED
    BY <2>4, <2>5
<1>4. OutputDefined'
  <2>1. out' = out
    OBVIOUS
  <2>2. out \in Seq(Value) /\ OutputDefined
    BY DEF IInv, TypeOK
  <2>3. SUFFICES ASSUME NEW i \in 1..Len(out) PROVE Valid(out[i])'
    BY <2>1 DEF OutputDefined
  <2>4. PICK v : v = out[i]
    OBVIOUS
  <2>5. v \in Value
    BY <2>2, <2>4, ElementTyped
  <2>6. Valid(v)
    BY <2>2, <2>4 DEF OutputDefined
  <2>7. Valid(v)'
    BY <1>1, <2>5, <2>6, ValidStays DEF HeapInv
  <2>8. v = out'[i]
    BY <2>1, <2>4
  <2> QED
    BY <2>7, <2>8
<1>5. NotStarted'
  BY DEF NotStarted
<1> QED
  BY <1>1, <1>2, <1>3, <1>4, <1>5 DEF IInv, HeapInv

(* OP_CALL: the caller can resume, the callee can start.                   *)
LEMMA do_call_keeps ==
  ASSUME IInv, do_call
  PROVE  IInv'
<1>1. status = "running" /\ OpAt(function, ip) = "OP_CALL"
  BY DEF do_call, At
<1>2. CASE CalleeError
  BY <1>2, CalleeErrorKeeps
<1>3. CASE Fail("too many nested calls")
  BY <1>3, FailKeeps DEF Errors
<1>4. CASE /\ Callable /\ ~callstack_is_full
           /\ frames' = Append(frames,
                              [cl |-> cl, ip |-> ip + 2, slots |-> slots])
           /\ cl' = Callee.val
           /\ ip' = 0
           /\ slots' = top - Byte
           /\ UNCHANGED <<functions, stack, top, heap, status, result, out>>
  <2>1. /\ Byte \in Nat /\ Byte < Depth[functions][function][ip]
        /\ top - Byte \in Nat /\ slots < top - Byte /\ top - Byte <= top
        /\ Callee \in Value /\ Valid(Callee)
    BY <1>1, CalleeInFrame
  <2>2. /\ Callee.val \in 1..Len(closures)
        /\ functions[closures[Callee.val].fn].arity = Byte
    BY <1>4, <2>1 DEF Callable, Valid
  <2>3. /\ top \in Nat /\ slots \in Nat /\ ip \in Nat /\ top < StackSize
        /\ Depth[functions][function][ip] \in Nat
        /\ Depth[functions][function][ip] <= top - slots
    BY <1>1, Registers
  <2>4. cl \in 1..Len(closures)
    BY <1>1, Instruction
  <2>5. /\ frames \in Seq([cl : Nat, ip : Nat, slots : Nat])
        /\ Len(frames) <= CallstackSize /\ CallstackSize \in Nat
    BY SizeAssumption DEF IInv, TypeOK
  <2>6. PICK n \in Nat : n = Len(frames)
    BY <2>5
  <2>7. PICK frame : frame = [cl |-> cl, ip |-> ip + 2, slots |-> slots]
    OBVIOUS
  <2>8. frame \in [cl : Nat, ip : Nat, slots : Nat]
    BY <2>3, <2>7 DEF IInv, TypeOK
  <2>9. /\ frames' \in Seq([cl : Nat, ip : Nat, slots : Nat])
        /\ Len(frames') = n + 1
        /\ frames'[n + 1] = frame
        /\ \A k \in 1..n : frames'[k] = frames[k]
    BY <1>4, <2>5, <2>6, <2>7, <2>8
  <2>10. Len(frames') <= CallstackSize
    BY <1>4, <2>5, <2>6, <2>9 DEF callstack_is_full
  <2>11. HeapInv' /\ HeapGrows
    BY <1>4, HeapSame
  <2>12. CanRun(cl, ip, top - slots)'
    <3>1. CanRun(Callee.val, 0, Byte)
      BY <2>2, Enters
    <3>2. PICK c, m : c = Callee.val /\ m = Byte
      OBVIOUS
    <3>3. CanRun(c, 0, m)'
      BY <2>11, <3>1, <3>2, CanRunStays
    <3>4. cl' = c /\ ip' = 0 /\ top' - slots' = m
      BY <1>4, <2>1, <2>3, <3>2
    <3> QED
      BY <3>3, <3>4
  <2>13. ASSUME NEW k \in 1..(n + 1) PROVE CanResume(k)'
    <3>1. CASE k = n + 1
      <4>1. PICK m : m = top - Byte - slots
        OBVIOUS
      <4>2. Flows(Depth[functions][function], ip + 2, Depth[functions][function][ip] - Byte)
        <5>1. PICK p \in Programs : SafeAt(p, function, Depth[functions][function], ip)
          BY <1>1, Instruction
        <5> QED
          BY <1>1, <5>1 DEF SafeAt, Byte
      <4>3. /\ Depth[functions][function][ip] - Byte \in Int /\ m \in Int
            /\ Depth[functions][function][ip] - Byte <= m
        BY <2>1, <2>3, <4>1
      <4>4. CanRun(frame.cl, frame.ip, m)
        BY <1>1, <2>7, <4>2, <4>3, GoesOn
      <4>5. CanRun(frame.cl, frame.ip, m)'
        BY <2>11, <4>4, CanRunStays
      <4>6. Base(k)' = top - Byte
        BY <1>4, <2>6, <2>9, <3>1 DEF Base
      <4>7. /\ Base(k)' - frames'[k].slots = m
            /\ frames'[k].slots < Base(k)'
        BY <2>1, <2>7, <2>9, <3>1, <4>1, <4>6
      <4> QED
        BY <2>9, <3>1, <4>5, <4>7 DEF CanResume
    <3>2. CASE k \in 1..n
      <4>1. frames'[k] = frames[k]
        BY <2>9, <3>2
      <4>2. Base(k)' = Base(k)
        <5>1. CASE k < n
          <6>1. k + 1 \in 1..n /\ k < n + 1
            BY <2>6, <3>2, <5>1
          <6>2. frames'[k + 1] = frames[k + 1]
            BY <2>9, <6>1
          <6>3. Base(k) = frames[k + 1].slots
            BY <2>6, <5>1 DEF Base
          <6>4. Base(k)' = frames'[k + 1].slots
            BY <2>9, <6>1 DEF Base
          <6> QED
            BY <6>2, <6>3, <6>4
        <5>2. CASE k = n
          BY <2>6, <2>7, <2>9, <5>2 DEF Base
        <5> QED
          BY <2>6, <3>2, <5>1, <5>2
      <4> QED
        BY <1>1, <2>6, <2>11, <3>2, <4>1, <4>2, CanResumeStays
    <3> QED
      BY <2>6, <3>1, <3>2
  <2>14. FramesNest'
    BY <2>9, <2>12, <2>13 DEF FramesNest
  <2>15. \A i \in 0..top' : Valid(stack'[i])
    BY <1>4 DEF IInv, StackDefined
  <2>16. /\ stack' \in [0..(StackSize - 1) -> Value]
         /\ cl' \in Nat /\ ip' \in Nat /\ slots' \in Nat
         /\ top' \in Nat /\ top' < StackSize
    <3>1. Callee.val \in Nat
      BY <2>2 DEF IInv, TypeOK
    <3>2. stack' = stack /\ top' = top
      BY <1>4
    <3> QED
      BY <1>4, <2>1, <2>3, <3>1, <3>2 DEF IInv, TypeOK
  <2> QED
    BY <1>1, <1>4, <2>9, <2>10, <2>14, <2>15, <2>16, CallKeeps
<1> QED
  BY <1>2, <1>3, <1>4 DEF do_call

(* Cells outside the stack read as fresh memory.                           *)
LEMMA CellTyped ==
  ASSUME IInv, NEW i
  PROVE  cell(i) \in Value
<1>1. Uninit \in Value
  BY DEF Uninit, Plain, Value, Type, FLAG_NONE
<1> QED
  BY <1>1 DEF cell, IInv, TypeOK

(* OP_TAIL_CALL: the cells moved down are the callee and its arguments.    *)
LEMMA do_tail_call_keeps ==
  ASSUME IInv, do_tail_call
  PROVE  IInv'
<1>1. status = "running" /\ OpAt(function, ip) = "OP_TAIL_CALL"
  BY DEF do_tail_call, At
<1>2. CASE CalleeError
  BY <1>2, CalleeErrorKeeps
<1>3. CASE /\ Callable
           /\ stack' = [i \in DOMAIN stack |->
                          IF i \in slots..(slots + Byte)
                          THEN cell(top - Byte + (i - slots)) ELSE stack[i]]
           /\ top' = slots + Byte
           /\ cl' = Callee.val
           /\ ip' = 0
           /\ UNCHANGED <<functions, frames, slots, heap, status, result, out>>
  <2>1. /\ Byte \in Nat /\ Byte < Depth[functions][function][ip]
        /\ top - Byte \in Nat /\ slots < top - Byte /\ top - Byte <= top
        /\ Callee \in Value /\ Valid(Callee)
    BY <1>1, CalleeInFrame
  <2>2. /\ Callee.val \in 1..Len(closures)
        /\ functions[closures[Callee.val].fn].arity = Byte
    BY <1>3, <2>1 DEF Callable, Valid
  <2>3. /\ top \in Nat /\ slots \in Nat /\ top < StackSize /\ StackSize \in Nat
        /\ stack \in [0..(StackSize - 1) -> Value]
    BY <1>1, Registers DEF IInv, TypeOK
  <2>4. stack' \in [0..(StackSize - 1) -> Value]
    <3>1. \A i : cell(i) \in Value
      BY CellTyped
    <3> QED
      BY <1>3, <2>3, <3>1
  <2>5. ASSUME NEW i \in 0..top' PROVE Valid(stack'[i])
    <3>1. i \in 0..(slots + Byte) /\ i \in 0..top /\ i \in 0..(StackSize - 1)
      BY <1>3, <2>1, <2>3
    <3>2. CASE i \in slots..(slots + Byte)
      <4>1. PICK j : j = top - Byte + (i - slots)
        OBVIOUS
      <4>2. j \in 0..top
        BY <2>1, <2>3, <3>2, <4>1
      <4>3. stack'[i] = cell(j)
        BY <1>3, <2>3, <3>1, <3>2, <4>1
      <4> QED
        BY <4>2, <4>3, CellInUse
    <3>3. CASE i \notin slots..(slots + Byte)
      <4>1. stack'[i] = stack[i]
        BY <1>3, <2>3, <3>1, <3>3
      <4> QED
        BY <3>1, <4>1 DEF IInv, StackDefined
    <3> QED
      BY <3>2, <3>3
  <2>6. HeapInv' /\ HeapGrows
    BY <1>3, HeapSame
  <2>7. FramesNest'
    <3>1. CanRun(cl, ip, top - slots)'
      <4>1. CanRun(Callee.val, 0, Byte)
        BY <2>2, Enters
      <4>2. PICK c, m : c = Callee.val /\ m = Byte
        OBVIOUS
      <4>3. CanRun(c, 0, m)'
        BY <2>6, <4>1, <4>2, CanRunStays
      <4>4. cl' = c /\ ip' = 0 /\ top' - slots' = m
        BY <1>3, <2>1, <2>3, <4>2
      <4> QED
        BY <4>3, <4>4
    <3>2. frames' = frames /\ slots' = slots
      BY <1>3
    <3>3. ASSUME NEW k \in 1..Len(frames) PROVE CanResume(k)'
      <4>1. frames'[k] = frames[k] /\ Base(k)' = Base(k)
        BY <3>2 DEF Base
      <4> QED
        BY <1>1, <2>6, <4>1, CanResumeStays
    <3> QED
      BY <3>1, <3>2, <3>3 DEF FramesNest
  <2>8. /\ cl' \in Nat /\ ip' \in Nat /\ slots' \in Nat
        /\ top' \in Nat /\ top' < StackSize
    <3>1. Callee.val \in Nat
      BY SMTT(40), <2>2 DEF IInv, TypeOK
    <3> QED
      BY <1>3, <2>1, <2>3, <3>1
  <2>9. /\ frames' \in Seq([cl : Nat, ip : Nat, slots : Nat])
        /\ Len(frames') <= CallstackSize
    <3>1. frames' = frames
      BY <1>3
    <3> QED
      BY <3>1 DEF IInv, TypeOK
  <2> QED
    BY <1>1, <1>3, <2>4, <2>5, <2>7, <2>8, <2>9, CallKeeps
<1> QED
  BY <1>2, <1>3 DEF do_tail_call

(* A running function has a result to return.                              *)
LEMMA do_return_keeps ==
  ASSUME IInv, do_return
  PROVE  IInv'
<1>1. status = "running"
  BY DEF do_return, At
<1>2. CASE /\ frames = <<>>
           /\ status' = "halted"
           /\ UNCHANGED <<functions, stack, top, frames, cl, ip, slots, heap,
                          result, out>>
  BY <1>2, StopKeeps DEF IInv, TypeOK
<1>3. CASE /\ frames # <<>>
           /\ cl' = frames[Len(frames)].cl
           /\ ip' = frames[Len(frames)].ip
           /\ slots' = frames[Len(frames)].slots
           /\ frames' = SubSeq(frames, 1, Len(frames) - 1)
           /\ stack' = [stack EXCEPT ![slots] = peek(0)]
           /\ top' = slots
           /\ UNCHANGED <<functions, heap, status, result, out>>
  <2>1. /\ frames \in Seq([cl : Nat, ip : Nat, slots : Nat])
        /\ Len(frames) <= CallstackSize /\ CallstackSize \in Nat
    BY SizeAssumption DEF IInv, TypeOK
  <2>2. PICK n \in Nat : n + 1 = Len(frames)
    <3>1. Len(frames) \in Nat /\ Len(frames) # 0
      BY <1>3, <2>1
    <3>2. Len(frames) - 1 \in Nat /\ (Len(frames) - 1) + 1 = Len(frames)
      BY <3>1
    <3> QED
      BY <3>2
  <2>3. /\ frames' \in Seq([cl : Nat, ip : Nat, slots : Nat])
        /\ Len(frames') = n
        /\ \A k \in 1..n : frames'[k] = frames[k]
    <3>1. PICK S : S = [cl : Nat, ip : Nat, slots : Nat]
      OBVIOUS
    <3>2. ASSUME NEW k \in 1..n PROVE frames[k] \in S
      <4>1. k \in 1..Len(frames)
        BY <2>2
      <4> QED
        BY <2>1, <3>1, <4>1, ElementTyped
    <3>3. frames' = SubSeq(frames, 1, n)
      <4>1. Len(frames) - 1 = n
        BY <2>2
      <4> QED
        BY <1>3, <4>1
    <3> QED
      BY <3>1, <3>2, <3>3, SubSeqProperties
  <2>4. PICK frame : frame = frames[n + 1]
    OBVIOUS
  <2>5. frame \in [cl : Nat, ip : Nat, slots : Nat]
    <3>1. n + 1 \in 1..Len(frames)
      BY <2>2
    <3> QED
      BY <2>1, <2>4, <3>1, ElementTyped
  <2>6. /\ cl' = frame.cl /\ ip' = frame.ip /\ slots' = frame.slots
        /\ cl' \in Nat /\ ip' \in Nat /\ slots' \in Nat
    BY <1>3, <2>2, <2>4, <2>5
  <2>7. /\ top \in Nat /\ slots \in Nat /\ slots <= top /\ top < StackSize
        /\ StackSize \in Nat
        /\ stack \in [0..(StackSize - 1) -> Value]
    BY <1>1, Registers DEF IInv, TypeOK
  <2>8. peek(0) \in Value /\ Valid(peek(0))
    <3>1. top - 0 \in 0..top
      BY <2>7
    <3> QED
      BY <3>1, CellInUse DEF peek
  <2>9. stack' \in [0..(StackSize - 1) -> Value]
    BY <1>3, <2>7, <2>8
  <2>10. ASSUME NEW i \in 0..top' PROVE Valid(stack'[i])
    <3>1. i \in 0..top /\ i \in 0..(StackSize - 1)
      BY <1>3, <2>7
    <3>2. CASE i = slots
      BY <1>3, <2>7, <2>8, <3>1, <3>2
    <3>3. CASE i # slots
      BY <1>3, <2>7, <3>1, <3>3 DEF IInv, StackDefined
    <3> QED
      BY <3>2, <3>3
  <2>11. HeapInv' /\ HeapGrows
    BY <1>3, HeapSame
  <2>12. CanRun(cl, ip, top - slots)'
    <3>1. PICK m : m = slots - frame.slots
      OBVIOUS
    <3>2. Base(n + 1) = slots
      BY <2>2 DEF Base
    <3>3. n + 1 \in 1..Len(frames)
      BY <2>2
    <3>4. CanRun(frame.cl, frame.ip, m)
      BY <1>1, <2>4, <3>1, <3>2, <3>3 DEF IInv, FramesNest, CanResume
    <3>5. CanRun(frame.cl, frame.ip, m)'
      BY <2>11, <3>4, CanRunStays
    <3>6. top' - slots' = m
      BY <1>3, <2>6, <3>1
    <3> QED
      BY <2>6, <3>5, <3>6
  <2>13. ASSUME NEW k \in 1..n PROVE CanResume(k)'
    <3>1. k \in 1..Len(frames) /\ k < Len(frames)
      BY <2>2
    <3>2. Base(k) = frames[k + 1].slots
      BY <3>1 DEF Base
    <3>3. Base(k)' = frames[k + 1].slots
      <4>1. CASE k < n
        <5>1. k + 1 \in 1..n
          BY <2>2, <4>1
        <5>2. Base(k)' = frames'[k + 1].slots
          BY <2>3, <4>1 DEF Base
        <5> QED
          BY <2>3, <5>1, <5>2
      <4>2. CASE k = n
        BY <2>2, <2>3, <2>4, <2>6, <4>2 DEF Base
      <4> QED
        BY <2>2, <4>1, <4>2
    <3>4. frames'[k] = frames[k] /\ Base(k)' = Base(k)
      BY <2>3, <3>2, <3>3
    <3> QED
      BY <1>1, <2>11, <3>1, <3>4, CanResumeStays
  <2>14. FramesNest'
    BY <2>3, <2>12, <2>13 DEF FramesNest
  <2>15. top' \in Nat /\ top' < StackSize /\ Len(frames') <= CallstackSize
    <3>1. top' = slots
      BY <1>3
    <3>2. slots \in Nat /\ slots < StackSize
      BY <2>7
    <3>3. n + 1 <= CallstackSize /\ CallstackSize \in Nat
      BY <2>1, <2>2
    <3>4. n <= CallstackSize
      BY <3>3
    <3> QED
      BY <2>3, <3>1, <3>2, <3>4
  <2> QED
    BY <1>1, <1>3, <2>3, <2>6, <2>9, <2>10, <2>14, <2>15, CallKeeps
<1> QED
  BY <1>2, <1>3 DEF do_return

-----------------------------------------------------------------------------
(* The theorems.                                                           *)

(* The loader hands vm_init a certified program and empty memory.          *)
LEMMA InitInv ==
  ASSUME Init
  PROVE  IInv
<1>1. PICK p \in Programs : functions = p.functions /\ strs = p.strs
  BY DEF Init, Fresh
<1>2. Certified(p)
  BY <1>1, CertificateAssumption
<1>3. /\ functions \in Seq(Function) /\ functions # <<>>
      /\ functions[1].nonlocals = <<>>
      /\ strs \in Seq(Seq(Nat))
  BY <1>1, <1>2 DEF Certified, CertifiedBy
<1>4. PICK first : first = [fn |-> 1, nonlocals |-> <<>>]
  OBVIOUS
<1>5. /\ closures = <<first>> /\ tuples = <<>> /\ frames = <<>> /\ out = <<>>
      /\ top = -1 /\ cl = 1 /\ ip = 0 /\ slots = 0
      /\ status = "idle" /\ result = "ok"
      /\ stack = [i \in 0..(StackSize - 1) |-> Uninit]
  BY <1>4 DEF Init, Fresh
<1>6. first \in [fn : Nat, nonlocals : Seq(Value)]
  BY <1>4
<1>7. strs \in Seq(Elements(strs))
  <2>1. PICK n \in Nat : n = Len(strs)
    BY <1>3
  <2>2. DOMAIN strs = 1..n
    BY <1>3, <2>1
  <2>3. \A i \in 1..n : strs[i] \in Elements(strs)
    BY <2>2 DEF Elements
  <2>4. strs \in Seq(Seq(Nat))
    BY <1>3
  <2>5. strs \in [1..n -> Elements(strs)]
    <3>1. strs = [i \in 1..n |-> strs[i]]
      BY <2>1, <2>4
    <3> QED
      BY <2>3, <3>1
  <2> QED
    BY <2>1, <2>5
<1>8. Uninit \in Value
  BY DEF Uninit, Plain, Value, Type, FLAG_NONE
<1>9. stack \in [0..(StackSize - 1) -> Value]
  BY <1>5, <1>8
<1>10. TypeOK
  <2>1. closures \in Seq([fn : Nat, nonlocals : Seq(Value)])
    BY <1>5, <1>6
  <2>2. /\ tuples \in Seq([first : Value, second : Value])
        /\ frames \in Seq([cl : Nat, ip : Nat, slots : Nat])
        /\ out \in Seq(Value)
        /\ Len(frames) <= CallstackSize
    BY <1>5, SizeAssumption
  <2>3. /\ top \in -1..(StackSize - 1)
        /\ cl \in Nat /\ ip \in Nat /\ slots \in Nat
    BY <1>5, SizeAssumption
  <2> QED
    BY <1>3, <1>5, <1>7, <1>9, <2>1, <2>2, <2>3 DEF TypeOK
<1>11. ProgramLoaded
  <2>1. closures # <<>> /\ closures[1].fn = 1
    BY <1>4, <1>5
  <2>2. Len(strs) \in Nat
    BY <1>3
  <2> QED
    BY <1>1, <2>1, <2>2 DEF ProgramLoaded
<1>12. HeapDefined
  <2>1. 1 \in 1..Len(functions)
    BY <1>3
  <2>2. \A c \in 1..Len(closures) : c = 1 /\ closures[c] = first
    BY <1>5
  <2>3. /\ first.fn = 1 /\ first.nonlocals = <<>>
        /\ Len(first.nonlocals) = Len(functions[first.fn].nonlocals)
    BY <1>3, <1>4
  <2> QED
    BY <1>5, <2>1, <2>2, <2>3 DEF HeapDefined
<1>13. NotStarted /\ StackDefined /\ TuplesWellFounded /\ OutputDefined
       /\ FramesNest
  BY <1>5 DEF NotStarted, StackDefined, TuplesWellFounded, OutputDefined,
              FramesNest
<1> QED
  BY <1>10, <1>11, <1>12, <1>13 DEF IInv

(* Every instruction preserves the invariant.                              *)
LEMMA NextInv ==
  ASSUME IInv, [Next]_vars
  PROVE  IInv'
<1>1. CASE vm_init
  BY <1>1, vm_init_keeps
<1>2. CASE vm_run
  BY <1>2, vm_run_keeps
<1>3. CASE do_nop \/ do_false \/ do_true \/ do_int \/ do_constant \/ do_tuple
           \/ do_closure \/ do_local \/ do_nonlocal
  BY <1>3, do_nop_keeps, do_false_keeps, do_true_keeps, do_int_keeps,
     do_constant_keeps, do_tuple_keeps, do_closure_keeps, do_local_keeps,
     do_nonlocal_keeps
<1>4. CASE do_add \/ do_sub \/ do_mul \/ do_div \/ do_rem
  BY <1>4, do_add_keeps, do_sub_keeps, do_mul_keeps, do_div_keeps, do_rem_keeps
<1>5. CASE do_eq \/ do_neq \/ do_lt \/ do_gt \/ do_lte \/ do_gte
           \/ do_and \/ do_or
  BY <1>5, logical_keeps, comparison_keeps
<1>6. CASE do_jump \/ do_jump_if_false \/ do_first \/ do_second \/ do_print
  BY <1>6, do_jump_keeps, do_jump_if_false_keeps, component_keeps,
     do_print_keeps
<1>7. CASE do_call \/ do_tail_call \/ do_return
  BY <1>7, do_call_keeps, do_tail_call_keeps, do_return_keeps
<1>8. CASE UNCHANGED vars
  <2>1. /\ UNCHANGED <<functions, stack, top, frames, cl, ip, slots, strs>>
        /\ UNCHANGED <<tuples, closures, status, result, out>>
    BY <1>8 DEF vars
  <2>2. TypeOK' /\ ProgramLoaded' /\ NotStarted' /\ TuplesWellFounded'
    BY <2>1 DEF IInv, TypeOK, Elements, ProgramLoaded, NotStarted,
                TuplesWellFounded
  <2>3. StackDefined' /\ HeapDefined' /\ OutputDefined'
    BY <2>1 DEF IInv, StackDefined, HeapDefined, OutputDefined, Valid
  <2>4. FramesNest'
    BY <2>1 DEF IInv, FramesNest, CanResume, CanRun, Base
  <2> QED
    BY <2>2, <2>3, <2>4 DEF IInv
<1> QED
  BY <1>1, <1>2, <1>3, <1>4, <1>5, <1>6, <1>7, <1>8 DEF Next, Ended

(* The machine keeps its invariant, whatever certified program it runs:    *)
(* the checks vm.c does are all it needs.                                  *)
THEOREM VMInvariant == Spec => []IInv
<1>1. Init => IInv
  BY InitInv
<1>2. IInv /\ [Next]_vars => IInv'
  BY NextInv
<1> QED
  BY <1>1, <1>2, PTL DEF Spec

(* The state stays well typed: top within the stack, the call stack within *)
(* its capacity, the result "ok" or an error of vm.c.                      *)
THEOREM VMTypes == Spec => []TypeOK
<1>1. IInv => TypeOK
  BY DEF IInv
<1> QED
  BY <1>1, VMInvariant, PTL

(* No instruction ever reads a cell nobody wrote: vm_init leaves the stack *)
(* uninitialised and stack_peek, stack_pop and slots[index] check nothing, *)
(* but every cell up to top holds a computed value.                        *)
THEOREM VMStackDefined == Spec => []StackDefined
<1>1. IInv => StackDefined
  BY DEF IInv
<1> QED
  BY <1>1, VMInvariant, PTL

(* No object refers to one that does not exist: each closure has captured  *)
(* as many values as its function declares (closure_new allocates them     *)
(* uninitialised, do_closure fills them in).                               *)
THEOREM VMHeapDefined == Spec => []HeapDefined
<1>1. IInv => HeapDefined
  BY DEF IInv
<1> QED
  BY <1>1, VMInvariant, PTL

(* Tuples are never cyclic, so that comparing or printing one ends.        *)
THEOREM VMTuplesWellFounded == Spec => []TuplesWellFounded
<1>1. IInv => TuplesWellFounded
  BY DEF IInv
<1> QED
  BY <1>1, VMInvariant, PTL

(* Calls, tail calls and returns nest: who runs, and who waits, finds the  *)
(* cells its instructions expect.                                          *)
THEOREM VMFramesNest == Spec => []FramesNest
<1>1. IInv => FramesNest
  BY DEF IInv
<1> QED
  BY <1>1, VMInvariant, PTL

(* What the invariant says of ip, and of the addresses to return to.       *)
LEMMA Listed ==
  ASSUME IInv
  PROVE  RunsListedInstructions
<1>1. ASSUME NEW c, NEW a, NEW n, CanRun(c, a, n)
      PROVE  a \in dump_function(functions[closures[c].fn])
  <2>1. PICK p \in Programs : functions = p.functions /\ Certified(p)
    BY ProgramFacts
  <2>2. closures[c].fn \in 1..Len(functions)
    BY <1>1 DEF IInv, HeapDefined, CanRun
  <2>3. DOMAIN Depth[functions][functions[closures[c].fn]]
          \subseteq dump_function(functions[closures[c].fn])
    BY <2>1, <2>2 DEF Certified, CertifiedBy
  <2> QED
    BY <1>1, <2>3 DEF CanRun, Flows
<1>2. SUFFICES ASSUME status = "running" PROVE RunsListedInstructions
  BY DEF RunsListedInstructions
<1>3. ip \in dump_function(function)
  BY <1>1, <1>2 DEF IInv, FramesNest, function
<1>4. ASSUME NEW k \in 1..Len(frames)
      PROVE  frames[k].ip \in dump_function(functions[closures[frames[k].cl].fn])
  BY <1>1, <1>2 DEF IInv, FramesNest, CanResume
<1> QED
  BY <1>3, <1>4 DEF RunsListedInstructions

(* The machine only executes bytes that dump_function shows as             *)
(* instructions.                                                           *)
THEOREM VMRunsListedInstructions == Spec => []RunsListedInstructions
<1>1. IInv => RunsListedInstructions
  BY Listed
<1> QED
  BY <1>1, VMInvariant, PTL

-----------------------------------------------------------------------------
(* What a step may not do.                                                 *)

CallerCellsStay == \A i \in 0..(StackSize - 1) : i < slots => stack'[i] = stack[i]

(* A step that writes no cell below cell 0 of the running frame.           *)
LEMMA StoreAbove ==
  ASSUME IInv, NEW k \in Int, slots <= k, NEW v, NEW next, Store(k, v, next)
  PROVE  CallerCellsStay
<1>1. /\ stack \in [0..(StackSize - 1) -> Value]
      /\ slots \in Nat /\ StackSize \in Nat
  BY SizeAssumption DEF IInv, TypeOK
<1> QED
  BY <1>1 DEF CallerCellsStay, Store

(* A push writes no cell of a caller.                                      *)
LEMMA PushAbove ==
  ASSUME IInv, status = "running", NEW v, NEW next, push(v, next)
  PROVE  CallerCellsStay
<1>1. top + 1 \in Int /\ slots <= top + 1
  BY Registers
<1> QED
  BY <1>1, StoreAbove DEF push, Fail, CallerCellsStay

(* Neither does an operation on two operands of the frame.                 *)
LEMMA ReduceAbove ==
  ASSUME IInv, status = "running", OpAt(function, ip) \in Binary, NEW v, Reduce(v)
  PROVE  CallerCellsStay
<1>1. top - 1 \in Int /\ slots <= top - 1
  <2>1. top - 1 \in Nat /\ slots < top - 1 /\ slots \in Nat
    BY Operands, Registers
  <2> QED
    BY <2>1
<1> QED
  BY <1>1, StoreAbove DEF Reduce

(* No step writes below cell 0 of the running frame.                       *)
LEMMA CallersStay ==
  ASSUME IInv, Next
  PROVE  CallerCellsStay
<1>1. CASE stack' = stack
  BY <1>1 DEF CallerCellsStay
<1>2. CASE vm_init
  BY <1>1, <1>2 DEF vm_init, OutOfMemory, Fail
<1>3. CASE vm_run
  <2>1. slots = 0
    BY <1>3 DEF vm_run, IInv, NotStarted
  <2> QED
    BY <2>1 DEF CallerCellsStay
<1>4. CASE do_false \/ do_true \/ do_int \/ do_constant \/ do_local
           \/ do_nonlocal
  BY <1>4, PushAbove DEF do_false, do_true, do_int, do_constant,
     do_local, do_nonlocal, At
<1>5. CASE do_closure
  <2>1. CASE OutOfMemory \/ Fail("stack overflow")
    BY <1>1, <2>1 DEF OutOfMemory, Fail
  <2>2. CASE \E v : Store(top + 1, v, ip + 2)
    <3>1. status = "running"
      BY <1>5 DEF do_closure, At
    <3>2. top + 1 \in Int /\ slots <= top + 1
      BY <3>1, Registers
    <3> QED
      BY <2>2, <3>2, StoreAbove
  <2> QED
    BY <1>5, <2>1, <2>2 DEF do_closure
<1>6. CASE do_tuple
  BY <1>1, <1>6, ReduceAbove DEF do_tuple, At, Binary, OutOfMemory, Fail
<1>7. CASE do_add
  BY <1>1, <1>7, ReduceAbove DEF do_add, At, Binary, OutOfMemory, Fail
<1>8. CASE do_sub \/ do_mul
  BY <1>1, <1>8, ReduceAbove DEF do_sub, do_mul, Arithmetic, At, Binary,
     Fail
<1>9. CASE do_div \/ do_rem
  BY <1>1, <1>9, ReduceAbove DEF do_div, do_rem, Division, At, Binary,
     Fail, Trap
<1>10. CASE do_eq \/ do_neq \/ do_and \/ do_or
  BY <1>10, ReduceAbove DEF do_eq, do_neq, do_and, do_or, Logical, At,
     Binary
<1>11. ASSUME NEW op \in Binary, NEW accepted, Comparison(op, accepted)
       PROVE  CallerCellsStay
  BY <1>1, <1>11, ReduceAbove DEF Comparison, At, Fail
<1>12. CASE do_lt \/ do_gt \/ do_lte \/ do_gte
  <2>1. {"OP_LT", "OP_GT", "OP_LTE", "OP_GTE"} \subseteq Binary
    BY DEF Binary
  <2> QED
    BY <1>11, <1>12, <2>1 DEF do_lt, do_gt, do_lte, do_gte
<1>13. ASSUME NEW op, NEW name, NEW error, Component(op, name, error)
       PROVE  CallerCellsStay
  <2>1. status = "running"
    BY <1>13 DEF Component, At
  <2>2. top \in Int /\ slots <= top
    BY <2>1, Registers
  <2> QED
    BY <1>1, <1>13, <2>2, StoreAbove DEF Component, Fail
<1>14. CASE do_first \/ do_second
  BY <1>13, <1>14 DEF do_first, do_second
<1>15. CASE do_nop \/ do_jump \/ do_jump_if_false \/ do_print
  BY <1>1, <1>15 DEF do_nop, do_jump, do_jump_if_false, do_print, Jump
<1>16. CASE do_call
  BY <1>1, <1>16 DEF do_call, CalleeError, Fail
<1>17. CASE do_tail_call
  <2>1. CASE CalleeError
    BY <1>1, <2>1 DEF CalleeError, Fail
  <2>2. CASE stack' = [i \in DOMAIN stack |->
                         IF i \in slots..(slots + Byte)
                         THEN cell(top - Byte + (i - slots)) ELSE stack[i]]
    <3>1. stack \in [0..(StackSize - 1) -> Value] /\ slots \in Nat
      BY DEF IInv, TypeOK
    <3> QED
      BY <2>2, <3>1 DEF CallerCellsStay
  <2> QED
    BY <1>17, <2>1, <2>2 DEF do_tail_call
<1>18. CASE do_return
  <2>1. CASE stack' = [stack EXCEPT ![slots] = peek(0)]
    <3>1. stack \in [0..(StackSize - 1) -> Value] /\ slots \in Nat
      BY DEF IInv, TypeOK
    <3> QED
      BY <2>1, <3>1 DEF CallerCellsStay
  <2> QED
    BY <1>1, <1>18, <2>1 DEF do_return
<1>19. CASE Ended
  BY <1>1, <1>19 DEF Ended, vars
<1> QED
  BY <1>2, <1>3, <1>4, <1>5, <1>6, <1>7, <1>8, <1>9, <1>10, <1>12, <1>14,
     <1>15, <1>16, <1>17, <1>18, <1>19 DEF Next

(* While a callee runs, no instruction writes a cell of its callers.       *)
THEOREM VMCallersUntouched == Spec => CallersUntouched
<1>1. IInv /\ [Next]_vars =>
        [\A i \in 0..(StackSize - 1) : i < slots => stack'[i] = stack[i]]_vars
  BY CallersStay DEF CallerCellsStay
<1> QED
  BY <1>1, VMInvariant, PTL DEF Spec, CallersUntouched

ToCaller ==
  /\ top' = slots
  /\ cl' = frames[Len(frames)].cl
  /\ slots' = frames[Len(frames)].slots
  /\ slots' < top'

(* A step with fewer frames after it is a return.                          *)
LEMMA ReturnsBack ==
  ASSUME IInv, Next, Len(frames') < Len(frames)
  PROVE  ToCaller
<1>1. Len(frames) \in Nat /\ frames \in Seq([cl : Nat, ip : Nat, slots : Nat])
  BY DEF IInv, TypeOK
<1>2. frames' # frames
  BY <1>1
<1>3. ~do_call
  <2>1. ASSUME NEW frame, frames' = Append(frames, frame) PROVE FALSE
    <3>1. Len(frames') = Len(frames) + 1
      BY <1>1, <2>1
    <3> QED
      BY <1>1, <3>1
  <2> QED
    BY <1>2, <2>1 DEF do_call, CalleeError, Fail
<1>4. ~vm_init /\ ~vm_run /\ ~do_nop /\ ~do_jump /\ ~do_jump_if_false
      /\ ~do_print /\ ~Ended
  BY <1>2 DEF vm_init, vm_run, do_nop, do_jump, do_jump_if_false, do_print,
     Ended, OutOfMemory, Fail, Jump, vars
<1>5. \A k, v, next : ~Store(k, v, next)
  BY <1>2 DEF Store
<1>6. \A error : ~Fail(error)
  BY <1>2 DEF Fail
<1>7. ~Trap /\ ~OutOfMemory
  BY <1>2 DEF Trap, OutOfMemory, Fail
<1>8. ~do_false /\ ~do_true /\ ~do_int /\ ~do_constant /\ ~do_local
      /\ ~do_nonlocal /\ ~do_closure /\ ~do_tuple
  BY <1>5, <1>6, <1>7 DEF do_false, do_true, do_int, do_constant, do_local,
     do_nonlocal, do_closure, do_tuple, push, Reduce
<1>9. ~do_add /\ ~do_sub /\ ~do_mul /\ ~do_div /\ ~do_rem
  BY <1>5, <1>6, <1>7 DEF do_add, do_sub, do_mul, do_div, do_rem, Arithmetic,
     Division, Reduce
<1>10. ~do_eq /\ ~do_neq /\ ~do_and /\ ~do_or
  BY <1>5 DEF do_eq, do_neq, do_and, do_or, Logical, Reduce
<1>11. ~do_lt /\ ~do_gt /\ ~do_lte /\ ~do_gte /\ ~do_first /\ ~do_second
  BY <1>5, <1>6 DEF do_lt, do_gt, do_lte, do_gte, Comparison, do_first,
     do_second, Component, Reduce
<1>12. ~do_tail_call
  BY <1>2 DEF do_tail_call, CalleeError, Fail
<1>13. do_return
  BY <1>3, <1>4, <1>8, <1>9, <1>10, <1>11, <1>12 DEF Next
<1>14. /\ status = "running" /\ top' = slots
       /\ cl' = frames[Len(frames)].cl
       /\ slots' = frames[Len(frames)].slots
       /\ frames # <<>>
  BY <1>2, <1>13 DEF do_return, At
<1>15. Len(frames) \in 1..Len(frames)
  BY <1>1, <1>14
<1>16. frames[Len(frames)].slots < slots
  BY <1>14, <1>15 DEF IInv, FramesNest, CanResume, Base
<1> QED
  BY <1>14, <1>16 DEF ToCaller

(* Only a return takes a frame off the call stack, and it goes back to the *)
(* caller with one value in place of the callee and its arguments.         *)
THEOREM VMReturnsToCaller == Spec => ReturnsToCaller
<1>1. IInv /\ [Next]_vars => [Len(frames') < Len(frames) => ToCaller]_vars
  BY ReturnsBack
<1> QED
  BY <1>1, VMInvariant, PTL DEF Spec, ReturnsToCaller, ToCaller

(* A machine that meets an error halts.                                    *)
LEMMA ErrorsHalt ==
  ASSUME Next
  PROVE  status' = "halted" \/ result' = result
<1>1. /\ \A error : Fail(error) => status' = "halted"
      /\ OutOfMemory => status' = "halted"
      /\ Trap => result' = result
  BY DEF Fail, OutOfMemory, Trap
<1>2. /\ \A k, v, next : Store(k, v, next) => result' = result
      /\ \A k, next : Jump(k, next) => result' = result
  BY DEF Store, Jump
<1>3. CASE vm_init \/ vm_run \/ do_nop \/ do_jump \/ do_jump_if_false \/ do_print \/ Ended
  BY <1>1, <1>2, <1>3 DEF vm_init, vm_run, do_nop, do_jump, do_jump_if_false, do_print,
     Ended, vars
<1>4. CASE \/ do_false \/ do_true \/ do_int \/ do_constant \/ do_local
           \/ do_nonlocal \/ do_closure \/ do_tuple
  BY <1>1, <1>2, <1>4 DEF do_false, do_true, do_int, do_constant, do_local,
     do_nonlocal, do_closure, do_tuple, push, Reduce
<1>5. CASE do_add \/ do_sub \/ do_mul \/ do_div \/ do_rem
  BY <1>1, <1>2, <1>5 DEF do_add, do_sub, do_mul, do_div, do_rem, Arithmetic,
     Division, Reduce
<1>6. CASE \/ do_eq \/ do_neq \/ do_and \/ do_or \/ do_lt \/ do_gt \/ do_lte \/ do_gte
           \/ do_first \/ do_second
  BY <1>1, <1>2, <1>6 DEF do_eq, do_neq, do_and, do_or, Logical, do_lt, do_gt, do_lte,
     do_gte, Comparison, do_first, do_second, Component, Reduce
<1>7. CASE do_call \/ do_tail_call \/ do_return
  BY <1>1, <1>7 DEF do_call, do_tail_call, do_return, CalleeError
<1> QED BY <1>3, <1>4, <1>5, <1>6, <1>7 DEF Next
=============================================================================
