-------------------------- MODULE ActivationProofs --------------------------
(***************************************************************************)
(* Proof that the virtual machine implements Activations: one flat stack   *)
(* is as good as cells of its own for every call, for every set of         *)
(* certified programs and every size of the two stacks.                    *)
(***************************************************************************)
EXTENDS VMActivations, VMProofs

(* The activations lie on the stack in the order of their calls.           *)
Ordered ==
  \A j, k \in 1..Len(frames) : j <= k => Base(j) <= Base(k)

-----------------------------------------------------------------------------
(* Sequences.                                                              *)

(* A stretch of an array is a sequence.                                    *)
LEMMA Stretch ==
  ASSUME NEW V, NEW size \in Nat, NEW array \in [0..(size - 1) -> V],
         NEW first \in Nat, NEW n \in Nat, first + n <= size,
         NEW s, s = [j \in 1..n |-> array[first + j - 1]]
  PROVE  /\ s \in Seq(V) /\ Len(s) = n
         /\ \A j \in 1..n : s[j] = array[first + j - 1]
<1>1. ASSUME NEW j \in 1..n PROVE array[first + j - 1] \in V
  <2>1. first + j - 1 \in 0..(size - 1)
    OBVIOUS
  <2> QED BY <2>1
<1>2. s \in [1..n -> V]
  BY <1>1
<1> QED BY <1>2

(* Part of a sequence, read cell by cell.                                  *)
LEMMA PartIs ==
  ASSUME NEW S, NEW s \in Seq(S), NEW t \in Seq(S),
         NEW m \in 1..(Len(s) + 1), NEW n \in (m - 1)..Len(s),
         Len(t) = n - m + 1, \A j \in 1..Len(t) : t[j] = s[m + j - 1]
  PROVE  t = SubSeq(s, m, n)
<1>1. /\ SubSeq(s, m, n) \in Seq(S)
      /\ Len(SubSeq(s, m, n)) = n - m + 1
      /\ \A j \in 1..(n - m + 1) : SubSeq(s, m, n)[j] = s[m + j - 1]
  OBVIOUS
<1> QED BY <1>1, SeqEqual

(* A sequence with one more element.                                       *)
LEMMA LongerIs ==
  ASSUME NEW S, NEW s \in Seq(S), NEW t \in Seq(S), NEW v,
         Len(t) = Len(s) + 1, \A j \in 1..Len(s) : t[j] = s[j],
         t[Len(t)] = v
  PROVE  t = Append(s, v)
<1>1. v \in S
  BY ElementTyped
<1>2. /\ Append(s, v) \in Seq(S) /\ Len(Append(s, v)) = Len(s) + 1
      /\ \A j \in 1..Len(s) : Append(s, v)[j] = s[j]
      /\ Append(s, v)[Len(s) + 1] = v
  BY <1>1
<1>3. ASSUME NEW j \in 1..Len(t) PROVE t[j] = Append(s, v)[j]
  BY <1>2
<1> QED BY <1>2, <1>3, SeqEqual

(* The first part of a sequence with one more element.                     *)
LEMMA ReplacedIs ==
  ASSUME NEW S, NEW s \in Seq(S), NEW t \in Seq(S), NEW v,
         NEW n \in 0..Len(s), Len(t) = n + 1,
         \A j \in 1..n : t[j] = s[j], t[n + 1] = v
  PROVE  t = Append(SubSeq(s, 1, n), v)
<1>1. /\ SubSeq(s, 1, n) \in Seq(S) /\ Len(SubSeq(s, 1, n)) = n
      /\ \A j \in 1..n : SubSeq(s, 1, n)[j] = s[j]
  OBVIOUS
<1> QED BY <1>1, LongerIs

-----------------------------------------------------------------------------
(* The cells of activations.                                               *)

(* A running activation has its cells in the stack.                        *)
LEMMA OwnCells ==
  ASSUME IInv, status = "running"
  PROVE  /\ Cells \in Seq(Value) /\ Len(Cells) = top - slots + 1
         /\ \A j \in 1..Len(Cells) : Cells[j] = stack[slots + j - 1]
<1>1. PICK n \in Nat : n = top - slots + 1 /\ slots + n <= StackSize
  BY Registers
<1>2. /\ stack \in [0..(StackSize - 1) -> Value]
      /\ StackSize \in Nat /\ slots \in Nat
  BY Registers DEF IInv, TypeOK
<1>3. Cells = [j \in 1..n |-> stack[slots + j - 1]]
  BY <1>1 DEF Cells, From
<1>4. /\ Cells \in Seq(Value) /\ Len(Cells) = n
      /\ \A j \in 1..n : Cells[j] = stack[slots + j - 1]
  BY <1>1, <1>2, <1>3, Stretch
<1> QED BY <1>1, <1>4

(* The cells from s up to t.                                               *)
LEMMA UpTo ==
  ASSUME NEW size \in Nat, NEW t \in Int, NEW s \in Nat, t < size, s <= t + 1
  PROVE  /\ t - s + 1 \in Nat
         /\ s + (t - s + 1) <= size
<1>1. t - s + 1 \in Nat
  OBVIOUS
<1>2. s + (t - s + 1) = t + 1
  OBVIOUS
<1> QED BY <1>1, <1>2

(* So it has after a step.                                                 *)
LEMMA OwnCellsNext ==
  ASSUME TypeOK', NEW s, NEW t, slots' = s, top' = t, s <= t + 1
  PROVE  /\ Cells' \in Seq(Value) /\ Len(Cells') = t - s + 1
         /\ \A j \in 1..Len(Cells') : Cells'[j] = stack'[s + j - 1]
<1>1. PICK array \in [0..(StackSize - 1) -> Value] : array = stack'
  BY DEF TypeOK
<1>2. /\ StackSize \in Nat /\ s \in Nat
      /\ t \in Int /\ t < StackSize
  BY SizeAssumption DEF TypeOK
<1>3. PICK n \in Nat : n = t - s + 1 /\ s + n <= StackSize
  BY <1>2, UpTo
<1>4. Cells' = [j \in 1..n |-> array[s + j - 1]]
  BY <1>1, <1>3 DEF Cells, From
<1>5. /\ Cells' \in Seq(Value) /\ Len(Cells') = n
      /\ \A j \in 1..n : Cells'[j] = array[s + j - 1]
  BY <1>2, <1>3, <1>4, Stretch
<1> QED BY <1>1, <1>3, <1>5

(* The cells of an activation that waits end below the running one's.      *)
LEMMA WaitingCells ==
  ASSUME IInv, Ordered, status = "running", NEW k \in 1..Len(frames)
  PROVE  /\ frames[k].slots \in Nat /\ Base(k) \in Nat
         /\ frames[k].slots < Base(k) /\ Base(k) <= slots
<1>1. frames \in Seq([cl : Nat, ip : Nat, slots : Nat])
  BY DEF IInv, TypeOK
<1>2. ASSUME NEW j \in 1..Len(frames) PROVE frames[j].slots \in Nat
  <2>1. frames[j] \in [cl : Nat, ip : Nat, slots : Nat]
    BY <1>1, ElementTyped
  <2> QED BY <2>1
<1>3. slots \in Nat
  BY Registers
<1>4. Base(k) \in Nat
  BY SMTT(40), <1>1, <1>2, <1>3 DEF Base
<1>5. frames[k].slots < Base(k)
  BY DEF IInv, FramesNest, CanResume
<1>6. Len(frames) \in 1..Len(frames) /\ k <= Len(frames)
  BY <1>1
<1>7. Base(Len(frames)) = slots
  BY <1>1 DEF Base
<1> QED BY <1>2, <1>4, <1>5, <1>6, <1>7 DEF Ordered

(* A step that writes above them leaves them as they are.                  *)
LEMMA WaitingStays ==
  ASSUME IInv, Ordered, status = "running", CallerCellsStay,
         NEW k \in 1..Len(frames)
  PROVE  From(frames[k].slots, Base(k) - frames[k].slots)
           = [j \in 1..(Base(k) - frames[k].slots) |-> stack'[frames[k].slots + j - 1]]
<1>1. PICK f, n \in Nat : f = frames[k].slots /\ n = Base(k) - f /\ f + n <= slots
  BY SMTT(40), WaitingCells
<1>2. slots \in Nat /\ StackSize \in Nat /\ slots < StackSize
  BY Registers
<1>3. ASSUME NEW j \in 1..n PROVE stack'[f + j - 1] = stack[f + j - 1]
  <2>1. f + j - 1 \in 0..(StackSize - 1) /\ f + j - 1 < slots
    BY SMTT(40), <1>1, <1>2
  <2> QED BY <2>1 DEF CallerCellsStay
<1>4. From(f, n) = [j \in 1..n |-> stack'[f + j - 1]]
  BY <1>3 DEF From
<1> QED BY <1>1, <1>4

LEMMA CallersSame ==
  ASSUME IInv, Ordered, status = "running", CallerCellsStay,
         UNCHANGED <<frames, slots>>
  PROVE  Callers' = Callers
<1>1. ASSUME NEW k \in 1..Len(frames)
      PROVE  From(frames[k].slots, Base(k) - frames[k].slots)'
               = From(frames[k].slots, Base(k) - frames[k].slots)
  <2>1. Base(k)' = Base(k) /\ frames'[k] = frames[k]
    BY DEF Base
  <2> QED BY <2>1, WaitingStays DEF From
<1>2. Callers' = [k \in 1..Len(frames) |->
                    [cl |-> frames[k].cl, ip |-> frames[k].ip,
                     cells |-> From(frames[k].slots, Base(k) - frames[k].slots)']]
  BY DEF Callers
<1> QED BY <1>1, <1>2 DEF Callers

-----------------------------------------------------------------------------
(* The same words in both specifications.                                  *)

LEMMA SameValues ==
  /\ \A n : Calls!Wrap(n) = Wrap(n) /\ Calls!int_value(n) = int_value(n)
  /\ \A p : /\ Calls!str_value(p) = str_value(p)
            /\ Calls!tuple_value(p) = tuple_value(p)
            /\ Calls!closure_value(p) = closure_value(p)
  /\ Calls!FALSE_VALUE = FALSE_VALUE /\ Calls!TRUE_VALUE = TRUE_VALUE
  /\ \A b : Calls!bool_value(b) = bool_value(b)
  /\ \A v : /\ Calls!is_int(v) <=> is_int(v)
            /\ Calls!is_str(v) <=> is_str(v)
            /\ Calls!is_tuple(v) <=> is_tuple(v)
            /\ Calls!is_closure(v) <=> is_closure(v)
            /\ Calls!is_falsy(v) <=> is_falsy(v)
  /\ \A a, b : /\ Calls!Quotient(a, b) = Quotient(a, b)
               /\ Calls!Remainder(a, b) = Remainder(a, b)
               /\ Calls!DivisionTraps(a, b) = DivisionTraps(a, b)
  /\ \A v, w : /\ Calls!Comparable(v, w) <=> Comparable(v, w)
               /\ Calls!value_compare(strs, v, w) = value_compare(strs, v, w)
               /\ Calls!value_equal(strs, tuples, v, w) = value_equal(strs, tuples, v, w)
  /\ \A i : /\ Calls!str_from_int(i) = str_from_int(i)
            /\ Calls!str_from_bool(i) = str_from_bool(i)
            /\ Calls!Sign(i) = Sign(i)
<1>1. \A n : Calls!Wrap(n) = Wrap(n) /\ Calls!int_value(n) = int_value(n)
  BY DEF Calls!Wrap, Wrap, Calls!INT_MIN, INT_MIN, Calls!int_value, int_value,
         Calls!Plain, Plain, Calls!FLAG_NONE, FLAG_NONE
<1>2. /\ \A p : /\ Calls!str_value(p) = str_value(p)
                /\ Calls!tuple_value(p) = tuple_value(p)
                /\ Calls!closure_value(p) = closure_value(p)
      /\ Calls!FALSE_VALUE = FALSE_VALUE /\ Calls!TRUE_VALUE = TRUE_VALUE
      /\ \A b : Calls!bool_value(b) = bool_value(b)
  BY DEF Calls!str_value, str_value, Calls!tuple_value, tuple_value,
         Calls!closure_value, closure_value, Calls!FALSE_VALUE, FALSE_VALUE,
         Calls!TRUE_VALUE, TRUE_VALUE, Calls!bool_value, bool_value,
         Calls!Plain, Plain, Calls!FLAG_NONE, FLAG_NONE, Calls!FLAG_FALSY, FLAG_FALSY
<1>3. \A v : /\ Calls!is_int(v) <=> is_int(v)
             /\ Calls!is_str(v) <=> is_str(v)
             /\ Calls!is_tuple(v) <=> is_tuple(v)
             /\ Calls!is_closure(v) <=> is_closure(v)
             /\ Calls!is_falsy(v) <=> is_falsy(v)
  BY DEF Calls!is_int, is_int, Calls!is_str, is_str, Calls!is_tuple, is_tuple,
         Calls!is_closure, is_closure, Calls!is_falsy, is_falsy,
         Calls!FLAG_FALSY, FLAG_FALSY
<1>4. \A a, b : /\ Calls!Quotient(a, b) = Quotient(a, b)
                /\ Calls!Remainder(a, b) = Remainder(a, b)
                /\ Calls!DivisionTraps(a, b) = DivisionTraps(a, b)
  BY Zenon DEF Calls!Quotient, Quotient, Calls!Abs, Abs, Calls!Remainder, Remainder,
         Calls!DivisionTraps, DivisionTraps, Calls!INT_MIN, INT_MIN
<1>5. \A v, w : /\ Calls!Comparable(v, w) <=> Comparable(v, w)
                /\ Calls!value_compare(strs, v, w) = value_compare(strs, v, w)
  BY ZenonT(60) DEF Calls!Comparable, Comparable, Calls!value_compare, value_compare,
         Calls!Wrap, Wrap, Calls!INT_MIN, INT_MIN, Calls!str_compare, str_compare
<1>6. \A v, w : Calls!value_equal(strs, tuples, v, w) = value_equal(strs, tuples, v, w)
  BY DEF Calls!value_equal, value_equal, Calls!is_tuple, is_tuple,
         Calls!FlatEqual, FlatEqual, Calls!is_str, is_str, Calls!str_equal, str_equal
<1>7. /\ \A i : Calls!str_from_int(i) = str_from_int(i)
      /\ \A b : Calls!str_from_bool(b) = str_from_bool(b)
  BY Zenon DEF Calls!str_from_int, str_from_int, Calls!Digits, Digits,
         Calls!DigitCount, DigitCount, Calls!str_from_bool, str_from_bool
<1>8. \A i : Calls!Sign(i) = Sign(i)
  BY DEF Calls!Sign, Sign
<1> QED BY <1>1, <1>2, <1>3, <1>4, <1>5, <1>6, <1>7, <1>8

(* Both read the same instruction.                                         *)
LEMMA SameInstruction ==
  /\ Calls!function = function
  /\ \A op : Calls!At(op) <=> At(op)
  /\ Calls!Byte = Byte /\ Calls!Word = Word
<1>1. Calls!function = function
  BY DEF Calls!function, function
<1>2. \A op : Calls!At(op) <=> At(op)
  BY <1>1 DEF Calls!At, At, Calls!OpAt, OpAt, Calls!OpNames, OpNames
<1>3. Calls!Byte = Byte /\ Calls!Word = Word
  BY <1>1 DEF Calls!Byte, Byte, Calls!Word, Word, Calls!read_byte, read_byte,
     Calls!read_word, read_word
<1> QED BY <1>1, <1>2, <1>3

-----------------------------------------------------------------------------
(* The common shapes of steps.                                             *)

(* The run stops and leaves everything as it is.                           *)
LEMMA StopRuns ==
  ASSUME NEW how, NEW error, status' = how, result' = error,
         UNCHANGED <<functions, stack, top, frames, cl, ip, slots, heap, out>>
  PROVE  Calls!Stop(how, error)
<1>1. Cells' = Cells /\ Callers' = Callers
  BY DEF Cells, Callers, From, Base
<1> QED BY <1>1 DEF Calls!Stop, Calls!heap, heap

LEMMA FailRuns ==
  ASSUME NEW error, Fail(error)
  PROVE  Calls!Fail(error)
BY StopRuns DEF Fail, Calls!Fail

LEMMA OutOfMemoryRuns == OutOfMemory => Calls!OutOfMemory
BY FailRuns DEF OutOfMemory, Calls!OutOfMemory

(* An operand of the activation.                                           *)
LEMMA SamePeek ==
  ASSUME IInv, status = "running", NEW i \in Nat, i <= top - slots
  PROVE  Calls!peek(i) = peek(i)
<1>1. PICK t \in Nat, s \in Nat : t = top /\ s = slots /\ s <= t /\ t < StackSize
  BY Registers
<1>2. Len(Cells) - i \in 1..Len(Cells) /\ s + (Len(Cells) - i) - 1 = t - i
  BY <1>1, OwnCells
<1>3. Cells[Len(Cells) - i] = stack[t - i]
  BY <1>1, <1>2, OwnCells
<1>4. t - i \in 0..t
  BY <1>1
<1> QED BY <1>1, <1>3, <1>4, CellInUse DEF peek, Calls!peek

(* The last n cells give way to a value.                                   *)
LEMMA ReplaceRuns ==
  ASSUME IInv, TypeOK', Ordered, status = "running", NEW n \in Nat,
         NEW k \in Nat, k + n = top + 1, slots <= k,
         NEW v, NEW next, Store(k, v, next)
  PROVE  Calls!Replace(n, v, next)
<1>1. PICK s \in Nat : s = slots /\ slots' = s
  BY Registers DEF Store
<1>2. PICK t \in Nat : t = top /\ s <= t /\ t < StackSize
  BY <1>1, Registers
<1>3. /\ Cells' \in Seq(Value) /\ Len(Cells') = k - s + 1
      /\ \A j \in 1..Len(Cells') : Cells'[j] = stack'[s + j - 1]
  <2>1. top' = k /\ s <= k + 1
    BY <1>1 DEF Store
  <2> QED BY <1>1, <2>1, OwnCellsNext
<1>4. /\ Cells \in Seq(Value) /\ Len(Cells) = t - s + 1
      /\ \A j \in 1..Len(Cells) : Cells[j] = stack[s + j - 1]
  BY <1>1, <1>2, OwnCells
<1>5. /\ stack \in [0..(StackSize - 1) -> Value] /\ StackSize \in Nat
      /\ k < StackSize
  BY SizeAssumption DEF IInv, TypeOK, Store
<1>6. ASSUME NEW j \in 1..(k - s) PROVE Cells'[j] = Cells[j]
  <2>1. /\ j \in 1..Len(Cells') /\ j \in 1..Len(Cells)
        /\ s + j - 1 \in 0..(StackSize - 1) /\ s + j - 1 # k
    BY <1>1, <1>2, <1>3, <1>4, <1>5
  <2> QED BY <1>3, <1>4, <1>5, <2>1 DEF Store
<1>7. Cells'[k - s + 1] = v
  <2>1. /\ k - s + 1 \in 1..Len(Cells') /\ s + (k - s + 1) - 1 = k
        /\ k \in 0..(StackSize - 1)
    BY <1>1, <1>3, <1>5
  <2> QED BY <1>3, <1>5, <2>1 DEF Store
<1>8. k - s \in 0..Len(Cells) /\ Len(Cells) - n = k - s
  BY <1>1, <1>2, <1>4
<1>9. Cells' = Append(SubSeq(Cells, 1, k - s), v)
  BY SMTT(40), <1>3, <1>4, <1>6, <1>7, <1>8, ReplacedIs
<1>10. Callers' = Callers
  <2>1. CallerCellsStay
    BY <1>1, StoreAbove
  <2> QED BY <2>1, CallersSame DEF Store
<1> QED BY <1>8, <1>9, <1>10 DEF Calls!Replace, Calls!Under, Store

(* A push, or the overflow it reports.                                     *)
LEMMA PushRuns ==
  ASSUME IInv, TypeOK', Ordered, status = "running", NEW v, NEW next, push(v, next)
  PROVE  Calls!push(v, next)
<1>1. CASE Fail("stack overflow")
  BY <1>1, FailRuns DEF Calls!push
<1>2. CASE Store(top + 1, v, next) /\ UNCHANGED <<heap, out>>
  <2>1. PICK k \in Nat : k = top + 1 /\ k + 0 = top + 1 /\ slots <= k
    BY Registers
  <2>2. Calls!Replace(0, v, next)
    BY <1>2, <2>1, ReplaceRuns
  <2> QED BY <1>2, <2>2 DEF Calls!push, Calls!heap, heap
<1> QED BY <1>1, <1>2 DEF push

(* Two operands give way to a value.                                       *)
LEMMA ReduceRuns ==
  ASSUME IInv, TypeOK', Ordered, status = "running",
         OpAt(function, ip) \in Binary, NEW v, Reduce(v)
  PROVE  Calls!Replace(2, v, ip + 1)
<1>1. PICK k \in Nat : k = top - 1 /\ k + 2 = top + 1 /\ slots <= k
  <2>1. top - 1 \in Nat /\ slots < top - 1 /\ top \in Nat /\ slots \in Nat
    BY Operands, Registers
  <2> QED BY <2>1
<1> QED BY <1>1, ReplaceRuns DEF Reduce

(* The operands are the same.                                              *)
LEMMA SameOperands ==
  ASSUME IInv, status = "running", OpAt(function, ip) \in Binary
  PROVE  Calls!peek(0) = peek(0) /\ Calls!peek(1) = peek(1)
<1>1. 0 <= top - slots /\ 1 <= top - slots
  <2>1. top - 1 \in Nat /\ slots < top - 1 /\ top \in Nat /\ slots \in Nat
    BY Operands, Registers
  <2> QED BY <2>1
<1> QED BY <1>1, SamePeek

-----------------------------------------------------------------------------
(* Start, constants and variables.                                         *)

LEMMA vm_init_runs ==
  ASSUME IInv, vm_init
  PROVE  Calls!vm_init
<1>1. CASE OutOfMemory
  BY <1>1, OutOfMemoryRuns DEF vm_init, Calls!vm_init
<1>2. CASE /\ status' = "ready"
           /\ UNCHANGED <<functions, stack, top, frames, cl, ip, slots, heap,
                          result, out>>
  BY <1>2, StopRuns DEF vm_init, Calls!vm_init
<1> QED BY <1>1, <1>2 DEF vm_init

(* The first activation has the program's closure in its cell 0.           *)
LEMMA vm_run_runs ==
  ASSUME IInv, vm_run
  PROVE  Calls!vm_run
<1>1. top = -1 /\ frames = <<>> /\ slots = 0
  BY DEF IInv, NotStarted, vm_run
<1>2. stack \in [0..(StackSize - 1) -> Value] /\ StackSize \in Nat \ {0}
  BY SizeAssumption DEF IInv, TypeOK
<1>3. /\ stack' = [stack EXCEPT ![0] = closure_value(cl)]
      /\ top' = 0 /\ slots' = 0 /\ frames' = <<>>
  BY <1>1 DEF vm_run
<1>4. stack'[0] = closure_value(cl)
  BY <1>2, <1>3
<1>5. Cells' = <<closure_value(cl)>>
  <2>1. Cells' = [j \in 1..1 |-> stack'[0 + j - 1]]
    BY <1>3 DEF Cells, From
  <2>2. Cells' = [j \in 1..1 |-> closure_value(cl)]
    BY <1>4, <2>1
  <2> QED BY <2>2
<1>6. Callers' = Callers
  BY <1>1, <1>3 DEF Callers
<1> QED BY <1>5, <1>6, SameValues DEF vm_run, Calls!vm_run, Calls!heap, heap

(* A variable is a cell of the activation.                                 *)
LEMMA SameLocal ==
  ASSUME IInv, status = "running", NEW i \in Nat, i <= top - slots
  PROVE  Cells[i + 1] = cell(slots + i)
<1>1. PICK t \in Nat, s \in Nat : t = top /\ s = slots /\ s <= t /\ t < StackSize
  BY Registers
<1>2. i + 1 \in 1..Len(Cells) /\ s + (i + 1) - 1 = s + i /\ s + i \in 0..t
  BY <1>1, OwnCells
<1> QED BY <1>1, <1>2, OwnCells, CellInUse

LEMMA LocalOperand ==
  ASSUME IInv, status = "running", OpAt(function, ip) = "OP_LOCAL"
  PROVE  Byte \in Nat /\ Byte <= top - slots
<1>1. Byte \in Nat
  BY ByteOperand DEF ByteOps
<1>2. PICK p \in Programs : SafeAt(p, function, Depth[functions][function], ip)
  BY Instruction
<1>3. Byte <= Depth[functions][function][ip]
  BY <1>2 DEF SafeAt, Byte
<1> QED BY <1>1, <1>3, Registers

LEMMA LoadRuns ==
  ASSUME IInv, TypeOK', Ordered,
         do_false \/ do_true \/ do_int \/ do_constant \/ do_local \/ do_nonlocal
  PROVE  Calls!load
<1>1. CASE do_false
  <2>1. At("OP_FALSE") /\ push(FALSE_VALUE, ip + 1) /\ status = "running"
    BY <1>1 DEF do_false, At
  <2>2. Calls!push(FALSE_VALUE, ip + 1)
    BY <2>1, PushRuns
  <2> QED BY <2>1, <2>2, SameValues, SameInstruction DEF Calls!load
<1>2. CASE do_true
  <2>1. At("OP_TRUE") /\ push(TRUE_VALUE, ip + 1) /\ status = "running"
    BY <1>2 DEF do_true, At
  <2>2. Calls!push(TRUE_VALUE, ip + 1)
    BY <2>1, PushRuns
  <2> QED BY <2>1, <2>2, SameValues, SameInstruction DEF Calls!load
<1>3. CASE do_int
  <2>1. At("OP_INT") /\ push(int_value(Word), ip + 3) /\ status = "running"
    BY <1>3 DEF do_int, At
  <2>2. Calls!push(int_value(Word), ip + 3)
    BY <2>1, PushRuns
  <2> QED BY <2>1, <2>2, SameValues, SameInstruction DEF Calls!load
<1>4. CASE do_constant
  <2>1. /\ At("OP_CONSTANT") /\ push(function.constants[Byte + 1], ip + 2)
        /\ status = "running"
    BY <1>4 DEF do_constant, At
  <2>2. Calls!push(function.constants[Byte + 1], ip + 2)
    BY <2>1, PushRuns
  <2> QED BY <2>1, <2>2, SameInstruction DEF Calls!load
<1>5. CASE do_local
  <2>1. /\ At("OP_LOCAL") /\ push(cell(slots + Byte), ip + 2)
        /\ status = "running" /\ OpAt(function, ip) = "OP_LOCAL"
    BY <1>5 DEF do_local, At
  <2>2. Calls!push(cell(slots + Byte), ip + 2)
    BY <2>1, PushRuns
  <2>3. Cells[Byte + 1] = cell(slots + Byte)
    BY <2>1, LocalOperand, SameLocal
  <2> QED BY <2>1, <2>2, <2>3, SameInstruction DEF Calls!load
<1>6. CASE do_nonlocal
  <2>1. /\ At("OP_NONLOCAL") /\ push(closures[cl].nonlocals[Byte + 1], ip + 2)
        /\ status = "running"
    BY <1>6 DEF do_nonlocal, At
  <2>2. Calls!push(closures[cl].nonlocals[Byte + 1], ip + 2)
    BY <2>1, PushRuns
  <2> QED BY <2>1, <2>2, SameInstruction DEF Calls!load
<1> QED BY <1>1, <1>2, <1>3, <1>4, <1>5, <1>6

LEMMA do_tuple_runs ==
  ASSUME IInv, TypeOK', Ordered, do_tuple
  PROVE  Calls!do_tuple
<1>1. At("OP_TUPLE") /\ status = "running" /\ OpAt(function, ip) \in Binary
  BY DEF do_tuple, At, Binary
<1>2. CASE OutOfMemory
  BY <1>1, <1>2, OutOfMemoryRuns, SameInstruction DEF Calls!do_tuple
<1>3. CASE /\ tuples' = Append(tuples, [first |-> peek(1), second |-> peek(0)])
           /\ Reduce(tuple_value(Len(tuples) + 1))
           /\ UNCHANGED <<strs, closures, out>>
  <2>1. Calls!Replace(2, tuple_value(Len(tuples) + 1), ip + 1)
    BY <1>1, <1>3, ReduceRuns
  <2> QED BY <1>1, <1>3, <2>1, SameOperands, SameValues, SameInstruction
          DEF Calls!do_tuple
<1> QED BY <1>2, <1>3 DEF do_tuple

-----------------------------------------------------------------------------
(* Operators.                                                              *)

LEMMA GivesRuns ==
  ASSUME IInv, TypeOK', Ordered, status = "running",
         OpAt(function, ip) \in Binary, NEW v, Reduce(v), UNCHANGED <<heap, out>>
  PROVE  Calls!Gives(2, v)
<1>1. Calls!Replace(2, v, ip + 1)
  BY ReduceRuns
<1> QED BY <1>1 DEF Calls!Gives, Calls!heap, heap

LEMMA SameTests ==
  ASSUME IInv, status = "running", OpAt(function, ip) \in Binary
  PROVE  /\ Calls!Ints <=> Ints
         /\ Calls!Texts <=> Texts
BY SameOperands, SameValues DEF Calls!Ints, Ints, Calls!Texts, Texts

LEMMA do_add_runs ==
  ASSUME IInv, TypeOK', Ordered, do_add
  PROVE  Calls!do_add
<1>1. At("OP_ADD") /\ status = "running" /\ OpAt(function, ip) \in Binary
  BY DEF do_add, At, Binary
<1>2. CASE /\ Ints
           /\ Reduce(int_value(Wrap(peek(1).val + peek(0).val)))
           /\ UNCHANGED <<heap, out>>
  <2>1. Calls!Gives(2, int_value(Wrap(peek(1).val + peek(0).val)))
    BY <1>1, <1>2, GivesRuns
  <2> QED BY <1>1, <1>2, <2>1, SameOperands, SameTests, SameValues, SameInstruction
          DEF Calls!do_add
<1>3. CASE /\ Texts
           /\ strs' = Append(strs, to_str(peek(1)) \o to_str(peek(0)))
           /\ Reduce(str_value(Len(strs) + 1))
           /\ UNCHANGED <<tuples, closures, out>>
  <2>1. Calls!Replace(2, str_value(Len(strs) + 1), ip + 1)
    BY <1>1, <1>3, ReduceRuns
  <2>2. \A v : Calls!to_str(v) = to_str(v)
    BY SameValues DEF Calls!to_str, to_str
  <2> QED BY <1>1, <1>3, <2>1, <2>2, SameOperands, SameTests, SameValues,
             SameInstruction DEF Calls!do_add
<1>4. CASE Texts /\ OutOfMemory
  BY <1>1, <1>4, OutOfMemoryRuns, SameTests, SameInstruction DEF Calls!do_add
<1>5. CASE ~Ints /\ ~Texts /\ Fail(AddError)
  <2>1. Calls!Fail(AddError)
    BY <1>5, FailRuns
  <2> QED BY <1>1, <1>5, <2>1, SameOperands, SameTests, SameValues, SameInstruction
          DEF Calls!do_add, AddError
<1> QED BY <1>2, <1>3, <1>4, <1>5 DEF do_add

LEMMA ArithmeticRuns ==
  ASSUME IInv, TypeOK', Ordered, NEW op \in Binary, NEW n, NEW error,
         Arithmetic(op, n, error)
  PROVE  Calls!Arithmetic(op, FALSE, n, error)
<1>1. At(op) /\ status = "running" /\ OpAt(function, ip) \in Binary
  BY DEF Arithmetic, At
<1>2. CASE Ints /\ Reduce(int_value(n)) /\ UNCHANGED <<heap, out>>
  <2>1. Calls!Gives(2, int_value(n))
    BY <1>1, <1>2, GivesRuns
  <2> QED BY <1>1, <1>2, <2>1, SameTests, SameValues, SameInstruction
          DEF Calls!Arithmetic
<1>3. CASE ~Ints /\ Fail(error)
  BY <1>1, <1>3, FailRuns, SameTests, SameInstruction DEF Calls!Arithmetic
<1> QED BY <1>2, <1>3 DEF Arithmetic

LEMMA DivisionRuns ==
  ASSUME IInv, TypeOK', Ordered, NEW op \in Binary, NEW n, NEW error,
         Division(op, n, error)
  PROVE  Calls!Arithmetic(op, DivisionTraps(peek(1).val, peek(0).val), n, error)
<1>1. At(op) /\ status = "running" /\ OpAt(function, ip) \in Binary
  BY DEF Division, At
<1>2. CASE Ints /\ DivisionTraps(peek(1).val, peek(0).val) /\ Trap
  <2>1. Calls!Stop("trapped", result)
    BY <1>2, StopRuns DEF Trap
  <2> QED BY <1>1, <1>2, <2>1, SameTests, SameInstruction DEF Calls!Arithmetic
<1>3. CASE /\ Ints /\ ~DivisionTraps(peek(1).val, peek(0).val)
           /\ Reduce(int_value(n))
           /\ UNCHANGED <<heap, out>>
  <2>1. Calls!Gives(2, int_value(n))
    BY <1>1, <1>3, GivesRuns
  <2> QED BY <1>1, <1>3, <2>1, SameTests, SameValues, SameInstruction
          DEF Calls!Arithmetic
<1>4. CASE ~Ints /\ Fail(error)
  BY <1>1, <1>4, FailRuns, SameTests, SameInstruction DEF Calls!Arithmetic
<1> QED BY <1>2, <1>3, <1>4 DEF Division

LEMMA arithmetic_runs ==
  ASSUME IInv, TypeOK', Ordered, do_sub \/ do_mul \/ do_div \/ do_rem
  PROVE  Calls!arithmetic
<1>1. {"OP_SUB", "OP_MUL", "OP_DIV", "OP_REM"} \subseteq Binary
  BY DEF Binary
<1>2. status = "running" /\ OpAt(function, ip) \in Binary
  BY <1>1 DEF do_sub, do_mul, do_div, do_rem, Arithmetic, Division, At
<1>3. Calls!peek(0) = peek(0) /\ Calls!peek(1) = peek(1)
  BY <1>2, SameOperands
<1>4. CASE do_sub
  BY <1>1, <1>3, <1>4, ArithmeticRuns, SameValues DEF do_sub, Calls!arithmetic
<1>5. CASE do_mul
  BY <1>1, <1>3, <1>5, ArithmeticRuns, SameValues DEF do_mul, Calls!arithmetic
<1>6. CASE do_div
  <2>1. Calls!Arithmetic("OP_DIV", DivisionTraps(peek(1).val, peek(0).val),
                         Quotient(peek(1).val, peek(0).val), "cannot divide")
    BY <1>1, <1>6, DivisionRuns DEF do_div
  <2>2. Calls!Arithmetic("OP_DIV", Calls!DivisionTraps(peek(1).val, peek(0).val),
                         Calls!Quotient(peek(1).val, peek(0).val), "cannot divide")
    BY Zenon, <2>1, SameValues
  <2> QED BY Zenon, <1>3, <2>2 DEF Calls!arithmetic
<1>7. CASE do_rem
  <2>1. Calls!Arithmetic("OP_REM", DivisionTraps(peek(1).val, peek(0).val),
                         Remainder(peek(1).val, peek(0).val), "cannot calculate remainder")
    BY <1>1, <1>7, DivisionRuns DEF do_rem
  <2>2. Calls!Arithmetic("OP_REM", Calls!DivisionTraps(peek(1).val, peek(0).val),
                         Calls!Remainder(peek(1).val, peek(0).val), "cannot calculate remainder")
    BY Zenon, <2>1, SameValues
  <2> QED BY Zenon, <1>3, <2>2 DEF Calls!arithmetic
<1> QED BY <1>4, <1>5, <1>6, <1>7

LEMMA LogicalRuns ==
  ASSUME IInv, TypeOK', Ordered, NEW op \in Binary, NEW b, Logical(op, b)
  PROVE  Calls!Logical(op, b)
<1>1. At(op) /\ status = "running" /\ OpAt(function, ip) \in Binary
  BY DEF Logical, At
<1>2. Calls!Gives(2, bool_value(b))
  BY <1>1, GivesRuns DEF Logical
<1> QED BY <1>1, <1>2, SameValues, SameInstruction DEF Calls!Logical

LEMMA logical_runs ==
  ASSUME IInv, TypeOK', Ordered, do_eq \/ do_neq \/ do_and \/ do_or
  PROVE  Calls!logical
<1>1. {"OP_EQ", "OP_NEQ", "OP_AND", "OP_OR"} \subseteq Binary
  BY DEF Binary
<1>2. status = "running" /\ OpAt(function, ip) \in Binary
  BY <1>1 DEF do_eq, do_neq, do_and, do_or, Logical, At
<1>3. Calls!peek(0) = peek(0) /\ Calls!peek(1) = peek(1)
  BY <1>2, SameOperands
<1>4. CASE do_eq
  <2>1. Calls!Logical("OP_EQ", value_equal(strs, tuples, peek(1), peek(0)))
    BY <1>1, <1>4, LogicalRuns DEF do_eq
  <2>2. Calls!Logical("OP_EQ", Calls!value_equal(strs, tuples, peek(1), peek(0)))
    BY Zenon, <2>1, SameValues
  <2> QED BY Zenon, <1>3, <2>2 DEF Calls!logical
<1>5. CASE do_neq
  <2>1. Calls!Logical("OP_NEQ", ~value_equal(strs, tuples, peek(1), peek(0)))
    BY <1>1, <1>5, LogicalRuns DEF do_neq
  <2>2. Calls!Logical("OP_NEQ", ~Calls!value_equal(strs, tuples, peek(1), peek(0)))
    BY Zenon, <2>1, SameValues
  <2> QED BY Zenon, <1>3, <2>2 DEF Calls!logical
<1>6. CASE do_and
  <2>1. Calls!Logical("OP_AND", ~(is_falsy(peek(1)) \/ is_falsy(peek(0))))
    BY <1>1, <1>6, LogicalRuns DEF do_and
  <2>2. Calls!Logical("OP_AND", ~Calls!is_falsy(peek(1)) /\ ~Calls!is_falsy(peek(0)))
    BY <2>1, SameValues DEF Calls!Logical, Calls!bool_value
  <2> QED BY Zenon, <1>3, <2>2 DEF Calls!logical
<1>7. CASE do_or
  <2>1. Calls!Logical("OP_OR", ~(is_falsy(peek(1)) /\ is_falsy(peek(0))))
    BY <1>1, <1>7, LogicalRuns DEF do_or
  <2>2. Calls!Logical("OP_OR", ~Calls!is_falsy(peek(1)) \/ ~Calls!is_falsy(peek(0)))
    BY <2>1, SameValues DEF Calls!Logical, Calls!bool_value
  <2> QED BY Zenon, <1>3, <2>2 DEF Calls!logical
<1> QED BY <1>4, <1>5, <1>6, <1>7

LEMMA ComparisonRuns ==
  ASSUME IInv, TypeOK', Ordered, NEW op \in Binary, NEW accepted,
         Comparison(op, accepted)
  PROVE  Calls!Comparison(op, accepted)
<1>1. At(op) /\ status = "running" /\ OpAt(function, ip) \in Binary
  BY DEF Comparison, At
<1>2. CASE /\ Comparable(peek(1), peek(0))
           /\ \E cmp \in value_compare(strs, peek(1), peek(0)) :
                Reduce(bool_value(Sign(cmp) \in accepted))
           /\ UNCHANGED <<heap, out>>
  <2>1. PICK cmp \in value_compare(strs, peek(1), peek(0)) :
               Reduce(bool_value(Sign(cmp) \in accepted))
    BY <1>2
  <2>2. Calls!Gives(2, bool_value(Sign(cmp) \in accepted))
    BY <1>1, <1>2, <2>1, GivesRuns
  <2>3. cmp \in Calls!value_compare(strs, Calls!peek(1), Calls!peek(0))
    BY <1>1, <2>1, SameOperands, SameValues
  <2>4. Calls!Comparable(Calls!peek(1), Calls!peek(0))
    BY <1>1, <1>2, SameOperands, SameValues
  <2>5. Calls!Gives(2, Calls!bool_value(Calls!Sign(cmp) \in accepted))
    BY <2>2, SameValues
  <2>6. Calls!At(op)
    BY <1>1, SameInstruction
  <2> QED BY <2>3, <2>4, <2>5, <2>6 DEF Calls!Comparison
<1>3. CASE ~Comparable(peek(1), peek(0)) /\ Fail("cannot compare")
  BY <1>1, <1>3, FailRuns, SameOperands, SameValues, SameInstruction
     DEF Calls!Comparison
<1> QED BY <1>2, <1>3 DEF Comparison

LEMMA comparison_runs ==
  ASSUME IInv, TypeOK', Ordered, do_lt \/ do_gt \/ do_lte \/ do_gte
  PROVE  Calls!comparison
<1>1. {"OP_LT", "OP_GT", "OP_LTE", "OP_GTE"} \subseteq Binary
  BY DEF Binary
<1> QED BY <1>1, ComparisonRuns DEF do_lt, do_gt, do_lte, do_gte, Calls!comparison

(* An instruction that needs one operand has it.                           *)
LEMMA OneOperand ==
  ASSUME IInv, status = "running",
         OpAt(function, ip) \in {"OP_FIRST", "OP_SECOND", "OP_PRINT",
                                 "OP_JUMP_IF_FALSE"}
  PROVE  Calls!peek(0) = peek(0) /\ slots < top
<1>1. PICK p \in Programs : SafeAt(p, function, Depth[functions][function], ip)
  BY Instruction
<1>2. Depth[functions][function][ip] >= 1
  BY <1>1 DEF SafeAt
<1>3. 0 <= top - slots /\ slots < top
  BY <1>2, Registers
<1> QED BY <1>3, SamePeek

LEMMA ComponentRuns ==
  ASSUME IInv, TypeOK', Ordered, NEW op \in {"OP_FIRST", "OP_SECOND"},
         NEW name, NEW error, Component(op, name, error)
  PROVE  Calls!Component(op, name, error)
<1>1. /\ At(op) /\ status = "running"
      /\ Calls!peek(0) = peek(0)
  BY OneOperand DEF Component, At
<1>2. CASE /\ is_tuple(peek(0))
           /\ Store(top, tuples[peek(0).val][name], ip + 1)
           /\ UNCHANGED <<heap, out>>
  <2>1. PICK k \in Nat : k = top /\ k + 1 = top + 1 /\ slots <= k
    BY <1>1, Registers
  <2>2. Calls!Replace(1, tuples[peek(0).val][name], ip + 1)
    BY <1>1, <1>2, <2>1, ReplaceRuns
  <2> QED BY <1>1, <1>2, <2>2, SameValues, SameInstruction
          DEF Calls!Component, Calls!Gives, Calls!heap, heap
<1>3. CASE ~is_tuple(peek(0)) /\ Fail(error)
  BY <1>1, <1>3, FailRuns, SameValues, SameInstruction DEF Calls!Component
<1> QED BY <1>2, <1>3 DEF Component

LEMMA component_runs ==
  ASSUME IInv, TypeOK', Ordered, do_first \/ do_second
  PROVE  Calls!component
BY ComponentRuns DEF do_first, do_second, Calls!component

(* A step that writes no cell at all.                                      *)
LEMMA SameStack ==
  ASSUME UNCHANGED <<stack, frames, slots>>
  PROVE  Callers' = Callers
BY DEF Callers, From, Base

LEMMA do_print_runs ==
  ASSUME IInv, do_print
  PROVE  Calls!do_print
<1>1. At("OP_PRINT") /\ Calls!peek(0) = peek(0)
  BY OneOperand DEF do_print, At
<1>2. Cells' = Cells /\ Callers' = Callers
  BY SameStack DEF do_print, Cells, From
<1> QED BY <1>1, <1>2, SameInstruction DEF do_print, Calls!do_print, Calls!heap, heap

-----------------------------------------------------------------------------
(* Control.                                                                *)

LEMMA JumpRuns ==
  ASSUME IInv, TypeOK', status = "running", NEW n \in Nat,
         NEW k \in Nat, k + n = top, slots <= k, NEW next, Jump(k, next)
  PROVE  Calls!Jump(n, next)
<1>1. PICK s \in Nat, t \in Nat : s = slots /\ t = top /\ s <= t /\ slots' = s
  BY Registers DEF Jump
<1>2. /\ Cells' \in Seq(Value) /\ Len(Cells') = k - s + 1
      /\ \A j \in 1..Len(Cells') : Cells'[j] = stack'[s + j - 1]
  <2>1. top' = k /\ s <= k + 1
    BY <1>1 DEF Jump
  <2> QED BY <1>1, <2>1, OwnCellsNext
<1>3. /\ Cells \in Seq(Value) /\ Len(Cells) = t - s + 1
      /\ \A j \in 1..Len(Cells) : Cells[j] = stack[s + j - 1]
  BY <1>1, OwnCells
<1>4. /\ Len(Cells) - n \in 0..Len(Cells) /\ Len(Cells') = Len(Cells) - n
  BY <1>1, <1>2, <1>3
<1>5. ASSUME NEW j \in 1..Len(Cells') PROVE Cells'[j] = Cells[1 + j - 1]
  <2>1. j \in 1..Len(Cells) /\ 1 + j - 1 = j
    BY <1>3, <1>4
  <2> QED BY <1>2, <1>3, <2>1 DEF Jump
<1>6. Cells' = SubSeq(Cells, 1, Len(Cells) - n)
  BY <1>2, <1>3, <1>4, <1>5, PartIs
<1>7. Callers' = Callers
  BY SameStack DEF Jump
<1> QED BY <1>6, <1>7 DEF Jump, Calls!Jump, Calls!Under, Calls!heap, heap

LEMMA jump_runs ==
  ASSUME IInv, TypeOK', do_nop \/ do_jump \/ do_jump_if_false
  PROVE  Calls!jump
<1>1. status = "running"
  BY DEF do_nop, do_jump, do_jump_if_false, At
<1>2. PICK t \in Nat : t = top /\ t + 0 = top /\ slots <= t /\ slots \in Nat
  BY <1>1, Registers
<1>3. CASE do_nop
  <2>1. At("OP_NOP") /\ Calls!Jump(0, ip + 1)
    BY <1>1, <1>2, <1>3, JumpRuns DEF do_nop
  <2> QED BY <2>1, SameInstruction DEF Calls!jump
<1>4. CASE do_jump
  <2>1. At("OP_JUMP") /\ Calls!Jump(0, Word)
    BY <1>1, <1>2, <1>4, JumpRuns DEF do_jump
  <2> QED BY <2>1, SameInstruction DEF Calls!jump
<1>5. CASE do_jump_if_false
  <2>1. At("OP_JUMP_IF_FALSE") /\ Calls!peek(0) = peek(0) /\ slots < top
    BY <1>1, <1>5, OneOperand DEF do_jump_if_false, At
  <2>2. PICK k \in Nat : k = top - 1 /\ k + 1 = top /\ slots <= k
    <3>1. t - 1 \in Nat /\ (t - 1) + 1 = t /\ slots <= t - 1
      BY <1>2, <2>1
    <3> QED BY <1>2, <3>1
  <2>3. Calls!Jump(1, IF is_falsy(peek(0)) THEN Word ELSE ip + 3)
    BY <1>1, <1>5, <2>2, JumpRuns DEF do_jump_if_false
  <2> QED BY <2>1, <2>3, SameValues, SameInstruction DEF Calls!jump
<1> QED BY <1>3, <1>4, <1>5

(* What a closure captures of the activation.                              *)
LEMMA SameCapture ==
  ASSUME IInv, status = "running", top + 1 < StackSize,
         NEW m \in Nat, m <= top + 1 - slots,
         NEW child \in Function, CaptureSafe(function, m, child),
         NEW v \in Value, NEW i \in 1..Len(child.nonlocals)
  PROVE  Captured(child, Pushed(v))[i]
           = IF child.nonlocals[i].isLocal
             THEN Append(Cells, v)[child.nonlocals[i].index + 1]
             ELSE closures[cl].nonlocals[child.nonlocals[i].index + 1]
<1>1. child.nonlocals \in Seq([isLocal : BOOLEAN, index : Nat])
  BY DEF Function
<1>2. PICK nonlocal \in [isLocal : BOOLEAN, index : Nat] : nonlocal = child.nonlocals[i]
  BY <1>1, ElementTyped
<1>3. PICK index \in Nat : index = nonlocal.index
  BY <1>2
<1>4. CASE ~nonlocal.isLocal
  BY <1>2, <1>4 DEF Captured
<1>5. CASE nonlocal.isLocal
  <2>1. PICK s \in Nat, t \in Nat : s = slots /\ t = top /\ s <= t /\ t + 1 < StackSize
    BY Registers
  <2>2. index <= t + 1 - s
    BY <1>2, <1>3, <1>5, <2>1 DEF CaptureSafe
  <2>3. stack \in [0..(StackSize - 1) -> Value] /\ StackSize \in Nat
    BY SizeAssumption DEF IInv, TypeOK
  <2>4. s + index \in 0..(StackSize - 1) /\ t + 1 \in 0..(StackSize - 1)
    BY <2>1, <2>2, <2>3
  <2>5. Captured(child, Pushed(v))[i] = Pushed(v)[s + index]
    BY <1>2, <1>3, <1>5, <2>1, <2>4 DEF Captured
  <2>6. /\ Cells \in Seq(Value) /\ Len(Cells) = t - s + 1
        /\ \A j \in 1..Len(Cells) : Cells[j] = stack[s + j - 1]
    BY <2>1, OwnCells
  <2>7. CASE index = t + 1 - s
    <3>1. s + index = t + 1 /\ index + 1 = Len(Cells) + 1
      BY <2>1, <2>6, <2>7
    <3>2. Append(Cells, v)[index + 1] = v
      BY <2>6, <3>1
    <3>3. Pushed(v)[t + 1] = v
      BY <2>1, <2>3, <2>4 DEF Pushed
    <3> QED BY <1>2, <1>3, <1>5, <2>5, <3>1, <3>2, <3>3
  <2>8. CASE index # t + 1 - s
    <3>1. s + index # t + 1 /\ index + 1 \in 1..Len(Cells) /\ s + (index + 1) - 1 = s + index
      BY <2>1, <2>2, <2>6, <2>8
    <3>2. Append(Cells, v)[index + 1] = Cells[index + 1]
      BY <2>6, <3>1
    <3>3. Pushed(v)[s + index] = stack[s + index]
      BY <2>1, <2>3, <2>4, <3>1 DEF Pushed
    <3>4. Cells[index + 1] = stack[s + index]
      BY <2>6, <3>1
    <3> QED BY <1>2, <1>3, <1>5, <2>5, <3>2, <3>3, <3>4
  <2> QED BY <2>7, <2>8
<1> QED BY <1>4, <1>5

LEMMA do_closure_runs ==
  ASSUME IInv, TypeOK', Ordered, do_closure
  PROVE  Calls!do_closure
<1>1. /\ At("OP_CLOSURE") /\ status = "running" /\ OpAt(function, ip) = "OP_CLOSURE"
      /\ Calls!At("OP_CLOSURE")
  BY SameInstruction DEF do_closure, At
<1>2. CASE OutOfMemory
  BY <1>1, <1>2, OutOfMemoryRuns DEF Calls!do_closure
<1>3. CASE Fail("stack overflow")
  BY <1>1, <1>3, FailRuns DEF Calls!do_closure
<1>4. PICK f, v : /\ f = function.functions[Byte + 1]
                  /\ v = closure_value(Len(closures) + 1)
  OBVIOUS
<1>5. CASE /\ ~stack_is_full
           /\ Store(top + 1, v, ip + 2)
           /\ closures' = Append(closures,
                [fn |-> f, nonlocals |-> Captured(functions[f], Pushed(v))])
           /\ UNCHANGED <<strs, tuples, out>>
  <2>1. PICK child \in Function :
          /\ child = functions[f]
          /\ CaptureSafe(function, Depth[functions][function][ip] + 1, child)
    BY <1>1, <1>4, NewClosure
  <2>2. PICK k \in Nat : k = top + 1 /\ k + 0 = top + 1 /\ slots <= k
    BY <1>1, Registers
  <2>3. Calls!Replace(0, v, ip + 2)
    BY <1>1, <1>5, <2>2, ReplaceRuns
  <2>4. v \in Value
    BY <1>4 DEF closure_value, Plain, Value, Type, FLAG_NONE, IInv, TypeOK
  <2>5. top + 1 < StackSize
    BY <1>1, <1>5, Registers DEF stack_is_full
  <2>6. PICK m \in Nat : m <= top + 1 - slots /\ CaptureSafe(function, m, child)
    <3>1. PICK h \in Nat : h = Depth[functions][function][ip] /\ h <= top - slots
      BY <1>1, Registers
    <3>2. h + 1 \in Nat /\ h + 1 <= top + 1 - slots
      BY <1>1, <3>1, Registers
    <3> QED BY <2>1, <3>1, <3>2
  <2>7. ASSUME NEW i \in 1..Len(child.nonlocals)
        PROVE  Captured(child, Pushed(v))[i]
                 = IF child.nonlocals[i].isLocal
                   THEN Append(Cells, v)[child.nonlocals[i].index + 1]
                   ELSE closures[cl].nonlocals[child.nonlocals[i].index + 1]
    BY <1>1, <2>4, <2>5, <2>6, <2>7, SameCapture
  <2>8. Captured(child, Pushed(v))
          = [i \in 1..Len(child.nonlocals) |->
               IF child.nonlocals[i].isLocal
               THEN Append(Cells, v)[child.nonlocals[i].index + 1]
               ELSE closures[cl].nonlocals[child.nonlocals[i].index + 1]]
    <3>1. Captured(child, Pushed(v))
            = [i \in 1..Len(child.nonlocals) |-> Captured(child, Pushed(v))[i]]
      BY DEF Captured
    <3> QED BY <2>7, <3>1
  <2>9. closures' = Append(closures,
          [fn |-> f,
           nonlocals |-> [i \in 1..Len(child.nonlocals) |->
               IF child.nonlocals[i].isLocal
               THEN Append(Cells, v)[child.nonlocals[i].index + 1]
               ELSE closures[cl].nonlocals[child.nonlocals[i].index + 1]]])
    BY <1>5, <2>1, <2>8
  <2>10. /\ f = Calls!function.functions[Calls!Byte + 1]
         /\ v = Calls!closure_value(Len(closures) + 1)
    BY <1>4, SameInstruction, SameValues
  <2> QED BY Zenon, <1>1, <1>5, <2>1, <2>3, <2>9, <2>10 DEF Calls!do_closure
<1> QED BY <1>2, <1>3, <1>4, <1>5 DEF do_closure, Pushed

-----------------------------------------------------------------------------
(* Calls.                                                                  *)

(* The callee and its arguments are the last cells of the activation.      *)
LEMMA SameCalled ==
  ASSUME IInv, status = "running",
         OpAt(function, ip) \in {"OP_CALL", "OP_TAIL_CALL"}
  PROVE  /\ Calls!Called \in Seq(Value) /\ Len(Calls!Called) = Byte + 1
         /\ \A j \in 1..(Byte + 1) : /\ top - Byte + j - 1 \in 0..top
                                     /\ Calls!Called[j] = stack[top - Byte + j - 1]
         /\ Calls!Called[1] = Callee
<1>1. PICK s \in Nat, t \in Nat : s = slots /\ t = top /\ s <= t
  BY Registers
<1>2. PICK b \in Nat : b = Byte /\ t - b \in Nat /\ s < t - b /\ t - b <= t
  BY <1>1, CalleeInFrame
<1>3. /\ Cells \in Seq(Value) /\ Len(Cells) = t - s + 1
      /\ \A j \in 1..Len(Cells) : Cells[j] = stack[s + j - 1]
  BY <1>1, OwnCells
<1>4. PICK l \in Nat : l = Len(Cells) /\ l - b \in 1..l /\ l = t - s + 1
  BY <1>1, <1>2, <1>3
<1>5. Calls!Called = SubSeq(Cells, l - b, l)
  BY <1>2, <1>4, SameInstruction DEF Calls!Called
<1>6. /\ Calls!Called \in Seq(Value) /\ Len(Calls!Called) = b + 1
      /\ \A j \in 1..(b + 1) : Calls!Called[j] = Cells[l - b + j - 1]
  BY SMTT(40), <1>2, <1>3, <1>4, <1>5
<1>7. ASSUME NEW j \in 1..(b + 1)
      PROVE  /\ t - b + j - 1 \in 0..t
             /\ Calls!Called[j] = stack[t - b + j - 1]
  <2>1. /\ t - b + j - 1 \in 0..t /\ l - b + j - 1 \in 1..l
        /\ s + (l - b + j - 1) - 1 = t - b + j - 1
    BY <1>1, <1>2, <1>4
  <2> QED BY <1>3, <1>4, <1>6, <2>1
<1>8. Calls!Called[1] = Callee
  <2>1. 1 \in 1..(b + 1) /\ t - b + 1 - 1 = t - b
    BY <1>2
  <2>2. Calls!Called[1] = stack[t - b] /\ t - b \in 0..t
    BY <1>7, <2>1
  <2> QED BY <1>1, <1>2, <2>2, CellInUse DEF Callee
<1> QED BY <1>1, <1>2, <1>6, <1>7, <1>8

LEMMA SameCallee ==
  ASSUME IInv, status = "running",
         OpAt(function, ip) \in {"OP_CALL", "OP_TAIL_CALL"}
  PROVE  /\ CalleeError => Calls!CalleeError
         /\ Callable <=> Calls!Callable
<1>1. Calls!Called[1] = Callee
  BY SameCalled
<1>2. Callable <=> Calls!Callable
  BY <1>1, SameValues, SameInstruction DEF Callable, Calls!Callable
<1>3. CalleeError => Calls!CalleeError
  BY <1>1, <1>2, FailRuns, SameValues DEF CalleeError, Callable, Calls!CalleeError
<1> QED BY <1>2, <1>3

(* A sequence and the same with one more element.                          *)
LEMMA OneMore ==
  ASSUME NEW n \in Nat, NEW S, NEW s \in [1..n -> S], NEW t \in [1..(n + 1) -> S],
         \A k \in 1..n : t[k] = s[k]
  PROVE  /\ t = Append(s, t[n + 1]) /\ s = SubSeq(t, 1, n)
         /\ Len(s) = n /\ Len(t) = n + 1
<1>1. s \in Seq(S) /\ Len(s) = n /\ t \in Seq(S) /\ Len(t) = n + 1
  OBVIOUS
<1>2. t = Append(s, t[n + 1])
  <2>1. PICK v : v = t[Len(t)]
    OBVIOUS
  <2>2. Len(t) = Len(s) + 1 /\ \A j \in 1..Len(s) : t[j] = s[j]
    BY <1>1
  <2>3. t = Append(s, v)
    BY <1>1, <2>1, <2>2, LongerIs
  <2> QED BY <1>1, <2>1, <2>3
<1>3. s = SubSeq(t, 1, n)
  <2>1. /\ 1 \in 1..(Len(t) + 1) /\ n \in (1 - 1)..Len(t) /\ Len(s) = n - 1 + 1
    BY <1>1
  <2>2. ASSUME NEW j \in 1..Len(s) PROVE s[j] = t[1 + j - 1]
    <3>1. 1 + j - 1 = j /\ j \in 1..n
      BY <1>1
    <3> QED BY <3>1
  <2> QED BY <1>1, <2>1, <2>2, PartIs
<1> QED BY <1>1, <1>2, <1>3

LEMMA do_call_runs ==
  ASSUME IInv, TypeOK', Ordered, do_call
  PROVE  Calls!do_call
<1>1. /\ At("OP_CALL") /\ status = "running" /\ Calls!At("OP_CALL")
      /\ OpAt(function, ip) \in {"OP_CALL", "OP_TAIL_CALL"}
  BY SameInstruction DEF do_call, At
<1>2. PICK n \in Nat : n = Len(frames) /\ frames \in Seq([cl : Nat, ip : Nat, slots : Nat])
  BY DEF IInv, TypeOK
<1>3. DOMAIN Callers = 1..n /\ Callers \in [1..n -> {Callers[k] : k \in 1..n}]
  <2>1. DOMAIN Callers = 1..n /\ Callers = [k \in 1..n |-> Callers[k]]
    BY <1>2 DEF Callers
  <2> QED BY <2>1
<1>4. Callers \in Seq({Callers[k] : k \in 1..n}) /\ Len(Callers) = n
  BY <1>3
<1>5. CASE CalleeError
  BY <1>1, <1>5, SameCallee DEF Calls!do_call
<1>6. CASE Callable /\ callstack_is_full /\ Fail("too many nested calls")
  BY <1>1, <1>2, <1>4, <1>6, SameCallee, FailRuns DEF Calls!do_call, callstack_is_full
<1>7. CASE /\ Callable /\ ~callstack_is_full
           /\ frames' = Append(frames,
                               [cl |-> cl, ip |-> ip + 2, slots |-> slots])
           /\ cl' = Callee.val
           /\ ip' = 0
           /\ slots' = top - Byte
           /\ UNCHANGED <<functions, stack, top, heap, status, result, out>>
  <2>1. PICK s \in Nat, t \in Nat : s = slots /\ t = top /\ s <= t /\ t < StackSize
    BY <1>1, Registers
  <2>2. PICK b \in Nat : b = Byte /\ t - b \in Nat /\ s < t - b /\ t - b <= t
    BY <1>1, <2>1, CalleeInFrame
  <2>3. Calls!Callable /\ Len(Callers) # CallstackSize
    BY <1>1, <1>2, <1>4, <1>7, SameCallee DEF callstack_is_full
  <2>4. Cells' = Calls!Called
    <3>1. /\ Calls!Called \in Seq(Value) /\ Len(Calls!Called) = b + 1
          /\ \A j \in 1..(b + 1) : Calls!Called[j] = stack[t - b + j - 1]
      BY <1>1, <2>1, <2>2, SameCalled
    <3>2. /\ Cells' \in Seq(Value) /\ Len(Cells') = t - (t - b) + 1
          /\ \A j \in 1..Len(Cells') : Cells'[j] = stack'[(t - b) + j - 1]
      <4>1. slots' = t - b /\ top' = t /\ t - b <= t + 1
        BY <1>7, <2>1, <2>2
      <4> QED BY <4>1, OwnCellsNext
    <3>3. Len(Cells') = b + 1 /\ stack' = stack
      BY <1>7, <2>1, <2>2, <3>2
    <3>4. \A j \in 1..Len(Cells') : Cells'[j] = Calls!Called[j]
      BY <3>1, <3>2, <3>3
    <3> QED BY <3>1, <3>2, <3>3, <3>4, SeqEqual
  <2>5. /\ Len(frames') = n + 1 /\ \A k \in 1..n : frames'[k] = frames[k]
        /\ frames'[n + 1] = [cl |-> cl, ip |-> ip + 2, slots |-> slots]
    <3>1. [cl |-> cl, ip |-> ip + 2, slots |-> slots] \in [cl : Nat, ip : Nat, slots : Nat]
      BY <1>1, Registers DEF IInv, TypeOK
    <3> QED BY <1>2, <1>7, <3>1
  <2>6. ASSUME NEW k \in 1..n PROVE Callers'[k] = Callers[k]
    <3>1. k \in 1..(n + 1) /\ frames'[k] = frames[k]
      BY <2>5
    <3>2. Base(k)' = Base(k)
      <4>1. CASE k < n
        <5>1. k + 1 \in 1..n /\ k < n + 1
          BY <4>1
        <5> QED BY <1>2, <2>5, <4>1, <5>1 DEF Base
      <4>2. CASE k = n
        BY <1>2, <2>5, <4>2 DEF Base
      <4> QED BY <4>1, <4>2
    <3>3. From(frames[k].slots, Base(k) - frames[k].slots)'
            = From(frames[k].slots, Base(k) - frames[k].slots)
      BY <1>7, <3>1, <3>2 DEF From
    <3> QED BY <1>2, <2>5, <3>1, <3>3 DEF Callers
  <2>7. Callers'[n + 1] = [cl |-> cl, ip |-> ip + 2, cells |-> Calls!Under(Byte + 1)]
    <3>1. n + 1 \in 1..(n + 1) /\ Base(n + 1)' = t - b
      BY <1>7, <2>1, <2>2, <2>5 DEF Base
    <3>2. Callers'[n + 1] = [cl |-> cl, ip |-> ip + 2, cells |-> From(s, (t - b) - s)]
      <4>1. From(frames[n + 1].slots, Base(n + 1) - frames[n + 1].slots)'
              = From(s, (t - b) - s)
        BY <1>7, <2>1, <2>5, <3>1 DEF From
      <4> QED BY <2>5, <3>1, <4>1 DEF Callers
    <3>3. /\ Cells \in Seq(Value) /\ Len(Cells) = t - s + 1
          /\ \A j \in 1..Len(Cells) : Cells[j] = stack[s + j - 1]
      BY <1>1, <2>1, OwnCells
    <3>4. PICK m \in Nat : m = (t - b) - s /\ m = Len(Cells) - (b + 1) /\ s + m <= StackSize
                           /\ m \in 0..Len(Cells)
      <4>1. (t - b) - s \in Nat /\ (t - b) - s = Len(Cells) - (b + 1)
        BY <2>1, <2>2, <3>3
      <4>2. s + ((t - b) - s) = t - b
        BY <2>1, <2>2
      <4>3. StackSize \in Nat
        BY SizeAssumption
      <4> QED BY <2>1, <2>2, <3>3, <4>1, <4>2, <4>3
    <3>5. /\ From(s, m) \in Seq(Value) /\ Len(From(s, m)) = m
          /\ \A j \in 1..m : From(s, m)[j] = stack[s + j - 1]
      <4>1. stack \in [0..(StackSize - 1) -> Value] /\ StackSize \in Nat
        BY SizeAssumption DEF IInv, TypeOK
      <4>2. From(s, m) = [j \in 1..m |-> stack[s + j - 1]]
        BY DEF From
      <4> QED BY <3>4, <4>1, <4>2, Stretch
    <3>6. From(s, m) = SubSeq(Cells, 1, m)
      <4>1. ASSUME NEW j \in 1..Len(From(s, m)) PROVE From(s, m)[j] = Cells[1 + j - 1]
        <5>1. 1 + j - 1 = j /\ j \in 1..Len(Cells) /\ j \in 1..m
          BY SMTT(40), <3>3, <3>4, <3>5
        <5> QED BY <3>3, <3>5, <5>1
      <4>2. /\ 1 \in 1..(Len(Cells) + 1) /\ m \in (1 - 1)..Len(Cells)
            /\ Len(From(s, m)) = m - 1 + 1
        BY SMTT(40), <3>3, <3>4, <3>5
      <4> QED BY <3>3, <3>5, <4>1, <4>2, PartIs
    <3>7. Calls!Under(Byte + 1) = SubSeq(Cells, 1, m)
      BY <2>2, <3>4 DEF Calls!Under
    <3> QED BY <3>2, <3>4, <3>6, <3>7
  <2>8. Callers' = Append(Callers,
                     [cl |-> cl, ip |-> ip + 2, cells |-> Calls!Under(Byte + 1)])
    <3>1. PICK S : S = {Callers'[k] : k \in 1..(n + 1)}
      OBVIOUS
    <3>2. Callers' \in [1..(n + 1) -> S]
      <4>1. DOMAIN Callers' = 1..(n + 1) /\ Callers' = [k \in 1..(n + 1) |-> Callers'[k]]
        BY <2>5 DEF Callers
      <4> QED BY <3>1, <4>1
    <3>3. Callers \in [1..n -> S]
      <4>1. ASSUME NEW k \in 1..n PROVE Callers[k] \in S
        <5>1. k \in 1..(n + 1)
          OBVIOUS
        <5> QED BY <2>6, <3>1, <5>1
      <4> QED BY <1>3, <4>1
    <3>4. Callers' = Append(Callers, Callers'[n + 1])
      <4>1. PICK w : w = Callers'
        OBVIOUS
      <4> QED BY <2>6, <3>2, <3>3, <4>1, OneMore
    <3> QED BY <2>7, <3>4
  <2>9. Calls!Begin
    <3>1. Calls!Called[1] = Callee
      BY <1>1, SameCalled
    <3> QED BY <1>7, <2>4, <3>1 DEF Calls!Begin, Calls!heap, heap
  <2> QED BY <1>1, <2>3, <2>8, <2>9, SameInstruction DEF Calls!do_call
<1> QED BY <1>5, <1>6, <1>7 DEF do_call

LEMMA do_tail_call_runs ==
  ASSUME IInv, TypeOK', Ordered, CallerCellsStay, do_tail_call
  PROVE  Calls!do_tail_call
<1>1. /\ At("OP_TAIL_CALL") /\ status = "running" /\ Calls!At("OP_TAIL_CALL")
      /\ OpAt(function, ip) \in {"OP_CALL", "OP_TAIL_CALL"}
  BY SameInstruction DEF do_tail_call, At
<1>2. CASE CalleeError
  BY <1>1, <1>2, SameCallee DEF Calls!do_tail_call
<1>3. CASE /\ Callable
           /\ stack' = [i \in DOMAIN stack |->
                          IF i \in slots..(slots + Byte)
                          THEN cell(top - Byte + (i - slots)) ELSE stack[i]]
           /\ top' = slots + Byte
           /\ cl' = Callee.val
           /\ ip' = 0
           /\ UNCHANGED <<functions, frames, slots, heap, status, result, out>>
  <2>1. PICK s \in Nat, t \in Nat : s = slots /\ t = top /\ s <= t /\ t < StackSize
    BY <1>1, Registers
  <2>2. PICK b \in Nat : b = Byte /\ t - b \in Nat /\ s < t - b /\ t - b <= t
    BY <1>1, <2>1, CalleeInFrame
  <2>3. /\ Calls!Called \in Seq(Value) /\ Len(Calls!Called) = b + 1
        /\ \A j \in 1..(b + 1) : /\ t - b + j - 1 \in 0..t
                                 /\ Calls!Called[j] = stack[t - b + j - 1]
        /\ Calls!Called[1] = Callee
    BY <1>1, <2>1, <2>2, SameCalled
  <2>4. /\ Cells' \in Seq(Value) /\ Len(Cells') = s + b - s + 1
        /\ \A j \in 1..Len(Cells') : Cells'[j] = stack'[s + j - 1]
    <3>1. slots' = s /\ top' = s + b /\ s <= s + b + 1
      BY <1>3, <2>1, <2>2
    <3> QED BY <3>1, OwnCellsNext
  <2>5. Len(Cells') = b + 1
    BY <2>1, <2>2, <2>4
  <2>6. ASSUME NEW j \in 1..(b + 1) PROVE Cells'[j] = Calls!Called[j]
    <3>1. /\ s + j - 1 \in s..(s + b) /\ s + j - 1 \in 0..(StackSize - 1)
          /\ t - b + ((s + j - 1) - s) = t - b + j - 1
      <4>1. StackSize \in Nat
        BY SizeAssumption
      <4> QED BY <2>1, <2>2, <4>1
    <3>2. stack'[s + j - 1] = cell(t - b + ((s + j - 1) - s))
      <4>1. DOMAIN stack = 0..(StackSize - 1)
        BY DEF IInv, TypeOK
      <4> QED BY <1>3, <2>1, <2>2, <3>1, <4>1
    <3>3. cell(t - b + j - 1) = stack[t - b + j - 1]
      BY <2>1, <2>3, CellInUse
    <3> QED BY <2>3, <2>4, <2>5, <3>1, <3>2, <3>3
  <2>7. Cells' = Calls!Called
    BY <2>3, <2>4, <2>5, <2>6, SeqEqual
  <2>8. Callers' = Callers
    BY <1>1, <1>3, CallersSame
  <2>9. Calls!Begin
    BY <1>3, <2>3, <2>7 DEF Calls!Begin, Calls!heap, heap
  <2> QED BY <1>1, <1>3, <2>8, <2>9, SameCallee DEF Calls!do_tail_call
<1> QED BY <1>2, <1>3 DEF do_tail_call

LEMMA do_return_runs ==
  ASSUME IInv, TypeOK', Ordered, CallerCellsStay, do_return
  PROVE  Calls!do_return
<1>1. At("OP_RETURN") /\ status = "running" /\ Calls!At("OP_RETURN")
  BY SameInstruction DEF do_return, At
<1>2. frames \in Seq([cl : Nat, ip : Nat, slots : Nat])
  BY DEF IInv, TypeOK
<1>3. CASE /\ frames = <<>>
           /\ status' = "halted"
           /\ UNCHANGED <<functions, stack, top, frames, cl, ip, slots, heap,
                          result, out>>
  <2>1. Callers = <<>>
    BY <1>3 DEF Callers
  <2>2. Calls!Stop("halted", result)
    BY <1>3, StopRuns
  <2> QED BY <1>1, <2>1, <2>2 DEF Calls!do_return
<1>4. CASE /\ frames # <<>>
           /\ cl' = frames[Len(frames)].cl
           /\ ip' = frames[Len(frames)].ip
           /\ slots' = frames[Len(frames)].slots
           /\ frames' = SubSeq(frames, 1, Len(frames) - 1)
           /\ stack' = [stack EXCEPT ![slots] = peek(0)]
           /\ top' = slots
           /\ UNCHANGED <<functions, heap, status, result, out>>
  <2>1. PICK n \in Nat : n + 1 = Len(frames)
    <3>1. Len(frames) - 1 \in Nat /\ (Len(frames) - 1) + 1 = Len(frames)
      BY <1>2, <1>4
    <3> QED BY <3>1
  <2>2. Len(frames') = n /\ \A k \in 1..n : frames'[k] = frames[k]
    <3>1. Len(frames) - 1 = n /\ n \in 0..Len(frames)
      BY <2>1
    <3>2. frames' = SubSeq(frames, 1, n)
      BY <1>4, <3>1
    <3> QED BY <1>2, <3>1, <3>2
  <2>3. PICK s \in Nat, t \in Nat : s = slots /\ t = top /\ s <= t /\ t < StackSize
    BY <1>1, Registers
  <2>4. n + 1 \in 1..Len(frames) /\ Base(n + 1) = s
    BY <2>1, <2>3 DEF Base
  <2>5. PICK f \in Nat : f = frames[n + 1].slots /\ f < s
    BY <1>1, <2>4, WaitingCells
  <2>6. PICK m \in Nat : m = s - f /\ f + m = s
    BY <2>3, <2>5
  <2>7. Callers[n + 1] = [cl |-> frames[n + 1].cl, ip |-> frames[n + 1].ip,
                          cells |-> From(f, m)]
    BY <2>1, <2>4, <2>5, <2>6 DEF Callers
  <2>8. /\ stack \in [0..(StackSize - 1) -> Value] /\ StackSize \in Nat
        /\ s \in 0..(StackSize - 1)
    <3>1. stack \in [0..(StackSize - 1) -> Value]
      BY DEF IInv, TypeOK
    <3>2. StackSize \in Nat /\ s \in 0..(StackSize - 1)
      BY <2>3, SizeAssumption
    <3> QED BY <3>1, <3>2
  <2>9. /\ From(f, m) \in Seq(Value) /\ Len(From(f, m)) = m
        /\ \A j \in 1..m : From(f, m)[j] = stack[f + j - 1]
    <3>1. f + m <= StackSize
      BY <2>6, <2>8
    <3>2. From(f, m) = [j \in 1..m |-> stack[f + j - 1]]
      BY DEF From
    <3> QED BY <2>8, <3>1, <3>2, Stretch
  <2>10. Cells' = Append(From(f, m), peek(0))
    <3>1. /\ Cells' \in Seq(Value) /\ Len(Cells') = s - f + 1
          /\ \A j \in 1..Len(Cells') : Cells'[j] = stack'[f + j - 1]
      <4>1. slots' = f /\ top' = s /\ f <= s + 1
        BY <1>4, <2>1, <2>3, <2>5
      <4> QED BY <4>1, OwnCellsNext
    <3>2. Len(Cells') = m + 1
      BY <2>6, <3>1
    <3>3. ASSUME NEW j \in 1..m PROVE Cells'[j] = From(f, m)[j]
      <4>1. f + j - 1 \in 0..(StackSize - 1) /\ f + j - 1 # s /\ j \in 1..Len(Cells')
        BY <2>6, <2>8, <3>2
      <4> QED BY <1>4, <2>3, <2>8, <2>9, <3>1, <4>1
    <3>4. Cells'[m + 1] = peek(0)
      <4>1. m + 1 \in 1..Len(Cells') /\ f + (m + 1) - 1 = s
        BY <2>6, <3>2
      <4>2. stack'[s] = peek(0)
        BY <1>4, <2>3, <2>8
      <4> QED BY <3>1, <4>1, <4>2
    <3>5. PICK u : u = Cells'
      OBVIOUS
    <3>6. u \in Seq(Value) /\ Len(u) = Len(From(f, m)) + 1
          /\ (\A j \in 1..Len(From(f, m)) : u[j] = From(f, m)[j])
          /\ u[Len(u)] = peek(0)
      BY <2>9, <3>1, <3>2, <3>3, <3>4, <3>5
    <3>7. u = Append(From(f, m), peek(0))
      BY <2>9, <3>6, LongerIs
    <3> QED BY <3>5, <3>7
  <2>11. ASSUME NEW k \in 1..n PROVE Callers'[k] = Callers[k]
    <3>1. k \in 1..(n + 1) /\ k \in 1..Len(frames) /\ frames'[k] = frames[k] /\ k < Len(frames)
      BY <2>1, <2>2
    <3>2. Base(k)' = Base(k)
      <4>1. CASE k < n
        <5>1. k + 1 \in 1..n
          BY <4>1
        <5> QED BY <2>2, <3>1, <4>1, <5>1 DEF Base
      <4>2. CASE k = n
        BY <1>4, <2>1, <2>2, <3>1, <4>2 DEF Base
      <4> QED BY <4>1, <4>2
    <3>3. From(frames[k].slots, Base(k) - frames[k].slots)'
            = From(frames[k].slots, Base(k) - frames[k].slots)
      BY <1>1, <3>1, <3>2, WaitingStays DEF From
    <3> QED BY <2>1, <2>2, <3>1, <3>3 DEF Callers
  <2>12. /\ Callers' = SubSeq(Callers, 1, n)
         /\ Len(Callers) = n + 1
    <3>1. PICK S : S = {Callers[k] : k \in 1..(n + 1)}
      OBVIOUS
    <3>2. Callers \in [1..(n + 1) -> S]
      <4>1. DOMAIN Callers = 1..(n + 1) /\ Callers = [k \in 1..(n + 1) |-> Callers[k]]
        BY <2>1 DEF Callers
      <4> QED BY <3>1, <4>1
    <3>3. PICK w : w = Callers'
      OBVIOUS
    <3>4. w \in [1..n -> S]
      <4>1. DOMAIN w = 1..n /\ w = [k \in 1..n |-> w[k]]
        BY <2>2, <3>3 DEF Callers
      <4>2. ASSUME NEW k \in 1..n PROVE w[k] \in S
        <5>1. k \in 1..(n + 1)
          OBVIOUS
        <5> QED BY <2>11, <3>1, <3>3, <5>1
      <4> QED BY <4>1, <4>2
    <3>5. \A k \in 1..n : Callers[k] = w[k]
      BY <2>11, <3>3
    <3> QED BY <3>2, <3>3, <3>4, <3>5, OneMore
  <2>13. Callers # <<>> /\ Len(Callers) - 1 = n
    BY <2>12
  <2>14. Calls!peek(0) = peek(0)
    BY <1>1, <2>3, SamePeek
  <2> QED BY <1>1, <1>4, <2>1, <2>7, <2>10, <2>12, <2>13, <2>14
          DEF Calls!do_return, Calls!heap, heap
<1> QED BY <1>3, <1>4 DEF do_return

-----------------------------------------------------------------------------
(* The order of the activations.                                           *)

LEMMA OrderedSame ==
  ASSUME Ordered, UNCHANGED <<frames, slots>>
  PROVE  Ordered'
BY DEF Ordered, Base

LEMMA OrderedCall ==
  ASSUME IInv, Ordered, status = "running", NEW frame \in [cl : Nat, ip : Nat, slots : Nat],
         frame.slots = slots, frames' = Append(frames, frame),
         slots' \in Nat, slots <= slots'
  PROVE  Ordered'
<1>1. PICK n \in Nat : n = Len(frames) /\ frames \in Seq([cl : Nat, ip : Nat, slots : Nat])
  BY DEF IInv, TypeOK
<1>2. /\ Len(frames') = n + 1 /\ \A k \in 1..n : frames'[k] = frames[k]
      /\ frames'[n + 1] = frame
  BY <1>1
<1>3. ASSUME NEW k \in 1..n
      PROVE  Base(k)' = Base(k) /\ Base(k) \in Nat /\ Base(k) <= slots
  <2>1. CASE k < n
    <3>1. k + 1 \in 1..n /\ k < n + 1
      BY <2>1
    <3> QED BY <1>1, <1>2, <2>1, <3>1, WaitingCells DEF Base
  <2>2. CASE k = n
    BY <1>1, <1>2, <2>2, WaitingCells DEF Base
  <2> QED BY <2>1, <2>2
<1>4. Base(n + 1)' = slots'
  BY <1>2 DEF Base
<1>5. SUFFICES ASSUME NEW j \in 1..(n + 1), NEW k \in 1..(n + 1), j <= k
               PROVE  Base(j)' <= Base(k)'
  BY <1>2 DEF Ordered
<1>6. slots \in Nat
  BY Registers
<1>7. CASE k \in 1..n
  <2>1. j \in 1..n
    BY <1>5, <1>7
  <2> QED BY <1>1, <1>3, <1>5, <1>7, <2>1 DEF Ordered
<1>8. CASE k = n + 1 /\ j \in 1..n
  BY <1>3, <1>4, <1>6, <1>8
<1>9. CASE k = n + 1 /\ j = n + 1
  BY <1>4, <1>9
<1> QED BY <1>5, <1>7, <1>8, <1>9

LEMMA OrderedReturn ==
  ASSUME IInv, Ordered, frames # <<>>, slots' = frames[Len(frames)].slots,
         frames' = SubSeq(frames, 1, Len(frames) - 1)
  PROVE  Ordered'
<1>1. frames \in Seq([cl : Nat, ip : Nat, slots : Nat])
  BY DEF IInv, TypeOK
<1>2. PICK n \in Nat : n + 1 = Len(frames) /\ Len(frames) - 1 = n /\ n \in 0..Len(frames)
  <2>1. Len(frames) \in Nat /\ Len(frames) # 0
    BY <1>1
  <2>2. \A l \in Nat : l # 0 => /\ l - 1 \in Nat /\ (l - 1) + 1 = l
                               /\ l - 1 \in 0..l
    OBVIOUS
  <2> QED BY <2>1, <2>2
<1>3. Len(frames') = n /\ \A k \in 1..n : frames'[k] = frames[k]
  <2>1. frames' = SubSeq(frames, 1, n)
    BY <1>2
  <2> QED BY SMTT(40), <1>1, <1>2, <2>1
<1>4. ASSUME NEW k \in 1..n PROVE Base(k)' = Base(k)
  <2>1. k < Len(frames)
    BY <1>2
  <2>2. CASE k < n
    <3>1. k + 1 \in 1..n
      BY <2>2
    <3> QED BY <1>3, <2>1, <2>2, <3>1 DEF Base
  <2>3. CASE k = n
    BY <1>2, <1>3, <2>1, <2>3 DEF Base
  <2> QED BY <2>2, <2>3
<1>5. SUFFICES ASSUME NEW j \in 1..n, NEW k \in 1..n, j <= k
               PROVE  Base(j)' <= Base(k)'
  BY <1>3 DEF Ordered
<1>6. j \in 1..Len(frames) /\ k \in 1..Len(frames)
  BY <1>2
<1> QED BY <1>4, <1>5, <1>6 DEF Ordered

LEMMA OrderedNext ==
  ASSUME IInv, Ordered, [Next]_vars
  PROVE  Ordered'
<1>1. CASE UNCHANGED <<frames, slots>>
  BY <1>1, OrderedSame
<1>2. CASE do_call
  <2>1. status = "running" /\ OpAt(function, ip) \in {"OP_CALL", "OP_TAIL_CALL"}
    BY <1>2 DEF do_call, At
  <2>2. CASE /\ frames' = Append(frames,
                            [cl |-> cl, ip |-> ip + 2, slots |-> slots])
             /\ slots' = top - Byte
    <3>1. top - Byte \in Nat /\ slots <= top - Byte
      BY <2>1, CalleeInFrame, Registers
    <3>2. [cl |-> cl, ip |-> ip + 2, slots |-> slots] \in [cl : Nat, ip : Nat, slots : Nat]
      BY DEF IInv, TypeOK
    <3> QED BY <2>1, <2>2, <3>1, <3>2, OrderedCall
  <2> QED BY <1>1, <1>2, <2>2 DEF do_call, CalleeError, Fail
<1>3. CASE do_return
  BY <1>1, <1>3, OrderedReturn DEF do_return
<1>4. CASE vm_init \/ vm_run
  BY <1>1, <1>4 DEF vm_init, vm_run, OutOfMemory, Fail
<1>5. CASE do_nop \/ do_jump \/ do_jump_if_false \/ do_print
  BY <1>1, <1>5 DEF do_nop, do_jump, do_jump_if_false, do_print, Jump
<1>6. CASE do_false \/ do_true \/ do_int \/ do_constant \/ do_local \/ do_nonlocal
  BY <1>1, <1>6 DEF do_false, do_true, do_int, do_constant, do_local, do_nonlocal,
     push, Store, Fail
<1>7. CASE do_tuple \/ do_closure \/ do_add
  BY <1>1, <1>7 DEF do_tuple, do_closure, do_add, Reduce, Store, OutOfMemory, Fail
<1>8. CASE do_sub \/ do_mul \/ do_div \/ do_rem
  BY <1>1, <1>8 DEF do_sub, do_mul, do_div, do_rem, Arithmetic, Division, Reduce,
     Store, Fail, Trap
<1>9. CASE do_eq \/ do_neq \/ do_and \/ do_or
  BY <1>1, <1>9 DEF do_eq, do_neq, do_and, do_or, Logical, Reduce, Store
<1>10. CASE do_lt \/ do_gt \/ do_lte \/ do_gte
  BY <1>1, <1>10 DEF do_lt, do_gt, do_lte, do_gte, Comparison, Reduce, Store, Fail
<1>11. CASE do_first \/ do_second
  BY <1>1, <1>11 DEF do_first, do_second, Component, Store, Fail
<1>12. CASE do_tail_call
  BY <1>1, <1>12 DEF do_tail_call, CalleeError, Fail
<1>13. CASE UNCHANGED vars
  BY <1>1, <1>13 DEF vars
<1> QED BY <1>2, <1>3, <1>4, <1>5, <1>6, <1>7, <1>8, <1>9, <1>10, <1>11, <1>12, <1>13
        DEF Next, Ended

-----------------------------------------------------------------------------
(* The refinement.                                                         *)

LEMMA InitRuns ==
  ASSUME Init
  PROVE  Calls!Init /\ Ordered
<1>1. /\ top = -1 /\ slots = 0 /\ frames = <<>> /\ cl = 1 /\ ip = 0
      /\ tuples = <<>> /\ closures = <<[fn |-> 1, nonlocals |-> <<>>]>>
      /\ status = "idle" /\ result = "ok" /\ out = <<>>
      /\ \E p \in Programs : functions = p.functions /\ strs = p.strs
  BY DEF Init, Fresh
<1>2. Cells = <<>>
  <2>1. -1 - 0 + 1 = 0 /\ 1..0 = {}
    OBVIOUS
  <2> QED BY <1>1, <2>1 DEF Cells, From
<1>3. Callers = <<>>
  BY <1>1 DEF Callers
<1>4. Ordered
  BY <1>1 DEF Ordered
<1> QED BY <1>1, <1>2, <1>3, <1>4 DEF Calls!Init

(* Each step is a step of the running activation, or none at all.          *)
LEMMA StepRuns ==
  ASSUME IInv, Ordered, [Next]_vars
  PROVE  [Calls!Next]_(Calls!vars)
<1>1. TypeOK'
  BY NextInv DEF IInv
<1>2. CASE vm_init
  BY <1>2, vm_init_runs DEF Calls!Next
<1>3. CASE vm_run
  BY <1>3, vm_run_runs DEF Calls!Next
<1>4. CASE do_false \/ do_true \/ do_int \/ do_constant \/ do_local \/ do_nonlocal
  BY <1>1, <1>4, LoadRuns DEF Calls!Next
<1>5. CASE do_tuple \/ do_closure \/ do_add
  BY <1>1, <1>5, do_tuple_runs, do_closure_runs, do_add_runs DEF Calls!Next
<1>6. CASE do_sub \/ do_mul \/ do_div \/ do_rem
  BY <1>1, <1>6, arithmetic_runs DEF Calls!Next
<1>7. CASE do_eq \/ do_neq \/ do_and \/ do_or
  BY <1>1, <1>7, logical_runs DEF Calls!Next
<1>8. CASE do_lt \/ do_gt \/ do_lte \/ do_gte
  BY <1>1, <1>8, comparison_runs DEF Calls!Next
<1>9. CASE do_first \/ do_second
  BY <1>1, <1>9, component_runs DEF Calls!Next
<1>10. CASE do_print
  BY <1>10, do_print_runs DEF Calls!Next
<1>11. CASE do_nop \/ do_jump \/ do_jump_if_false
  BY <1>1, <1>11, jump_runs DEF Calls!Next
<1>12. CASE do_call \/ do_tail_call \/ do_return
  <2>1. CallerCellsStay
    BY <1>12, CallersStay DEF Next
  <2> QED BY <1>1, <1>12, <2>1, do_call_runs, do_tail_call_runs, do_return_runs
          DEF Calls!Next
<1>13. CASE UNCHANGED vars
  <2>1. Cells' = Cells /\ Callers' = Callers
    BY <1>13 DEF vars, Cells, Callers, From, Base
  <2> QED BY <1>13, <2>1 DEF vars, Calls!vars, Calls!heap
<1> QED BY <1>2, <1>3, <1>4, <1>5, <1>6, <1>7, <1>8, <1>9, <1>10, <1>11, <1>12, <1>13
        DEF Next, Ended

(* Theorem: whatever certified program the machine runs, each step does to *)
(* the running activation, and to the ones that wait, what it would do if  *)
(* they did not share a stack.                                             *)
THEOREM VMRunsInActivations == Spec => RunsInActivations
<1>1. Init => Calls!Init /\ Ordered
  BY InitRuns
<1>2. IInv /\ Ordered /\ [Next]_vars => Ordered'
  BY OrderedNext
<1>3. IInv /\ Ordered /\ [Next]_vars => [Calls!Next]_(Calls!vars)
  BY StepRuns
<1> QED
  BY <1>1, <1>2, <1>3, VMInvariant, PTL DEF Spec, RunsInActivations, Calls!Spec
=============================================================================
