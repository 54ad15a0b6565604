---------------------------- MODULE LayoutProofs ----------------------------
(***************************************************************************)
(* The two layouts of a value agree, for every width of ints and pointers  *)
(* that LayoutAssumption admits, and so does all that the machine keeps:   *)
(* no operation leaves the range of its type.  The blocks of closures hold *)
(* what the machine writes and reads there in one build, and are short by  *)
(* a known number of bytes in the other.                                   *)
(***************************************************************************)
EXTENDS VMLayout, VMProofs

(* A value that the program can make: a bool is 0 or 1, an int is an int,  *)
(* and an address leaves the four highest bits free.                       *)
Representable(v) ==
  /\ v \in Value
  /\ InRange(v)
  /\ v.type \in {"str", "tuple", "closure"} => v.val \in Nat /\ 16 * v.val + 15 <= INT64_MAX

(* A number that fits is not changed.                                      *)
LEMMA WithinModulus ==
  ASSUME NEW x \in Int, NEW m \in Nat \ {0}, -m <= x, x <= m - 1
  PROVE  ((x + m) % (2 * m)) - m = x
<1>1. x + m \in 0..(2 * m - 1)
  OBVIOUS
<1>2. ASSUME NEW y \in Nat, NEW d \in Nat \ {0}, y < d
      PROVE  y % d = y
  BY <1>2
<1>3. (x + m) % (2 * m) = x + m
  BY <1>1, <1>2
<1> QED BY <1>3

(* Four bits beside the payload can be told from it.                       *)
LEMMA Parts ==
  ASSUME NEW x \in Int, NEW f \in {0, 1}, NEW t \in 0..4
  PROVE  /\ (16 * x + 8 * f + t) % 8 = t
         /\ ((16 * x + 8 * f + t) \div 8) % 2 = f
         /\ (16 * x + 8 * f + t) \div 16 = x
OBVIOUS

LEMMA TypesByNumber ==
  ASSUME NEW t \in Type
  PROVE  /\ TypeNumber[t] \in 0..4
         /\ \A u \in Type : TypeNumber[u] = TypeNumber[t] => u = t
BY DEF Type, TypeNumber

(* Theorem: a value that the program can make survives tagging, whatever   *)
(* its type, flag and payload.                                             *)
THEOREM ValuesSurviveTagging ==
  ASSUME NEW v, Representable(v)
  PROVE  SurvivesTagging(v)
<1> DEFINE b == 16 * v.val + 8 * v.flags + TypeNumber[v.type]
<1>1. /\ v.type \in Type /\ v.flags \in {0, 1} /\ v.val \in Int
      /\ v = [type |-> v.type, flags |-> v.flags, val |-> v.val]
  BY DEF Representable, Value, FLAG_NONE, FLAG_FALSY
<1>2. TypeNumber[v.type] \in 0..4
  BY <1>1, TypesByNumber
<1>3. INT_MAX \in Nat /\ INT_MIN = -INT_MAX - 1 /\ INT64_MAX \in Nat
      /\ 16 * INT_MAX + 15 <= INT64_MAX
  BY IntAssumption, LayoutAssumption DEF INT_MIN
<1>4. v.type \in {"bool", "int", "str", "tuple", "closure"}
  BY <1>1 DEF Type
<1>5. /\ b \in Int /\ -(INT64_MAX + 1) <= b /\ b <= INT64_MAX
  <2>1. -INT_MAX - 1 <= v.val /\ 16 * v.val + 15 <= INT64_MAX
    <3>1. CASE v.type = "bool"
      BY <1>3, <3>1, IntAssumption DEF Representable, InRange
    <3>2. CASE v.type = "int"
      BY <1>1, <1>3, <3>2 DEF Representable, InRange
    <3>3. CASE v.type \in {"str", "tuple", "closure"}
      BY <1>1, <1>3, <3>3 DEF Representable, InRange
    <3> QED BY <1>4, <3>1, <3>2, <3>3
  <2> QED BY <1>1, <1>2, <1>3, <2>1
<1>6. bits(v) = b
  <2>1. INT64_MAX + 1 \in Nat \ {0} /\ b <= (INT64_MAX + 1) - 1
    BY <1>3, <1>5
  <2> HIDE DEF b
  <2>2. ((b + (INT64_MAX + 1)) % (2 * (INT64_MAX + 1))) - (INT64_MAX + 1) = b
    BY <1>5, <2>1, WithinModulus
  <2>3. Wrap64(b) = b
    <3>1. b + INT64_MAX + 1 = b + (INT64_MAX + 1)
      BY <1>3, <1>5
    <3>2. ((b + (INT64_MAX + 1)) % (2 * (INT64_MAX + 1))) \in Int
      BY <1>3, <1>5, <2>1
    <3> QED BY <1>3, <1>5, <2>2, <3>1, <3>2 DEF Wrap64
  <2> QED BY <2>3 DEF bits, b
<1>7. /\ b % 8 = TypeNumber[v.type]
      /\ (b \div 8) % 2 = v.flags
      /\ b \div 16 = v.val
  <2>1. PICK x \in Int : x = v.val
    BY <1>1
  <2>2. PICK f \in {0, 1} : f = v.flags
    BY <1>1
  <2>3. PICK t \in 0..4 : t = TypeNumber[v.type]
    BY <1>2
  <2>4. /\ (16 * x + 8 * f + t) % 8 = t
        /\ ((16 * x + 8 * f + t) \div 8) % 2 = f
        /\ (16 * x + 8 * f + t) \div 16 = x
    BY SMTT(40), Parts
  <2> QED BY <2>1, <2>2, <2>3, <2>4, Zenon
<1> HIDE DEF b
<1>8. type(b) = v.type
  BY <1>1, <1>7, TypesByNumber DEF type
<1>9. flags(b) = v.flags
  BY <1>7 DEF flags
<1>10. payload(b) = v.val
  <2>1. CASE v.type = "bool"
    BY <1>7, <1>8, <2>1 DEF payload, Representable, InRange
  <2>2. CASE v.type = "int"
    <3>1. v.val \in INT_MIN..INT_MAX
      BY <2>2 DEF Representable, InRange
    <3>2. ((v.val + (INT_MAX + 1)) % (2 * (INT_MAX + 1))) - (INT_MAX + 1) = v.val
      BY <1>1, <1>3, <3>1, WithinModulus
    <3>3. v.val - INT_MIN = v.val + (INT_MAX + 1)
      BY <1>1, <1>3
    <3>4. ((v.val + (INT_MAX + 1)) % (2 * (INT_MAX + 1))) \in Int
      BY <1>1, <1>3
    <3>5. Wrap(v.val) = v.val
      BY <1>1, <1>3, <3>2, <3>3, <3>4 DEF Wrap
    <3> QED BY <1>7, <1>8, <2>2, <3>5 DEF payload
  <2>3. CASE v.type \notin {"bool", "int"}
    BY <1>7, <1>8, <2>3 DEF payload
  <2> QED BY <2>1, <2>2, <2>3
<1> QED BY <1>1, <1>6, <1>8, <1>9, <1>10 DEF SurvivesTagging, Untagged

(* Theorem: different values have different bits.                          *)
THEOREM BitsTellValuesApart ==
  ASSUME NEW v, NEW w, Representable(v), Representable(w), bits(v) = bits(w)
  PROVE  v = w
BY ValuesSurviveTagging DEF SurvivesTagging

-----------------------------------------------------------------------------
(* The numbers of a run.                                                   *)

(* C arithmetic stays within its type: what overflows is wrapped.          *)
LEMMA WrapInRange ==
  ASSUME NEW n \in Int
  PROVE  Wrap(n) \in INT_MIN..INT_MAX
<1>1. INT_MAX \in Nat /\ INT_MIN = -INT_MAX - 1 /\ 2 * (INT_MAX + 1) \in Nat \ {0}
  BY IntAssumption DEF INT_MIN
<1>2. \A x \in Int, m \in Nat \ {0} : x % m \in 0..(m - 1)
  OBVIOUS
<1>3. (n - INT_MIN) % (2 * (INT_MAX + 1)) \in 0..(2 * (INT_MAX + 1) - 1)
  BY <1>1, <1>2
<1> QED BY <1>1, <1>3 DEF Wrap

(* The quotient of two naturals, by what is left.                          *)
LEMMA NaturalQuotient ==
  ASSUME NEW x \in Nat, NEW y \in Nat \ {0}
  PROVE  /\ x \div y \in Nat
         /\ y * (x \div y) \in Nat
         /\ y * (x \div y) <= x
         /\ x < y * (x \div y) + y
         /\ x \div y <= x
         /\ y >= 2 => 2 * (x \div y) <= x
<1>1. PICK q \in Nat : q = x \div y
  OBVIOUS
<1>2. x = y * q + (x % y) /\ (x % y) \in 0..(y - 1)
  BY <1>1
<1>3. y * q \in Nat /\ y * q <= x /\ x < y * q + y
  BY <1>2
<1>4. q <= y * q
  <2>1. PICK z \in Nat : y = z + 1
    <3>1. y - 1 \in Nat /\ y = (y - 1) + 1
      OBVIOUS
    <3> QED BY <3>1
  <2>2. y * q = z * q + q /\ z * q \in Nat
    BY <2>1
  <2> QED BY <2>2
<1>5. y >= 2 => 2 * q <= y * q
  <2>1. SUFFICES ASSUME y >= 2 PROVE 2 * q <= y * q
    OBVIOUS
  <2>2. PICK z \in Nat : y = z + 2
    <3>1. y - 2 \in Nat /\ y = (y - 2) + 2
      BY <2>1
    <3> QED BY <3>1
  <2>3. y * q = z * q + 2 * q /\ z * q \in Nat
    BY <2>2
  <2> QED BY <2>3
<1> QED BY <1>1, <1>3, <1>4, <1>5

(* A division that does not trap stays within ints, and so does its        *)
(* remainder: INT_MIN / -1 is the only quotient that would not.            *)
LEMMA DivisionInRange ==
  ASSUME NEW a \in INT_MIN..INT_MAX, NEW b \in INT_MIN..INT_MAX, ~DivisionTraps(a, b)
  PROVE  Quotient(a, b) \in INT_MIN..INT_MAX /\ Remainder(a, b) \in INT_MIN..INT_MAX
<1>1. INT_MAX \in Nat /\ INT_MAX >= 1 /\ INT_MIN = -INT_MAX - 1
  BY IntAssumption DEF INT_MIN
<1>2. a \in Int /\ b \in Int /\ b # 0 /\ ~(a = INT_MIN /\ b = -1)
  BY <1>1 DEF DivisionTraps
<1>3. PICK x \in Nat : x = Abs(a)
  BY <1>2 DEF Abs
<1>4. PICK y \in Nat \ {0} : y = Abs(b)
  BY <1>2 DEF Abs
<1>5. PICK q \in Nat : q = x \div y
  BY NaturalQuotient
<1>6. PICK m \in Nat : m = y * q
  BY <1>5
<1>7. m <= x /\ x < m + y /\ q <= x /\ (y >= 2 => 2 * q <= x)
  BY <1>5, <1>6, NaturalQuotient
<1>8. (a = x \/ a = -x) /\ (b = y \/ b = -y)
  BY <1>2, <1>3, <1>4 DEF Abs
<1>9. Quotient(a, b) = q \/ Quotient(a, b) = -q
  BY <1>3, <1>4, <1>5 DEF Quotient
<1>10. Quotient(a, b) \in INT_MIN..INT_MAX
  <2>1. CASE x <= INT_MAX
    BY <1>1, <1>7, <1>9, <2>1
  <2>2. CASE x > INT_MAX
    <3>1. a = INT_MIN /\ x = INT_MAX + 1
      BY <1>1, <1>2, <1>8, <2>2
    <3>2. CASE y >= 2
      BY <1>1, <1>7, <1>9, <3>1, <3>2
    <3>3. CASE y = 1
      <4>1. b = 1
        BY <1>2, <1>8, <3>1, <3>3
      <4>2. Quotient(a, b) = -q
        BY <1>1, <1>3, <1>4, <1>5, <3>1, <4>1 DEF Quotient
      <4> QED BY <1>1, <1>7, <3>1, <4>2
    <3> QED BY <3>2, <3>3
  <2> QED BY <1>1, <2>1, <2>2
<1>11. Remainder(a, b) \in {x - m, m - x}
  <2>1. CASE (a < 0) = (b < 0)
    <3>1. Quotient(a, b) = q
      BY <1>3, <1>4, <1>5, <2>1 DEF Quotient
    <3>2. CASE a < 0
      <4>1. a = -x /\ b = -y
        BY <1>2, <1>3, <1>4, <2>1, <3>2 DEF Abs
      <4>2. b * q = -m
        BY <1>6, <4>1
      <4> QED BY <3>1, <4>1, <4>2 DEF Remainder
    <3>3. CASE ~(a < 0)
      <4>1. a = x /\ b = y
        BY <1>2, <1>3, <1>4, <2>1, <3>3 DEF Abs
      <4> QED BY <1>6, <3>1, <4>1 DEF Remainder
    <3> QED BY <3>2, <3>3
  <2>2. CASE (a < 0) # (b < 0)
    <3>1. Quotient(a, b) = -q
      BY <1>3, <1>4, <1>5, <2>2 DEF Quotient
    <3>2. CASE a < 0
      <4>1. a = -x /\ b = y
        BY <1>2, <1>3, <1>4, <2>2, <3>2 DEF Abs
      <4>2. b * (-q) = -m
        BY <1>6, <4>1
      <4> QED BY <3>1, <4>1, <4>2 DEF Remainder
    <3>3. CASE ~(a < 0)
      <4>1. a = x /\ b = -y
        BY <1>2, <1>3, <1>4, <2>2, <3>3 DEF Abs
      <4>2. b * (-q) = m
        BY <1>6, <4>1
      <4> QED BY <3>1, <4>1, <4>2 DEF Remainder
    <3> QED BY <3>2, <3>3
  <2> QED BY <2>1, <2>2
<1>12. x - m \in 0..INT_MAX
  <2>1. y <= INT_MAX + 1
    BY <1>1, <1>2, <1>4 DEF Abs
  <2> QED BY <1>1, <1>7, <2>1
<1> QED BY <1>1, <1>10, <1>11, <1>12

-----------------------------------------------------------------------------
(* What the machine keeps.                                                 *)

LEMMA MadeInRange ==
  /\ InRange(FALSE_VALUE) /\ InRange(TRUE_VALUE) /\ InRange(Uninit)
  /\ \A p : InRange(str_value(p)) /\ InRange(tuple_value(p)) /\ InRange(closure_value(p))
  /\ \A i \in INT_MIN..INT_MAX : InRange(int_value(i))
BY DEF InRange, FALSE_VALUE, TRUE_VALUE, Uninit, Plain, str_value, tuple_value,
       closure_value, int_value

(* Fresh memory reads as a bool, so every cell is in range, in use or not. *)
LEMMA CellInRange ==
  ASSUME NumbersInRange, NEW i
  PROVE  InRange(cell(i))
BY MadeInRange DEF cell, NumbersInRange

(* A step that prints nothing, allocates neither tuples nor closures and   *)
(* leaves all cells in range keeps all numbers so.                         *)
LEMMA CellsKeep ==
  ASSUME NumbersInRange, UNCHANGED <<tuples, closures, out>>,
         \A i \in 0..(StackSize - 1) : InRange(stack'[i])
  PROVE  NumbersInRange'
BY DEF NumbersInRange, InRange

LEMMA StoreInRange ==
  ASSUME IInv, NumbersInRange, NEW k, NEW v, NEW next, InRange(v), Store(k, v, next)
  PROVE  \A i \in 0..(StackSize - 1) : InRange(stack'[i])
<1>1. stack \in [0..(StackSize - 1) -> Value] /\ stack' = [stack EXCEPT ![k] = v]
  BY DEF IInv, TypeOK, Store
<1>2. ASSUME NEW i \in 0..(StackSize - 1) PROVE stack'[i] = v \/ stack'[i] = stack[i]
  BY <1>1
<1> QED BY <1>2 DEF NumbersInRange

LEMMA PushInRange ==
  ASSUME IInv, NumbersInRange, NEW v, NEW next, InRange(v), push(v, next)
  PROVE  NumbersInRange'
<1>1. CASE Fail("stack overflow")
  BY <1>1, CellsKeep DEF Fail, heap, NumbersInRange
<1>2. CASE Store(top + 1, v, next) /\ UNCHANGED <<heap, out>>
  BY <1>2, StoreInRange, CellsKeep DEF heap
<1> QED BY <1>1, <1>2 DEF push

LEMMA ReduceInRange ==
  ASSUME IInv, NumbersInRange, NEW v, InRange(v), Reduce(v),
         UNCHANGED <<tuples, closures, out>>
  PROVE  NumbersInRange'
BY StoreInRange, CellsKeep DEF Reduce

LEMMA FailInRange ==
  ASSUME NumbersInRange, UNCHANGED <<stack, heap, out>>
  PROVE  NumbersInRange'
BY CellsKeep DEF heap, NumbersInRange

(* A word is an int.                                                       *)
LEMMA WordInRange ==
  ASSUME IInv, status = "running", OpAt(function, ip) = "OP_INT"
  PROVE  Word \in INT_MIN..INT_MAX
<1>1. PICK p \in Programs : SafeAt(p, function, Depth[functions][function], ip)
  BY Instruction
<1>2. ip + 3 <= Len(function.code)
  BY <1>1 DEF SafeAt, Size, WordOps
<1>3. function.code \in Seq(0..UINT8_MAX) /\ ip \in Nat
  BY Instruction DEF Function
<1>4. (ip + 1) + 1 \in 1..Len(function.code) /\ (ip + 1) + 2 \in 1..Len(function.code)
  BY <1>2, <1>3
<1>5. PICK x, y \in 0..UINT8_MAX : Word = x + (UINT8_MAX + 1) * y
  BY <1>3, <1>4, ElementTyped DEF Word, read_word
<1>6. (UINT8_MAX + 1) * y \in Nat /\ (UINT8_MAX + 1) * y <= (UINT8_MAX + 1) * UINT8_MAX
  <2>1. PICK z \in Nat : UINT8_MAX = y + z
    <3>1. UINT8_MAX - y \in Nat /\ UINT8_MAX = y + (UINT8_MAX - y)
      BY ByteAssumption
    <3> QED BY <3>1
  <2>2. /\ (UINT8_MAX + 1) * UINT8_MAX = (UINT8_MAX + 1) * y + (UINT8_MAX + 1) * z
        /\ (UINT8_MAX + 1) * z \in Nat /\ (UINT8_MAX + 1) * y \in Nat
    BY <2>1, ByteAssumption
  <2> QED BY <2>2
<1>7. UINT8_MAX + (UINT8_MAX + 1) * UINT8_MAX = UINT16_MAX
  BY ByteAssumption DEF UINT16_MAX
<1>8. INT_MAX \in Nat /\ INT_MIN = -INT_MAX - 1 /\ UINT16_MAX <= INT_MAX
  BY IntAssumption, NumberAssumption DEF INT_MIN
<1> QED BY <1>5, <1>6, <1>7, <1>8, ByteAssumption

(* So is every constant that is none of the strings.                       *)
LEMMA ConstantInRange ==
  ASSUME IInv, status = "running", OpAt(function, ip) = "OP_CONSTANT"
  PROVE  InRange(function.constants[Byte + 1])
<1>1. Byte \in Nat
  BY ByteOperand DEF ByteOps
<1>2. PICK p \in Programs :
        /\ functions = p.functions
        /\ Certified(p)
        /\ SafeAt(p, function, Depth[functions][function], ip)
  BY Instruction
<1>3. Byte < Len(function.constants)
  BY <1>2 DEF SafeAt, Byte
<1>4. function.constants \in Seq(Value)
  BY Instruction DEF Function
<1>5. Byte + 1 \in 1..Len(function.constants)
  BY <1>1, <1>3, <1>4
<1>6. PICK f \in 1..Len(functions) : function = functions[f]
  BY Instruction DEF IInv, HeapDefined, function
<1>7. is_int(function.constants[Byte + 1]) \/ is_str(function.constants[Byte + 1])
  BY <1>2, <1>5, <1>6 DEF Certified, CertifiedBy
<1>8. is_int(function.constants[Byte + 1]) =>
        function.constants[Byte + 1].val \in INT_MIN..INT_MAX
  BY <1>2, <1>5, <1>6, NumberAssumption
<1> QED BY <1>7, <1>8 DEF InRange, is_int, is_str

LEMMA NonlocalInRange ==
  ASSUME IInv, NumbersInRange, status = "running", OpAt(function, ip) = "OP_NONLOCAL"
  PROVE  InRange(closures[cl].nonlocals[Byte + 1])
<1>1. Byte \in Nat
  BY ByteOperand DEF ByteOps
<1>2. PICK p \in Programs : SafeAt(p, function, Depth[functions][function], ip)
  BY Instruction
<1>3. /\ cl \in 1..Len(closures)
      /\ Len(closures[cl].nonlocals) = Len(function.nonlocals)
  BY Instruction
<1>4. Byte < Len(function.nonlocals)
  BY <1>2 DEF SafeAt, Byte
<1>5. closures[cl].nonlocals \in Seq(Value)
  BY <1>3, ClosureTyped
<1>6. Byte + 1 \in 1..Len(closures[cl].nonlocals)
  BY <1>1, <1>3, <1>4, <1>5
<1> QED BY <1>3, <1>6 DEF NumbersInRange

(* Two ints give an int, unless the hardware refuses to divide them.       *)
LEMMA ResultsInRange ==
  ASSUME IInv, NumbersInRange, Ints, status = "running", OpAt(function, ip) \in Binary
  PROVE  LET a == peek(1).val
             b == peek(0).val
         IN /\ Wrap(a + b) \in INT_MIN..INT_MAX
            /\ Wrap(a - b) \in INT_MIN..INT_MAX
            /\ Wrap(a * b) \in INT_MIN..INT_MAX
            /\ ~DivisionTraps(a, b) =>
                 /\ Quotient(a, b) \in INT_MIN..INT_MAX
                 /\ Remainder(a, b) \in INT_MIN..INT_MAX
<1>1. PICK a \in Int : a = peek(1).val
  BY IntOperands
<1>2. PICK b \in Int : b = peek(0).val
  BY IntOperands
<1>3. a \in INT_MIN..INT_MAX /\ b \in INT_MIN..INT_MAX
  <2>1. InRange(peek(1)) /\ InRange(peek(0))
    BY CellInRange DEF peek
  <2> QED BY <1>1, <1>2, <2>1 DEF InRange, Ints, is_int
<1>4. a + b \in Int /\ a - b \in Int /\ a * b \in Int
  OBVIOUS
<1>5. /\ Wrap(a + b) \in INT_MIN..INT_MAX
      /\ Wrap(a - b) \in INT_MIN..INT_MAX
      /\ Wrap(a * b) \in INT_MIN..INT_MAX
  BY <1>4, WrapInRange
<1>6. ~DivisionTraps(a, b) =>
        Quotient(a, b) \in INT_MIN..INT_MAX /\ Remainder(a, b) \in INT_MIN..INT_MAX
  BY <1>3, DivisionInRange
<1> QED BY Zenon, <1>1, <1>2, <1>5, <1>6

(* A new tuple has the two operands as its components.                     *)
LEMMA TupleInRange ==
  ASSUME IInv, NumbersInRange, do_tuple
  PROVE  NumbersInRange'
<1>1. CASE OutOfMemory
  BY <1>1, FailInRange DEF OutOfMemory, Fail
<1>2. CASE /\ tuples' = Append(tuples, [first |-> peek(1), second |-> peek(0)])
           /\ Reduce(tuple_value(Len(tuples) + 1))
           /\ UNCHANGED <<strs, closures, out>>
  <2>1. PICK new : new = [first |-> peek(1), second |-> peek(0)]
    OBVIOUS
  <2>2. InRange(new.first) /\ InRange(new.second)
    BY <2>1, CellInRange DEF peek
  <2>3. \A i \in 0..(StackSize - 1) : InRange(stack'[i])
    BY <1>2, MadeInRange, StoreInRange DEF Reduce
  <2>4. tuples \in Seq([first : Value, second : Value])
    BY DEF IInv, TypeOK
  <2>5. ASSUME NEW t \in 1..Len(tuples')
        PROVE  tuples'[t] = new \/ (t \in 1..Len(tuples) /\ tuples'[t] = tuples[t])
    BY <1>2, <2>1, <2>4
  <2>6. \A t \in 1..Len(tuples') : InRange(tuples'[t].first) /\ InRange(tuples'[t].second)
    BY <2>2, <2>5 DEF NumbersInRange
  <2> QED BY <1>2, <2>3, <2>6 DEF NumbersInRange, InRange
<1> QED BY <1>1, <1>2 DEF do_tuple

(* A variable is captured from a cell, of the new stack, or from the       *)
(* running closure.                                                        *)
LEMMA ClosureInRange ==
  ASSUME IInv, NumbersInRange, do_closure
  PROVE  NumbersInRange'
<1>1. status = "running" /\ OpAt(function, ip) = "OP_CLOSURE"
  BY DEF do_closure, At
<1>2. CASE OutOfMemory \/ Fail("stack overflow")
  BY <1>2, FailInRange DEF OutOfMemory, Fail
<1>3. PICK f, v, newStack :
        /\ f = function.functions[Byte + 1]
        /\ v = closure_value(Len(closures) + 1)
        /\ newStack = [stack EXCEPT ![top + 1] = v]
  OBVIOUS
<1>4. PICK captured : captured = Captured(functions[f], newStack)
  OBVIOUS
<1>5. CASE /\ Store(top + 1, v, ip + 2)
           /\ closures' = Append(closures, [fn |-> f, nonlocals |-> captured])
           /\ UNCHANGED <<strs, tuples, out>>
  <2>1. PICK new : new = [fn |-> f, nonlocals |-> captured]
    OBVIOUS
  <2>2. \A i \in 0..(StackSize - 1) : InRange(stack'[i])
    BY <1>3, <1>5, MadeInRange, StoreInRange
  <2>3. stack' = newStack
    BY <1>3, <1>5 DEF Store
  <2>4. PICK child \in Function :
          /\ child = functions[f]
          /\ CaptureSafe(function, Depth[functions][function][ip] + 1, child)
    BY <1>1, <1>3, NewClosure
  <2>5. PICK n \in Nat : n = Len(child.nonlocals)
    BY DEF Function
  <2>6. Len(captured) = n
    BY <1>4, <2>4, <2>5 DEF Captured
  <2>7. ASSUME NEW i \in 1..n PROVE InRange(captured[i])
    <3>1. PICK nonlocal \in [isLocal : BOOLEAN, index : Nat] : nonlocal = child.nonlocals[i]
      BY <2>5, ElementTyped DEF Function
    <3>2. CASE nonlocal.isLocal
      <4>1. \/ captured[i] = Uninit
            \/ \E a \in 0..(StackSize - 1) : captured[i] = newStack[a]
        BY <1>4, <2>4, <2>5, <3>1, <3>2 DEF Captured
      <4> QED BY <2>2, <2>3, <4>1, MadeInRange
    <3>3. CASE ~nonlocal.isLocal
      <4>1. captured[i] = closures[cl].nonlocals[nonlocal.index + 1]
        BY <1>4, <2>4, <2>5, <3>1, <3>3 DEF Captured
      <4>2. nonlocal.index < Len(function.nonlocals)
        BY <2>4, <2>5, <3>1, <3>3 DEF CaptureSafe
      <4>3. /\ cl \in 1..Len(closures)
            /\ Len(closures[cl].nonlocals) = Len(function.nonlocals)
        BY <1>1, Instruction
      <4>4. closures[cl].nonlocals \in Seq(Value)
        BY <4>3, ClosureTyped
      <4>5. nonlocal.index + 1 \in 1..Len(closures[cl].nonlocals)
        BY <3>1, <4>2, <4>3, <4>4
      <4> QED BY <4>1, <4>3, <4>5 DEF NumbersInRange
    <3> QED BY <3>2, <3>3
  <2>8. closures \in Seq([fn : Nat, nonlocals : Seq(Value)])
    BY DEF IInv, TypeOK
  <2>9. ASSUME NEW c \in 1..Len(closures')
        PROVE  closures'[c] = new \/ (c \in 1..Len(closures) /\ closures'[c] = closures[c])
    BY <1>5, <2>1, <2>8
  <2>10. \A c \in 1..Len(closures') : \A i \in 1..Len(closures'[c].nonlocals) :
           InRange(closures'[c].nonlocals[i])
    BY <2>1, <2>6, <2>7, <2>9 DEF NumbersInRange
  <2> QED BY <1>5, <2>2, <2>10 DEF NumbersInRange, InRange
<1> QED BY <1>2, <1>3, <1>4, <1>5 DEF do_closure

LEMMA BinaryInRange ==
  ASSUME IInv, NumbersInRange,
         \/ do_add \/ do_sub \/ do_mul \/ do_div \/ do_rem
         \/ do_eq \/ do_neq \/ do_lt \/ do_gt \/ do_lte \/ do_gte \/ do_and \/ do_or
  PROVE  NumbersInRange'
<1>1. /\ "OP_ADD" \in Binary /\ "OP_SUB" \in Binary /\ "OP_MUL" \in Binary
      /\ "OP_DIV" \in Binary /\ "OP_REM" \in Binary
  BY DEF Binary
<1>2. ASSUME NEW error, Fail(error) PROVE NumbersInRange'
  BY <1>2, FailInRange DEF Fail
<1>3. ASSUME NEW n \in INT_MIN..INT_MAX, Reduce(int_value(n)), UNCHANGED <<heap, out>>
      PROVE  NumbersInRange'
  <2>1. InRange(int_value(n)) /\ UNCHANGED <<tuples, closures, out>>
    BY <1>3, MadeInRange DEF heap
  <2> QED BY <1>3, <2>1, ReduceInRange
<1>4. ASSUME NEW b, Reduce(bool_value(b)), UNCHANGED <<heap, out>>
      PROVE  NumbersInRange'
  <2>1. InRange(bool_value(b)) /\ UNCHANGED <<tuples, closures, out>>
    BY <1>4, MadeInRange DEF heap, bool_value
  <2> QED BY <1>4, <2>1, ReduceInRange
<1>5. CASE do_add
  <2>1. CASE /\ Ints /\ Reduce(int_value(Wrap(peek(1).val + peek(0).val)))
           /\ UNCHANGED <<heap, out>>
    BY <1>1, <1>3, <1>5, <2>1, ResultsInRange DEF do_add, At
  <2>2. CASE Reduce(str_value(Len(strs) + 1)) /\ UNCHANGED <<tuples, closures, out>>
    BY <2>2, MadeInRange, ReduceInRange
  <2> QED BY <1>2, <1>5, <2>1, <2>2 DEF do_add, OutOfMemory
<1>6. CASE do_sub
  BY <1>1, <1>2, <1>3, <1>6, ResultsInRange DEF do_sub, Arithmetic, At
<1>7. CASE do_mul
  BY <1>1, <1>2, <1>3, <1>7, ResultsInRange DEF do_mul, Arithmetic, At
<1>8. ASSUME Trap PROVE NumbersInRange'
  BY <1>8, FailInRange DEF Trap
<1>9. CASE do_div
  BY <1>1, <1>2, <1>3, <1>8, <1>9, ResultsInRange DEF do_div, Division, At
<1>10. CASE do_rem
  BY <1>1, <1>2, <1>3, <1>8, <1>10, ResultsInRange DEF do_rem, Division, At
<1>11. CASE do_eq \/ do_neq \/ do_and \/ do_or
  BY Zenon, <1>4, <1>11 DEF do_eq, do_neq, do_and, do_or, Logical
<1>12. CASE do_lt \/ do_gt \/ do_lte \/ do_gte
  BY Zenon, <1>2, <1>4, <1>12 DEF do_lt, do_gt, do_lte, do_gte, Comparison
<1> QED BY <1>5, <1>6, <1>7, <1>9, <1>10, <1>11, <1>12

LEMMA ComponentInRange ==
  ASSUME IInv, NumbersInRange, do_first \/ do_second
  PROVE  NumbersInRange'
<1>1. status = "running"
  BY DEF do_first, do_second, Component, At
<1>2. ASSUME NEW error, Fail(error) PROVE NumbersInRange'
  BY <1>2, FailInRange DEF Fail
<1>3. ASSUME NEW name \in {"first", "second"}, is_tuple(peek(0)),
             Store(top, tuples[peek(0).val][name], ip + 1), UNCHANGED <<heap, out>>
      PROVE  NumbersInRange'
  <2>1. top - 0 \in 0..top
    BY <1>1, Registers
  <2>2. peek(0).val \in 1..Len(tuples)
    BY <1>3, <2>1, CellInUse DEF peek, Valid
  <2>3. InRange(tuples[peek(0).val][name])
    BY <1>3, <2>2 DEF NumbersInRange
  <2>4. UNCHANGED <<tuples, closures, out>>
    BY <1>3 DEF heap
  <2> QED BY <1>3, <2>3, <2>4, StoreInRange, CellsKeep
<1> QED BY <1>2, <1>3 DEF do_first, do_second, Component

(* Calls move cells and returns copy one.                                  *)
LEMMA CallInRange ==
  ASSUME IInv, NumbersInRange, vm_run \/ do_tail_call \/ do_return
  PROVE  NumbersInRange'
<1>1. stack \in [0..(StackSize - 1) -> Value]
  BY DEF IInv, TypeOK
<1>2. ASSUME UNCHANGED <<stack, heap, out>> PROVE NumbersInRange'
  BY <1>2, FailInRange
<1>3. ASSUME NEW k, NEW v, stack' = [stack EXCEPT ![k] = v], InRange(v),
             UNCHANGED <<heap, out>>
      PROVE  NumbersInRange'
  <2>1. ASSUME NEW i \in 0..(StackSize - 1) PROVE stack'[i] = v \/ stack'[i] = stack[i]
    BY <1>1, <1>3
  <2> QED BY <1>3, <2>1, CellsKeep DEF NumbersInRange, heap
<1>4. CASE vm_run
  BY <1>3, <1>4, MadeInRange DEF vm_run
<1>5. CASE do_tail_call
  <2>1. CASE CalleeError
    BY <1>2, <2>1 DEF CalleeError, Fail
  <2>2. CASE /\ stack' = [i \in DOMAIN stack |->
                            IF i \in slots..(slots + Byte)
                            THEN cell(top - Byte + (i - slots)) ELSE stack[i]]
             /\ UNCHANGED <<heap, out>>
    <3>1. ASSUME NEW i \in 0..(StackSize - 1)
          PROVE  \/ stack'[i] = cell(top - Byte + (i - slots))
                 \/ stack'[i] = stack[i]
      BY <1>1, <2>2
    <3> QED BY <2>2, <3>1, CellInRange, CellsKeep DEF NumbersInRange, heap
  <2> QED BY <1>5, <2>1, <2>2 DEF do_tail_call
<1>6. CASE do_return
  <2>1. InRange(peek(0))
    BY CellInRange DEF peek
  <2> QED BY <1>2, <1>3, <1>6, <2>1 DEF do_return
<1> QED BY <1>4, <1>5, <1>6

(* What is printed was the last cell.                                      *)
LEMMA PrintInRange ==
  ASSUME IInv, NumbersInRange, do_print
  PROVE  NumbersInRange'
<1>1. PICK v : v = peek(0)
  OBVIOUS
<1>2. InRange(v)
  BY <1>1, CellInRange DEF peek
<1>3. out \in Seq(Value)
  BY DEF IInv, TypeOK
<1>4. out' = Append(out, v) /\ UNCHANGED <<stack, tuples, closures>>
  BY <1>1 DEF do_print, heap
<1>5. ASSUME NEW i \in 1..Len(out')
      PROVE  out'[i] = v \/ (i \in 1..Len(out) /\ out'[i] = out[i])
  BY <1>3, <1>4
<1>6. \A i \in 1..Len(out') : InRange(out'[i])
  BY <1>2, <1>5 DEF NumbersInRange
<1> QED BY <1>4, <1>6 DEF NumbersInRange, InRange

LEMMA NextInRange ==
  ASSUME IInv, NumbersInRange, [Next]_vars
  PROVE  NumbersInRange'
<1>1. CASE vm_init \/ do_nop \/ do_jump \/ do_jump_if_false \/ do_call \/ Ended
           \/ UNCHANGED vars
  <2>1. UNCHANGED <<stack, heap, out>>
    BY <1>1 DEF vm_init, OutOfMemory, Fail, do_nop, do_jump, do_jump_if_false, Jump,
                do_call, CalleeError, Ended, vars, heap
  <2> QED BY <2>1, FailInRange
<1>2. CASE do_false \/ do_true
  BY <1>2, MadeInRange, PushInRange DEF do_false, do_true
<1>3. CASE do_int
  BY <1>3, WordInRange, MadeInRange, PushInRange DEF do_int, At
<1>4. CASE do_constant
  BY <1>4, ConstantInRange, PushInRange DEF do_constant, At
<1>5. CASE do_local
  BY <1>5, CellInRange, PushInRange DEF do_local
<1>6. CASE do_nonlocal
  BY <1>6, NonlocalInRange, PushInRange DEF do_nonlocal, At
<1>7. CASE do_tuple \/ do_closure
  BY <1>7, TupleInRange, ClosureInRange
<1>8. CASE \/ do_add \/ do_sub \/ do_mul \/ do_div \/ do_rem
           \/ do_eq \/ do_neq \/ do_lt \/ do_gt \/ do_lte \/ do_gte \/ do_and \/ do_or
  BY <1>8, BinaryInRange
<1>9. CASE do_first \/ do_second
  BY <1>9, ComponentInRange
<1>10. CASE vm_run \/ do_tail_call \/ do_return
  BY <1>10, CallInRange
<1>11. CASE do_print
  BY <1>11, PrintInRange
<1> QED
  BY <1>1, <1>2, <1>3, <1>4, <1>5, <1>6, <1>7, <1>8, <1>9, <1>10, <1>11 DEF Next

(* Theorem: no operation leaves the range of its type: a bool stays 0 or 1 *)
(* and an int an int, on the stack, in tuples, in closures and in what is  *)
(* printed.                                                                *)
THEOREM VMNumbersInRange == Spec => []NumbersInRange
<1>1. Init => NumbersInRange
  BY MadeInRange DEF Init, Fresh, NumbersInRange
<1>2. IInv /\ NumbersInRange /\ [Next]_vars => NumbersInRange'
  BY NextInRange
<1> QED BY <1>1, <1>2, VMInvariant, PTL DEF Spec

(* Then bits can be taken apart again.                                     *)
LEMMA InRangeAgrees ==
  ASSUME IInv, NumbersInRange, AddressesFit
  PROVE  LayoutsAgree
<1>1. /\ Len(strs) \in Nat /\ Len(tuples) \in Nat /\ Len(closures) \in Nat
      /\ INT64_MAX \in Nat
  BY LayoutAssumption DEF IInv, TypeOK
<1>2. ASSUME NEW v \in Value, Valid(v), InRange(v) PROVE SurvivesTagging(v)
  <2>1. v.type \in {"str", "tuple", "closure"} =>
          v.val \in Nat /\ 16 * v.val + 15 <= INT64_MAX
    BY SMTT(40), <1>1, <1>2 DEF AddressesFit, Valid, is_str, is_tuple, is_closure
  <2> QED BY <1>2, <2>1, ValuesSurviveTagging DEF Representable
<1>3. ASSUME NEW i \in 0..top PROVE SurvivesTagging(stack[i])
  <2>1. i \in 0..(StackSize - 1) /\ stack[i] \in Value
    BY SizeAssumption DEF IInv, TypeOK
  <2> QED BY <1>2, <2>1 DEF IInv, StackDefined, NumbersInRange
<1>4. ASSUME NEW t \in 1..Len(tuples)
      PROVE  SurvivesTagging(tuples[t].first) /\ SurvivesTagging(tuples[t].second)
  <2>1. tuples[t] \in [first : Value, second : Value]
    BY ElementTyped DEF IInv, TypeOK
  <2> QED BY <1>2, <2>1 DEF IInv, HeapDefined, NumbersInRange
<1>5. ASSUME NEW c \in 1..Len(closures)
      PROVE  \A i \in 1..Len(closures[c].nonlocals) :
               SurvivesTagging(closures[c].nonlocals[i])
  <2>1. PICK nonlocals \in Seq(Value) : nonlocals = closures[c].nonlocals
    BY ClosureTyped
  <2>2. ASSUME NEW i \in 1..Len(nonlocals) PROVE SurvivesTagging(nonlocals[i])
    BY <1>2, <2>1 DEF IInv, HeapDefined, NumbersInRange
  <2> QED BY <2>1, <2>2
<1>6. ASSUME NEW i \in 1..Len(out) PROVE SurvivesTagging(out[i])
  <2>1. out[i] \in Value
    BY ElementTyped DEF IInv, TypeOK
  <2> QED BY <1>2, <2>1 DEF IInv, OutputDefined, NumbersInRange
<1> QED BY <1>3, <1>4, <1>5, <1>6 DEF LayoutsAgree

(* Theorem: as long as the addresses of objects fit beside the tag, the    *)
(* two layouts agree on all that the machine keeps and prints.             *)
THEOREM VMLayoutsAgree == Spec => [](AddressesFit => LayoutsAgree)
<1>1. IInv /\ NumbersInRange => (AddressesFit => LayoutsAgree)
  BY InRangeAgrees
<1> QED BY <1>1, VMInvariant, VMNumbersInRange, PTL

-----------------------------------------------------------------------------
(* The blocks of closures.                                                 *)

(* What is stored in a closure with k nonlocals, and what is asked for.    *)
LEMMA Blocks ==
  ASSUME NEW k \in Nat, NEW size \in ValueSizes
  PROVE  /\ POINTER_SIZE <= closure_new(k, size)
         /\ closure_new(k, size) + Missing(k, size) = nonlocal_end(k - 1, size)
         /\ \A i \in Nat : i < k => nonlocal_end(i, size) <= nonlocal_end(k - 1, size)
<1>1. POINTER_SIZE \in Nat /\ size \in Nat /\ POINTER_SIZE <= size
  BY LayoutAssumption
<1>2. PICK d \in Nat : size = POINTER_SIZE + d
  <2>1. size - POINTER_SIZE \in Nat /\ size = POINTER_SIZE + (size - POINTER_SIZE)
    BY <1>1
  <2> QED BY <2>1
<1>3. POINTER_SIZE <= closure_new(k, size)
  <2>1. POINTER_SIZE * (k - 1) = POINTER_SIZE * k - POINTER_SIZE
    BY <1>1
  <2>2. POINTER_SIZE * k \in Nat
    BY <1>1
  <2> QED BY <1>1, <2>1, <2>2 DEF closure_new
<1>4. closure_new(k, size) + Missing(k, size) = nonlocal_end(k - 1, size)
  <2>1. PICK j \in Int : j = k - 1
    OBVIOUS
  <2>2. size * (j + 1) = size + POINTER_SIZE * j + d * j
    BY <1>1, <1>2
  <2>3. size - POINTER_SIZE = d
    BY <1>1, <1>2
  <2>4. POINTER_SIZE * j \in Int /\ d * j \in Int
    BY <1>1
  <2>5. closure_new(k, size) = POINTER_SIZE + size + POINTER_SIZE * j
    BY <2>1 DEF closure_new
  <2>6. Missing(k, size) = d * j
    BY <2>1, <2>3 DEF Missing
  <2>7. nonlocal_end(k - 1, size) = POINTER_SIZE + size * (j + 1)
    BY <2>1 DEF nonlocal_end
  <2> QED BY <1>1, <2>2, <2>4, <2>5, <2>6, <2>7
<1>5. ASSUME NEW i \in Nat, i < k
      PROVE  nonlocal_end(i, size) <= nonlocal_end(k - 1, size)
  <2>1. PICK z \in Nat : k = (i + 1) + z
    <3>1. k - (i + 1) \in Nat /\ k = (i + 1) + (k - (i + 1))
      BY <1>5
    <3> QED BY <3>1
  <2>2. (k - 1) + 1 = (i + 1) + z
    BY <2>1
  <2>3. /\ size * ((i + 1) + z) = size * (i + 1) + size * z
        /\ size * z \in Nat /\ size * (i + 1) \in Nat
    BY <1>1
  <2> QED BY <1>1, <2>2, <2>3 DEF nonlocal_end
<1> QED BY <1>3, <1>4, <1>5

(* The next instruction reads a nonlocal only if the running closure has   *)
(* captured it.                                                            *)
LEMMA ReadsCaptured ==
  ASSUME IInv, status = "running", NEW i \in NonlocalsRead
  PROVE  i \in Nat /\ i < Len(closures[cl].nonlocals)
<1>1. PICK p \in Programs : SafeAt(p, function, Depth[functions][function], ip)
  BY Instruction
<1>2. Len(closures[cl].nonlocals) = Len(function.nonlocals)
  BY Instruction
<1>3. CASE OpAt(function, ip) = "OP_NONLOCAL"
  <2>1. Byte \in Nat
    BY <1>3, ByteOperand DEF ByteOps
  <2>2. Byte < Len(function.nonlocals)
    BY <1>1, <1>3 DEF SafeAt, Byte
  <2>3. i = Byte
    BY <1>3 DEF NonlocalsRead
  <2> QED BY <1>2, <2>1, <2>2, <2>3
<1>4. CASE OpAt(function, ip) = "OP_CLOSURE"
  <2>1. PICK child \in Function :
          /\ child = functions[function.functions[Byte + 1]]
          /\ CaptureSafe(function, Depth[functions][function][ip] + 1, child)
    BY <1>4, NewClosure
  <2>2. PICK j \in 1..Len(child.nonlocals) :
          ~child.nonlocals[j].isLocal /\ i = child.nonlocals[j].index
    BY <1>4, <2>1 DEF NonlocalsRead
  <2>3. child.nonlocals[j] \in [isLocal : BOOLEAN, index : Nat]
    BY ElementTyped DEF Function
  <2>4. child.nonlocals[j].index < Len(function.nonlocals)
    BY <2>1, <2>2 DEF CaptureSafe
  <2> QED BY <1>2, <2>2, <2>3, <2>4
<1> QED BY <1>3, <1>4 DEF NonlocalsRead

(* Theorem: whatever certified program it runs, the machine stays within   *)
(* the blocks of its closures where a value is no larger than a pointer,   *)
(* and goes no further behind them than Missing bytes where it is.         *)
THEOREM VMClosureOverrun == Spec => []ClosureOverrun
<1>1. ASSUME IInv PROVE ClosureOverrun
  <2> SUFFICES ASSUME NEW size \in ValueSizes
               PROVE  /\ \A c \in 1..Len(closures) :
                           LET k == Len(closures[c].nonlocals)
                           IN /\ POINTER_SIZE <= closure_new(k, size)
                              /\ k > 0 => nonlocal_end(k - 1, size)
                                           = closure_new(k, size) + Missing(k, size)
                      /\ status = "running" => \A i \in NonlocalsRead :
                           LET k == Len(closures[cl].nonlocals)
                           IN nonlocal_end(i, size)
                                <= closure_new(k, size) + Missing(k, size)
    BY DEF ClosureOverrun
  <2>1. ASSUME NEW c \in 1..Len(closures)
        PROVE  Len(closures[c].nonlocals) \in Nat
    <3>1. closures[c].nonlocals \in Seq(Value)
      BY <1>1, ClosureTyped
    <3> QED BY <3>1
  <2>2. ASSUME status = "running", NEW i \in NonlocalsRead
        PROVE  LET k == Len(closures[cl].nonlocals)
               IN nonlocal_end(i, size) <= closure_new(k, size) + Missing(k, size)
    <3>1. PICK k \in Nat : k = Len(closures[cl].nonlocals)
      BY <1>1, <2>1, <2>2, Instruction
    <3>2. i \in Nat /\ i < k
      BY <1>1, <2>2, <3>1, ReadsCaptured
    <3> QED BY <3>1, <3>2, Blocks
  <2> QED BY <2>1, <2>2, Blocks
<1> QED BY <1>1, VMInvariant, PTL
=============================================================================
