------------------------------- MODULE Values -------------------------------
(***************************************************************************)
(* Run-time values of the interpreter (value.h, value.c, str.c, tuple.c):  *)
(* a type tag, a flag and a payload.  The payload of a bool is 0 or 1,     *)
(* that of an int is the number, that of a str, a tuple or a closure is    *)
(* the index of the object among the objects of its kind, as a pointer     *)
(* would be.  Objects are never freed (memory.h has no release operation), *)
(* so the objects of a kind are kept in a sequence that only grows.        *)
(*                                                                         *)
(* Operators that follow pointers take the sequences they look into.  A    *)
(* string is the sequence of its character codes.                          *)
(*                                                                         *)
(* <definition>_<slip> is a definition with a plausible mistake, used by   *)
(* no specification; see VM.                                               *)
(***************************************************************************)
EXTENDS Integers, Sequences

CONSTANT INT_MAX    \* largest value of a C int; 2^31 - 1 in the program

ASSUME IntAssumption == INT_MAX \in Nat \ {0}

INT_MIN == -INT_MAX - 1

(* The int whose bits are those of the mathematical result n: what the     *)
(* compiled code computes when an addition or a product overflows.         *)
Wrap(n) == ((n - INT_MIN) % (2 * (INT_MAX + 1))) + INT_MIN

Type == {"bool", "int", "str", "tuple", "closure"}

FLAG_NONE  == 0
FLAG_FALSY == 1

Value == [type : Type, flags : {FLAG_NONE, FLAG_FALSY}, val : Int]

Plain(t, x) == [type |-> t, flags |-> FLAG_NONE, val |-> x]

FALSE_VALUE      == [type |-> "bool", flags |-> FLAG_FALSY, val |-> 0]
TRUE_VALUE       == Plain("bool", 1)
int_value(i)     == Plain("int", i)
str_value(p)     == Plain("str", p)
tuple_value(p)   == Plain("tuple", p)
closure_value(p) == Plain("closure", p)

bool_value(b) == IF b THEN TRUE_VALUE ELSE FALSE_VALUE

(* A cell of fresh memory.  The stack is one large allocation, which the   *)
(* system hands out zeroed; type 0 is bool, so the cell reads as a bool    *)
(* that prints as false but is not falsy.  No operation makes this value.  *)
Uninit == Plain("bool", 0)

is_int(v)     == v.type = "int"
is_str(v)     == v.type = "str"
is_tuple(v)   == v.type = "tuple"
is_closure(v) == v.type = "closure"
is_falsy(v)   == v.flags = FLAG_FALSY

-----------------------------------------------------------------------------
(* Integer division and remainder of C truncate towards zero.              *)

Abs(n) == IF n < 0 THEN -n ELSE n

Quotient_floored(a, b) == a \div b

Quotient(a, b) ==
  IF (a < 0) = (b < 0) THEN Abs(a) \div Abs(b) ELSE -(Abs(a) \div Abs(b))

Remainder(a, b) == a - b * Quotient(a, b)

(* The divisions the hardware refuses (a trap, not a result).              *)
DivisionTraps(a, b) == b = 0 \/ (a = INT_MIN /\ b = -1)

-----------------------------------------------------------------------------
(* Conversions to text: snprintf of "%d" and the words true and false.     *)

DigitCount(n) == CHOOSE k \in 1..10 : n < 10^k /\ (k = 1 \/ n >= 10^(k - 1))

Digits(n) ==
  LET k == DigitCount(n) IN [i \in 1..k |-> 48 + ((n \div 10^(k - i)) % 10)]

str_from_int(i) == IF i < 0 THEN <<45>> \o Digits(-i) ELSE Digits(i)

str_from_bool(b) ==
  IF b = 1 THEN <<116, 114, 117, 101>> ELSE <<102, 97, 108, 115, 101>>

-----------------------------------------------------------------------------
(* Equality and order.                                                     *)

str_equal(s, t) == s = t

(* First difference decides; a proper prefix comes first.                  *)
str_compare(s, t) ==
  LET common  == 1..(IF Len(s) < Len(t) THEN Len(s) ELSE Len(t))
      differs == {i \in common : s[i] # t[i]}
      first   == CHOOSE i \in differs : \A j \in differs : i <= j
  IN IF differs = {} THEN Len(s) - Len(t) ELSE s[first] - t[first]

(* Equality of two values that are not both tuples.                        *)
FlatEqual(strs, v1, v2) ==
  /\ v1.type = v2.type
  /\ IF is_str(v1) THEN str_equal(strs[v1.val], strs[v2.val])
                   ELSE v1.val = v2.val

(* Tuples are compared by content, closures by identity.  The recursion    *)
(* follows tuple_equal: a component is always older than its tuple.        *)
value_equal(strs, tuples, v1, v2) ==
  LET tuple_equal[p, q \in DOMAIN tuples] ==
        LET same(a, b) == IF is_tuple(a) /\ is_tuple(b)
                          THEN tuple_equal[a.val, b.val]
                          ELSE FlatEqual(strs, a, b)
        IN /\ same(tuples[p].first, tuples[q].first)
           /\ same(tuples[p].second, tuples[q].second)
  IN IF is_tuple(v1) /\ is_tuple(v2) THEN tuple_equal[v1.val, v2.val]
                                     ELSE FlatEqual(strs, v1, v2)

Comparable(v1, v2) == v1.type = v2.type /\ v1.type \in {"bool", "int", "str"}

(* The signed number value_compare returns, as a set: the difference of    *)
(* two ints may overflow, which C leaves undefined, and a build may either *)
(* wrap it or decide the order of the operands directly.                   *)
value_compare(strs, v1, v2) ==
  CASE v1.type = "bool" -> {v1.val - v2.val}
    [] v1.type = "int"  -> {v1.val - v2.val, Wrap(v1.val - v2.val)}
    [] v1.type = "str"  -> {str_compare(strs[v1.val], strs[v2.val])}

(* All that the instructions that compare look at.                         *)
Sign(n) == IF n < 0 THEN -1 ELSE IF n > 0 THEN 1 ELSE 0
=============================================================================
