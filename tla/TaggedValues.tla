---------------------------- MODULE TaggedValues ----------------------------
(***************************************************************************)
(* How a value is laid out in memory (value.h, closure.c).  In the default *)
(* build a value is one number of 64 bits: three for the type, one for the *)
(* flag, the others for the payload.  In the other build it is a structure *)
(* of the three, the record of Values.  Nearly everything else is written  *)
(* in terms of the macros that take a value apart, and is the same in both *)
(* builds as long as these agree; closure_new is not, which counts by the  *)
(* size of a pointer what is stored by the size of a value.                *)
(*                                                                         *)
(* Operators named <definition>_<slip> are the definition with a mistake.  *)
(***************************************************************************)
EXTENDS Values

CONSTANTS
  INT64_MAX,      \* largest value of an int64_t
  POINTER_SIZE,   \* bytes of a pointer
  ValueSizes      \* bytes of a value, in the builds there are

(* An int and the four bits beside it fit.  A value contains a pointer in  *)
(* every build; only a tagged one is no larger than that.                  *)
ASSUME LayoutAssumption ==
  /\ INT64_MAX \in Nat /\ 16 * INT_MAX + 15 <= INT64_MAX
  /\ POINTER_SIZE \in Nat \ {0}
  /\ ValueSizes \subseteq Nat /\ \A size \in ValueSizes : POINTER_SIZE <= size

TypeNumber == [bool |-> 0, int |-> 1, str |-> 2, tuple |-> 3, closure |-> 4]

(* The low 64 bits of a number, as an int64_t.                             *)
Wrap64(n) == ((n + INT64_MAX + 1) % (2 * (INT64_MAX + 1))) - INT64_MAX - 1

bits_flag_below_type(v) == Wrap64(16 * v.val + 4 * v.flags + TypeNumber[v.type])

(* The shifts and ors of the macros that make a value: each part has bits  *)
(* of its own.                                                             *)
bits(v) == Wrap64(16 * v.val + 8 * v.flags + TypeNumber[v.type])

type(b)  == CHOOSE t \in Type : TypeNumber[t] = b % 8
flags(b) == (b \div 8) % 2

(* A shift to the right keeps the sign; what is left becomes a bool, an    *)
(* int or an address.                                                      *)
payload(b) ==
  CASE type(b) = "bool" -> IF b \div 16 = 0 THEN 0 ELSE 1
    [] type(b) = "int"  -> Wrap(b \div 16)
    [] type(b) \notin {"bool", "int"} -> b \div 16

Untagged(b) == [type |-> type(b), flags |-> flags(b), val |-> payload(b)]

closure_new_of_one(numNonlocals, size) == POINTER_SIZE + size

(* The bytes closure_new asks for: of a closure with one nonlocal, and of  *)
(* a pointer for each of the others.                                       *)
closure_new(numNonlocals, size) ==
  POINTER_SIZE + size + POINTER_SIZE * (numNonlocals - 1)

(* Where nonlocal i of a closure ends, counted in bytes from its start:    *)
(* the function lies before the nonlocals.                                 *)
nonlocal_end(i, size) == POINTER_SIZE + size * (i + 1)

-----------------------------------------------------------------------------
(* Taking the bits of v apart gives v.                                     *)
SurvivesTagging(v) == Untagged(bits(v)) = v

(* The bytes the block of a closure with k nonlocals is short of: none     *)
(* where a value is as large as a pointer, else the difference for each    *)
(* nonlocal but the first.                                                 *)
Missing(k, size) == (size - POINTER_SIZE) * (k - 1)
=============================================================================
