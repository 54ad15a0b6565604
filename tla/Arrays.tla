------------------------------- MODULE Arrays -------------------------------
(***************************************************************************)
(* The growing arrays of a function under construction (array.c, chunk.c,  *)
(* function.c, memory.c) and the order in which the compiler uses them:    *)
(* an instruction is its opcode and then at most one operand, and after    *)
(* the first error nothing is added.                                       *)
(*                                                                         *)
(* Only what was added is in the model; patch_jump, which overwrites two   *)
(* bytes that are there, is in Compiler.  A chunk writes behind its block: *)
(* what lies there survives until the block is moved, and may be lost then *)
(* (the allocator copies the bytes that were asked for; whether there are  *)
(* more is its own business).                                              *)
(*                                                                         *)
(* Operators named <definition>_<slip> are the definition with a mistake.  *)
(***************************************************************************)
EXTENDS Integers, Sequences

CONSTANTS
  CHUNK_MIN_CAPACITY, ARRAY_MIN_CAPACITY,   \* both 8 in the program
  UINT8_MAX,
  CodeBound, ArrayBound   \* no more is added to a chunk, to an array

ASSUME CapacityAssumption ==
  /\ CHUNK_MIN_CAPACITY \in Nat /\ CHUNK_MIN_CAPACITY >= 2
  /\ ARRAY_MIN_CAPACITY \in Nat /\ ARRAY_MIN_CAPACITY >= 1
  /\ UINT8_MAX \in Nat
  /\ CodeBound \in Nat /\ ArrayBound \in Nat

VARIABLES
  capacity,   \* of each array; 0 before it is initialised
  elements,   \* what was added to each; count is its length
  at,         \* the step of function_new, or what may be emitted
  result      \* Result: "ok" or the error it carries

avars == <<capacity, elements, at, result>>

Checked == {"constants", "nonlocals", "functions"}
Arrays  == Checked \cup {"code"}

(* What an element is: for the code, the byte's part in its instruction;   *)
(* behind the block, after a move, anything.                               *)
Elements == {"opcode", "operand", "low", "high", "element", "lost"}

count(a) == Len(elements[a])

AInit ==
  /\ capacity = [a \in Arrays |-> 0]
  /\ elements = [a \in Arrays |-> <<>>]
  /\ at = "function_new"
  /\ result = "ok"

-----------------------------------------------------------------------------
(* Memory.                                                                 *)

AFail(error) == result' = error /\ UNCHANGED <<capacity, elements, at>>

AOutOfMemory == AFail("out of memory")

(* The elements s after their block of c elements has been moved.          *)
Moved(s, c) ==
  {[i \in DOMAIN s |-> IF i \in gone THEN "lost" ELSE s[i]] :
     gone \in SUBSET ((c + 1)..Len(s))}

-----------------------------------------------------------------------------
(* A new function.                                                         *)

function_new ==
  /\ result = "ok" /\ at = "function_new"
  /\ \/ AOutOfMemory
     \/ at' = "code" /\ UNCHANGED <<capacity, elements, result>>

(* chunk_init, array_init, nonlocal_array_init, function_array_init.       *)
initialise(a, minimum, next) ==
  /\ result = "ok" /\ at = a
  /\ \/ AOutOfMemory
     \/ /\ capacity' = [capacity EXCEPT ![a] = minimum]
        /\ at' = next
        /\ UNCHANGED <<elements, result>>

chunk_init          == initialise("code", CHUNK_MIN_CAPACITY, "constants")
array_init          == initialise("constants", ARRAY_MIN_CAPACITY, "nonlocals")
nonlocal_array_init == initialise("nonlocals", ARRAY_MIN_CAPACITY, "functions")
function_array_init == initialise("functions", ARRAY_MIN_CAPACITY, "opcode")

-----------------------------------------------------------------------------
(* Chunks.                                                                 *)

(* Twice c, and again while it is less than needed.                        *)
Doubled_twice(c, needed) == 4 * c
Doubled(c, needed) ==
  LET doubled[n \in Nat] == IF n >= needed THEN n ELSE doubled[2 * n]
  IN IF needed <= 2 * c THEN 2 * c ELSE doubled[4 * c]

Written(s, bytes, c, next) ==
  /\ elements' = [elements EXCEPT !["code"] = s \o bytes]
  /\ capacity' = [capacity EXCEPT !["code"] = c]
  /\ at' = next

(* ensure_capacity(needed), then the bytes, whatever came of it.           *)
Emit(bytes, needed, next) ==
  LET s == elements["code"]
      c == capacity["code"]
  IN \/ needed <= c /\ Written(s, bytes, c, next) /\ result' = result
     \/ /\ needed > c
        /\ \/ /\ \E t \in Moved(s, c) : Written(t, bytes, Doubled(c, needed), next)
              /\ result' = result
           \/ Written(s, bytes, c, next) /\ result' = "out of memory"

chunk_emit_byte_late(byte, next) == Emit(<<byte>>, count("code"), next)
chunk_emit_byte(byte, next)      == Emit(<<byte>>, count("code") + 1, next)

chunk_emit_word(next) == Emit(<<"low", "high">>, count("code") + 1, next)

Emitting(n) == result = "ok" /\ count("code") + n <= CodeBound

emit_opcode ==
  /\ at = "opcode" /\ Emitting(1)
  /\ \E next \in {"opcode", "byte", "word"} : chunk_emit_byte("opcode", next)

emit_byte == at = "byte" /\ Emitting(1) /\ chunk_emit_byte("operand", "opcode")

emit_word == at = "word" /\ Emitting(2) /\ chunk_emit_word("opcode")

-----------------------------------------------------------------------------
(* Arrays.                                                                 *)

Adding(a) == result = "ok" /\ at = "opcode" /\ count(a) < ArrayBound

Full_late(a) == count(a) > capacity[a]
Full(a)      == count(a) >= capacity[a]

(* The elements and the capacity when there is room for one more.          *)
Grown(a) ==
  IF Full(a) THEN Moved(elements[a], capacity[a]) \X {2 * capacity[a]}
             ELSE {<<elements[a], capacity[a]>>}

Stored(a, s, c) ==
  /\ elements' = [elements EXCEPT ![a] = s]
  /\ capacity' = [capacity EXCEPT ![a] = c]
  /\ UNCHANGED at

Add(a) ==
  /\ \E b \in Grown(a) : Stored(a, Append(b[1], "element"), b[2])
  /\ result' = result

array_add_unchecked(a) ==
  \/ Add(a)
  \/ /\ Full(a) /\ result' = result
     /\ Stored(a, Append(elements[a], "element"), capacity[a])
array_add(a) == Add(a) \/ (Full(a) /\ AOutOfMemory)

add_constant ==
  /\ Adding("constants")
  /\ \/ count("constants") > UINT8_MAX /\ AFail("too many constants")
     \/ count("constants") <= UINT8_MAX /\ array_add("constants")

(* The array has grown before the limit is looked at.                      *)
Nonlocal(limit) ==
  /\ Adding("nonlocals")
  /\ \/ Full("nonlocals") /\ AOutOfMemory
     \/ count("nonlocals") <= limit /\ Add("nonlocals")
     \/ /\ count("nonlocals") > limit
        /\ \E b \in Grown("nonlocals") : Stored("nonlocals", b[1], b[2])
        /\ result' = "too many non-locals"

function_add_nonlocal_off_by_one == Nonlocal(UINT8_MAX + 1)
function_add_nonlocal            == Nonlocal(UINT8_MAX)

function_add_child == Adding("functions") /\ array_add("functions")

-----------------------------------------------------------------------------
ANext ==
  \/ function_new
  \/ chunk_init \/ array_init \/ nonlocal_array_init \/ function_array_init
  \/ emit_opcode \/ emit_byte \/ emit_word
  \/ add_constant \/ function_add_nonlocal \/ function_add_child

ASpec == AInit /\ [][ANext]_avars

-----------------------------------------------------------------------------
(* The type invariant, a part of the inductive one.                        *)
ATypeOK ==
  /\ capacity \in [Arrays -> Nat]
  /\ elements \in [Arrays -> Seq(Elements)]
  /\ at \in Arrays \cup {"function_new", "opcode", "byte", "word"}
  /\ result \in {"ok", "out of memory", "too many constants",
                 "too many non-locals"}

(* Nothing is stored outside an array of constants, nonlocals or           *)
(* functions, an allocation that fails at any point included.              *)
ArraysInside == \A a \in Checked : count(a) <= capacity[a]

(* chunk_emit_word makes room for one byte of its two and both emitters    *)
(* write after an allocation that failed: code lies behind the block by    *)
(* one byte at most, the second of a word that has just been emitted, and  *)
(* by two at the end of a compilation that fails.                          *)
ChunkOverrun ==
  /\ result = "ok" =>
       \/ count("code") <= capacity["code"]
       \/ /\ count("code") = capacity["code"] + 1
          /\ at = "opcode"
          /\ elements["code"][count("code")] = "high"
  /\ count("code") <= capacity["code"] + 2

(* Growing keeps what was added, except that the second byte of a word     *)
(* that lay behind the block may be lost.                                  *)
ElementsKept ==
  /\ \A a \in Checked : \A i \in 1..count(a) : elements[a][i] = "element"
  /\ \A i \in 1..count("code") :
       elements["code"][i] \in {"high", "lost"} =>
         i > 1 /\ elements["code"][i - 1] = "low"

(* A block is at most twice as large as what is in it: arrays grow when    *)
(* they are full, and one doubling makes room for any request.             *)
NoWaste ==
  /\ capacity["code"] <= CHUNK_MIN_CAPACITY \/ capacity["code"] <= 2 * count("code")
  /\ \A a \in Checked :
       capacity[a] <= ARRAY_MIN_CAPACITY \/ capacity[a] <= 2 * count(a)

(* The place of a constant and of a nonlocal fits into the byte that the   *)
(* compiler emits for it, at the limits too.                               *)
PlacesFit ==
  /\ count("constants") <= UINT8_MAX + 1
  /\ count("nonlocals") <= UINT8_MAX + 1

(* The arrays are made one after the other, and used when all are.         *)
Made ==
  /\ at \notin {"function_new", "code"} => capacity["code"] >= CHUNK_MIN_CAPACITY
  /\ at \in {"nonlocals", "functions", "opcode", "byte", "word"} =>
       capacity["constants"] >= ARRAY_MIN_CAPACITY
  /\ at \in {"functions", "opcode", "byte", "word"} =>
       capacity["nonlocals"] >= ARRAY_MIN_CAPACITY
  /\ at \in {"opcode", "byte", "word"} =>
       capacity["functions"] >= ARRAY_MIN_CAPACITY
  /\ at \notin {"opcode", "byte", "word"} => \A a \in Arrays : elements[a] = <<>>

(* Before an operand the opcode is inside the block.                       *)
OpcodeInside ==
  result = "ok" /\ at \in {"byte", "word"} => count("code") <= capacity["code"]

(* The inductive invariant.                                                *)
AInv ==
  /\ ATypeOK
  /\ Made
  /\ OpcodeInside
  /\ ArraysInside
  /\ ChunkOverrun
  /\ ElementsKept
  /\ NoWaste
  /\ PlacesFit
=============================================================================
