------------------------------ MODULE Bytecode ------------------------------
(***************************************************************************)
(* The instruction set shared by the compiler, the virtual machine and the *)
(* disassembler (chunk.h, function.h, dump.c).                             *)
(*                                                                         *)
(* A function is a record                                                  *)
(*   arity      number of parameters                                       *)
(*   code       its bytes; the byte at address a (from 0) is code[a + 1]   *)
(*   constants  its constant values                                        *)
(*   nonlocals  for each captured variable, whether it is a slot of the    *)
(*              enclosing frame or one of its nonlocals, and the index     *)
(*   functions  the functions it creates closures of, as positions in the  *)
(*              table of all functions                                     *)
(***************************************************************************)
EXTENDS Integers, Sequences

CONSTANT UINT8_MAX      \* largest byte operand; 255 in the program

UINT16_MAX == (UINT8_MAX + 1) * (UINT8_MAX + 1) - 1

OpNames == <<
  "OP_NOP",     "OP_FALSE",     "OP_TRUE",
  "OP_INT",     "OP_CONSTANT",  "OP_TUPLE",
  "OP_CLOSURE", "OP_LOCAL",     "OP_NONLOCAL",
  "OP_ADD",     "OP_SUB",       "OP_MUL",
  "OP_DIV",     "OP_REM",       "OP_EQ",
  "OP_NEQ",     "OP_LT",        "OP_GT",
  "OP_LTE",     "OP_GTE",       "OP_AND",
  "OP_OR",      "OP_JUMP",      "OP_JUMP_IF_FALSE",
  "OP_FIRST",   "OP_SECOND",    "OP_PRINT",
  "OP_CALL",    "OP_TAIL_CALL", "OP_RETURN" >>

ASSUME ByteAssumption == UINT8_MAX \in Nat /\ UINT8_MAX + 1 >= Len(OpNames)

OpCode(name) == (CHOOSE i \in DOMAIN OpNames : OpNames[i] = name) - 1

WordOps == {"OP_INT", "OP_JUMP", "OP_JUMP_IF_FALSE"}
ByteOps == {"OP_CONSTANT", "OP_CLOSURE", "OP_LOCAL", "OP_NONLOCAL", "OP_CALL",
            "OP_TAIL_CALL"}

(* Bytes of an instruction as dump_function steps over it.                 *)
Size(op) == IF op \in WordOps THEN 3 ELSE IF op \in ByteOps THEN 2 ELSE 1

OpAt(fn, a) == OpNames[fn.code[a + 1] + 1]

read_byte(fn, a) == fn.code[a + 1]

(* Words are stored low byte first and need not be aligned.                *)
read_word(fn, a) == fn.code[a + 1] + (UINT8_MAX + 1) * fn.code[a + 2]

WordBytes(w) == <<w % (UINT8_MAX + 1), w \div (UINT8_MAX + 1)>>

(* The addresses at which dump_function prints an instruction of fn: a     *)
(* linear sweep from 0 to the end of the code.                             *)
dump_function(fn) ==
  LET from[a \in Nat] ==
        IF a >= Len(fn.code) THEN {} ELSE {a} \cup from[a + Size(OpAt(fn, a))]
  IN from[0]
=============================================================================
