---------------------------- MODULE Certificates ----------------------------
(***************************************************************************)
(* Well-formed bytecode.  The compiler leaves one value per term, so each  *)
(* instruction finds a known number of cells above cell 0 of its frame.    *)
(* A certificate of a function says so: for each address that control can  *)
(* reach in it, a lower bound of the number of cells.  CertifiedBy says    *)
(* that the certificates of a program are right, instruction by            *)
(* instruction and without running anything.                               *)
(***************************************************************************)
EXTENDS Values, Bytecode

Function == [arity     : Nat,
             code      : Seq(0..UINT8_MAX),
             constants : Seq(Value),
             nonlocals : Seq([isLocal : BOOLEAN, index : Nat]),
             functions : Seq(Nat)]

(* Control may go on at b with n cells in use above cell 0.                *)
Flows(h, b, n) == b \in DOMAIN h /\ h[b] <= n

(* The variables a closure captures exist when a frame of fn of height n   *)
(* creates it; n counts the closure itself.                                *)
CaptureSafe(fn, n, child) ==
  \A i \in 1..Len(child.nonlocals) :
    IF child.nonlocals[i].isLocal
    THEN child.nonlocals[i].index <= n
    ELSE child.nonlocals[i].index < Len(fn.nonlocals)

Binary == {"OP_ADD", "OP_SUB", "OP_MUL", "OP_DIV", "OP_REM", "OP_EQ", "OP_NEQ",
           "OP_LT", "OP_GT", "OP_LTE", "OP_GTE", "OP_AND", "OP_OR", "OP_TUPLE"}

(* Rules for the instruction of fn at a, by its operation.                 *)
SafeAt(p, fn, h, a) ==
  LET op   == OpAt(fn, a)
      n    == h[a]
      byte == read_byte(fn, a + 1)
      word == read_word(fn, a + 1)
  IN /\ a + Size(op) <= Len(fn.code)
     /\ op = "OP_NOP" => Flows(h, a + 1, n)
     /\ op \in {"OP_FALSE", "OP_TRUE"} => Flows(h, a + 1, n + 1)
     /\ op = "OP_INT" => Flows(h, a + 3, n + 1)
     /\ op = "OP_CONSTANT" =>
          byte < Len(fn.constants) /\ Flows(h, a + 2, n + 1)
     /\ op = "OP_LOCAL" => byte <= n /\ Flows(h, a + 2, n + 1)
     /\ op = "OP_NONLOCAL" =>
          byte < Len(fn.nonlocals) /\ Flows(h, a + 2, n + 1)
     /\ op = "OP_CLOSURE" =>
          /\ byte < Len(fn.functions)
          /\ CaptureSafe(fn, n + 1, p.functions[fn.functions[byte + 1]])
          /\ Flows(h, a + 2, n + 1)
     /\ op \in Binary => n >= 2 /\ Flows(h, a + 1, n - 1)
     /\ op \in {"OP_FIRST", "OP_SECOND", "OP_PRINT"} =>
          n >= 1 /\ Flows(h, a + 1, n)
     /\ op = "OP_JUMP" => Flows(h, word, n)
     /\ op = "OP_JUMP_IF_FALSE" =>
          n >= 1 /\ Flows(h, word, n - 1) /\ Flows(h, a + 3, n - 1)
     /\ op = "OP_CALL" => byte < n /\ Flows(h, a + 2, n - byte)
     /\ op = "OP_TAIL_CALL" => byte < n

(* depth is a certificate for each function of p, and what the functions   *)
(* refer to exists.                                                        *)
CertifiedBy(p, depth) ==
  /\ p.functions \in Seq(Function)
  /\ p.functions # <<>> /\ p.functions[1].arity = 0
  /\ p.functions[1].nonlocals = <<>>
  /\ p.strs \in Seq(Seq(Nat))
  /\ \A f \in 1..Len(p.functions) :
       LET fn == p.functions[f]
           h  == depth[fn]
       IN /\ DOMAIN h \subseteq dump_function(fn)
          /\ h \in [DOMAIN h -> Nat]
          /\ Flows(h, 0, fn.arity)
          /\ \A a \in DOMAIN h : SafeAt(p, fn, h, a)
          /\ \A i \in 1..Len(fn.functions) :
               fn.functions[i] \in 1..Len(p.functions)
          /\ \A i \in 1..Len(fn.constants) :
               \/ is_int(fn.constants[i])
               \/ /\ is_str(fn.constants[i])
                  /\ fn.constants[i].val \in 1..Len(p.strs)
=============================================================================
