--------------------------- MODULE MCCertificates ---------------------------
(***************************************************************************)
(* Certificates for TLC, computed.  All jumps are forward, so one pass     *)
(* over the instructions in address order finds the least number of cells  *)
(* with which each is reached.                                             *)
(***************************************************************************)
EXTENDS Certificates, SequencesExt

(* Cells an instruction adds.                                              *)
Effect(op, byte) ==
  CASE op \in {"OP_FALSE", "OP_TRUE", "OP_INT", "OP_CONSTANT", "OP_CLOSURE",
               "OP_LOCAL", "OP_NONLOCAL"} -> 1
    [] op \in Binary \cup {"OP_JUMP_IF_FALSE"} -> -1
    [] op = "OP_CALL" -> -byte
    [] OTHER -> 0

Successors(fn, a) ==
  LET op == OpAt(fn, a)
  IN CASE op \in {"OP_RETURN", "OP_TAIL_CALL"} -> {}
       [] op = "OP_JUMP" -> {read_word(fn, a + 1)}
       [] op = "OP_JUMP_IF_FALSE" -> {read_word(fn, a + 1), a + 3}
       [] OTHER -> {a + Size(op)}

Reach(h, succ, n) ==
  [b \in DOMAIN h \cup succ |->
     IF b \notin succ THEN h[b]
     ELSE IF b \notin DOMAIN h \/ h[b] > n THEN n ELSE h[b]]

CertificateOf(fn) ==
  LET visit(h, a) ==
        IF a \notin DOMAIN h THEN h
        ELSE Reach(h, Successors(fn, a),
                   h[a] + Effect(OpAt(fn, a), read_byte(fn, a + 1)))
  IN FoldLeft(visit, 0 :> fn.arity, [i \in DOMAIN fn.code |-> i - 1])
=============================================================================
