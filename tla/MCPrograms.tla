---------------------------- MODULE MCPrograms ----------------------------
(***************************************************************************)
(* Bytecode for the runs of the virtual machine: an assembler, and the     *)
(* functions `rinha dump` lists for small programs (source in the comment, *)
(* in the notation of docs/rinha.ebnf).  Strings are numbered in strs.     *)
(***************************************************************************)
EXTENDS Values, Bytecode, SequencesExt

Encode(ins) ==
  <<OpCode(ins[1])>> \o (IF ins[1] \in WordOps THEN WordBytes(ins[2])
                         ELSE Tail(ins))

Assemble(list) == FlattenSeq([i \in DOMAIN list |-> Encode(list[i])])

Cap(isLocal, index) == [isLocal |-> isLocal, index |-> index]

Fn(arity, constants, list, nonlocals, functions) ==
  [arity |-> arity, code |-> Assemble(list), constants |-> constants,
   nonlocals |-> nonlocals, functions |-> functions]

(* let x = 7; let f = fn (a) => { fn (b) => { a + (b + x) } };             *)
(* print(f(1)(2))                                                          *)
ProgramCaptures ==
  [functions |-> <<
     Fn(0, <<>>, <<<<"OP_INT", 7>>, <<"OP_CLOSURE", 0>>, <<"OP_LOCAL", 2>>,
        <<"OP_INT", 1>>, <<"OP_CALL", 1>>, <<"OP_INT", 2>>, <<"OP_CALL", 1>>,
        <<"OP_PRINT">>, <<"OP_RETURN">>>>, <<>>, <<2>>),
     Fn(1, <<>>, <<<<"OP_CLOSURE", 0>>, <<"OP_RETURN">>>>,
        <<Cap(TRUE, 1)>>, <<3>>),
     Fn(1, <<>>, <<<<"OP_NONLOCAL", 0>>, <<"OP_LOCAL", 1>>,
        <<"OP_NONLOCAL", 1>>, <<"OP_ADD">>, <<"OP_ADD">>, <<"OP_RETURN">>>>,
        <<Cap(TRUE, 1), Cap(FALSE, 0)>>, <<>>)>>,
   strs |-> <<>>]

(* let fib = fn (n) => { if (n < 2) { n } else { fib(n - 1) + fib(n - 2)   *)
(* } }; print(fib(4))                                                      *)
ProgramFib ==
  [functions |-> <<
     Fn(0, <<>>, <<<<"OP_CLOSURE", 0>>, <<"OP_LOCAL", 1>>, <<"OP_INT", 4>>,
        <<"OP_CALL", 1>>, <<"OP_PRINT">>, <<"OP_RETURN">>>>, <<>>, <<2>>),
     Fn(1, <<>>, <<<<"OP_LOCAL", 1>>, <<"OP_INT", 2>>, <<"OP_LT">>,
        <<"OP_JUMP_IF_FALSE", 14>>, <<"OP_LOCAL", 1>>, <<"OP_JUMP", 35>>,
        <<"OP_NONLOCAL", 0>>, <<"OP_LOCAL", 1>>, <<"OP_INT", 1>>,
        <<"OP_SUB">>, <<"OP_CALL", 1>>, <<"OP_NONLOCAL", 0>>,
        <<"OP_LOCAL", 1>>, <<"OP_INT", 2>>, <<"OP_SUB">>, <<"OP_CALL", 1>>,
        <<"OP_ADD">>, <<"OP_RETURN">>>>, <<Cap(TRUE, 1)>>, <<>>)>>,
   strs |-> <<>>]

(* let loop = fn (n, acc) => { if (n == 0) { acc } else { loop(n - 1, (n,  *)
(* acc)) } }; print(first(loop(9, true)))                                  *)
ProgramLoop ==
  [functions |-> <<
     Fn(0, <<>>, <<<<"OP_CLOSURE", 0>>, <<"OP_LOCAL", 1>>, <<"OP_INT", 9>>,
        <<"OP_TRUE">>, <<"OP_CALL", 2>>, <<"OP_FIRST">>, <<"OP_PRINT">>,
        <<"OP_RETURN">>>>, <<>>, <<2>>),
     Fn(2, <<>>, <<<<"OP_LOCAL", 1>>, <<"OP_INT", 0>>, <<"OP_EQ">>,
        <<"OP_JUMP_IF_FALSE", 14>>, <<"OP_LOCAL", 2>>, <<"OP_JUMP", 29>>,
        <<"OP_NONLOCAL", 0>>, <<"OP_LOCAL", 1>>, <<"OP_INT", 1>>,
        <<"OP_SUB">>, <<"OP_LOCAL", 1>>, <<"OP_LOCAL", 2>>, <<"OP_TUPLE">>,
        <<"OP_TAIL_CALL", 2>>, <<"OP_RETURN">>>>, <<Cap(TRUE, 1)>>, <<>>)>>,
   strs |-> <<>>]

(* let sum = fn (n) => { if (n == 0) { 0 } else { n + sum(n - 1) } };      *)
(* print(sum(k))                                                           *)
ProgramSum(k) ==
  [functions |-> <<
     Fn(0, <<>>, <<<<"OP_CLOSURE", 0>>, <<"OP_LOCAL", 1>>, <<"OP_INT", k>>,
        <<"OP_CALL", 1>>, <<"OP_PRINT">>, <<"OP_RETURN">>>>, <<>>, <<2>>),
     Fn(1, <<>>, <<<<"OP_LOCAL", 1>>, <<"OP_INT", 0>>, <<"OP_EQ">>,
        <<"OP_JUMP_IF_FALSE", 15>>, <<"OP_INT", 0>>, <<"OP_JUMP", 28>>,
        <<"OP_LOCAL", 1>>, <<"OP_NONLOCAL", 0>>, <<"OP_LOCAL", 1>>,
        <<"OP_INT", 1>>, <<"OP_SUB">>, <<"OP_CALL", 1>>, <<"OP_ADD">>,
        <<"OP_RETURN">>>>, <<Cap(TRUE, 1)>>, <<>>)>>,
   strs |-> <<>>]

(* let g = fn (a, b, c) => { (a, (b, c)) }; let f = fn (a) => { g(a, "s",  *)
(* false) }; print(f(3) == (3, ("s", false)))                              *)
ProgramWiden ==
  [functions |-> <<
     Fn(0, <<str_value(1)>>, <<<<"OP_CLOSURE", 0>>, <<"OP_CLOSURE", 1>>,
        <<"OP_LOCAL", 2>>, <<"OP_INT", 3>>, <<"OP_CALL", 1>>, <<"OP_INT", 3>>,
        <<"OP_CONSTANT", 0>>, <<"OP_FALSE">>, <<"OP_TUPLE">>, <<"OP_TUPLE">>,
        <<"OP_EQ">>, <<"OP_PRINT">>, <<"OP_RETURN">>>>, <<>>, <<2, 3>>),
     Fn(3, <<>>, <<<<"OP_LOCAL", 1>>, <<"OP_LOCAL", 2>>, <<"OP_LOCAL", 3>>,
        <<"OP_TUPLE">>, <<"OP_TUPLE">>, <<"OP_RETURN">>>>, <<>>, <<>>),
     Fn(1, <<str_value(2)>>, <<<<"OP_NONLOCAL", 0>>, <<"OP_LOCAL", 1>>,
        <<"OP_CONSTANT", 0>>, <<"OP_FALSE">>, <<"OP_TAIL_CALL", 3>>,
        <<"OP_RETURN">>>>, <<Cap(TRUE, 1)>>, <<>>)>>,
   strs |-> <<<<115>>, <<115>>>>]

(* let f = 1; print(f(2))                                                  *)
ProgramNotCallable ==
  [functions |-> <<
     Fn(0, <<>>, <<<<"OP_INT", 1>>, <<"OP_LOCAL", 1>>, <<"OP_INT", 2>>,
        <<"OP_CALL", 1>>, <<"OP_PRINT">>, <<"OP_RETURN">>>>, <<>>, <<>>)>>,
   strs |-> <<>>]

(* let f = fn (x) => { x }; let g = fn () => { f() }; print(g())           *)
ProgramArity ==
  [functions |-> <<
     Fn(0, <<>>, <<<<"OP_CLOSURE", 0>>, <<"OP_CLOSURE", 1>>,
        <<"OP_LOCAL", 2>>, <<"OP_CALL", 0>>, <<"OP_PRINT">>,
        <<"OP_RETURN">>>>, <<>>, <<2, 3>>),
     Fn(1, <<>>, <<<<"OP_LOCAL", 1>>, <<"OP_RETURN">>>>, <<>>, <<>>),
     Fn(0, <<>>, <<<<"OP_NONLOCAL", 0>>, <<"OP_TAIL_CALL", 0>>,
        <<"OP_RETURN">>>>, <<Cap(TRUE, 1)>>, <<>>)>>,
   strs |-> <<>>]

(* let f = fn (x) => { "a" + (x + "b") }; print(f(12)) != print(true +     *)
(* "")                                                                     *)
ProgramText ==
  [functions |-> <<
     Fn(0, <<str_value(1)>>, <<<<"OP_CLOSURE", 0>>, <<"OP_LOCAL", 1>>,
        <<"OP_INT", 12>>, <<"OP_CALL", 1>>, <<"OP_PRINT">>, <<"OP_TRUE">>,
        <<"OP_CONSTANT", 0>>, <<"OP_ADD">>, <<"OP_PRINT">>, <<"OP_NEQ">>,
        <<"OP_RETURN">>>>, <<>>, <<2>>),
     Fn(1, <<str_value(2), str_value(3)>>, <<<<"OP_CONSTANT", 0>>,
        <<"OP_LOCAL", 1>>, <<"OP_CONSTANT", 1>>, <<"OP_ADD">>, <<"OP_ADD">>,
        <<"OP_RETURN">>>>, <<>>, <<>>)>>,
   strs |-> <<<<>>, <<97>>, <<98>>>>]

(* let f = fn (n) => { if (n > 1) { print(n) } else { f(n + 1) } }; f(0)   *)
ProgramTopTail ==
  [functions |-> <<
     Fn(0, <<>>, <<<<"OP_CLOSURE", 0>>, <<"OP_LOCAL", 1>>, <<"OP_INT", 0>>,
        <<"OP_TAIL_CALL", 1>>, <<"OP_RETURN">>>>, <<>>, <<2>>),
     Fn(1, <<>>, <<<<"OP_LOCAL", 1>>, <<"OP_INT", 1>>, <<"OP_GT">>,
        <<"OP_JUMP_IF_FALSE", 15>>, <<"OP_LOCAL", 1>>, <<"OP_PRINT">>,
        <<"OP_JUMP", 25>>, <<"OP_NONLOCAL", 0>>, <<"OP_LOCAL", 1>>,
        <<"OP_INT", 1>>, <<"OP_ADD">>, <<"OP_TAIL_CALL", 1>>,
        <<"OP_RETURN">>>>, <<Cap(TRUE, 1)>>, <<>>)>>,
   strs |-> <<>>]

(* let k = fn (a) => { fn (b) => { if (b) { a } else { k(5)(true) } } };   *)
(* print(k(4)(false)) || true                                              *)
ProgramCurryTail ==
  [functions |-> <<
     Fn(0, <<>>, <<<<"OP_CLOSURE", 0>>, <<"OP_LOCAL", 1>>, <<"OP_INT", 4>>,
        <<"OP_CALL", 1>>, <<"OP_FALSE">>, <<"OP_CALL", 1>>, <<"OP_PRINT">>,
        <<"OP_TRUE">>, <<"OP_OR">>, <<"OP_RETURN">>>>, <<>>, <<2>>),
     Fn(1, <<>>, <<<<"OP_CLOSURE", 0>>, <<"OP_RETURN">>>>,
        <<Cap(TRUE, 1)>>, <<3>>),
     Fn(1, <<>>, <<<<"OP_LOCAL", 1>>, <<"OP_JUMP_IF_FALSE", 10>>,
        <<"OP_NONLOCAL", 0>>, <<"OP_JUMP", 20>>, <<"OP_NONLOCAL", 1>>,
        <<"OP_INT", 5>>, <<"OP_CALL", 1>>, <<"OP_TRUE">>,
        <<"OP_TAIL_CALL", 1>>, <<"OP_RETURN">>>>, <<Cap(TRUE, 1),
        Cap(FALSE, 0)>>, <<>>)>>,
   strs |-> <<>>]

(* print(1 + if (true && false) { 1 } else { second((1, 2)) })             *)
ProgramCondArg ==
  [functions |-> <<
     Fn(0, <<>>, <<<<"OP_INT", 1>>, <<"OP_TRUE">>, <<"OP_FALSE">>,
        <<"OP_AND">>, <<"OP_JUMP_IF_FALSE", 15>>, <<"OP_INT", 1>>,
        <<"OP_JUMP", 23>>, <<"OP_INT", 1>>, <<"OP_INT", 2>>, <<"OP_TUPLE">>,
        <<"OP_SECOND">>, <<"OP_ADD">>, <<"OP_PRINT">>, <<"OP_RETURN">>>>,
        <<>>, <<>>)>>,
   strs |-> <<>>]
(* let t = fn (n) => { if (n == 0) { (300, t == t) } else { t(n - 1) } };  *)
(* print(t(2))                                                             *)
ProgramSelf ==
  [functions |-> <<
     Fn(0, <<>>, <<<<"OP_CLOSURE", 0>>, <<"OP_LOCAL", 1>>, <<"OP_INT", 2>>,
        <<"OP_CALL", 1>>, <<"OP_PRINT">>, <<"OP_RETURN">>>>, <<>>, <<2>>),
     Fn(1, <<>>, <<<<"OP_LOCAL", 1>>, <<"OP_INT", 0>>, <<"OP_EQ">>,
        <<"OP_JUMP_IF_FALSE", 21>>, <<"OP_INT", 300>>, <<"OP_NONLOCAL", 0>>,
        <<"OP_NONLOCAL", 0>>, <<"OP_EQ">>, <<"OP_TUPLE">>, <<"OP_JUMP", 31>>,
        <<"OP_NONLOCAL", 0>>, <<"OP_LOCAL", 1>>, <<"OP_INT", 1>>,
        <<"OP_SUB">>, <<"OP_TAIL_CALL", 1>>, <<"OP_RETURN">>>>,
        <<Cap(TRUE, 1)>>, <<>>)>>,
   strs |-> <<>>]

(* print(1) % (1 - 1)                                                      *)
ProgramTrap ==
  [functions |-> <<
     Fn(0, <<>>, <<<<"OP_INT", 1>>, <<"OP_PRINT">>, <<"OP_INT", 1>>,
        <<"OP_INT", 1>>, <<"OP_SUB">>, <<"OP_REM">>, <<"OP_RETURN">>>>,
        <<>>, <<>>)>>,
   strs |-> <<>>]

(* print((1, (2, (3, ...)))) with n commas: n + 2 cells.                   *)
ProgramDeep(n) ==
  [functions |-> <<
     Fn(0, <<>>, [i \in 1..(n + 1) |-> <<"OP_INT", i>>]
                 \o [i \in 1..n |-> <<"OP_TUPLE">>]
                 \o <<<<"OP_PRINT">>, <<"OP_RETURN">>>>, <<>>, <<>>)>>,
   strs |-> <<>>]

(* The one operation no term compiles to.                                  *)
ProgramNop ==
  [functions |-> <<
     Fn(0, <<>>, <<<<"OP_NOP">>, <<"OP_TRUE">>, <<"OP_RETURN">>>>,
        <<>>, <<>>)>>,
   strs |-> <<>>]

(* let max = 2147483647; let min = 0 - max - 1; let f = fn () => { (min,   *)
(* max) }; print(f())                                                      *)
ProgramEnds ==
  [functions |-> <<
     Fn(0, <<int_value(INT_MAX)>>, <<<<"OP_CONSTANT", 0>>, <<"OP_INT", 0>>,
        <<"OP_LOCAL", 1>>, <<"OP_SUB">>, <<"OP_INT", 1>>, <<"OP_SUB">>,
        <<"OP_CLOSURE", 0>>, <<"OP_LOCAL", 3>>, <<"OP_CALL", 0>>,
        <<"OP_PRINT">>, <<"OP_RETURN">>>>, <<>>, <<2>>),
     Fn(0, <<>>, <<<<"OP_NONLOCAL", 0>>, <<"OP_NONLOCAL", 1>>, <<"OP_TUPLE">>,
        <<"OP_RETURN">>>>, <<Cap(TRUE, 2), Cap(TRUE, 1)>>, <<>>)>>,
   strs |-> <<>>]
============================================================================
