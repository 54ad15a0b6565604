---------------------------- MODULE MCOperators ----------------------------
(***************************************************************************)
(* Every binary operation on every pair of operands of a small set, as     *)
(* programs print(a op b), against reference definitions on numbers and    *)
(* trees (Reference).                                                      *)
(***************************************************************************)
EXTENDS VM, MCPrograms, Reference

(* An operand: the instructions that push it, and the value it denotes.    *)
(* Constants 0, 1 and 2 of every program are INT_MAX, "a" and "ab".        *)
Operand(list, tree) == [list |-> list, tree |-> tree]

Numbers ==
  { Operand(<< <<"OP_INT", 0>> >>, Num(0)),
    Operand(<< <<"OP_INT", 7>> >>, Num(7)),
    Operand(<< <<"OP_CONSTANT", 0>> >>, Num(INT_MAX)),
    Operand(<< <<"OP_INT", 0>>, <<"OP_INT", 1>>, <<"OP_SUB">> >>, Num(-1)),
    Operand(<< <<"OP_INT", 2>>, <<"OP_INT", 5>>, <<"OP_SUB">> >>, Num(-3)),
    Operand(<< <<"OP_INT", 0>>, <<"OP_CONSTANT", 0>>, <<"OP_SUB">>,
               <<"OP_INT", 1>>, <<"OP_SUB">> >>, Num(INT_MIN)) }

Others ==
  { Operand(<< <<"OP_TRUE">> >>, Bool(TRUE)),
    Operand(<< <<"OP_FALSE">> >>, Bool(FALSE)),
    Operand(<< <<"OP_CONSTANT", 1>> >>, Text(<<97>>)),
    Operand(<< <<"OP_CONSTANT", 2>> >>, Text(<<97, 98>>)),
    Operand(<< <<"OP_CONSTANT", 1>>, <<"OP_INT", 1>>, <<"OP_TUPLE">> >>,
            Pair(Text(<<97>>), Num(1))),
    Operand(<< <<"OP_CONSTANT", 1>>, <<"OP_CONSTANT", 1>>, <<"OP_INT", 1>>,
               <<"OP_TUPLE">>, <<"OP_TUPLE">> >>,
            Pair(Text(<<97>>), Pair(Text(<<97>>), Num(1)))),
    Operand(<< <<"OP_CLOSURE", 0>> >>, Closure(0)) }

Operands == Numbers \cup Others

Operations == [OP_ADD |-> "Add", OP_SUB |-> "Sub", OP_MUL |-> "Mul",
               OP_DIV |-> "Div", OP_REM |-> "Rem", OP_EQ  |-> "Eq",
               OP_NEQ |-> "Neq", OP_LT  |-> "Lt",  OP_GT  |-> "Gt",
               OP_LTE |-> "Lte", OP_GTE |-> "Gte", OP_AND |-> "And",
               OP_OR  |-> "Or"]

Cases == (DOMAIN Operations) \X Operands \X Operands

Body(c) ==
  Fn(0, <<int_value(INT_MAX), str_value(1), str_value(2)>>,
     c[2].list \o c[3].list \o << <<c[1]>>, <<"OP_PRINT">>, <<"OP_RETURN">> >>,
     <<>>, <<2>>)

Constant == Fn(0, <<>>, << <<"OP_TRUE">>, <<"OP_RETURN">> >>, <<>>, <<>>)

MCBody == [c \in Cases |-> Body(c)]

MCOperatorPrograms ==
  { [functions |-> <<MCBody[c], Constant>>,
     strs      |-> << <<97>>, <<97, 98>> >>] : c \in Cases }

-----------------------------------------------------------------------------
(* What a run shows.                                                       *)

RECURSIVE TreeOf(_)
TreeOf(v) ==
  CASE v.type = "bool"    -> Bool(v.val = 1)
    [] v.type = "int"     -> Num(v.val)
    [] v.type = "str"     -> Text(strs[v.val])
    [] v.type = "tuple"   -> Pair(TreeOf(tuples[v.val].first),
                                  TreeOf(tuples[v.val].second))
    [] v.type = "closure" -> Closure(v.val)

Observed == CASE status = "trapped" -> Killed
              [] result # "ok"      -> Failure
              [] OTHER              -> TreeOf(out[1])

(* The operation under test: it stands before OP_PRINT and OP_RETURN.      *)
Tested == OpAt(functions[1], Len(functions[1].code) - 3)

Compares(op) == op \in {"OP_LT", "OP_GT", "OP_LTE", "OP_GTE"}

(* Two evaluations of a function term give two closures.                   *)
OnTheRight(tree) == IF tree = Closure(0) THEN Closure(1) ELSE tree

Expected(c) == Outcomes(Operations[c[1]], c[2].tree, OnTheRight(c[3].tree))

(* Every operation computes its reference definition, on all types, at the *)
(* ends of the range of ints and with its operands in order.  Two ints     *)
(* whose difference is not an int are left out of the comparisons:         *)
(* value_compare subtracts them.                                           *)
OperatorsAgree ==
  status \in {"halted", "trapped"} =>
    \A c \in {Tested} \X Operands \X Operands :
      functions[1] = MCBody[c] =>
        \/ Observed \in Expected(c)
        \/ /\ Compares(c[1]) /\ Both("int", c[2].tree, c[3].tree)
           /\ ~Representable(c[2].tree[2] - c[3].tree[2])
============================================================================
