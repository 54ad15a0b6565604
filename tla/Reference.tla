----------------------------- MODULE Reference -----------------------------
(***************************************************************************)
(* What the operations of the language mean, on numbers and trees: no      *)
(* pointers, no widths, no order of evaluation.  A closure is known by     *)
(* its identity.                                                           *)
(***************************************************************************)
EXTENDS Values

Text(s)    == <<"str", s>>
Num(n)     == <<"int", n>>
Bool(b)    == <<"bool", b>>
Pair(x, y) == <<"tuple", x, y>>
Closure(i) == <<"closure", i>>

Falsy(x) == x = Bool(FALSE)

(* Outcomes that are no value.                                             *)
Failure == <<"error">>
Killed  == <<"trap">>

Representable(n) == n \in INT_MIN..INT_MAX

(* Two's complement: the representable number that differs from n by a     *)
(* multiple of the number of ints.                                         *)
Reduced(n) ==
  IF Representable(n) THEN n
  ELSE CHOOSE m \in INT_MIN..INT_MAX : (n - m) % (2 * INT_MAX + 2) = 0

(* The quotient x / y: what is left of x is smaller than y and has the     *)
(* sign of x.                                                              *)
IsQuotient(q, x, y) == /\ Abs(x - q * y) < Abs(y)
                       /\ x # q * y => (x - q * y < 0) = (x < 0)

Quotients(x, y) == {q \in INT_MIN..INT_MAX : IsQuotient(q, x, y)}

RECURSIVE Decimal(_)
Decimal(n) ==
  IF n < 0 THEN <<45>> \o Decimal(-n)
  ELSE IF n < 10 THEN <<48 + n>>
  ELSE Decimal(n \div 10) \o <<48 + (n % 10)>>

AsText(x) == CASE x[1] = "str"  -> x[2]
               [] x[1] = "int"  -> Decimal(x[2])
               [] x[1] = "bool" -> IF x[2] THEN <<116, 114, 117, 101>>
                                           ELSE <<102, 97, 108, 115, 101>>

(* s is listed before t in a dictionary.                                   *)
Before(s, t) ==
  \E k \in {n \in 0..Len(s) : n <= Len(t)} :
    /\ SubSeq(s, 1, k) = SubSeq(t, 1, k)
    /\ \/ k = Len(s) /\ k < Len(t)
       \/ k < Len(s) /\ k < Len(t) /\ s[k + 1] < t[k + 1]

Less(x, y) == CASE x[1] = "int"  -> x[2] < y[2]
                [] x[1] = "bool" -> ~x[2] /\ y[2]
                [] x[1] = "str"  -> Before(x[2], y[2])

Both(kind, x, y) == x[1] = kind /\ y[1] = kind

Arith(x, y, n) == IF Both("int", x, y) THEN {Num(Reduced(n))} ELSE {Failure}

Ordered(x, y, b) ==
  IF x[1] = y[1] /\ x[1] \in {"int", "bool", "str"} THEN {Bool(b)} ELSE {Failure}

Divided(x, y, pick) ==
  IF ~Both("int", x, y) THEN {Failure}
  ELSE IF y[2] = 0 \/ Quotients(x[2], y[2]) = {} THEN {Killed}
  ELSE {Num(IF pick = "quotient" THEN q ELSE x[2] - q * y[2]) :
          q \in Quotients(x[2], y[2])}

Added(x, y) ==
  IF x[1] # "str" /\ y[1] # "str" THEN Arith(x, y, x[2] + y[2])
  ELSE IF {x[1], y[1]} \cap {"tuple", "closure"} # {} THEN {Failure}
  ELSE {Text(AsText(x) \o AsText(y))}

(* The possible outcomes of x operation y.                                 *)
Outcomes(operation, x, y) ==
  CASE operation = "Add" -> Added(x, y)
    [] operation = "Sub" -> Arith(x, y, x[2] - y[2])
    [] operation = "Mul" -> Arith(x, y, x[2] * y[2])
    [] operation = "Div" -> Divided(x, y, "quotient")
    [] operation = "Rem" -> Divided(x, y, "remainder")
    [] operation = "Eq"  -> {Bool(x = y)}
    [] operation = "Neq" -> {Bool(x # y)}
    [] operation = "Lt"  -> Ordered(x, y, Less(x, y))
    [] operation = "Gt"  -> Ordered(x, y, Less(y, x))
    [] operation = "Lte" -> Ordered(x, y, ~Less(y, x))
    [] operation = "Gte" -> Ordered(x, y, ~Less(x, y))
    [] operation = "And" -> {Bool(~Falsy(x) /\ ~Falsy(y))}
    [] operation = "Or"  -> {Bool(~Falsy(x) \/ ~Falsy(y))}
=============================================================================
