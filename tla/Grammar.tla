------------------------------ MODULE Grammar ------------------------------
(***************************************************************************)
(* The grammar of the syntax tree, docs/rinha-ast.ebnf, independently of   *)
(* the compiler.  For TLC.                                                 *)
(***************************************************************************)
LOCAL INSTANCE Integers
LOCAL INSTANCE Sequences

(* Symbols: a token of a kind, a string of a text, a production.           *)
LOCAL Lexeme(kind) == << <<"token", kind>> >>
LOCAL Quote(text)  == << <<"text", text>> >>
LOCAL Prod(name)   == << <<"production", name>> >>

LOCAL Pair_(key, value) == Quote(key) \o Lexeme(":") \o value
LOCAL Comma             == Lexeme(",")
LOCAL End_              == Comma \o Pair_("location", Prod("location")) \o Lexeme("}")

(* { "kind" : kind , members , "location" : location }                     *)
LOCAL Tree(kind, members) ==
  { Lexeme("{") \o Pair_("kind", Quote(kind)) \o Comma \o members \o End_ }

LOCAL T(key) == Pair_(key, Prod("term"))

(* A production and the right-hand sides that it chooses from.             *)
Productions == [
  file |-> { Lexeme("{") \o Pair_("name", Lexeme("STRING")) \o Comma
             \o T("expression") \o End_ },
  location |->
    { Lexeme("{") \o Pair_("start", Lexeme("INT")) \o Comma
      \o Pair_("end", Lexeme("INT")) \o Comma
      \o Pair_("filename", Lexeme("STRING")) \o Lexeme("}") },
  parameter |-> { Lexeme("{") \o Pair_("text", Lexeme("STRING")) \o End_ },
  parameters |-> { <<>>, Prod("parameter") \o Prod("more_parameters") },
  more_parameters |-> { <<>>, Comma \o Prod("parameter") \o Prod("more_parameters") },
  terms |-> { <<>>, Prod("term") \o Prod("more_terms") },
  more_terms |-> { <<>>, Comma \o Prod("term") \o Prod("more_terms") },
  binary_op |-> { Quote(op) : op \in {"Add", "Sub", "Mul", "Div", "Rem", "Eq", "Neq",
                                      "Lt", "Gt", "Lte", "Gte", "And", "Or"} },
  term |->
    Tree("Int", Pair_("value", Lexeme("INT")))
    \cup Tree("Str", Pair_("value", Lexeme("STRING")))
    \cup Tree("Call", T("callee") \o Comma
                      \o Pair_("arguments", Lexeme("[") \o Prod("terms") \o Lexeme("]")))
    \cup Tree("Binary", T("lhs") \o Comma \o Pair_("op", Prod("binary_op"))
                        \o Comma \o T("rhs"))
    \cup Tree("Function", Pair_("parameters", Lexeme("[") \o Prod("parameters")
                                              \o Lexeme("]")) \o Comma \o T("value"))
    \cup Tree("Let", Pair_("name", Prod("parameter")) \o Comma \o T("value")
                     \o Comma \o T("next"))
    \cup Tree("If", T("condition") \o Comma \o T("then") \o Comma \o T("otherwise"))
    \cup Tree("Print", T("value"))
    \cup Tree("First", T("value"))
    \cup Tree("Second", T("value"))
    \cup Tree("Bool", Pair_("value", Lexeme("false")))
    \cup Tree("Bool", Pair_("value", Lexeme("true")))
    \cup Tree("Tuple", T("first") \o Comma \o T("second"))
    \cup Tree("Var", Pair_("text", Lexeme("STRING"))) ]

(* Where the symbols can end that start at token i of s, of which only the *)
(* first n tokens are known: what lies beyond them may be anything.        *)
RECURSIVE Ends(_, _, _, _)
Ends(symbols, s, i, n) ==
  IF symbols = <<>> \/ i > n THEN {i}
  ELSE LET what == Head(symbols)[2]
           next == CASE Head(symbols)[1] = "token" ->
                          {j \in {i + 1} : s[i].kind = what}
                     [] Head(symbols)[1] = "text" ->
                          {j \in {i + 1} : s[i].kind = "STRING" /\ s[i].text = what}
                     [] OTHER -> UNION {Ends(rhs, s, i, n) : rhs \in Productions[what]}
       IN UNION {Ends(Tail(symbols), s, j, n) : j \in next}

(* The tokens begin with a file.                                           *)
IsFile(s) == Ends(Prod("file"), s, 1, Len(s)) # {}

(* The first n tokens are the beginning of some file.                      *)
Viable(s, n) == n + 1 \in Ends(Prod("file"), s, 1, n)
=============================================================================
