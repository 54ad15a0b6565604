------------------------------ MODULE MCSyntax ------------------------------
(***************************************************************************)
(* The compiler on files with one token wrong.                             *)
(***************************************************************************)
EXTENDS CompilerSafety, Language, Grammar

Correct == <<
  File(Let("x", Bln("true"), Fun(<<"a", "b">>, Var("x")))),
  File(If(Lit(1), Str("s"), Out(First(Second(Lit(2)))))),
  File(App(Fun(<<>>, Lit(1)), <<Tup(Lit(1), Lit(2)), Bln("false")>>)),
  File(Bin("Lte", Lit(1), Lit(2))) >>

Longest == Max({Len(Correct[k]) : k \in DOMAIN Correct})

(* The tokens of a location are changed in the first file only.            *)
IsChanged(k, p) ==
  k > 1 => \A q \in (p - 15)..(p - 1) :
             q > 0 => Correct[k][q] # Token("STRING", "location", 0)

Bad == Token("BAD", "unexpected character", 0)

Replacements == << <<>>, <<Bad>>, Mark("]"), Mark(","), Number(7), Quoted("zone"),
                   Mark("EOF") >>

(* The file k with tokens in the place of the token p; it still has an end.*)
Replaced(k, p, tokens) ==
  SubSeq(Correct[k], 1, p - 1) \o tokens
  \o SubSeq(Correct[k], p + 1, Len(Correct[k])) \o Mark("EOF")

(* Each token in turn, with each replacement; and the files as they are.   *)
Changes ==
  { c \in (DOMAIN Correct) \X (1..Longest) \X (DOMAIN Replacements) :
      c[2] <= Len(Correct[c[1]]) /\ IsChanged(c[1], c[2]) }

MutatedFiles ==
  [ c \in Changes \cup (DOMAIN Correct) \X {0} \X {0} |->
      IF c[2] = 0 THEN Correct[c[1]] ELSE Replaced(c[1], c[2], Replacements[c[3]]) ]

(* Correct but for one text that is a character too short or too long.     *)
Quotes == { c \in (DOMAIN Correct) \X (1..Longest) \X {"shorter", "longer"} :
             c[2] <= Len(Correct[c[1]]) /\ Correct[c[1]][c[2]].kind = "STRING" }

Loosened(text, how) ==
  IF how = "longer" THEN text \o "s" ELSE SubSeq(text, 1, Len(text) - 1)

LooseFiles ==
  [ c \in Quotes |->
      Replaced(c[1], c[2], Quoted(Loosened(Correct[c[1]][c[2]].text, c[3]))) ]

MCBegins(t, w) == BeginsWith(t, w)
MCChars(t)     == CodesOf(t)

SyntaxErrors == {"unexpected token", "unexpected end of file", "unexpected operator"}

(* The compiler takes the files of the grammar and no others (what follows *)
(* the file is not looked at), unless the scanner or the scopes object.    *)
TakesTheGrammar ==
  /\ phase = "done" => IsFile(src)
  /\ phase = "failed" /\ result \in SyntaxErrors => ~IsFile(src)

(* A syntax error is reported at the first token with which no file        *)
(* continues; a wrong kind or operator at the token after it.              *)
ErrorsPlaced ==
  phase = "failed" /\ result \in SyntaxErrors =>
    \/ Viable(src, pos - 1) /\ ~Viable(src, pos)
    \/ /\ Viable(src, pos - 2) /\ ~Viable(src, pos - 1)
       /\ src[pos - 1].kind = "STRING"

(* docs/rinha-ast.ebnf: the keys, kinds and operators are these texts.     *)
OnlyTheGrammar == phase = "done" => IsFile(src)
=============================================================================
