------------------------------- MODULE Lexer --------------------------------
(***************************************************************************)
(* What the scanner promises: the source is cut into marks, strings and    *)
(* words, a word being as many word characters as stand together.  A word  *)
(* is an int or a keyword or an error.  One step takes one token; spaces   *)
(* before the next are gone at once.                                       *)
(***************************************************************************)
EXTENDS Characters

VARIABLES
  source,
  at,       \* the next character that is no space
  token,    \* kind, first character and length of the last token
  result

lvars == <<source, at, token, result>>

C(i) == CharacterAt(source, i)

After(i, S) == FirstNotIn(source, i, S)
Solid(i)    == After(i, Spaces)

LexInit == at = Solid(1) /\ token = <<"none", 0, 0>> /\ result = "ok"

Take(kind, start, length, next) ==
  /\ token' = <<kind, start, length>>
  /\ at' = Solid(next)
  /\ UNCHANGED <<source, result>>

Reject(error) == result' = error /\ UNCHANGED <<source, at, token>>

end == C(at) = "NUL" /\ Take("EOF", at, 1, at + 1)

mark == C(at) \in Marks /\ Take(C(at), at, 1, at + 1)

(* A string goes up to the next quote.                                     *)
string ==
  /\ C(at) = "quote"
  /\ LET close == After(at + 1, Characters \ {"quote"})
     IN \/ C(close) = "quote" /\ Take("STRING", at + 1, close - at - 1, close + 1)
        \/ C(close) = "NUL" /\ Reject("unterminated string")

word ==
  /\ C(at) \in WordCharacters
  /\ LET next == After(at, WordCharacters)
         text == SubSeq(source, at, next - 1)
     IN \/ /\ \A i \in DOMAIN text : text[i] \in Digits
           /\ Take("INT", at, next - at, next)
        \/ \E kind \in DOMAIN Keywords :
             text = Keywords[kind] /\ Take(kind, at, next - at, next)
        \/ /\ \E i \in DOMAIN text : text[i] \notin Digits
           /\ \A kind \in DOMAIN Keywords : text # Keywords[kind]
           /\ Reject("unexpected character")

other == C(at) = "other" /\ Reject("unexpected character")

LexNext ==
  /\ result = "ok" /\ token[1] # "EOF"
  /\ end \/ mark \/ string \/ word \/ other

LexSpec == LexInit /\ [][LexNext]_lvars
=============================================================================
