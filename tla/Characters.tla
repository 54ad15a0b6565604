----------------------------- MODULE Characters -----------------------------
(***************************************************************************)
(* The characters that the scanner tells apart (scanner.c, with ctype.h in *)
(* the C locale): a digit, letters of the two keywords and one of none, a  *)
(* newline and another space, the marks, and a character that is none of   *)
(* these.  A source is a sequence of them; NUL follows it.                 *)
(***************************************************************************)
EXTENDS Integers, Sequences

Spaces  == {" ", "newline"}
Digits  == {"7"}
Letters == {"a", "e", "f", "l", "r", "s", "t", "u", "x"}
Marks   == {",", ":", "[", "]", "{", "}"}

(* isalnum, or an underscore.                                              *)
WordCharacters == Digits \cup Letters \cup {"_"}

Characters == Spaces \cup WordCharacters \cup Marks \cup {"quote", "other"}

Keywords == [FALSE_KW |-> <<"f", "a", "l", "s", "e">>,
             TRUE_KW  |-> <<"t", "r", "u", "e">>]

CharacterAt(s, i) == IF i \in 1..Len(s) THEN s[i] ELSE "NUL"

(* The first position from i on whose character is not in S.               *)
FirstNotIn(s, i, S) ==
  CHOOSE j \in i..(Len(s) + 2) :
    /\ CharacterAt(s, j) \notin S
    /\ \A k \in i..(j - 1) : CharacterAt(s, k) \in S
=============================================================================
