------------------------------- MODULE Scanner -------------------------------
(***************************************************************************)
(* The scanner (scanner.c): scanner_next_token, character by character,    *)
(* called again and again until it has found the end or an error, as the   *)
(* compiler does (NothingAfterEnd in CompilerSafety).  It has no length of *)
(* the source to go by, only the NUL that ends it.                         *)
(*                                                                         *)
(* Operators named <definition>_<slip> are the definition with a mistake.  *)
(***************************************************************************)
EXTENDS Characters, FiniteSets

CONSTANT Sources    \* the sources to scan

ASSUME SourceAssumption == Sources \subseteq Seq(Characters)

VARIABLES
  source,
  pos, line, col,   \* of the current character
  token,            \* Token
  result,           \* Result: "ok" or the error it carries
  pc,               \* what the scanner is doing
  n,                \* characters looked at or, in next_chars, to go
  reach             \* the farthest character that has been read

svars == <<source, pos, line, col, token, result, pc, n, reach>>

NoToken == [kind |-> "none", line |-> 0, col |-> 0, start |-> 0, length |-> 0]

(* scanner_init, which asks for the first token.                           *)
SInit ==
  /\ source \in Sources
  /\ pos = 1 /\ line = 1 /\ col = 1
  /\ token = NoToken
  /\ result = "ok"
  /\ pc = "skip_spaces" /\ n = 0
  /\ reach = 0

-----------------------------------------------------------------------------
char_at(i)   == CharacterAt(source, pos + i)
current_char == char_at(0)

(* The character i places on is looked at.                                 *)
Look(i) == reach' = IF pos + i > reach THEN pos + i ELSE reach

next_char_in_line ==
  /\ pos' = pos + 1
  /\ col' = col + 1 /\ line' = line
next_char ==
  /\ pos' = pos + 1
  /\ \/ current_char = "newline" /\ line' = line + 1 /\ col' = 1
     \/ current_char # "newline" /\ col' = col + 1 /\ line' = line

Goto(label, k) ==
  pc' = label /\ n' = k /\ UNCHANGED <<source, pos, line, col, token, result>>

(* The token is there; then the characters of its text are passed.         *)
Match(kind, start, length, k) ==
  /\ token' = [kind |-> kind, line |-> line, col |-> col,
               start |-> start, length |-> length]
  /\ pc' = "next_chars" /\ n' = k
  /\ UNCHANGED <<source, pos, line, col, result>>

SError(error) ==
  /\ result' = error
  /\ pc' = "return"
  /\ UNCHANGED <<source, pos, line, col, token, n>>

-----------------------------------------------------------------------------
scanner_next_token ==
  /\ pc = "return"
  /\ result = "ok" /\ token.kind # "EOF"
  /\ Goto("skip_spaces", 0)
  /\ UNCHANGED reach

skip_spaces_in_place ==
  /\ pc = "skip_spaces"
  /\ Look(0)
  /\ \/ current_char \in Spaces /\ Goto("skip_spaces", n)
     \/ current_char \notin Spaces /\ Goto("match_char", 0)
skip_spaces ==
  /\ pc = "skip_spaces"
  /\ Look(0)
  /\ \/ /\ current_char \in Spaces
        /\ next_char
        /\ UNCHANGED <<source, token, result, pc, n>>
     \/ current_char \notin Spaces /\ Goto("match_char", 0)

match_char ==
  /\ pc = "match_char"
  /\ Look(0)
  /\ \/ current_char = "NUL" /\ Match("EOF", pos, 1, 1)
     \/ current_char \in Marks /\ Match(current_char, pos, 1, 1)
     \/ current_char \in Digits /\ Goto("match_int", 1)
     \/ current_char = "quote" /\ Goto("match_string", 1)
     \/ /\ current_char \notin Marks \cup Digits \cup {"NUL", "quote"}
        /\ Goto("FALSE_KW", 0)

match_int_letters_apart ==
  /\ pc = "match_int"
  /\ Look(n)
  /\ \/ char_at(n) \in Digits /\ Goto("match_int", n + 1)
     \/ char_at(n) \notin Digits /\ Match("INT", pos, n, n)
match_int ==
  /\ pc = "match_int"
  /\ Look(n)
  /\ \/ char_at(n) \in Digits /\ Goto("match_int", n + 1)
     \/ char_at(n) \in WordCharacters \ Digits /\ Goto("FALSE_KW", 0)
     \/ char_at(n) \notin WordCharacters /\ Match("INT", pos, n, n)

match_string_unbounded ==
  /\ pc = "match_string"
  /\ Look(n)
  /\ \/ char_at(n) = "quote" /\ Match("STRING", pos + 1, n - 1, n + 1)
     \/ /\ char_at(n) # "quote" /\ n < Len(source) + 2
        /\ Goto("match_string", n + 1)
match_string ==
  /\ pc = "match_string"
  /\ Look(n)
  /\ \/ char_at(n) = "quote" /\ Match("STRING", pos + 1, n - 1, n + 1)
     \/ char_at(n) = "NUL" /\ SError("unterminated string")
     \/ char_at(n) \notin {"quote", "NUL"} /\ Goto("match_string", n + 1)

(* How many characters strncmp finds equal.                                *)
Common(kw) ==
  CHOOSE k \in 0..Len(kw) :
    /\ \A i \in 1..k : char_at(i - 1) = kw[i]
    /\ k < Len(kw) => char_at(k) # kw[k + 1]

match_keyword(kind, otherwise) ==
  LET kw == Keywords[kind]
      k  == Common(kw)
  IN /\ pc = kind
     /\ Look(k)
     /\ \/ /\ k = Len(kw) /\ char_at(k) \notin WordCharacters
           /\ Match(kind, pos, k, k)
        \/ (k < Len(kw) \/ char_at(k) \in WordCharacters) /\ otherwise

match_false == match_keyword("FALSE_KW", Goto("TRUE_KW", 0))

match_true == match_keyword("TRUE_KW", SError("unexpected character"))

next_chars_one_more ==
  /\ pc = "next_chars"
  /\ Look(0)
  /\ next_char
  /\ n' = n - 1
  /\ pc' = IF n = 0 THEN "return" ELSE pc
  /\ UNCHANGED <<source, token, result>>
next_chars ==
  /\ pc = "next_chars"
  /\ Look(0)
  /\ next_char
  /\ n' = n - 1
  /\ pc' = IF n = 1 THEN "return" ELSE pc
  /\ UNCHANGED <<source, token, result>>

SNext ==
  \/ scanner_next_token \/ skip_spaces \/ match_char \/ match_int \/ match_string
  \/ match_false \/ match_true \/ next_chars

SSpec == SInit /\ [][SNext]_svars

(* One thread runs and nothing blocks it.                                  *)
SFairSpec == SSpec /\ WF_svars(SNext)

-----------------------------------------------------------------------------
Kinds == Marks \cup {"none", "EOF", "INT", "STRING"} \cup DOMAIN Keywords

(* The type invariant.                                                     *)
STypeOK ==
  /\ source \in Seq(Characters)
  /\ pos \in Nat \ {0} /\ line \in Nat \ {0} /\ col \in Nat \ {0}
  /\ token \in [kind : Kinds, line : Nat, col : Nat, start : Nat, length : Nat]
  /\ result \in {"ok", "unterminated string", "unexpected character"}
  /\ pc \in {"return", "skip_spaces", "match_char", "match_int", "match_string",
             "next_chars"} \cup DOMAIN Keywords
  /\ n \in Nat
  /\ reach \in Nat

(* The scanner never reads behind the NUL, although its loops look ahead   *)
(* by as many characters as a number or a string has and have no other     *)
(* bound.                                                                  *)
ReadsInside == reach <= Len(source) + 1

(* The line and the column of position p, counted from the start.          *)
LineAt(p) == 1 + Cardinality({i \in 1..(p - 1) : CharacterAt(source, i) = "newline"})

ColAt(p) ==
  Cardinality({i \in 1..p : \A k \in i..(p - 1) : CharacterAt(source, k) # "newline"})

(* Errors and tokens carry the line and the column where they start, after *)
(* strings that go over lines too.                                         *)
PlacesRight ==
  /\ line = LineAt(pos) /\ col = ColAt(pos)
  /\ token.kind # "none" =>
       LET first == IF token.kind = "STRING" THEN token.start - 1 ELSE token.start
       IN token.line = LineAt(first) /\ token.col = ColAt(first)

(* Tokens are what Lexer says: a scan is one step of it, taken when the    *)
(* token has been found.                                                   *)
Ahead == pos + (IF pc = "next_chars" THEN n ELSE 0)

Lexing ==
  INSTANCE Lexer WITH
    at <- FirstNotIn(source, Ahead, Spaces),
    token <- <<token.kind, token.start, token.length>>

LexesTokens == Lexing!LexSpec

(* Every loop ends: a source is scanned to its end or to an error.         *)
Scans == <>(pc = "return" /\ (result # "ok" \/ token.kind = "EOF"))
=============================================================================
