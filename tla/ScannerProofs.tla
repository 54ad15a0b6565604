---------------------------- MODULE ScannerProofs ----------------------------
(***************************************************************************)
(* Proofs about the scanner, for every set of sources.  That it reads      *)
(* nothing behind the NUL follows from an invariant that says how far      *)
(* ahead each loop may look: a loop goes on only after a character that is *)
(* not the NUL, and over the NUL itself only the token EOF leads, after    *)
(* which no other is asked for.                                            *)
(*                                                                         *)
(* The scanner also implements Lexer.  A scan is one step of Lexer, taken  *)
(* when the token has been found; what the scanner has seen of the         *)
(* characters on its way there says that it is the token that Lexer would  *)
(* take.                                                                   *)
(***************************************************************************)
EXTENDS Scanner, FiniteSetTheorems, SequenceTheorems,
        WellFoundedInduction, TLAPS

(* The position of the NUL.                                                *)
Last == Len(source) + 1

(* Where the scanner is, and how far the characters it will look at or go  *)
(* over are known to reach.                                                *)
WithinSource ==
  /\ pos > Last => pc = "return" /\ token.kind = "EOF"
  /\ pc \in {"match_int", "match_string"} => n >= 1 /\ pos + n <= Last
  /\ pc = "next_chars" =>
       /\ n >= 1
       /\ \/ token.kind = "EOF" /\ n = 1 /\ pos <= Last
          \/ pos + n <= Last

SInv == STypeOK /\ WithinSource /\ ReadsInside

-----------------------------------------------------------------------------
(* A set of naturals that is not empty has a least element.                *)
LEMMA LeastElement ==
  ASSUME NEW T, T \subseteq Nat, T # {}
  PROVE  \E x \in T : \A y \in T : x <= y
<1> DEFINE R == {ss \in Nat \X Nat : ss[1] < ss[2]}
<1>1. IsWellFoundedOn(R, Nat)
  BY NatLessThanWellFounded, Zenon DEF OpToRel
<1>2. PICK x \in T : \A y \in T : ~ (<<y, x>> \in R)
  <2> HIDE DEF R
  <2> QED BY <1>1, WFMin
<1>3. ASSUME NEW y \in T PROVE x <= y
  <2>1. ~ (<<y, x>> \in R)
    BY <1>2
  <2>2. x \in Nat /\ y \in Nat
    OBVIOUS
  <2>3. ~ (y < x)
    BY <2>1, <2>2
  <2> QED BY <2>2, <2>3
<1> QED BY <1>3

(* The characters of a source are none of them the NUL.                    *)
LEMMA CharactersOfSource ==
  ASSUME source \in Seq(Characters), NEW i \in Nat \ {0}
  PROVE  /\ CharacterAt(source, i) \in Characters \cup {"NUL"}
         /\ CharacterAt(source, i) # "NUL" <=> i <= Len(source)
<1>1. "NUL" \notin Characters
  BY DEF Characters, Spaces, WordCharacters, Digits, Letters, Marks
<1>2. i <= Len(source) => source[i] \in Characters
  OBVIOUS
<1>3. i \in 1..Len(source) <=> i <= Len(source)
  OBVIOUS
<1> QED BY <1>1, <1>2, <1>3 DEF CharacterAt

(* The keywords are sequences of letters.                                  *)
LEMMA KeywordsAreWords ==
  ASSUME NEW kind \in DOMAIN Keywords
  PROVE  Keywords[kind] \in Seq(Letters) /\ Len(Keywords[kind]) \in 4..5
<1>1. kind \in {"FALSE_KW", "TRUE_KW"}
  BY DEF Keywords
<1>2. /\ Keywords["FALSE_KW"] = <<"f", "a", "l", "s", "e">>
      /\ Keywords["TRUE_KW"] = <<"t", "r", "u", "e">>
  BY DEF Keywords
<1>3. /\ <<"f", "a", "l", "s", "e">> \in Seq(Letters)
      /\ Len(<<"f", "a", "l", "s", "e">>) \in 4..5
  BY DEF Letters
<1>4. /\ <<"t", "r", "u", "e">> \in Seq(Letters)
      /\ Len(<<"t", "r", "u", "e">>) \in 4..5
  BY DEF Letters
<1>5. CASE kind = "FALSE_KW"
  BY <1>2, <1>3, <1>5
<1>6. CASE kind = "TRUE_KW"
  BY <1>2, <1>4, <1>6
<1> QED BY <1>1, <1>5, <1>6

(* Common is what its definition asks for.                                 *)
LEMMA CommonPrefix ==
  ASSUME NEW kind \in DOMAIN Keywords
  PROVE  LET kw == Keywords[kind]
             k  == Common(kw)
         IN /\ k \in 0..Len(kw)
            /\ \A i \in 1..k : char_at(i - 1) = kw[i]
            /\ k < Len(kw) => char_at(k) # kw[k + 1]
<1> DEFINE kw == Keywords[kind]
           T  == {d \in 0..Len(kw) : d < Len(kw) => char_at(d) # kw[d + 1]}
<1>1. kw \in Seq(Letters) /\ Len(kw) \in Nat
  BY KeywordsAreWords
<1>2. T \subseteq Nat /\ T # {}
  <2>1. Len(kw) \in T
    BY <1>1
  <2> QED BY <1>1, <2>1
<1> HIDE DEF T
<1>3. PICK d \in T : \A y \in T : d <= y
  BY <1>2, LeastElement
<1> USE DEF T
<1>4. d \in 0..Len(kw) /\ (d < Len(kw) => char_at(d) # kw[d + 1])
  BY <1>3
<1>5. ASSUME NEW i \in 1..d PROVE char_at(i - 1) = kw[i]
  <2>1. (i - 1) + 1 = i /\ i - 1 < Len(kw) /\ i - 1 \in 0..Len(kw)
    BY <1>1, <1>4
  <2>2. i - 1 \notin T
    BY <1>1, <1>2, <1>3, <1>4
  <2> QED BY <2>1, <2>2
<1> HIDE DEF T, kw
<1>6. \E k \in 0..Len(kw) :
        /\ \A i \in 1..k : char_at(i - 1) = kw[i]
        /\ k < Len(kw) => char_at(k) # kw[k + 1]
  BY <1>4, <1>5
<1>7. /\ Common(kw) \in 0..Len(kw)
      /\ \A i \in 1..Common(kw) : char_at(i - 1) = kw[i]
      /\ Common(kw) < Len(kw) => char_at(Common(kw)) # kw[Common(kw) + 1]
  BY <1>6 DEF Common
<1> QED BY <1>7 DEF kw

-----------------------------------------------------------------------------
LEMMA InitInv == SInit => SInv
<1> SUFFICES ASSUME SInit PROVE SInv
  OBVIOUS
<1>1. source \in Seq(Characters)
  BY SourceAssumption DEF SInit
<1>2. NoToken \in [kind : Kinds, line : Nat, col : Nat, start : Nat, length : Nat]
  BY DEF NoToken, Kinds
<1> QED BY <1>1, <1>2 DEF SInit, SInv, STypeOK, WithinSource, ReadsInside, Last

(* What the type invariant says of the numbers.                            *)
LEMMA Numbers ==
  ASSUME STypeOK
  PROVE  /\ pos \in Nat \ {0} /\ line \in Nat \ {0} /\ col \in Nat \ {0}
         /\ n \in Nat /\ reach \in Nat
         /\ Len(source) \in Nat /\ Last \in Nat /\ Last = Len(source) + 1
<1>1. source \in Seq(Characters)
  BY DEF STypeOK
<1>2. Len(source) \in Nat
  BY <1>1, LenProperties
<1>3. /\ pos \in Nat \ {0} /\ line \in Nat \ {0} /\ col \in Nat \ {0}
      /\ n \in Nat /\ reach \in Nat
  BY DEF STypeOK
<1> QED BY <1>2, <1>3 DEF Last

(* A character that is looked at is inside when the scanner stands there.  *)
LEMMA Looking ==
  ASSUME SInv, NEW i \in Nat, pos + i <= Last, Look(i)
  PROVE  reach' \in Nat /\ reach' <= Last
<1>1. /\ pos \in Nat /\ reach \in Nat /\ Last \in Nat
      /\ reach <= Last
  BY Numbers DEF SInv, ReadsInside
<1>2. reach' = IF pos + i > reach THEN pos + i ELSE reach
  BY DEF Look
<1> QED BY <1>1, <1>2

(* Going on to another place.                                              *)
LEMMA GotoInv ==
  ASSUME SInv, reach' \in Nat, reach' <= Last, pos <= Last,
         NEW label, NEW k \in Nat,
         \/ label \in {"skip_spaces", "match_char"} \cup DOMAIN Keywords
         \/ label \in {"match_int", "match_string"} /\ k >= 1 /\ pos + k <= Last,
         Goto(label, k)
  PROVE  SInv'
<1>1. DOMAIN Keywords = {"FALSE_KW", "TRUE_KW"}
  BY DEF Keywords
<1>2. pc' = label /\ n' = k /\ source' = source /\ pos' = pos /\ line' = line
      /\ col' = col /\ token' = token /\ result' = result
  BY DEF Goto
<1>3. STypeOK'
  BY <1>1, <1>2 DEF SInv, STypeOK
<1>4. Last' = Last
  BY <1>2 DEF Last
<1>5. WithinSource'
  BY <1>1, <1>2, <1>4, Numbers DEF WithinSource, SInv
<1>6. ReadsInside'
  BY <1>4 DEF ReadsInside, Last
<1> QED BY <1>3, <1>5, <1>6 DEF SInv

LEMMA ErrorInv ==
  ASSUME SInv, reach' \in Nat, reach' <= Last, pos <= Last,
         NEW error \in {"unterminated string", "unexpected character"},
         SError(error)
  PROVE  SInv'
<1>1. pc' = "return" /\ n' = n /\ source' = source /\ pos' = pos /\ line' = line
      /\ col' = col /\ token' = token /\ result' = error
  BY DEF SError
<1>2. STypeOK'
  BY <1>1 DEF SInv, STypeOK
<1>3. Last' = Last
  BY <1>1 DEF Last
<1>4. WithinSource'
  BY <1>1, <1>3, Numbers DEF WithinSource, SInv
<1>5. ReadsInside'
  BY <1>3 DEF ReadsInside, Last
<1> QED BY <1>2, <1>4, <1>5 DEF SInv

(* A token and the characters to go over.                                  *)
LEMMA MatchInv ==
  ASSUME SInv, reach' \in Nat, reach' <= Last, pos <= Last,
         NEW kind \in Kinds, NEW start \in Nat, NEW length \in Nat,
         NEW k \in Nat \ {0},
         pos + k <= Last \/ (kind = "EOF" /\ k = 1),
         Match(kind, start, length, k)
  PROVE  SInv'
<1>1. line \in Nat /\ col \in Nat
  BY DEF SInv, STypeOK
<1>2. token' = [kind |-> kind, line |-> line, col |-> col,
                start |-> start, length |-> length]
  BY DEF Match
<1>3. token' \in [kind : Kinds, line : Nat, col : Nat, start : Nat, length : Nat]
      /\ token'.kind = kind
  BY <1>1, <1>2
<1>4. pc' = "next_chars" /\ n' = k /\ source' = source /\ pos' = pos
      /\ line' = line /\ col' = col /\ result' = result
  BY DEF Match
<1>5. STypeOK'
  BY <1>3, <1>4 DEF SInv, STypeOK
<1>6. Last' = Last
  BY <1>4 DEF Last
<1>7. WithinSource'
  BY <1>3, <1>4, <1>6, Numbers DEF WithinSource, SInv
<1>8. ReadsInside'
  BY <1>6 DEF ReadsInside, Last
<1> QED BY <1>5, <1>7, <1>8 DEF SInv

(* One character further.                                                  *)
LEMMA NextCharInv ==
  ASSUME STypeOK, next_char
  PROVE  /\ pos' = pos + 1 /\ pos' \in Nat \ {0}
         /\ line' \in Nat \ {0} /\ col' \in Nat \ {0}
<1>1. pos' = pos + 1
  BY DEF next_char
<1>2. \/ line' = line + 1 /\ col' = 1
      \/ line' = line /\ col' = col + 1
  BY DEF next_char
<1> QED BY <1>1, <1>2, Numbers

(* A character that is none of those that end a loop is one of the source. *)
LEMMA Inside ==
  ASSUME STypeOK, NEW i \in Nat, char_at(i) # "NUL"
  PROVE  pos + i + 1 <= Last
<1>1. pos + i \in Nat \ {0}
  BY Numbers
<1>2. source \in Seq(Characters)
  BY DEF STypeOK
<1>3. pos + i <= Len(source)
  BY <1>1, <1>2, CharactersOfSource DEF char_at
<1> QED BY <1>3, Numbers

LEMMA NoNUL == "NUL" \notin Spaces \cup Digits \cup Letters \cup WordCharacters \cup Marks
BY DEF WordCharacters, Spaces, Digits, Letters, Marks

LEMMA NextInv == SInv /\ [SNext]_svars => SInv'
<1> SUFFICES ASSUME SInv, [SNext]_svars PROVE SInv'
  OBVIOUS
<1>0. STypeOK
  BY DEF SInv
<1>1. /\ pos \in Nat \ {0} /\ n \in Nat /\ Last \in Nat
      /\ reach \in Nat /\ reach <= Last
      /\ pc # "return" \/ token.kind # "EOF" => pos <= Last
  BY Numbers DEF SInv, ReadsInside, WithinSource
<1>2. CASE scanner_next_token
  <2>1. Goto("skip_spaces", 0) /\ reach' = reach /\ pos <= Last
    BY <1>1, <1>2 DEF scanner_next_token
  <2> QED BY <1>1, <2>1, GotoInv
<1>3. CASE skip_spaces
  <2>1. pc = "skip_spaces" /\ Look(0) /\ pos + 0 <= Last
    BY <1>1, <1>3 DEF skip_spaces
  <2>2. reach' \in Nat /\ reach' <= Last
    BY <2>1, Looking
  <2>3. CASE current_char \notin Spaces
    <3>1. Goto("match_char", 0)
      BY <1>3, <2>3 DEF skip_spaces
    <3> QED BY <1>1, <2>1, <2>2, <3>1, GotoInv
  <2>4. CASE current_char \in Spaces
    <3>1. next_char /\ UNCHANGED <<source, token, result, pc, n>>
      BY <1>3, <2>4 DEF skip_spaces
    <3>2. pos' = pos + 1 /\ pos' \in Nat \ {0} /\ line' \in Nat \ {0}
          /\ col' \in Nat \ {0}
      BY <1>0, <3>1, NextCharInv
    <3>3. STypeOK'
      BY <1>0, <2>2, <3>1, <3>2 DEF STypeOK
    <3>4. pos + 0 + 1 <= Last
      BY <1>0, <2>4, NoNUL, Inside DEF current_char
    <3>5. Last' = Last
      BY <3>1 DEF Last
    <3>6. WithinSource'
      BY <1>1, <2>1, <3>1, <3>2, <3>4, <3>5 DEF WithinSource
    <3>7. ReadsInside'
      BY <2>2, <3>5 DEF ReadsInside, Last
    <3> QED BY <3>3, <3>6, <3>7 DEF SInv
  <2> QED BY <2>3, <2>4
<1>4. CASE match_char
  <2>1. pc = "match_char" /\ Look(0) /\ pos + 0 <= Last
    BY <1>1, <1>4 DEF match_char
  <2>2. reach' \in Nat /\ reach' <= Last
    BY <2>1, Looking
  <2>3. CASE Match("EOF", pos, 1, 1)
    <3>1. "EOF" \in Kinds
      BY DEF Kinds
    <3> QED BY <1>1, <2>1, <2>2, <2>3, <3>1, MatchInv
  <2>4. CASE current_char \in Marks /\ Match(current_char, pos, 1, 1)
    <3>1. current_char \in Kinds
      BY <2>4 DEF Kinds
    <3>2. pos + 0 + 1 <= Last
      BY <1>0, <2>4, NoNUL, Inside DEF current_char
    <3> QED BY <1>1, <2>1, <2>2, <2>4, <3>1, <3>2, MatchInv
  <2>5. CASE current_char \in Digits /\ Goto("match_int", 1)
    <3>1. pos + 0 + 1 <= Last
      BY <1>0, <2>5, NoNUL, Inside DEF current_char
    <3> QED BY <1>1, <2>1, <2>2, <2>5, <3>1, GotoInv
  <2>6. CASE current_char = "quote" /\ Goto("match_string", 1)
    <3>1. pos + 0 + 1 <= Last
      BY <1>0, <2>6, NoNUL, Inside DEF current_char
    <3> QED BY <1>1, <2>1, <2>2, <2>6, <3>1, GotoInv
  <2>7. CASE Goto("FALSE_KW", 0)
    <3>1. "FALSE_KW" \in DOMAIN Keywords
      BY DEF Keywords
    <3> QED BY <1>1, <2>1, <2>2, <2>7, <3>1, GotoInv
  <2> QED BY <1>4, <2>3, <2>4, <2>5, <2>6, <2>7 DEF match_char
<1>5. CASE match_int
  <2>1. pc = "match_int" /\ Look(n) /\ n >= 1 /\ pos + n <= Last
    BY <1>5 DEF match_int, SInv, WithinSource
  <2>2. reach' \in Nat /\ reach' <= Last
    BY <1>1, <2>1, Looking
  <2>3. CASE char_at(n) \in Digits /\ Goto("match_int", n + 1)
    <3>1. pos + n + 1 <= Last
      BY <1>0, <1>1, <2>3, NoNUL, Inside
    <3> QED BY <1>1, <2>1, <2>2, <2>3, <3>1, GotoInv
  <2>4. CASE Goto("FALSE_KW", 0)
    <3>1. "FALSE_KW" \in DOMAIN Keywords
      BY DEF Keywords
    <3> QED BY <1>1, <2>1, <2>2, <2>4, <3>1, GotoInv
  <2>5. CASE Match("INT", pos, n, n)
    <3>1. "INT" \in Kinds
      BY DEF Kinds
    <3> QED BY <1>1, <2>1, <2>2, <2>5, <3>1, MatchInv
  <2> QED BY <1>5, <2>3, <2>4, <2>5 DEF match_int
<1>6. CASE match_string
  <2>1. pc = "match_string" /\ Look(n) /\ n >= 1 /\ pos + n <= Last
    BY <1>6 DEF match_string, SInv, WithinSource
  <2>2. reach' \in Nat /\ reach' <= Last
    BY <1>1, <2>1, Looking
  <2>3. CASE char_at(n) = "quote" /\ Match("STRING", pos + 1, n - 1, n + 1)
    <3>1. "STRING" \in Kinds
      BY DEF Kinds
    <3>2. pos + n + 1 <= Last
      BY <1>0, <1>1, <2>3, Inside
    <3> QED BY <1>1, <2>1, <2>2, <2>3, <3>1, <3>2, MatchInv
  <2>4. CASE SError("unterminated string")
    BY <1>1, <2>1, <2>2, <2>4, ErrorInv
  <2>5. CASE char_at(n) \notin {"quote", "NUL"} /\ Goto("match_string", n + 1)
    <3>1. pos + n + 1 <= Last
      BY <1>0, <1>1, <2>5, Inside
    <3> QED BY <1>1, <2>1, <2>2, <2>5, <3>1, GotoInv
  <2> QED BY <1>6, <2>3, <2>4, <2>5 DEF match_string
<1>7. ASSUME NEW kind \in DOMAIN Keywords, NEW otherwise \in BOOLEAN,
             match_keyword(kind, otherwise),
             otherwise /\ reach' \in Nat /\ reach' <= Last /\ pos <= Last => SInv'
      PROVE  SInv'
  <2> DEFINE kw == Keywords[kind]
             k  == Common(kw)
  <2>1. /\ k \in 0..Len(kw) /\ Len(kw) \in 4..5 /\ kw \in Seq(Letters)
        /\ \A i \in 1..k : char_at(i - 1) = kw[i]
    BY CommonPrefix, KeywordsAreWords
  <2>2. pc = kind /\ Look(k)
    BY <1>7 DEF match_keyword
  <2>3. pos <= Last
    BY <1>1, <2>2 DEF Keywords
  <2>4. pos + k <= Last
    <3>1. CASE k = 0
      BY <1>1, <2>3, <3>1
    <3>2. CASE k # 0
      <4>1. k \in 1..k /\ k \in 1..Len(kw) /\ k - 1 \in Nat
        BY <2>1, <3>2
      <4>2. char_at(k - 1) = kw[k] /\ kw[k] \in Letters
        BY <2>1, <4>1
      <4>3. char_at(k - 1) # "NUL"
        BY <4>2, NoNUL
      <4>4. pos + (k - 1) + 1 <= Last
        BY <1>0, <4>1, <4>3, Inside
      <4> QED BY <1>1, <2>1, <4>4
    <3> QED BY <3>1, <3>2
  <2>5. k \in Nat
    BY <2>1
  <2>6. reach' \in Nat /\ reach' <= Last
    BY <2>2, <2>4, <2>5, Looking
  <2>7. CASE k = Len(kw) /\ Match(kind, pos, k, k)
    <3>1. kind \in Kinds /\ k \in Nat \ {0}
      BY <2>1, <2>7 DEF Kinds
    <3> HIDE DEF k
    <3> QED BY <1>1, <2>3, <2>4, <2>6, <2>7, <3>1, MatchInv
  <2>8. CASE otherwise
    BY <1>7, <2>3, <2>6, <2>8
  <2> QED BY <1>7, <2>7, <2>8 DEF match_keyword
<1>8. CASE match_false
  <2>1. "FALSE_KW" \in DOMAIN Keywords /\ "TRUE_KW" \in DOMAIN Keywords
    BY DEF Keywords
  <2>2. Goto("TRUE_KW", 0) /\ reach' \in Nat /\ reach' <= Last /\ pos <= Last => SInv'
    BY <1>1, <2>1, GotoInv
  <2>3. Goto("TRUE_KW", 0) \in BOOLEAN
    BY DEF Goto
  <2> QED BY <1>7, <1>8, <2>1, <2>2, <2>3 DEF match_false
<1>9. CASE match_true
  <2>1. "TRUE_KW" \in DOMAIN Keywords
    BY DEF Keywords
  <2>2. SError("unexpected character") /\ reach' \in Nat /\ reach' <= Last /\ pos <= Last
        => SInv'
    BY <1>1, ErrorInv
  <2>3. SError("unexpected character") \in BOOLEAN
    BY DEF SError
  <2> QED BY <1>7, <1>9, <2>1, <2>2, <2>3 DEF match_true
<1>10. CASE next_chars
  <2>1. /\ pc = "next_chars" /\ Look(0) /\ next_char /\ n' = n - 1
        /\ pc' = (IF n = 1 THEN "return" ELSE pc)
        /\ UNCHANGED <<source, token, result>>
    BY <1>10 DEF next_chars
  <2>2. /\ n >= 1
        /\ \/ token.kind = "EOF" /\ n = 1 /\ pos <= Last
           \/ pos + n <= Last
    BY <2>1 DEF SInv, WithinSource
  <2>3. reach' \in Nat /\ reach' <= Last
    BY <1>1, <2>1, <2>2, Looking
  <2>4. pos' = pos + 1 /\ pos' \in Nat \ {0} /\ line' \in Nat \ {0}
        /\ col' \in Nat \ {0}
    BY <1>0, <2>1, NextCharInv
  <2>5. STypeOK'
    <3>1. n' \in Nat
      BY <1>1, <2>1, <2>2
    <3>2. pc' \in {"return", "next_chars"}
      BY <2>1
    <3> QED BY <1>0, <2>1, <2>3, <2>4, <3>1, <3>2 DEF STypeOK
  <2>6. Last' = Last
    BY <2>1 DEF Last
  <2>7. WithinSource'
    BY <1>1, <2>1, <2>2, <2>4, <2>6 DEF WithinSource
  <2>8. ReadsInside'
    BY <2>3, <2>6 DEF ReadsInside, Last
  <2> QED BY <2>5, <2>7, <2>8 DEF SInv
<1>11. CASE UNCHANGED svars
  BY <1>11 DEF svars, SInv, STypeOK, WithinSource, ReadsInside, Last
<1> QED BY <1>2, <1>3, <1>4, <1>5, <1>6, <1>8, <1>9, <1>10, <1>11 DEF SNext

(* Theorem: whatever the sources are, the inductive invariant holds.       *)
THEOREM ScannerInvariant == SSpec => []SInv
BY InitInv, NextInv, PTL DEF SSpec

(* Theorem: the registers of the scanner stay in their types.              *)
THEOREM ScannerTypes == SSpec => []STypeOK
<1>1. SInv => STypeOK
  BY DEF SInv
<1> QED BY <1>1, ScannerInvariant, PTL

(* Theorem: no character behind the NUL that ends a source is read.        *)
THEOREM ScannerReadsInside == SSpec => []ReadsInside
<1>1. SInv => ReadsInside
  BY DEF SInv
<1> QED BY <1>1, ScannerInvariant, PTL

-----------------------------------------------------------------------------
(* Lines and columns.                                                      *)

(* The line and the column one place further.                              *)
LEMMA NextPlace ==
  ASSUME NEW p \in Nat \ {0}
  PROVE  /\ LineAt(p) \in Nat /\ ColAt(p) \in Nat
         /\ CharacterAt(source, p) = "newline" =>
              LineAt(p + 1) = LineAt(p) + 1 /\ ColAt(p + 1) = 1
         /\ CharacterAt(source, p) # "newline" =>
              LineAt(p + 1) = LineAt(p) /\ ColAt(p + 1) = ColAt(p) + 1
<1> DEFINE N(i) == CharacterAt(source, i) = "newline"
           L(q) == {i \in 1..(q - 1) : N(i)}
           K(q) == {i \in 1..q : \A k \in i..(q - 1) : ~ N(k)}
<1>1. /\ LineAt(p) = 1 + Cardinality(L(p))
      /\ LineAt(p + 1) = 1 + Cardinality(L(p + 1))
      /\ ColAt(p) = Cardinality(K(p))
      /\ ColAt(p + 1) = Cardinality(K(p + 1))
  BY DEF LineAt, ColAt
<1>2. IsFiniteSet(L(p)) /\ IsFiniteSet(K(p))
  <2>1. IsFiniteSet(1..(p - 1)) /\ IsFiniteSet(1..p)
    BY FS_Interval
  <2>2. L(p) \subseteq 1..(p - 1) /\ K(p) \subseteq 1..p
    OBVIOUS
  <2> HIDE DEF L, K
  <2> QED BY <2>1, <2>2, FS_Subset
<1>3. CASE N(p)
  <2>1. L(p + 1) = L(p) \cup {p} /\ p \notin L(p)
    BY <1>3
  <2>2. K(p + 1) = {p + 1}
    BY <1>3
  <2> HIDE DEF L, K
  <2>3. Cardinality(L(p + 1)) = Cardinality(L(p)) + 1 /\ Cardinality(L(p)) \in Nat
        /\ Cardinality(K(p)) \in Nat
    BY <1>2, <2>1, FS_AddElement, FS_CardinalityType
  <2>4. Cardinality(K(p + 1)) = 1
    BY <2>2, FS_Singleton
  <2> QED BY <1>1, <1>3, <2>3, <2>4
<1>4. CASE ~ N(p)
  <2>1. L(p + 1) = L(p)
    BY <1>4
  <2>2. K(p + 1) = K(p) \cup {p + 1} /\ p + 1 \notin K(p)
    BY <1>4
  <2> HIDE DEF L, K
  <2>3. Cardinality(K(p + 1)) = Cardinality(K(p)) + 1 /\ Cardinality(K(p)) \in Nat
        /\ Cardinality(L(p)) \in Nat
    BY <1>2, <2>2, FS_AddElement, FS_CardinalityType
  <2> QED BY <1>1, <1>4, <2>1, <2>3
<1> QED BY <1>3, <1>4

(* What a step does to the place and to the token: nothing; a token that   *)
(* starts here; or one character further.                                  *)
Stays   == UNCHANGED <<source, pos, line, col, token>>
Matches == \E kind \in Kinds, start, length \in Nat :
             /\ start = IF kind = "STRING" THEN pos + 1 ELSE pos
             /\ token' = [kind |-> kind, line |-> line, col |-> col,
                          start |-> start, length |-> length]
             /\ UNCHANGED <<source, pos, line, col>>
Moves   == next_char /\ UNCHANGED <<source, token>>

LEMMA MatchMatches ==
  ASSUME NEW kind \in Kinds, NEW start \in Nat, NEW length \in Nat, NEW k,
         start = IF kind = "STRING" THEN pos + 1 ELSE pos,
         Match(kind, start, length, k)
  PROVE  Matches
BY DEF Match, Matches

LEMMA StepKinds == SInv /\ [SNext]_svars => Stays \/ Matches \/ Moves
<1> SUFFICES ASSUME SInv, [SNext]_svars PROVE Stays \/ Matches \/ Moves
  OBVIOUS
<1>1. pos \in Nat /\ n \in Nat
  BY Numbers DEF SInv
<1>2. \A label, k : Goto(label, k) => Stays
  BY DEF Goto, Stays
<1>3. \A error : SError(error) => Stays
  BY DEF SError, Stays
<1>4. CASE scanner_next_token
  BY <1>2, <1>4 DEF scanner_next_token
<1>5. CASE skip_spaces
  BY <1>2, <1>5 DEF skip_spaces, Moves
<1>6. CASE match_char
  <2>1. CASE Match("EOF", pos, 1, 1)
    BY <1>1, <2>1, MatchMatches DEF Kinds
  <2>2. CASE current_char \in Marks /\ Match(current_char, pos, 1, 1)
    <3>1. current_char \in Kinds /\ current_char # "STRING"
      BY <2>2 DEF Kinds, Marks
    <3> QED BY <1>1, <2>2, <3>1, MatchMatches
  <2> QED BY <1>2, <1>6, <2>1, <2>2 DEF match_char
<1>7. CASE match_int
  <2>1. CASE Match("INT", pos, n, n)
    BY <1>1, <2>1, MatchMatches DEF Kinds
  <2> QED BY <1>2, <1>7, <2>1 DEF match_int
<1>8. CASE match_string
  <2>1. CASE Match("STRING", pos + 1, n - 1, n + 1)
    <3>1. pc = "match_string"
      BY <1>8 DEF match_string
    <3>2. n - 1 \in Nat /\ pos + 1 \in Nat
      BY <1>1, <3>1 DEF SInv, WithinSource
    <3>3. "STRING" \in Kinds
      BY DEF Kinds
    <3> QED BY <2>1, <3>2, <3>3, MatchMatches
  <2> QED BY <1>2, <1>3, <1>8, <2>1 DEF match_string
<1>9. ASSUME NEW kind \in DOMAIN Keywords, NEW otherwise \in BOOLEAN,
             match_keyword(kind, otherwise), otherwise => Stays
      PROVE  Stays \/ Matches
  <2> DEFINE k == Common(Keywords[kind])
  <2>1. k \in Nat
    BY CommonPrefix, KeywordsAreWords
  <2>2. CASE Match(kind, pos, k, k)
    <3>1. kind \in Kinds /\ kind # "STRING"
      BY DEF Kinds, Keywords
    <3> HIDE DEF k
    <3> QED BY <1>1, <2>1, <2>2, <3>1, MatchMatches
  <2> QED BY <1>9, <2>2 DEF match_keyword
<1>10. CASE match_false
  <2>1. "FALSE_KW" \in DOMAIN Keywords /\ Goto("TRUE_KW", 0) \in BOOLEAN
    BY DEF Keywords, Goto
  <2> QED BY <1>2, <1>9, <1>10, <2>1 DEF match_false
<1>11. CASE match_true
  <2>1. "TRUE_KW" \in DOMAIN Keywords /\ SError("unexpected character") \in BOOLEAN
    BY DEF Keywords, SError
  <2> QED BY <1>3, <1>9, <1>11, <2>1 DEF match_true
<1>12. CASE next_chars
  BY <1>12 DEF next_chars, Moves
<1>13. CASE UNCHANGED svars
  BY <1>13 DEF svars, Stays
<1> QED BY <1>4, <1>5, <1>6, <1>7, <1>8, <1>10, <1>11, <1>12, <1>13 DEF SNext

(* Theorem: tokens and errors carry the line and the column of their first *)
(* character.                                                              *)
THEOREM ScannerPlaces == SSpec => []PlacesRight
<1> DEFINE First(t) == IF t.kind = "STRING" THEN t.start - 1 ELSE t.start
           Here     == line = LineAt(pos) /\ col = ColAt(pos)
           There    == token.kind # "none" =>
                         /\ token.line = LineAt(First(token))
                         /\ token.col = ColAt(First(token))
<1>1. PlacesRight <=> Here /\ There
  BY DEF PlacesRight
<1>2. SInit => PlacesRight
  <2> SUFFICES ASSUME SInit PROVE PlacesRight
    OBVIOUS
  <2>1. token.kind = "none" /\ pos = 1 /\ line = 1 /\ col = 1
    BY DEF SInit, NoToken
  <2>2. LineAt(1) = 1
    <3>1. {i \in 1..(1 - 1) : CharacterAt(source, i) = "newline"} = {}
      OBVIOUS
    <3> QED BY <3>1, FS_EmptySet DEF LineAt
  <2>3. ColAt(1) = 1
    <3>1. {i \in 1..1 : \A k \in i..(1 - 1) : CharacterAt(source, k) # "newline"} = {1}
      OBVIOUS
    <3> QED BY <3>1, FS_Singleton DEF ColAt
  <2> QED BY <1>1, <2>1, <2>2, <2>3
<1>3. SInv /\ PlacesRight /\ [SNext]_svars => PlacesRight'
  <2> SUFFICES ASSUME SInv, PlacesRight, [SNext]_svars PROVE PlacesRight'
    OBVIOUS
  <2>1. Here /\ There /\ pos \in Nat \ {0}
    BY <1>1, Numbers DEF SInv
  <2>0. Here' /\ There' => PlacesRight'
    BY DEF PlacesRight
  <2>2. CASE Stays
    <3>1. Here' /\ There'
      BY <2>1, <2>2 DEF Stays, LineAt, ColAt
    <3> QED BY <2>0, <3>1
  <2>3. CASE Matches
    <3>1. PICK kind \in Kinds, start \in Nat, length \in Nat :
             /\ start = IF kind = "STRING" THEN pos + 1 ELSE pos
             /\ token' = [kind |-> kind, line |-> line, col |-> col,
                          start |-> start, length |-> length]
             /\ UNCHANGED <<source, pos, line, col>>
      BY <2>3 DEF Matches
    <3>2. /\ token'.line = line /\ token'.col = col /\ First(token') = pos
      BY <2>1, <3>1
    <3>3. Here' /\ There'
      BY <2>1, <3>1, <3>2 DEF LineAt, ColAt
    <3> QED BY <2>0, <3>3
  <2>4. CASE Moves
    <3>1. pos' = pos + 1 /\ source' = source /\ token' = token
      BY <2>4 DEF Moves, next_char
    <3>2. /\ current_char = "newline" => line' = line + 1 /\ col' = 1
          /\ current_char # "newline" => line' = line /\ col' = col + 1
      BY <2>4 DEF Moves, next_char
    <3>3. current_char = CharacterAt(source, pos)
      BY <2>1 DEF current_char, char_at
    <3>4. line' = LineAt(pos + 1) /\ col' = ColAt(pos + 1)
      BY <2>1, <3>2, <3>3, NextPlace
    <3>5. Here'
      BY <3>1, <3>4 DEF LineAt, ColAt
    <3>6. There'
      BY <2>1, <3>1 DEF LineAt, ColAt
    <3> QED BY <2>0, <3>5, <3>6
  <2> QED BY <2>2, <2>3, <2>4, StepKinds
<1> QED BY <1>2, <1>3, ScannerInvariant, PTL DEF SSpec

-----------------------------------------------------------------------------
(* The scanner implements Lexer.                                           *)

(* The word that starts here.                                              *)
WordEnd == FirstNotIn(source, pos, WordCharacters)
Text    == SubSeq(source, pos, WordEnd - 1)

(* What the scanner knows once it has come to each of its loops.           *)
Scanning ==
  /\ pc \notin {"return", "next_chars"} => result = "ok" /\ token.kind # "EOF"
  /\ pc \notin {"return", "next_chars", "skip_spaces"} => current_char \notin Spaces
  /\ pc = "match_int" => n >= 1 /\ \A i \in 0..(n - 1) : char_at(i) \in Digits
  /\ pc = "match_string" =>
       /\ n >= 1
       /\ current_char = "quote"
       /\ \A i \in 1..(n - 1) : char_at(i) \notin {"quote", "NUL"}
  /\ pc \in DOMAIN Keywords =>
       /\ current_char \notin Marks \cup {"quote", "NUL"}
       /\ current_char \in WordCharacters => \E i \in DOMAIN Text : Text[i] \notin Digits
  /\ pc = "TRUE_KW" => Text # Keywords["FALSE_KW"]

-----------------------------------------------------------------------------
(* FirstNotIn.                                                             *)

(* It is what its name says, if the NUL is not in S.                       *)
LEMMA FirstExists ==
  ASSUME NEW s \in Seq(Characters), NEW i \in 1..(Len(s) + 2), NEW S, "NUL" \notin S
  PROVE  /\ FirstNotIn(s, i, S) \in i..(Len(s) + 2)
         /\ CharacterAt(s, FirstNotIn(s, i, S)) \notin S
         /\ \A k \in i..(FirstNotIn(s, i, S) - 1) : CharacterAt(s, k) \in S
<1> DEFINE T == {j \in i..(Len(s) + 2) : CharacterAt(s, j) \notin S}
<1>0. Len(s) \in Nat
  BY LenProperties
<1>1. T \subseteq Nat /\ T # {}
  <2>1. CharacterAt(s, Len(s) + 2) = "NUL"
    BY <1>0 DEF CharacterAt
  <2>2. Len(s) + 2 \in T
    BY <1>0, <2>1
  <2> QED BY <1>0, <2>2
<1> HIDE DEF T
<1>2. PICK j \in T : \A y \in T : j <= y
  BY <1>1, LeastElement
<1> USE DEF T
<1>3. j \in i..(Len(s) + 2) /\ CharacterAt(s, j) \notin S
  BY <1>2
<1>4. ASSUME NEW k \in i..(j - 1) PROVE CharacterAt(s, k) \in S
  <2>1. k \in i..(Len(s) + 2) /\ ~(j <= k)
    BY <1>0, <1>3
  <2> QED BY <1>2, <2>1
<1> HIDE DEF T
<1>5. \E x \in i..(Len(s) + 2) :
        /\ CharacterAt(s, x) \notin S
        /\ \A k \in i..(x - 1) : CharacterAt(s, k) \in S
  BY <1>3, <1>4
<1> QED BY <1>5 DEF FirstNotIn

(* There is only one such position.                                        *)
LEMMA FirstIs ==
  ASSUME NEW s \in Seq(Characters), NEW i \in 1..(Len(s) + 2), NEW S, "NUL" \notin S,
         NEW j \in i..(Len(s) + 2), CharacterAt(s, j) \notin S,
         \A k \in i..(j - 1) : CharacterAt(s, k) \in S
  PROVE  FirstNotIn(s, i, S) = j
<1> DEFINE x == FirstNotIn(s, i, S)
<1>1. /\ x \in i..(Len(s) + 2)
      /\ CharacterAt(s, x) \notin S
      /\ \A k \in i..(x - 1) : CharacterAt(s, k) \in S
  BY FirstExists
<1> HIDE DEF x
<1>2. Len(s) \in Nat
  BY LenProperties
<1>3. ~(x < j)
  BY <1>1, <1>2
<1>4. ~(j < x)
  BY <1>1, <1>2
<1>5. x = j
  BY <1>1, <1>2, <1>3, <1>4
<1> QED BY <1>5 DEF x

LEMMA SourceFacts ==
  ASSUME SInv
  PROVE  /\ source \in Seq(Characters) /\ Len(source) \in Nat
         /\ pos \in Nat \ {0} /\ n \in Nat /\ Last = Len(source) + 1
         /\ pc # "return" => pos <= Last
         /\ pc # "return" => pos \in 1..(Len(source) + 2)
<1>1. source \in Seq(Characters)
  BY DEF SInv, STypeOK
<1>2. /\ pos \in Nat \ {0} /\ n \in Nat /\ Len(source) \in Nat /\ Last = Len(source) + 1
  BY Numbers DEF SInv
<1>3. pc # "return" => pos <= Last
  BY <1>2 DEF SInv, WithinSource
<1> QED BY <1>1, <1>2, <1>3

(* The word that starts here, when there is one.                           *)
LEMMA TheWord ==
  ASSUME SInv, pc # "return"
  PROVE  /\ WordEnd \in pos..(Len(source) + 2)
         /\ CharacterAt(source, WordEnd) \notin WordCharacters
         /\ \A k \in pos..(WordEnd - 1) : CharacterAt(source, k) \in WordCharacters
         /\ Text \in Seq(Characters) /\ Len(Text) = WordEnd - pos
         /\ \A i \in 1..(WordEnd - pos) : Text[i] = char_at(i - 1)
<1>1. /\ WordEnd \in pos..(Len(source) + 2)
      /\ CharacterAt(source, WordEnd) \notin WordCharacters
      /\ \A k \in pos..(WordEnd - 1) : CharacterAt(source, k) \in WordCharacters
  BY SourceFacts, NoNUL, FirstExists DEF WordEnd
<1>2. WordEnd - 1 <= Len(source)
  <2>1. CASE WordEnd = pos
    BY <2>1, SourceFacts
  <2>2. CASE WordEnd # pos
    <3>1. WordEnd - 1 \in pos..(WordEnd - 1) /\ WordEnd - 1 \in Nat \ {0}
      BY <1>1, <2>2, SourceFacts
    <3>2. CharacterAt(source, WordEnd - 1) # "NUL"
      BY <1>1, <3>1, NoNUL
    <3> QED BY <3>1, <3>2, SourceFacts, CharactersOfSource
  <2> QED BY <2>1, <2>2
<1>3. /\ Text \in Seq(Characters) /\ Len(Text) = WordEnd - pos
      /\ \A i \in 1..(WordEnd - pos) : Text[i] = source[pos + i - 1]
  <2>1. PICK e \in pos..(Len(source) + 2) : e = WordEnd
    BY <1>1
  <2>2. PICK s \in Seq(Characters) : s = source
    BY SourceFacts
  <2>3. PICK p \in 1..(Len(s) + 2) : p = pos
    BY <2>2, SourceFacts
  <2>4. /\ SubSeq(s, p, e - 1) \in Seq(Characters)
        /\ Len(SubSeq(s, p, e - 1)) = e - p
        /\ \A i \in 1..(e - p) : SubSeq(s, p, e - 1)[i] = s[p + i - 1]
    BY <1>2, <2>1, <2>2, <2>3, LenProperties, SubSeqProperties
  <2> QED BY <2>1, <2>2, <2>3, <2>4 DEF Text
<1>4. ASSUME NEW i \in 1..(WordEnd - pos) PROVE source[pos + i - 1] = char_at(i - 1)
  <2>1. pos + (i - 1) \in 1..Len(source) /\ pos + i - 1 = pos + (i - 1)
    BY <1>1, <1>2, SourceFacts
  <2> QED BY <2>1 DEF char_at, CharacterAt
<1> QED BY <1>1, <1>3, <1>4

-----------------------------------------------------------------------------
(* Steps of Lexer.                                                         *)

(* Lexer and Scanner mean the same by the names of Characters.             *)
LEMMA SameCharacters ==
  /\ Lexing!Spaces = Spaces /\ Lexing!Digits = Digits /\ Lexing!Marks = Marks
  /\ Lexing!WordCharacters = WordCharacters /\ Lexing!Characters = Characters
  /\ Lexing!Keywords = Keywords
  /\ \A s, i : Lexing!CharacterAt(s, i) = CharacterAt(s, i)
  /\ \A s, i, S : Lexing!FirstNotIn(s, i, S) = FirstNotIn(s, i, S)
<1>1. /\ Lexing!Spaces = Spaces /\ Lexing!Digits = Digits /\ Lexing!Marks = Marks
      /\ Lexing!Letters = Letters /\ Lexing!Keywords = Keywords
  BY DEF Lexing!Spaces, Spaces, Lexing!Digits, Digits, Lexing!Marks, Marks,
         Lexing!Letters, Letters, Lexing!Keywords, Keywords
<1>2. Lexing!WordCharacters = WordCharacters
  BY <1>1 DEF Lexing!WordCharacters, WordCharacters
<1>3. Lexing!Characters = Characters
  BY <1>1, <1>2 DEF Lexing!Characters, Characters
<1>4. \A s, i : Lexing!CharacterAt(s, i) = CharacterAt(s, i)
  BY DEF Lexing!CharacterAt, CharacterAt
<1>5. \A s, i, S : Lexing!FirstNotIn(s, i, S) = FirstNotIn(s, i, S)
  BY DEF Lexing!FirstNotIn, FirstNotIn, Lexing!CharacterAt, CharacterAt
<1> QED BY <1>1, <1>2, <1>3, <1>4, <1>5

Bar_at    == FirstNotIn(source, Ahead, Spaces)
Bar_token == <<token.kind, token.start, token.length>>

(* Before a token is found, Lexer is where the scanner is.                 *)
LEMMA HereIsAt ==
  ASSUME SInv, Scanning, pc \notin {"return", "next_chars", "skip_spaces"}
  PROVE  /\ Bar_at = pos
         /\ result = "ok" /\ Bar_token[1] # "EOF"
         /\ CharacterAt(source, pos) = current_char
<1>1. Ahead = pos
  BY SourceFacts DEF Ahead
<1>2. CharacterAt(source, pos) = current_char
  BY SourceFacts DEF current_char, char_at
<1>3. current_char \notin Spaces /\ result = "ok" /\ token.kind # "EOF"
  BY DEF Scanning
<1>4. pos \in 1..(Len(source) + 2) /\ pos \in pos..(Len(source) + 2)
  BY SourceFacts
<1>5. FirstNotIn(source, pos, Spaces) = pos
  BY <1>2, <1>3, <1>4, SourceFacts, NoNUL, FirstIs
<1> QED BY <1>1, <1>2, <1>3, <1>5 DEF Bar_at, Bar_token

(* Finding a token is Take.                                                *)
LEMMA MatchTakes ==
  ASSUME SInv, NEW kind \in Kinds, NEW start \in Nat, NEW length \in Nat, NEW k \in Nat,
         Match(kind, start, length, k)
  PROVE  Lexing!Take(kind, start, length, pos + k)
<1>1. /\ token'.kind = kind /\ token'.start = start /\ token'.length = length
      /\ pc' = "next_chars" /\ n' = k
      /\ source' = source /\ pos' = pos /\ result' = result
  BY DEF Match
<1>2. Ahead' = pos + k
  BY <1>1 DEF Ahead
<1>3. Lexing!Solid(pos + k) = FirstNotIn(source, pos + k, Spaces)
  BY SameCharacters DEF Lexing!Solid, Lexing!After
<1>4. FirstNotIn(source, Ahead, Spaces)' = FirstNotIn(source, pos + k, Spaces)
  BY <1>1, <1>2
<1>5. <<token.kind, token.start, token.length>>' = <<kind, start, length>>
  BY <1>1
<1> QED BY <1>1, <1>3, <1>4, <1>5 DEF Lexing!Take

LEMMA ErrorRejects ==
  ASSUME SInv, NEW error, SError(error), pc \notin {"return", "next_chars"}
  PROVE  Lexing!Reject(error)
<1>1. /\ result' = error /\ pc' = "return"
      /\ source' = source /\ pos' = pos /\ token' = token
  BY DEF SError
<1>2. Ahead' = Ahead
  BY <1>1 DEF Ahead
<1> QED BY <1>1, <1>2 DEF Lexing!Reject

(* Going to another place of the code is not a step of Lexer.              *)
LEMMA GotoStutters ==
  ASSUME NEW label, NEW k, Goto(label, k), pc # "next_chars", label # "next_chars"
  PROVE  UNCHANGED Lexing!lvars
<1>1. /\ pc' = label
      /\ source' = source /\ pos' = pos /\ token' = token /\ result' = result
  BY DEF Goto
<1>2. Ahead' = Ahead
  BY <1>1 DEF Ahead
<1> QED BY <1>1, <1>2 DEF Lexing!lvars

(* What has to be true for each of the tokens.                             *)
LEMMA LexerSteps ==
  ASSUME SInv, Scanning, pc \notin {"return", "next_chars", "skip_spaces"}
  PROVE  /\ current_char = "NUL" /\ Lexing!Take("EOF", pos, 1, pos + 1) => Lexing!LexNext
         /\ current_char \in Marks /\ Lexing!Take(current_char, pos, 1, pos + 1)
              => Lexing!LexNext
         /\ current_char = "other" /\ Lexing!Reject("unexpected character")
              => Lexing!LexNext
         /\ \A close :
              /\ current_char = "quote"
              /\ close = FirstNotIn(source, pos + 1, Characters \ {"quote"})
              /\ \/ /\ CharacterAt(source, close) = "quote"
                    /\ Lexing!Take("STRING", pos + 1, close - pos - 1, close + 1)
                 \/ /\ CharacterAt(source, close) = "NUL"
                    /\ Lexing!Reject("unterminated string")
              => Lexing!LexNext
         /\ /\ current_char \in WordCharacters
            /\ \/ /\ \A i \in DOMAIN Text : Text[i] \in Digits
                  /\ Lexing!Take("INT", pos, WordEnd - pos, WordEnd)
               \/ \E kind \in DOMAIN Keywords :
                    /\ Text = Keywords[kind]
                    /\ Lexing!Take(kind, pos, WordEnd - pos, WordEnd)
               \/ /\ \E i \in DOMAIN Text : Text[i] \notin Digits
                  /\ \A kind \in DOMAIN Keywords : Text # Keywords[kind]
                  /\ Lexing!Reject("unexpected character")
            => Lexing!LexNext
<1>1. /\ FirstNotIn(source, Ahead, Spaces) = pos
      /\ result = "ok" /\ <<token.kind, token.start, token.length>>[1] # "EOF"
      /\ CharacterAt(source, pos) = current_char
  BY HereIsAt DEF Bar_at, Bar_token
<1>2. \A i : Lexing!C(i) = CharacterAt(source, i)
  BY SameCharacters DEF Lexing!C
<1>3. \A i, S : Lexing!After(i, S) = FirstNotIn(source, i, S)
  BY SameCharacters DEF Lexing!After
<1>4. \/ Lexing!end \/ Lexing!mark \/ Lexing!string \/ Lexing!word \/ Lexing!other
      => Lexing!LexNext
  BY <1>1 DEF Lexing!LexNext
<1>5. ASSUME current_char = "NUL", Lexing!Take("EOF", pos, 1, pos + 1)
      PROVE  Lexing!end
  BY <1>1, <1>2, <1>5 DEF Lexing!end
<1>6. ASSUME current_char \in Marks, Lexing!Take(current_char, pos, 1, pos + 1)
      PROVE  Lexing!mark
  BY <1>1, <1>2, <1>6, SameCharacters DEF Lexing!mark
<1>7. ASSUME current_char = "other", Lexing!Reject("unexpected character")
      PROVE  Lexing!other
  BY <1>1, <1>2, <1>7 DEF Lexing!other
<1>8. ASSUME NEW close, current_char = "quote",
             close = FirstNotIn(source, pos + 1, Characters \ {"quote"}),
             \/ /\ CharacterAt(source, close) = "quote"
                /\ Lexing!Take("STRING", pos + 1, close - pos - 1, close + 1)
             \/ /\ CharacterAt(source, close) = "NUL"
                /\ Lexing!Reject("unterminated string")
      PROVE  Lexing!string
  BY <1>1, <1>2, <1>3, <1>8, SameCharacters DEF Lexing!string
<1>9. ASSUME current_char \in WordCharacters,
             \/ /\ \A i \in DOMAIN Text : Text[i] \in Digits
                /\ Lexing!Take("INT", pos, WordEnd - pos, WordEnd)
             \/ \E kind \in DOMAIN Keywords :
                  /\ Text = Keywords[kind]
                  /\ Lexing!Take(kind, pos, WordEnd - pos, WordEnd)
             \/ /\ \E i \in DOMAIN Text : Text[i] \notin Digits
                /\ \A kind \in DOMAIN Keywords : Text # Keywords[kind]
                /\ Lexing!Reject("unexpected character")
      PROVE  Lexing!word
  <2>1. Lexing!After(pos, Lexing!WordCharacters) = WordEnd
    BY <1>3, SameCharacters DEF WordEnd
  <2>2. SubSeq(source, pos, WordEnd - 1) = Text
    BY DEF Text
  <2> QED BY <1>1, <1>2, <1>9, <2>1, <2>2, SameCharacters DEF Lexing!word
<1> QED BY <1>4, <1>5, <1>6, <1>7, <1>8, <1>9

LEMMA ScanningInit == SInit => Scanning /\ Lexing!LexInit
<1> SUFFICES ASSUME SInit PROVE Scanning /\ Lexing!LexInit
  OBVIOUS
<1>1. /\ pos = 1 /\ result = "ok" /\ pc = "skip_spaces" /\ token = NoToken
  BY DEF SInit
<1>2. token.kind = "none" /\ token.start = 0 /\ token.length = 0
  BY <1>1 DEF NoToken
<1>3. Scanning
  BY <1>1, <1>2 DEF Scanning, Keywords
<1>4. Ahead = 1
  BY <1>1 DEF Ahead
<1>5. Lexing!Solid(1) = FirstNotIn(source, 1, Spaces)
  BY SameCharacters DEF Lexing!Solid, Lexing!After
<1> QED BY <1>1, <1>2, <1>3, <1>4, <1>5 DEF Lexing!LexInit

(* What a loop knows depends on the source and the place only.             *)
LEMMA GotoScanning ==
  ASSUME NEW label, NEW k, Goto(label, k), result = "ok", token.kind # "EOF"
  PROVE  /\ pc' = label /\ n' = k /\ result' = "ok" /\ token'.kind # "EOF"
         /\ current_char' = current_char /\ Text' = Text
         /\ \A i : char_at(i)' = char_at(i)
<1>1. /\ pc' = label /\ n' = k
      /\ source' = source /\ pos' = pos /\ token' = token /\ result' = result
  BY DEF Goto
<1>2. \A i : char_at(i)' = char_at(i)
  BY <1>1 DEF char_at
<1>3. current_char' = current_char
  BY <1>1 DEF current_char, char_at
<1>4. Text' = Text
  BY <1>1 DEF Text, WordEnd
<1> QED BY <1>1, <1>2, <1>3, <1>4

(* Outside of the loops nothing has to be known.                           *)
LEMMA NothingToKnow == pc' \in {"return", "next_chars"} => Scanning'
BY DEF Scanning, Keywords

LEMMA MatchSteps ==
  ASSUME SInv, NEW kind \in Kinds, NEW start \in Nat, NEW length \in Nat, NEW k \in Nat,
         Match(kind, start, length, k)
  PROVE  Scanning' /\ Lexing!Take(kind, start, length, pos + k)
<1>1. pc' = "next_chars"
  BY DEF Match
<1> QED BY <1>1, NothingToKnow, MatchTakes

LEMMA ErrorSteps ==
  ASSUME SInv, NEW error, SError(error), pc \notin {"return", "next_chars"}
  PROVE  Scanning' /\ Lexing!Reject(error)
<1>1. pc' = "return"
  BY DEF SError
<1> QED BY <1>1, NothingToKnow, ErrorRejects

-----------------------------------------------------------------------------
(* What the loops have found out.                                          *)

(* Ahead of the loop over the digits stands the end of the word, or else   *)
(* the word goes on.                                                       *)
LEMMA DigitsSoFar ==
  ASSUME SInv, Scanning, pc = "match_int"
  PROVE  /\ current_char \in Digits
         /\ char_at(n) \in WordCharacters \ Digits =>
              \E i \in DOMAIN Text : Text[i] \notin Digits
         /\ char_at(n) \notin WordCharacters =>
              WordEnd = pos + n /\ \A i \in DOMAIN Text : Text[i] \in Digits
<1>1. /\ n >= 1 /\ \A i \in 0..(n - 1) : char_at(i) \in Digits
  BY DEF Scanning
<1>2. pos + n <= Last
  BY DEF SInv, WithinSource
<1>3. current_char \in Digits
  BY <1>1, SourceFacts DEF current_char
<1>4. Digits \subseteq WordCharacters
  BY DEF WordCharacters
<1>5. \A i \in Nat : CharacterAt(source, pos + i) = char_at(i)
  BY DEF char_at
<1>6. /\ WordEnd \in pos..(Len(source) + 2)
      /\ CharacterAt(source, WordEnd) \notin WordCharacters
      /\ Len(Text) = WordEnd - pos /\ Text \in Seq(Characters)
      /\ \A i \in 1..(WordEnd - pos) : Text[i] = char_at(i - 1)
  BY TheWord
<1>7. DOMAIN Text = 1..(WordEnd - pos)
  BY <1>6, LenProperties
<1>8. ASSUME char_at(n) \in WordCharacters \ Digits
      PROVE  \E i \in DOMAIN Text : Text[i] \notin Digits
  <2>1. ~ (WordEnd <= pos + n)
    <3>1. SUFFICES ASSUME WordEnd <= pos + n PROVE FALSE
      OBVIOUS
    <3>2. PICK i \in 0..n : WordEnd = pos + i
      <4>1. WordEnd - pos \in 0..n /\ WordEnd = pos + (WordEnd - pos)
        BY <1>6, <3>1, SourceFacts
      <4> QED BY <4>1
    <3>3. char_at(i) \in WordCharacters
      BY <1>1, <1>4, <1>8, <3>2, SourceFacts
    <3> QED BY <1>5, <1>6, <3>2, <3>3
  <2>2. n + 1 \in 1..(WordEnd - pos) /\ (n + 1) - 1 = n
    BY <1>6, <2>1, SourceFacts
  <2>3. Text[n + 1] \notin Digits
    BY <1>6, <1>8, <2>2
  <2> QED BY <1>7, <2>2, <2>3
<1>9. ASSUME char_at(n) \notin WordCharacters
      PROVE  WordEnd = pos + n /\ \A i \in DOMAIN Text : Text[i] \in Digits
  <2>1. pos + n \in pos..(Len(source) + 2) /\ pos \in 1..(Len(source) + 2)
    BY <1>2, SourceFacts
  <2>2. ASSUME NEW k \in pos..(pos + n - 1) PROVE CharacterAt(source, k) \in WordCharacters
    <3>1. k - pos \in 0..(n - 1) /\ k = pos + (k - pos)
      BY SourceFacts
    <3>2. char_at(k - pos) \in Digits
      BY <1>1, <3>1
    <3> QED BY <1>4, <1>5, <3>1, <3>2
  <2>3. CharacterAt(source, pos + n) \notin WordCharacters
    BY <1>5, <1>9, SourceFacts
  <2>4. WordEnd = pos + n
    BY <2>1, <2>2, <2>3, SourceFacts, NoNUL, FirstIs DEF WordEnd
  <2>5. ASSUME NEW i \in DOMAIN Text PROVE Text[i] \in Digits
    <3>1. i \in 1..n /\ i - 1 \in 0..(n - 1)
      BY <1>7, <2>4, <2>5, SourceFacts
    <3> QED BY <1>1, <1>6, <2>4, <3>1, SourceFacts
  <2> QED BY <2>4, <2>5
<1> QED BY <1>3, <1>8, <1>9

(* The quote or the NUL that the loop over a string comes to is the first. *)
LEMMA StringSoFar ==
  ASSUME SInv, Scanning, pc = "match_string", char_at(n) \in {"quote", "NUL"}
  PROVE  /\ FirstNotIn(source, pos + 1, Characters \ {"quote"}) = pos + n
         /\ CharacterAt(source, pos + n) = char_at(n)
         /\ n - 1 \in Nat /\ n - 1 = (pos + n) - pos - 1
<1>1. n >= 1 /\ \A i \in 1..(n - 1) : char_at(i) \notin {"quote", "NUL"}
  BY DEF Scanning
<1>2. pos + n <= Last
  BY DEF SInv, WithinSource
<1>3. /\ pos + 1 \in 1..(Len(source) + 2) /\ pos + n \in (pos + 1)..(Len(source) + 2)
      /\ n - 1 \in Nat /\ n - 1 = (pos + n) - pos - 1
  BY <1>1, <1>2, SourceFacts
<1>4. ASSUME NEW k \in (pos + 1)..(pos + n - 1)
      PROVE  CharacterAt(source, k) \in Characters \ {"quote"}
  <2>1. k - pos \in 1..(n - 1) /\ k = pos + (k - pos) /\ k \in Nat \ {0}
    BY SourceFacts
  <2>2. CharacterAt(source, k) \notin {"quote", "NUL"}
    BY <1>1, <2>1 DEF char_at
  <2> QED BY <2>1, <2>2, CharactersOfSource, SourceFacts
<1>5. CharacterAt(source, pos + n) = char_at(n)
  BY DEF char_at
<1>6. "NUL" \notin Characters
  BY NoNUL DEF Characters
<1>7. FirstNotIn(source, pos + 1, Characters \ {"quote"}) = pos + n
  <2> DEFINE S == Characters \ {"quote"}
  <2>1. PICK i \in 1..(Len(source) + 2) : i = pos + 1
    BY <1>3
  <2>2. PICK j \in i..(Len(source) + 2) : j = pos + n
    BY <1>3, <2>1
  <2>3. CharacterAt(source, j) \notin S /\ "NUL" \notin S
    BY <1>5, <1>6, <2>2
  <2>4. \A k \in i..(j - 1) : CharacterAt(source, k) \in S
    BY <1>4, <2>1, <2>2, SourceFacts
  <2> HIDE DEF S
  <2>5. FirstNotIn(source, i, S) = j
    BY <2>3, <2>4, SourceFacts, FirstIs
  <2> QED BY <2>1, <2>2, <2>5 DEF S
<1> QED BY <1>3, <1>5, <1>7

(* A keyword is found just when it is the word.                            *)
LEMMA KeywordIsWord ==
  ASSUME SInv, pc # "return", NEW kind \in DOMAIN Keywords, NEW k,
         k = Common(Keywords[kind])
  PROVE  /\ k = Len(Keywords[kind]) /\ char_at(k) \notin WordCharacters =>
              /\ Text = Keywords[kind] /\ WordEnd = pos + k
              /\ current_char \in WordCharacters
         /\ k < Len(Keywords[kind]) \/ char_at(k) \in WordCharacters =>
              Text # Keywords[kind]
<1> PICK kw : kw = Keywords[kind]
  OBVIOUS
<1>1. kw \in Seq(Letters) /\ Len(kw) \in 4..5
  BY KeywordsAreWords
<1>2. /\ k \in 0..Len(kw)
      /\ \A i \in 1..k : char_at(i - 1) = kw[i]
      /\ k < Len(kw) => char_at(k) # kw[k + 1]
  BY CommonPrefix
<1>3. Letters \subseteq WordCharacters /\ WordCharacters \subseteq Characters
  BY DEF WordCharacters, Characters
<1>4. kw \in Seq(Characters)
  BY <1>1, <1>3
<1>5. /\ WordEnd \in pos..(Len(source) + 2)
      /\ CharacterAt(source, WordEnd) \notin WordCharacters
      /\ Len(Text) = WordEnd - pos /\ Text \in Seq(Characters)
      /\ \A i \in 1..(WordEnd - pos) : Text[i] = char_at(i - 1)
  BY TheWord
<1>6. \A i \in Nat : CharacterAt(source, pos + i) = char_at(i)
  BY DEF char_at
<1>7. ASSUME k = Len(kw), char_at(k) \notin WordCharacters
      PROVE  Text = kw /\ WordEnd = pos + k /\ current_char \in WordCharacters
  <2>1. ASSUME NEW i \in 0..(k - 1) PROVE char_at(i) \in WordCharacters
    <3>1. i + 1 \in 1..k /\ (i + 1) - 1 = i
      BY <1>2
    <3>2. kw[i + 1] \in Letters
      BY <1>1, <1>7, <3>1
    <3> QED BY <1>2, <1>3, <3>1, <3>2
  <2>2. ASSUME NEW j \in pos..(pos + k - 1) PROVE CharacterAt(source, j) \in WordCharacters
    <3>1. j - pos \in 0..(k - 1) /\ j = pos + (j - pos)
      BY <1>2, SourceFacts
    <3>2. char_at(j - pos) \in WordCharacters
      BY <2>1, <3>1
    <3> QED BY <1>6, <3>1, <3>2
  <2>3. pos + k \in pos..(Len(source) + 2)
    <3>1. k - 1 \in 0..(k - 1) /\ k - 1 \in Nat
      BY <1>1, <1>7
    <3>2. char_at(k - 1) # "NUL"
      BY <2>1, <3>1, NoNUL
    <3>3. STypeOK
      BY DEF SInv
    <3>4. pos + (k - 1) + 1 <= Last
      BY <3>1, <3>2, <3>3, Inside
    <3> QED BY <1>1, <1>7, <3>4, SourceFacts
  <2>4. CharacterAt(source, pos + k) \notin WordCharacters
    BY <1>2, <1>6, <1>7
  <2>5. WordEnd = pos + k
    <3>1. PICK j \in pos..(Len(source) + 2) : j = pos + k
      BY <2>3
    <3>2. \A i \in pos..(j - 1) : CharacterAt(source, i) \in WordCharacters
      BY <1>2, <2>2, <3>1, SourceFacts
    <3>3. CharacterAt(source, j) \notin WordCharacters /\ "NUL" \notin WordCharacters
      BY <2>4, <3>1, NoNUL
    <3>4. source \in Seq(Characters) /\ pos \in 1..(Len(source) + 2)
      BY SourceFacts
    <3>5. FirstNotIn(source, pos, WordCharacters) = j
      BY <3>2, <3>3, <3>4, FirstIs
    <3> QED BY <3>1, <3>5 DEF WordEnd
  <2>6. Len(Text) = Len(kw) /\ Len(kw) \in Nat
    BY <1>1, <1>5, <1>7, <2>5, SourceFacts
  <2>7. \A i \in 1..Len(kw) : Text[i] = kw[i]
    BY <1>1, <1>2, <1>5, <1>7, <2>5, SourceFacts
  <2>8. Text = kw
    BY <1>4, <1>5, <2>6, <2>7, SeqEqual
  <2>9. current_char \in WordCharacters
    BY <1>1, <1>7, <2>1 DEF current_char
  <2> QED BY <2>5, <2>8, <2>9
<1>8. ASSUME k < Len(kw) \/ char_at(k) \in WordCharacters, Text = kw PROVE FALSE
  <2>1. WordEnd = pos + Len(kw)
    BY <1>1, <1>5, <1>8, SourceFacts
  <2>2. CASE k < Len(kw)
    <3>1. k + 1 \in 1..(WordEnd - pos) /\ (k + 1) - 1 = k
      BY <1>1, <1>2, <2>1, <2>2, SourceFacts
    <3> QED BY <1>2, <1>5, <1>8, <2>2, <3>1
  <2>3. CASE k = Len(kw) /\ char_at(k) \in WordCharacters
    BY <1>2, <1>5, <1>6, <2>1, <2>3
  <2> QED BY <1>1, <1>2, <1>8, <2>2, <2>3
<1> QED BY <1>7, <1>8

-----------------------------------------------------------------------------
(* The steps of the scanner.                                               *)

Step == Lexing!LexNext \/ UNCHANGED Lexing!lvars

LEMMA skip_spacesSteps ==
  ASSUME SInv, Scanning, skip_spaces
  PROVE  Scanning' /\ Step
<1>1. pc = "skip_spaces" /\ result = "ok" /\ token.kind # "EOF"
  BY DEF skip_spaces, Scanning
<1>2. CASE current_char \in Spaces /\ next_char /\ UNCHANGED <<source, token, result, pc, n>>
  <2>1. /\ pos' = pos + 1 /\ source' = source /\ token' = token
        /\ result' = result /\ pc' = pc
    BY <1>2 DEF next_char
  <2>2. Scanning'
    BY <1>1, <2>1 DEF Scanning, Keywords
  <2>3. Ahead = pos /\ Ahead' = pos + 1
    BY <1>1, <2>1, SourceFacts DEF Ahead
  <2>4. CharacterAt(source, pos) \in Spaces
    BY <1>2, SourceFacts DEF current_char, char_at
  <2>5. pos \in 1..(Len(source) + 2) /\ pos + 1 \in 1..(Len(source) + 2)
    BY <1>1, SourceFacts
  <2>6. PICK j : j = FirstNotIn(source, pos + 1, Spaces)
    OBVIOUS
  <2>7. /\ j \in (pos + 1)..(Len(source) + 2)
        /\ CharacterAt(source, j) \notin Spaces
        /\ \A k \in (pos + 1)..(j - 1) : CharacterAt(source, k) \in Spaces
    BY <2>5, <2>6, SourceFacts, NoNUL, FirstExists
  <2>8. j \in pos..(Len(source) + 2)
        /\ \A k \in pos..(j - 1) : CharacterAt(source, k) \in Spaces
    BY <2>4, <2>7, SourceFacts
  <2>9. FirstNotIn(source, pos, Spaces) = j
    BY <2>5, <2>7, <2>8, SourceFacts, NoNUL, FirstIs
  <2>10. UNCHANGED Lexing!lvars
    BY <2>1, <2>3, <2>6, <2>9 DEF Lexing!lvars
  <2> QED BY <2>2, <2>10 DEF Step
<1>3. CASE current_char \notin Spaces /\ Goto("match_char", 0)
  <2>1. Scanning'
    BY <1>1, <1>3, GotoScanning DEF Scanning, Keywords
  <2> QED BY <1>1, <1>3, <2>1, GotoStutters DEF Step
<1> QED BY <1>2, <1>3 DEF skip_spaces

LEMMA match_charSteps ==
  ASSUME SInv, Scanning, match_char
  PROVE  Scanning' /\ Step
<1>1. /\ pc = "match_char" /\ result = "ok" /\ token.kind # "EOF"
      /\ current_char \notin Spaces
  BY DEF match_char, Scanning
<1>2. pos \in Nat /\ 1 \in Nat
  BY SourceFacts
<1>3. CASE current_char = "NUL" /\ Match("EOF", pos, 1, 1)
  <2>1. "EOF" \in Kinds
    BY DEF Kinds
  <2> QED BY <1>1, <1>2, <1>3, <2>1, MatchSteps, LexerSteps DEF Step
<1>4. CASE current_char \in Marks /\ Match(current_char, pos, 1, 1)
  <2>1. current_char \in Kinds
    BY <1>4 DEF Kinds
  <2> QED BY <1>1, <1>2, <1>4, <2>1, MatchSteps, LexerSteps DEF Step
<1>5. CASE current_char \in Digits /\ Goto("match_int", 1)
  <2>1. \A i \in 0..(1 - 1) : char_at(i) \in Digits
    BY <1>5 DEF current_char
  <2>2. /\ pc' = "match_int" /\ n' = 1 /\ result' = "ok" /\ token'.kind # "EOF"
        /\ current_char' = current_char
        /\ \A i : char_at(i)' = char_at(i)
    BY <1>1, <1>5, GotoScanning
  <2>3. \A i \in 0..(n' - 1) : char_at(i)' \in Digits
    BY <2>1, <2>2
  <2>4. Scanning'
    BY <1>1, <2>2, <2>3 DEF Scanning, Keywords
  <2> QED BY <1>1, <1>5, <2>4, GotoStutters DEF Step
<1>6. CASE current_char = "quote" /\ Goto("match_string", 1)
  <2>1. /\ pc' = "match_string" /\ n' = 1 /\ result' = "ok" /\ token'.kind # "EOF"
        /\ current_char' = current_char
    BY <1>1, <1>6, GotoScanning
  <2>2. 1..(n' - 1) = {}
    BY <2>1
  <2>3. Scanning'
    BY <1>1, <1>6, <2>1, <2>2 DEF Scanning, Keywords
  <2> QED BY <1>1, <1>6, <2>3, GotoStutters DEF Step
<1>7. CASE /\ current_char \notin Marks \cup Digits \cup {"NUL", "quote"}
           /\ Goto("FALSE_KW", 0)
  <2>1. /\ pc' = "FALSE_KW" /\ result' = "ok" /\ token'.kind # "EOF"
        /\ current_char' = current_char /\ Text' = Text
    BY <1>1, <1>7, GotoScanning
  <2>2. ASSUME current_char \in WordCharacters
        PROVE  \E i \in DOMAIN Text : Text[i] \notin Digits
    <3>1. /\ WordEnd \in pos..(Len(source) + 2)
          /\ CharacterAt(source, WordEnd) \notin WordCharacters
          /\ Len(Text) = WordEnd - pos /\ Text \in Seq(Characters)
          /\ \A i \in 1..(WordEnd - pos) : Text[i] = char_at(i - 1)
      BY <1>1, TheWord
    <3>2. WordEnd # pos
      BY <2>2, <3>1, SourceFacts DEF current_char, char_at
    <3>3. 1 \in 1..(WordEnd - pos) /\ 1 - 1 = 0
      BY <3>1, <3>2, SourceFacts
    <3>4. 1 \in DOMAIN Text /\ Text[1] = current_char
      BY <3>1, <3>3, LenProperties DEF current_char
    <3> QED BY <1>7, <3>4
  <2>3. Scanning'
    BY <1>1, <1>7, <2>1, <2>2 DEF Scanning, Keywords
  <2> QED BY <1>1, <1>7, <2>3, GotoStutters DEF Step, Keywords
<1> QED BY <1>3, <1>4, <1>5, <1>6, <1>7 DEF match_char

LEMMA match_intSteps ==
  ASSUME SInv, Scanning, match_int
  PROVE  Scanning' /\ Step
<1>1. /\ pc = "match_int" /\ result = "ok" /\ token.kind # "EOF"
      /\ current_char \notin Spaces
      /\ n >= 1 /\ \A i \in 0..(n - 1) : char_at(i) \in Digits
  BY DEF match_int, Scanning
<1>2. /\ current_char \in Digits /\ current_char \in WordCharacters
      /\ current_char \notin Marks \cup {"quote", "NUL"}
  BY <1>1, DigitsSoFar DEF WordCharacters, Digits, Marks
<1>3. CASE char_at(n) \in Digits /\ Goto("match_int", n + 1)
  <2>1. /\ pc' = "match_int" /\ n' = n + 1 /\ result' = "ok" /\ token'.kind # "EOF"
        /\ current_char' = current_char
        /\ \A i : char_at(i)' = char_at(i)
    BY <1>1, <1>3, GotoScanning
  <2>2. n' >= 1 /\ \A i \in 0..(n' - 1) : char_at(i)' \in Digits
    BY <1>1, <1>3, <2>1, SourceFacts
  <2>3. Scanning'
    BY <1>1, <2>1, <2>2 DEF Scanning, Keywords
  <2> QED BY <1>1, <1>3, <2>3, GotoStutters DEF Step
<1>4. CASE char_at(n) \in WordCharacters \ Digits /\ Goto("FALSE_KW", 0)
  <2>1. /\ pc' = "FALSE_KW" /\ result' = "ok" /\ token'.kind # "EOF"
        /\ current_char' = current_char /\ Text' = Text
    BY <1>1, <1>4, GotoScanning
  <2>2. \E i \in DOMAIN Text : Text[i] \notin Digits
    BY <1>1, <1>4, DigitsSoFar
  <2>3. Scanning'
    BY <1>1, <1>2, <2>1, <2>2 DEF Scanning, Keywords
  <2> QED BY <1>1, <1>4, <2>3, GotoStutters DEF Step, Keywords
<1>5. CASE char_at(n) \notin WordCharacters /\ Match("INT", pos, n, n)
  <2>1. "INT" \in Kinds /\ pos \in Nat /\ n \in Nat
    BY SourceFacts DEF Kinds
  <2>2. Scanning' /\ Lexing!Take("INT", pos, n, pos + n)
    BY <1>5, <2>1, MatchSteps
  <2>3. WordEnd = pos + n /\ \A i \in DOMAIN Text : Text[i] \in Digits
    BY <1>1, <1>5, DigitsSoFar
  <2>4. WordEnd - pos = n
    BY <2>1, <2>3
  <2>5. Lexing!Take("INT", pos, WordEnd - pos, WordEnd)
    BY <2>2, <2>3, <2>4
  <2> QED BY <1>1, <1>2, <2>2, <2>3, <2>5, LexerSteps DEF Step
<1> QED BY <1>3, <1>4, <1>5 DEF match_int

LEMMA match_stringSteps ==
  ASSUME SInv, Scanning, match_string
  PROVE  Scanning' /\ Step
<1>1. /\ pc = "match_string" /\ result = "ok" /\ token.kind # "EOF"
      /\ current_char \notin Spaces /\ current_char = "quote"
      /\ n >= 1 /\ \A i \in 1..(n - 1) : char_at(i) \notin {"quote", "NUL"}
  BY DEF match_string, Scanning
<1>2. CASE char_at(n) = "quote" /\ Match("STRING", pos + 1, n - 1, n + 1)
  <2>1. /\ FirstNotIn(source, pos + 1, Characters \ {"quote"}) = pos + n
        /\ CharacterAt(source, pos + n) = "quote"
        /\ n - 1 \in Nat /\ n - 1 = (pos + n) - pos - 1
    BY <1>1, <1>2, StringSoFar
  <2>2. /\ "STRING" \in Kinds /\ pos + 1 \in Nat /\ n + 1 \in Nat
        /\ pos + (n + 1) = (pos + n) + 1
    BY SourceFacts DEF Kinds
  <2>3. Scanning' /\ Lexing!Take("STRING", pos + 1, n - 1, pos + (n + 1))
    BY <1>2, <2>1, <2>2, MatchSteps
  <2>4. Lexing!Take("STRING", pos + 1, (pos + n) - pos - 1, (pos + n) + 1)
    BY <2>1, <2>2, <2>3
  <2> QED BY <1>1, <2>1, <2>3, <2>4, LexerSteps DEF Step
<1>3. CASE char_at(n) = "NUL" /\ SError("unterminated string")
  <2>1. /\ FirstNotIn(source, pos + 1, Characters \ {"quote"}) = pos + n
        /\ CharacterAt(source, pos + n) = "NUL"
    BY <1>1, <1>3, StringSoFar
  <2>2. Scanning' /\ Lexing!Reject("unterminated string")
    BY <1>1, <1>3, ErrorSteps
  <2> QED BY <1>1, <2>1, <2>2, LexerSteps DEF Step
<1>4. CASE char_at(n) \notin {"quote", "NUL"} /\ Goto("match_string", n + 1)
  <2>1. /\ pc' = "match_string" /\ n' = n + 1 /\ result' = "ok" /\ token'.kind # "EOF"
        /\ current_char' = current_char
        /\ \A i : char_at(i)' = char_at(i)
    BY <1>1, <1>4, GotoScanning
  <2>2. n' >= 1 /\ \A i \in 1..(n' - 1) : char_at(i)' \notin {"quote", "NUL"}
    BY <1>1, <1>4, <2>1, SourceFacts
  <2>3. Scanning'
    BY <1>1, <2>1, <2>2 DEF Scanning, Keywords
  <2> QED BY <1>1, <1>4, <2>3, GotoStutters DEF Step
<1> QED BY <1>2, <1>3, <1>4 DEF match_string

LEMMA match_keywordSteps ==
  ASSUME SInv, Scanning, NEW kind \in DOMAIN Keywords, NEW otherwise \in BOOLEAN,
         match_keyword(kind, otherwise)
  PROVE  \/ Scanning' /\ Step
         \/ otherwise /\ Text # Keywords[kind]
<1> PICK k : k = Common(Keywords[kind])
  OBVIOUS
<1>1. pc = kind /\ kind \in {"FALSE_KW", "TRUE_KW"}
  BY DEF match_keyword, Keywords
<1>2. pc \notin {"return", "next_chars", "skip_spaces"}
  BY <1>1
<1>3. /\ k = Len(Keywords[kind]) /\ char_at(k) \notin WordCharacters =>
           /\ Text = Keywords[kind] /\ WordEnd = pos + k
           /\ current_char \in WordCharacters
      /\ k < Len(Keywords[kind]) \/ char_at(k) \in WordCharacters =>
           Text # Keywords[kind]
  BY <1>2, KeywordIsWord
<1>4. \/ /\ k = Len(Keywords[kind]) /\ char_at(k) \notin WordCharacters
         /\ Match(kind, pos, k, k)
      \/ /\ k < Len(Keywords[kind]) \/ char_at(k) \in WordCharacters
         /\ otherwise
  BY DEF match_keyword
<1>5. ASSUME k = Len(Keywords[kind]), char_at(k) \notin WordCharacters,
             Match(kind, pos, k, k)
      PROVE  Scanning' /\ Step
  <2>1. kind \in Kinds /\ pos \in Nat /\ k \in Nat
    BY <1>1, CommonPrefix, KeywordsAreWords, SourceFacts DEF Kinds
  <2>2. Scanning' /\ Lexing!Take(kind, pos, k, pos + k)
    BY <1>5, <2>1, MatchSteps
  <2>3. Text = Keywords[kind] /\ WordEnd = pos + k /\ current_char \in WordCharacters
    BY <1>3, <1>5
  <2>4. WordEnd - pos = k
    BY <2>1, <2>3
  <2>5. Lexing!Take(kind, pos, WordEnd - pos, WordEnd)
    BY <2>2, <2>3, <2>4
  <2> QED BY <1>2, <2>2, <2>3, <2>5, LexerSteps DEF Step
<1> QED BY <1>3, <1>4, <1>5

LEMMA match_falseSteps ==
  ASSUME SInv, Scanning, match_false
  PROVE  Scanning' /\ Step
<1>1. /\ pc = "FALSE_KW" /\ pc \in DOMAIN Keywords /\ result = "ok"
      /\ token.kind # "EOF" /\ current_char \notin Spaces
  BY DEF match_false, match_keyword, Scanning, Keywords
<1>2. ASSUME Goto("TRUE_KW", 0), Text # Keywords["FALSE_KW"]
      PROVE  Scanning' /\ Step
  <2>1. /\ pc' = "TRUE_KW" /\ result' = "ok" /\ token'.kind # "EOF"
        /\ current_char' = current_char /\ Text' = Text
    BY <1>1, <1>2, GotoScanning
  <2>2. Scanning'
    BY <1>1, <1>2, <2>1 DEF Scanning
  <2> QED BY <1>1, <1>2, <2>2, GotoStutters DEF Step
<1>3. Goto("TRUE_KW", 0) \in BOOLEAN
  BY DEF Goto
<1> QED BY <1>1, <1>2, <1>3, match_keywordSteps DEF match_false

LEMMA match_trueSteps ==
  ASSUME SInv, Scanning, match_true
  PROVE  Scanning' /\ Step
<1>1. /\ pc = "TRUE_KW" /\ pc \in DOMAIN Keywords
      /\ current_char \notin Spaces \cup Marks \cup {"quote", "NUL"}
      /\ current_char \in WordCharacters => \E i \in DOMAIN Text : Text[i] \notin Digits
      /\ Text # Keywords["FALSE_KW"]
  BY DEF match_true, match_keyword, Scanning, Keywords
<1>2. ASSUME SError("unexpected character"), Text # Keywords["TRUE_KW"]
      PROVE  Scanning' /\ Step
  <2>1. Scanning' /\ Lexing!Reject("unexpected character")
    BY <1>1, <1>2, ErrorSteps
  <2>2. current_char \in WordCharacters \cup {"other"}
    <3>1. current_char \in Characters \cup {"NUL"}
      BY SourceFacts, CharactersOfSource DEF current_char, char_at
    <3> QED BY <1>1, <3>1 DEF Characters
  <2>3. \A kind \in DOMAIN Keywords : Text # Keywords[kind]
    <3>1. DOMAIN Keywords = {"FALSE_KW", "TRUE_KW"}
      BY DEF Keywords
    <3> QED BY <1>1, <1>2, <3>1
  <2> QED BY <1>1, <2>1, <2>2, <2>3, LexerSteps DEF Step
<1>3. SError("unexpected character") \in BOOLEAN
  BY DEF SError
<1> QED BY <1>1, <1>2, <1>3, match_keywordSteps DEF match_true

LEMMA next_charsSteps ==
  ASSUME SInv, next_chars
  PROVE  Scanning' /\ Step
<1>1. /\ pc = "next_chars" /\ pos' = pos + 1 /\ n' = n - 1
      /\ pc' = (IF n = 1 THEN "return" ELSE pc)
      /\ source' = source /\ token' = token /\ result' = result
  BY DEF next_chars, next_char
<1>2. Scanning'
  BY <1>1, NothingToKnow
<1>3. Ahead' = Ahead
  BY <1>1, SourceFacts DEF Ahead
<1> QED BY <1>1, <1>2, <1>3 DEF Step, Lexing!lvars

LEMMA StepsOfLexer ==
  SInv /\ Scanning /\ [SNext]_svars => Scanning' /\ [Lexing!LexNext]_(Lexing!lvars)
<1> SUFFICES ASSUME SInv, Scanning, [SNext]_svars PROVE Scanning' /\ Step
  BY DEF Step
<1>1. CASE scanner_next_token
  <2>1. /\ pc = "return" /\ result = "ok" /\ token.kind # "EOF"
        /\ Goto("skip_spaces", 0)
    BY <1>1 DEF scanner_next_token
  <2>2. Scanning'
    BY <2>1, GotoScanning DEF Scanning, Keywords
  <2> QED BY <2>1, <2>2, GotoStutters DEF Step
<1>2. CASE UNCHANGED svars
  <2>1. Scanning'
    BY <1>2 DEF svars, Scanning, Text, WordEnd, current_char, char_at
  <2>2. UNCHANGED Lexing!lvars
    BY <1>2 DEF svars, Lexing!lvars, Ahead
  <2> QED BY <2>1, <2>2 DEF Step
<1> QED
  BY <1>1, <1>2, skip_spacesSteps, match_charSteps, match_intSteps, match_stringSteps,
     match_falseSteps, match_trueSteps, next_charsSteps DEF SNext

(* Theorem: the tokens that the scanner finds character by character are   *)
(* those of Lexer: the longest words, whole strings, and an error where    *)
(* Lexer has one.                                                          *)
THEOREM ScannerImplementsLexer == SSpec => LexesTokens
<1>1. SInit => Scanning /\ Lexing!LexInit
  BY ScanningInit
<1>2. SInv /\ Scanning /\ [SNext]_svars => Scanning' /\ [Lexing!LexNext]_(Lexing!lvars)
  BY StepsOfLexer
<1> QED BY <1>1, <1>2, ScannerInvariant, PTL DEF SSpec, LexesTokens, Lexing!LexSpec
=============================================================================
