---------------------------- MODULE ArraysProofs ----------------------------
(***************************************************************************)
(* Proofs about the growing arrays, for every minimal capacity that is not *)
(* too small and every limit.                                              *)
(***************************************************************************)
EXTENDS Arrays, SequenceTheorems, TLAPS

(* Appending one element to a sequence.                                    *)
LEMMA Appending ==
  ASSUME NEW S, NEW s \in Seq(S), NEW x \in S
  PROVE  /\ Append(s, x) \in Seq(S)
         /\ Len(Append(s, x)) = Len(s) + 1
         /\ \A i \in 1..Len(s) : Append(s, x)[i] = s[i]
         /\ Append(s, x)[Len(s) + 1] = x
  BY AppendProperties

(* Moving a block keeps what is inside it.                                 *)
LEMMA MovedKeeps ==
  ASSUME NEW s \in Seq(Elements), NEW c \in Nat, NEW t \in Moved(s, c)
  PROVE  /\ t \in Seq(Elements)
         /\ Len(t) = Len(s)
         /\ \A i \in 1..Len(s) : t[i] = s[i] \/ (i > c /\ t[i] = "lost")
<1>1. PICK gone \in SUBSET ((c + 1)..Len(s)) :
        t = [i \in DOMAIN s |-> IF i \in gone THEN "lost" ELSE s[i]]
  BY DEF Moved
<1>2. Len(s) \in Nat /\ DOMAIN s = 1..Len(s)
  OBVIOUS
<1>3. \A i \in 1..Len(s) : s[i] \in Elements /\ "lost" \in Elements
  BY DEF Elements
<1>4. t \in [1..Len(s) -> Elements]
  BY <1>1, <1>2, <1>3
<1>5. t \in Seq(Elements) /\ Len(t) = Len(s)
  BY <1>2, <1>4
<1>6. ASSUME NEW i \in 1..Len(s)
      PROVE  t[i] = s[i] \/ (i > c /\ t[i] = "lost")
  BY <1>1, <1>2, <1>6
<1> QED
  BY <1>5, <1>6

(* A block of k that is full is doubled, when that is enough.              *)
LEMMA DoubledOnce ==
  ASSUME NEW c \in Nat, NEW needed \in Nat, needed <= 2 * c
  PROVE  Doubled(c, needed) = 2 * c
  BY DEF Doubled

-----------------------------------------------------------------------------
(* An array other than the code.                                           *)

(* What is asked of the array a with elements s and capacity c.            *)
GoodArray(a, s, c) ==
  /\ s \in Seq(Elements)
  /\ c \in Nat /\ c >= ARRAY_MIN_CAPACITY
  /\ Len(s) <= c
  /\ \A i \in 1..Len(s) : s[i] = "element"
  /\ c <= ARRAY_MIN_CAPACITY \/ c <= 2 * Len(s)
  /\ a \in {"constants", "nonlocals"} => Len(s) <= UINT8_MAX + 1

LEMMA ArrayIsGood ==
  ASSUME AInv, at = "opcode", NEW a \in Checked
  PROVE  GoodArray(a, elements[a], capacity[a])
  BY DEF AInv, ATypeOK, Made, ArraysInside, ElementsKept, NoWaste, PlacesFit,
         GoodArray, Checked, Arrays, count

(* The invariant is kept when a good array is stored in place of another.  *)
LEMMA StoredKeeps ==
  ASSUME AInv, CapacityAssumption, at = "opcode", NEW a \in Checked, NEW s, NEW c,
         GoodArray(a, s, c), Stored(a, s, c),
         result' \in {"ok", "out of memory", "too many constants",
                      "too many non-locals"},
         result = "ok"
  PROVE  AInv'
<1>1. /\ elements' = [elements EXCEPT ![a] = s]
      /\ capacity' = [capacity EXCEPT ![a] = c]
      /\ at' = at
  BY DEF Stored
<1>2. /\ elements \in [Arrays -> Seq(Elements)] /\ capacity \in [Arrays -> Nat]
      /\ a \in Arrays /\ a # "code" /\ "code" \in Arrays
  BY DEF AInv, ATypeOK, Checked, Arrays
<1>3. /\ elements'[a] = s /\ capacity'[a] = c
      /\ \A b \in Arrays : b # a => /\ elements'[b] = elements[b]
                                     /\ capacity'[b] = capacity[b]
  BY <1>1, <1>2
<1>4. ATypeOK'
  BY <1>1, <1>2 DEF AInv, ATypeOK, GoodArray
<1>5. Made'
  BY <1>1, <1>2, <1>3 DEF AInv, Made, GoodArray, Arrays, Checked
<1>6. OpcodeInside'
  BY <1>1 DEF OpcodeInside
<1>7. ArraysInside'
  BY <1>2, <1>3 DEF AInv, ArraysInside, GoodArray, Checked, Arrays, count
<1>8. ChunkOverrun'
  BY <1>1, <1>2, <1>3 DEF AInv, ChunkOverrun, count
<1>9. ElementsKept'
  <2>1. elements'["code"] = elements["code"]
    BY <1>2, <1>3
  <2>2. \A i \in 1..Len(elements["code"])' :
          elements'["code"][i] \in {"high", "lost"} =>
            i > 1 /\ elements'["code"][i - 1] = "low"
    BY <2>1 DEF AInv, ElementsKept, count
  <2>3. ASSUME NEW b \in Checked, NEW i \in 1..Len(elements'[b])
        PROVE  elements'[b][i] = "element"
    <3>1. CASE b = a
      BY <3>1, <1>3, <2>3 DEF GoodArray
    <3>2. CASE b # a
      <4>1. elements'[b] = elements[b]
        BY <3>2, <1>3 DEF Checked, Arrays
      <4>2. \A j \in 1..Len(elements[b]) : elements[b][j] = "element"
        BY DEF AInv, ElementsKept, count
      <4> QED
        BY <4>1, <4>2
    <3> QED
      BY <3>1, <3>2
  <2> QED
    BY <2>2, <2>3 DEF ElementsKept, count
<1>10. NoWaste'
  BY <1>2, <1>3 DEF AInv, NoWaste, GoodArray, Checked, Arrays, count
<1>11. PlacesFit'
  BY <1>2, <1>3 DEF AInv, PlacesFit, GoodArray, Checked, Arrays, count
<1> QED
  BY <1>4, <1>5, <1>6, <1>7, <1>8, <1>9, <1>10, <1>11 DEF AInv

(* What Grown returns is as good as what was there, and has room.          *)
LEMMA GrownIsGood ==
  ASSUME AInv, CapacityAssumption, at = "opcode", NEW a \in Checked,
         NEW b \in Grown(a)
  PROVE  /\ GoodArray(a, b[1], b[2])
         /\ Len(b[1]) = count(a)
         /\ Len(b[1]) < b[2]
         /\ b[2] <= ARRAY_MIN_CAPACITY \/ b[2] <= 2 * Len(b[1])
<1>1. GoodArray(a, elements[a], capacity[a])
  BY ArrayIsGood
<1>2. ARRAY_MIN_CAPACITY \in Nat /\ ARRAY_MIN_CAPACITY >= 1
  BY DEF CapacityAssumption
<1>3. Len(elements[a]) \in Nat /\ capacity[a] \in Nat /\ elements[a] \in Seq(Elements)
  BY <1>1 DEF GoodArray
<1>4. CASE ~Full(a)
  <2>1. b = <<elements[a], capacity[a]>>
    BY <1>4 DEF Grown
  <2> QED
    BY <1>1, <1>3, <1>4, <2>1 DEF GoodArray, Full, count
<1>5. CASE Full(a)
  <2>1. PICK t \in Moved(elements[a], capacity[a]) : b = <<t, 2 * capacity[a]>>
    BY <1>5 DEF Grown
  <2>2. /\ t \in Seq(Elements) /\ Len(t) = Len(elements[a])
        /\ \A i \in 1..Len(elements[a]) :
             t[i] = elements[a][i] \/ (i > capacity[a] /\ t[i] = "lost")
    BY <1>3, MovedKeeps
  <2>3. Len(elements[a]) = capacity[a] /\ capacity[a] >= 1
    BY <1>1, <1>2, <1>3, <1>5 DEF GoodArray, Full, count
  <2>4. \A i \in 1..Len(t) : t[i] = "element"
    BY <1>1, <1>3, <2>2, <2>3 DEF GoodArray
  <2>5. /\ 2 * capacity[a] \in Nat /\ 2 * capacity[a] >= ARRAY_MIN_CAPACITY
        /\ Len(t) < 2 * capacity[a] /\ 2 * capacity[a] <= 2 * Len(t)
    BY <1>1, <1>2, <1>3, <2>2, <2>3 DEF GoodArray
  <2>6. a \in {"constants", "nonlocals"} => Len(t) <= UINT8_MAX + 1
    BY <1>1, <2>2 DEF GoodArray
  <2> QED
    BY <2>1, <2>2, <2>4, <2>5, <2>6 DEF GoodArray, count
<1> QED
  BY <1>4, <1>5

(* A step that adds an element where the limit allows one.                 *)
LEMMA AddKeeps ==
  ASSUME AInv, CapacityAssumption, at = "opcode", result = "ok",
         NEW a \in Checked, Add(a),
         a \in {"constants", "nonlocals"} => count(a) <= UINT8_MAX
  PROVE  AInv'
<1>1. PICK b \in Grown(a) : Stored(a, Append(b[1], "element"), b[2])
  BY DEF Add
<1>2. PICK s, c : s = b[1] /\ c = b[2]
  OBVIOUS
<1>3. /\ GoodArray(a, s, c) /\ Len(s) = count(a) /\ Len(s) < c
      /\ c <= ARRAY_MIN_CAPACITY \/ c <= 2 * Len(s)
  BY <1>2, GrownIsGood
<1>4. s \in Seq(Elements) /\ "element" \in Elements /\ c \in Nat /\ Len(s) \in Nat
  BY <1>3 DEF GoodArray, Elements
<1>5. /\ Append(s, "element") \in Seq(Elements)
      /\ Len(Append(s, "element")) = Len(s) + 1
      /\ \A i \in 1..Len(s) : Append(s, "element")[i] = s[i]
      /\ Append(s, "element")[Len(s) + 1] = "element"
  BY <1>4, Appending
<1>6. \A i \in 1..Len(Append(s, "element")) : Append(s, "element")[i] = "element"
  BY <1>3, <1>4, <1>5 DEF GoodArray
<1>7. a \in {"constants", "nonlocals"} => Len(s) + 1 <= UINT8_MAX + 1
  BY <1>3, <1>4 DEF CapacityAssumption
<1>8. GoodArray(a, Append(s, "element"), c)
  BY <1>3, <1>4, <1>5, <1>6, <1>7 DEF GoodArray
<1> QED
  BY <1>1, <1>2, <1>8, StoredKeeps DEF Add

(* An error leaves everything as it is.                                    *)
LEMMA AFailKeeps ==
  ASSUME AInv, NEW e, AFail(e),
         e \in {"out of memory", "too many constants", "too many non-locals"}
  PROVE  AInv'
<1>1. /\ elements' = elements /\ capacity' = capacity /\ at' = at /\ result' = e
  BY DEF AFail
<1>2. \A a : count(a)' = count(a)
  BY <1>1 DEF count
<1> QED
  BY <1>1, <1>2 DEF AInv, ATypeOK, Made, OpcodeInside, ArraysInside, ChunkOverrun,
     ElementsKept, NoWaste, PlacesFit, count

-----------------------------------------------------------------------------
(* The code.                                                               *)

(* What is asked of code s in a block of c, when what follows is next.     *)
GoodCode(s, c, next, r) ==
  /\ s \in Seq(Elements)
  /\ c \in Nat /\ c >= CHUNK_MIN_CAPACITY
  /\ r = "ok" => \/ Len(s) <= c
                 \/ Len(s) = c + 1 /\ next = "opcode" /\ s[Len(s)] = "high"
  /\ Len(s) <= c + 2
  /\ \A i \in 1..Len(s) : s[i] \in {"high", "lost"} => i > 1 /\ s[i - 1] = "low"
  /\ c <= CHUNK_MIN_CAPACITY \/ c <= 2 * Len(s)

Emitted == {"opcode", "byte", "word"}

LEMMA CodeIsGood ==
  ASSUME AInv, at \in Emitted
  PROVE  /\ GoodCode(elements["code"], capacity["code"], at, result)
         /\ result = "ok" /\ at # "opcode" => count("code") <= capacity["code"]
  BY DEF AInv, ATypeOK, Made, OpcodeInside, ChunkOverrun, ElementsKept, NoWaste,
         GoodCode, Emitted, Arrays, count

(* The invariant is kept when good code is written.                        *)
LEMMA WrittenKeeps ==
  ASSUME AInv, CapacityAssumption, at \in Emitted, NEW s, NEW bytes, NEW c,
         NEW next \in Emitted, Written(s, bytes, c, next),
         GoodCode(s \o bytes, c, next, result'),
         result' \in {"ok", "out of memory"}
  PROVE  AInv'
<1>1. /\ elements' = [elements EXCEPT !["code"] = s \o bytes]
      /\ capacity' = [capacity EXCEPT !["code"] = c]
      /\ at' = next
  BY DEF Written
<1>2. /\ elements \in [Arrays -> Seq(Elements)] /\ capacity \in [Arrays -> Nat]
      /\ "code" \in Arrays /\ \A a \in Checked : a \in Arrays /\ a # "code"
  BY DEF AInv, ATypeOK, Checked, Arrays
<1>3. PICK t : t = s \o bytes
  OBVIOUS
<1>4. /\ elements'["code"] = t /\ capacity'["code"] = c
      /\ \A b \in Checked : /\ elements'[b] = elements[b]
                             /\ capacity'[b] = capacity[b]
  BY <1>1, <1>2, <1>3
<1>5. GoodCode(t, c, next, result') /\ t \in Seq(Elements) /\ c \in Nat
  BY <1>3 DEF GoodCode
<1>6. ATypeOK'
  BY <1>1, <1>2, <1>3, <1>5 DEF AInv, ATypeOK, Emitted
<1>7. Made'
  BY <1>1, <1>4, <1>5 DEF AInv, Made, GoodCode, Checked, Emitted
<1>8. ArraysInside'
  BY <1>4 DEF AInv, ArraysInside, count
<1>9. ChunkOverrun' /\ OpcodeInside'
  BY <1>1, <1>4, <1>5 DEF GoodCode, ChunkOverrun, OpcodeInside, count
<1>10. ElementsKept'
  <2>1. \A i \in 1..Len(elements'["code"]) :
          elements'["code"][i] \in {"high", "lost"} =>
            i > 1 /\ elements'["code"][i - 1] = "low"
    BY <1>4, <1>5 DEF GoodCode
  <2>2. \A b \in Checked : \A i \in 1..Len(elements'[b]) : elements'[b][i] = "element"
    BY <1>4 DEF AInv, ElementsKept, count
  <2> QED
    BY <2>1, <2>2 DEF ElementsKept, count
<1>11. NoWaste'
  BY <1>4, <1>5 DEF AInv, NoWaste, GoodCode, count
<1>12. PlacesFit'
  BY <1>4 DEF AInv, PlacesFit, Checked, count
<1> QED
  BY <1>6, <1>7, <1>8, <1>9, <1>10, <1>11, <1>12 DEF AInv

(* One byte, or the two of a word.                                         *)
Writes == {<<"opcode">>, <<"operand">>, <<"low", "high">>}

(* Good code t with more written behind it.                                *)
LEMMA Concatenated ==
  ASSUME NEW t \in Seq(Elements), NEW bytes \in Writes,
         \A i \in 1..Len(t) : t[i] \in {"high", "lost"} => i > 1 /\ t[i - 1] = "low"
  PROVE  /\ t \o bytes \in Seq(Elements)
         /\ Len(t \o bytes) = Len(t) + Len(bytes)
         /\ Len(bytes) \in 1..2
         /\ Len(bytes) = 2 => (t \o bytes)[Len(t) + 2] = "high"
         /\ \A i \in 1..Len(t \o bytes) :
              (t \o bytes)[i] \in {"high", "lost"} =>
                 i > 1 /\ (t \o bytes)[i - 1] = "low"
<1>1. PICK u : u = t \o bytes
  OBVIOUS
<1>2. bytes \in Seq(Elements) /\ Len(bytes) \in 1..2
  <2>1. /\ "opcode" \in Elements /\ "operand" \in Elements
        /\ "low" \in Elements /\ "high" \in Elements
    BY DEF Elements
  <2>2. CASE bytes = <<"opcode">>
    BY <2>1, <2>2
  <2>3. CASE bytes = <<"operand">>
    BY <2>1, <2>3
  <2>4. CASE bytes = <<"low", "high">>
    BY <2>1, <2>4
  <2> QED
    BY <2>2, <2>3, <2>4 DEF Writes
<1>3. /\ u \in Seq(Elements) /\ Len(u) = Len(t) + Len(bytes)
      /\ \A i \in 1..Len(u) : u[i] = IF i <= Len(t) THEN t[i] ELSE bytes[i - Len(t)]
  BY <1>1, <1>2, ConcatProperties
<1>4. Len(t) \in Nat
  OBVIOUS
<1>5. CASE Len(bytes) = 1
  <2>1. bytes[1] \notin {"high", "lost"}
    BY <1>5 DEF Writes
  <2>2. Len(u) = Len(t) + 1 /\ u[Len(t) + 1] = bytes[1]
    BY <1>3, <1>4, <1>5
  <2>3. \A i \in 1..Len(t) : u[i] = t[i]
    BY <1>3, <1>4, <1>5
  <2>4. ASSUME NEW i \in 1..Len(u), u[i] \in {"high", "lost"}
        PROVE  i > 1 /\ u[i - 1] = "low"
    <3>1. i \in 1..Len(t)
      BY <2>1, <2>2, <2>4, <1>4
    <3>2. i > 1 /\ t[i - 1] = "low"
      BY <3>1, <2>3, <2>4
    <3> QED
      BY <3>1, <3>2, <2>3, <1>4
  <2> QED
    BY <1>1, <1>2, <1>3, <1>5, <2>4
<1>6. CASE Len(bytes) = 2
  <2>1. bytes[1] = "low" /\ bytes[2] = "high"
    <3>1. bytes # <<"opcode">> /\ bytes # <<"operand">>
      BY <1>6
    <3>2. bytes = <<"low", "high">>
      BY <3>1 DEF Writes
    <3> QED
      BY <3>2
  <2>2. Len(u) = Len(t) + 2 /\ u[Len(t) + 1] = "low" /\ u[Len(t) + 2] = "high"
    BY <1>3, <1>4, <1>6, <2>1
  <2>3. \A i \in 1..Len(t) : u[i] = t[i]
    BY <1>3, <1>4, <1>6
  <2>4. ASSUME NEW i \in 1..Len(u), u[i] \in {"high", "lost"}
        PROVE  i > 1 /\ u[i - 1] = "low"
    <3>1. CASE i \in 1..Len(t)
      <4>1. i > 1 /\ t[i - 1] = "low"
        BY <3>1, <2>3, <2>4
      <4> QED
        BY <4>1, <3>1, <2>3, <1>4
    <3>2. CASE i = Len(t) + 1
      BY <3>2, <2>2, <2>4
    <3>3. CASE i = Len(t) + 2
      BY <3>3, <2>2, <1>4
    <3> QED
      BY <3>1, <3>2, <3>3, <2>2, <1>4
  <2> QED
    BY <1>1, <1>2, <1>3, <1>6, <2>2, <2>4
<1>7. Len(bytes) = 1 \/ Len(bytes) = 2
  BY <1>2
<1> QED
  BY <1>5, <1>6, <1>7

(* Good code with room for what is written in it stays good.               *)
LEMMA EmissionIsGood ==
  ASSUME CapacityAssumption, NEW t \in Seq(Elements), NEW bytes \in Writes,
         NEW c \in Nat, c >= CHUNK_MIN_CAPACITY, NEW next \in Emitted, NEW r,
         \A i \in 1..Len(t) : t[i] \in {"high", "lost"} => i > 1 /\ t[i - 1] = "low",
         Len(bytes) = 2 => next = "opcode",
         r = "ok" => Len(t) + 1 <= c,
         Len(t) + Len(bytes) <= c + 2,
         c <= CHUNK_MIN_CAPACITY \/ c <= 2 * (Len(t) + Len(bytes))
  PROVE  GoodCode(t \o bytes, c, next, r)
<1>1. PICK u : u = t \o bytes
  OBVIOUS
<1>2. /\ u \in Seq(Elements) /\ Len(u) = Len(t) + Len(bytes) /\ Len(bytes) \in 1..2
      /\ Len(bytes) = 2 => u[Len(t) + 2] = "high"
      /\ \A i \in 1..Len(u) : u[i] \in {"high", "lost"} => i > 1 /\ u[i - 1] = "low"
  BY <1>1, Concatenated
<1>3. Len(t) \in Nat
  OBVIOUS
<1>4. r = "ok" => \/ Len(u) <= c
                  \/ Len(u) = c + 1 /\ next = "opcode" /\ u[Len(u)] = "high"
  <2>1. CASE Len(bytes) = 1
    BY <2>1, <1>2, <1>3
  <2>2. CASE Len(bytes) = 2
    <3>1. Len(u) = Len(t) + 2 /\ u[Len(u)] = "high" /\ next = "opcode"
      BY <2>2, <1>2
    <3> QED
      BY <3>1, <1>3
  <2>3. Len(bytes) = 1 \/ Len(bytes) = 2
    BY <1>2
  <2> QED
    BY <2>1, <2>2, <2>3
<1>5. GoodCode(u, c, next, r)
  BY <1>2, <1>3, <1>4 DEF GoodCode
<1> QED
  BY <1>1, <1>5

(* Emission, when the request is for one byte more.                        *)
LEMMA EmitKeeps ==
  ASSUME AInv, CapacityAssumption, at \in Emitted, result = "ok",
         NEW bytes \in Writes, NEW next \in Emitted,
         Emit(bytes, count("code") + 1, next),
         Len(bytes) = 2 => next = "opcode" /\ at # "opcode"
  PROVE  AInv'
<1>1. PICK s, c : s = elements["code"] /\ c = capacity["code"]
  OBVIOUS
<1>2. /\ GoodCode(s, c, at, result) /\ s \in Seq(Elements) /\ c \in Nat
      /\ Len(s) \in Nat /\ c >= CHUNK_MIN_CAPACITY
      /\ at # "opcode" => Len(s) <= c
  BY <1>1, CodeIsGood DEF GoodCode, count
<1>3. Len(s) <= c + 1
  BY <1>2 DEF GoodCode
<1>4. Len(bytes) \in 1..2
  BY <1>2, Concatenated DEF GoodCode
<1>5. Len(s) + Len(bytes) <= c + 2
  <2>1. CASE Len(bytes) = 1
    BY <2>1, <1>2, <1>3
  <2>2. CASE Len(bytes) = 2
    <3>1. Len(s) <= c
      BY <2>2, <1>2
    <3> QED
      BY <2>2, <3>1, <1>2
  <2>3. Len(bytes) = 1 \/ Len(bytes) = 2
    BY <1>4
  <2> QED
    BY <2>1, <2>2, <2>3
<1>6. CHUNK_MIN_CAPACITY \in Nat /\ CHUNK_MIN_CAPACITY >= 2
  BY DEF CapacityAssumption
<1>7. \A i \in 1..Len(s) : s[i] \in {"high", "lost"} => i > 1 /\ s[i - 1] = "low"
  BY <1>2 DEF GoodCode
<1>8. c <= CHUNK_MIN_CAPACITY \/ c <= 2 * Len(s)
  BY <1>2 DEF GoodCode
<1>9. c <= CHUNK_MIN_CAPACITY \/ c <= 2 * (Len(s) + Len(bytes))
  BY <1>2, <1>4, <1>8
<1>10. CASE Len(s) + 1 <= c /\ Written(s, bytes, c, next) /\ result' = result
  <2>1. GoodCode(s \o bytes, c, next, "ok")
    BY <1>2, <1>5, <1>7, <1>9, <1>10, EmissionIsGood
  <2> QED
    BY <1>10, <2>1, WrittenKeeps
<1>11. CASE /\ Len(s) + 1 > c /\ result' = result
            /\ \E t \in Moved(s, c) : Written(t, bytes, Doubled(c, Len(s) + 1), next)
  <2>1. PICK t \in Moved(s, c) : Written(t, bytes, Doubled(c, Len(s) + 1), next)
    BY <1>11
  <2>2. /\ t \in Seq(Elements) /\ Len(t) = Len(s)
        /\ \A i \in 1..Len(s) : t[i] = s[i] \/ (i > c /\ t[i] = "lost")
    BY <1>2, MovedKeeps
  <2>3. Len(s) + 1 <= 2 * c
    BY <1>2, <1>3, <1>6
  <2>4. Doubled(c, Len(s) + 1) = 2 * c
    BY <1>2, <2>3, DoubledOnce
  <2>5. ASSUME NEW i \in 1..Len(t), t[i] \in {"high", "lost"}
        PROVE  i > 1 /\ t[i - 1] = "low"
    <3>1. s[i] \in {"high", "lost"}
      <4>1. CASE t[i] = s[i]
        BY <4>1, <2>5
      <4>2. CASE i > c
        <5>1. i = Len(s) /\ Len(s) = c + 1
          BY <4>2, <2>2, <1>2, <1>3
        <5> QED
          BY <5>1, <1>2 DEF GoodCode
      <4> QED
        BY <4>1, <4>2, <2>2
    <3>2. i > 1 /\ s[i - 1] = "low" /\ i \in 1..Len(s)
      BY <3>1, <1>7, <2>2
    <3>3. i - 1 \in 1..Len(s) /\ i - 1 <= c
      BY <3>2, <1>2, <1>3
    <3> QED
      BY <3>2, <3>3, <2>2, <1>2
  <2>6. /\ 2 * c \in Nat /\ 2 * c >= CHUNK_MIN_CAPACITY
        /\ Len(t) + Len(bytes) <= 2 * c + 2
        /\ 2 * c <= 2 * (Len(t) + Len(bytes))
    BY <1>2, <1>3, <1>4, <1>5, <1>6, <1>11, <2>2
  <2>7. Len(t) + 1 <= 2 * c
    BY <2>2, <2>3
  <2>8. GoodCode(t \o bytes, 2 * c, next, "ok")
    BY <2>2, <2>5, <2>6, <2>7, EmissionIsGood
  <2> QED
    BY <1>11, <2>1, <2>4, <2>8, WrittenKeeps
<1>12. CASE /\ Written(s, bytes, c, next) /\ result' = "out of memory"
  <2>1. GoodCode(s \o bytes, c, next, "out of memory")
    BY <1>2, <1>5, <1>7, <1>9, EmissionIsGood
  <2> QED
    BY <1>12, <2>1, WrittenKeeps
<1> QED
  BY <1>1, <1>10, <1>11, <1>12 DEF Emit, count

-----------------------------------------------------------------------------
(* One of the four arrays is made.                                         *)
LEMMA InitialiseKeeps ==
  ASSUME AInv, CapacityAssumption, NEW a \in Arrays, NEW minimum, NEW next,
         initialise(a, minimum, next),
         \/ a = "code" /\ minimum = CHUNK_MIN_CAPACITY /\ next = "constants"
         \/ a = "constants" /\ minimum = ARRAY_MIN_CAPACITY /\ next = "nonlocals"
         \/ a = "nonlocals" /\ minimum = ARRAY_MIN_CAPACITY /\ next = "functions"
         \/ a = "functions" /\ minimum = ARRAY_MIN_CAPACITY /\ next = "opcode"
  PROVE  AInv'
<1>1. CASE AOutOfMemory
  BY <1>1, AFailKeeps DEF AOutOfMemory
<1>2. CASE /\ capacity' = [capacity EXCEPT ![a] = minimum]
           /\ at' = next
           /\ UNCHANGED <<elements, result>>
  <2>1. /\ capacity \in [Arrays -> Nat] /\ elements \in [Arrays -> Seq(Elements)]
        /\ at = a /\ minimum \in Nat
        /\ CHUNK_MIN_CAPACITY \in Nat /\ ARRAY_MIN_CAPACITY \in Nat
    BY DEF AInv, ATypeOK, initialise, CapacityAssumption
  <2>2. /\ \A b \in Arrays : b # a => capacity'[b] = capacity[b]
        /\ capacity'[a] = minimum
    BY <1>2, <2>1
  <2>3. \A b \in Arrays : elements[b] = <<>>
    BY <2>1 DEF AInv, Made, Arrays, Checked
  <2>4. \A b \in Arrays : count(b)' = 0 /\ elements'[b] = <<>>
    BY <1>2, <2>3 DEF count
  <2>5. ATypeOK'
    BY <1>2, <2>1 DEF AInv, ATypeOK, Arrays, Checked
  <2>6. Made'
    BY <1>2, <2>1, <2>2, <2>4 DEF AInv, Made, Arrays, Checked
  <2>7. \A b \in Arrays : capacity'[b] \in Nat
    BY <2>5 DEF ATypeOK
  <2>8. ArraysInside' /\ ChunkOverrun' /\ OpcodeInside'
    BY <2>4, <2>7 DEF ArraysInside, ChunkOverrun, OpcodeInside, Arrays, Checked
  <2>9. ElementsKept' /\ PlacesFit'
    BY <2>4 DEF ElementsKept, PlacesFit, Arrays, Checked, CapacityAssumption
  <2>10. NoWaste'
    <3>1. /\ capacity["code"] <= CHUNK_MIN_CAPACITY
          /\ \A b \in Checked : capacity[b] <= ARRAY_MIN_CAPACITY
      <4>1. /\ \A b \in Arrays : count(b) = 0 /\ capacity[b] \in Nat
            /\ "code" \in Arrays /\ \A b \in Checked : b \in Arrays
        BY <2>1, <2>3 DEF count, Arrays
      <4>2. /\ capacity["code"] <= CHUNK_MIN_CAPACITY \/ capacity["code"] <= 0
            /\ \A b \in Checked :
                 capacity[b] <= ARRAY_MIN_CAPACITY \/ capacity[b] <= 0
        BY <4>1 DEF AInv, NoWaste
      <4> QED
        BY <4>1, <4>2, <2>1
    <3>2. /\ capacity'["code"] <= CHUNK_MIN_CAPACITY
          /\ \A b \in Checked : capacity'[b] <= ARRAY_MIN_CAPACITY
      BY <3>1, <2>1, <2>2 DEF Arrays, Checked
    <3> QED
      BY <3>2 DEF NoWaste
  <2> QED
    BY <2>5, <2>6, <2>8, <2>9, <2>10 DEF AInv
<1> QED
  BY <1>1, <1>2 DEF initialise

-----------------------------------------------------------------------------
(* The theorems.                                                           *)

LEMMA InitiallyGood ==
  ASSUME CapacityAssumption, AInit
  PROVE  AInv
<1>1. \A a \in Arrays : count(a) = 0 /\ elements[a] = <<>> /\ capacity[a] = 0
  BY DEF AInit, count
<1>2. ATypeOK
  BY DEF AInit, ATypeOK
<1>3. Made
  BY <1>1 DEF AInit, Made
<1>4. ArraysInside /\ ChunkOverrun /\ OpcodeInside
  BY <1>1 DEF ArraysInside, ChunkOverrun, OpcodeInside, Arrays
<1>5. ElementsKept /\ NoWaste /\ PlacesFit
  BY <1>1 DEF ElementsKept, NoWaste, PlacesFit, Arrays, Checked, CapacityAssumption
<1> QED
  BY <1>2, <1>3, <1>4, <1>5 DEF AInv

LEMMA StepKeeps ==
  ASSUME CapacityAssumption, AInv, [ANext]_avars
  PROVE  AInv'
<1>1. CASE function_new
  <2>1. CASE AOutOfMemory
    BY <2>1, AFailKeeps DEF AOutOfMemory
  <2>2. CASE at = "function_new" /\ at' = "code" /\ UNCHANGED <<capacity, elements, result>>
    <3>1. \A a : count(a)' = count(a)
      BY <2>2 DEF count
    <3> QED
      BY <2>2, <3>1 DEF AInv, ATypeOK, Made, OpcodeInside, ArraysInside, ChunkOverrun,
         ElementsKept, NoWaste, PlacesFit, count, Arrays, Checked
  <2> QED
    BY <1>1, <2>1, <2>2 DEF function_new
<1>2. CASE chunk_init \/ array_init \/ nonlocal_array_init \/ function_array_init
  BY <1>2, InitialiseKeeps DEF chunk_init, array_init, nonlocal_array_init,
     function_array_init, Arrays, Checked
<1>3. CASE emit_opcode
  <2>1. /\ at \in Emitted /\ result = "ok"
        /\ \E next \in Emitted : Emit(<<"opcode">>, count("code") + 1, next)
    BY <1>3 DEF emit_opcode, Emitting, chunk_emit_byte, Emitted
  <2>2. <<"opcode">> \in Writes /\ Len(<<"opcode">>) # 2
    BY DEF Writes
  <2> QED
    BY <2>1, <2>2, EmitKeeps
<1>4. CASE emit_byte
  <2>1. /\ at \in Emitted /\ result = "ok" /\ "opcode" \in Emitted
        /\ Emit(<<"operand">>, count("code") + 1, "opcode")
    BY <1>4 DEF emit_byte, Emitting, chunk_emit_byte, Emitted
  <2>2. <<"operand">> \in Writes /\ Len(<<"operand">>) # 2
    BY DEF Writes
  <2> QED
    BY <2>1, <2>2, EmitKeeps
<1>5. CASE emit_word
  <2>1. /\ at \in Emitted /\ result = "ok" /\ "opcode" \in Emitted /\ at # "opcode"
        /\ Emit(<<"low", "high">>, count("code") + 1, "opcode")
    BY <1>5 DEF emit_word, Emitting, chunk_emit_word, Emitted
  <2>2. <<"low", "high">> \in Writes
    BY DEF Writes
  <2> QED
    BY <2>1, <2>2, EmitKeeps
<1>6. CASE add_constant
  BY <1>6, AddKeeps, AFailKeeps DEF add_constant, Adding, array_add, AOutOfMemory, Checked
<1>7. CASE function_add_nonlocal
  <2>1. at = "opcode" /\ result = "ok" /\ "nonlocals" \in Checked
    BY <1>7 DEF function_add_nonlocal, Nonlocal, Adding, Checked
  <2>2. CASE AOutOfMemory
    BY <2>2, AFailKeeps DEF AOutOfMemory
  <2>3. CASE count("nonlocals") <= UINT8_MAX /\ Add("nonlocals")
    BY <2>1, <2>3, AddKeeps
  <2>4. CASE /\ \E b \in Grown("nonlocals") : Stored("nonlocals", b[1], b[2])
             /\ result' = "too many non-locals"
    <3>1. PICK b \in Grown("nonlocals") : Stored("nonlocals", b[1], b[2])
      BY <2>4
    <3>2. GoodArray("nonlocals", b[1], b[2])
      BY <2>1, GrownIsGood
    <3> QED
      BY <2>1, <2>4, <3>1, <3>2, StoredKeeps
  <2> QED
    BY <1>7, <2>2, <2>3, <2>4 DEF function_add_nonlocal, Nonlocal
<1>8. CASE function_add_child
  BY <1>8, AddKeeps, AFailKeeps DEF function_add_child, Adding, array_add, AOutOfMemory, Checked
<1>9. CASE UNCHANGED avars
  <2>1. \A a : count(a)' = count(a)
    BY <1>9 DEF count, avars
  <2> QED
    BY <1>9, <2>1 DEF avars, AInv, ATypeOK, Made, OpcodeInside, ArraysInside,
       ChunkOverrun, ElementsKept, NoWaste, PlacesFit, count
<1> QED
  BY <1>1, <1>2, <1>3, <1>4, <1>5, <1>6, <1>7, <1>8, <1>9 DEF ANext

(* The inductive invariant of the growing arrays.                          *)
THEOREM ArraysInvariant == ASpec => []AInv
<1>1. AInit => AInv
  BY CapacityAssumption, InitiallyGood
<1>2. AInv /\ [ANext]_avars => AInv'
  BY CapacityAssumption, StepKeeps
<1> QED
  BY <1>1, <1>2, PTL DEF ASpec

(* Nothing is stored outside an array of constants, nonlocals or functions. *)
THEOREM ArraysStayInside == ASpec => []ArraysInside
<1>1. AInv => ArraysInside
  BY DEF AInv
<1> QED
  BY <1>1, ArraysInvariant, PTL

(* Code lies behind its block by one byte at most, and by two in the end   *)
(* when an allocation failed.                                              *)
THEOREM ChunksOverrun == ASpec => []ChunkOverrun
<1>1. AInv => ChunkOverrun
  BY DEF AInv
<1> QED
  BY <1>1, ArraysInvariant, PTL

(* Growing keeps the elements, but for second bytes behind the block.      *)
THEOREM ArraysKeepElements == ASpec => []ElementsKept
<1>1. AInv => ElementsKept
  BY DEF AInv
<1> QED
  BY <1>1, ArraysInvariant, PTL

(* No block is more than twice as large as what is in it.                  *)
THEOREM ArraysWasteLittle == ASpec => []NoWaste
<1>1. AInv => NoWaste
  BY DEF AInv
<1> QED
  BY <1>1, ArraysInvariant, PTL

(* The places of constants and nonlocals fit into a byte.                  *)
THEOREM ArrayPlacesFit == ASpec => []PlacesFit
<1>1. AInv => PlacesFit
  BY DEF AInv
<1> QED
  BY <1>1, ArraysInvariant, PTL
=============================================================================
