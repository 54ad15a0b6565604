--------------------------- MODULE CompilerProofs ---------------------------
(***************************************************************************)
(* Proofs about the compiler, for all files, every size of a byte and with *)
(* and without failing memory.  The invariant joins three parts: no token  *)
(* behind the end is reached; the functions on the C stack and the records *)
(* of the functions being compiled open and close in step; and variables   *)
(* have slots and captures of their own.                                   *)
(*                                                                         *)
(* Then the code: the compiler emits whole instructions, patches jumps to  *)
(* where one begins and numbers closures in order.                         *)
(***************************************************************************)
EXTENDS CompilerSafety, SequenceTheorems, FiniteSetTheorems,
        WellFoundedInduction, TLAPS

(* Kinds of the tokens that the parser asks for.                           *)
Wanted == {"{", "}", "[", "]", ",", ":", "STRING", "INT", "false", "true"}

TokensInv ==
  /\ src \in Seq(TokenOf) /\ src # <<>> /\ src[Len(src)].kind = "EOF"
  /\ pos \in 1..Len(src)
  /\ NothingAfterEnd

-----------------------------------------------------------------------------
(* The C stack.                                                            *)

ActivationOf == [proc : DOMAIN Script, pc : Nat \ {0}, isTail : BOOLEAN,
                 comp : Nat \ {0}, token : TokenOf, count : 0..UINT8_MAX,
                 jump : {NoJump} \cup Nat]

(* One if the function has opened a record that it has not closed yet.     *)
Opened(a) == IF a.proc = "compile_function" /\ a.pc \in 3..10 THEN 1 ELSE 0

(* The last record that is there for what the function calls.              *)
Top(a) == a.comp + Opened(a)

(* What a function knows once it has come to its place.                    *)
ActivationOK(a, emitting) ==
  /\ a \in ActivationOf
  /\ a.pc <= Len(Script[a.proc]) + 1
  /\ a.proc = "compile_binary" /\ a.pc > 5 => Matches(Operators, a.token.text) # {}
  /\ a.proc = "compile_if" /\ a.pc \in 4..9 /\ emitting => a.jump # NoJump

CallsInv ==
  /\ calls \in Seq(ActivationOf)
  /\ \A i \in 1..Len(calls) : ActivationOK(calls[i], emit)
  /\ \A i, j \in 1..Len(calls) : i < j => Top(calls[i]) <= calls[j].comp
  /\ \A i \in 1..(Len(calls) - 1) : calls[i + 1].comp = Top(calls[i])
  /\ calls # <<>> => Len(comps) = Top(calls[Len(calls)])

-----------------------------------------------------------------------------
(* Scopes.                                                                 *)

CompilerOf == [fn : Nat \ {0}, variables : Seq(VariableOf), nextIndex : 0..UINT8_MAX]

(* The slots of a record have been given in order.                         *)
SlotsInOrder(c) ==
  /\ Len(c.variables) <= UINT8_MAX
  /\ \/ c.nextIndex \in 1..(Len(c.variables) + 1)
     \/ c.nextIndex = 0 /\ Len(c.variables) = UINT8_MAX
  /\ c.nextIndex # 0 =>
       \A i \in 1..Len(c.variables) :
         c.variables[i].isLocal => c.variables[i].index < c.nextIndex

ScopesInv ==
  /\ functions \in Seq(FunctionOf)
  /\ comps \in Seq(CompilerOf)
  /\ \A k \in 1..Len(comps) :
       /\ comps[k].fn <= Len(functions)
       /\ \A j \in 1..(k - 1) : comps[j].fn # comps[k].fn
       /\ SlotsInOrder(comps[k])
       /\ Len(functions[comps[k].fn].nonlocals) <= Len(comps[k].variables)
  /\ CapturesLead
  /\ SlotsDistinct

CInv ==
  /\ file \in DOMAIN Sources
  /\ emit \in BOOLEAN
  /\ phase \in {"idle", "compiling", "done", "failed", "undefined"}
  /\ phase = "idle" => functions = <<>>
  /\ strs \in Seq(Range_(strs))
  /\ TokensInv
  /\ CallsInv
  /\ ScopesInv

-----------------------------------------------------------------------------
(* The scripts.                                                            *)

KeyTexts == {"", "start", "end", "filename", "name", "expression", "kind", "value",
             "location", "callee", "arguments", "lhs", "op", "rhs", "parameters",
             "text", "next", "condition", "then", "otherwise", "first", "second"}

WantOf == [kind : Wanted, key : KeyTexts]

(* The items of most scripts, and those of calls, binary terms, functions  *)
(* and ifs, whose place in the script matters.                             *)
PlainItems ==
  [op : {"consume"}, arg : Seq(WantOf)]
  \cup [op : {"keep"}, arg : {"STRING", "INT"}]
  \cup [op : {"call"}, arg : {"compile_parameter"}]
  \cup [op : {"term"}, arg : BOOLEAN]
  \cup [op : {"emit"}, arg : {"OP_RETURN", "OP_PRINT", "OP_FIRST", "OP_SECOND",
                             "OP_TUPLE", "bool"}]
  \cup [op : {"dispatch", "emit_int", "emit_str", "keep_bool", "add_local", "var"},
        arg : {""}]

PlacedOps == {"first_item", "next_item", "emit_call", "operator", "open_function",
              "set_arity", "close_function", "jump_if_false", "jump_over", "patch_jump"}

Items == PlainItems \cup [op : PlacedOps, arg : {""}] \cup {Emit("operator")}

Placing == {"compile_call", "compile_binary", "compile_function", "compile_if"}

LEMMA OneWant ==
  ASSUME NEW w \in WantOf
  PROVE  <<w>> \in Seq(WantOf)
OBVIOUS

LEMMA Concat ==
  \A s, t \in Seq(WantOf) : s \o t \in Seq(WantOf)
BY ConcatProperties

LEMMA Toks == \A kind \in Wanted : Tok(kind) \in Seq(WantOf)
<1> SUFFICES ASSUME NEW kind \in Wanted PROVE Tok(kind) \in Seq(WantOf)
  OBVIOUS
<1>1. [kind |-> kind, key |-> ""] \in WantOf
  BY DEF WantOf, KeyTexts
<1>2. << [kind |-> kind, key |-> ""] >> \in Seq(WantOf)
  BY <1>1, OneWant
<1> QED BY <1>2 DEF Tok

LEMMA Keys == \A text \in KeyTexts : Key(text) \in Seq(WantOf)
<1> SUFFICES ASSUME NEW text \in KeyTexts PROVE Key(text) \in Seq(WantOf)
  OBVIOUS
<1>1. [kind |-> "STRING", key |-> text] \in WantOf
  BY DEF WantOf, Wanted
<1>2. << [kind |-> "STRING", key |-> text] >> \in Seq(WantOf)
  BY <1>1
<1>3. Tok(":") \in Seq(WantOf)
  BY Toks DEF Wanted
<1> QED BY <1>2, <1>3, Concat DEF Key

LEMMA Wants ==
  /\ Located.arg \in Seq(WantOf)
  /\ \A text \in KeyTexts : Field(text).arg \in Seq(WantOf)
<1>1. /\ Tok("{") \in Seq(WantOf) /\ Tok("INT") \in Seq(WantOf)
      /\ Tok(",") \in Seq(WantOf) /\ Tok("STRING") \in Seq(WantOf)
      /\ Tok("}") \in Seq(WantOf)
  BY Toks DEF Wanted
<1>2. /\ Key("start") \in Seq(WantOf) /\ Key("end") \in Seq(WantOf)
      /\ Key("filename") \in Seq(WantOf) /\ Key("location") \in Seq(WantOf)
  BY Keys DEF KeyTexts
<1>3. compile_location \in Seq(WantOf)
  BY <1>1, <1>2, Concat DEF compile_location
<1>4. Located.arg \in Seq(WantOf)
  BY <1>1, <1>2, <1>3, Concat DEF Located, Expect, Item
<1>5. \A text \in KeyTexts : Field(text).arg \in Seq(WantOf)
  BY <1>1, Keys, Concat DEF Field, Expect, Item
<1> QED BY <1>4, <1>5

LEMMA ItemsAre ==
  /\ \A w \in Seq(WantOf) : Expect(w) \in PlainItems
  /\ Located \in PlainItems /\ \A text \in KeyTexts : Field(text) \in PlainItems
  /\ Keep("STRING") \in PlainItems /\ Keep("INT") \in PlainItems
  /\ Call("compile_parameter") \in PlainItems
  /\ Term \in PlainItems /\ TailTerm \in PlainItems
  /\ \A op \in {"OP_RETURN", "OP_PRINT", "OP_FIRST", "OP_SECOND", "OP_TUPLE", "bool"} :
       Emit(op) \in PlainItems
  /\ \A op \in {"dispatch", "emit_int", "emit_str", "keep_bool", "add_local", "var"} :
       Do(op) \in PlainItems
  /\ \A op \in PlacedOps : Do(op) \in Items
  /\ Emit("operator") \in Items
<1>1. \A w \in Seq(WantOf) : Expect(w) \in PlainItems
  BY DEF Expect, Item, PlainItems
<1>2. Located \in PlainItems
  BY Wants DEF Located, Expect, Item, PlainItems
<1>3. \A text \in KeyTexts : Field(text) \in PlainItems
  BY Wants DEF Field, Expect, Item, PlainItems
<1>4. /\ Keep("STRING") \in PlainItems /\ Keep("INT") \in PlainItems
      /\ Call("compile_parameter") \in PlainItems
      /\ Term \in PlainItems /\ TailTerm \in PlainItems
  BY DEF Keep, Call, Term, TailTerm, Item, PlainItems
<1>5. \A op \in {"OP_RETURN", "OP_PRINT", "OP_FIRST", "OP_SECOND", "OP_TUPLE", "bool"} :
        Emit(op) \in PlainItems
  BY DEF Emit, Item, PlainItems
<1>6. \A op \in {"dispatch", "emit_int", "emit_str", "keep_bool", "add_local", "var"} :
        Do(op) \in PlainItems
  BY DEF Do, Item, PlainItems
<1>7. /\ \A op \in PlacedOps : Do(op) \in Items
      /\ Emit("operator") \in Items
  BY DEF Do, Item, Items
<1> QED BY <1>1, <1>2, <1>3, <1>4, <1>5, <1>6, <1>7

LEMMA Beginnings ==
  /\ Expect(Tok("STRING")) \in PlainItems
  /\ \A text \in {"name", "kind", "text"} : Start(text) \in PlainItems
  /\ \A text \in {"arguments", "parameters"} : List(text) \in PlainItems
<1>1. /\ Tok("{") \in Seq(WantOf) /\ Tok("[") \in Seq(WantOf)
      /\ Tok(",") \in Seq(WantOf) /\ Tok("STRING") \in Seq(WantOf)
  BY Toks DEF Wanted
<1>2. \A text \in {"name", "kind", "text", "arguments", "parameters"} :
        Key(text) \in Seq(WantOf)
  BY Keys DEF KeyTexts
<1>3. ASSUME NEW text \in {"name", "kind", "text"} PROVE Start(text) \in PlainItems
  <2>1. Tok("{") \o Key(text) \in Seq(WantOf)
    BY <1>1, <1>2, Concat
  <2> QED BY <2>1, ItemsAre DEF Start
<1>4. ASSUME NEW text \in {"arguments", "parameters"} PROVE List(text) \in PlainItems
  <2>1. Tok(",") \o Key(text) \o Tok("[") \in Seq(WantOf)
    BY <1>1, <1>2, Concat
  <2> QED BY <2>1, ItemsAre DEF List
<1> QED BY <1>1, <1>3, <1>4, ItemsAre

(* One script after the other.                                             *)
LEMMA PlainScripts ==
  ASSUME NEW proc \in DOMAIN Script \ Placing
  PROVE  Script[proc] \in Seq(PlainItems) /\ Len(Script[proc]) >= 1
<1>1. \A text \in {"value", "next", "first", "second", "name", "text", "expression"} :
        Field(text) \in PlainItems
  BY ItemsAre DEF KeyTexts
<1>2. /\ \A op \in {"OP_PRINT", "OP_FIRST", "OP_SECOND"} :
           Unary(op) \in Seq(PlainItems) /\ Len(Unary(op)) >= 1
      /\ compile_bool \in Seq(PlainItems) /\ Len(compile_bool) >= 1
      /\ compile_tuple \in Seq(PlainItems) /\ Len(compile_tuple) >= 1
      /\ compile_var \in Seq(PlainItems) /\ Len(compile_var) >= 1
      /\ compile_let \in Seq(PlainItems) /\ Len(compile_let) >= 1
      /\ compile_int \in Seq(PlainItems) /\ Len(compile_int) >= 1
      /\ compile_str \in Seq(PlainItems) /\ Len(compile_str) >= 1
  BY <1>1, ItemsAre DEF Unary, compile_bool, compile_tuple, compile_var, compile_let,
                        compile_int, compile_str
<1>3. /\ compile_file \in Seq(PlainItems) /\ Len(compile_file) >= 1
      /\ compile_term \in Seq(PlainItems) /\ Len(compile_term) >= 1
      /\ compile_parameter \in Seq(PlainItems) /\ Len(compile_parameter) >= 1
  BY <1>1, ItemsAre, Beginnings DEF compile_file, compile_term, compile_parameter
<1>4. /\ Script["compile_file"] = compile_file /\ Script["compile_term"] = compile_term
      /\ Script["compile_int"] = compile_int /\ Script["compile_str"] = compile_str
      /\ Script["compile_parameter"] = compile_parameter
      /\ Script["compile_let"] = compile_let
      /\ Script["compile_print"] = Unary("OP_PRINT")
      /\ Script["compile_first"] = Unary("OP_FIRST")
      /\ Script["compile_second"] = Unary("OP_SECOND")
      /\ Script["compile_bool"] = compile_bool /\ Script["compile_tuple"] = compile_tuple
      /\ Script["compile_var"] = compile_var
  BY DEF Script, compile_print, compile_first, compile_second
<1>5. proc \in {"compile_file", "compile_term", "compile_int", "compile_str",
               "compile_parameter", "compile_let", "compile_print", "compile_first",
               "compile_second", "compile_bool", "compile_tuple", "compile_var"}
  BY DEF Script, Placing
<1> QED BY <1>2, <1>3, <1>4, <1>5

LEMMA PlacedScripts ==
  ASSUME NEW proc \in Placing
  PROVE  Script[proc] \in Seq(Items) /\ Len(Script[proc]) >= 1
<1>1. \A text \in {"callee", "lhs", "op", "rhs", "value", "condition", "then", "otherwise"} :
        Field(text) \in Items
  BY ItemsAre DEF KeyTexts, Items
<1>2. \A it \in PlainItems : it \in Items
  BY DEF Items
<1>3. compile_call \in Seq(Items) /\ Len(compile_call) >= 1
  BY <1>1, <1>2, ItemsAre, Beginnings DEF compile_call, PlacedOps
<1>4. compile_binary \in Seq(Items) /\ Len(compile_binary) >= 1
  BY <1>1, <1>2, ItemsAre DEF compile_binary, PlacedOps
<1>5. compile_function \in Seq(Items) /\ Len(compile_function) >= 1
  BY <1>1, <1>2, ItemsAre, Beginnings DEF compile_function, PlacedOps
<1>6. compile_if \in Seq(Items) /\ Len(compile_if) >= 1
  BY <1>1, <1>2, ItemsAre DEF compile_if, PlacedOps
<1> QED BY <1>3, <1>4, <1>5, <1>6 DEF Script, Placing

LEMMA ItemOps ==
  /\ \A w : Expect(w).op = "consume"
  /\ \A text : Start(text).op = "consume" /\ List(text).op = "consume"
  /\ \A text : Field(text).op = "consume"
  /\ Located.op = "consume" /\ Term.op = "term" /\ TailTerm.op = "term"
  /\ \A kind : Keep(kind).op = "keep"
  /\ \A proc : Call(proc).op = "call"
  /\ \A op : Do(op).op = op /\ Emit(op).op = "emit"
BY DEF Expect, Start, List, Field, Located, Term, TailTerm, Keep, Call, Do, Emit, Item

(* The places of the items that have one.                                  *)
PlacesOK(proc, i, op) ==
  /\ op = "emit" => proc = "compile_binary"
  /\ proc = "compile_call" =>
       /\ op = "first_item" => i = 4
       /\ op = "next_item" => i = 6
       /\ op \in PlacedOps => op \in {"first_item", "next_item", "emit_call"}
  /\ proc = "compile_binary" =>
       /\ op = "keep" => i = 4
       /\ op # "keep_bool"
       /\ op \in PlacedOps => op = "operator"
       /\ op = "emit" => i = 9
       /\ i = 5 <=> op = "operator"
  /\ proc = "compile_function" =>
       /\ op = "first_item" => i = 3
       /\ op = "next_item" => i = 5
       /\ i = 2 <=> op = "open_function"
       /\ i = 10 <=> op = "close_function"
       /\ op \in PlacedOps =>
            op \in {"first_item", "next_item", "open_function", "set_arity", "close_function"}
  /\ proc = "compile_if" =>
       /\ op \in PlacedOps => op \in {"jump_if_false", "jump_over", "patch_jump"}
       /\ i = 3 <=> op = "jump_if_false"
       /\ i = 6 <=> op = "jump_over"
       /\ i = 9 <=> op = "patch_jump"

LEMMA Places ==
  ASSUME NEW proc \in Placing, NEW i \in 1..Len(Script[proc])
  PROVE  /\ Len(Script[proc]) = CASE proc = "compile_call" -> 8
                                  [] proc = "compile_binary" -> 9
                                  [] proc = "compile_function" -> 10
                                  [] proc = "compile_if" -> 10
         /\ PlacesOK(proc, i, Script[proc][i].op)
<1>1. CASE proc = "compile_call"
  <2>1. Len(Script["compile_call"]) = 8
    BY DEF Script, compile_call
  <2>2. i \in {1, 2, 3, 4, 5, 6, 7, 8}
    BY <1>1, <2>1
  <2>3. /\ Script["compile_call"][1].op = "consume" /\ Script["compile_call"][2].op = "term"
        /\ Script["compile_call"][3].op = "consume" /\ Script["compile_call"][4].op = "first_item"
        /\ Script["compile_call"][5].op = "term" /\ Script["compile_call"][6].op = "next_item"
        /\ Script["compile_call"][7].op = "consume" /\ Script["compile_call"][8].op = "emit_call"
    BY ItemOps DEF Script, compile_call
  <2> QED BY <1>1, <2>1, <2>2, <2>3 DEF PlacesOK, PlacedOps
<1>2. CASE proc = "compile_binary"
  <2>1. Len(Script["compile_binary"]) = 9
    BY DEF Script, compile_binary
  <2>2. i \in {1, 2, 3, 4, 5, 6, 7, 8, 9}
    BY <1>2, <2>1
  <2>3. /\ Script["compile_binary"][1].op = "consume" /\ Script["compile_binary"][2].op = "term"
        /\ Script["compile_binary"][3].op = "consume" /\ Script["compile_binary"][4].op = "keep"
        /\ Script["compile_binary"][5].op = "operator" /\ Script["compile_binary"][6].op = "consume"
        /\ Script["compile_binary"][7].op = "term" /\ Script["compile_binary"][8].op = "consume"
        /\ Script["compile_binary"][9].op = "emit"
    BY ItemOps DEF Script, compile_binary
  <2> QED BY <1>2, <2>1, <2>2, <2>3 DEF PlacesOK, PlacedOps
<1>3. CASE proc = "compile_function"
  <2>1. Len(Script["compile_function"]) = 10
    BY DEF Script, compile_function
  <2>2. i \in {1, 2, 3, 4, 5, 6, 7, 8, 9, 10}
    BY <1>3, <2>1
  <2>3. /\ Script["compile_function"][1].op = "consume"
        /\ Script["compile_function"][2].op = "open_function"
        /\ Script["compile_function"][3].op = "first_item"
        /\ Script["compile_function"][4].op = "call"
        /\ Script["compile_function"][5].op = "next_item"
        /\ Script["compile_function"][6].op = "set_arity"
        /\ Script["compile_function"][7].op = "consume"
        /\ Script["compile_function"][8].op = "term"
        /\ Script["compile_function"][9].op = "consume"
        /\ Script["compile_function"][10].op = "close_function"
    BY ItemOps DEF Script, compile_function
  <2> QED BY <1>3, <2>1, <2>2, <2>3 DEF PlacesOK, PlacedOps
<1>4. CASE proc = "compile_if"
  <2>1. Len(Script["compile_if"]) = 10
    BY DEF Script, compile_if
  <2>2. i \in {1, 2, 3, 4, 5, 6, 7, 8, 9, 10}
    BY <1>4, <2>1
  <2>3. /\ Script["compile_if"][1].op = "consume" /\ Script["compile_if"][2].op = "term"
        /\ Script["compile_if"][3].op = "jump_if_false"
        /\ Script["compile_if"][4].op = "consume" /\ Script["compile_if"][5].op = "term"
        /\ Script["compile_if"][6].op = "jump_over"
        /\ Script["compile_if"][7].op = "consume" /\ Script["compile_if"][8].op = "term"
        /\ Script["compile_if"][9].op = "patch_jump"
        /\ Script["compile_if"][10].op = "consume"
    BY ItemOps DEF Script, compile_if
  <2> QED BY <1>4, <2>1, <2>2, <2>3 DEF PlacesOK, PlacedOps
<1> QED BY <1>1, <1>2, <1>3, <1>4 DEF Placing

(* What is known of the item that is done.                                 *)
LEMMA ItemFacts ==
  ASSUME NEW proc \in DOMAIN Script, NEW i \in 1..Len(Script[proc])
  PROVE  /\ Script[proc][i] \in Items
         /\ proc \notin Placing => Script[proc][i] \in PlainItems
         /\ proc \in Placing => PlacesOK(proc, i, Script[proc][i].op)
<1>1. CASE proc \in Placing
  BY <1>1, PlacedScripts, Places
<1>2. CASE proc \notin Placing
  <2>1. Script[proc] \in Seq(PlainItems)
    BY <1>2, PlainScripts
  <2>2. Script[proc][i] \in PlainItems
    BY <2>1
  <2> QED BY <1>2, <2>2 DEF Items
<1> QED BY <1>1, <1>2

LEMMA ItemArgs ==
  ASSUME NEW it \in Items
  PROVE  /\ it.op = "consume" => it.arg \in Seq(WantOf)
         /\ it.op = "keep" => it.arg \in {"STRING", "INT"}
         /\ it.op = "call" => it.arg = "compile_parameter"
         /\ it.op = "term" => it.arg \in BOOLEAN
         /\ it.op = "emit" => it.arg \in {"OP_RETURN", "OP_PRINT", "OP_FIRST",
                                         "OP_SECOND", "OP_TUPLE", "bool", "operator"}
         /\ it \in PlainItems /\ it.op = "emit" => it.arg # "operator"
         /\ it \in PlainItems => it.op \notin PlacedOps
<1>1. CASE it \in PlainItems
  BY <1>1 DEF PlainItems, PlacedOps
<1>2. CASE it \in [op : PlacedOps, arg : {""}]
  <2>1. it.op \in PlacedOps
    BY <1>2
  <2>2. it \notin PlainItems
    BY <2>1 DEF PlainItems, PlacedOps
  <2> QED BY <2>1, <2>2 DEF PlacedOps
<1>3. CASE it = Emit("operator")
  <2>1. it.op = "emit" /\ it.arg = "operator"
    BY <1>3 DEF Emit, Item
  <2>2. it \notin PlainItems
    BY <2>1 DEF PlainItems
  <2> QED BY <2>1, <2>2 DEF PlacedOps
<1> QED BY <1>1, <1>2, <1>3 DEF Items

-----------------------------------------------------------------------------
(* Tokens.                                                                 *)

LEMMA PassTokens ==
  ASSUME TokensInv, NEW k \in Nat, \A m \in 0..(k - 1) : Ahead(m).kind \in Wanted,
         src' = src, pos' = Skip(k)
  PROVE  TokensInv'
<1>1. /\ src \in Seq(TokenOf) /\ Len(src) \in Nat /\ DOMAIN src = 1..Len(src)
      /\ src[Len(src)].kind = "EOF" /\ pos \in 1..Len(src)
      /\ \A i \in 1..(pos - 1) : src[i].kind # "EOF"
  BY LenProperties DEF TokensInv, NothingAfterEnd
<1>2. pos' = pos + k
  BY DEF Skip
<1>3. ASSUME NEW m \in 0..(k - 1)
      PROVE  pos + m \in 1..Len(src) /\ src[pos + m].kind # "EOF"
  <2>1. Ahead(m).kind \notin {"behind", "EOF"}
    BY DEF Wanted
  <2>2. pos + m \in DOMAIN src
    BY <2>1 DEF Ahead, Skip
  <2> QED BY <1>1, <2>1, <2>2 DEF Ahead, Skip
<1>4. pos + k \in 1..Len(src)
  <2>1. CASE k = 0
    BY <1>1, <2>1
  <2>2. CASE k # 0
    <3>1. k - 1 \in 0..(k - 1) /\ pos + (k - 1) = pos + k - 1
      BY <1>1, <2>2
    <3>2. pos + (k - 1) \in 1..Len(src) /\ src[pos + (k - 1)].kind # "EOF"
      BY <1>3, <3>1
    <3>3. pos + (k - 1) # Len(src)
      BY <1>1, <3>2
    <3> QED BY <1>1, <3>1, <3>2, <3>3
  <2> QED BY <2>1, <2>2
<1>5. ASSUME NEW i \in 1..(pos + k - 1) PROVE src[i].kind # "EOF"
  <2>1. CASE i <= pos - 1
    BY <1>1, <2>1
  <2>2. CASE i > pos - 1
    <3>1. i - pos \in 0..(k - 1) /\ pos + (i - pos) = i
      BY <1>1, <2>2
    <3>2. src[pos + (i - pos)].kind # "EOF"
      BY <1>3, <3>1
    <3> QED BY <3>1, <3>2
  <2> QED BY <1>1, <2>1, <2>2
<1> QED BY <1>1, <1>2, <1>4, <1>5 DEF TokensInv, NothingAfterEnd

LEMMA TokenTypes ==
  ASSUME TokensInv, Ahead(0).kind # "behind"
  PROVE  token \in TokenOf
<1>1. src \in Seq(TokenOf) /\ DOMAIN src = 1..Len(src)
  BY LenProperties DEF TokensInv
<1>2. Skip(0) \in DOMAIN src /\ token = src[Skip(0)]
  BY DEF token, Ahead
<1> QED BY <1>1, <1>2

-----------------------------------------------------------------------------
(* The running function and its record.                                    *)

LEMMA CurrentFacts ==
  ASSUME CInv, calls # <<>>
  PROVE  /\ depth \in Nat \ {0} /\ depth = Len(calls)
         /\ current = calls[depth] /\ current \in ActivationOf /\ ActivationOK(current, emit)
         /\ Opened(current) \in {0, 1} /\ Top(current) = current.comp + Opened(current)
         /\ Len(comps) = Top(current) /\ Len(comps) \in Nat \ {0}
         /\ comp = comps[Len(comps)] /\ comp \in CompilerOf
         /\ comp.fn \in 1..Len(functions) /\ Len(functions) \in Nat
         /\ fn = functions[comp.fn] /\ fn \in FunctionOf
<1>1. /\ calls \in Seq(ActivationOf) /\ Len(calls) \in Nat \ {0}
  BY EmptySeq, LenProperties DEF CInv, CallsInv
<1>2. depth = Len(calls) /\ current = calls[depth]
  BY DEF depth, current
<1>3. current \in ActivationOf /\ ActivationOK(current, emit) /\ Len(comps) = Top(current)
  BY <1>1, <1>2 DEF CInv, CallsInv
<1>4. current.comp \in Nat \ {0} /\ Opened(current) \in {0, 1}
  BY <1>3 DEF ActivationOf, Opened
<1>5. Top(current) = current.comp + Opened(current)
  BY DEF Top
<1>6. comps \in Seq(CompilerOf) /\ functions \in Seq(FunctionOf)
      /\ \A k \in 1..Len(comps) : comps[k].fn <= Len(functions)
  BY DEF CInv, ScopesInv
<1>7. Len(comps) \in Nat \ {0} /\ Len(functions) \in Nat
  BY <1>3, <1>4, <1>5, <1>6, LenProperties
<1>8. comp = comps[Len(comps)] /\ comp \in CompilerOf /\ comp.fn <= Len(functions)
  BY <1>6, <1>7 DEF comp
<1>9. comp.fn \in Nat \ {0}
  BY <1>8 DEF CompilerOf
<1>10. fn = functions[comp.fn] /\ fn \in FunctionOf
  BY <1>6, <1>7, <1>8, <1>9 DEF fn
<1> QED BY <1>1, <1>2, <1>3, <1>4, <1>5, <1>7, <1>8, <1>9, <1>10

LEMMA Bytes ==
  /\ UINT8_MAX \in Nat /\ UINT8_MAX >= 29
  /\ \A n \in Nat : n % (UINT8_MAX + 1) \in 0..UINT8_MAX
<1>1. Len(OpNames) = 30
  BY DEF OpNames
<1>2. UINT8_MAX \in Nat /\ UINT8_MAX + 1 >= 30
  BY <1>1, ByteAssumption
<1> QED BY <1>2

LEMMA NextByte ==
  ASSUME NEW m \in 0..UINT8_MAX
  PROVE  (m + 1) % (UINT8_MAX + 1) = IF m = UINT8_MAX THEN 0 ELSE m + 1
<1>1. PICK n \in Nat : n = UINT8_MAX
  BY Bytes
<1>2. CASE m = n
  <2>1. (n + 1) % (n + 1) = 0
    OBVIOUS
  <2> QED BY <1>1, <1>2, <2>1
<1>3. CASE m # n
  <2>1. m + 1 \in 0..n
    BY <1>1, <1>3
  <2>2. (m + 1) % (n + 1) = m + 1
    BY <2>1
  <2> QED BY <1>1, <1>3, <2>2
<1> QED BY <1>2, <1>3

LEMMA UpdateToken ==
  ASSUME NEW a \in ActivationOf, NEW p \in Nat \ {0}, NEW t \in TokenOf
  PROVE  [a EXCEPT !.pc = p, !.token = t] \in ActivationOf
BY DEF ActivationOf

LEMMA UpdateCount ==
  ASSUME NEW a \in ActivationOf, NEW n \in 0..UINT8_MAX
  PROVE  [a EXCEPT !.count = n] \in ActivationOf
BY Bytes DEF ActivationOf

LEMMA UpdateJump ==
  ASSUME NEW a \in ActivationOf, NEW p \in Nat \ {0}, NEW j \in {NoJump} \cup Nat
  PROVE  [a EXCEPT !.pc = p, !.jump = j] \in ActivationOf
BY DEF ActivationOf

LEMMA RecordFacts ==
  ASSUME CInv
  PROVE  /\ functions \in Seq(FunctionOf) /\ Len(functions) \in Nat
         /\ DOMAIN functions = 1..Len(functions)
         /\ comps \in Seq(CompilerOf) /\ Len(comps) \in Nat
         /\ DOMAIN comps = 1..Len(comps)
         /\ \A k \in 1..Len(comps) :
              /\ comps[k] \in CompilerOf
              /\ comps[k].variables \in Seq(VariableOf) /\ Len(comps[k].variables) \in Nat
              /\ DOMAIN comps[k].variables = 1..Len(comps[k].variables)
              /\ comps[k].fn \in 1..Len(functions)
              /\ \A j \in 1..(k - 1) : comps[j].fn # comps[k].fn
              /\ SlotsInOrder(comps[k])
              /\ functions[comps[k].fn] \in FunctionOf
              /\ Len(functions[comps[k].fn].nonlocals) \in Nat
              /\ Len(functions[comps[k].fn].nonlocals) <= Len(comps[k].variables)
<1>1. /\ functions \in Seq(FunctionOf) /\ comps \in Seq(CompilerOf)
      /\ \A k \in 1..Len(comps) :
           /\ comps[k].fn <= Len(functions)
           /\ \A j \in 1..(k - 1) : comps[j].fn # comps[k].fn
           /\ SlotsInOrder(comps[k])
           /\ Len(functions[comps[k].fn].nonlocals) <= Len(comps[k].variables)
  BY DEF CInv, ScopesInv
<1>2. /\ Len(functions) \in Nat /\ DOMAIN functions = 1..Len(functions)
      /\ Len(comps) \in Nat /\ DOMAIN comps = 1..Len(comps)
  BY <1>1, LenProperties
<1>3. ASSUME NEW k \in 1..Len(comps)
      PROVE  /\ comps[k] \in CompilerOf
             /\ comps[k].variables \in Seq(VariableOf) /\ Len(comps[k].variables) \in Nat
             /\ DOMAIN comps[k].variables = 1..Len(comps[k].variables)
             /\ comps[k].fn \in 1..Len(functions)
             /\ functions[comps[k].fn] \in FunctionOf
             /\ Len(functions[comps[k].fn].nonlocals) \in Nat
  <2>1. comps[k] \in CompilerOf
    BY <1>1, <1>2
  <2>2. /\ comps[k].variables \in Seq(VariableOf) /\ comps[k].fn \in Nat \ {0}
    BY <2>1 DEF CompilerOf
  <2>3. /\ Len(comps[k].variables) \in Nat
        /\ DOMAIN comps[k].variables = 1..Len(comps[k].variables)
    BY <2>2, LenProperties
  <2>4. comps[k].fn \in 1..Len(functions)
    BY <1>1, <1>2, <2>2
  <2>5. functions[comps[k].fn] \in FunctionOf
    BY <1>1, <1>2, <2>4
  <2>6. Len(functions[comps[k].fn].nonlocals) \in Nat
    BY <2>5, LenProperties DEF FunctionOf
  <2> QED BY <2>1, <2>2, <2>3, <2>4, <2>5, <2>6
<1> QED BY <1>1, <1>2, <1>3

LEMMA CaptureFacts ==
  ASSUME CInv, NEW k \in 1..Len(comps), NEW v \in Range_(comps[k].variables), ~v.isLocal
  PROVE  /\ k > 1
         /\ v.index < Len(functions[comps[k].fn].nonlocals)
         /\ \E u \in Range_(comps[k - 1].variables) :
              /\ u.name = v.name
              /\ functions[comps[k].fn].nonlocals[v.index + 1]
                   = [isLocal |-> u.isLocal, index |-> u.index]
<1>1. k \in DOMAIN comps
  BY RecordFacts
<1>2. CapturesLead
  BY DEF CInv, ScopesInv
<1> QED BY <1>1, <1>2 DEF CapturesLead

LEMMA DoingFacts ==
  ASSUME CInv, NEW op, Doing(op)
  PROVE  /\ phase = "compiling" /\ calls # <<>>
         /\ current.proc \in DOMAIN Script
         /\ current.pc \in 1..Len(Script[current.proc])
         /\ Len(Script[current.proc]) \in Nat
         /\ item \in Items /\ item.op = op
         /\ current.proc \notin Placing => item \in PlainItems /\ op \notin PlacedOps
         /\ current.proc \in Placing => PlacesOK(current.proc, current.pc, op)
<1>1. /\ phase = "compiling" /\ calls # <<>> /\ item.op = op
      /\ current.pc <= Len(Script[current.proc])
  BY DEF Doing
<1>2. current.proc \in DOMAIN Script /\ current.pc \in Nat \ {0}
  BY <1>1, CurrentFacts DEF ActivationOf
<1>3. Len(Script[current.proc]) \in Nat
  BY <1>2, PlainScripts, PlacedScripts, LenProperties
<1>4. current.pc \in 1..Len(Script[current.proc])
  BY <1>1, <1>2, <1>3
<1>5. item = Script[current.proc][current.pc]
  BY DEF item
<1>6. /\ item \in Items
      /\ current.proc \notin Placing => item \in PlainItems
      /\ current.proc \in Placing => PlacesOK(current.proc, current.pc, item.op)
  BY <1>2, <1>4, <1>5, ItemFacts
<1>7. item \in PlainItems => item.op \notin PlacedOps
  BY DEF PlainItems, PlacedOps
<1>8. current.proc \in Placing => PlacesOK(current.proc, current.pc, op)
  BY <1>1, <1>6
<1>9. current.proc \notin Placing => item \in PlainItems /\ op \notin PlacedOps
  BY <1>1, <1>6, <1>7
<1> QED BY <1>1, <1>2, <1>3, <1>4, <1>6, <1>8, <1>9
(* The next place in the script is one that the function may come to.      *)
LEMMA NextPlace ==
  ASSUME CInv, NEW op, Doing(op), op \notin {"open_function", "close_function"},
         NEW act \in ActivationOf,
         act.proc = current.proc, act.comp = current.comp, act.pc = current.pc + 1,
         op = "operator" => Matches(Operators, act.token.text) # {},
         op \notin {"keep", "keep_bool"} => act.token = current.token,
         op \in {"jump_if_false", "jump_over"} /\ emit => act.jump # NoJump,
         op \notin {"jump_if_false", "jump_over", "patch_jump"} => act.jump = current.jump
  PROVE  ActivationOK(act, emit) /\ Top(act) = Top(current)
<1>1. /\ current.proc \in DOMAIN Script
      /\ current.pc \in Nat /\ current.pc >= 1
      /\ Len(Script[current.proc]) \in Nat /\ current.pc <= Len(Script[current.proc])
      /\ current.proc \notin Placing => op \notin PlacedOps
      /\ current.proc \in Placing => PlacesOK(current.proc, current.pc, op)
  BY DoingFacts
<1>2. ActivationOK(current, emit)
  BY DoingFacts, CurrentFacts
<1>3. act.pc <= Len(Script[act.proc]) + 1
  BY <1>1
<1>4. ASSUME act.proc = "compile_binary", act.pc > 5
      PROVE  Matches(Operators, act.token.text) # {}
  <2>1. PlacesOK("compile_binary", current.pc, op)
    BY <1>1, <1>4 DEF Placing
  <2>2. CASE current.pc = 5
    BY <2>1, <2>2 DEF PlacesOK
  <2>3. CASE current.pc # 5
    <3>1. current.pc > 5
      BY <1>1, <1>4, <2>3
    <3>2. op \notin {"keep", "keep_bool"}
      BY <2>1, <3>1 DEF PlacesOK
    <3> QED BY <1>2, <1>4, <3>1, <3>2 DEF ActivationOK
  <2> QED BY <2>2, <2>3
<1>5. ASSUME act.proc = "compile_if", act.pc \in 4..9, emit PROVE act.jump # NoJump
  <2>1. PlacesOK("compile_if", current.pc, op)
    BY <1>1, <1>5 DEF Placing
  <2>2. CASE current.pc \in {3, 6}
    BY <1>5, <2>1, <2>2 DEF PlacesOK
  <2>3. CASE current.pc \notin {3, 6}
    <3>1. current.pc \in 4..9 /\ current.pc # 9
      BY <1>1, <1>5, <2>3
    <3>2. op \notin {"jump_if_false", "jump_over", "patch_jump"}
      BY <2>1, <2>3, <3>1 DEF PlacesOK
    <3> QED BY <1>2, <1>5, <3>1, <3>2 DEF ActivationOK
  <2> QED BY <2>2, <2>3
<1>6. Opened(act) = Opened(current)
  <2>1. CASE act.proc = "compile_function"
    <3>1. current.pc # 2 /\ current.pc # 10
      BY <1>1, <2>1 DEF PlacesOK, Placing
    <3>2. current.pc \in 3..10 <=> act.pc \in 3..10
      BY <1>1, <3>1, SMTT(30)
    <3> QED BY <3>2 DEF Opened
  <2>2. CASE act.proc # "compile_function"
    BY <2>2 DEF Opened
  <2> QED BY <2>1, <2>2
<1> QED BY <1>3, <1>4, <1>5, <1>6 DEF ActivationOK, Top

(* The places of a list: past its end, or back at its element.             *)
LEMMA ListPlace ==
  ASSUME CInv, NEW op \in {"first_item", "next_item"}, Doing(op),
         NEW act \in ActivationOf,
         act.proc = current.proc, act.comp = current.comp,
         act.pc = IF op = "first_item" THEN current.pc + 3 ELSE current.pc - 1
  PROVE  ActivationOK(act, emit) /\ Top(act) = Top(current)
<1>1. /\ current.proc \in Placing
      /\ current.pc \in 1..Len(Script[current.proc])
      /\ PlacesOK(current.proc, current.pc, op)
  BY DoingFacts DEF PlacedOps
<1>2. current.proc \in {"compile_call", "compile_function"}
  BY <1>1 DEF PlacesOK, PlacedOps, Placing
<1>3. act.pc <= Len(Script[act.proc]) + 1
  <2>1. CASE current.proc = "compile_call"
    <3>1. Len(Script["compile_call"]) = 8
      BY <1>1, <2>1, Places
    <3>2. act.pc \in {7, 5}
      BY <1>1, <2>1 DEF PlacesOK
    <3>3. Len(Script[act.proc]) = 8
      BY <2>1, <3>1
    <3> QED BY <3>2, <3>3
  <2>2. CASE current.proc = "compile_function"
    <3>1. Len(Script["compile_function"]) = 10
      BY <1>1, <2>2, Places
    <3>2. act.pc \in {6, 4}
      BY <1>1, <2>2 DEF PlacesOK
    <3>3. Len(Script[act.proc]) = 10
      BY <2>2, <3>1
    <3> QED BY <3>2, <3>3
  <2> QED BY <1>2, <2>1, <2>2
<1>4. Opened(act) = Opened(current)
  <2>1. CASE current.proc = "compile_function"
    <3>1. current.pc \in {3, 5} /\ act.pc \in {6, 4}
      BY <1>1, <2>1 DEF PlacesOK
    <3> QED BY <3>1 DEF Opened
  <2>2. CASE current.proc # "compile_function"
    BY <2>2 DEF Opened
  <2> QED BY <2>1, <2>2
<1> QED BY <1>2, <1>3, <1>4 DEF ActivationOK, Top

(* The running function goes on.                                           *)
LEMMA BecomeKeeps ==
  ASSUME CInv, calls # <<>>, NEW act, ActivationOK(act, emit), emit' = emit,
         act.comp = current.comp, Become(act), Len(comps') = Top(act)
  PROVE  CallsInv'
<1>1. /\ calls \in Seq(ActivationOf) /\ Len(calls) \in Nat \ {0}
      /\ depth = Len(calls) /\ current = calls[depth]
  BY CurrentFacts DEF CInv, CallsInv
<1>2. act \in ActivationOf
  BY DEF ActivationOK
<1>3. calls' = [calls EXCEPT ![Len(calls)] = act]
  BY <1>1 DEF Become
<1>4. PICK next : next = [calls EXCEPT ![Len(calls)] = act]
  OBVIOUS
<1>5. /\ next \in Seq(ActivationOf) /\ Len(next) = Len(calls)
      /\ \A i \in 1..Len(calls) : next[i] = IF i = Len(calls) THEN act ELSE calls[i]
  BY <1>1, <1>2, <1>4, ExceptSeq
<1>6. /\ \A i \in 1..Len(calls) : ActivationOK(calls[i], emit)
      /\ \A i, j \in 1..Len(calls) : i < j => Top(calls[i]) <= calls[j].comp
      /\ \A i \in 1..(Len(calls) - 1) : calls[i + 1].comp = Top(calls[i])
  BY DEF CInv, CallsInv
<1>7. \A i \in 1..Len(next) : ActivationOK(next[i], emit)
  BY <1>5, <1>6
<1>8. ASSUME NEW i \in 1..Len(calls), NEW j \in 1..Len(calls), i < j
      PROVE  Top(next[i]) <= next[j].comp
  <2>1. next[i] = calls[i]
    BY <1>1, <1>5, <1>8
  <2>2. next[j].comp = calls[j].comp
    BY <1>1, <1>5
  <2> QED BY <1>6, <1>8, <2>1, <2>2
<1>9. ASSUME NEW i \in 1..(Len(calls) - 1)
      PROVE  next[i + 1].comp = Top(next[i])
  <2>1. i \in 1..Len(calls) /\ i + 1 \in 1..Len(calls) /\ i # Len(calls)
    BY <1>1
  <2>2. next[i] = calls[i] /\ next[i + 1].comp = calls[i + 1].comp
    BY <1>1, <1>5, <2>1
  <2> QED BY <1>6, <2>2
<1>10. next[Len(next)] = act
  <2>1. Len(calls) \in 1..Len(calls)
    BY <1>1
  <2> QED BY <1>5, <2>1
<1>11. calls' = next
  BY <1>3, <1>4
<1> QED BY <1>5, <1>7, <1>8, <1>9, <1>10, <1>11 DEF CallsInv

-----------------------------------------------------------------------------
(* Steps that leave the scopes alone.                                      *)

LEMMA ScopesSame ==
  ASSUME ScopesInv, functions' = functions, comps' = comps
  PROVE  ScopesInv'
BY DEF ScopesInv, CapturesLead, SlotsDistinct

LEMMA StopKeeps ==
  ASSUME CInv, TokensInv', UNCHANGED <<file, emit, calls, comps, functions, strs>>,
         phase' \in {"failed", "undefined", "done"}
  PROVE  CInv'
<1>1. CallsInv'
  BY DEF CInv, CallsInv, ActivationOK, Opened, Top
<1>2. ScopesInv'
  BY ScopesSame DEF CInv
<1>3. strs' \in Seq(Range_(strs'))
  BY DEF CInv
<1> QED BY <1>1, <1>2, <1>3 DEF CInv

LEMMA TokensSame ==
  ASSUME TokensInv, src' = src, pos' = pos
  PROVE  TokensInv'
BY DEF TokensInv, NothingAfterEnd

LEMMA UndefinedKeeps ==
  ASSUME CInv, Undefined
  PROVE  CInv'
<1>1. TokensInv'
  BY TokensSame DEF CInv, Undefined
<1> QED BY <1>1, StopKeeps DEF Undefined

LEMMA FailKeeps ==
  ASSUME CInv, NEW n \in Nat, \A m \in 0..(n - 1) : Ahead(m).kind \in Wanted,
         NEW error, FailAt(n, error)
  PROVE  CInv'
<1>1. TokensInv'
  BY PassTokens DEF CInv, FailAt
<1> QED BY <1>1, StopKeeps DEF FailAt

LEMMA FailHereKeeps ==
  ASSUME CInv, NEW error, Fail(error)
  PROVE  CInv'
<1>1. \A m \in 0..(0 - 1) : Ahead(m).kind \in Wanted
  OBVIOUS
<1> QED BY <1>1, FailKeeps DEF Fail

LEMMA OutOfMemoryKeeps ==
  ASSUME CInv, OutOfMemory
  PROVE  CInv'
BY FailHereKeeps DEF OutOfMemory

LEMMA UnexpectedKeeps ==
  ASSUME CInv, NEW n \in Nat, \A m \in 0..(n - 1) : Ahead(m).kind \in Wanted,
         result_unexpected_token_error(n)
  PROVE  CInv'
<1>1. PICK error : FailAt(n, error)
  BY DEF result_unexpected_token_error
<1> QED BY <1>1, FailKeeps

LEMMA GoOn ==
  ASSUME CInv, calls # <<>>, NEW act, ActivationOK(act, emit), act.comp = current.comp,
         Top(act) = Top(current), Become(act), TokensInv', ScopesInv',
         Len(comps') = Len(comps), strs' \in Seq(Range_(strs')),
         UNCHANGED <<file, emit, phase>>, functions' = <<>> => functions = <<>>,
         phase # "idle"
  PROVE  CInv'
<1>1. Len(comps') = Top(act)
  BY CurrentFacts
<1>2. CallsInv'
  BY <1>1, BecomeKeeps
<1> QED BY <1>2 DEF CInv

LEMMA NextTokenKeeps ==
  ASSUME CInv, phase = "compiling", calls # <<>>,
         NEW n \in Nat, \A m \in 0..(n - 1) : Ahead(m).kind \in Wanted,
         NEW act, ActivationOK(act, emit), act.comp = current.comp, Top(act) = Top(current),
         next_token(n, act)
  PROVE  CInv'
<1>1. CASE Ahead(n).kind = "BAD" /\ result_unexpected_token_error(n)
  BY <1>1, UnexpectedKeeps
<1>2. CASE /\ Ahead(n).kind # "BAD"
           /\ pos' = Skip(n)
           /\ Become(act)
           /\ UNCHANGED <<file, src, emit, comps, functions, strs, phase, result>>
  <2>1. TokensInv'
    BY <1>2, PassTokens DEF CInv
  <2>2. ScopesInv'
    BY <1>2, ScopesSame DEF CInv
  <2>3. strs' \in Seq(Range_(strs'))
    BY <1>2 DEF CInv
  <2> QED BY <1>2, <2>1, <2>2, <2>3, GoOn
<1> QED BY <1>1, <1>2 DEF next_token

LEMMA AdvanceKeeps ==
  ASSUME CInv, NEW op, Doing(op),
         op \notin {"open_function", "close_function", "operator", "keep", "keep_bool"},
         op \in {"jump_if_false", "jump_over"} => ~emit,
         Advance, UNCHANGED <<steady, pos, comps, functions, strs>>
  PROVE  CInv'
<1>1. PICK act : act = [current EXCEPT !.pc = @ + 1]
  OBVIOUS
<1>2. current \in ActivationOf /\ calls # <<>> /\ phase = "compiling"
  BY DoingFacts, CurrentFacts
<1>3. /\ act \in ActivationOf /\ act.proc = current.proc /\ act.comp = current.comp
      /\ act.pc = current.pc + 1 /\ act.token = current.token /\ act.jump = current.jump
  BY <1>1, <1>2 DEF ActivationOf
<1>4. ActivationOK(act, emit) /\ Top(act) = Top(current)
  BY <1>3, NextPlace
<1>5. Become(act)
  BY <1>1 DEF Advance
<1>6. TokensInv' /\ ScopesInv' /\ strs' \in Seq(Range_(strs'))
  BY TokensSame, ScopesSame DEF CInv, steady
<1> QED BY <1>2, <1>3, <1>4, <1>5, <1>6, GoOn DEF steady

-----------------------------------------------------------------------------
(* Tokens.                                                                 *)

LEMMA NextTokenOf ==
  ASSUME CInv, NEW op, Doing(op),
         op \notin {"open_function", "close_function", "operator", "jump_if_false",
                    "jump_over", "patch_jump"},
         NEW n \in Nat, \A m \in 0..(n - 1) : Ahead(m).kind \in Wanted,
         NEW t \in TokenOf, op \notin {"keep", "keep_bool"} => t = current.token,
         next_token(n, [current EXCEPT !.pc = @ + 1, !.token = t])
  PROVE  CInv'
<1>1. PICK act : act = [current EXCEPT !.pc = @ + 1, !.token = t]
  OBVIOUS
<1>2. current \in ActivationOf /\ calls # <<>> /\ phase = "compiling"
  BY DoingFacts, CurrentFacts
<1>3. PICK a \in ActivationOf : a = current
  BY <1>2
<1>4. a.pc + 1 \in Nat \ {0}
  BY DEF ActivationOf
<1>9. PICK p \in Nat \ {0} : p = a.pc + 1
  BY <1>4
<1>5. act = [a EXCEPT !.pc = p, !.token = t] /\ act \in ActivationOf
  <2>1. [a EXCEPT !.pc = p, !.token = t] \in ActivationOf
    BY UpdateToken
  <2> QED BY <1>1, <1>3, <1>9, <2>1
<1>6. /\ act.proc = current.proc /\ act.comp = current.comp
      /\ act.pc = current.pc + 1 /\ act.token = t /\ act.jump = current.jump
  BY <1>3, <1>5, <1>9 DEF ActivationOf
<1>7. ActivationOK(act, emit) /\ Top(act) = Top(current)
  BY <1>5, <1>6, NextPlace
<1>8. next_token(n, act)
  BY <1>1
<1> QED BY <1>2, <1>6, <1>7, <1>8, NextTokenKeeps

LEMMA SameToken ==
  ASSUME CInv, calls # <<>>
  PROVE  /\ current.token \in TokenOf
         /\ [current EXCEPT !.pc = @ + 1]
              = [current EXCEPT !.pc = @ + 1, !.token = current.token]
<1>1. current \in ActivationOf
  BY CurrentFacts
<1> QED BY <1>1 DEF ActivationOf

LEMMA consumeKeeps ==
  ASSUME CInv, consume
  PROVE  CInv'
<1>1. PICK wants : wants = item.arg
  OBVIOUS
<1>2. Doing("consume")
  BY DEF consume
<1>3. item \in Items /\ item.op = "consume" /\ calls # <<>>
  BY <1>2, DoingFacts
<1>4. wants \in Seq(WantOf)
  <2>1. PICK it \in Items : it = item
    BY <1>3
  <2> QED BY <1>1, <1>3, <2>1, ItemArgs
<1>5. DOMAIN wants = 1..Len(wants) /\ Len(wants) \in Nat
  BY <1>4, LenProperties
<1>6. ASSUME NEW m \in Nat, NEW n \in DOMAIN wants, m = n - 1,
             Accepts(wants[n], Ahead(n - 1))
      PROVE  Ahead(m).kind \in Wanted
  <2>1. wants[n] \in WantOf
    BY <1>4, <1>5
  <2> QED BY <1>6, <2>1 DEF Accepts, WantOf
<1>7. ASSUME NEW n \in DOMAIN wants,
             \A m \in 1..(n - 1) : Accepts(wants[m], Ahead(m - 1)),
             result_unexpected_token_error(n - 1)
      PROVE  CInv'
  <2>1. n - 1 \in Nat
    BY <1>5
  <2>2. ASSUME NEW m \in 0..((n - 1) - 1) PROVE Ahead(m).kind \in Wanted
    <3>1. m + 1 \in 1..(n - 1) /\ m + 1 \in DOMAIN wants /\ m = (m + 1) - 1 /\ m \in Nat
      BY <1>5
    <3>2. Accepts(wants[m + 1], Ahead((m + 1) - 1))
      BY <1>7, <3>1
    <3> QED BY <1>6, <3>1, <3>2
  <2> QED BY <1>7, <2>1, <2>2, UnexpectedKeeps
<1>8. ASSUME \A n \in DOMAIN wants : Accepts(wants[n], Ahead(n - 1)),
             next_token(Len(wants), [current EXCEPT !.pc = @ + 1])
      PROVE  CInv'
  <2>1. ASSUME NEW m \in 0..(Len(wants) - 1) PROVE Ahead(m).kind \in Wanted
    <3>1. m + 1 \in DOMAIN wants /\ m = (m + 1) - 1 /\ m \in Nat
      BY <1>5
    <3>2. Accepts(wants[m + 1], Ahead((m + 1) - 1))
      BY <1>8, <3>1
    <3> QED BY <1>6, <3>1, <3>2
  <2>2. current.token \in TokenOf
        /\ next_token(Len(wants), [current EXCEPT !.pc = @ + 1, !.token = current.token])
    BY <1>3, <1>8, SameToken
  <2>3. PICK t \in TokenOf : t = current.token
    BY <2>2
  <2>4. next_token(Len(wants), [current EXCEPT !.pc = @ + 1, !.token = t])
    BY <2>2, <2>3
  <2> QED BY <1>2, <1>5, <2>1, <2>3, <2>4, NextTokenOf
<1> QED BY <1>1, <1>7, <1>8 DEF consume

(* A token of one of two kinds is kept.                                    *)
LEMMA Keeping ==
  ASSUME CInv, NEW op \in {"keep", "keep_bool"}, Doing(op), token.kind \in Wanted,
         next_token(1, [current EXCEPT !.pc = @ + 1, !.token = token])
  PROVE  CInv'
<1>1. token = Ahead(0)
  BY DEF token
<1>2. token \in TokenOf
  BY <1>1, TokenTypes DEF CInv, Wanted
<1>3. \A m \in 0..(1 - 1) : Ahead(m).kind \in Wanted
  <2>1. \A m \in 0..(1 - 1) : m = 0
    OBVIOUS
  <2> QED BY <1>1, <2>1
<1>4. PICK t \in TokenOf : t = token
  BY <1>2
<1>5. next_token(1, [current EXCEPT !.pc = @ + 1, !.token = t])
  BY <1>4
<1> QED BY <1>3, <1>5, NextTokenOf

LEMMA NoneBefore == \A m \in 0..(0 - 1) : Ahead(m).kind \in Wanted
OBVIOUS

LEMMA keepKeeps ==
  ASSUME CInv, keep
  PROVE  CInv'
<1>1. Doing("keep")
  BY DEF keep
<1>2. item.arg \in {"STRING", "INT"}
  <2>1. item \in Items /\ item.op = "keep"
    BY <1>1, DoingFacts
  <2>2. PICK it \in Items : it = item
    BY <2>1
  <2> QED BY <2>1, <2>2, ItemArgs
<1>3. CASE token.kind = item.arg
           /\ next_token(1, [current EXCEPT !.pc = @ + 1, !.token = token])
  BY <1>1, <1>2, <1>3, Keeping DEF Wanted
<1>4. CASE result_unexpected_token_error(0)
  BY <1>4, NoneBefore, UnexpectedKeeps
<1> QED BY <1>3, <1>4 DEF keep

LEMMA keep_boolKeeps ==
  ASSUME CInv, keep_bool
  PROVE  CInv'
<1>1. Doing("keep_bool")
  BY DEF keep_bool
<1>2. CASE token.kind \in {"false", "true"}
           /\ next_token(1, [current EXCEPT !.pc = @ + 1, !.token = token])
  BY <1>1, <1>2, Keeping DEF Wanted
<1>3. CASE result_unexpected_token_error(0)
  BY <1>3, NoneBefore, UnexpectedKeeps
<1> QED BY <1>2, <1>3 DEF keep_bool

LEMMA OneBefore ==
  ASSUME token.kind \in Wanted
  PROVE  \A m \in 0..(1 - 1) : Ahead(m).kind \in Wanted
<1>1. \A m \in 0..(1 - 1) : m = 0
  OBVIOUS
<1> QED BY <1>1 DEF token

LEMMA first_itemKeeps ==
  ASSUME CInv, first_item
  PROVE  CInv'
<1>1. Doing("first_item")
  BY DEF first_item
<1>2. current \in ActivationOf /\ calls # <<>> /\ phase = "compiling"
  BY <1>1, DoingFacts, CurrentFacts
<1>3. CASE token.kind = "]" /\ next_token(1, [current EXCEPT !.pc = @ + 3])
  <2>1. PICK act : act = [current EXCEPT !.pc = @ + 3]
    OBVIOUS
  <2>2. /\ act \in ActivationOf /\ act.proc = current.proc /\ act.comp = current.comp
        /\ act.pc = current.pc + 3
    BY <1>2, <2>1 DEF ActivationOf
  <2>3. ActivationOK(act, emit) /\ Top(act) = Top(current)
    BY <1>1, <2>2, ListPlace
  <2>4. \A m \in 0..(1 - 1) : Ahead(m).kind \in Wanted
    BY <1>3, OneBefore DEF Wanted
  <2>5. next_token(1, act)
    BY <1>3, <2>1
  <2> QED BY <1>2, <2>2, <2>3, <2>4, <2>5, NextTokenKeeps
<1>4. CASE Advance /\ UNCHANGED <<steady, pos, comps, functions, strs>>
  BY <1>1, <1>4, AdvanceKeeps
<1> QED BY <1>3, <1>4 DEF first_item

LEMMA next_itemKeeps ==
  ASSUME CInv, next_item
  PROVE  CInv'
<1>1. Doing("next_item")
  BY DEF next_item
<1>2. current \in ActivationOf /\ calls # <<>> /\ phase = "compiling"
  BY <1>1, DoingFacts, CurrentFacts
<1>3. PICK counted : counted = Counted
  OBVIOUS
<1>7. /\ counted \in ActivationOf /\ counted.proc = current.proc
      /\ counted.comp = current.comp /\ counted.pc = current.pc
      /\ counted.token = current.token /\ counted.jump = current.jump
  <2>1. PICK a \in ActivationOf : a = current
    BY <1>2
  <2>2. a.count + 1 \in Nat
    BY DEF ActivationOf
  <2>3. PICK n \in 0..UINT8_MAX : n = (a.count + 1) % (UINT8_MAX + 1)
    BY <2>2, Bytes
  <2>4. counted = [a EXCEPT !.count = n]
    BY <1>3, <2>1, <2>3 DEF Counted
  <2>5. counted \in ActivationOf
    BY <2>4, UpdateCount
  <2> QED BY <2>1, <2>4, <2>5 DEF ActivationOf
<1>4. CASE token.kind = "]" /\ next_token(1, [Counted EXCEPT !.pc = @ + 1])
  <2>1. PICK act : act = [Counted EXCEPT !.pc = @ + 1]
    OBVIOUS
  <2>2. /\ act \in ActivationOf /\ act.proc = current.proc /\ act.comp = current.comp
        /\ act.pc = current.pc + 1 /\ act.token = current.token /\ act.jump = current.jump
    BY <1>3, <1>7, <2>1 DEF ActivationOf
  <2>3. ActivationOK(act, emit) /\ Top(act) = Top(current)
    BY <1>1, <2>2, NextPlace
  <2>4. \A m \in 0..(1 - 1) : Ahead(m).kind \in Wanted
    BY <1>4, OneBefore DEF Wanted
  <2>5. next_token(1, act)
    BY <1>4, <2>1
  <2> QED BY <1>2, <2>2, <2>3, <2>4, <2>5, NextTokenKeeps
<1>5. CASE token.kind = "," /\ next_token(1, [Counted EXCEPT !.pc = @ - 1])
  <2>1. PICK act : act = [Counted EXCEPT !.pc = @ - 1]
    OBVIOUS
  <2>2. current.pc > 1
    <3>1. current.proc \in Placing /\ PlacesOK(current.proc, current.pc, "next_item")
      BY <1>1, DoingFacts DEF PlacedOps
    <3> QED BY <3>1 DEF PlacesOK, PlacedOps, Placing
  <2>3. /\ act \in ActivationOf /\ act.proc = current.proc /\ act.comp = current.comp
        /\ act.pc = current.pc - 1
    BY <1>3, <1>7, <2>1, <2>2 DEF ActivationOf
  <2>4. ActivationOK(act, emit) /\ Top(act) = Top(current)
    BY <1>1, <2>3, ListPlace
  <2>5. \A m \in 0..(1 - 1) : Ahead(m).kind \in Wanted
    BY <1>5, OneBefore DEF Wanted
  <2>6. next_token(1, act)
    BY <1>5, <2>1
  <2> QED BY <1>2, <2>3, <2>4, <2>5, <2>6, NextTokenKeeps
<1>6. CASE result_unexpected_token_error(0)
  BY <1>6, NoneBefore, UnexpectedKeeps
<1> QED BY <1>4, <1>5, <1>6 DEF next_item

LEMMA operatorKeeps ==
  ASSUME CInv, operator
  PROVE  CInv'
<1>1. Doing("operator")
  BY DEF operator
<1>2. CASE Fail("unexpected operator")
  BY <1>2, FailHereKeeps
<1>3. CASE /\ Matches(Operators, current.token.text) # {}
           /\ Advance
           /\ UNCHANGED <<steady, pos, comps, functions, strs>>
  <2>1. PICK act : act = [current EXCEPT !.pc = @ + 1]
    OBVIOUS
  <2>2. current \in ActivationOf /\ calls # <<>> /\ phase = "compiling"
    BY <1>1, DoingFacts, CurrentFacts
  <2>3. /\ act \in ActivationOf /\ act.proc = current.proc /\ act.comp = current.comp
        /\ act.pc = current.pc + 1 /\ act.token = current.token /\ act.jump = current.jump
    BY <2>1, <2>2 DEF ActivationOf
  <2>4. Matches(Operators, act.token.text) # {}
    BY <1>3, <2>3
  <2>5. ActivationOK(act, emit) /\ Top(act) = Top(current)
    BY <1>1, <2>3, <2>4, NextPlace
  <2>6. Become(act)
    BY <1>3, <2>1 DEF Advance
  <2>7. TokensInv' /\ ScopesInv' /\ strs' \in Seq(Range_(strs'))
    BY <1>3, TokensSame, ScopesSame DEF CInv, steady
  <2> QED BY <1>3, <2>2, <2>3, <2>5, <2>6, <2>7, GoOn DEF steady
<1> QED BY <1>2, <1>3 DEF operator

-----------------------------------------------------------------------------
(* Calls.                                                                  *)

LEMMA NoToken == [kind |-> "EOF", text |-> "", num |-> 0] \in TokenOf
BY DEF TokenOf, TokenKinds, Texts

LEMMA EnterKeeps ==
  ASSUME CInv, NEW op \in {"call", "term", "dispatch"}, Doing(op),
         NEW proc \in DOMAIN Script, NEW isTail \in BOOLEAN, Enter(proc, isTail)
  PROVE  CInv'
<1>1. /\ current \in ActivationOf /\ calls # <<>> /\ phase = "compiling"
      /\ depth = Len(calls) /\ Len(calls) \in Nat \ {0}
      /\ Len(comps) = Top(current) /\ Len(comps) \in Nat \ {0}
      /\ Top(current) = current.comp + Opened(current)
      /\ Opened(current) \in {0, 1} /\ current = calls[Len(calls)]
  BY DoingFacts, CurrentFacts
<1>2. PICK act : act = [current EXCEPT !.pc = @ + 1]
  OBVIOUS
<1>3. /\ act \in ActivationOf /\ act.proc = current.proc /\ act.comp = current.comp
      /\ act.pc = current.pc + 1 /\ act.token = current.token /\ act.jump = current.jump
  BY <1>1, <1>2 DEF ActivationOf
<1>4. ActivationOK(act, emit) /\ Top(act) = Top(current)
  BY <1>3, NextPlace
<1>5. PICK new : new = Activation(proc, isTail)
  OBVIOUS
<1>6. /\ new \in ActivationOf /\ new.pc = 1 /\ new.comp = Len(comps)
      /\ new.jump = NoJump /\ new.proc = proc
  <2>1. PICK t \in TokenOf : t = [kind |-> "EOF", text |-> "", num |-> 0]
    BY NoToken
  <2>2. PICK m \in Nat \ {0} : m = Len(comps)
    BY <1>1
  <2>3. new = [proc |-> proc, pc |-> 1, isTail |-> isTail, comp |-> m, token |-> t,
               count |-> 0, jump |-> NoJump]
    BY <1>5, <2>1, <2>2 DEF Activation
  <2>4. 0 \in 0..UINT8_MAX
    BY Bytes
  <2> QED BY <2>2, <2>3, <2>4 DEF ActivationOf
<1>7. ActivationOK(new, emit) /\ Top(new) = Len(comps)
  <2>1. Len(Script[proc]) \in Nat
    BY PlainScripts, PlacedScripts, LenProperties
  <2>2. ActivationOK(new, emit)
    BY <1>6, <2>1 DEF ActivationOK
  <2>3. Opened(new) = 0
    BY <1>6 DEF Opened
  <2> QED BY <1>1, <1>6, <2>2, <2>3 DEF Top
<1>8. PICK base : base = [calls EXCEPT ![Len(calls)] = act]
  OBVIOUS
<1>9. /\ calls \in Seq(ActivationOf)
      /\ \A i \in 1..Len(calls) : ActivationOK(calls[i], emit)
      /\ \A i, j \in 1..Len(calls) : i < j => Top(calls[i]) <= calls[j].comp
      /\ \A i \in 1..(Len(calls) - 1) : calls[i + 1].comp = Top(calls[i])
  BY DEF CInv, CallsInv
<1>10. /\ base \in Seq(ActivationOf) /\ Len(base) = Len(calls)
       /\ \A i \in 1..Len(calls) : base[i] = IF i = Len(calls) THEN act ELSE calls[i]
  BY <1>1, <1>3, <1>8, <1>9, ExceptSeq
<1>11. /\ Append(base, new) \in Seq(ActivationOf)
       /\ Len(Append(base, new)) = Len(calls) + 1
       /\ Append(base, new)[Len(calls) + 1] = new
       /\ \A i \in 1..Len(calls) : Append(base, new)[i] = base[i]
  BY <1>6, <1>10, AppendProperties
<1>12. [calls EXCEPT ![depth].pc = @ + 1] = base
  BY <1>1, <1>2, <1>8
<1>13. calls' = Append(base, new)
  BY <1>5, <1>12 DEF Enter
<1>14. /\ calls' \in Seq(ActivationOf) /\ Len(calls') = Len(calls) + 1
       /\ calls'[Len(calls) + 1] = new /\ calls'[Len(calls)] = act
       /\ \A i \in 1..Len(calls) : i # Len(calls) => calls'[i] = calls[i]
  BY <1>1, <1>10, <1>11, <1>13
<1>15. UNCHANGED <<file, src, emit, phase, result, pos, comps, functions, strs>>
  BY DEF Enter, steady
<1>16. PICK next : next = calls'
  OBVIOUS
<1>17. ASSUME NEW i \in 1..Len(next) PROVE ActivationOK(next[i], emit')
  BY <1>1, <1>4, <1>7, <1>9, <1>14, <1>16, <1>15, <1>16
<1>18. \A i \in 1..Len(calls) : Top(calls[i]) <= Len(comps)
  <2>1. \A i \in 1..Len(calls) : i < Len(calls) => Top(calls[i]) <= current.comp
    BY <1>1, <1>9
  <2>2. \A i \in 1..Len(calls) : Top(calls[i]) \in Nat
    <3> SUFFICES ASSUME NEW i \in 1..Len(calls) PROVE Top(calls[i]) \in Nat
      OBVIOUS
    <3>1. calls[i] \in ActivationOf
      BY <1>9
    <3>2. calls[i].comp \in Nat /\ Opened(calls[i]) \in Nat
      BY <3>1 DEF ActivationOf, Opened
    <3> QED BY <3>2 DEF Top
  <2>3. current.comp \in Nat
    BY <1>1 DEF ActivationOf
  <2> QED BY <1>1, <2>1, <2>2, <2>3
<1>19. ASSUME NEW i \in 1..Len(next), NEW j \in 1..Len(next), i < j
       PROVE  Top(next[i]) <= next[j].comp
  <2>1. i \in 1..Len(calls) /\ Top(next[i]) = Top(calls[i])
    BY <1>1, <1>4, <1>14, <1>16, <1>19
  <2>2. CASE j = Len(calls) + 1
    BY <1>6, <1>14, <1>16, <1>18, <2>1, <2>2
  <2>3. CASE j # Len(calls) + 1
    <3>1. j \in 1..Len(calls)
      BY <1>1, <1>14, <1>16, <2>3
    <3>2. next[j].comp = calls[j].comp
      BY <1>1, <1>3, <1>14, <1>16, <3>1
    <3> QED BY <1>9, <1>19, <2>1, <3>1, <3>2
  <2> QED BY <2>2, <2>3
<1>20. ASSUME NEW i \in 1..(Len(next) - 1)
       PROVE  next[i + 1].comp = Top(next[i])
  <2>1. CASE i = Len(calls)
    BY <1>1, <1>4, <1>6, <1>14, <1>16, <2>1
  <2>2. CASE i # Len(calls)
    <3>1. i \in 1..(Len(calls) - 1)
      BY <1>1, <1>14, <1>16, <2>2
    <3>2. next[i] = calls[i] /\ next[i + 1].comp = calls[i + 1].comp
      BY <1>1, <1>3, <1>14, <1>16, <3>1
    <3> QED BY <1>9, <3>1, <3>2
  <2> QED BY <2>1, <2>2
<1>21. Len(comps') = Top(next[Len(next)])
  BY <1>7, <1>14, <1>16, <1>15
<1>22. CallsInv'
  BY <1>14, <1>16, <1>17, <1>19, <1>20, <1>21 DEF CallsInv
<1>23. TokensInv' /\ ScopesInv' /\ strs' \in Seq(Range_(strs'))
  BY <1>15, TokensSame, ScopesSame DEF CInv
<1> QED BY <1>15, <1>22, <1>23 DEF CInv

LEMMA callKeeps ==
  ASSUME CInv, call
  PROVE  CInv'
<1>1. Doing("call") /\ Enter(item.arg, FALSE)
  BY DEF call
<1>2. item \in Items /\ item.op = "call"
  BY <1>1, DoingFacts
<1>3. PICK it \in Items : it = item
  BY <1>2
<1>4. item.arg = "compile_parameter"
  BY <1>2, <1>3, ItemArgs
<1>5. "compile_parameter" \in DOMAIN Script
  BY DEF Script
<1> QED BY <1>1, <1>4, <1>5, EnterKeeps

LEMMA termKeeps ==
  ASSUME CInv, term
  PROVE  CInv'
<1>1. Doing("term") /\ Enter("compile_term", item.arg)
  BY DEF term
<1>2. item \in Items /\ item.op = "term"
  BY <1>1, DoingFacts
<1>3. PICK it \in Items : it = item
  BY <1>2
<1>4. it.arg \in BOOLEAN
  BY <1>2, <1>3, ItemArgs
<1>5. "compile_term" \in DOMAIN Script
  BY DEF Script
<1> QED BY <1>1, <1>3, <1>4, <1>5, EnterKeeps

LEMMA KindsAre == \A i \in DOMAIN Kinds : Kinds[i][2] \in DOMAIN Script
<1>1. Len(Kinds) = 13 /\ DOMAIN Kinds = 1..13
  BY DEF Kinds
<1>2. \A i \in 1..13 : i \in {1, 2, 3, 4, 5, 6, 7, 8, 9, 10, 11, 12, 13}
  OBVIOUS
<1>3. /\ Kinds[1][2] = "compile_int" /\ Kinds[2][2] = "compile_str"
      /\ Kinds[3][2] = "compile_call" /\ Kinds[4][2] = "compile_binary"
      /\ Kinds[5][2] = "compile_function" /\ Kinds[6][2] = "compile_let"
      /\ Kinds[7][2] = "compile_if" /\ Kinds[8][2] = "compile_print"
      /\ Kinds[9][2] = "compile_first" /\ Kinds[10][2] = "compile_second"
      /\ Kinds[11][2] = "compile_bool" /\ Kinds[12][2] = "compile_tuple"
      /\ Kinds[13][2] = "compile_var"
  BY DEF Kinds
<1> QED BY <1>1, <1>2, <1>3 DEF Script

LEMMA dispatchKeeps ==
  ASSUME CInv, dispatch
  PROVE  CInv'
<1>1. Doing("dispatch")
  BY DEF dispatch
<1>2. ASSUME NEW i \in Matches(Kinds, current.token.text),
             Enter(Kinds[i][2], current.isTail)
      PROVE  CInv'
  <2>1. Kinds[i][2] \in DOMAIN Script
    BY KindsAre DEF Matches
  <2>2. current.isTail \in BOOLEAN
    BY <1>1, DoingFacts, CurrentFacts DEF ActivationOf
  <2>3. PICK b \in BOOLEAN : b = current.isTail
    BY <2>2
  <2> QED BY <1>1, <1>2, <2>1, <2>3, EnterKeeps
<1>3. CASE result_unexpected_token_error(0)
  BY <1>3, NoneBefore, UnexpectedKeeps
<1> QED BY <1>1, <1>2, <1>3 DEF dispatch

LEMMA returnKeeps ==
  ASSUME CInv, return
  PROVE  CInv'
<1>1. /\ calls # <<>> /\ phase = "compiling" /\ current.pc > Len(Script[current.proc])
      /\ calls' = SubSeq(calls, 1, depth - 1)
      /\ UNCHANGED <<file, src, emit, phase, result, pos, comps, functions, strs>>
  BY DEF return, steady
<1>2. /\ current \in ActivationOf /\ ActivationOK(current, emit)
      /\ depth = Len(calls) /\ Len(calls) \in Nat \ {0}
      /\ Len(comps) = Top(current) /\ Top(current) = current.comp + Opened(current)
      /\ current = calls[Len(calls)]
  BY <1>1, CurrentFacts
<1>3. Opened(current) = 0
  <2>1. CASE current.proc = "compile_function"
    <3>1. "compile_function" \in Placing /\ 10 \in 1..Len(Script["compile_function"])
          /\ Len(Script["compile_function"]) = 10
      <4>1. "compile_function" \in Placing
        BY DEF Placing
      <4>2. Len(Script["compile_function"]) >= 1 /\ Len(Script["compile_function"]) \in Nat
        BY <4>1, PlacedScripts, LenProperties
      <4>3. Len(Script["compile_function"]) = 10
        <5>1. 1 \in 1..Len(Script["compile_function"])
          BY <4>2
        <5> QED BY <4>1, <5>1, Places
      <4> QED BY <4>1, <4>3
    <3>2. current.pc > 10
      BY <1>1, <2>1, <3>1
    <3> QED BY <3>2 DEF Opened
  <2>2. CASE current.proc # "compile_function"
    BY <2>2 DEF Opened
  <2> QED BY <2>1, <2>2
<1>4. /\ calls \in Seq(ActivationOf)
      /\ \A i \in 1..Len(calls) : ActivationOK(calls[i], emit)
      /\ \A i, j \in 1..Len(calls) : i < j => Top(calls[i]) <= calls[j].comp
      /\ \A i \in 1..(Len(calls) - 1) : calls[i + 1].comp = Top(calls[i])
  BY DEF CInv, CallsInv
<1>5. /\ calls' \in Seq(ActivationOf) /\ Len(calls') = Len(calls) - 1
      /\ \A i \in 1..(Len(calls) - 1) : calls'[i] = calls[i]
  BY <1>1, <1>2, <1>4, SubSeqProperties
<1>6. PICK next : next = calls'
  OBVIOUS
<1>7. \A i \in 1..Len(next) : ActivationOK(next[i], emit')
  BY <1>1, <1>2, <1>4, <1>5, <1>6
<1>8. \A i, j \in 1..Len(next) : i < j => Top(next[i]) <= next[j].comp
  BY <1>2, <1>4, <1>5, <1>6
<1>9. \A i \in 1..(Len(next) - 1) : next[i + 1].comp = Top(next[i])
  <2> SUFFICES ASSUME NEW i \in 1..(Len(next) - 1)
               PROVE  next[i + 1].comp = Top(next[i])
    OBVIOUS
  <2>1. i \in 1..(Len(calls) - 1) /\ i + 1 \in 1..(Len(calls) - 1)
    BY <1>2, <1>5, <1>6
  <2> QED BY <1>4, <1>5, <1>6, <2>1
<1>10. next # <<>> => Len(comps') = Top(next[Len(next)])
  <2>1. SUFFICES ASSUME next # <<>> PROVE Len(comps') = Top(next[Len(next)])
    OBVIOUS
  <2>2. Len(calls) - 1 \in 1..(Len(calls) - 1)
    BY <1>2, <1>5, <1>6, <2>1, EmptySeq, LenProperties
  <2>3. calls[(Len(calls) - 1) + 1].comp = Top(calls[Len(calls) - 1])
    BY <1>4, <2>2
  <2>4. (Len(calls) - 1) + 1 = Len(calls)
    BY <1>2
  <2>5. current.comp = Top(calls[Len(calls) - 1])
    BY <1>2, <2>3, <2>4
  <2>6. current.comp \in Nat
    BY <1>2 DEF ActivationOf
  <2> QED BY <1>1, <1>2, <1>3, <1>5, <1>6, <2>2, <2>5, <2>6
<1>11. CallsInv'
  BY <1>5, <1>6, <1>7, <1>8, <1>9, <1>10 DEF CallsInv
<1>12. TokensInv' /\ ScopesInv' /\ strs' \in Seq(Range_(strs'))
  BY <1>1, TokensSame, ScopesSame DEF CInv
<1> QED BY <1>1, <1>11, <1>12 DEF CInv

-----------------------------------------------------------------------------
(* Emission.                                                               *)

LEMMA RewriteScopes ==
  ASSUME CInv, calls # <<>>, NEW newFn \in FunctionOf,
         newFn.nonlocals = fn.nonlocals, Rewrite(newFn), comps' = comps
  PROVE  ScopesInv' /\ functions' # <<>>
<1>1. /\ comp.fn \in 1..Len(functions) /\ Len(functions) \in Nat
      /\ fn = functions[comp.fn]
  BY CurrentFacts
<1>2. functions \in Seq(FunctionOf) /\ DOMAIN functions = 1..Len(functions)
  BY LenProperties DEF CInv, ScopesInv
<1>3. functions' = [functions EXCEPT ![comp.fn] = newFn]
  BY DEF Rewrite
<1>4. PICK f \in 1..Len(functions) : f = comp.fn
  BY <1>1
<1>5. functions' \in Seq(FunctionOf) /\ Len(functions') = Len(functions)
  BY <1>2, <1>3, <1>4, ExceptSeq
<1>6. \A g \in 1..Len(functions) : functions'[g].nonlocals = functions[g].nonlocals
  BY <1>1, <1>2, <1>3
<1>7. \A k \in 1..Len(comps) : comps[k].fn \in 1..Len(functions)
  BY RecordFacts
<1>8. \A k \in 1..Len(comps) :
        functions'[comps[k].fn].nonlocals = functions[comps[k].fn].nonlocals
  BY <1>6, <1>7
<1>9. CapturesLead'
  <2> SUFFICES ASSUME NEW k \in DOMAIN comps',
                      NEW v \in Range_(comps'[k].variables), ~v.isLocal
               PROVE  /\ k > 1
                      /\ v.index < Len(functions'[comps'[k].fn].nonlocals)
                      /\ \E u \in Range_(comps'[k - 1].variables) :
                           /\ u.name = v.name
                           /\ functions'[comps'[k].fn].nonlocals[v.index + 1]
                                = [isLocal |-> u.isLocal, index |-> u.index]
    BY DEF CapturesLead
  <2>1. /\ k > 1
        /\ v.index < Len(functions[comps[k].fn].nonlocals)
        /\ \E u \in Range_(comps[k - 1].variables) :
             /\ u.name = v.name
             /\ functions[comps[k].fn].nonlocals[v.index + 1]
                  = [isLocal |-> u.isLocal, index |-> u.index]
    BY DEF CInv, ScopesInv, CapturesLead
  <2>2. k \in 1..Len(comps)
    BY RecordFacts
  <2> QED BY <1>8, <2>1, <2>2
<1>10. SlotsDistinct'
  BY DEF CInv, ScopesInv, SlotsDistinct
<1>11. functions' # <<>>
  BY <1>1, <1>5, EmptySeq
<1> QED BY <1>5, <1>6, <1>7, <1>9, <1>10, <1>11 DEF CInv, ScopesInv

LEMMA RewriteKeeps ==
  ASSUME CInv, phase = "compiling", calls # <<>>, NEW newFn \in FunctionOf,
         newFn.nonlocals = fn.nonlocals, Rewrite(newFn),
         NEW act, ActivationOK(act, emit), act.comp = current.comp, Top(act) = Top(current),
         Become(act), UNCHANGED <<steady, pos, comps>>, strs' \in Seq(Range_(strs'))
  PROVE  CInv'
<1>1. ScopesInv' /\ functions' # <<>>
  BY RewriteScopes
<1>2. TokensInv'
  BY TokensSame DEF CInv, steady
<1> QED BY <1>1, <1>2, GoOn DEF steady

(* As the running function goes on at its next item.                       *)
LEMMA RewriteAdvance ==
  ASSUME CInv, NEW op, Doing(op),
         op \notin {"open_function", "close_function", "operator", "keep", "keep_bool",
                    "jump_if_false", "jump_over", "patch_jump"},
         NEW newFn \in FunctionOf, newFn.nonlocals = fn.nonlocals, Rewrite(newFn),
         Advance, UNCHANGED <<steady, pos, comps>>, strs' \in Seq(Range_(strs'))
  PROVE  CInv'
<1>1. PICK act : act = [current EXCEPT !.pc = @ + 1]
  OBVIOUS
<1>2. current \in ActivationOf /\ calls # <<>> /\ phase = "compiling"
  BY DoingFacts, CurrentFacts
<1>3. /\ act \in ActivationOf /\ act.proc = current.proc /\ act.comp = current.comp
      /\ act.pc = current.pc + 1 /\ act.token = current.token /\ act.jump = current.jump
  BY <1>1, <1>2 DEF ActivationOf
<1>4. ActivationOK(act, emit) /\ Top(act) = Top(current)
  BY <1>3, NextPlace
<1>5. Become(act)
  BY <1>1 DEF Advance
<1> QED BY <1>2, <1>3, <1>4, <1>5, RewriteKeeps

LEMMA EmitBytesKeeps ==
  ASSUME CInv, NEW op, Doing(op),
         op \notin {"open_function", "close_function", "operator", "keep", "keep_bool",
                    "jump_if_false", "jump_over", "patch_jump"},
         NEW bytes \in Seq(0..UINT8_MAX), EmitBytes(bytes)
  PROVE  CInv'
<1>1. fn \in FunctionOf
  BY DoingFacts, CurrentFacts
<1>2. PICK newFn : newFn = [fn EXCEPT !.code = @ \o bytes]
  OBVIOUS
<1>3. fn.code \o bytes \in Seq(0..UINT8_MAX)
  BY <1>1, ConcatProperties DEF FunctionOf
<1>4. newFn \in FunctionOf /\ newFn.nonlocals = fn.nonlocals
  BY <1>1, <1>2, <1>3 DEF FunctionOf
<1>5. Rewrite(newFn) /\ Advance /\ UNCHANGED <<steady, pos, comps>> /\ strs' = strs
  BY <1>2 DEF EmitBytes
<1>6. strs' \in Seq(Range_(strs'))
  BY <1>5 DEF CInv
<1> QED BY <1>4, <1>5, <1>6, RewriteAdvance

LEMMA OpCodes == \A i \in DOMAIN OpNames : OpCode(OpNames[i]) \in 0..UINT8_MAX
<1> SUFFICES ASSUME NEW i \in DOMAIN OpNames PROVE OpCode(OpNames[i]) \in 0..UINT8_MAX
  OBVIOUS
<1>1. Len(OpNames) = 30 /\ DOMAIN OpNames = 1..30
  BY DEF OpNames
<1>2. PICK k \in 1..30 : k = CHOOSE j \in DOMAIN OpNames : OpNames[j] = OpNames[i]
  BY <1>1
<1>3. OpCode(OpNames[i]) = k - 1
  BY <1>2 DEF OpCode
<1>4. PICK m \in Nat : m = UINT8_MAX /\ m >= 29
  BY Bytes
<1>5. k - 1 \in 0..m
  BY <1>4
<1> QED BY <1>3, <1>4, <1>5

Emitted == {"OP_FALSE", "OP_TRUE", "OP_INT", "OP_CONSTANT", "OP_TUPLE", "OP_CLOSURE",
            "OP_LOCAL", "OP_NONLOCAL", "OP_ADD", "OP_SUB", "OP_MUL", "OP_DIV", "OP_REM",
            "OP_EQ", "OP_NEQ", "OP_LT", "OP_GT", "OP_LTE", "OP_GTE", "OP_AND", "OP_OR",
            "OP_JUMP", "OP_JUMP_IF_FALSE", "OP_FIRST", "OP_SECOND", "OP_PRINT",
            "OP_CALL", "OP_TAIL_CALL", "OP_RETURN"}

LEMMA EmittedCodes == \A name \in Emitted : OpCode(name) \in 0..UINT8_MAX
<1>1. DOMAIN OpNames = 1..30
  BY DEF OpNames
<1>2. \A i \in 2..30 : OpCode(OpNames[i]) \in 0..UINT8_MAX
  BY <1>1, OpCodes
<1>3. /\ OpNames[2] = "OP_FALSE" /\ OpNames[3] = "OP_TRUE" /\ OpNames[4] = "OP_INT"
      /\ OpNames[5] = "OP_CONSTANT" /\ OpNames[6] = "OP_TUPLE" /\ OpNames[7] = "OP_CLOSURE"
      /\ OpNames[8] = "OP_LOCAL" /\ OpNames[9] = "OP_NONLOCAL" /\ OpNames[10] = "OP_ADD"
      /\ OpNames[11] = "OP_SUB" /\ OpNames[12] = "OP_MUL" /\ OpNames[13] = "OP_DIV"
      /\ OpNames[14] = "OP_REM" /\ OpNames[15] = "OP_EQ" /\ OpNames[16] = "OP_NEQ"
      /\ OpNames[17] = "OP_LT" /\ OpNames[18] = "OP_GT" /\ OpNames[19] = "OP_LTE"
      /\ OpNames[20] = "OP_GTE" /\ OpNames[21] = "OP_AND" /\ OpNames[22] = "OP_OR"
      /\ OpNames[23] = "OP_JUMP" /\ OpNames[24] = "OP_JUMP_IF_FALSE"
      /\ OpNames[25] = "OP_FIRST" /\ OpNames[26] = "OP_SECOND" /\ OpNames[27] = "OP_PRINT"
      /\ OpNames[28] = "OP_CALL" /\ OpNames[29] = "OP_TAIL_CALL"
      /\ OpNames[30] = "OP_RETURN"
  BY DEF OpNames
<1> QED BY <1>2, <1>3 DEF Emitted

LEMMA OperatorsAre == \A i \in DOMAIN Operators : Operators[i][2] \in Emitted
<1>1. Len(Operators) = 13 /\ DOMAIN Operators = 1..13
  BY DEF Operators
<1>2. \A i \in 1..13 : i \in {1, 2, 3, 4, 5, 6, 7, 8, 9, 10, 11, 12, 13}
  OBVIOUS
<1>3. /\ Operators[1][2] = "OP_ADD" /\ Operators[2][2] = "OP_SUB"
      /\ Operators[3][2] = "OP_MUL" /\ Operators[4][2] = "OP_DIV"
      /\ Operators[5][2] = "OP_REM" /\ Operators[6][2] = "OP_EQ"
      /\ Operators[7][2] = "OP_NEQ" /\ Operators[8][2] = "OP_LTE"
      /\ Operators[9][2] = "OP_LT" /\ Operators[10][2] = "OP_GTE"
      /\ Operators[11][2] = "OP_GT" /\ Operators[12][2] = "OP_AND"
      /\ Operators[13][2] = "OP_OR"
  BY DEF Operators
<1> QED BY <1>1, <1>2, <1>3 DEF Emitted

LEMMA WordFits ==
  ASSUME NEW w \in Nat, w <= UINT16_MAX
  PROVE  /\ w % (UINT8_MAX + 1) \in 0..UINT8_MAX
         /\ w \div (UINT8_MAX + 1) \in 0..UINT8_MAX
<1>1. PICK m \in Nat \ {0} : m = UINT8_MAX + 1
  BY ByteAssumption
<1>2. w < m * m
  BY <1>1 DEF UINT16_MAX
<1>3. w % m \in 0..(m - 1) /\ w \div m \in Nat /\ w = m * (w \div m) + (w % m)
  BY <1>1
<1>4. PICK q \in Nat : q = w \div m
  BY <1>3
<1>5. PICK r \in 0..(m - 1) : r = w % m
  BY <1>3
<1>6. m * q < m * m
  <2>1. w = m * q + r
    BY <1>3, <1>4, <1>5
  <2>2. m * q \in Nat /\ m * m \in Nat
    BY <1>1
  <2> QED BY <1>2, <1>5, <2>1, <2>2
<1>7. q < m
  <2>1. SUFFICES ASSUME q >= m PROVE FALSE
    BY <1>1
  <2>2. PICK e \in Nat : q = m + e
    <3>1. q - m \in Nat /\ q = m + (q - m)
      BY <2>1
    <3> QED BY <3>1
  <2>3. m * q = m * m + m * e /\ m * e \in Nat /\ m * m \in Nat
    BY <2>2
  <2> QED BY <1>6, <2>3
<1> QED BY <1>1, <1>3, <1>4, <1>7, ByteAssumption

LEMMA WordBytesAre ==
  ASSUME NEW w \in Nat, w <= UINT16_MAX
  PROVE  /\ WordBytes(w) \in Seq(0..UINT8_MAX)
         /\ WordBytes(w)[1] \in 0..UINT8_MAX /\ WordBytes(w)[2] \in 0..UINT8_MAX
BY WordFits DEF WordBytes

LEMMA ByteSeqs ==
  /\ \A a \in 0..UINT8_MAX : <<a>> \in Seq(0..UINT8_MAX)
  /\ \A a, b \in 0..UINT8_MAX : <<a, b>> \in Seq(0..UINT8_MAX)
  /\ \A a, b, c \in 0..UINT8_MAX : <<a, b, c>> \in Seq(0..UINT8_MAX)
OBVIOUS

LEMMA NotEmitting ==
  ASSUME CInv, NEW op, Doing(op), ~emit,
         op \notin {"open_function", "close_function", "operator", "keep", "keep_bool"},
         Advance, UNCHANGED <<steady, pos, comps, functions, strs>>
  PROVE  CInv'
BY AdvanceKeeps

LEMMA OperationIs ==
  ASSUME CInv, Doing("emit")
  PROVE  Operation \in Emitted
<1>1. /\ item \in Items /\ item.op = "emit" /\ calls # <<>>
      /\ current.proc \notin Placing => item \in PlainItems
      /\ current.proc \in Placing => PlacesOK(current.proc, current.pc, "emit")
  BY DoingFacts
<1>2. PICK it \in Items : it = item
  BY <1>1
<1>3. /\ it.arg \in {"OP_RETURN", "OP_PRINT", "OP_FIRST", "OP_SECOND", "OP_TUPLE",
                     "bool", "operator"}
      /\ it \in PlainItems => it.arg # "operator"
  BY <1>1, <1>2, ItemArgs
<1>4. CASE it.arg = "operator"
  <2>1. current.proc = "compile_binary" /\ current.pc = 9
    BY <1>1, <1>2, <1>3, <1>4 DEF PlacesOK, Placing
  <2>2. ActivationOK(current, emit)
    BY <1>1, CurrentFacts
  <2>3. Matches(Operators, current.token.text) # {}
    BY <2>1, <2>2 DEF ActivationOK
  <2>4. PICK i : i = CHOOSE j \in Matches(Operators, current.token.text) : TRUE
    OBVIOUS
  <2>5. i \in DOMAIN Operators
    BY <2>3, <2>4 DEF Matches
  <2>6. Operation = Operators[i][2]
    BY <1>2, <1>4, <2>4 DEF Operation
  <2> QED BY <2>5, <2>6, OperatorsAre
<1>5. CASE it.arg = "bool"
  BY <1>2, <1>5 DEF Operation, Emitted
<1>6. CASE it.arg \notin {"operator", "bool"}
  BY <1>2, <1>3, <1>6 DEF Operation, Emitted
<1> QED BY <1>4, <1>5, <1>6

LEMMA chunk_emit_byteKeeps ==
  ASSUME CInv, chunk_emit_byte
  PROVE  CInv'
<1>1. Doing("emit")
  BY DEF chunk_emit_byte
<1>2. CASE ~emit /\ Advance /\ UNCHANGED <<steady, pos, comps, functions, strs>>
  BY <1>1, <1>2, NotEmitting
<1>3. CASE OutOfMemory
  BY <1>3, OutOfMemoryKeeps
<1>4. CASE EmitBytes(<<OpCode(Operation)>>)
  <2>1. OpCode(Operation) \in 0..UINT8_MAX
    BY <1>1, OperationIs, EmittedCodes
  <2>2. PICK bytes \in Seq(0..UINT8_MAX) : bytes = <<OpCode(Operation)>>
    BY <2>1, ByteSeqs
  <2> QED BY <1>1, <1>4, <2>2, EmitBytesKeeps
<1> QED BY <1>2, <1>3, <1>4 DEF chunk_emit_byte, Emission

LEMMA AppendedStrs ==
  ASSUME CInv, NEW x
  PROVE  Append(strs, x) \in Seq(Range_(Append(strs, x)))
<1>1. strs \in Seq(Range_(strs))
  BY DEF CInv
<1>2. PICK S : S = Range_(strs) \cup {x}
  OBVIOUS
<1>3. strs \in Seq(S)
  BY <1>1, <1>2, SeqMonotonic
<1>4. PICK t : t = Append(strs, x)
  OBVIOUS
<1>5. t \in Seq(S)
  BY <1>2, <1>3, <1>4, AppendProperties
<1>6. t \in Seq(Range_(t))
  BY <1>5, LenProperties DEF Range_
<1> QED BY <1>4, <1>6

LEMMA add_constantKeeps ==
  ASSUME CInv, NEW op \in {"emit_int", "emit_str"}, Doing(op),
         NEW v \in Value, NEW newStrs, newStrs \in Seq(Range_(newStrs)),
         add_constant(v, newStrs)
  PROVE  CInv'
<1>1. CASE Fail("too many constants")
  BY <1>1, FailHereKeeps
<1>2. CASE /\ Len(fn.constants) <= UINT8_MAX
           /\ Rewrite([fn EXCEPT
                !.constants = Append(@, v),
                !.code = @ \o <<OpCode("OP_CONSTANT"), Len(fn.constants)>>])
           /\ strs' = newStrs
           /\ Advance
           /\ UNCHANGED <<steady, pos, comps>>
  <2>1. fn \in FunctionOf
    BY DoingFacts, CurrentFacts
  <2>2. PICK bytes : bytes = <<OpCode("OP_CONSTANT"), Len(fn.constants)>>
    OBVIOUS
  <2>3. bytes \in Seq(0..UINT8_MAX)
    <3>1. fn.constants \in Seq(Value) /\ Len(fn.constants) \in Nat
      BY <2>1, LenProperties DEF FunctionOf
    <3>2. Len(fn.constants) \in 0..UINT8_MAX
      BY <1>2, <3>1, ByteAssumption
    <3>3. OpCode("OP_CONSTANT") \in 0..UINT8_MAX
      BY EmittedCodes DEF Emitted
    <3> QED BY <2>2, <3>2, <3>3, ByteSeqs
  <2>4. PICK newFn : newFn = [fn EXCEPT !.constants = Append(@, v), !.code = @ \o bytes]
    OBVIOUS
  <2>5. fn.code \o bytes \in Seq(0..UINT8_MAX) /\ Append(fn.constants, v) \in Seq(Value)
    BY <2>1, <2>3, ConcatProperties, AppendProperties DEF FunctionOf
  <2>6. newFn \in FunctionOf /\ newFn.nonlocals = fn.nonlocals
    BY <2>1, <2>4, <2>5 DEF FunctionOf
  <2>7. Rewrite(newFn)
    BY <1>2, <2>2, <2>4
  <2> QED BY <1>2, <2>6, <2>7, RewriteAdvance
<1>3. CASE ~(Len(fn.constants) > UINT8_MAX)
  <2>1. fn.constants \in Seq(Value)
    BY DoingFacts, CurrentFacts DEF FunctionOf
  <2>2. Len(fn.constants) \in Nat
    BY <2>1, LenProperties
  <2>3. Len(fn.constants) <= UINT8_MAX
    BY <1>3, <2>2, Bytes
  <2> QED BY <1>2, <1>3, <2>3 DEF add_constant
<1>4. CASE Len(fn.constants) > UINT8_MAX
  BY <1>1, <1>4 DEF add_constant
<1> QED BY <1>3, <1>4

LEMMA emit_intKeeps ==
  ASSUME CInv, emit_int
  PROVE  CInv'
<1>1. Doing("emit_int")
  BY DEF emit_int
<1>2. CASE ~emit /\ Advance /\ UNCHANGED <<steady, pos, comps, functions, strs>>
  BY <1>1, <1>2, NotEmitting
<1>3. CASE OutOfMemory
  BY <1>3, OutOfMemoryKeeps
<1>4. CASE Fail("integer overflow")
  BY <1>4, FailHereKeeps
<1>5. PICK data \in Nat : data = current.token.num
  BY <1>1, DoingFacts, CurrentFacts DEF ActivationOf, TokenOf
<1>6. CASE data <= UINT16_MAX /\ EmitBytes(<<OpCode("OP_INT")>> \o WordBytes(data))
  <2>1. <<OpCode("OP_INT")>> \in Seq(0..UINT8_MAX)
    BY EmittedCodes, ByteSeqs DEF Emitted
  <2>2. WordBytes(data) \in Seq(0..UINT8_MAX)
    BY <1>6, WordBytesAre
  <2>3. PICK bytes \in Seq(0..UINT8_MAX) : bytes = <<OpCode("OP_INT")>> \o WordBytes(data)
    BY <2>1, <2>2, ConcatProperties
  <2> QED BY <1>1, <1>6, <2>3, EmitBytesKeeps
<1>7. CASE add_constant(int_value(data), strs)
  <2>1. int_value(data) \in Value
    BY DEF int_value, Plain, Value, Type, FLAG_NONE
  <2>2. strs \in Seq(Range_(strs))
    BY DEF CInv
  <2>3. PICK newStrs : newStrs = strs
    OBVIOUS
  <2> QED BY <1>1, <1>7, <2>1, <2>2, <2>3, add_constantKeeps
<1> QED BY <1>2, <1>3, <1>4, <1>5, <1>6, <1>7 DEF emit_int, Emission

LEMMA emit_strKeeps ==
  ASSUME CInv, emit_str
  PROVE  CInv'
<1>1. Doing("emit_str")
  BY DEF emit_str
<1>2. CASE ~emit /\ Advance /\ UNCHANGED <<steady, pos, comps, functions, strs>>
  BY <1>1, <1>2, NotEmitting
<1>3. CASE OutOfMemory
  BY <1>3, OutOfMemoryKeeps
<1>4. CASE add_constant(str_value(Len(strs) + 1), Append(strs, Chars(current.token.text)))
  <2>1. PICK x : x = Chars(current.token.text)
    OBVIOUS
  <2>2. PICK newStrs : newStrs = Append(strs, x)
    OBVIOUS
  <2>3. newStrs \in Seq(Range_(newStrs))
    BY <2>2, AppendedStrs
  <2>4. Len(strs) \in Nat
    BY LenProperties DEF CInv
  <2>5. PICK v : v = str_value(Len(strs) + 1)
    OBVIOUS
  <2>6. v \in Value
    BY <2>4, <2>5 DEF str_value, Plain, Value, Type, FLAG_NONE
  <2>7. add_constant(v, newStrs)
    BY <1>4, <2>1, <2>2, <2>5
  <2> QED BY <1>1, <2>3, <2>6, <2>7, add_constantKeeps
<1> QED BY <1>2, <1>3, <1>4 DEF emit_str, Emission

LEMMA emit_callKeeps ==
  ASSUME CInv, emit_call
  PROVE  CInv'
<1>1. Doing("emit_call")
  BY DEF emit_call
<1>2. CASE ~emit /\ Advance /\ UNCHANGED <<steady, pos, comps, functions, strs>>
  BY <1>1, <1>2, NotEmitting
<1>3. CASE OutOfMemory
  BY <1>3, OutOfMemoryKeeps
<1>4. CASE EmitBytes(<<OpCode(IF current.isTail THEN "OP_TAIL_CALL" ELSE "OP_CALL"),
                       current.count>>)
  <2>1. current.count \in 0..UINT8_MAX
    BY <1>1, DoingFacts, CurrentFacts DEF ActivationOf
  <2>2. PICK name \in Emitted : name = IF current.isTail THEN "OP_TAIL_CALL" ELSE "OP_CALL"
    BY DEF Emitted
  <2>3. PICK bytes \in Seq(0..UINT8_MAX) : bytes = <<OpCode(name), current.count>>
    BY <2>1, EmittedCodes, ByteSeqs
  <2>4. EmitBytes(bytes)
    BY <1>4, <2>2, <2>3
  <2> QED BY <1>1, <2>4, EmitBytesKeeps
<1> QED BY <1>2, <1>3, <1>4 DEF emit_call, Emission

LEMMA set_arityKeeps ==
  ASSUME CInv, set_arity
  PROVE  CInv'
<1>1. Doing("set_arity") /\ Advance /\ UNCHANGED <<steady, pos, comps>> /\ strs' = strs
  BY DEF set_arity
<1>2. fn \in FunctionOf /\ current.count \in 0..UINT8_MAX
  BY <1>1, DoingFacts, CurrentFacts DEF ActivationOf
<1>3. PICK newFn : newFn = [fn EXCEPT !.arity = current.count]
  OBVIOUS
<1>4. newFn \in FunctionOf /\ newFn.nonlocals = fn.nonlocals
  BY <1>2, <1>3 DEF FunctionOf
<1>5. Rewrite(newFn)
  BY <1>3 DEF set_arity
<1>6. strs' \in Seq(Range_(strs'))
  BY <1>1 DEF CInv
<1> QED BY <1>1, <1>4, <1>5, <1>6, RewriteAdvance

LEMMA ExceptAny ==
  ASSUME NEW S, NEW seq \in Seq(S), NEW i, NEW e \in S
  PROVE  /\ [seq EXCEPT ![i] = e] \in Seq(S)
         /\ Len([seq EXCEPT ![i] = e]) = Len(seq)
         /\ \A j \in 1..Len(seq) : j # i => [seq EXCEPT ![i] = e][j] = seq[j]
<1>1. CASE i \in 1..Len(seq)
  BY <1>1, ExceptSeq
<1>2. CASE i \notin 1..Len(seq)
  <2>1. seq \in [1..Len(seq) -> S] /\ DOMAIN seq = 1..Len(seq)
    BY LenProperties
  <2>2. [seq EXCEPT ![i] = e] = seq
    BY <1>2, <2>1
  <2> QED BY <2>2
<1> QED BY <1>1, <1>2

LEMMA ChangedByte ==
  ASSUME NEW seq \in Seq(0..UINT8_MAX), NEW i, NEW e \in 0..UINT8_MAX
  PROVE  /\ [seq EXCEPT ![i] = e] \in Seq(0..UINT8_MAX)
         /\ Len([seq EXCEPT ![i] = e]) = Len(seq)
         /\ \A j \in 1..Len(seq) : j # i => [seq EXCEPT ![i] = e][j] = seq[j]
<1>1. PICK S : S = 0..UINT8_MAX
  OBVIOUS
<1>2. seq \in Seq(S) /\ e \in S
  BY <1>1
<1>3. /\ [seq EXCEPT ![i] = e] \in Seq(S)
      /\ Len([seq EXCEPT ![i] = e]) = Len(seq)
      /\ \A j \in 1..Len(seq) : j # i => [seq EXCEPT ![i] = e][j] = seq[j]
  BY <1>2, ExceptAny
<1> QED BY <1>1, <1>3

LEMMA PatchedCode ==
  ASSUME NEW code \in Seq(0..UINT8_MAX), Len(code) <= UINT16_MAX, NEW offset
  PROVE  /\ patch_jump(code, offset) \in Seq(0..UINT8_MAX)
         /\ Len(patch_jump(code, offset)) = Len(code)
         /\ \A a \in 1..Len(code) :
              a \notin {offset + 1, offset + 2} => patch_jump(code, offset)[a] = code[a]
<1>1. PICK word : word = WordBytes(Len(code))
  OBVIOUS
<1>2. word[1] \in 0..UINT8_MAX /\ word[2] \in 0..UINT8_MAX
  BY <1>1, WordBytesAre, LenProperties
<1>3. PICK mid : mid = [code EXCEPT ![offset + 1] = word[1]]
  OBVIOUS
<1>8. PICK low \in 0..UINT8_MAX, high \in 0..UINT8_MAX : low = word[1] /\ high = word[2]
  BY <1>2
<1>9. PICK one, two : one = offset + 1 /\ two = offset + 2
  OBVIOUS
<1>4. /\ mid \in Seq(0..UINT8_MAX) /\ Len(mid) = Len(code)
      /\ \A a \in 1..Len(code) : a # offset + 1 => mid[a] = code[a]
  <2>1. mid = [code EXCEPT ![one] = low]
    BY <1>3, <1>8, <1>9
  <2>2. /\ [code EXCEPT ![one] = low] \in Seq(0..UINT8_MAX)
        /\ Len([code EXCEPT ![one] = low]) = Len(code)
        /\ \A a \in 1..Len(code) : a # one => [code EXCEPT ![one] = low][a] = code[a]
    BY ChangedByte
  <2> QED BY <1>9, <2>1, <2>2
<1>5. PICK last : last = [mid EXCEPT ![offset + 2] = word[2]]
  OBVIOUS
<1>6. /\ last \in Seq(0..UINT8_MAX) /\ Len(last) = Len(code)
      /\ \A a \in 1..Len(code) : a # offset + 2 => last[a] = mid[a]
  <2>1. last = [mid EXCEPT ![two] = high]
    BY <1>5, <1>8, <1>9
  <2>2. /\ [mid EXCEPT ![two] = high] \in Seq(0..UINT8_MAX)
        /\ Len([mid EXCEPT ![two] = high]) = Len(mid)
        /\ \A a \in 1..Len(mid) : a # two => [mid EXCEPT ![two] = high][a] = mid[a]
    <3>1. PICK seq \in Seq(0..UINT8_MAX) : seq = mid
      BY <1>4
    <3>2. /\ [seq EXCEPT ![two] = high] \in Seq(0..UINT8_MAX)
          /\ Len([seq EXCEPT ![two] = high]) = Len(seq)
          /\ \A a \in 1..Len(seq) : a # two => [seq EXCEPT ![two] = high][a] = seq[a]
      BY ChangedByte
    <3> QED BY <3>1, <3>2
  <2>3. Len(mid) = Len(code)
    BY <1>4
  <2>4. last \in Seq(0..UINT8_MAX) /\ Len(last) = Len(code)
    BY <2>1, <2>2, <2>3
  <2>5. \A a \in 1..Len(code) : a # two => last[a] = mid[a]
    BY <2>1, <2>2, <2>3
  <2> QED BY <1>9, <2>4, <2>5
<1>7. patch_jump(code, offset) = last
  BY <1>1, <1>3, <1>5 DEF patch_jump
<1> QED BY <1>4, <1>6, <1>7

LEMMA JumpBytes == \A op \in {"OP_JUMP", "OP_JUMP_IF_FALSE"} : emit_jump(op) \in Seq(0..UINT8_MAX)
<1> SUFFICES ASSUME NEW op \in {"OP_JUMP", "OP_JUMP_IF_FALSE"}
             PROVE  emit_jump(op) \in Seq(0..UINT8_MAX)
  OBVIOUS
<1>1. OpCode(op) \in 0..UINT8_MAX /\ 0 \in 0..UINT8_MAX
  BY EmittedCodes, Bytes DEF Emitted
<1> QED BY <1>1, ByteSeqs DEF emit_jump

LEMMA jump_if_falseKeeps ==
  ASSUME CInv, jump_if_false
  PROVE  CInv'
<1>1. Doing("jump_if_false")
  BY DEF jump_if_false
<1>2. CASE ~emit /\ Advance /\ UNCHANGED <<steady, pos, comps, functions, strs>>
  BY <1>1, <1>2, NotEmitting
<1>3. CASE OutOfMemory
  BY <1>3, OutOfMemoryKeeps
<1>4. CASE /\ Rewrite([fn EXCEPT !.code = @ \o emit_jump("OP_JUMP_IF_FALSE")])
           /\ Become([current EXCEPT !.pc = @ + 1, !.jump = Len(fn.code) + 1])
           /\ UNCHANGED <<steady, pos, comps, strs>>
  <2>1. /\ fn \in FunctionOf /\ fn.code \in Seq(0..UINT8_MAX) /\ Len(fn.code) \in Nat
        /\ current \in ActivationOf /\ calls # <<>> /\ phase = "compiling"
    BY <1>1, DoingFacts, CurrentFacts, LenProperties DEF FunctionOf
  <2>2. PICK newFn : newFn = [fn EXCEPT !.code = @ \o emit_jump("OP_JUMP_IF_FALSE")]
    OBVIOUS
  <2>3. fn.code \o emit_jump("OP_JUMP_IF_FALSE") \in Seq(0..UINT8_MAX)
    BY <2>1, JumpBytes, ConcatProperties
  <2>4. newFn \in FunctionOf /\ newFn.nonlocals = fn.nonlocals
    BY <2>1, <2>2, <2>3 DEF FunctionOf
  <2>5. PICK act : act = [current EXCEPT !.pc = @ + 1, !.jump = Len(fn.code) + 1]
    OBVIOUS
  <2>6. /\ act \in ActivationOf /\ act.proc = current.proc /\ act.comp = current.comp
        /\ act.pc = current.pc + 1 /\ act.token = current.token
        /\ act.jump = Len(fn.code) + 1
    <3>1. PICK a \in ActivationOf : a = current
      BY <2>1
    <3>2. PICK j \in {NoJump} \cup Nat : j = Len(fn.code) + 1
      BY <2>1
    <3>3. PICK p \in Nat \ {0} : p = a.pc + 1
      BY DEF ActivationOf
    <3>4. act = [a EXCEPT !.pc = p, !.jump = j]
      BY <2>5, <3>1, <3>2, <3>3
    <3>5. act \in ActivationOf
      BY <3>4, UpdateJump
    <3> QED BY <3>1, <3>2, <3>3, <3>4, <3>5 DEF ActivationOf
  <2>7. act.jump # NoJump
    BY <2>1, <2>6 DEF NoJump
  <2>8. ActivationOK(act, emit) /\ Top(act) = Top(current)
    BY <1>1, <2>6, <2>7, NextPlace
  <2>9. Rewrite(newFn) /\ Become(act)
    BY <1>4, <2>2, <2>5
  <2>10. strs' \in Seq(Range_(strs'))
    BY <1>4 DEF CInv
  <2> QED BY <1>4, <2>1, <2>4, <2>6, <2>8, <2>9, <2>10, RewriteKeeps
<1> QED BY <1>2, <1>3, <1>4 DEF jump_if_false, Emission

LEMMA PatchKeeps ==
  ASSUME CInv, NEW op \in {"jump_over", "patch_jump"}, Doing(op),
         NEW code \in Seq(0..UINT8_MAX), NEW next \in {NoJump} \cup Nat,
         op = "jump_over" => next # NoJump, Patch(code, next)
  PROVE  CInv'
<1>1. CASE Fail("too much code to jump over")
  BY <1>1, FailHereKeeps
<1>2. CASE /\ Len(code) <= UINT16_MAX
           /\ Rewrite([fn EXCEPT !.code = patch_jump(code, current.jump)])
           /\ Become([current EXCEPT !.pc = @ + 1, !.jump = next])
           /\ UNCHANGED <<steady, pos, comps, strs>>
  <2>1. /\ fn \in FunctionOf
        /\ current \in ActivationOf /\ calls # <<>> /\ phase = "compiling"
    BY DoingFacts, CurrentFacts
  <2>2. PICK newFn : newFn = [fn EXCEPT !.code = patch_jump(code, current.jump)]
    OBVIOUS
  <2>3. patch_jump(code, current.jump) \in Seq(0..UINT8_MAX)
    BY <1>2, PatchedCode
  <2>4. newFn \in FunctionOf /\ newFn.nonlocals = fn.nonlocals
    BY <2>1, <2>2, <2>3 DEF FunctionOf
  <2>5. PICK act : act = [current EXCEPT !.pc = @ + 1, !.jump = next]
    OBVIOUS
  <2>6. /\ act \in ActivationOf /\ act.proc = current.proc /\ act.comp = current.comp
        /\ act.pc = current.pc + 1 /\ act.token = current.token /\ act.jump = next
    <3>1. PICK a \in ActivationOf : a = current
      BY <2>1
    <3>2. PICK p \in Nat \ {0} : p = a.pc + 1
      BY DEF ActivationOf
    <3>3. act = [a EXCEPT !.pc = p, !.jump = next]
      BY <2>5, <3>1, <3>2
    <3>4. act \in ActivationOf
      BY <3>3, UpdateJump
    <3> QED BY <3>1, <3>2, <3>3, <3>4 DEF ActivationOf
  <2>7. ActivationOK(act, emit) /\ Top(act) = Top(current)
    BY <2>6, NextPlace
  <2>8. Rewrite(newFn) /\ Become(act)
    BY <1>2, <2>2, <2>5
  <2>9. strs' \in Seq(Range_(strs'))
    BY <1>2 DEF CInv
  <2> QED BY <1>2, <2>1, <2>4, <2>6, <2>7, <2>8, <2>9, RewriteKeeps
<1>3. CASE ~(Len(code) > UINT16_MAX)
  <2>1. Len(code) \in Nat /\ UINT16_MAX \in Int
    BY LenProperties, Bytes DEF UINT16_MAX
  <2>2. Len(code) <= UINT16_MAX
    BY <1>3, <2>1
  <2> QED BY <1>2, <1>3, <2>2 DEF Patch
<1>4. CASE Len(code) > UINT16_MAX
  BY <1>1, <1>4 DEF Patch
<1> QED BY <1>3, <1>4

LEMMA jump_overKeeps ==
  ASSUME CInv, jump_over
  PROVE  CInv'
<1>1. Doing("jump_over")
  BY DEF jump_over
<1>2. CASE ~emit /\ Advance /\ UNCHANGED <<steady, pos, comps, functions, strs>>
  BY <1>1, <1>2, NotEmitting
<1>3. CASE OutOfMemory
  BY <1>3, OutOfMemoryKeeps
<1>4. CASE Patch(fn.code \o emit_jump("OP_JUMP"), Len(fn.code) + 1)
  <2>1. fn.code \in Seq(0..UINT8_MAX) /\ Len(fn.code) \in Nat
    BY <1>1, DoingFacts, CurrentFacts, LenProperties DEF FunctionOf
  <2>2. PICK code \in Seq(0..UINT8_MAX) : code = fn.code \o emit_jump("OP_JUMP")
    BY <2>1, JumpBytes, ConcatProperties
  <2>3. PICK next \in Nat : next = Len(fn.code) + 1
    BY <2>1
  <2>4. next # NoJump
    BY <2>3 DEF NoJump
  <2>5. Patch(code, next)
    BY <1>4, <2>2, <2>3
  <2> QED BY <1>1, <2>4, <2>5, PatchKeeps
<1> QED BY <1>2, <1>3, <1>4 DEF jump_over, Emission

LEMMA jump_targetKeeps ==
  ASSUME CInv, jump_target
  PROVE  CInv'
<1>1. Doing("patch_jump")
  BY DEF jump_target
<1>2. CASE ~emit /\ Advance /\ UNCHANGED <<steady, pos, comps, functions, strs>>
  BY <1>1, <1>2, NotEmitting
<1>3. CASE OutOfMemory
  BY <1>3, OutOfMemoryKeeps
<1>4. CASE Patch(fn.code, NoJump)
  <2>1. PICK code \in Seq(0..UINT8_MAX) : code = fn.code
    BY <1>1, DoingFacts, CurrentFacts DEF FunctionOf
  <2>2. Patch(code, NoJump)
    BY <1>4, <2>1
  <2> QED BY <1>1, <2>2, PatchKeeps
<1> QED BY <1>2, <1>3, <1>4 DEF jump_target, Emission

-----------------------------------------------------------------------------
(* Functions and variables.                                                *)

LEMMA startKeeps ==
  ASSUME CInv, start
  PROVE  CInv'
<1>1. CASE /\ phase' = "failed"
           /\ UNCHANGED <<file, src, emit, pos, calls, comps, functions, strs>>
  <2>1. TokensInv'
    BY <1>1, TokensSame DEF CInv
  <2> QED BY <1>1, <2>1, StopKeeps
<1>2. CASE OutOfMemory
  BY <1>2, OutOfMemoryKeeps
<1>3. CASE /\ phase' = "compiling"
           /\ functions' = <<NewFunction>>
           /\ comps' = <<compiler_init(1)>>
           /\ calls' = <<[Activation("compile_file", FALSE) EXCEPT !.comp = 1]>>
           /\ UNCHANGED <<file, src, emit, pos, strs, result>>
  <2>1. PICK act : act = [Activation("compile_file", FALSE) EXCEPT !.comp = 1]
    OBVIOUS
  <2>2. /\ act \in ActivationOf /\ act.proc = "compile_file" /\ act.pc = 1
        /\ act.comp = 1 /\ act.jump = NoJump
    <3>1. PICK t \in TokenOf : t = [kind |-> "EOF", text |-> "", num |-> 0]
      BY NoToken
    <3>2. act = [proc |-> "compile_file", pc |-> 1, isTail |-> FALSE, comp |-> 1,
                 token |-> t, count |-> 0, jump |-> NoJump]
      BY <2>1, <3>1 DEF Activation
    <3>3. 0 \in 0..UINT8_MAX /\ "compile_file" \in DOMAIN Script
      BY Bytes DEF Script
    <3> QED BY <3>2, <3>3 DEF ActivationOf
  <2>3. Len(Script["compile_file"]) \in Nat
    <3>1. "compile_file" \in DOMAIN Script \ Placing
      BY DEF Script, Placing
    <3> QED BY <3>1, PlainScripts, LenProperties
  <2>4. ActivationOK(act, emit') /\ Top(act) = 1
    BY <2>2, <2>3 DEF ActivationOK, Top, Opened
  <2>5. calls' = <<act>>
    BY <1>3, <2>1
  <2>6. /\ calls' \in Seq(ActivationOf) /\ Len(calls') = 1 /\ calls'[1] = act
        /\ Len(comps') = 1
    <3>1. <<act>> \in Seq(ActivationOf) /\ Len(<<act>>) = 1 /\ <<act>>[1] = act
      BY <2>2
    <3>2. Len(comps') = 1
      BY <1>3
    <3> QED BY <2>5, <3>1, <3>2
  <2>7. CallsInv'
    BY <2>2, <2>4, <2>6 DEF CallsInv
  <2>8. NewFunction \in FunctionOf
    BY ByteAssumption, EmptySeq DEF NewFunction, FunctionOf
  <2>9. compiler_init(1) \in CompilerOf
    BY Bytes, EmptySeq DEF compiler_init, CompilerOf
  <2>10. /\ functions' \in Seq(FunctionOf) /\ Len(functions') = 1
         /\ functions'[1].nonlocals = <<>>
    BY <1>3, <2>8 DEF NewFunction
  <2>11. /\ comps' \in Seq(CompilerOf) /\ Len(comps') = 1 /\ DOMAIN comps' = 1..1
         /\ comps'[1].fn = 1 /\ comps'[1].variables = <<>> /\ comps'[1].nextIndex = 1
    BY <1>3, <2>9 DEF compiler_init
  <2>12. \A k \in 1..1 : k = 1
    OBVIOUS
  <2>13. CapturesLead' /\ SlotsDistinct'
    BY <2>11, <2>12 DEF CapturesLead, SlotsDistinct, Range_
  <2>14. SlotsInOrder(comps'[1])
    <3>1. Len(comps'[1].variables) = 0
      BY <2>11
    <3> QED BY <2>11, <3>1, ByteAssumption DEF SlotsInOrder
  <2>15. ScopesInv'
    BY <2>10, <2>11, <2>12, <2>13, <2>14 DEF ScopesInv
  <2>16. TokensInv'
    BY <1>3, TokensSame DEF CInv
  <2>17. strs' \in Seq(Range_(strs'))
    BY <1>3 DEF CInv
  <2> QED BY <1>3, <2>7, <2>15, <2>16, <2>17 DEF CInv
<1> QED BY <1>1, <1>2, <1>3 DEF start

LEMMA finishKeeps ==
  ASSUME CInv, finish
  PROVE  CInv'
<1>1. CASE OutOfMemory
  BY <1>1, OutOfMemoryKeeps
<1>2. CASE /\ phase' = "done"
           /\ UNCHANGED <<file, src, emit, pos, calls, comps, functions, strs, result>>
  <2>1. TokensInv'
    BY <1>2, TokensSame DEF CInv
  <2> QED BY <1>2, <2>1, StopKeeps
<1> QED BY <1>1, <1>2 DEF finish

(* The innermost function opens and closes its record.                     *)
LEMMA OpenPlace ==
  ASSUME CInv, NEW op \in {"open_function", "close_function"}, Doing(op),
         NEW act \in ActivationOf,
         act.proc = current.proc, act.comp = current.comp, act.pc = current.pc + 1
  PROVE  /\ ActivationOK(act, emit)
         /\ op = "open_function" => Top(current) = current.comp /\ Top(act) = current.comp + 1
         /\ op = "close_function" => Top(current) = current.comp + 1 /\ Top(act) = current.comp
<1>1. /\ current.proc \in Placing
      /\ current.pc \in 1..Len(Script[current.proc])
      /\ PlacesOK(current.proc, current.pc, op)
  BY DoingFacts DEF PlacedOps
<1>2. current.proc = "compile_function"
  BY <1>1 DEF PlacesOK, PlacedOps, Placing
<1>3. /\ current.pc = IF op = "open_function" THEN 2 ELSE 10
      /\ Len(Script["compile_function"]) = 10
  BY <1>1, <1>2, Places DEF PlacesOK
<1>4. ActivationOK(act, emit)
  BY <1>2, <1>3 DEF ActivationOK
<1>5. current.comp \in Nat
  BY DoingFacts, CurrentFacts DEF ActivationOf
<1>6. /\ Opened(current) = IF op = "open_function" THEN 0 ELSE 1
      /\ Opened(act) = IF op = "open_function" THEN 1 ELSE 0
  BY <1>2, <1>3 DEF Opened
<1> QED BY <1>4, <1>5, <1>6 DEF Top

LEMMA open_functionKeeps ==
  ASSUME CInv, open_function
  PROVE  CInv'
<1>1. Doing("open_function")
  BY DEF open_function
<1>2. CASE OutOfMemory
  BY <1>2, OutOfMemoryKeeps
<1>3. CASE /\ functions' = Append(functions, NewFunction)
           /\ comps' = Append(comps, compiler_init(Len(functions) + 1))
           /\ Advance
           /\ UNCHANGED <<file, src, emit, phase, result, pos, strs>>
  <2>1. /\ current \in ActivationOf /\ calls # <<>> /\ phase = "compiling"
        /\ Len(comps) = Top(current)
    BY <1>1, DoingFacts, CurrentFacts
  <2>2. PICK act : act = [current EXCEPT !.pc = @ + 1]
    OBVIOUS
  <2>3. /\ act \in ActivationOf /\ act.proc = current.proc /\ act.comp = current.comp
        /\ act.pc = current.pc + 1
    BY <2>1, <2>2 DEF ActivationOf
  <2>4. ActivationOK(act, emit) /\ Top(act) = Len(comps) + 1
    BY <1>1, <2>1, <2>3, OpenPlace
  <2>5. PICK new : new = compiler_init(Len(functions) + 1)
    OBVIOUS
  <2>6. /\ new \in CompilerOf /\ new.fn = Len(functions) + 1 /\ new.variables = <<>>
        /\ new.nextIndex = 1
    <3>1. Len(functions) + 1 \in Nat \ {0}
      BY RecordFacts
    <3>2. <<>> \in Seq(VariableOf) /\ 1 \in 0..UINT8_MAX
      BY Bytes, EmptySeq
    <3> QED BY <2>5, <3>1, <3>2 DEF compiler_init, CompilerOf
  <2>7. NewFunction \in FunctionOf /\ NewFunction.nonlocals = <<>>
    BY ByteAssumption, EmptySeq DEF NewFunction, FunctionOf
  <2>8. /\ comps' \in Seq(CompilerOf) /\ Len(comps') = Len(comps) + 1
        /\ comps'[Len(comps) + 1] = new
        /\ \A k \in 1..Len(comps) : comps'[k] = comps[k]
        /\ DOMAIN comps' = 1..(Len(comps) + 1)
    BY <1>3, <2>5, <2>6, RecordFacts, AppendProperties
  <2>9. /\ functions' \in Seq(FunctionOf) /\ Len(functions') = Len(functions) + 1
        /\ functions'[Len(functions) + 1] = NewFunction
        /\ \A g \in 1..Len(functions) : functions'[g] = functions[g]
    BY <1>3, <2>7, RecordFacts, AppendProperties
  <2>10. Become(act)
    BY <1>3, <2>2 DEF Advance
  <2>11. CallsInv'
    BY <1>3, <2>1, <2>3, <2>4, <2>8, <2>10, BecomeKeeps
  <2>12. ASSUME NEW k \in 1..(Len(comps) + 1)
         PROVE  /\ comps'[k].fn <= Len(functions')
                /\ \A j \in 1..(k - 1) : comps'[j].fn # comps'[k].fn
                /\ SlotsInOrder(comps'[k])
                /\ Len(functions'[comps'[k].fn].nonlocals) <= Len(comps'[k].variables)
    <3>1. CASE k = Len(comps) + 1
      <4>1. SlotsInOrder(new)
        BY <2>6, ByteAssumption DEF SlotsInOrder
      <4>2. \A j \in 1..(k - 1) : comps'[j].fn # comps'[k].fn
        BY <2>6, <2>8, <3>1, RecordFacts
      <4> QED BY <2>6, <2>7, <2>8, <2>9, <3>1, <4>1, <4>2, RecordFacts
    <3>2. CASE k # Len(comps) + 1
      <4>1. k \in 1..Len(comps) /\ comps'[k] = comps[k]
        BY <2>8, <3>2, RecordFacts
      <4>2. \A j \in 1..(k - 1) : j \in 1..Len(comps)
        BY <4>1, RecordFacts
      <4>3. functions'[comps'[k].fn] = functions[comps[k].fn]
        BY <2>9, <4>1, RecordFacts
      <4>4. comps'[k].fn <= Len(functions')
        BY <2>9, <4>1, RecordFacts
      <4>5. \A j \in 1..(k - 1) : comps'[j].fn # comps'[k].fn
        BY <2>8, <4>1, <4>2, RecordFacts
      <4> QED BY <4>1, <4>3, <4>4, <4>5, RecordFacts
    <3> QED BY <3>1, <3>2
  <2>13. CapturesLead'
    <3> SUFFICES ASSUME NEW k \in 1..(Len(comps) + 1),
                        NEW v \in Range_(comps'[k].variables), ~v.isLocal
                 PROVE  /\ k > 1
                        /\ v.index < Len(functions'[comps'[k].fn].nonlocals)
                        /\ \E u \in Range_(comps'[k - 1].variables) :
                             /\ u.name = v.name
                             /\ functions'[comps'[k].fn].nonlocals[v.index + 1]
                                  = [isLocal |-> u.isLocal, index |-> u.index]
      BY <2>8, ZenonT(30) DEF CapturesLead
    <3>1. k # Len(comps) + 1
      BY <2>6, <2>8 DEF Range_
    <3>2. k \in 1..Len(comps) /\ comps'[k] = comps[k]
      BY <2>8, <3>1, RecordFacts
    <3>3. functions'[comps'[k].fn] = functions[comps[k].fn]
      BY <2>9, <3>2, RecordFacts
    <3>4. /\ k > 1
          /\ v.index < Len(functions[comps[k].fn].nonlocals)
          /\ \E u \in Range_(comps[k - 1].variables) :
               /\ u.name = v.name
               /\ functions[comps[k].fn].nonlocals[v.index + 1]
                    = [isLocal |-> u.isLocal, index |-> u.index]
      BY <3>2, CaptureFacts
    <3>5. comps'[k - 1] = comps[k - 1]
      BY <2>8, <3>2, <3>4, RecordFacts
    <3> QED BY <3>2, <3>3, <3>4, <3>5
  <2>14. SlotsDistinct'
    <3>1. ASSUME NEW k \in 1..(Len(comps) + 1),
                 NEW i \in DOMAIN comps'[k].variables, NEW j \in DOMAIN comps'[k].variables,
                 comps'[k].variables[i].isLocal = comps'[k].variables[j].isLocal,
                 comps'[k].variables[i].index = comps'[k].variables[j].index
          PROVE  i = j
      <4>1. k # Len(comps) + 1
        BY <2>6, <2>8
      <4>2. k \in DOMAIN comps /\ comps'[k] = comps[k]
        BY <2>8, <4>1, RecordFacts
      <4> QED BY <3>1, <4>2 DEF CInv, ScopesInv, SlotsDistinct
    <3> QED BY <2>8, <3>1 DEF SlotsDistinct
  <2>15. ScopesInv'
    BY <2>8, <2>9, <2>12, <2>13, <2>14 DEF ScopesInv
  <2>16. TokensInv' /\ strs' \in Seq(Range_(strs'))
    BY <1>3, TokensSame DEF CInv
  <2> QED BY <1>3, <2>1, <2>11, <2>15, <2>16 DEF CInv
<1> QED BY <1>2, <1>3 DEF open_function, steady

(* The functions keep their captures, and records at most go.              *)
LEMMA ScopesShrink ==
  ASSUME CInv, NEW n \in 0..Len(comps), comps' = SubSeq(comps, 1, n),
         functions' \in Seq(FunctionOf), Len(functions') = Len(functions),
         \A g \in 1..Len(functions) : functions'[g].nonlocals = functions[g].nonlocals
  PROVE  ScopesInv' /\ Len(comps') = n
<1>1. /\ comps' \in Seq(CompilerOf) /\ Len(comps') = n /\ DOMAIN comps' = 1..n
      /\ \A k \in 1..n : comps'[k] = comps[k]
      /\ 1..n \subseteq 1..Len(comps)
  BY RecordFacts, SubSeqProperties, LenProperties
<1>2. \A k \in 1..n : functions'[comps'[k].fn].nonlocals = functions[comps[k].fn].nonlocals
  BY <1>1, RecordFacts
<1>3. CapturesLead'
  <2> SUFFICES ASSUME NEW k \in DOMAIN comps',
                      NEW v \in Range_(comps'[k].variables), ~v.isLocal
               PROVE  /\ k > 1
                      /\ v.index < Len(functions'[comps'[k].fn].nonlocals)
                      /\ \E u \in Range_(comps'[k - 1].variables) :
                           /\ u.name = v.name
                           /\ functions'[comps'[k].fn].nonlocals[v.index + 1]
                                = [isLocal |-> u.isLocal, index |-> u.index]
    BY DEF CapturesLead
  <2>3. k \in 1..n
    BY <1>1
  <2>4. k \in DOMAIN comps /\ v \in Range_(comps[k].variables)
    BY <1>1, <2>3, RecordFacts
  <2>1. /\ k > 1
        /\ v.index < Len(functions[comps[k].fn].nonlocals)
        /\ \E u \in Range_(comps[k - 1].variables) :
             /\ u.name = v.name
             /\ functions[comps[k].fn].nonlocals[v.index + 1]
                  = [isLocal |-> u.isLocal, index |-> u.index]
    BY <2>4 DEF CInv, ScopesInv, CapturesLead
  <2>2. comps'[k - 1] = comps[k - 1]
    BY <1>1, <2>1, <2>3, SMTT(30)
  <2> QED BY <1>2, <2>1, <2>2, <2>3
<1>4. SlotsDistinct'
  <2>1. \A k \in 1..n : k \in DOMAIN comps /\ comps'[k] = comps[k]
    BY <1>1, RecordFacts
  <2> QED BY <1>1, <2>1 DEF CInv, ScopesInv, SlotsDistinct
<1>5. ASSUME NEW k \in 1..n
      PROVE  /\ comps'[k].fn <= Len(functions')
             /\ \A j \in 1..(k - 1) : comps'[j].fn # comps'[k].fn
             /\ SlotsInOrder(comps'[k])
             /\ Len(functions'[comps'[k].fn].nonlocals) <= Len(comps'[k].variables)
  <2>1. k \in 1..Len(comps) /\ comps'[k] = comps[k]
    BY <1>1
  <2>2. \A j \in 1..(k - 1) : j \in 1..n
    OBVIOUS
  <2> QED BY <1>1, <1>2, <2>1, <2>2, RecordFacts
<1> QED BY <1>1, <1>3, <1>4, <1>5 DEF ScopesInv

LEMMA close_functionKeeps ==
  ASSUME CInv, close_function
  PROVE  CInv'
<1>1. Doing("close_function")
  BY DEF close_function
<1>2. CASE OutOfMemory
  BY <1>2, OutOfMemoryKeeps
<1>3. PICK parent : parent = comps[current.comp].fn
  OBVIOUS
<1>4. CASE /\ functions' =
                IF ~emit THEN functions
                ELSE [functions EXCEPT
                        ![comp.fn].code = Append(@, OpCode("OP_RETURN")),
                        ![parent] = WithChild(@, comp.fn)]
           /\ comps' = SubSeq(comps, 1, Len(comps) - 1)
           /\ Advance
           /\ UNCHANGED <<file, src, emit, phase, result, pos, strs>>
  <2>1. /\ current \in ActivationOf /\ calls # <<>> /\ phase = "compiling"
        /\ Len(comps) = Top(current) /\ Len(comps) \in Nat \ {0}
        /\ comp.fn \in 1..Len(functions) /\ comp = comps[Len(comps)]
    BY <1>1, DoingFacts, CurrentFacts
  <2>2. PICK act : act = [current EXCEPT !.pc = @ + 1]
    OBVIOUS
  <2>3. /\ act \in ActivationOf /\ act.proc = current.proc /\ act.comp = current.comp
        /\ act.pc = current.pc + 1 /\ current.comp \in Nat \ {0}
    BY <2>1, <2>2 DEF ActivationOf
  <2>4. ActivationOK(act, emit) /\ Len(comps) = current.comp + 1 /\ Top(act) = current.comp
    BY <1>1, <2>1, <2>3, OpenPlace
  <2>5. parent \in 1..Len(functions)
    BY <1>3, <2>3, <2>4, RecordFacts
  <2>6. PICK f \in 1..Len(functions) : f = comp.fn
    BY <2>1
  <2>7. /\ functions' \in Seq(FunctionOf) /\ Len(functions') = Len(functions)
        /\ \A g \in 1..Len(functions) : functions'[g].nonlocals = functions[g].nonlocals
    <3>1. CASE ~emit
      BY <1>4, <3>1, RecordFacts
    <3>2. CASE emit
      <4>1. PICK inner : inner = [functions[f] EXCEPT !.code = Append(@, OpCode("OP_RETURN"))]
        OBVIOUS
      <4>2. functions[f] \in FunctionOf /\ functions[f].code \in Seq(0..UINT8_MAX)
        <5>1. functions[f] \in FunctionOf
          BY RecordFacts
        <5> QED BY <5>1 DEF FunctionOf
      <4>3. OpCode("OP_RETURN") \in 0..UINT8_MAX
        BY EmittedCodes DEF Emitted
      <4>4. Append(functions[f].code, OpCode("OP_RETURN")) \in Seq(0..UINT8_MAX)
        BY <4>2, <4>3, AppendProperties
      <4>5. inner \in FunctionOf /\ inner.nonlocals = functions[f].nonlocals
        BY <4>1, <4>2, <4>4 DEF FunctionOf
      <4>6. PICK mid : mid = [functions EXCEPT ![f] = inner]
        OBVIOUS
      <4>7. /\ mid \in Seq(FunctionOf) /\ Len(mid) = Len(functions)
            /\ \A g \in 1..Len(functions) : mid[g] = IF g = f THEN inner ELSE functions[g]
        BY <4>5, <4>6, RecordFacts, ExceptSeq
      <4>8. PICK outer : outer = WithChild(mid[parent], f)
        OBVIOUS
      <4>9. mid[parent] \in FunctionOf
        BY <2>5, <4>7
      <4>10. /\ mid[parent].code \in Seq(0..UINT8_MAX) /\ mid[parent].functions \in Seq(Nat)
             /\ Len(mid[parent].functions) \in Nat
        BY <4>9, LenProperties DEF FunctionOf
      <4>11. Len(mid[parent].functions) % (UINT8_MAX + 1) \in 0..UINT8_MAX
        BY <4>10, Bytes
      <4>12. PICK bytes \in Seq(0..UINT8_MAX) :
               bytes = <<OpCode("OP_CLOSURE"), Len(mid[parent].functions) % (UINT8_MAX + 1)>>
        BY <4>11, EmittedCodes, ByteSeqs DEF Emitted
      <4>13. /\ mid[parent].code \o bytes \in Seq(0..UINT8_MAX)
             /\ Append(mid[parent].functions, f) \in Seq(Nat)
        BY <4>10, ConcatProperties, AppendProperties
      <4>14. outer \in FunctionOf /\ outer.nonlocals = mid[parent].nonlocals
        BY <4>8, <4>9, <4>12, <4>13 DEF WithChild, FunctionOf
      <4>15. PICK last : last = [mid EXCEPT ![parent] = outer]
        OBVIOUS
      <4>16. /\ last \in Seq(FunctionOf) /\ Len(last) = Len(functions)
             /\ \A g \in 1..Len(functions) : last[g] = IF g = parent THEN outer ELSE mid[g]
        BY <2>5, <4>7, <4>14, <4>15, ExceptSeq
      <4>17. functions' = last
        <5>1. functions' = [functions EXCEPT
                             ![f].code = Append(@, OpCode("OP_RETURN")),
                             ![parent] = WithChild(@, f)]
          BY <1>4, <2>6, <3>2
        <5>2. mid = [functions EXCEPT ![f].code = Append(@, OpCode("OP_RETURN"))]
          BY <4>1, <4>6, RecordFacts
        <5>3. parent # f
          <6>1. PICK k \in 1..Len(comps) : k = Len(comps)
            BY <2>1
          <6>2. current.comp \in 1..(k - 1)
            BY <2>3, <2>4, <6>1
          <6>3. \A j \in 1..(k - 1) : comps[j].fn # comps[k].fn
            BY RecordFacts
          <6> QED BY <1>3, <2>1, <2>6, <6>1, <6>2, <6>3
        <5>4. mid[parent] = functions[parent]
          BY <2>5, <4>7, <5>3
        <5>5. last = [mid EXCEPT ![parent] = WithChild(functions[parent], f)]
          BY <4>8, <4>15, <5>4
        <5> QED BY <2>5, <5>1, <5>2, <5>3, <5>5
      <4> QED BY <4>5, <4>7, <4>14, <4>16, <4>17
    <3> QED BY <3>1, <3>2
  <2>8. PICK n \in 0..Len(comps) : n = Len(comps) - 1
    BY <2>1
  <2>9. ScopesInv' /\ Len(comps') = n
    BY <1>4, <2>7, <2>8, ScopesShrink
  <2>10. Become(act)
    BY <1>4, <2>2 DEF Advance
  <2>11. Len(comps') = Top(act)
    BY <2>3, <2>4, <2>8, <2>9
  <2>12. CallsInv'
    BY <1>4, <2>1, <2>3, <2>4, <2>10, <2>11, BecomeKeeps
  <2>13. TokensInv' /\ strs' \in Seq(Range_(strs'))
    BY <1>4, TokensSame DEF CInv
  <2> QED BY <1>4, <2>1, <2>9, <2>12, <2>13 DEF CInv
<1> QED BY <1>2, <1>3, <1>4 DEF close_function, steady

LEMMA add_localKeeps ==
  ASSUME CInv, add_local
  PROVE  CInv'
<1>1. Doing("add_local")
  BY DEF add_local
<1>2. CASE Undefined
  BY <1>2, UndefinedKeeps
<1>3. PICK n : n = Len(comps)
  OBVIOUS
<1>4. PICK var : var = Variable(current.token.text, TRUE, comp.nextIndex)
  OBVIOUS
<1>5. PICK c : c = Declared(comp, current.token.text)
  OBVIOUS
<1>6. CASE /\ Fits(comp)
           /\ comps' = [comps EXCEPT ![n] = c]
           /\ Advance
           /\ UNCHANGED <<file, src, emit, phase, result, pos, functions, strs>>
  <2>1. /\ current \in ActivationOf /\ calls # <<>> /\ phase = "compiling"
        /\ Len(comps) = Top(current) /\ n \in Nat \ {0}
        /\ comp = comps[n] /\ comp \in CompilerOf
    BY <1>1, <1>3, DoingFacts, CurrentFacts
  <2>2. PICK vars \in Seq(VariableOf) : vars = comps[n].variables
    BY <2>1 DEF CompilerOf
  <2>3. PICK m \in 0..UINT8_MAX : m = comps[n].nextIndex
    BY <2>1 DEF CompilerOf
  <2>4. Len(vars) \in Nat /\ DOMAIN vars = 1..Len(vars) /\ Len(vars) < UINT8_MAX
    BY <1>6, <2>1, <2>2, LenProperties DEF Fits
  <2>5. /\ m \in 1..(Len(vars) + 1)
        /\ \A i \in 1..Len(vars) : vars[i].isLocal => vars[i].index < m
    <3>1. SlotsInOrder(comps[n])
      BY <1>3, <2>1, RecordFacts
    <3> QED BY <2>2, <2>3, <2>4, <3>1, ByteAssumption DEF SlotsInOrder
  <2>6. current.token.text \in Texts
    BY <2>1 DEF ActivationOf, TokenOf
  <2>7. /\ var \in VariableOf /\ var.isLocal /\ var.index = m
    BY <1>4, <2>1, <2>3, <2>6 DEF Variable, VariableOf
  <2>8. PICK next \in 0..UINT8_MAX : next = (m + 1) % (UINT8_MAX + 1)
    BY <2>3, ByteAssumption
  <2>9. next = IF m = UINT8_MAX THEN 0 ELSE m + 1
    BY <2>8, NextByte
  <2>10. PICK grown : grown = Append(vars, var)
    OBVIOUS
  <2>11. /\ grown \in Seq(VariableOf) /\ Len(grown) = Len(vars) + 1
         /\ grown[Len(vars) + 1] = var /\ \A i \in 1..Len(vars) : grown[i] = vars[i]
         /\ DOMAIN grown = 1..(Len(vars) + 1)
    BY <2>2, <2>7, <2>10, AppendProperties, LenProperties
  <2>12. /\ c \in CompilerOf /\ c.fn = comps[n].fn /\ c.variables = grown
         /\ c.nextIndex = next
    <3>1. c = [comp EXCEPT !.variables = grown, !.nextIndex = next]
      BY <1>4, <1>5, <2>1, <2>2, <2>3, <2>8, <2>10 DEF Declared
    <3> QED BY <2>1, <2>11, <3>1 DEF CompilerOf
  <2>13. /\ comps' \in Seq(CompilerOf) /\ Len(comps') = n /\ DOMAIN comps' = 1..n
         /\ \A k \in 1..n : comps'[k] = IF k = n THEN c ELSE comps[k]
    BY <1>3, <1>6, <2>1, <2>12, RecordFacts, ExceptSeq, LenProperties
  <2>14. SlotsInOrder(c)
    <3>1. Len(c.variables) <= UINT8_MAX
      BY <2>4, <2>11, <2>12, ByteAssumption
    <3>2. \/ c.nextIndex \in 1..(Len(c.variables) + 1)
          \/ c.nextIndex = 0 /\ Len(c.variables) = UINT8_MAX
      BY <2>3, <2>4, <2>5, <2>9, <2>11, <2>12, ByteAssumption
    <3>3. ASSUME c.nextIndex # 0, NEW i \in 1..Len(c.variables), c.variables[i].isLocal
          PROVE  c.variables[i].index < c.nextIndex
      <4>1. next = m + 1
        BY <2>9, <2>12, <3>3
      <4>2. CASE i = Len(vars) + 1
        BY <2>3, <2>7, <2>11, <2>12, <4>1, <4>2
      <4>3. CASE i # Len(vars) + 1
        <5>1. i \in 1..Len(vars) /\ vars[i].isLocal /\ c.variables[i] = vars[i]
          BY <2>4, <2>11, <2>12, <3>3, <4>3
        <5>2. vars[i].index \in Nat
          <6>1. vars[i] \in VariableOf
            BY <2>4, <5>1
          <6> QED BY <6>1 DEF VariableOf
        <5> QED BY <2>3, <2>5, <2>12, <4>1, <5>1, <5>2
      <4> QED BY <4>2, <4>3
    <3> QED BY <3>1, <3>2, <3>3 DEF SlotsInOrder
  <2>15. ASSUME NEW k \in 1..n
         PROVE  /\ comps'[k].fn <= Len(functions')
                /\ \A j \in 1..(k - 1) : comps'[j].fn # comps'[k].fn
                /\ SlotsInOrder(comps'[k])
                /\ Len(functions'[comps'[k].fn].nonlocals) <= Len(comps'[k].variables)
    <3>1. \A j \in 1..n : comps'[j].fn = comps[j].fn
      BY <2>12, <2>13
    <3>2. \A j \in 1..(k - 1) : j \in 1..n
      BY <2>1
    <3>3. \A j \in 1..(k - 1) : comps'[j].fn # comps'[k].fn
      BY <1>3, <3>1, <3>2, RecordFacts
    <3>4. SlotsInOrder(comps'[k])
      BY <1>3, <2>13, <2>14, RecordFacts
    <3>5. Len(comps'[k].variables) >= Len(comps[k].variables)
      BY <1>3, <2>2, <2>4, <2>11, <2>12, <2>13, RecordFacts
    <3>6. comps'[k].fn = comps[k].fn /\ functions' = functions /\ k \in 1..Len(comps)
      BY <1>3, <1>6, <3>1
    <3>7. /\ comps[k].fn <= Len(functions)
          /\ Len(functions[comps[k].fn].nonlocals) <= Len(comps[k].variables)
          /\ Len(functions[comps[k].fn].nonlocals) \in Nat
          /\ Len(comps[k].variables) \in Nat
      BY <3>6, RecordFacts, SMTT(30)
    <3>8. Len(comps'[k].variables) \in Nat
      BY <1>3, <2>4, <2>11, <2>12, <2>13, RecordFacts
    <3>9. Len(functions'[comps'[k].fn].nonlocals) <= Len(comps'[k].variables)
      <4>1. PICK a, b, e : /\ a = Len(functions[comps[k].fn].nonlocals)
                           /\ b = Len(comps[k].variables)
                           /\ e = Len(comps'[k].variables)
        OBVIOUS
      <4>4. a \in Nat /\ b \in Nat /\ a <= b
        BY <3>7, <4>1
      <4>5. e \in Nat /\ b <= e
        BY <3>5, <3>8, <4>1, <4>4
      <4>2. a <= e
        BY <4>4, <4>5
      <4>3. Len(functions'[comps'[k].fn].nonlocals) = a
        BY <3>6, <4>1
      <4> QED BY <4>1, <4>2, <4>3
    <3> QED BY <3>3, <3>4, <3>6, <3>7, <3>9
  <2>16. \A k \in 1..n : Range_(comps[k].variables) \subseteq Range_(comps'[k].variables)
    <3>1. \A v \in Range_(vars) : v \in Range_(grown)
      BY <2>4, <2>11 DEF Range_
    <3> QED BY <2>2, <2>12, <2>13, <3>1
  <2>17. CapturesLead'
    <3> SUFFICES ASSUME NEW k \in 1..n,
                        NEW v \in Range_(comps'[k].variables), ~v.isLocal
                 PROVE  /\ k > 1
                        /\ v.index < Len(functions'[comps'[k].fn].nonlocals)
                        /\ \E u \in Range_(comps'[k - 1].variables) :
                             /\ u.name = v.name
                             /\ functions'[comps'[k].fn].nonlocals[v.index + 1]
                                  = [isLocal |-> u.isLocal, index |-> u.index]
      <4>1. DOMAIN comps' = 1..n
        BY <2>13
      <4> QED BY <4>1 DEF CapturesLead
    <3>1. v \in Range_(comps[k].variables)
      <4>1. CASE k = n
        <5>1. v \in Range_(grown)
          BY <2>12, <2>13, <4>1
        <5>2. v # var
          BY <2>7
        <5>3. v \in Range_(vars)
          BY <2>4, <2>11, <5>1, <5>2 DEF Range_
        <5> QED BY <2>2, <4>1, <5>3
      <4>2. CASE k # n
        BY <2>13, <4>2
      <4> QED BY <4>1, <4>2
    <3>2. /\ k > 1
          /\ v.index < Len(functions[comps[k].fn].nonlocals)
          /\ \E u \in Range_(comps[k - 1].variables) :
               /\ u.name = v.name
               /\ functions[comps[k].fn].nonlocals[v.index + 1]
                    = [isLocal |-> u.isLocal, index |-> u.index]
      BY <1>3, <3>1, CaptureFacts
    <3>3. comps'[k].fn = comps[k].fn /\ functions' = functions
      BY <1>6, <2>12, <2>13
    <3>4. Range_(comps[k - 1].variables) \subseteq Range_(comps'[k - 1].variables)
      <4>1. k - 1 \in 1..n
        BY <2>1, <3>2
      <4> QED BY <2>16, <4>1
    <3> QED BY <3>2, <3>3, <3>4
  <2>18. SlotsDistinct'
    <3>1. ASSUME NEW k \in 1..n,
                 NEW i \in DOMAIN comps'[k].variables, NEW j \in DOMAIN comps'[k].variables,
                 comps'[k].variables[i].isLocal = comps'[k].variables[j].isLocal,
                 comps'[k].variables[i].index = comps'[k].variables[j].index
          PROVE  i = j
      <4>1. CASE k # n
        <5>1. k \in DOMAIN comps /\ comps'[k] = comps[k]
          BY <1>3, <2>13, <4>1, RecordFacts
        <5> QED BY <3>1, <5>1 DEF CInv, ScopesInv, SlotsDistinct
      <4>2. CASE k = n
        <5>1. comps'[k].variables = grown
          BY <2>12, <2>13, <4>2
        <5>2. ASSUME NEW a \in 1..Len(vars)
              PROVE  ~(grown[a].isLocal = var.isLocal /\ grown[a].index = var.index)
          <6>1. grown[a] = vars[a] /\ vars[a] \in VariableOf
            BY <2>11
          <6>2. vars[a].isLocal => vars[a].index < m
            BY <2>5
          <6>3. vars[a].index \in Nat /\ vars[a].isLocal \in BOOLEAN /\ var.isLocal \in BOOLEAN
            BY <2>7, <6>1 DEF VariableOf
          <6>4. CASE vars[a].isLocal
            BY <2>3, <2>7, <6>1, <6>2, <6>3, <6>4
          <6>5. CASE ~vars[a].isLocal
            BY <2>7, <6>1, <6>5
          <6> QED BY <6>4, <6>5
        <5>3. i \in 1..(Len(vars) + 1) /\ j \in 1..(Len(vars) + 1)
          BY <2>11, <3>1, <5>1
        <5>4. CASE i \in 1..Len(vars) /\ j \in 1..Len(vars)
          <6>1. vars[i].isLocal = vars[j].isLocal /\ vars[i].index = vars[j].index
            BY <2>11, <3>1, <5>1, <5>4
          <6>2. n \in DOMAIN comps /\ i \in DOMAIN comps[n].variables
                /\ j \in DOMAIN comps[n].variables
            BY <1>3, <2>1, <2>2, <2>4, <5>4, RecordFacts
          <6> QED BY <2>2, <6>1, <6>2 DEF CInv, ScopesInv, SlotsDistinct
        <5>5. CASE i = Len(vars) + 1 /\ j \in 1..Len(vars)
          BY <2>11, <3>1, <5>1, <5>2, <5>5
        <5>6. CASE j = Len(vars) + 1 /\ i \in 1..Len(vars)
          BY <2>11, <3>1, <5>1, <5>2, <5>6
        <5> QED BY <2>4, <5>3, <5>4, <5>5, <5>6
      <4> QED BY <4>1, <4>2
    <3> QED BY <2>13, <3>1 DEF SlotsDistinct
  <2>19. ScopesInv'
    BY <1>6, <2>13, <2>15, <2>17, <2>18, RecordFacts DEF ScopesInv
  <2>20. PICK act : act = [current EXCEPT !.pc = @ + 1]
    OBVIOUS
  <2>21. /\ act \in ActivationOf /\ act.proc = current.proc /\ act.comp = current.comp
         /\ act.pc = current.pc + 1 /\ act.token = current.token /\ act.jump = current.jump
    BY <2>1, <2>20 DEF ActivationOf
  <2>22. ActivationOK(act, emit) /\ Top(act) = Top(current)
    BY <1>1, <2>21, NextPlace
  <2>25. Become(act)
    BY <1>6, <2>20 DEF Advance
  <2>23. CallsInv'
    BY <1>3, <1>6, <2>1, <2>13, <2>21, <2>22, <2>25, BecomeKeeps
  <2>24. TokensInv' /\ strs' \in Seq(Range_(strs'))
    BY <1>6, TokensSame DEF CInv
  <2> QED BY <1>6, <2>1, <2>19, <2>23, <2>24 DEF CInv
<1>8. CASE Fits(comp)
  <2>1. /\ comps' = [comps EXCEPT ![n] = c]
        /\ Advance
        /\ UNCHANGED <<steady, pos, functions, strs>>
    BY <1>3, <1>5, <1>8 DEF add_local
  <2> QED BY <1>6, <1>8, <2>1 DEF steady
<1> QED BY <1>2, <1>8 DEF add_local

-----------------------------------------------------------------------------
(* Variables.                                                              *)

LEMMA LeastElement ==
  ASSUME NEW T, T \subseteq Nat, T # {}
  PROVE  \E x \in T : \A y \in T : x <= y
<1> DEFINE R == {ss \in Nat \X Nat : ss[1] < ss[2]}
<1>1. IsWellFoundedOn(R, Nat)
  BY NatLessThanWellFounded, Zenon DEF OpToRel
<1>2. PICK x \in T : \A y \in T : ~ (<<y, x>> \in R)
  <2> HIDE DEF R
  <2> QED BY <1>1, WFMin
<1>3. ASSUME NEW y \in T PROVE x <= y
  <2>1. ~ (<<y, x>> \in R)
    BY <1>2
  <2>2. x \in Nat /\ y \in Nat
    OBVIOUS
  <2>3. ~ (y < x)
    BY <2>1, <2>2
  <2> QED BY <2>2, <2>3
<1> QED BY <1>3

LEMMA GreatestElement ==
  ASSUME NEW n \in Nat, NEW T, T \subseteq 1..n, T # {}
  PROVE  \E x \in T : \A y \in T : y <= x
<1>1. PICK U : U = {m \in Nat : \A y \in T : y <= m}
  OBVIOUS
<1>2. n \in U
  BY <1>1
<1>3. PICK m \in U : \A u \in U : m <= u
  BY <1>1, <1>2, LeastElement
<1>4. m \in T
  <2> SUFFICES ASSUME m \notin T PROVE FALSE
    OBVIOUS
  <2>1. \A y \in T : y \in Nat \ {0} /\ y <= m
    BY <1>1, <1>3
  <2>2. m \in Nat /\ m # 0
    <3>1. m \in Nat
      BY <1>1, <1>3
    <3>2. PICK y \in T : y \in Nat \ {0} /\ y <= m
      BY <2>1
    <3> QED BY <3>1, <3>2
  <2>3. \A y \in T : y <= m - 1
    BY <2>1, <2>2
  <2>4. m - 1 \in U
    BY <1>1, <2>2, <2>3
  <2> QED BY <1>3, <2>2, <2>4
<1> QED BY <1>1, <1>3, <1>4

(* The variable that a record has under a name it knows.                   *)
LEMMA LookupIs ==
  ASSUME NEW c \in CompilerOf, NEW name, Known(c, name) # {}
  PROVE  /\ lookup_variable(c, name) \in VariableOf
         /\ lookup_variable(c, name).name = name
         /\ lookup_variable(c, name) \in Range_(c.variables)
<1>1. c.variables \in Seq(VariableOf)
  BY DEF CompilerOf
<1>2. Len(c.variables) \in Nat /\ DOMAIN c.variables = 1..Len(c.variables)
  BY <1>1, LenProperties
<1>3. PICK T : T = Known(c, name)
  OBVIOUS
<1>4. T \subseteq 1..Len(c.variables) /\ T # {}
  BY <1>2, <1>3 DEF Known
<1>5. \E x \in T : \A y \in T : y <= x
  BY <1>2, <1>4, GreatestElement
<1>6. PICK i \in T : i = CHOOSE x \in T : \A y \in T : y <= x
  BY <1>5
<1>7. lookup_variable(c, name) = c.variables[i]
  BY <1>3, <1>6 DEF lookup_variable
<1>8. c.variables[i].name = name /\ i \in DOMAIN c.variables
  BY <1>3 DEF Known
<1>9. c.variables[i] \in VariableOf
  BY <1>1, <1>8
<1> QED BY <1>7, <1>8, <1>9 DEF Range_

LEMMA ResolvedIs ==
  ASSUME CInv, NEW name \in Texts, NEW d \in 1..Len(comps), Known(comps[d], name) # {},
         \A k \in (d + 1)..Len(comps) : Fits(comps[k])
  PROVE  /\ Resolved(d, d, name) \in VariableOf /\ Resolved(d, d, name).name = name
         /\ Resolved(d, d, name) \in Range_(comps[d].variables)
         /\ \A k \in (d + 1)..Len(comps) :
              /\ Resolved(k, d, name) \in VariableOf
              /\ Resolved(k, d, name).name = name
              /\ ~Resolved(k, d, name).isLocal
              /\ Resolved(k, d, name).index = Len(functions[comps[k].fn].nonlocals)
<1>1. /\ Resolved(d, d, name) \in VariableOf /\ Resolved(d, d, name).name = name
      /\ Resolved(d, d, name) \in Range_(comps[d].variables)
  BY RecordFacts, LookupIs DEF Resolved
<1>2. ASSUME NEW k \in (d + 1)..Len(comps)
      PROVE  /\ Resolved(k, d, name) \in VariableOf
             /\ Resolved(k, d, name).name = name
             /\ ~Resolved(k, d, name).isLocal
             /\ Resolved(k, d, name).index = Len(functions[comps[k].fn].nonlocals)
  <2>1. k # d /\ k \in 1..Len(comps)
    OBVIOUS
  <2>2. Resolved(k, d, name) = Variable(name, FALSE, Len(functions[comps[k].fn].nonlocals))
    BY <2>1 DEF Resolved
  <2>3. PICK n, m : n = Len(functions[comps[k].fn].nonlocals) /\ m = Len(comps[k].variables)
    OBVIOUS
  <2>4. n \in Nat /\ m \in Nat /\ n <= m
    BY <2>1, <2>3, RecordFacts
  <2>5. m < UINT8_MAX
    BY <2>3 DEF Fits
  <2>6. n \in 0..UINT8_MAX
    BY <2>4, <2>5, Bytes
  <2> QED BY <2>2, <2>3, <2>6 DEF Variable, VariableOf
<1> QED BY <1>1, <1>2


(* The functions inside the record that knows the name capture it, each    *)
(* from the one around it.                                                 *)
LEMMA CapturingIs ==
  ASSUME CInv, NEW name \in Texts, NEW d \in 1..Len(comps), Known(comps[d], name) # {},
         \A k \in (d + 1)..Len(comps) : Fits(comps[k])
  PROVE  /\ \A f \in 1..Len(functions) : Capturing(f, d, name) \in FunctionOf
         /\ \A k \in 1..d : Capturing(comps[k].fn, d, name) = functions[comps[k].fn]
         /\ \A k \in (d + 1)..Len(comps) :
              Capturing(comps[k].fn, d, name).nonlocals
                = Append(functions[comps[k].fn].nonlocals,
                         [isLocal |-> Resolved(k - 1, d, name).isLocal,
                          index   |-> Resolved(k - 1, d, name).index])
<1>1. Len(comps) \in Nat /\ \A k \in 1..Len(comps) : comps[k].fn \in 1..Len(functions)
  BY RecordFacts
<1>2. ASSUME NEW j \in 1..Len(comps), NEW k \in 1..Len(comps), comps[j].fn = comps[k].fn
      PROVE  j = k
  <2>1. CASE j < k
    BY <1>2, <2>1, RecordFacts
  <2>2. CASE k < j
    BY <1>2, <2>2, RecordFacts
  <2> QED BY <1>1, <2>1, <2>2
<1>3. ASSUME NEW k \in (d + 1)..Len(comps)
      PROVE  Capturing(comps[k].fn, d, name)
               = [functions[comps[k].fn] EXCEPT
                    !.nonlocals = Append(@, [isLocal |-> Resolved(k - 1, d, name).isLocal,
                                             index   |-> Resolved(k - 1, d, name).index])]
  <2>1. PICK f : f = comps[k].fn
    OBVIOUS
  <2>2. \E i \in (d + 1)..Len(comps) : comps[i].fn = f
    BY <2>1
  <2>3. PICK i \in (d + 1)..Len(comps) :
          i = (CHOOSE x \in (d + 1)..Len(comps) : comps[x].fn = f) /\ comps[i].fn = f
    BY <2>2
  <2>4. i = k
    BY <1>1, <1>2, <2>1, <2>3
  <2> QED BY <2>1, <2>2, <2>3, <2>4 DEF Capturing
<1>4. ASSUME NEW k \in (d + 1)..Len(comps)
      PROVE  /\ Capturing(comps[k].fn, d, name) \in FunctionOf
             /\ Capturing(comps[k].fn, d, name).nonlocals
                  = Append(functions[comps[k].fn].nonlocals,
                           [isLocal |-> Resolved(k - 1, d, name).isLocal,
                            index   |-> Resolved(k - 1, d, name).index])
  <2>1. PICK g \in FunctionOf : g = functions[comps[k].fn]
    BY <1>1, RecordFacts
  <2>2. Resolved(k - 1, d, name) \in VariableOf
    <3>1. CASE k - 1 = d
      BY <3>1, ResolvedIs
    <3>2. CASE k - 1 # d
      <4>1. k - 1 \in (d + 1)..Len(comps)
        BY <1>1, <3>2
      <4> QED BY <4>1, ResolvedIs
    <3> QED BY <3>1, <3>2
  <2>3. PICK e : e = [isLocal |-> Resolved(k - 1, d, name).isLocal,
                      index   |-> Resolved(k - 1, d, name).index]
    OBVIOUS
  <2>4. e \in [isLocal : BOOLEAN, index : 0..UINT8_MAX]
    BY <2>2, <2>3 DEF VariableOf
  <2>5. Append(g.nonlocals, e) \in Seq([isLocal : BOOLEAN, index : 0..UINT8_MAX])
    BY <2>4, AppendProperties DEF FunctionOf
  <2>6. Capturing(comps[k].fn, d, name) = [g EXCEPT !.nonlocals = Append(g.nonlocals, e)]
    BY <1>3, <2>1, <2>3
  <2> QED BY <2>1, <2>3, <2>5, <2>6 DEF FunctionOf
<1>5. ASSUME NEW f \in 1..Len(functions), ~ \E k \in (d + 1)..Len(comps) : comps[k].fn = f
      PROVE  Capturing(f, d, name) = functions[f]
  BY <1>5 DEF Capturing
<1>6. ASSUME NEW f \in 1..Len(functions)
      PROVE  Capturing(f, d, name) \in FunctionOf
  <2>1. CASE \E k \in (d + 1)..Len(comps) : comps[k].fn = f
    BY <1>4, <2>1
  <2>2. CASE ~ \E k \in (d + 1)..Len(comps) : comps[k].fn = f
    BY <1>5, <2>2, RecordFacts
  <2> QED BY <2>1, <2>2
<1>7. ASSUME NEW k \in 1..d
      PROVE  Capturing(comps[k].fn, d, name) = functions[comps[k].fn]
  <2>1. PICK f \in 1..Len(functions) : f = comps[k].fn
    BY <1>1
  <2>2. ~ \E i \in (d + 1)..Len(comps) : comps[i].fn = f
    <3> SUFFICES ASSUME NEW i \in (d + 1)..Len(comps), comps[i].fn = f
                 PROVE  FALSE
      OBVIOUS
    <3>1. i = k
      BY <1>1, <1>2, <2>1
    <3> QED BY <1>1, <3>1
  <2> QED BY <1>5, <2>1, <2>2
<1> QED BY <1>4, <1>6, <1>7

GrownBy(t, s, x) ==
  /\ \E n \in Nat : /\ n = Len(s) /\ Len(t) = n + 1
                    /\ DOMAIN s = 1..n /\ DOMAIN t = 1..(n + 1)
                    /\ \A i \in 1..n : t[i] = s[i]
                    /\ t[n + 1] = x
  /\ Range_(s) \subseteq Range_(t)
  /\ x \in Range_(t)
  /\ \A v \in Range_(t) : v = x \/ v \in Range_(s)

LEMMA Grown ==
  ASSUME NEW S, NEW s \in Seq(S), NEW x \in S
  PROVE  GrownBy(Append(s, x), s, x)
<1> DEFINE t == Append(s, x)
<1>1. t \in Seq(S) /\ Len(t) = Len(s) + 1 /\ Len(s) \in Nat
  BY AppendProperties, LenProperties
<1>2. (\A i \in 1..Len(s) : t[i] = s[i]) /\ t[Len(s) + 1] = x
  BY AppendProperties
<1>3. DOMAIN s = 1..Len(s)
  BY LenProperties
<1>4. DOMAIN t = 1..Len(t)
  BY <1>1, LenProperties
<1>5. PICK n \in Nat : n = Len(s)
  BY <1>1
<1>6. DOMAIN s = 1..n /\ DOMAIN t = 1..(n + 1)
  BY <1>1, <1>3, <1>4, <1>5
<1>7. (\A i \in 1..n : t[i] = s[i]) /\ t[n + 1] = x
  BY <1>2, <1>5
<1> HIDE DEF t
<1>8. /\ \A i \in DOMAIN s : i \in DOMAIN t /\ t[i] = s[i]
      /\ \A i \in DOMAIN t : i \in DOMAIN s \/ i = n + 1
      /\ n + 1 \in DOMAIN t
  BY <1>6, <1>7
<1>9. Range_(s) \subseteq Range_(t)
  BY <1>8 DEF Range_
<1>10. x \in Range_(t)
  BY <1>7, <1>8 DEF Range_
<1>11. \A v \in Range_(t) : v = x \/ v \in Range_(s)
  BY <1>7, <1>8 DEF Range_
<1>12. Len(t) = n + 1
  BY <1>1, <1>5
<1> HIDE DEF t
<1>13. GrownBy(t, s, x)
  BY <1>5, <1>6, <1>7, <1>9, <1>10, <1>11, <1>12 DEF GrownBy
<1> QED BY <1>13 DEF t

(* Each record below d gets the variable r[k]; its function captures what  *)
(* the record before has under the name.                                   *)
Captured(d, r) ==
  /\ \A k \in d..Len(comps) : r[k] \in VariableOf /\ r[k].name = r[d].name
  /\ r[d] \in Range_(comps[d].variables)
  /\ \A k \in (d + 1)..Len(comps) :
       /\ Fits(comps[k]) /\ ~r[k].isLocal
       /\ r[k].index = Len(functions[comps[k].fn].nonlocals)
  /\ functions' \in Seq(FunctionOf) /\ Len(functions') = Len(functions)
  /\ \A k \in 1..d :
       functions'[comps[k].fn].nonlocals = functions[comps[k].fn].nonlocals
  /\ \A k \in (d + 1)..Len(comps) :
       functions'[comps[k].fn].nonlocals
         = Append(functions[comps[k].fn].nonlocals,
                  [isLocal |-> r[k - 1].isLocal, index |-> r[k - 1].index])
  /\ comps' = [k \in DOMAIN comps |->
                 IF k \notin (d + 1)..Len(comps) THEN comps[k]
                 ELSE [comps[k] EXCEPT !.variables = Append(@, r[k])]]

LEMMA ScopesCapture ==
  ASSUME CInv, NEW d \in 1..Len(comps), NEW r, Captured(d, r)
  PROVE  ScopesInv' /\ Len(comps') = Len(comps)
<1>1. PICK n \in Nat : n = Len(comps)
  BY RecordFacts
<1>2. DOMAIN comps = 1..n /\ d \in 1..n
  BY <1>1, RecordFacts
<1>3. ASSUME NEW k \in 1..d
      PROVE  /\ k \in 1..n /\ comps'[k] = comps[k]
             /\ functions'[comps'[k].fn].nonlocals = functions[comps[k].fn].nonlocals
  BY <1>1, <1>2 DEF Captured
<1>4. ASSUME NEW k \in (d + 1)..n
      PROVE  /\ k \in 1..n /\ k \in 2..n /\ k - 1 \in d..n
             /\ comps'[k] \in CompilerOf
             /\ comps'[k].fn = comps[k].fn /\ comps'[k].nextIndex = comps[k].nextIndex
             /\ comps'[k].variables = Append(comps[k].variables, r[k])
  <2>1. k \in 1..n /\ k \in 2..n /\ k \in d..n /\ k - 1 \in d..n
    BY <1>2
  <2>2. comps[k] \in CompilerOf /\ comps[k].variables \in Seq(VariableOf)
    BY <1>1, <2>1, RecordFacts
  <2>3. Append(comps[k].variables, r[k]) \in Seq(VariableOf)
    <3>1. r[k] \in VariableOf
      BY <1>1, <2>1 DEF Captured
    <3> QED BY <2>2, <3>1, AppendProperties
  <2>4. comps'[k] = [comps[k] EXCEPT !.variables = Append(comps[k].variables, r[k])]
    BY <1>1, <1>2, <2>1 DEF Captured
  <2> QED BY <2>1, <2>2, <2>3, <2>4 DEF CompilerOf
<1>5. ASSUME NEW k \in 1..n
      PROVE  k \in 1..d \/ k \in (d + 1)..n
  BY <1>2
<1>6. comps' \in Seq(CompilerOf) /\ Len(comps') = n /\ DOMAIN comps' = 1..n
  <2>1. \A k \in 1..n : comps'[k] \in CompilerOf
    BY <1>1, <1>3, <1>4, <1>5, RecordFacts
  <2>2. PICK s : s = comps'
    OBVIOUS
  <2>3. s = [k \in 1..n |-> s[k]] /\ \A k \in 1..n : s[k] \in CompilerOf
    BY <1>1, <1>2, <2>1, <2>2 DEF Captured
  <2>4. s \in [1..n -> CompilerOf]
    BY <2>3
  <2>5. s \in Seq(CompilerOf)
    BY <2>4, SeqDef
  <2>6. DOMAIN s = 1..n
    BY <2>4
  <2>7. Len(s) = n
    BY <2>5, <2>6, LenProperties
  <2> QED BY <2>2, <2>5, <2>6, <2>7
(* A record that grows.                                                    *)
<1>7. ASSUME NEW k \in (d + 1)..n
      PROVE  \E vars \in Seq(VariableOf), nls \in Seq([isLocal : BOOLEAN, index : 0..UINT8_MAX]) :
               /\ vars = comps[k].variables /\ nls = functions[comps[k].fn].nonlocals
               /\ comps'[k].variables = Append(vars, r[k])
               /\ functions'[comps'[k].fn].nonlocals
                    = Append(nls, [isLocal |-> r[k - 1].isLocal, index |-> r[k - 1].index])
               /\ Len(vars) \in Nat /\ Len(nls) \in Nat
               /\ Len(nls) <= Len(vars) /\ Len(vars) < UINT8_MAX
               /\ r[k] \in VariableOf /\ ~r[k].isLocal /\ r[k].index = Len(nls)
  <2>1. k \in 1..Len(comps) /\ k \in d..Len(comps) /\ k \in (d + 1)..Len(comps)
    BY <1>1, <1>2
  <2>2. PICK vars \in Seq(VariableOf) : vars = comps[k].variables
    BY <2>1, RecordFacts
  <2>3. functions[comps[k].fn] \in FunctionOf
    BY <2>1, RecordFacts
  <2>4. PICK nls \in Seq([isLocal : BOOLEAN, index : 0..UINT8_MAX]) :
          nls = functions[comps[k].fn].nonlocals
    BY <2>3 DEF FunctionOf
  <2>5. Len(vars) \in Nat /\ Len(nls) \in Nat /\ Len(nls) <= Len(vars)
    BY <2>1, <2>2, <2>4, RecordFacts
  <2>6. Len(vars) < UINT8_MAX
    BY <2>1, <2>2 DEF Captured, Fits
  <2>7. r[k] \in VariableOf /\ ~r[k].isLocal /\ r[k].index = Len(nls)
    BY <2>1, <2>4, SMTT(30) DEF Captured
  <2>8. /\ comps'[k].variables = Append(vars, r[k])
        /\ functions'[comps'[k].fn].nonlocals
             = Append(nls, [isLocal |-> r[k - 1].isLocal, index |-> r[k - 1].index])
    BY <1>4, <2>1, <2>2, <2>4 DEF Captured
  <2> QED BY <2>2, <2>4, <2>5, <2>6, <2>7, <2>8
<1>8. ASSUME NEW k \in 1..n
      PROVE  Range_(comps[k].variables) \subseteq Range_(comps'[k].variables)
  <2>1. CASE k \in 1..d
    BY <1>3, <2>1
  <2>2. CASE k \in (d + 1)..n
    <3>1. PICK vars \in Seq(VariableOf) :
            /\ vars = comps[k].variables /\ comps'[k].variables = Append(vars, r[k])
            /\ r[k] \in VariableOf
      BY <1>7, <2>2
    <3>2. GrownBy(Append(vars, r[k]), vars, r[k])
      BY <3>1, Grown
    <3> QED BY <3>1, <3>2 DEF GrownBy
  <2> QED BY <1>5, <2>1, <2>2
(* What a record that grows has is what it had and the capture.            *)
<1>9. ASSUME NEW k \in (d + 1)..n, NEW v \in Range_(comps'[k].variables)
      PROVE  v = r[k] \/ v \in Range_(comps[k].variables)
  <2>1. PICK vars \in Seq(VariableOf) :
          /\ vars = comps[k].variables /\ comps'[k].variables = Append(vars, r[k])
          /\ r[k] \in VariableOf
    BY <1>7
  <2>2. GrownBy(Append(vars, r[k]), vars, r[k])
    BY <2>1, Grown
  <2> QED BY <2>1, <2>2 DEF GrownBy
<1>10. ASSUME NEW k \in d..n
       PROVE  r[k] \in Range_(comps'[k].variables)
  <2>1. CASE k = d
    BY <1>2, <1>3, <2>1 DEF Captured
  <2>2. CASE k # d
    <3>1. k \in (d + 1)..n
      BY <2>2
    <3>2. PICK vars \in Seq(VariableOf) :
            comps'[k].variables = Append(vars, r[k]) /\ r[k] \in VariableOf
      BY <1>7, <3>1
    <3>3. GrownBy(Append(vars, r[k]), vars, r[k])
      BY <3>2, Grown
    <3> QED BY <3>2, <3>3 DEF GrownBy
  <2> QED BY <2>1, <2>2
(* What was known of captures.                                             *)
<1>11. ASSUME NEW k \in 1..n, NEW v \in Range_(comps[k].variables), ~v.isLocal
       PROVE  /\ v \in VariableOf /\ v.index \in Nat
              /\ k > 1 /\ k - 1 \in 1..n
              /\ v.index < Len(functions[comps[k].fn].nonlocals)
              /\ \E u \in Range_(comps[k - 1].variables) :
                   /\ u.name = v.name
                   /\ functions[comps[k].fn].nonlocals[v.index + 1]
                        = [isLocal |-> u.isLocal, index |-> u.index]
  <2>1. v \in VariableOf
    BY SMTT(40), <1>1, <1>11, RecordFacts DEF Range_
  <2>2. /\ k > 1
        /\ v.index < Len(functions[comps[k].fn].nonlocals)
        /\ \E u \in Range_(comps[k - 1].variables) :
             /\ u.name = v.name
             /\ functions[comps[k].fn].nonlocals[v.index + 1]
                  = [isLocal |-> u.isLocal, index |-> u.index]
    BY <1>1, <1>11, CaptureFacts
  <2>3. v.index \in Nat
    BY <2>1 DEF VariableOf
  <2>4. k - 1 \in 1..n
    BY <2>2
  <2> QED BY <2>1, <2>2, <2>3, <2>4
<1>12. CapturesLead'
  <2> SUFFICES ASSUME NEW k \in 1..n,
                      NEW v \in Range_(comps'[k].variables), ~v.isLocal
               PROVE  /\ k > 1
                      /\ v.index < Len(functions'[comps'[k].fn].nonlocals)
                      /\ \E u \in Range_(comps'[k - 1].variables) :
                           /\ u.name = v.name
                           /\ functions'[comps'[k].fn].nonlocals[v.index + 1]
                                = [isLocal |-> u.isLocal, index |-> u.index]
    <3>1. DOMAIN comps' = 1..n
      BY <1>6
    <3> QED BY <3>1 DEF CapturesLead
  <2>1. CASE k \in 1..d
    <3>1. v \in Range_(comps[k].variables)
      BY <1>3, <2>1
    <3>2. /\ k > 1 /\ k - 1 \in 1..n
          /\ v.index < Len(functions[comps[k].fn].nonlocals)
          /\ \E u \in Range_(comps[k - 1].variables) :
               /\ u.name = v.name
               /\ functions[comps[k].fn].nonlocals[v.index + 1]
                    = [isLocal |-> u.isLocal, index |-> u.index]
      BY <1>11, <3>1
    <3>3. Range_(comps[k - 1].variables) \subseteq Range_(comps'[k - 1].variables)
      BY <1>8, <3>2
    <3> QED BY <1>3, <2>1, <3>2, <3>3
  <2>2. CASE k \in (d + 1)..n
    <3>1. PICK nls \in Seq([isLocal : BOOLEAN, index : 0..UINT8_MAX]) :
            /\ nls = functions[comps[k].fn].nonlocals
            /\ functions'[comps'[k].fn].nonlocals
                 = Append(nls, [isLocal |-> r[k - 1].isLocal, index |-> r[k - 1].index])
            /\ Len(nls) \in Nat /\ r[k].index = Len(nls)
      BY <1>7, <2>2
    <3>2. PICK e : e = [isLocal |-> r[k - 1].isLocal, index |-> r[k - 1].index]
      OBVIOUS
    <3>3. k - 1 \in d..n /\ k > 1 /\ k \in d..n
      BY <1>2, <2>2
    <3>4. r[k - 1] \in VariableOf /\ r[k - 1].name = r[d].name /\ r[k].name = r[d].name
      BY <1>1, <3>3 DEF Captured
    <3>5. e \in [isLocal : BOOLEAN, index : 0..UINT8_MAX]
      BY <3>2, <3>4 DEF VariableOf
    <3>6. \E captured : \E m \in Nat :
            /\ captured = Append(nls, e) /\ m = Len(nls) /\ Len(captured) = m + 1
            /\ captured[m + 1] = e /\ \A i \in 1..m : captured[i] = nls[i]
      <4>1. PICK captured : captured = Append(nls, e)
        OBVIOUS
      <4>2. GrownBy(captured, nls, e)
        BY <3>5, <4>1, Grown
      <4> QED BY <4>1, <4>2 DEF GrownBy
    <3>10. PICK captured : \E m \in Nat :
            /\ captured = Append(nls, e) /\ m = Len(nls) /\ Len(captured) = m + 1
            /\ captured[m + 1] = e /\ \A i \in 1..m : captured[i] = nls[i]
      BY <3>6
    <3>11. PICK m \in Nat :
            /\ captured = Append(nls, e) /\ m = Len(nls) /\ Len(captured) = m + 1
            /\ captured[m + 1] = e /\ \A i \in 1..m : captured[i] = nls[i]
      BY <3>10, Zenon
    <3>9. functions'[comps'[k].fn].nonlocals = captured /\ r[k].index = m
      BY <3>1, <3>2, <3>11
    <3>7. CASE v = r[k]
      <4>1. r[k - 1] \in Range_(comps'[k - 1].variables)
        BY <1>10, <3>3
      <4>2. v.index < m + 1 /\ v.index + 1 = m + 1
        BY <3>11, <3>7, <3>9
      <4>3. captured[v.index + 1] = [isLocal |-> r[k - 1].isLocal, index |-> r[k - 1].index]
        BY <3>2, <3>11, <4>2
      <4> QED BY <3>3, <3>4, <3>11, <3>7, <3>9, <4>1, <4>2, <4>3
    <3>8. CASE v \in Range_(comps[k].variables)
      <4>1. /\ v.index \in Nat /\ k - 1 \in 1..n
            /\ v.index < m
            /\ \E u \in Range_(comps[k - 1].variables) :
                 /\ u.name = v.name
                 /\ nls[v.index + 1] = [isLocal |-> u.isLocal, index |-> u.index]
        BY <1>11, <3>1, <3>11, <3>8
      <4>2. PICK u \in Range_(comps[k - 1].variables) :
              u.name = v.name /\ nls[v.index + 1] = [isLocal |-> u.isLocal, index |-> u.index]
        BY <4>1
      <4>3. u \in Range_(comps'[k - 1].variables)
        BY <1>8, <4>1
      <4>4. v.index + 1 \in 1..m /\ v.index < m + 1
        BY <3>11, <4>1
      <4>5. captured[v.index + 1] = nls[v.index + 1]
        BY <3>11, <4>4
      <4> QED BY <3>3, <3>11, <3>9, <4>2, <4>3, <4>4, <4>5, SMTT(30)
    <3> QED BY <1>9, <2>2, <3>7, <3>8
  <2> QED BY <1>5, <2>1, <2>2
<1>13. SlotsDistinct'
  <2> SUFFICES ASSUME NEW k \in 1..n,
                      NEW i \in DOMAIN comps'[k].variables,
                      NEW j \in DOMAIN comps'[k].variables,
                      comps'[k].variables[i].isLocal = comps'[k].variables[j].isLocal,
                      comps'[k].variables[i].index = comps'[k].variables[j].index
               PROVE  i = j
    <3>1. DOMAIN comps' = 1..n
      BY <1>6
    <3> QED BY <3>1 DEF SlotsDistinct
  <2>1. CASE k \in 1..d
    <3>1. k \in DOMAIN comps /\ comps'[k] = comps[k]
      BY <1>2, <1>3, <2>1
    <3> QED BY <3>1 DEF CInv, ScopesInv, SlotsDistinct
  <2>2. CASE k \in (d + 1)..n
    <3>1. PICK vars \in Seq(VariableOf) :
            /\ vars = comps[k].variables /\ comps'[k].variables = Append(vars, r[k])
            /\ Len(vars) \in Nat /\ r[k] \in VariableOf /\ ~r[k].isLocal
            /\ r[k].index = Len(functions[comps[k].fn].nonlocals)
      BY <1>7, <2>2
    <3>2. PICK grown : grown = Append(vars, r[k])
      OBVIOUS
    <3>3. PICK l \in Nat :
            /\ DOMAIN vars = 1..l /\ DOMAIN grown = 1..(l + 1)
            /\ \A a \in 1..l : grown[a] = vars[a]
            /\ grown[l + 1] = r[k]
      <4>1. GrownBy(grown, vars, r[k])
        BY <3>1, <3>2, Grown
      <4> QED BY <4>1 DEF GrownBy
    <3>4. ASSUME NEW a \in 1..l
          PROVE  ~(grown[a].isLocal = r[k].isLocal /\ grown[a].index = r[k].index)
      <4> SUFFICES ASSUME vars[a].isLocal = r[k].isLocal, vars[a].index = r[k].index
                   PROVE  FALSE
        BY <3>3
      <4>1. vars[a] \in Range_(comps[k].variables) /\ ~vars[a].isLocal
        BY <3>1, <3>3 DEF Range_
      <4>2. PICK m : m = Len(functions[comps[k].fn].nonlocals) /\ r[k].index = m
        BY <3>1
      <4>3. vars[a].index \in Nat /\ vars[a].index < m
        BY <1>11, <4>1, <4>2
      <4> QED BY <4>2, <4>3
    <3>5. i \in 1..(l + 1) /\ j \in 1..(l + 1)
      BY <3>1, <3>2, <3>3
    <3>6. grown[i].isLocal = grown[j].isLocal /\ grown[i].index = grown[j].index
      BY <3>1, <3>2
    <3>7. CASE i \in 1..l /\ j \in 1..l
      <4>1. vars[i].isLocal = vars[j].isLocal /\ vars[i].index = vars[j].index
        BY <3>3, <3>6, <3>7
      <4>2. /\ k \in DOMAIN comps /\ i \in DOMAIN comps[k].variables
            /\ j \in DOMAIN comps[k].variables
        BY <1>2, <3>1, <3>3, <3>7
      <4> QED BY <3>1, <4>1, <4>2 DEF CInv, ScopesInv, SlotsDistinct
    <3>8. CASE i = l + 1 /\ j \in 1..l
      BY <3>3, <3>4, <3>6, <3>8
    <3>9. CASE j = l + 1 /\ i \in 1..l
      BY <3>3, <3>4, <3>6, <3>9
    <3>10. i \in 1..l \/ i = l + 1
      BY <3>5
    <3>11. j \in 1..l \/ j = l + 1
      BY <3>5
    <3> QED BY <3>7, <3>8, <3>9, <3>10, <3>11
  <2> QED BY <1>5, <2>1, <2>2
<1>14. ASSUME NEW k \in 1..n
       PROVE  SlotsInOrder(comps'[k])
  <2>1. CASE k \in 1..d
    BY <1>1, <1>3, <2>1, RecordFacts
  <2>2. CASE k \in (d + 1)..n
    <3>1. PICK vars \in Seq(VariableOf) :
            /\ vars = comps[k].variables /\ comps'[k].variables = Append(vars, r[k])
            /\ Len(vars) \in Nat /\ r[k] \in VariableOf /\ ~r[k].isLocal
            /\ Len(vars) < UINT8_MAX
      BY <1>7, <2>2
    <3>2. PICK grown : grown = Append(vars, r[k])
      OBVIOUS
    <3>3. /\ Len(grown) = Len(vars) + 1
          /\ \A a \in 1..Len(vars) : grown[a] = vars[a]
          /\ grown[Len(vars) + 1] = r[k]
      BY <3>1, <3>2, AppendProperties
    <3>4. PICK m \in 0..UINT8_MAX : m = comps[k].nextIndex
      <4>1. comps[k] \in CompilerOf
        BY <1>1, RecordFacts
      <4> QED BY <4>1 DEF CompilerOf
    <3>5. /\ m \in 1..(Len(vars) + 1)
          /\ \A a \in 1..Len(vars) : vars[a].isLocal => vars[a].index < m
      <4>1. SlotsInOrder(comps[k])
        BY <1>1, RecordFacts
      <4> QED BY <3>1, <3>4, <4>1, Bytes DEF SlotsInOrder
    <3>6. comps'[k].nextIndex = m /\ comps'[k].variables = grown
      BY <1>4, <2>2, <3>1, <3>2, <3>4
    <3>7. Len(grown) <= UINT8_MAX /\ m \in 1..(Len(grown) + 1)
      BY <3>1, <3>3, <3>5, Bytes
    <3>8. ASSUME NEW a \in 1..Len(grown), grown[a].isLocal
          PROVE  grown[a].index < m
      <4>1. a \in 1..Len(vars) \/ a = Len(vars) + 1
        BY <3>1, <3>3
      <4> QED BY <3>1, <3>3, <3>5, <3>8, <4>1
    <3> QED BY <3>6, <3>7, <3>8 DEF SlotsInOrder
  <2> QED BY <1>5, <2>1, <2>2
<1>15. ASSUME NEW k \in 1..n
       PROVE  /\ comps'[k].fn <= Len(functions')
              /\ \A j \in 1..(k - 1) : comps'[j].fn # comps'[k].fn
              /\ Len(functions'[comps'[k].fn].nonlocals) <= Len(comps'[k].variables)
  <2>1. \A j \in 1..n : comps'[j].fn = comps[j].fn
    BY <1>3, <1>4, <1>5
  <2>2. \A j \in 1..(k - 1) : j \in 1..n
    OBVIOUS
  <2>3. comps'[k].fn <= Len(functions')
    BY <1>1, <2>1, RecordFacts DEF Captured
  <2>4. \A j \in 1..(k - 1) : comps'[j].fn # comps'[k].fn
    BY <1>1, <2>1, <2>2, RecordFacts
  <2>5. CASE k \in 1..d
    BY <1>1, <1>3, <2>3, <2>4, <2>5, RecordFacts
  <2>6. CASE k \in (d + 1)..n
    <3>1. PICK vars \in Seq(VariableOf), nls \in Seq([isLocal : BOOLEAN, index : 0..UINT8_MAX]) :
            /\ comps'[k].variables = Append(vars, r[k])
            /\ functions'[comps'[k].fn].nonlocals
                 = Append(nls, [isLocal |-> r[k - 1].isLocal, index |-> r[k - 1].index])
            /\ Len(vars) \in Nat /\ Len(nls) \in Nat /\ Len(nls) <= Len(vars)
            /\ r[k] \in VariableOf
      BY <1>7, <2>6
    <3>2. PICK e : e = [isLocal |-> r[k - 1].isLocal, index |-> r[k - 1].index]
      OBVIOUS
    <3>3. r[k - 1] \in VariableOf
      BY <1>1, <1>4, <2>6 DEF Captured
    <3>4. e \in [isLocal : BOOLEAN, index : 0..UINT8_MAX]
      BY <3>2, <3>3 DEF VariableOf
    <3>5. PICK m \in Nat, l \in Nat : m = Len(nls) /\ l = Len(vars) /\ m <= l
      BY <3>1
    <3>6. Len(Append(vars, r[k])) = l + 1
      BY <3>1, <3>5, AppendProperties
    <3>7. Len(Append(nls, e)) = m + 1
      BY <3>4, <3>5, AppendProperties
    <3>8. /\ Len(comps'[k].variables) = l + 1
          /\ Len(functions'[comps'[k].fn].nonlocals) = m + 1
      BY <3>1, <3>2, <3>6, <3>7
    <3>9. m + 1 <= l + 1
      BY <3>5
    <3> QED BY <2>3, <2>4, <3>8, <3>9
  <2> QED BY <1>5, <2>5, <2>6
<1>16. functions' \in Seq(FunctionOf)
  BY DEF Captured
<1> QED BY <1>1, <1>6, <1>12, <1>13, <1>14, <1>15, <1>16 DEF ScopesInv

LEMMA resolve_variableKeeps ==
  ASSUME CInv, resolve_variable
  PROVE  CInv'
<1>1. Doing("var")
  BY ZenonT(30) DEF resolve_variable
<1> DEFINE name  == current.token.text
           known == {k \in DOMAIN comps : Known(comps[k], name) # {}}
           d     == CHOOSE k \in known : \A j \in known : j <= k
           below == (d + 1)..Len(comps)
<1>10. \/ known = {} /\ Fail("variable is used but not defined")
       \/ known # {} /\ (emit \/ below # {}) /\ OutOfMemory
       \/ /\ known # {}
          /\ IF \E k \in below : ~Fits(comps[k]) THEN Undefined
             ELSE /\ functions' =
                       [f \in DOMAIN functions |->
                          LET g == Capturing(f, d, name)
                          IN IF f # comp.fn THEN g
                             ELSE [g EXCEPT !.code =
                                     @ \o Load(Resolved(Len(comps), d, name))]]
                  /\ comps' =
                       [k \in DOMAIN comps |->
                          IF k \notin below THEN comps[k]
                          ELSE [comps[k] EXCEPT !.variables =
                                  Append(@, Resolved(k, d, name))]]
                  /\ Advance
                  /\ UNCHANGED <<steady, pos, strs>>
  BY DEF resolve_variable
<1>2. name = current.token.text
  OBVIOUS
<1>3. known = {k \in DOMAIN comps : Known(comps[k], name) # {}}
  OBVIOUS
<1>4. d = CHOOSE k \in known : \A j \in known : j <= k
  OBVIOUS
<1>5. below = (d + 1)..Len(comps)
  OBVIOUS
<1> HIDE DEF name, known, d, below
<1>6. CASE \E error : Fail(error)
  BY <1>6, FailHereKeeps
<1>7. CASE OutOfMemory
  BY <1>7, OutOfMemoryKeeps
<1>8. CASE Undefined
  BY <1>8, UndefinedKeeps
<1>9. CASE /\ known # {} /\ \A k \in below : Fits(comps[k])
           /\ functions' =
                [f \in DOMAIN functions |->
                   LET g == Capturing(f, d, name)
                   IN IF f # comp.fn THEN g
                      ELSE [g EXCEPT !.code =
                              @ \o Load(Resolved(Len(comps), d, name))]]
           /\ comps' =
                [k \in DOMAIN comps |->
                   IF k \notin below THEN comps[k]
                   ELSE [comps[k] EXCEPT !.variables =
                           Append(@, Resolved(k, d, name))]]
           /\ Advance
           /\ UNCHANGED <<file, src, emit, phase, result, pos, strs>>
  <2>1. /\ current \in ActivationOf /\ calls # <<>> /\ phase = "compiling"
        /\ comp.fn \in 1..Len(functions)
    BY <1>1, DoingFacts, CurrentFacts
  <2>2. name \in Texts
    BY <1>2, <2>1 DEF ActivationOf, TokenOf
  <2>3. PICK n \in Nat : n = Len(comps) /\ DOMAIN comps = 1..n
    BY RecordFacts
  <2>4. d \in known /\ \A j \in known : j <= d
    <3>1. known \subseteq 1..n /\ known # {}
      BY <1>3, <1>9, <2>3
    <3>2. \E k \in known : \A j \in known : j <= k
      BY <2>3, <3>1, GreatestElement
    <3> QED BY <1>4, <3>2
  <2>5. d \in 1..Len(comps) /\ Known(comps[d], name) # {}
    BY <1>3, <2>3, <2>4
  <2>6. \A k \in (d + 1)..Len(comps) : Fits(comps[k])
    BY <1>5, <1>9
  <2>7. PICK r : r = [k \in d..Len(comps) |-> Resolved(k, d, name)]
    OBVIOUS
  <2>8. \A k \in d..Len(comps) : r[k] = Resolved(k, d, name)
    BY <2>7
  <2>9. d \in d..Len(comps)
    BY <2>3, <2>5
  <2>10. ASSUME NEW k \in d..Len(comps)
         PROVE  r[k] \in VariableOf /\ r[k].name = name
    <3>1. CASE k = d
      BY <2>2, <2>5, <2>6, <2>8, <3>1, ResolvedIs
    <3>2. CASE k # d
      <4>1. k \in (d + 1)..Len(comps)
        BY <2>3, <2>5, <3>2
      <4> QED BY <2>2, <2>5, <2>6, <2>8, <4>1, ResolvedIs
    <3> QED BY <3>1, <3>2
  <2>11. r[d] \in Range_(comps[d].variables)
    BY <2>2, <2>5, <2>6, <2>8, <2>9, ResolvedIs, ZenonT(30)
  <2>12. ASSUME NEW k \in (d + 1)..Len(comps)
         PROVE  /\ k \in d..Len(comps) /\ k - 1 \in d..Len(comps)
                /\ ~r[k].isLocal
                /\ r[k].index = Len(functions[comps[k].fn].nonlocals)
    <3>1. k \in d..Len(comps) /\ k - 1 \in d..Len(comps)
      BY <2>3, <2>5
    <3>2. PICK v : v = Resolved(k, d, name)
      OBVIOUS
    <3>3. ~v.isLocal /\ v.index = Len(functions[comps[k].fn].nonlocals)
      <4>1. k # d
        BY <2>3, <2>5
      <4>2. v = Variable(name, FALSE, Len(functions[comps[k].fn].nonlocals))
        BY <3>2, <4>1 DEF Resolved
      <4> QED BY <4>2 DEF Variable
    <3>4. r[k] = v
      BY <2>8, <3>1, <3>2
    <3> QED BY <3>1, <3>3, <3>4
  <2>13. PICK load : load = Load(Resolved(Len(comps), d, name))
    OBVIOUS
  <2>14. load \in Seq(0..UINT8_MAX)
    <3>1. Len(comps) \in d..Len(comps)
      BY <2>3, <2>5
    <3>2. r[Len(comps)].index \in 0..UINT8_MAX
      BY <2>10, <3>1 DEF VariableOf
    <3>3. PICK var : var = Resolved(Len(comps), d, name) /\ var.index \in 0..UINT8_MAX
      BY <2>8, <3>1, <3>2
    <3>4. CASE ~emit
      <4>1. load = <<>>
        BY <2>13, <3>4 DEF Load
      <4> QED BY <4>1, EmptySeq
    <3>5. CASE emit
      <4>1. PICK code : code = OpCode(IF var.isLocal THEN "OP_LOCAL" ELSE "OP_NONLOCAL")
        OBVIOUS
      <4>2. code \in 0..UINT8_MAX
        BY <4>1, EmittedCodes DEF Emitted
      <4>3. load = <<code, var.index>>
        BY <2>13, <3>3, <3>5, <4>1 DEF Load
      <4> QED BY <3>3, <4>2, <4>3, ByteSeqs
    <3> QED BY <3>4, <3>5
  <2>15. /\ \A f \in 1..Len(functions) : Capturing(f, d, name) \in FunctionOf
         /\ \A k \in 1..d : Capturing(comps[k].fn, d, name) = functions[comps[k].fn]
         /\ \A k \in (d + 1)..Len(comps) :
              Capturing(comps[k].fn, d, name).nonlocals
                = Append(functions[comps[k].fn].nonlocals,
                         [isLocal |-> Resolved(k - 1, d, name).isLocal,
                          index   |-> Resolved(k - 1, d, name).index])
    BY <2>2, <2>5, <2>6, CapturingIs
  <2>16. PICK m \in Nat : m = Len(functions) /\ DOMAIN functions = 1..m
    BY RecordFacts
  <2>17. ASSUME NEW f \in 1..m
         PROVE  /\ functions'[f] \in FunctionOf
                /\ functions'[f].nonlocals = Capturing(f, d, name).nonlocals
    <3>1. PICK g \in FunctionOf : g = Capturing(f, d, name)
      BY <2>15, <2>16
    <3>2. g.code \o load \in Seq(0..UINT8_MAX)
      BY <2>14, ConcatProperties DEF FunctionOf
    <3>3. functions'[f] = IF f # comp.fn THEN g ELSE [g EXCEPT !.code = g.code \o load]
      BY <1>9, <2>13, <2>16, <3>1
    <3>4. [g EXCEPT !.code = g.code \o load] \in FunctionOf
      BY <3>2 DEF FunctionOf
    <3>5. [g EXCEPT !.code = g.code \o load].nonlocals = g.nonlocals
      BY DEF FunctionOf
    <3> QED BY <3>1, <3>3, <3>4, <3>5
  <2>18. functions' \in Seq(FunctionOf) /\ Len(functions') = Len(functions)
    <3>1. PICK s : s = functions'
      OBVIOUS
    <3>2. s = [f \in 1..m |-> s[f]] /\ \A f \in 1..m : s[f] \in FunctionOf
      BY <1>9, <2>16, <2>17, <3>1
    <3>3. s \in [1..m -> FunctionOf]
      BY <3>2
    <3>4. s \in Seq(FunctionOf) /\ DOMAIN s = 1..m
      BY <3>3, SeqDef
    <3>5. Len(s) = m
      BY <3>4, LenProperties
    <3> QED BY <2>16, <3>1, <3>4, <3>5
  <2>19. Captured(d, r)
    <3>1. \A k \in 1..Len(comps) : comps[k].fn \in 1..m
      BY <2>16, RecordFacts
    <3>2. \A k \in 1..d : functions'[comps[k].fn].nonlocals = functions[comps[k].fn].nonlocals
      BY <2>3, <2>5, <2>15, <2>17, <3>1
    <3>3. \A k \in (d + 1)..Len(comps) :
            functions'[comps[k].fn].nonlocals
              = Append(functions[comps[k].fn].nonlocals,
                       [isLocal |-> r[k - 1].isLocal, index |-> r[k - 1].index])
      <4> SUFFICES ASSUME NEW k \in (d + 1)..Len(comps)
                   PROVE  functions'[comps[k].fn].nonlocals
                            = Append(functions[comps[k].fn].nonlocals,
                                     [isLocal |-> r[k - 1].isLocal, index |-> r[k - 1].index])
        OBVIOUS
      <4>1. k \in 1..Len(comps) /\ r[k - 1] = Resolved(k - 1, d, name)
        BY <2>3, <2>5, <2>8, <2>12
      <4> QED BY <2>15, <2>17, <3>1, <4>1
    <3>4. comps' = [k \in DOMAIN comps |->
                      IF k \notin (d + 1)..Len(comps) THEN comps[k]
                      ELSE [comps[k] EXCEPT !.variables = Append(@, r[k])]]
      BY <1>5, <1>9, <2>8, <2>12
    <3> QED BY <2>6, <2>9, <2>10, <2>11, <2>12, <2>18, <3>2, <3>3, <3>4 DEF Captured
  <2>20. ScopesInv' /\ Len(comps') = Len(comps)
    BY <2>5, <2>19, ScopesCapture
  <2>21. PICK act : act = [current EXCEPT !.pc = @ + 1]
    OBVIOUS
  <2>22. /\ act \in ActivationOf /\ act.proc = current.proc /\ act.comp = current.comp
         /\ act.pc = current.pc + 1 /\ act.token = current.token /\ act.jump = current.jump
    BY <2>1, <2>21 DEF ActivationOf
  <2>23. ActivationOK(act, emit) /\ Top(act) = Top(current)
    BY <1>1, <2>22, NextPlace
  <2>24. Become(act)
    BY <1>9, <2>21 DEF Advance
  <2>25. TokensInv' /\ strs' \in Seq(Range_(strs'))
    BY <1>9, TokensSame DEF CInv
  <2> QED BY <1>9, <2>1, <2>20, <2>22, <2>23, <2>24, <2>25, GoOn
<1> QED BY <1>6, <1>7, <1>8, <1>9, <1>10 DEF steady

-----------------------------------------------------------------------------
LEMMA InitInv == Init => CInv
<1> SUFFICES ASSUME Init PROVE CInv
  OBVIOUS
<1>1. /\ file \in DOMAIN Sources /\ src = Sources[file] /\ pos = 1
      /\ calls = <<>> /\ comps = <<>> /\ functions = <<>> /\ strs = <<>>
      /\ emit \in BOOLEAN /\ phase = "idle"
  BY DEF Init
<1>2. src \in Seq(TokenOf) /\ src # <<>> /\ src[Len(src)].kind = "EOF"
  BY <1>1, FileAssumption
<1>3. Len(src) \in Nat \ {0}
  BY <1>2, EmptySeq, LenProperties
<1>4. TokensInv
  BY <1>1, <1>2, <1>3 DEF TokensInv, NothingAfterEnd
<1>5. CallsInv
  <2>1. Len(calls) = 0 /\ calls \in Seq(ActivationOf)
    BY <1>1, EmptySeq
  <2> QED BY <1>1, <2>1 DEF CallsInv
<1>6. ScopesInv
  <2>1. Len(comps) = 0 /\ DOMAIN comps = {} /\ comps \in Seq(CompilerOf)
    BY <1>1, EmptySeq
  <2>2. functions \in Seq(FunctionOf)
    BY <1>1, EmptySeq
  <2> QED BY <2>1, <2>2 DEF ScopesInv, CapturesLead, SlotsDistinct
<1>7. strs \in Seq(Range_(strs))
  BY <1>1, EmptySeq
<1> QED BY <1>1, <1>4, <1>5, <1>6, <1>7 DEF CInv

LEMMA NextInv == CInv /\ [Next]_cvars => CInv'
<1> SUFFICES ASSUME CInv, [Next]_cvars PROVE CInv'
  OBVIOUS
<1>1. CASE UNCHANGED cvars
  <2>1. UNCHANGED <<file, src, emit, pos, calls, comps, functions, strs, phase>>
    BY <1>1 DEF cvars
  <2>2. TokensInv'
    BY <2>1, TokensSame DEF CInv
  <2>3. ScopesInv'
    BY <2>1, ScopesSame DEF CInv
  <2>4. CallsInv'
    BY <2>1 DEF CInv, CallsInv, ActivationOK, Opened, Top
  <2> QED BY <2>1, <2>2, <2>3, <2>4 DEF CInv
<1>2. CASE start
  BY <1>2, startKeeps
<1>3. CASE finish
  BY <1>3, finishKeeps
<1>4. CASE consume
  BY <1>4, consumeKeeps
<1>5. CASE keep
  BY <1>5, keepKeeps
<1>6. CASE keep_bool
  BY <1>6, keep_boolKeeps
<1>7. CASE first_item
  BY <1>7, first_itemKeeps
<1>8. CASE next_item
  BY <1>8, next_itemKeeps
<1>9. CASE call
  BY <1>9, callKeeps
<1>10. CASE term
  BY <1>10, termKeeps
<1>11. CASE dispatch
  BY <1>11, dispatchKeeps
<1>12. CASE return
  BY <1>12, returnKeeps
<1>13. CASE operator
  BY <1>13, operatorKeeps
<1>14. CASE chunk_emit_byte
  BY <1>14, chunk_emit_byteKeeps
<1>15. CASE emit_int
  BY <1>15, emit_intKeeps
<1>16. CASE emit_str
  BY <1>16, emit_strKeeps
<1>17. CASE emit_call
  BY <1>17, emit_callKeeps
<1>18. CASE jump_if_false
  BY <1>18, jump_if_falseKeeps
<1>19. CASE jump_over
  BY <1>19, jump_overKeeps
<1>20. CASE jump_target
  BY <1>20, jump_targetKeeps
<1>21. CASE open_function
  BY <1>21, open_functionKeeps
<1>22. CASE set_arity
  BY <1>22, set_arityKeeps
<1>23. CASE close_function
  BY <1>23, close_functionKeeps
<1>24. CASE add_local
  BY <1>24, add_localKeeps
<1>25. CASE resolve_variable
  BY <1>25, resolve_variableKeeps
<1> QED BY <1>1, <1>2, <1>3, <1>4, <1>5, <1>6, <1>7, <1>8, <1>9, <1>10, <1>11, <1>12,
           <1>13, <1>14, <1>15, <1>16, <1>17, <1>18, <1>19, <1>20, <1>21, <1>22, <1>23,
           <1>24, <1>25 DEF Next, Compile, Returned

(* The functions of the C stack and the compiler records that each of them *)
(* works for open and close in step, and the tokens behind the scanner do  *)
(* not include the end: what every other result about the compiler rests   *)
(* on.                                                                     *)
THEOREM CompilerInvariant == Spec => []CInv
<1> QED BY InitInv, NextInv, PTL DEF Spec

LEMMA TypesFollow == CInv => CTypeOK
<1> SUFFICES ASSUME CInv PROVE CTypeOK
  OBVIOUS
<1>1. /\ file \in DOMAIN Sources /\ emit \in BOOLEAN /\ pos \in 1..Len(src)
      /\ strs \in Seq(Range_(strs))
      /\ phase \in {"idle", "compiling", "done", "failed", "undefined"}
      /\ functions \in Seq(FunctionOf)
  BY DEF CInv, TokensInv, ScopesInv
<1>2. PICK n \in Nat : n = Len(calls) /\ DOMAIN calls = 1..n
  BY LenProperties DEF CInv, CallsInv
<1>3. PICK m \in Nat : m = Len(comps) /\ DOMAIN comps = 1..m
  BY RecordFacts
<1>4. ASSUME NEW i \in 1..n
      PROVE  /\ calls[i] \in ActivationOf
             /\ calls[i].pc <= Len(Script[calls[i].proc]) + 1
  BY <1>2 DEF CInv, CallsInv, ActivationOK
<1>5. ASSUME NEW i \in 1..n
      PROVE  Top(calls[i]) <= m
  <2>1. calls # <<>>
    BY <1>2, EmptySeq
  <2>2. m = Top(calls[n])
    BY <1>2, <1>3, <2>1 DEF CInv, CallsInv
  <2>3. CASE i = n
    BY <1>3, <2>2, <2>3
  <2>4. CASE i # n
    <3>1. i < n /\ n \in 1..n
      BY <1>2, <2>4
    <3>2. Top(calls[i]) <= calls[n].comp
      BY <1>2, <3>1 DEF CInv, CallsInv
    <3>3. calls[n].comp \in Nat /\ Opened(calls[n]) \in {0, 1}
      BY <1>4, <3>1 DEF ActivationOf, Opened
    <3>4. calls[n].comp <= m
      BY <2>2, <3>3 DEF Top
    <3>5. calls[i].comp \in Nat /\ Opened(calls[i]) \in {0, 1}
      BY <1>4 DEF ActivationOf, Opened
    <3>6. Top(calls[i]) \in Nat
      BY <3>5 DEF Top
    <3> QED BY <1>3, <3>2, <3>3, <3>4, <3>6
  <2> QED BY <2>3, <2>4
<1>6. ASSUME NEW i \in 1..n
      PROVE  /\ calls[i].proc \in DOMAIN Script
             /\ calls[i].pc \in 1..(Len(Script[calls[i].proc]) + 1)
             /\ calls[i].isTail \in BOOLEAN
             /\ calls[i].comp \in DOMAIN comps
             /\ calls[i].token \in TokenOf
             /\ calls[i].count \in 0..UINT8_MAX
             /\ calls[i].jump \in {NoJump} \cup Nat
  <2>1. /\ calls[i].proc \in DOMAIN Script /\ calls[i].pc \in Nat \ {0}
        /\ calls[i].isTail \in BOOLEAN /\ calls[i].comp \in Nat \ {0}
        /\ calls[i].token \in TokenOf /\ calls[i].count \in 0..UINT8_MAX
        /\ calls[i].jump \in {NoJump} \cup Nat
    BY <1>4 DEF ActivationOf
  <2>2. Len(Script[calls[i].proc]) \in Nat
    BY <2>1, PlainScripts, PlacedScripts, LenProperties
  <2>3. calls[i].pc \in 1..(Len(Script[calls[i].proc]) + 1)
    BY <1>4, <2>1, <2>2
  <2>4. Opened(calls[i]) \in {0, 1}
    BY DEF Opened
  <2>5. calls[i].comp <= m
    BY <1>3, <1>5, <2>1, <2>4 DEF Top
  <2> QED BY <1>3, <2>1, <2>3, <2>5
<1>7. comps \in Seq([fn : DOMAIN functions, variables : Seq(VariableOf),
                     nextIndex : 0..UINT8_MAX])
  <2>1. PICK R : R = [fn : DOMAIN functions, variables : Seq(VariableOf),
                      nextIndex : 0..UINT8_MAX]
    OBVIOUS
  <2>2. \A k \in 1..m : comps[k] \in R
    <3>1. \A k \in 1..m : comps[k] \in CompilerOf /\ comps[k].fn \in DOMAIN functions
      BY <1>3, RecordFacts
    <3> QED BY <2>1, <3>1 DEF CompilerOf
  <2>3. comps = [k \in 1..m |-> comps[k]]
    <3>1. comps \in [1..m -> CompilerOf]
      BY <1>3, RecordFacts, LenProperties
    <3> QED BY <3>1
  <2>4. comps \in [1..m -> R]
    BY <2>2, <2>3
  <2>5. comps \in Seq(R)
    BY <2>4, SeqDef
  <2> QED BY <2>1, <2>5
<1> QED BY <1>1, <1>2, <1>6, <1>7 DEF CTypeOK

(* Whatever the file holds and wherever an allocation fails, the compiler's*)
(* state is well formed: the scanner stays on the file, no function on the *)
(* C stack works for a record that is gone.                                *)
THEOREM CompilerTypes == Spec => []CTypeOK
<1> QED BY CompilerInvariant, TypesFollow, PTL

(* The parser never asks the scanner for a token behind the end.           *)
THEOREM CompilerStopsAtEnd == Spec => []NothingAfterEnd
<1>1. CInv => NothingAfterEnd
  BY DEF CInv, TokensInv
<1> QED BY <1>1, CompilerInvariant, PTL

(* However deep functions nest, each capture leads to a variable of the    *)
(* same name in the function around it.                                    *)
THEOREM CompilerCapturesLead == Spec => []CapturesLead
<1>1. CInv => CapturesLead
  BY DEF CInv, ScopesInv
<1> QED BY <1>1, CompilerInvariant, PTL

(* No two declarations of a function share a slot, for any size of the     *)
(* byte that counts them.                                                  *)
THEOREM CompilerSlotsDistinct == Spec => []SlotsDistinct
<1>1. CInv => SlotsDistinct
  BY DEF CInv, ScopesInv
<1> QED BY <1>1, CompilerInvariant, PTL

-----------------------------------------------------------------------------
(* Emitted code stays.                                                     *)

CodeKept ==
  \A f \in DOMAIN functions :
    \A i \in 1..Len(functions[f].code) : functions'[f].code[i] = functions[f].code[i]

LEMMA SameKept ==
  ASSUME functions' = functions
  PROVE  CodeKept
BY DEF CodeKept

(* The innermost function may get more code.                               *)
LEMMA RewriteKept ==
  ASSUME CInv, calls # <<>>, NEW newFn, Rewrite(newFn),
         \A i \in 1..Len(fn.code) : newFn.code[i] = fn.code[i]
  PROVE  CodeKept
<1>1. /\ comp.fn \in 1..Len(functions) /\ fn = functions[comp.fn]
      /\ DOMAIN functions = 1..Len(functions)
  BY CurrentFacts, RecordFacts
<1>2. functions' = [functions EXCEPT ![comp.fn] = newFn]
  BY DEF Rewrite
<1>3. \A f \in DOMAIN functions :
        functions'[f] = IF f = comp.fn THEN newFn ELSE functions[f]
  BY <1>1, <1>2
<1> QED BY <1>1, <1>3 DEF CodeKept

LEMMA LongerCode ==
  ASSUME CInv, calls # <<>>, NEW S, NEW bytes \in Seq(S)
  PROVE  /\ Len(fn.code) \in Nat /\ Len(fn.code) <= Len(fn.code \o bytes)
         /\ \A i \in 1..Len(fn.code) : (fn.code \o bytes)[i] = fn.code[i]
         /\ [fn EXCEPT !.code = @ \o bytes].code = fn.code \o bytes
<1>1. fn \in FunctionOf
  BY CurrentFacts
<1>2. PICK T : T = S \cup 0..UINT8_MAX
  OBVIOUS
<1>3. bytes \in Seq(T)
  BY <1>2, SeqMonotonic
<1>4. PICK code \in Seq(T) : code = fn.code
  BY <1>1, <1>2, SeqMonotonic DEF FunctionOf
<1>5. /\ Len(code \o bytes) = Len(code) + Len(bytes)
      /\ Len(code) \in Nat /\ Len(bytes) \in Nat
      /\ \A i \in 1..Len(code) : (code \o bytes)[i] = code[i]
  BY <1>3, ConcatProperties, LenProperties
<1>6. [fn EXCEPT !.code = @ \o bytes].code = fn.code \o bytes
  BY <1>1 DEF FunctionOf
<1>7. Len(code) <= Len(code \o bytes)
  <2>1. PICK a, b, c : a = Len(code) /\ b = Len(bytes) /\ c = Len(code \o bytes)
    OBVIOUS
  <2>2. a \in Nat /\ b \in Nat /\ c = a + b
    BY <1>5, <2>1
  <2> QED BY <2>1, <2>2
<1> QED BY <1>4, <1>5, <1>6, <1>7

LEMMA EmitBytesKept ==
  ASSUME CInv, calls # <<>>, NEW S, NEW bytes \in Seq(S), EmitBytes(bytes)
  PROVE  CodeKept
<1>1. PICK newFn : newFn = [fn EXCEPT !.code = @ \o bytes]
  OBVIOUS
<1>2. \A i \in 1..Len(fn.code) : newFn.code[i] = fn.code[i]
  BY <1>1, LongerCode
<1>3. Rewrite(newFn)
  BY <1>1 DEF EmitBytes
<1> QED BY <1>2, <1>3, RewriteKept

LEMMA StopKept ==
  ASSUME OutOfMemory \/ Undefined \/ (\E error : Fail(error))
                     \/ (\E n : result_unexpected_token_error(n))
  PROVE  CodeKept
BY SameKept DEF OutOfMemory, Undefined, Fail, FailAt, result_unexpected_token_error

LEMMA EmissionKept ==
  ASSUME NEW step, Emission(step), step => CodeKept
  PROVE  CodeKept
BY SameKept, StopKept DEF Emission

LEMMA add_constantKept ==
  ASSUME CInv, calls # <<>>, NEW v, NEW newStrs, add_constant(v, newStrs)
  PROVE  CodeKept
<1>1. CASE Fail("too many constants")
  BY <1>1, StopKept
<1>2. CASE Rewrite([fn EXCEPT
             !.constants = Append(@, v),
             !.code = @ \o <<OpCode("OP_CONSTANT"), Len(fn.constants)>>])
  <2>1. PICK bytes : bytes = <<OpCode("OP_CONSTANT"), Len(fn.constants)>>
    OBVIOUS
  <2>2. PICK S : bytes \in Seq(S)
    <3>1. bytes \in Seq({OpCode("OP_CONSTANT"), Len(fn.constants)})
      BY <2>1
    <3> QED BY <3>1
  <2>3. PICK newFn : newFn = [fn EXCEPT !.constants = Append(@, v), !.code = @ \o bytes]
    OBVIOUS
  <2>4. newFn.code = fn.code \o bytes
    <3>1. fn \in FunctionOf
      BY CurrentFacts
    <3> QED BY <2>3, <3>1 DEF FunctionOf
  <2>5. \A i \in 1..Len(fn.code) : newFn.code[i] = fn.code[i]
    BY <2>2, <2>4, LongerCode
  <2>6. Rewrite(newFn)
    BY <1>2, <2>1, <2>3
  <2> QED BY <2>5, <2>6, RewriteKept
<1> QED BY <1>1, <1>2 DEF add_constant

(* The steps that only add code.                                           *)
LEMMA AddingKept ==
  ASSUME CInv,
         chunk_emit_byte \/ emit_int \/ emit_str \/ emit_call \/ jump_if_false \/ set_arity
  PROVE  CodeKept
<1>1. calls # <<>>
  BY DEF chunk_emit_byte, emit_int, emit_str, emit_call, jump_if_false, set_arity, Doing
<1>2. CASE chunk_emit_byte
  <2>1. <<OpCode(Operation)>> \in Seq({OpCode(Operation)})
    OBVIOUS
  <2>2. EmitBytes(<<OpCode(Operation)>>) => CodeKept
    BY <1>1, <2>1, EmitBytesKept
  <2> QED BY <1>2, <2>2, EmissionKept DEF chunk_emit_byte
<1>3. CASE emit_int
  <2>1. PICK data : data = current.token.num
    OBVIOUS
  <2>2. PICK bytes : bytes = <<OpCode("OP_INT")>> \o WordBytes(data)
    OBVIOUS
  <2>3. \E S : bytes \in Seq(S)
    <3>1. PICK op, low, high : WordBytes(data) = <<low, high>> /\ op = OpCode("OP_INT")
      BY DEF WordBytes
    <3>2. <<op>> \in Seq({op, low, high}) /\ <<low, high>> \in Seq({op, low, high})
      OBVIOUS
    <3>3. bytes \in Seq({op, low, high})
      BY <2>2, <3>1, <3>2, ConcatProperties
    <3> QED BY <3>3
  <2>4. EmitBytes(bytes) => CodeKept
    BY <1>1, <2>3, EmitBytesKept
  <2>5. Fail("integer overflow") => CodeKept
    BY StopKept
  <2>6. add_constant(int_value(data), strs) => CodeKept
    BY <1>1, add_constantKept
  <2>7. Emission(IF data > INT_MAX THEN Fail("integer overflow")
                 ELSE IF data <= UINT16_MAX THEN EmitBytes(bytes)
                      ELSE add_constant(int_value(data), strs))
    BY <1>3, <2>1, <2>2 DEF emit_int
  <2>8. (IF data > INT_MAX THEN Fail("integer overflow")
         ELSE IF data <= UINT16_MAX THEN EmitBytes(bytes)
              ELSE add_constant(int_value(data), strs)) => CodeKept
    BY <2>4, <2>5, <2>6
  <2> QED BY <2>7, <2>8, EmissionKept
<1>4. CASE emit_str
  BY <1>1, <1>4, add_constantKept, EmissionKept DEF emit_str
<1>5. CASE emit_call
  <2>1. PICK bytes : bytes = <<OpCode(IF current.isTail THEN "OP_TAIL_CALL" ELSE "OP_CALL"),
                               current.count>>
    OBVIOUS
  <2>2. \E S : bytes \in Seq(S)
    <3>1. PICK a, b : bytes = <<a, b>>
      BY <2>1
    <3>2. bytes \in Seq({a, b})
      BY <3>1
    <3> QED BY <3>2
  <2>3. EmitBytes(bytes) => CodeKept
    BY <1>1, <2>2, EmitBytesKept
  <2> QED BY <1>5, <2>1, <2>3, EmissionKept DEF emit_call
<1>6. CASE jump_if_false
  <2>1. PICK bytes : bytes = emit_jump("OP_JUMP_IF_FALSE")
    OBVIOUS
  <2>2. bytes \in Seq(0..UINT8_MAX)
    BY <2>1, JumpBytes
  <2>3. PICK newFn : newFn = [fn EXCEPT !.code = @ \o bytes]
    OBVIOUS
  <2>4. \A i \in 1..Len(fn.code) : newFn.code[i] = fn.code[i]
    BY <1>1, <2>2, <2>3, LongerCode
  <2>5. Rewrite(newFn) => CodeKept
    BY <1>1, <2>4, RewriteKept
  <2>6. \/ ~emit /\ Advance /\ UNCHANGED <<steady, pos, comps, functions, strs>>
        \/ OutOfMemory
        \/ Rewrite(newFn)
    BY <1>6, <2>1, <2>3 DEF jump_if_false, Emission
  <2> QED BY <2>5, <2>6, StopKept, SameKept
<1>7. CASE set_arity
  <2>1. PICK newFn : newFn = [fn EXCEPT !.arity = current.count]
    OBVIOUS
  <2>2. newFn.code = fn.code
    BY <1>1, <2>1, CurrentFacts DEF FunctionOf
  <2>3. Rewrite(newFn)
    BY <1>7, <2>1 DEF set_arity
  <2> QED BY <1>1, <2>2, <2>3, RewriteKept
<1> QED BY <1>2, <1>3, <1>4, <1>5, <1>6, <1>7

(* The steps of the parser.                                                *)
LEMMA ParsingKept ==
  ASSUME CInv,
         \/ start \/ finish \/ consume \/ keep \/ keep_bool \/ first_item \/ next_item
         \/ call \/ term \/ dispatch \/ return \/ operator \/ add_local
         \/ UNCHANGED cvars
  PROVE  CodeKept
<1>1. ASSUME NEW n, NEW act, next_token(n, act) PROVE functions' = functions
  BY <1>1 DEF next_token, result_unexpected_token_error, FailAt
<1>2. ASSUME NEW n, result_unexpected_token_error(n) PROVE functions' = functions
  BY <1>2 DEF result_unexpected_token_error, FailAt
<1>3. ASSUME NEW proc, NEW isTail, Enter(proc, isTail) PROVE functions' = functions
  BY <1>3 DEF Enter
<1>4. OutOfMemory => functions' = functions
  BY DEF OutOfMemory, Fail, FailAt
<1>5. CASE start
  <2>1. functions = <<>>
    BY <1>5 DEF start, CInv
  <2>2. DOMAIN functions = {}
    BY <2>1
  <2> QED BY <2>2 DEF CodeKept
<1>6. CASE finish
  BY <1>4, <1>6, SameKept DEF finish
<1>7. CASE consume \/ keep \/ keep_bool \/ next_item
  BY <1>1, <1>2, <1>7, SameKept DEF consume, keep, keep_bool, next_item
<1>8. CASE first_item
  BY <1>1, <1>8, SameKept DEF first_item
<1>9. CASE call \/ term \/ dispatch
  BY <1>2, <1>3, <1>9, SameKept DEF call, term, dispatch
<1>10. CASE return \/ add_local
  BY <1>10, SameKept DEF return, add_local, Undefined
<1>11. CASE operator
  BY <1>11, SameKept DEF operator, Fail, FailAt
<1>12. CASE UNCHANGED cvars
  BY <1>12, SameKept DEF cvars
<1> QED BY <1>5, <1>6, <1>7, <1>8, <1>9, <1>10, <1>11, <1>12

LEMMA FunctionsKept ==
  ASSUME CInv, open_function \/ close_function \/ resolve_variable
  PROVE  CodeKept
<1>1. CASE open_function
  <2>1. CASE functions' = Append(functions, NewFunction)
    <3>1. PICK S : S = FunctionOf \cup {NewFunction}
      OBVIOUS
    <3>2. functions \in Seq(S)
      BY <3>1, RecordFacts, SeqMonotonic
    <3>3. NewFunction \in S
      BY <3>1
    <3>4. \A f \in DOMAIN functions : functions'[f] = functions[f]
      BY <2>1, <3>2, <3>3, RecordFacts, AppendProperties
    <3> QED BY <3>4 DEF CodeKept
  <2> QED BY <1>1, <2>1, StopKept DEF open_function
<1>2. CASE close_function
  <2>1. CASE functions' = functions
    BY <2>1, SameKept
  <2>2. PICK parent, child : parent = comps[current.comp].fn /\ child = comp.fn
    OBVIOUS
  <2>3. CASE functions' = [functions EXCEPT
                             ![child].code = Append(@, OpCode("OP_RETURN")),
                             ![parent] = WithChild(@, child)]
    <3>1. PICK inner : inner = [functions EXCEPT ![child].code = Append(@, OpCode("OP_RETURN"))]
      OBVIOUS
    <3>2. Doing("close_function") /\ calls # <<>>
      BY <1>2 DEF close_function, Doing
    <3>3. child \in DOMAIN functions /\ parent # child
      <4>1. /\ Len(comps) = Top(current) /\ Len(comps) \in Nat \ {0}
            /\ current \in ActivationOf /\ comp.fn \in 1..Len(functions)
            /\ comp = comps[Len(comps)]
        BY <3>2, CurrentFacts
      <4>2. PICK act : act = [current EXCEPT !.pc = @ + 1]
        OBVIOUS
      <4>3. /\ act \in ActivationOf /\ act.proc = current.proc /\ act.comp = current.comp
            /\ act.pc = current.pc + 1 /\ current.comp \in Nat \ {0}
        BY SMTT(40), <4>1, <4>2 DEF ActivationOf
      <4>4. Len(comps) = current.comp + 1
        BY <3>2, <4>1, <4>3, OpenPlace
      <4>5. PICK k \in 1..Len(comps) : k = Len(comps)
        BY <4>1
      <4>6. current.comp \in 1..(k - 1)
        BY <4>3, <4>4, <4>5
      <4>7. \A j \in 1..(k - 1) : comps[j].fn # comps[k].fn
        BY RecordFacts
      <4>8. parent # child
        BY <2>2, <4>1, <4>5, <4>6, <4>7
      <4> QED BY <2>2, <4>1, <4>8, RecordFacts
    <3>4. ASSUME NEW f \in DOMAIN functions, NEW S, functions[f].code \in Seq(S), NEW s
          PROVE  \A i \in 1..Len(functions[f].code) :
                   Append(functions[f].code, s)[i] = functions[f].code[i]
      <4>1. PICK code : code = functions[f].code
        OBVIOUS
      <4>2. code \in Seq(S \cup {s})
        BY <3>4, <4>1, SeqMonotonic
      <4>3. \A i \in 1..Len(code) : Append(code, s)[i] = code[i]
        BY <4>2, AppendProperties
      <4> QED BY <4>1, <4>3
    <3>5. ASSUME NEW f \in DOMAIN functions
          PROVE  functions[f] \in FunctionOf /\ functions[f].code \in Seq(0..UINT8_MAX)
      <4>1. functions[f] \in FunctionOf
        BY RecordFacts
      <4> QED BY <4>1 DEF FunctionOf
    <3>6. ASSUME NEW f \in DOMAIN functions, f # child, f # parent
          PROVE  functions'[f] = functions[f]
      BY <2>3, <3>6
    <3>7. functions'[child].code = Append(functions[child].code, OpCode("OP_RETURN"))
      BY <2>3, <3>3, <3>5 DEF FunctionOf
    <3>8. ASSUME parent \in DOMAIN functions
          PROVE  \E bytes, S : /\ functions'[parent].code = functions[parent].code \o bytes
                               /\ bytes \in Seq(S)
      <4>1. functions'[parent] = WithChild(functions[parent], child)
        BY <2>3, <3>3, <3>8
      <4>2. PICK a, b : a = OpCode("OP_CLOSURE")
                        /\ b = Len(functions[parent].functions) % (UINT8_MAX + 1)
        OBVIOUS
      <4>3. functions'[parent].code = functions[parent].code \o <<a, b>>
        BY <3>5, <3>8, <4>1, <4>2 DEF WithChild, FunctionOf
      <4>4. <<a, b>> \in Seq({a, b})
        OBVIOUS
      <4> QED BY <4>3, <4>4
    <3>9. ASSUME parent \in DOMAIN functions
          PROVE  \A i \in 1..Len(functions[parent].code) :
                   functions'[parent].code[i] = functions[parent].code[i]
      <4>1. PICK bytes, S : /\ functions'[parent].code = functions[parent].code \o bytes
                            /\ bytes \in Seq(S)
        BY <3>8, <3>9
      <4>2. PICK T : T = S \cup 0..UINT8_MAX
        OBVIOUS
      <4>3. bytes \in Seq(T)
        BY <4>1, <4>2, SeqMonotonic
      <4>4. PICK code \in Seq(T) : code = functions[parent].code
        BY <3>5, <3>9, <4>2, SeqMonotonic
      <4>5. \A i \in 1..Len(code) : (code \o bytes)[i] = code[i]
        BY <4>3, ConcatProperties
      <4> QED BY <4>1, <4>4, <4>5
    <3>10. \A i \in 1..Len(functions[child].code) :
             functions'[child].code[i] = functions[child].code[i]
      BY <3>3, <3>4, <3>5, <3>7
    <3> QED BY <3>6, <3>9, <3>10 DEF CodeKept
  <2>4. CASE OutOfMemory
    BY <2>4, StopKept
  <2> QED BY <1>2, <2>1, <2>2, <2>3, <2>4 DEF close_function
<1>3. CASE resolve_variable
  <2>2. ASSUME NEW var PROVE \E S : Load(var) \in Seq(S)
    <3>1. CASE ~emit
      <4>1. Load(var) \in Seq({})
        BY <3>1, EmptySeq DEF Load
      <4> QED BY <4>1
    <3>2. CASE emit
      <4>1. PICK a, b : Load(var) = <<a, b>>
        BY <3>2 DEF Load
      <4>2. <<a, b>> \in Seq({a, b})
        OBVIOUS
      <4> QED BY <4>1, <4>2
    <3> QED BY <3>1, <3>2
  <2> DEFINE name  == current.token.text
             known == {k \in DOMAIN comps : Known(comps[k], name) # {}}
             d     == CHOOSE k \in known : \A j \in known : j <= k
             load  == Load(Resolved(Len(comps), d, name))
  <2>3. \/ Fail("variable is used but not defined")
        \/ OutOfMemory
        \/ Undefined
        \/ functions' = [f \in DOMAIN functions |->
                           LET g == Capturing(f, d, name)
                           IN IF f # comp.fn THEN g
                              ELSE [g EXCEPT !.code = @ \o load]]
    BY <1>3 DEF resolve_variable
  <2>4. \E S : load \in Seq(S)
    BY <2>2
  <2> HIDE DEF name, known, d, load
  <2>5. CASE functions' = [f \in DOMAIN functions |->
                             LET g == Capturing(f, d, name)
                             IN IF f # comp.fn THEN g
                                ELSE [g EXCEPT !.code = @ \o load]]
    <3>1. PICK at, text, bytes : at = d /\ text = name /\ bytes = load
      OBVIOUS
    <3>2. PICK S : bytes \in Seq(S)
      BY <2>4, <3>1
    <3>3. ASSUME NEW f \in DOMAIN functions
          PROVE  \/ functions'[f] = Capturing(f, at, text)
                 \/ functions'[f] = [Capturing(f, at, text) EXCEPT !.code = @ \o bytes]
      BY <2>5, <3>1
    <3>4. CodeKept
      <4> SUFFICES ASSUME NEW f \in DOMAIN functions
                   PROVE  \A i \in 1..Len(functions[f].code) :
                            functions'[f].code[i] = functions[f].code[i]
        BY DEF CodeKept
      <4>1. functions[f] \in FunctionOf
        BY RecordFacts
      <4>2. PICK nls : \/ Capturing(f, at, text) = functions[f]
                       \/ Capturing(f, at, text) = [functions[f] EXCEPT !.nonlocals = nls]
        BY DEF Capturing
      <4>3. PICK g : g = Capturing(f, at, text)
        OBVIOUS
      <4>4. /\ g.code = functions[f].code
            /\ g.code \in Seq(0..UINT8_MAX)
            /\ [g EXCEPT !.code = @ \o bytes].code = g.code \o bytes
        BY <4>1, <4>2, <4>3 DEF FunctionOf
      <4>5. functions'[f].code \in {g.code, g.code \o bytes}
        BY <3>3, <4>3, <4>4
      <4>6. PICK T : T = S \cup 0..UINT8_MAX
        OBVIOUS
      <4>7. bytes \in Seq(T)
        BY <3>2, <4>6, SeqMonotonic
      <4>8. PICK code \in Seq(T) : code = g.code
        BY <4>4, <4>6, SeqMonotonic
      <4>9. \A i \in 1..Len(code) : (code \o bytes)[i] = code[i]
        BY <4>7, ConcatProperties
      <4> QED BY <4>4, <4>5, <4>8, <4>9
    <3> QED BY <3>4
  <2> QED BY <2>3, <2>5, StopKept
<1> QED BY <1>1, <1>2, <1>3

(* A place in the code has changed only if it belongs to a pending jump.   *)
Patched ==
  \A f \in DOMAIN functions :
    \A a \in 0..(Len(functions[f].code) - 1) :
      functions'[f].code[a + 1] # functions[f].code[a + 1] =>
        \E j \in Pending(f) : a \in {j + 1, j + 2}

LEMMA KeptIsPatched ==
  ASSUME CInv, CodeKept
  PROVE  Patched
<1> SUFFICES ASSUME NEW f \in DOMAIN functions,
                    NEW a \in 0..(Len(functions[f].code) - 1)
             PROVE  functions'[f].code[a + 1] = functions[f].code[a + 1]
  BY DEF Patched
<1>1. functions[f] \in FunctionOf
  BY RecordFacts
<1>2. Len(functions[f].code) \in Nat
  BY <1>1, LenProperties DEF FunctionOf
<1>3. a + 1 \in 1..Len(functions[f].code)
  BY <1>2
<1> QED BY <1>3 DEF CodeKept

(* compile_if remembers where its word is.                                 *)
LEMMA PendingHere ==
  ASSUME CInv, emit, NEW op \in {"jump_over", "patch_jump"}, Doing(op)
  PROVE  current.jump \in Nat /\ current.jump - 1 \in Pending(comp.fn)
<1>1. /\ calls # <<>> /\ current.proc \in DOMAIN Script
      /\ current.proc \notin Placing => op \notin PlacedOps
      /\ current.proc \in Placing => PlacesOK(current.proc, current.pc, op)
  BY DoingFacts
<1>2. current.proc \in Placing
  BY <1>1 DEF PlacedOps
<1>3. current.proc = "compile_if" /\ current.pc \in {6, 9}
  BY <1>1, <1>2 DEF PlacesOK, Placing, PlacedOps
<1>4. /\ ActivationOK(current, emit) /\ current \in ActivationOf
      /\ depth \in Nat \ {0} /\ depth = Len(calls) /\ current = calls[depth]
      /\ Len(comps) = Top(current) /\ comp = comps[Len(comps)]
  BY <1>1, CurrentFacts
<1>5. current.jump # NoJump /\ current.jump \in {NoJump} \cup Nat /\ current.comp \in Nat
  BY <1>3, <1>4 DEF ActivationOK, ActivationOf
<1>6. comp = comps[current.comp]
  BY <1>3, <1>4, <1>5 DEF Top, Opened
<1>7. depth \in DOMAIN calls
  BY <1>4, LenProperties DEF CInv, CallsInv
<1>8. current.jump - 1 \in Pending(comp.fn)
  <2>1. depth \in {i \in DOMAIN calls : /\ calls[i].jump # NoJump
                                        /\ comps[calls[i].comp].fn = comp.fn}
    BY <1>4, <1>5, <1>6, <1>7
  <2>2. current.jump - 1 = calls[depth].jump - 1
    BY <1>4
  <2> QED BY <2>1, <2>2 DEF Pending
<1> QED BY <1>5, <1>8

LEMMA PatchIsPatched ==
  ASSUME CInv, emit, NEW op \in {"jump_over", "patch_jump"}, Doing(op),
         NEW bytes \in Seq(0..UINT8_MAX), NEW next, Patch(fn.code \o bytes, next)
  PROVE  Patched
<1>1. PICK offset \in Nat : offset = current.jump /\ offset - 1 \in Pending(comp.fn)
  BY PendingHere
<1>2. PICK code : code = fn.code \o bytes
  OBVIOUS
<1>3. calls # <<>> /\ fn \in FunctionOf
  BY DoingFacts, CurrentFacts
<1>4. /\ fn = functions[comp.fn] /\ comp.fn \in 1..Len(functions)
      /\ DOMAIN functions = 1..Len(functions)
  BY <1>3, CurrentFacts, RecordFacts
<1>5. /\ code \in Seq(0..UINT8_MAX)
      /\ Len(fn.code) \in Nat /\ Len(fn.code) <= Len(code)
      /\ \A i \in 1..Len(fn.code) : code[i] = fn.code[i]
  <2>1. code \in Seq(0..UINT8_MAX)
    BY <1>2, <1>3, ConcatProperties DEF FunctionOf
  <2>2. /\ Len(fn.code) \in Nat /\ Len(fn.code) <= Len(code)
        /\ \A i \in 1..Len(fn.code) : code[i] = fn.code[i]
    BY <1>2, <1>3, LongerCode
  <2> QED BY <2>1, <2>2
<1>6. CASE Fail("too much code to jump over")
  BY <1>6, StopKept, KeptIsPatched
<1>7. CASE /\ Len(code) <= UINT16_MAX
           /\ Rewrite([fn EXCEPT !.code = patch_jump(code, offset)])
  <2>1. PICK newCode : newCode = patch_jump(code, offset)
    OBVIOUS
  <2>2. \A a \in 1..Len(code) :
          a \notin {offset + 1, offset + 2} => newCode[a] = code[a]
    BY <1>5, <1>7, <2>1, PatchedCode
  <2>3. functions' = [functions EXCEPT ![comp.fn] = [fn EXCEPT !.code = newCode]]
    BY <1>7, <2>1 DEF Rewrite
  <2>4. functions'[comp.fn].code = newCode
    BY <1>3, <1>4, <2>3 DEF FunctionOf
  <2>5. ASSUME NEW f \in DOMAIN functions, f # comp.fn
        PROVE  functions'[f] = functions[f]
    BY <2>3, <2>5
  <2>6. ASSUME NEW a \in 0..(Len(fn.code) - 1),
               functions'[comp.fn].code[a + 1] # functions[comp.fn].code[a + 1]
        PROVE  \E j \in Pending(comp.fn) : a \in {j + 1, j + 2}
    <3>1. PICK l, m : l = Len(fn.code) /\ m = Len(code)
      OBVIOUS
    <3>2. a + 1 \in 1..l
      BY <1>5, <3>1
    <3>3. Len(code) \in Nat
      BY <1>5, LenProperties
    <3>4. a + 1 \in 1..m
      <4>1. l \in Nat /\ m \in Nat /\ l <= m
        BY <1>5, <3>1, <3>3
      <4> QED BY <3>2, <4>1
    <3>5. newCode[a + 1] # code[a + 1]
      BY <1>4, <1>5, <2>4, <2>6, <3>1, <3>2
    <3>6. a + 1 \in {offset + 1, offset + 2}
      BY <2>2, <3>1, <3>4, <3>5
    <3>7. a \in {(offset - 1) + 1, (offset - 1) + 2}
      BY <3>6
    <3> QED BY <1>1, <3>7
  <2> QED BY <1>4, <2>5, <2>6 DEF Patched
<1>8. CASE ~(Len(code) > UINT16_MAX)
  <2>1. Len(code) \in Nat /\ UINT16_MAX \in Int
    BY <1>5, LenProperties, Bytes DEF UINT16_MAX
  <2>2. Len(code) <= UINT16_MAX
    BY <1>8, <2>1
  <2>3. Rewrite([fn EXCEPT !.code = patch_jump(code, offset)])
    BY <1>1, <1>2, <1>8 DEF Patch
  <2> QED BY <1>7, <2>2, <2>3
<1>9. CASE Len(code) > UINT16_MAX
  BY <1>2, <1>6, <1>9 DEF Patch
<1> QED BY <1>8, <1>9

LEMMA JumpsPatched ==
  ASSUME CInv, jump_over \/ jump_target
  PROVE  Patched
<1>1. CASE jump_over
  <2>1. Doing("jump_over")
    BY <1>1 DEF jump_over
  <2>2. emit_jump("OP_JUMP") \in Seq(0..UINT8_MAX)
    BY JumpBytes
  <2>3. emit /\ Patch(fn.code \o emit_jump("OP_JUMP"), Len(fn.code) + 1) => Patched
    BY <2>1, <2>2, PatchIsPatched
  <2> QED BY <1>1, <2>3, StopKept, SameKept, KeptIsPatched DEF jump_over, Emission
<1>2. CASE jump_target
  <2>1. Doing("patch_jump") /\ calls # <<>>
    BY <1>2 DEF jump_target, Doing
  <2>2. PICK none \in Seq(0..UINT8_MAX) : none = <<>>
    BY EmptySeq
  <2>3. fn.code \o none = fn.code
    <3>1. fn.code \in Seq(0..UINT8_MAX)
      BY <2>1, CurrentFacts DEF FunctionOf
    <3> QED BY <2>2, <3>1, ConcatEmptySeq
  <2>4. emit /\ Patch(fn.code \o none, NoJump) => Patched
    BY <2>1, PatchIsPatched
  <2>5. emit /\ Patch(fn.code, NoJump) => Patched
    BY <2>3, <2>4
  <2> QED BY <1>2, <2>5, StopKept, SameKept, KeptIsPatched DEF jump_target, Emission
<1> QED BY <1>1, <1>2

(* However functions and jumps nest, code that has been emitted stays as it*)
(* is but for the word of a jump that an active compile_if remembers.      *)
THEOREM CompilerPatchesOnlyJumps == Spec => OnlyJumpsPatched
<1>1. ASSUME CInv, [Next]_cvars PROVE Patched
  <2>1. \/ start \/ finish \/ consume \/ keep \/ keep_bool \/ first_item \/ next_item
        \/ call \/ term \/ dispatch \/ return \/ operator \/ add_local
        \/ UNCHANGED cvars
        \/ chunk_emit_byte \/ emit_int \/ emit_str \/ emit_call \/ jump_if_false \/ set_arity
        \/ open_function \/ close_function \/ resolve_variable
        \/ jump_over \/ jump_target
    BY <1>1 DEF Next, Compile, Returned
  <2> QED BY <1>1, <2>1, ParsingKept, AddingKept, FunctionsKept, JumpsPatched, KeptIsPatched
<1>2. CInv /\ [Next]_cvars => [Patched]_cvars
  BY <1>1
<1>3. Spec => [][Patched]_cvars
  BY <1>2, CompilerInvariant, PTL DEF Spec
<1> QED BY <1>3 DEF OnlyJumpsPatched, Patched

-----------------------------------------------------------------------------
(***************************************************************************)
(* The code.  First what the sweep of dump_function is, then what becomes  *)
(* of it when code is added.                                               *)
(***************************************************************************)

LEMMA SizeIs == \A op : Size(op) \in 1..3
BY DEF Size

(* The address after the instruction at a.                                 *)
Following(fun, a) == a + Size(OpAt(fun, a))

LEMMA Follows ==
  ASSUME NEW fun, NEW a \in Int
  PROVE  /\ Following(fun, a) \in {a + 1, a + 2, a + 3}
         /\ a \in Nat => Following(fun, a) \in Nat
         /\ Following(fun, a) > a
BY DEF Following, Size

(* What a linear sweep of fun from address a goes over: the addresses in   *)
(* the code that are in every set closed under Following.                  *)
Closed(fun, S) == \A c \in S : c < Len(fun.code) => Following(fun, c) \in S

Reached(fun, a) ==
  {b \in 0..(Len(fun.code) - 1) :
     \A S \in SUBSET Nat : a \in S /\ Closed(fun, S) => b \in S}

LEMMA ReachedUnfolds ==
  ASSUME NEW fun, Len(fun.code) \in Nat, NEW a \in Nat
  PROVE  Reached(fun, a) = IF a >= Len(fun.code) THEN {}
                           ELSE {a} \cup Reached(fun, Following(fun, a))
<1> DEFINE n == Len(fun.code)
<1>1. CASE a >= n
  <2>1. PICK S \in SUBSET Nat : S = {b \in Nat : b >= n}
    OBVIOUS
  <2>2. a \in S /\ Closed(fun, S)
    BY <1>1, <2>1 DEF Closed
  <2>3. \A b \in 0..(n - 1) : b \notin S
    BY <2>1
  <2> QED BY <1>1, <2>2, <2>3 DEF Reached
<1>2. CASE a < n
  <2>1. PICK next \in Nat : next = Following(fun, a)
    BY Follows
  <2>2. ASSUME NEW S \in SUBSET Nat, a \in S, Closed(fun, S) PROVE next \in S
    BY <1>2, <2>1, <2>2 DEF Closed
  <2>3. Reached(fun, next) \cup {a} \subseteq Reached(fun, a)
    BY <1>2, <2>2 DEF Reached
  <2>4. ASSUME NEW b \in Reached(fun, a), b # a PROVE b \in Reached(fun, next)
    <3>1. ASSUME NEW S \in SUBSET Nat, next \in S, Closed(fun, S) PROVE b \in S
      <4>1. S \cup {a} \in SUBSET Nat /\ Closed(fun, S \cup {a})
        BY <2>1, <3>1 DEF Closed
      <4>2. b \in S \cup {a}
        BY <4>1, <2>4 DEF Reached
      <4> QED BY <4>2, <2>4
    <3> QED BY <3>1, <2>4 DEF Reached
  <2>5. Reached(fun, a) = {a} \cup Reached(fun, next)
    BY <2>3, <2>4
  <2> QED BY <1>2, <2>1, <2>5
<1> QED BY <1>1, <1>2

(* dump_function goes over what is reached from 0.                         *)
LEMMA DumpIs ==
  ASSUME NEW fun, Len(fun.code) \in Nat
  PROVE  dump_function(fun) = Reached(fun, 0)
<1> DEFINE n == Len(fun.code)
           Goes(f) == f = [a \in Nat |-> IF a >= n THEN {}
                                         ELSE {a} \cup f[a + Size(OpAt(fun, a))]]
           from == CHOOSE f : Goes(f)
<1>1. Goes([a \in Nat |-> Reached(fun, a)])
  <2>1. PICK f : f = [a \in Nat |-> Reached(fun, a)]
    OBVIOUS
  <2>2. ASSUME NEW a \in Nat
        PROVE  f[a] = IF a >= n THEN {} ELSE {a} \cup f[Following(fun, a)]
    BY <2>1, ReachedUnfolds, Follows
  <2>3. f = [a \in Nat |-> IF a >= n THEN {} ELSE {a} \cup f[Following(fun, a)]]
    BY <2>1, <2>2, Zenon
  <2>4. Goes(f)
    BY <2>3 DEF Following
  <2> QED BY <2>1, <2>4
<1>2. Goes(from)
  BY <1>1
<1>3. dump_function(fun) = from[0]
  BY DEF dump_function
<1>4. PICK g : g = from
  OBVIOUS
<1>5. ASSUME NEW a \in Nat
      PROVE  g[a] = IF a >= n THEN {} ELSE {a} \cup g[Following(fun, a)]
  BY <1>2, <1>4, Zenon DEF Following
<1> HIDE DEF from
<1>6. ASSUME NEW a \in Nat PROVE g[a] = Reached(fun, a)
  <2>0. PICK m \in Nat : m = n
    OBVIOUS
  <2>1. PICK T : T = {d \in 0..m : g[m - d] # Reached(fun, m - d)}
    OBVIOUS
  <2>2. T = {}
    <3>1. SUFFICES ASSUME T # {} PROVE FALSE
      OBVIOUS
    <3>9. T \subseteq Nat
      BY <2>1
    <3>2. PICK d \in T : \A e \in T : d <= e
      BY <3>1, <3>9, LeastElement
    <3>3. PICK b \in Nat : b = m - d /\ b <= m
      BY <2>0, <2>1
    <3>4. g[b] # Reached(fun, b) /\ d \in 0..m
      BY <2>1, <3>3
    <3>5. b < m
      <4>1. CASE b >= n
        <5>1. g[b] = {} /\ Reached(fun, b) = {}
          BY <1>5, <4>1, ReachedUnfolds
        <5> QED BY <3>4, <5>1
      <4> QED BY <2>0, <4>1
    <3>6. PICK c \in Nat : c = Following(fun, b) /\ c > b
      BY Follows
    <3>7. g[c] = Reached(fun, c)
      <4>1. CASE c >= m
        BY <1>5, <2>0, <4>1, ReachedUnfolds
      <4>2. CASE c < m
        <5>1. PICK e \in 0..m : e = m - c /\ e < d /\ m - e = c
          BY <3>3, <3>6, <3>4, <4>2
        <5>2. e \notin T
          BY <3>2, <3>9, <5>1
        <5> QED BY <2>1, <5>1, <5>2
      <4> QED BY <4>1, <4>2
    <3>8. ~(b >= n)
      BY <2>0, <3>5
    <3>10. g[b] = {b} \cup g[c]
      BY <1>5, <3>6, <3>8
    <3>11. Reached(fun, b) = {b} \cup Reached(fun, c)
      BY <3>6, <3>8, ReachedUnfolds
    <3> QED BY <3>4, <3>7, <3>10, <3>11
  <2>3. CASE a >= n
    BY <1>5, <2>3, ReachedUnfolds
  <2>4. CASE a < n
    <3>1. m - a \in 0..m /\ m - (m - a) = a
      BY <2>0, <2>4
    <3> QED BY <2>1, <2>2, <3>1
  <2> QED BY <2>3, <2>4
<1> QED BY <1>3, <1>4, <1>6

-----------------------------------------------------------------------------
(* The sweep, step by step: it starts at 0, goes on until the code ends,   *)
(* and comes to no address but from another.                               *)
Sweep(fun, S) ==
  /\ S \subseteq 0..(Len(fun.code) - 1)
  /\ Len(fun.code) > 0 => 0 \in S
  /\ \A a \in S : Following(fun, a) < Len(fun.code) => Following(fun, a) \in S
  /\ \A a \in S : a # 0 => \E b \in S : Following(fun, b) = a

LEMMA DumpSweeps ==
  ASSUME NEW fun, Len(fun.code) \in Nat
  PROVE  Sweep(fun, dump_function(fun))
<1> DEFINE n == Len(fun.code)
<1>1. PICK R : R = Reached(fun, 0)
  OBVIOUS
<1>2. R \subseteq 0..(n - 1)
  BY <1>1 DEF Reached
<1>3. n > 0 => 0 \in R
  BY <1>1 DEF Reached
<1>4. ASSUME NEW a \in R, Following(fun, a) < n PROVE Following(fun, a) \in R
  <2>1. Following(fun, a) \in 0..(n - 1) /\ a \in Nat /\ a < n
    BY <1>2, <1>4, Follows
  <2>2. ASSUME NEW S \in SUBSET Nat, 0 \in S, Closed(fun, S) PROVE Following(fun, a) \in S
    BY <1>1, <2>1, <2>2 DEF Reached, Closed
  <2> QED BY <1>1, <2>1, <2>2 DEF Reached
<1>5. ASSUME NEW a \in R, a # 0 PROVE \E b \in R : Following(fun, b) = a
  <2>1. SUFFICES ASSUME \A b \in R : Following(fun, b) # a PROVE FALSE
    OBVIOUS
  <2>2. PICK S : S = (R \ {a}) \cup {b \in Nat : b >= n}
    OBVIOUS
  <2>3. S \in SUBSET Nat /\ 0 \in S
    <3>1. 0 \in R
      BY <1>2, <1>3, <1>5
    <3>2. R \subseteq Nat
      BY <1>2
    <3> QED BY <1>5, <2>2, <3>1, <3>2
  <2>4. Closed(fun, S)
    <3>1. ASSUME NEW c \in S, c < n PROVE Following(fun, c) \in S
      <4>1. c \in R /\ c \in Nat
        BY <1>2, <2>2, <3>1
      <4>2. Following(fun, c) \in Nat /\ Following(fun, c) # a
        BY <2>1, <4>1, Follows
      <4> QED BY <1>4, <2>2, <4>1, <4>2
    <3> QED BY <3>1 DEF Closed
  <2>5. a \in S
    BY <1>1, <2>3, <2>4 DEF Reached
  <2> QED BY <1>2, <2>2, <2>5
<1> QED BY <1>1, <1>2, <1>3, <1>4, <1>5, DumpIs DEF Sweep

LEMMA SweepWithin ==
  ASSUME NEW fun, Len(fun.code) \in Nat, NEW S, NEW T, Sweep(fun, S), Sweep(fun, T)
  PROVE  S \subseteq T
<1> SUFFICES ASSUME S \ T # {} PROVE FALSE
  OBVIOUS
<1>1. S \ T \subseteq Nat
  BY DEF Sweep
<1>2. PICK a \in S \ T : \A b \in S \ T : a <= b
  BY <1>1, LeastElement
<1>3. a \in 0..(Len(fun.code) - 1) /\ a # 0
  BY DEF Sweep
<1>4. PICK b \in S : Following(fun, b) = a
  BY <1>3 DEF Sweep
<1>5. b \in Nat /\ b < a
  BY <1>4, Follows DEF Sweep
<1>6. b \in T
  BY <1>1, <1>2, <1>3, <1>5
<1> QED BY <1>3, <1>4, <1>6 DEF Sweep

(* There is one sweep only.                                                *)
LEMMA SweepIsDump ==
  ASSUME NEW fun, Len(fun.code) \in Nat, NEW S, Sweep(fun, S)
  PROVE  dump_function(fun) = S
BY SweepWithin, DumpSweeps

(* No address is inside an instruction.                                    *)
LEMMA SweepSkips ==
  ASSUME NEW fun, Len(fun.code) \in Nat, NEW a \in dump_function(fun),
         NEW c \in dump_function(fun), c > a
  PROVE  c >= Following(fun, a)
<1>1. PICK S : S = dump_function(fun)
  OBVIOUS
<1>2. Sweep(fun, S) /\ S \subseteq Nat
  BY <1>1, DumpSweeps DEF Sweep
<1>3. PICK T : T = {e \in S : \E b \in S : b < e /\ e < Following(fun, b)}
  OBVIOUS
<1>4. T = {}
  <2>1. SUFFICES ASSUME T # {} PROVE FALSE
    OBVIOUS
  <2>2. PICK e \in T : \A g \in T : e <= g
    BY <1>2, <1>3, <2>1, LeastElement
  <2>3. PICK b \in S : b < e /\ e < Following(fun, b)
    BY <1>3, <2>2
  <2>4. e \in S /\ e \in Nat /\ b \in Nat /\ e # 0
    BY <1>2, <1>3, <2>3
  <2>5. PICK d \in S : Following(fun, d) = e
    BY <1>2, <2>4 DEF Sweep
  <2>6. d \in Nat /\ d < e /\ d # b
    BY <1>2, <2>3, <2>5, Follows
  <2>7. CASE d < b
    <3>1. b \in T
      BY <1>3, <2>3, <2>5, <2>6, <2>7
    <3> QED BY <2>2, <2>3, <2>4, <3>1
  <2>8. CASE d > b
    <3>1. d < Following(fun, b)
      BY <2>3, <2>4, <2>6, Follows
    <3>2. d \in T
      BY <1>3, <2>8, <3>1
    <3> QED BY <2>2, <2>4, <2>6, <3>2
  <2> QED BY <2>4, <2>6, <2>7, <2>8
<1>5. Following(fun, a) \in Nat /\ c \in Nat
  BY <1>1, <1>2, Follows
<1> QED BY <1>1, <1>3, <1>4, <1>5

-----------------------------------------------------------------------------
(* One function, of whose jumps those in P have no address yet.            *)
Listed(fun, P) ==
  LET at == dump_function(fun)
  IN /\ \A a \in at : Following(fun, a) <= Len(fun.code)
     /\ P \subseteq {a \in at : OpAt(fun, a) \in Jumps}
     /\ \A a \in at \ P :
          OpAt(fun, a) \in Jumps =>
            /\ read_word(fun, a + 1) \in at \cup {Len(fun.code)}
            /\ read_word(fun, a + 1) > a

ClosuresIn(fun) == {a \in dump_function(fun) : OpAt(fun, a) = "OP_CLOSURE"}

Numbered(fun) ==
  Len(fun.functions) <= UINT8_MAX + 1 =>
    /\ Cardinality(ClosuresIn(fun)) = Len(fun.functions)
    /\ \A a \in ClosuresIn(fun) :
         read_byte(fun, a + 1) = Cardinality({b \in ClosuresIn(fun) : b < a})

GoodCode(fun, P) == Listed(fun, P) /\ Numbered(fun)

Byte == 0..UINT8_MAX

(* An instruction is added.                                                *)
Added(new, fun, bytes) ==
  /\ fun.code \in Seq(Byte)
  /\ bytes \in Seq(Byte)
  /\ Len(bytes) = Size(OpNames[bytes[1] + 1])
  /\ new.code = fun.code \o bytes

LEMMA AddedCode ==
  ASSUME NEW fun, NEW new, NEW bytes, Added(new, fun, bytes)
  PROVE  /\ Len(fun.code) \in Nat /\ Len(bytes) \in 1..3
         /\ Len(new.code) = Len(fun.code) + Len(bytes)
         /\ \A i \in 1..Len(fun.code) : new.code[i] = fun.code[i]
         /\ \A i \in 1..Len(bytes) : new.code[Len(fun.code) + i] = bytes[i]
<1>1. PICK code \in Seq(Byte) : code = fun.code
  BY DEF Added
<1>2. bytes \in Seq(Byte) /\ new.code = code \o bytes
  BY <1>1 DEF Added
<1>3. /\ Len(code) \in Nat /\ Len(bytes) \in Nat
      /\ Len(code \o bytes) = Len(code) + Len(bytes)
      /\ \A i \in 1..Len(code) : (code \o bytes)[i] = code[i]
      /\ \A i \in 1..Len(bytes) : (code \o bytes)[Len(code) + i] = bytes[i]
  BY <1>2, ConcatProperties, LenProperties
<1>4. Len(bytes) \in 1..3
  BY SizeIs DEF Added
<1> QED BY <1>1, <1>2, <1>3, <1>4

LEMMA AddedSweep ==
  ASSUME NEW fun, NEW new, NEW bytes, NEW P, Added(new, fun, bytes), Listed(fun, P)
  PROVE  /\ dump_function(new) = dump_function(fun) \cup {Len(fun.code)}
         /\ dump_function(fun) \subseteq 0..(Len(fun.code) - 1)
         /\ \A a \in dump_function(fun) :
              OpAt(new, a) = OpAt(fun, a) /\ Following(new, a) = Following(fun, a)
         /\ OpAt(new, Len(fun.code)) = OpNames[bytes[1] + 1]
         /\ Following(new, Len(fun.code)) = Len(new.code)
<1>1. PICK n \in Nat : n = Len(fun.code)
  BY AddedCode
<1>2. PICK k \in Nat : k = Len(bytes) /\ k > 0 /\ Len(new.code) = n + k
  <2>1. Len(bytes) \in 1..3 /\ Len(new.code) = Len(fun.code) + Len(bytes)
    BY AddedCode
  <2>2. PICK k : k = Len(bytes)
    OBVIOUS
  <2> QED BY <1>1, <2>1, <2>2
<1>3. PICK S : S = dump_function(fun)
  OBVIOUS
<1>4. Sweep(fun, S) /\ S \subseteq 0..(n - 1)
  BY <1>1, <1>3, DumpSweeps DEF Sweep
<1>5. ASSUME NEW a \in S
      PROVE  OpAt(new, a) = OpAt(fun, a) /\ Following(new, a) = Following(fun, a)
  <2>1. a + 1 \in 1..n
    BY <1>4
  <2>2. new.code[a + 1] = fun.code[a + 1]
    BY <1>1, <2>1, AddedCode
  <2> QED BY <2>2 DEF OpAt, Following
<1>6. OpAt(new, n) = OpNames[bytes[1] + 1]
  <2>1. new.code[n + 1] = bytes[1]
    BY <1>1, <1>2, AddedCode
  <2> QED BY <2>1 DEF OpAt
<1>7. Following(new, n) = n + k
  BY <1>2, <1>6 DEF Following, Added
<1>8. \A a \in S : Following(fun, a) <= n /\ Following(fun, a) \in Nat
  BY <1>1, <1>3, <1>4, Follows DEF Listed
<1>9. Sweep(new, S \cup {n})
  <2>1. S \cup {n} \subseteq 0..(Len(new.code) - 1)
    <3>1. n - 1 < n + k - 1 /\ n \in 0..(n + k - 1)
      BY <1>2
    <3>2. S \subseteq 0..(n + k - 1)
      BY <1>4, <3>1
    <3> QED BY <1>2, <3>1, <3>2
  <2>2. Len(new.code) > 0 => 0 \in S \cup {n}
    BY <1>1, <1>4 DEF Sweep
  <2>3. ASSUME NEW a \in S \cup {n}, Following(new, a) < Len(new.code)
        PROVE  Following(new, a) \in S \cup {n}
    <3>1. a \in S
      BY <1>2, <1>7, <2>3
    <3> QED BY <1>1, <1>4, <1>5, <1>8, <3>1 DEF Sweep
  <2>4. ASSUME NEW a \in S \cup {n}, a # 0
        PROVE  \E b \in S \cup {n} : Following(new, b) = a
    <3>1. CASE a \in S
      BY <1>4, <1>5, <2>4, <3>1 DEF Sweep
    <3>2. CASE a = n
      <4>1. 0 \in S /\ n > 0
        BY <1>1, <1>4, <2>4, <3>2 DEF Sweep
      <4>2. PICK b \in S : \A c \in S : c <= b
        <5>1. PICK T : T = {c \in 1..n : c - 1 \in S}
          OBVIOUS
        <5>2. T \subseteq 1..n /\ 1 \in T
          BY <4>1, <5>1
        <5>3. PICK e \in T : \A c \in T : c <= e
          BY <5>2, GreatestElement
        <5>4. \A c \in S : c + 1 \in T
          BY <1>4, <5>1
        <5>5. e - 1 \in S /\ e \in Nat
          BY <5>1, <5>3
        <5>6. \A c \in S : c <= e - 1
          BY <1>4, <5>3, <5>4, <5>5
        <5> QED BY <5>5, <5>6
      <4>3. Following(fun, b) \in Nat /\ Following(fun, b) > b /\ Following(fun, b) <= n
        BY <1>4, <1>8, Follows
      <4>4. Following(fun, b) \notin S
        BY <1>4, <4>2, <4>3
      <4>5. Following(fun, b) = n
        BY <1>1, <1>4, <4>3, <4>4 DEF Sweep
      <4> QED BY <1>5, <3>2, <4>5
    <3> QED BY <3>1, <3>2
  <2> QED BY <2>1, <2>2, <2>3, <2>4 DEF Sweep
<1>10. dump_function(new) = S \cup {n}
  BY <1>2, <1>9, SweepIsDump
<1> QED BY <1>1, <1>2, <1>3, <1>4, <1>5, <1>6, <1>7, <1>10

(* What is added is listed; if it is a jump, its word is still to come.    *)
LEMMA AddedListed ==
  ASSUME NEW fun, NEW new, NEW bytes, NEW P, Added(new, fun, bytes), Listed(fun, P),
         NEW Q, Q = IF OpNames[bytes[1] + 1] \in Jumps THEN P \cup {Len(fun.code)} ELSE P
  PROVE  Listed(new, Q)
<1>1. PICK n \in Nat : n = Len(fun.code)
  BY AddedCode
<1>2. PICK k \in Nat : k = Len(bytes) /\ k > 0 /\ Len(new.code) = n + k
  <2>1. Len(bytes) \in 1..3 /\ Len(new.code) = Len(fun.code) + Len(bytes)
    BY AddedCode
  <2>2. PICK k : k = Len(bytes)
    OBVIOUS
  <2> QED BY <1>1, <2>1, <2>2
<1>3. PICK S : S = dump_function(fun)
  OBVIOUS
<1>4. /\ dump_function(new) = S \cup {n} /\ S \subseteq 0..(n - 1)
      /\ \A a \in S : OpAt(new, a) = OpAt(fun, a) /\ Following(new, a) = Following(fun, a)
      /\ OpAt(new, n) = OpNames[bytes[1] + 1]
      /\ Following(new, n) = n + k
  BY <1>1, <1>2, <1>3, AddedSweep
<1>5. /\ \A a \in S : Following(fun, a) <= n /\ Following(fun, a) \in Nat
      /\ P \subseteq {a \in S : OpAt(fun, a) \in Jumps}
      /\ \A a \in S \ P :
          OpAt(fun, a) \in Jumps =>
            read_word(fun, a + 1) \in S \cup {n} /\ read_word(fun, a + 1) > a
  BY <1>1, <1>3, <1>4, Follows DEF Listed
<1>6. \A a \in S \cup {n} : Following(new, a) <= n + k
  BY <1>4, <1>5
<1>7. Q \subseteq {a \in S \cup {n} : OpAt(new, a) \in Jumps}
  BY <1>1, <1>4, <1>5
<1>8. ASSUME NEW a \in (S \cup {n}) \ Q, OpAt(new, a) \in Jumps
      PROVE  read_word(new, a + 1) \in S \cup {n} /\ read_word(new, a + 1) > a
  <2>1. a \in S \ P /\ OpAt(fun, a) \in Jumps
    BY <1>1, <1>4, <1>8
  <2>2. Following(fun, a) = a + 3
    BY <2>1 DEF Following, Size, Jumps, WordOps
  <2>3. a + 2 \in 1..n /\ a + 3 \in 1..n
    BY <1>4, <1>5, <2>1, <2>2
  <2>4. new.code[a + 2] = fun.code[a + 2] /\ new.code[a + 3] = fun.code[a + 3]
    BY <1>1, <2>3, AddedCode
  <2>5. a \in Nat /\ (a + 1) + 1 = a + 2 /\ (a + 1) + 2 = a + 3
    BY <1>4, <2>1
  <2>6. read_word(new, a + 1) = read_word(fun, a + 1)
    BY <2>4, <2>5 DEF read_word
  <2> QED BY <1>5, <2>1, <2>6
<1> QED BY <1>2, <1>4, <1>6, <1>7, <1>8 DEF Listed

(* An instruction that is no OP_CLOSURE leaves the closures as they are.   *)
LEMMA AddedNumbered ==
  ASSUME NEW fun, NEW new, NEW bytes, NEW P, Added(new, fun, bytes), Listed(fun, P),
         Numbered(fun), OpNames[bytes[1] + 1] # "OP_CLOSURE", new.functions = fun.functions
  PROVE  Numbered(new)
<1>1. PICK n \in Nat : n = Len(fun.code)
  BY AddedCode
<1>2. PICK S : S = dump_function(fun)
  OBVIOUS
<1>3. /\ dump_function(new) = S \cup {n} /\ S \subseteq 0..(n - 1)
      /\ \A a \in S : OpAt(new, a) = OpAt(fun, a)
      /\ \A a \in S : Following(fun, a) <= n
      /\ OpAt(new, n) = OpNames[bytes[1] + 1]
  BY <1>1, <1>2, AddedSweep DEF Listed
<1>4. ClosuresIn(new) = ClosuresIn(fun)
  BY <1>2, <1>3 DEF ClosuresIn
<1>5. ASSUME NEW a \in ClosuresIn(fun)
      PROVE  read_byte(new, a + 1) = read_byte(fun, a + 1)
  <2>1. a \in S /\ OpAt(fun, a) = "OP_CLOSURE"
    BY <1>2 DEF ClosuresIn
  <2>2. Following(fun, a) = a + 2
    BY <2>1 DEF Following, Size, WordOps, ByteOps
  <2>3. (a + 1) + 1 \in 1..n
    BY <1>3, <2>1, <2>2
  <2> QED BY <1>1, <2>3, AddedCode DEF read_byte
<1> QED BY <1>4, <1>5 DEF Numbered

(* The closure of the next child carries the next number.                  *)
LEMMA AddedClosure ==
  ASSUME NEW fun, NEW new, NEW bytes, NEW P, Added(new, fun, bytes), Listed(fun, P),
         Numbered(fun), OpNames[bytes[1] + 1] = "OP_CLOSURE",
         Len(fun.functions) \in Nat, Len(new.functions) = Len(fun.functions) + 1,
         bytes[2] = Len(fun.functions) % (UINT8_MAX + 1)
  PROVE  Numbered(new)
<1>1. PICK n \in Nat : n = Len(fun.code)
  BY AddedCode
<1>2. PICK S : S = dump_function(fun)
  OBVIOUS
<1>3. /\ dump_function(new) = S \cup {n} /\ S \subseteq 0..(n - 1)
      /\ \A a \in S : OpAt(new, a) = OpAt(fun, a)
      /\ \A a \in S : Following(fun, a) <= n
      /\ OpAt(new, n) = OpNames[bytes[1] + 1]
  BY <1>1, <1>2, AddedSweep DEF Listed
<1>4. PICK C : C = ClosuresIn(fun)
  OBVIOUS
<1>5. ClosuresIn(new) = C \cup {n} /\ C \subseteq 0..(n - 1) /\ n \notin C
  BY <1>2, <1>3, <1>4 DEF ClosuresIn
<1>6. SUFFICES ASSUME Len(new.functions) <= UINT8_MAX + 1
               PROVE  /\ Cardinality(C \cup {n}) = Len(new.functions)
                      /\ \A a \in C \cup {n} :
                           read_byte(new, a + 1)
                             = Cardinality({b \in C \cup {n} : b < a})
  BY <1>5 DEF Numbered
<1>7. PICK m \in Nat : m = Len(fun.functions) /\ m <= UINT8_MAX
  BY <1>6, Bytes
<1>8. /\ Cardinality(C) = m
      /\ \A a \in C : read_byte(fun, a + 1) = Cardinality({b \in C : b < a})
  BY <1>4, <1>7, Bytes DEF Numbered
<1>9. IsFiniteSet(C)
  <2>1. IsFiniteSet(0..(n - 1))
    BY FS_Interval
  <2> QED BY <1>5, <2>1, FS_Subset
<1>10. Cardinality(C \cup {n}) = m + 1
  BY <1>5, <1>8, <1>9, FS_AddElement
<1>11. ASSUME NEW a \in C
       PROVE  read_byte(new, a + 1) = Cardinality({b \in C \cup {n} : b < a})
  <2>1. a \in S /\ OpAt(fun, a) = "OP_CLOSURE"
    BY <1>2, <1>4 DEF ClosuresIn
  <2>2. Following(fun, a) = a + 2
    BY <2>1 DEF Following, Size, WordOps, ByteOps
  <2>3. (a + 1) + 1 \in 1..n
    BY <1>3, <2>1, <2>2
  <2>4. read_byte(new, a + 1) = read_byte(fun, a + 1)
    BY <1>1, <2>3, AddedCode DEF read_byte
  <2>5. {b \in C \cup {n} : b < a} = {b \in C : b < a}
    BY <1>5
  <2> QED BY <1>8, <2>4, <2>5
<1>12. read_byte(new, n + 1) = Cardinality({b \in C \cup {n} : b < n})
  <2>1. Len(bytes) = 2
    BY DEF Added, Size, WordOps, ByteOps
  <2>2. new.code[n + 2] = bytes[2]
    BY <1>1, <2>1, AddedCode
  <2>3. (n + 1) + 1 = n + 2
    OBVIOUS
  <2>4. bytes[2] = m
    <3>1. PICK u \in Nat : u = UINT8_MAX /\ m <= u
      BY <1>7, Bytes
    <3>2. m % (u + 1) = m
      BY <3>1
    <3> QED BY <1>7, <3>1, <3>2
  <2>5. {b \in C \cup {n} : b < n} = C
    <3>1. ~(n < n) /\ \A b \in C : b < n
      BY <1>5
    <3> QED BY <3>1, Zenon
  <2> QED BY <1>8, <2>2, <2>3, <2>4, <2>5 DEF read_byte
<1> QED BY <1>7, <1>10, <1>11, <1>12

LEMMA AddedGood ==
  ASSUME NEW fun, NEW new, NEW bytes, NEW P, Added(new, fun, bytes), GoodCode(fun, P),
         OpNames[bytes[1] + 1] # "OP_CLOSURE", new.functions = fun.functions,
         NEW Q, Q = IF OpNames[bytes[1] + 1] \in Jumps THEN P \cup {Len(fun.code)} ELSE P
  PROVE  GoodCode(new, Q)
BY AddedListed, AddedNumbered DEF GoodCode
(* What patch_jump writes is the length of the code.                       *)
LEMMA PatchedWord ==
  ASSUME NEW code \in Seq(Byte), Len(code) <= UINT16_MAX,
         NEW offset \in Nat, offset + 2 <= Len(code)
  PROVE  patch_jump(code, offset)[offset + 1]
           + (UINT8_MAX + 1) * patch_jump(code, offset)[offset + 2] = Len(code)
<1>1. PICK word : word = WordBytes(Len(code))
  OBVIOUS
<1>2. PICK low \in Byte, high \in Byte : low = word[1] /\ high = word[2]
  BY <1>1, WordBytesAre, LenProperties DEF Byte
<1>3. PICK n \in Nat : n = Len(code)
  OBVIOUS
<1>4. PICK m \in Nat \ {0} : m = UINT8_MAX + 1
  BY Bytes
<1>5. low + m * high = n
  <2>1. low = n % m /\ high = n \div m
    BY <1>1, <1>2, <1>3, <1>4 DEF WordBytes
  <2>2. n = m * (n \div m) + (n % m)
    OBVIOUS
  <2> QED BY <2>1, <2>2, Bytes DEF Byte
<1>6. PICK one \in 1..n, two \in 1..n : one = offset + 1 /\ two = offset + 2 /\ one # two
  BY <1>3
<1>7. DOMAIN code = 1..n
  BY <1>3
<1>8. patch_jump(code, offset) = [code EXCEPT ![one] = low, ![two] = high]
  BY <1>1, <1>2, <1>6 DEF patch_jump
<1>9. patch_jump(code, offset)[one] = low /\ patch_jump(code, offset)[two] = high
  BY <1>6, <1>7, <1>8
<1> QED BY <1>3, <1>4, <1>5, <1>6, <1>9

(* The word of a pending jump gets the address of what will follow; whether*)
(* the jump is remembered any longer does not matter.                      *)
LEMMA PatchGood ==
  ASSUME NEW fun, fun.code \in Seq(Byte), Len(fun.code) <= UINT16_MAX,
         NEW P, GoodCode(fun, P), NEW j \in P,
         NEW new, new.functions = fun.functions,
         NEW offset, offset = j + 1, new.code = patch_jump(fun.code, offset),
         NEW Q, P \ {j} \subseteq Q, Q \subseteq P
  PROVE  GoodCode(new, Q)
<1>1. PICK n \in Nat : n = Len(fun.code)
  OBVIOUS
<1>2. PICK S : S = dump_function(fun)
  OBVIOUS
<1>3. /\ Sweep(fun, S) /\ S \subseteq 0..(n - 1)
      /\ \A a \in S : Following(fun, a) <= n /\ Following(fun, a) \in Nat
      /\ P \subseteq {a \in S : OpAt(fun, a) \in Jumps}
      /\ \A a \in S \ P :
          OpAt(fun, a) \in Jumps =>
            read_word(fun, a + 1) \in S \cup {n} /\ read_word(fun, a + 1) > a
  <2>1. Sweep(fun, S) /\ S \subseteq 0..(n - 1)
    BY <1>1, <1>2, DumpSweeps DEF Sweep
  <2> QED BY <1>1, <1>2, <2>1, Follows DEF GoodCode, Listed
<1>4. j \in S /\ j \in Nat /\ OpAt(fun, j) \in Jumps /\ Following(fun, j) = j + 3 /\ j + 3 <= n
  <2>1. j \in S /\ OpAt(fun, j) \in Jumps
    BY <1>3
  <2>2. Following(fun, j) = j + 3
    BY <2>1 DEF Following, Size, Jumps, WordOps
  <2> QED BY <1>3, <2>1, <2>2
<1>5. /\ Len(new.code) = n /\ offset \in Nat
      /\ \A a \in 1..n : a \notin {offset + 1, offset + 2} => new.code[a] = fun.code[a]
  <2>1. PICK code \in Seq(0..UINT8_MAX) : code = fun.code
    BY DEF Byte
  <2> QED BY <1>1, <1>4, <2>1, PatchedCode
<1>6. \A a \in S : a # j => a + 1 # offset + 1 /\ a + 1 # offset + 2
  <2>1. ASSUME NEW a \in S, a > j PROVE a >= j + 3
    BY <1>1, <1>2, <1>4, <2>1, SweepSkips
  <2>2. \A a \in S : a \in Nat
    BY <1>3
  <2> QED BY <1>4, <2>1, <2>2
<1>7. ASSUME NEW a \in S
      PROVE  OpAt(new, a) = OpAt(fun, a) /\ Following(new, a) = Following(fun, a)
  <2>1. a + 1 \in 1..n /\ a + 1 \notin {offset + 1, offset + 2}
    BY <1>3, <1>4, <1>6
  <2>2. new.code[a + 1] = fun.code[a + 1]
    BY <1>5, <2>1
  <2> QED BY <2>2 DEF OpAt, Following
<1>8. dump_function(new) = S
  <2>1. Sweep(new, S)
    BY <1>1, <1>3, <1>5, <1>7 DEF Sweep
  <2> QED BY <1>5, <2>1, SweepIsDump
(* What else an instruction has is what it had.                            *)
<1>9. ASSUME NEW a \in S, a # j
      PROVE  \A i \in (a + 1)..Following(fun, a) : new.code[i] = fun.code[i]
  <2>1. a \in Nat /\ Following(fun, a) \in Nat /\ Following(fun, a) <= n
    BY <1>3
  <2>2. a < j => Following(fun, a) <= j
    BY <1>1, <1>2, <1>4, SweepSkips
  <2>3. a > j => a >= j + 3
    BY <1>1, <1>2, <1>4, SweepSkips
  <2>4. \A i \in (a + 1)..Following(fun, a) :
          i \in 1..n /\ i \notin {offset + 1, offset + 2}
    BY <1>4, <1>9, <2>1, <2>2, <2>3
  <2> QED BY <1>5, <2>4
<1>10. Listed(new, Q)
  <2>1. \A a \in S : Following(new, a) <= n
    BY <1>3, <1>7
  <2>2. Q \subseteq {a \in S : OpAt(new, a) \in Jumps}
    BY <1>3, <1>7
  <2>3. ASSUME NEW a \in S \ Q, OpAt(new, a) \in Jumps
        PROVE  read_word(new, a + 1) \in S \cup {n} /\ read_word(new, a + 1) > a
    <3>1. CASE a = j
      <4>1. /\ new.code[offset + 1] + (UINT8_MAX + 1) * new.code[offset + 2] = n
            /\ (a + 1) + 1 = offset + 1 /\ (a + 1) + 2 = offset + 2
        BY <1>1, <1>4, <1>5, <3>1, PatchedWord
      <4>2. read_word(new, a + 1) = n
        BY <4>1 DEF read_word
      <4> QED BY <1>4, <3>1, <4>2
    <3>2. CASE a # j
      <4>1. a \in S \ P /\ OpAt(fun, a) \in Jumps /\ a \in Nat
        BY <1>3, <1>7, <2>3, <3>2
      <4>2. Following(fun, a) = a + 3
        BY <4>1 DEF Following, Size, Jumps, WordOps
      <4>3. new.code[a + 2] = fun.code[a + 2] /\ new.code[a + 3] = fun.code[a + 3]
        BY <1>9, <3>2, <4>1, <4>2
      <4>4. (a + 1) + 1 = a + 2 /\ (a + 1) + 2 = a + 3
        BY <4>1
      <4>5. read_word(new, a + 1) = read_word(fun, a + 1)
        BY <4>3, <4>4 DEF read_word
      <4> QED BY <1>3, <4>1, <4>5
    <3> QED BY <3>1, <3>2
  <2> QED BY <1>5, <1>8, <2>1, <2>2, <2>3 DEF Listed
<1>11. Numbered(new)
  <2>1. ClosuresIn(new) = ClosuresIn(fun)
    BY <1>2, <1>7, <1>8 DEF ClosuresIn
  <2>2. ASSUME NEW a \in ClosuresIn(fun)
        PROVE  read_byte(new, a + 1) = read_byte(fun, a + 1)
    <3>1. a \in S /\ a \in Nat /\ OpAt(fun, a) = "OP_CLOSURE" /\ a # j
      BY <1>2, <1>3, <1>4 DEF ClosuresIn, Jumps
    <3>2. Following(fun, a) = a + 2
      BY <3>1 DEF Following, Size, WordOps, ByteOps
    <3>3. new.code[(a + 1) + 1] = fun.code[(a + 1) + 1]
      BY <1>9, <3>1, <3>2
    <3> QED BY <3>3 DEF read_byte
  <2> QED BY <2>1, <2>2 DEF GoodCode, Numbered
<1> QED BY <1>10, <1>11 DEF GoodCode

-----------------------------------------------------------------------------
(* The jumps that the C stack remembers.                                   *)

LEMMA CodesNamed == \A name \in Emitted : OpNames[OpCode(name) + 1] = name
<1> SUFFICES ASSUME NEW name \in Emitted PROVE OpNames[OpCode(name) + 1] = name
  OBVIOUS
<1>1. DOMAIN OpNames = 1..30
  BY DEF OpNames
<1>2. \E i \in DOMAIN OpNames : OpNames[i] = name
  <2>1. /\ OpNames[2] = "OP_FALSE" /\ OpNames[3] = "OP_TRUE" /\ OpNames[4] = "OP_INT"
        /\ OpNames[5] = "OP_CONSTANT" /\ OpNames[6] = "OP_TUPLE" /\ OpNames[7] = "OP_CLOSURE"
        /\ OpNames[8] = "OP_LOCAL" /\ OpNames[9] = "OP_NONLOCAL" /\ OpNames[10] = "OP_ADD"
        /\ OpNames[11] = "OP_SUB" /\ OpNames[12] = "OP_MUL" /\ OpNames[13] = "OP_DIV"
        /\ OpNames[14] = "OP_REM" /\ OpNames[15] = "OP_EQ" /\ OpNames[16] = "OP_NEQ"
        /\ OpNames[17] = "OP_LT" /\ OpNames[18] = "OP_GT" /\ OpNames[19] = "OP_LTE"
        /\ OpNames[20] = "OP_GTE" /\ OpNames[21] = "OP_AND" /\ OpNames[22] = "OP_OR"
        /\ OpNames[23] = "OP_JUMP" /\ OpNames[24] = "OP_JUMP_IF_FALSE"
        /\ OpNames[25] = "OP_FIRST" /\ OpNames[26] = "OP_SECOND" /\ OpNames[27] = "OP_PRINT"
        /\ OpNames[28] = "OP_CALL" /\ OpNames[29] = "OP_TAIL_CALL"
        /\ OpNames[30] = "OP_RETURN"
    BY DEF OpNames
  <2>2. \A i \in 2..30 : i \in DOMAIN OpNames
    BY <1>1
  <2> QED BY <2>1, <2>2 DEF Emitted
<1>3. PICK k \in DOMAIN OpNames :
        k = (CHOOSE i \in DOMAIN OpNames : OpNames[i] = name) /\ OpNames[k] = name
  BY <1>2
<1>4. OpCode(name) = k - 1
  BY <1>3 DEF OpCode
<1>5. (k - 1) + 1 = k
  BY <1>1
<1> QED BY <1>3, <1>4, <1>5

(* Only compile_if remembers a jump, between its first emission and the    *)
(* last patch, and never when nothing is emitted.                          *)
HeldBy(a, emitting) ==
  a.jump # NoJump => emitting /\ a.proc = "compile_if" /\ a.pc \in 4..9

JumpsHeld == \A i \in DOMAIN calls : HeldBy(calls[i], emit)

CodeInv ==
  /\ \A f \in DOMAIN functions : GoodCode(functions[f], Pending(f))
  /\ JumpsHeld

LEMMA CurrentActive ==
  ASSUME CInv, calls # <<>>
  PROVE  depth \in DOMAIN calls /\ current = calls[depth]
BY CurrentFacts, LenProperties DEF CInv, CallsInv

(* As a function goes on it remembers what it did.                         *)
LEMMA NextHeld ==
  ASSUME CInv, JumpsHeld, NEW op, Doing(op), NEW act,
         act.proc = current.proc, act.jump = current.jump,
         act.pc = current.pc + 1 \/ op \in {"first_item", "next_item"},
         op \in {"jump_if_false", "jump_over", "patch_jump"} => ~emit
  PROVE  HeldBy(act, emit)
<1> SUFFICES ASSUME current.jump # NoJump
             PROVE  emit /\ act.proc = "compile_if" /\ act.pc \in 4..9
  BY DEF HeldBy
<1>1. /\ calls # <<>>
      /\ current.proc \in Placing => PlacesOK(current.proc, current.pc, op)
  BY DoingFacts
<1>2. depth \in DOMAIN calls /\ current = calls[depth]
  BY <1>1, CurrentActive
<1>3. emit /\ current.proc = "compile_if" /\ current.pc \in 4..9
  BY <1>2 DEF JumpsHeld, HeldBy
<1>4. PlacesOK("compile_if", current.pc, op)
  BY <1>1, <1>3 DEF Placing
<1>5. op \notin {"first_item", "next_item"} /\ current.pc # 9
  BY <1>3, <1>4 DEF PlacesOK, PlacedOps
<1> QED BY <1>3, <1>5

LEMMA PendingKept ==
  ASSUME DOMAIN calls' = DOMAIN calls,
         \A i \in DOMAIN calls :
           /\ calls'[i].jump = calls[i].jump
           /\ comps'[calls'[i].comp].fn = comps[calls[i].comp].fn
  PROVE  \A f : Pending(f)' = Pending(f)
BY DEF Pending

LEMMA BecomeHeld ==
  ASSUME CInv, JumpsHeld, calls # <<>>, NEW act, Become(act),
         act.comp = current.comp, act.jump = current.jump, HeldBy(act, emit), emit' = emit,
         \A i \in DOMAIN calls : comps'[calls[i].comp].fn = comps[calls[i].comp].fn
  PROVE  JumpsHeld' /\ \A f : Pending(f)' = Pending(f)
<1>1. depth \in DOMAIN calls /\ current = calls[depth]
  BY CurrentActive
<1>2. /\ DOMAIN calls' = DOMAIN calls
      /\ \A i \in DOMAIN calls : calls'[i] = IF i = depth THEN act ELSE calls[i]
  BY <1>1 DEF Become
<1>3. \A i \in DOMAIN calls :
        /\ calls'[i].jump = calls[i].jump
        /\ comps'[calls'[i].comp].fn = comps[calls[i].comp].fn
  BY <1>1, <1>2
<1>4. JumpsHeld'
  BY <1>2 DEF JumpsHeld
<1> QED BY <1>2, <1>3, <1>4, PendingKept

LEMMA AdvanceHeld ==
  ASSUME CInv, JumpsHeld, NEW op, Doing(op), Advance, emit' = emit,
         op \in {"jump_if_false", "jump_over", "patch_jump"} => ~emit,
         \A i \in DOMAIN calls : comps'[calls[i].comp].fn = comps[calls[i].comp].fn
  PROVE  JumpsHeld' /\ \A f : Pending(f)' = Pending(f)
<1>1. calls # <<>> /\ current \in ActivationOf
  BY DoingFacts, CurrentFacts
<1>2. PICK act : act = [current EXCEPT !.pc = @ + 1]
  OBVIOUS
<1>3. /\ act.proc = current.proc /\ act.comp = current.comp
      /\ act.pc = current.pc + 1 /\ act.jump = current.jump
  BY <1>1, <1>2 DEF ActivationOf
<1>4. HeldBy(act, emit)
  BY <1>3, NextHeld
<1>5. Become(act)
  BY <1>2 DEF Advance
<1> QED BY <1>1, <1>3, <1>4, <1>5, BecomeHeld

-----------------------------------------------------------------------------
(* Steps of the parser.                                                    *)

LEMMA UnchangedGood ==
  ASSUME CodeInv, functions' = functions, JumpsHeld', \A f : Pending(f)' = Pending(f)
  PROVE  CodeInv'
BY DEF CodeInv

LEMMA StopGood ==
  ASSUME CodeInv,
         \/ UNCHANGED <<emit, calls, comps, functions>>
         \/ OutOfMemory \/ Undefined \/ (\E error : Fail(error))
         \/ (\E n : result_unexpected_token_error(n))
  PROVE  CodeInv'
<1>1. UNCHANGED <<emit, calls, comps, functions>>
  BY DEF OutOfMemory, Undefined, Fail, FailAt, result_unexpected_token_error
<1>2. \A f : Pending(f)' = Pending(f)
  BY <1>1, PendingKept
<1>3. JumpsHeld'
  BY <1>1 DEF CodeInv, JumpsHeld
<1> QED BY <1>1, <1>2, <1>3, UnchangedGood

LEMMA AdvanceGood ==
  ASSUME CInv, CodeInv, NEW op, Doing(op), Advance, emit' = emit, functions' = functions,
         op \in {"jump_if_false", "jump_over", "patch_jump"} => ~emit,
         \A i \in DOMAIN calls : comps'[calls[i].comp].fn = comps[calls[i].comp].fn
  PROVE  CodeInv'
BY AdvanceHeld, UnchangedGood DEF CodeInv

LEMMA NextTokenGood ==
  ASSUME CInv, CodeInv, NEW op, Doing(op), NEW act, NEW n, next_token(n, act),
         act.proc = current.proc, act.comp = current.comp, act.jump = current.jump,
         act.pc = current.pc + 1 \/ op \in {"first_item", "next_item"},
         op \notin {"jump_if_false", "jump_over", "patch_jump"}
  PROVE  CodeInv'
<1>1. CASE result_unexpected_token_error(n)
  BY <1>1, StopGood
<1>2. CASE Become(act) /\ UNCHANGED <<emit, comps, functions>>
  <2>1. HeldBy(act, emit)
    BY NextHeld DEF CodeInv
  <2>2. calls # <<>>
    BY DoingFacts
  <2>3. JumpsHeld' /\ \A f : Pending(f)' = Pending(f)
    BY <1>2, <2>1, <2>2, BecomeHeld DEF CodeInv
  <2> QED BY <1>2, <2>3, UnchangedGood
<1> QED BY <1>1, <1>2 DEF next_token

LEMMA EnterGood ==
  ASSUME CInv, CodeInv, NEW op \in {"call", "term", "dispatch"}, Doing(op),
         NEW proc, NEW isTail, Enter(proc, isTail)
  PROVE  CodeInv'
<1>1. /\ calls # <<>> /\ current \in ActivationOf
      /\ depth = Len(calls) /\ Len(calls) \in Nat \ {0} /\ current = calls[depth]
      /\ calls \in Seq(ActivationOf)
  BY DoingFacts, CurrentFacts DEF CInv, CallsInv
<1>2. PICK act : act = [current EXCEPT !.pc = @ + 1]
  OBVIOUS
<1>3. /\ act.proc = current.proc /\ act.comp = current.comp
      /\ act.pc = current.pc + 1 /\ act.jump = current.jump
  BY <1>1, <1>2 DEF ActivationOf
<1>4. HeldBy(act, emit)
  BY <1>3, NextHeld DEF CodeInv
<1>5. PICK new : new = Activation(proc, isTail)
  OBVIOUS
<1>6. new.jump = NoJump
  BY <1>5 DEF Activation
<1>7. PICK n \in Nat \ {0} : n = Len(calls)
  BY <1>1
<1>8. PICK S : S = ActivationOf \cup {act, new}
  OBVIOUS
<1>9. calls \in Seq(S)
  BY <1>1, <1>8, SeqMonotonic
<1>10. PICK base : base = [calls EXCEPT ![n] = act]
  OBVIOUS
<1>11. /\ base \in Seq(S) /\ Len(base) = n
       /\ \A i \in 1..n : base[i] = IF i = n THEN act ELSE calls[i]
  BY <1>7, <1>8, <1>9, <1>10, ExceptSeq
<1>12. calls' = Append(base, new)
  BY <1>1, <1>2, <1>5, <1>7, <1>10 DEF Enter
<1>13. /\ Len(calls') = n + 1 /\ calls'[n + 1] = new
       /\ DOMAIN calls' = 1..(n + 1) /\ DOMAIN calls = 1..n
       /\ \A i \in 1..n : calls'[i] = base[i]
  BY <1>7, <1>8, <1>9, <1>11, <1>12, AppendProperties, LenProperties
<1>14. UNCHANGED <<emit, comps, functions>>
  BY DEF Enter, steady
<1>15. JumpsHeld'
  <2> SUFFICES ASSUME NEW i \in 1..(n + 1) PROVE HeldBy(calls'[i], emit)
    BY <1>13, <1>14 DEF JumpsHeld
  <2>1. CASE i = n + 1
    BY <1>6, <1>13, <2>1 DEF HeldBy
  <2>2. CASE i \in 1..n
    BY <1>4, <1>11, <1>13, <2>2 DEF CodeInv, JumpsHeld
  <2> QED BY <2>1, <2>2
<1>16. ASSUME NEW f PROVE Pending(f)' = Pending(f)
  <2>1. \A i \in 1..n :
          calls'[i].jump = calls[i].jump /\ calls'[i].comp = calls[i].comp
    BY <1>1, <1>3, <1>7, <1>11, <1>13
  <2>2. {i \in DOMAIN calls' : calls'[i].jump # NoJump /\ comps'[calls'[i].comp].fn = f}
          = {i \in DOMAIN calls : calls[i].jump # NoJump /\ comps[calls[i].comp].fn = f}
    BY <1>6, <1>13, <1>14, <2>1
  <2>3. \A i \in {i \in DOMAIN calls : calls[i].jump # NoJump /\ comps[calls[i].comp].fn = f} :
          calls'[i].jump - 1 = calls[i].jump - 1
    BY <1>13, <2>1
  <2> QED BY <2>2, <2>3 DEF Pending
<1> QED BY <1>14, <1>15, <1>16, UnchangedGood

(* A function remembers nothing when it returns.                           *)
LEMMA returnGood ==
  ASSUME CInv, CodeInv, return
  PROVE  CodeInv'
<1>1. /\ calls # <<>> /\ current.pc > Len(Script[current.proc])
      /\ calls' = SubSeq(calls, 1, depth - 1)
      /\ UNCHANGED <<emit, comps, functions>>
  BY DEF return, steady
<1>2. /\ depth = Len(calls) /\ current = calls[depth] /\ calls \in Seq(ActivationOf)
      /\ current \in ActivationOf
  BY <1>1, CurrentFacts DEF CInv, CallsInv
<1>3. PICK n \in Nat \ {0} : n = Len(calls) /\ n - 1 \in Nat
  BY <1>1, CurrentFacts
<1>4. DOMAIN calls = 1..n
  BY <1>2, <1>3, LenProperties
<1>5. current.jump = NoJump
  <2>1. SUFFICES ASSUME current.jump # NoJump PROVE FALSE
    OBVIOUS
  <2>2. n \in DOMAIN calls /\ current = calls[n]
    BY <1>2, <1>3, <1>4
  <2>3. current.proc = "compile_if" /\ current.pc \in 4..9
    BY <2>1, <2>2 DEF CodeInv, JumpsHeld, HeldBy
  <2>4. Len(Script["compile_if"]) = 10
    BY DEF Script, compile_if
  <2> QED BY <1>1, <2>3, <2>4
<1>6. /\ DOMAIN calls' = 1..(n - 1)
      /\ \A i \in 1..(n - 1) : calls'[i] = calls[i]
  BY <1>1, <1>2, <1>3, SubSeqProperties, LenProperties
<1>7. JumpsHeld'
  <2>1. \A i \in 1..(n - 1) : i \in DOMAIN calls
    BY <1>3, <1>4
  <2> QED BY <1>1, <1>6, <2>1 DEF CodeInv, JumpsHeld
<1>8. ASSUME NEW f PROVE Pending(f)' = Pending(f)
  <2>1. {i \in DOMAIN calls' : calls'[i].jump # NoJump /\ comps'[calls'[i].comp].fn = f}
          = {i \in DOMAIN calls : calls[i].jump # NoJump /\ comps[calls[i].comp].fn = f}
    BY <1>1, <1>2, <1>3, <1>4, <1>5, <1>6
  <2>2. \A i \in {i \in DOMAIN calls' : calls'[i].jump # NoJump /\ comps'[calls'[i].comp].fn = f} :
          calls'[i].jump - 1 = calls[i].jump - 1
    BY <1>6
  <2> QED BY <2>1, <2>2 DEF Pending
<1> QED BY <1>1, <1>7, <1>8, UnchangedGood

LEMMA UpdatedCurrent ==
  ASSUME CInv, calls # <<>>, NEW p, NEW t, NEW n
  PROVE  \A act \in {[current EXCEPT !.pc = p], [current EXCEPT !.pc = p, !.token = t],
                     [current EXCEPT !.count = n], [current EXCEPT !.count = n, !.pc = p]} :
           act.proc = current.proc /\ act.comp = current.comp /\ act.jump = current.jump
<1>1. current \in ActivationOf
  BY CurrentFacts
<1> QED BY <1>1 DEF ActivationOf

LEMMA ParsingGood ==
  ASSUME CInv, CodeInv,
         \/ finish \/ consume \/ keep \/ keep_bool \/ first_item \/ next_item
         \/ call \/ term \/ dispatch \/ return \/ operator \/ add_local
         \/ UNCHANGED cvars
  PROVE  CodeInv'
<1>1. CASE finish
  BY <1>1, StopGood DEF finish
<1>2. ASSUME calls # <<>>
      PROVE  \A p, t, n :
               /\ [current EXCEPT !.pc = p].pc = p
               /\ [current EXCEPT !.pc = p, !.token = t].pc = p
  <2>1. current \in ActivationOf
    BY <1>2, CurrentFacts
  <2> QED BY <2>1 DEF ActivationOf
<1>3. CASE consume
  <2>1. Doing("consume") /\ calls # <<>>
    BY <1>3 DEF consume, Doing
  <2>2. PICK p : p = current.pc + 1
    OBVIOUS
  <2>3. PICK act : act = [current EXCEPT !.pc = p]
    OBVIOUS
  <2>4. \/ \E n : result_unexpected_token_error(n)
        \/ \E n : next_token(n, act)
    BY <1>3, <2>2, <2>3 DEF consume
  <2>5. /\ act.proc = current.proc /\ act.comp = current.comp /\ act.jump = current.jump
        /\ act.pc = current.pc + 1
    BY <1>2, <2>1, <2>2, <2>3, UpdatedCurrent
  <2> QED BY <2>1, <2>4, <2>5, StopGood, NextTokenGood
<1>4. CASE keep \/ keep_bool
  <2>1. PICK op \in {"keep", "keep_bool"} : Doing(op)
    BY <1>4 DEF keep, keep_bool
  <2>2. calls # <<>>
    BY <2>1 DEF Doing
  <2>3. PICK p, t : p = current.pc + 1 /\ t = token
    OBVIOUS
  <2>4. PICK act : act = [current EXCEPT !.pc = p, !.token = t]
    OBVIOUS
  <2>5. \/ \E n : result_unexpected_token_error(n)
        \/ \E n : next_token(n, act)
    BY <1>4, <2>3, <2>4 DEF keep, keep_bool
  <2>6. /\ act.proc = current.proc /\ act.comp = current.comp /\ act.jump = current.jump
        /\ act.pc = current.pc + 1
    BY <1>2, <2>2, <2>3, <2>4, UpdatedCurrent
  <2> QED BY <2>1, <2>5, <2>6, StopGood, NextTokenGood
<1>5. CASE first_item
  <2>1. Doing("first_item") /\ calls # <<>>
    BY <1>5 DEF first_item, Doing
  <2>2. PICK p : p = current.pc + 3
    OBVIOUS
  <2>3. PICK act : act = [current EXCEPT !.pc = p]
    OBVIOUS
  <2>4. \/ \E n : next_token(n, act)
        \/ Advance /\ UNCHANGED <<steady, pos, comps, functions, strs>>
    BY <1>5, <2>2, <2>3 DEF first_item
  <2>5. act.proc = current.proc /\ act.comp = current.comp /\ act.jump = current.jump
    BY <2>1, <2>3, UpdatedCurrent
  <2> QED BY <2>1, <2>4, <2>5, AdvanceGood, NextTokenGood DEF steady
<1>6. CASE next_item
  <2>1. Doing("next_item") /\ calls # <<>>
    BY <1>6 DEF next_item, Doing
  <2>2. PICK n : n = (current.count + 1) % (UINT8_MAX + 1)
    OBVIOUS
  <2>3. PICK a : a = [current EXCEPT !.count = n]
    OBVIOUS
  <2>4. a.proc = current.proc /\ a.comp = current.comp /\ a.jump = current.jump
        /\ a.pc = current.pc
    <3>1. current \in ActivationOf
      BY <2>1, CurrentFacts
    <3> QED BY <2>3, <3>1 DEF ActivationOf
  <2>5. PICK next, back : next = [a EXCEPT !.pc = @ + 1] /\ back = [a EXCEPT !.pc = @ - 1]
    OBVIOUS
  <2>6. \/ \E k : result_unexpected_token_error(k)
        \/ \E k : next_token(k, next)
        \/ \E k : next_token(k, back)
    BY <1>6, <2>2, <2>3, <2>5 DEF next_item, Counted
  <2>7. \A act \in {next, back} :
          act.proc = current.proc /\ act.comp = current.comp /\ act.jump = current.jump
    <3>1. current \in ActivationOf
      BY <2>1, CurrentFacts
    <3> QED BY <2>3, <2>5, <3>1 DEF ActivationOf
  <2> QED BY <2>1, <2>6, <2>7, StopGood, NextTokenGood
<1>7. CASE call \/ term \/ dispatch
  BY <1>7, EnterGood, StopGood DEF call, term, dispatch
<1>8. CASE return
  BY <1>8, returnGood
<1>9. CASE operator
  BY <1>9, StopGood, AdvanceGood DEF operator, steady
<1>10. CASE add_local
  <2>1. CASE Undefined
    BY <2>1, StopGood
  <2>2. CASE /\ comps' = [comps EXCEPT ![Len(comps)] = Declared(comp, current.token.text)]
             /\ Advance /\ UNCHANGED <<steady, pos, functions, strs>>
    <3>1. Doing("add_local")
      BY <1>10 DEF add_local
    <3>2. comp = comps[Len(comps)] /\ comp \in CompilerOf
      BY <3>1, DoingFacts, CurrentFacts
    <3>3. Declared(comp, current.token.text).fn = comp.fn
      BY <3>2 DEF Declared, CompilerOf
    <3>4. \A k : comps'[k].fn = comps[k].fn
      BY <2>2, <3>2, <3>3
    <3> QED BY <2>2, <3>1, <3>4, AdvanceGood DEF steady
  <2> QED BY <1>10, <2>1, <2>2 DEF add_local
<1>11. CASE UNCHANGED cvars
  BY <1>11, StopGood DEF cvars
<1> QED BY <1>1, <1>3, <1>4, <1>5, <1>6, <1>7, <1>8, <1>9, <1>10, <1>11

LEMMA EmptyGood == GoodCode(NewFunction, {})
<1>1. /\ NewFunction.code = <<>> /\ Len(NewFunction.code) = 0
      /\ NewFunction.functions = <<>> /\ Len(NewFunction.functions) = 0
  BY EmptySeq DEF NewFunction
<1>2. dump_function(NewFunction) = {}
  <2>1. Sweep(NewFunction, {})
    BY <1>1 DEF Sweep
  <2> QED BY <1>1, <2>1, SweepIsDump
<1>3. ClosuresIn(NewFunction) = {} /\ Cardinality(ClosuresIn(NewFunction)) = 0
  BY <1>2, FS_EmptySet DEF ClosuresIn
<1> QED BY <1>1, <1>2, <1>3 DEF GoodCode, Listed, Numbered

LEMMA startGood ==
  ASSUME CInv, CodeInv, start
  PROVE  CodeInv'
<1>1. CASE UNCHANGED <<emit, calls, comps, functions>>
  BY <1>1, StopGood
<1>2. CASE OutOfMemory
  BY <1>2, StopGood
<1>3. CASE /\ functions' = <<NewFunction>>
           /\ calls' = <<[Activation("compile_file", FALSE) EXCEPT !.comp = 1]>>
  <2>1. PICK act : act = [Activation("compile_file", FALSE) EXCEPT !.comp = 1]
    OBVIOUS
  <2>2. act.jump = NoJump
    BY <2>1 DEF Activation
  <2>3. DOMAIN calls' = {1} /\ calls'[1] = act
    BY <1>3, <2>1
  <2>4. JumpsHeld'
    BY <2>2, <2>3 DEF JumpsHeld, HeldBy
  <2>5. \A f : Pending(f)' = {}
    BY <2>2, <2>3 DEF Pending
  <2>6. DOMAIN functions' = {1} /\ functions'[1] = NewFunction
    BY <1>3
  <2> QED BY <2>4, <2>5, <2>6, EmptyGood DEF CodeInv
<1> QED BY <1>1, <1>2, <1>3 DEF start

(* Code and functions are all that matters.                                *)
LEMMA SameGood ==
  ASSUME NEW fun, NEW new, NEW P, GoodCode(fun, P), Len(fun.code) \in Nat,
         new.code = fun.code, new.functions = fun.functions
  PROVE  GoodCode(new, P)
<1>1. \A a : OpAt(new, a) = OpAt(fun, a) /\ Following(new, a) = Following(fun, a)
  BY DEF OpAt, Following
<1>2. \A a : read_word(new, a) = read_word(fun, a) /\ read_byte(new, a) = read_byte(fun, a)
  BY DEF read_word, read_byte
<1>3. dump_function(new) = dump_function(fun)
  <2>1. Sweep(new, dump_function(fun))
    BY <1>1, DumpSweeps DEF Sweep
  <2> QED BY <2>1, SweepIsDump
<1>4. ClosuresIn(new) = ClosuresIn(fun)
  BY <1>1, <1>3 DEF ClosuresIn
<1>5. Listed(new, P)
  BY <1>1, <1>2, <1>3 DEF GoodCode, Listed
<1>6. Numbered(new)
  BY <1>2, <1>4 DEF GoodCode, Numbered
<1> QED BY <1>5, <1>6 DEF GoodCode

-----------------------------------------------------------------------------
(* Emission.                                                               *)

LEMMA RewriteGood ==
  ASSUME CInv, CodeInv, calls # <<>>, NEW newFn, Rewrite(newFn), JumpsHeld',
         \A f : f = comp.fn => GoodCode(newFn, Pending(f)'),
         \A f : f # comp.fn => Pending(f)' = Pending(f)
  PROVE  CodeInv'
<1>1. DOMAIN functions = 1..Len(functions) /\ comp.fn \in 1..Len(functions)
  BY CurrentFacts, RecordFacts
<1>2. /\ DOMAIN functions' = DOMAIN functions
      /\ \A f \in DOMAIN functions :
           functions'[f] = IF f = comp.fn THEN newFn ELSE functions[f]
  BY <1>1 DEF Rewrite
<1>3. ASSUME NEW f \in DOMAIN functions PROVE GoodCode(functions'[f], Pending(f)')
  <2>1. CASE f = comp.fn
    BY <1>2, <2>1
  <2>2. CASE f # comp.fn
    BY <1>2, <2>2 DEF CodeInv
  <2> QED BY <2>1, <2>2
<1> QED BY <1>2, <1>3 DEF CodeInv

LEMMA FunctionFacts ==
  ASSUME CInv, CodeInv, calls # <<>>
  PROVE  /\ fn.code \in Seq(Byte) /\ Len(fn.code) \in Nat
         /\ fn.functions \in Seq(Nat) /\ Len(fn.functions) \in Nat
         /\ GoodCode(fn, Pending(comp.fn))
<1>1. /\ fn \in FunctionOf /\ fn = functions[comp.fn] /\ comp.fn \in DOMAIN functions
  BY CurrentFacts, RecordFacts
<1>2. fn.code \in Seq(0..UINT8_MAX) /\ fn.functions \in Seq(Nat)
  BY <1>1 DEF FunctionOf
<1>3. fn.code \in Seq(Byte) /\ Len(fn.code) \in Nat /\ Len(fn.functions) \in Nat
  BY <1>2, LenProperties DEF Byte
<1> QED BY <1>1, <1>2, <1>3 DEF CodeInv

(* An instruction that is no jump and no OP_CLOSURE.                       *)
LEMMA PlainGood ==
  ASSUME CInv, CodeInv, NEW op, Doing(op),
         op \notin {"jump_if_false", "jump_over", "patch_jump"},
         NEW newFn, Rewrite(newFn), Advance, UNCHANGED <<emit, comps>>,
         NEW bytes \in Seq(Byte), Len(bytes) = Size(OpNames[bytes[1] + 1]),
         OpNames[bytes[1] + 1] \notin Jumps, OpNames[bytes[1] + 1] # "OP_CLOSURE",
         newFn.code = fn.code \o bytes, newFn.functions = fn.functions
  PROVE  CodeInv'
<1>1. calls # <<>>
  BY DoingFacts
<1>2. JumpsHeld' /\ \A f : Pending(f)' = Pending(f)
  BY AdvanceHeld DEF CodeInv
<1>3. fn.code \in Seq(Byte) /\ GoodCode(fn, Pending(comp.fn))
  BY <1>1, FunctionFacts
<1>4. Added(newFn, fn, bytes)
  BY <1>3 DEF Added
<1>5. GoodCode(newFn, Pending(comp.fn))
  BY <1>3, <1>4, AddedGood
<1> QED BY <1>1, <1>2, <1>5, RewriteGood

LEMMA EmissionGood ==
  ASSUME CInv, CodeInv, NEW op, Doing(op), NEW step, Emission(step),
         emit /\ step => CodeInv'
  PROVE  CodeInv'
<1>1. CASE ~emit /\ Advance /\ UNCHANGED <<steady, pos, comps, functions, strs>>
  BY <1>1, AdvanceGood DEF steady
<1> QED BY <1>1, StopGood DEF Emission

LEMMA EmitBytesGood ==
  ASSUME CInv, CodeInv, NEW op, Doing(op),
         op \notin {"jump_if_false", "jump_over", "patch_jump"},
         NEW bytes \in Seq(Byte), EmitBytes(bytes), Len(bytes) = Size(OpNames[bytes[1] + 1]),
         OpNames[bytes[1] + 1] \notin Jumps, OpNames[bytes[1] + 1] # "OP_CLOSURE"
  PROVE  CodeInv'
<1>1. PICK newFn : newFn = [fn EXCEPT !.code = @ \o bytes]
  OBVIOUS
<1>2. fn \in FunctionOf
  BY DoingFacts, CurrentFacts
<1>3. newFn.code = fn.code \o bytes /\ newFn.functions = fn.functions
  BY <1>1, <1>2 DEF FunctionOf
<1>4. Rewrite(newFn) /\ Advance /\ UNCHANGED <<emit, comps>>
  BY <1>1 DEF EmitBytes, steady
<1> QED BY <1>3, <1>4, PlainGood

(* What compile_binary and the others emit is a single byte.               *)
LEMMA OperationSize ==
  ASSUME CInv, Doing("emit")
  PROVE  /\ Operation \in Emitted /\ Size(Operation) = 1
         /\ Operation \notin Jumps /\ Operation # "OP_CLOSURE"
<1>1. /\ item \in Items /\ item.op = "emit" /\ calls # <<>>
      /\ current.proc \notin Placing => item \in PlainItems
      /\ current.proc \in Placing => PlacesOK(current.proc, current.pc, "emit")
  BY DoingFacts
<1>2. PICK it \in Items : it = item
  BY <1>1
<1>3. /\ it.arg \in {"OP_RETURN", "OP_PRINT", "OP_FIRST", "OP_SECOND", "OP_TUPLE",
                     "bool", "operator"}
      /\ it \in PlainItems => it.arg # "operator"
  BY <1>1, <1>2, ItemArgs
<1>4. CASE it.arg = "operator"
  <2>1. current.proc = "compile_binary" /\ current.pc = 9
    BY <1>1, <1>2, <1>3, <1>4 DEF PlacesOK, Placing
  <2>2. ActivationOK(current, emit)
    BY <1>1, CurrentFacts
  <2>3. Matches(Operators, current.token.text) # {}
    BY <2>1, <2>2 DEF ActivationOK
  <2>4. PICK i : i = CHOOSE j \in Matches(Operators, current.token.text) : TRUE
    OBVIOUS
  <2>5. i \in DOMAIN Operators
    BY <2>3, <2>4 DEF Matches
  <2>6. Operation = Operators[i][2]
    BY <1>2, <1>4, <2>4 DEF Operation
  <2>7. Len(Operators) = 13 /\ DOMAIN Operators = 1..13
    BY DEF Operators
  <2>8. i \in {1, 2, 3, 4, 5, 6, 7, 8, 9, 10, 11, 12, 13}
    BY <2>5, <2>7
  <2>9. Operators[i][2] \in {"OP_ADD", "OP_SUB", "OP_MUL", "OP_DIV", "OP_REM", "OP_EQ",
                             "OP_NEQ", "OP_LTE", "OP_LT", "OP_GTE", "OP_GT", "OP_AND",
                             "OP_OR"}
    BY <2>8 DEF Operators
  <2> QED BY <2>6, <2>9, OperationIs DEF Size, WordOps, ByteOps, Jumps
<1>5. CASE it.arg = "bool"
  <2>1. Operation \in {"OP_FALSE", "OP_TRUE"}
    BY <1>2, <1>5 DEF Operation
  <2> QED BY <2>1, OperationIs DEF Size, WordOps, ByteOps, Jumps
<1>6. CASE it.arg \notin {"operator", "bool"}
  <2>1. Operation = it.arg
    BY <1>2, <1>6 DEF Operation
  <2> QED BY <1>3, <1>6, <2>1, OperationIs DEF Size, WordOps, ByteOps, Jumps
<1> QED BY <1>4, <1>5, <1>6

LEMMA add_constantGood ==
  ASSUME CInv, CodeInv, NEW op, Doing(op),
         op \notin {"jump_if_false", "jump_over", "patch_jump"},
         NEW v, NEW newStrs, add_constant(v, newStrs)
  PROVE  CodeInv'
<1>1. CASE Fail("too many constants")
  BY <1>1, StopGood
<1>2. CASE ~(Len(fn.constants) > UINT8_MAX)
  <2>1. PICK n : n = Len(fn.constants)
    OBVIOUS
  <2>2. PICK bytes : bytes = <<OpCode("OP_CONSTANT"), n>>
    OBVIOUS
  <2>3. PICK newFn : newFn = [fn EXCEPT !.constants = Append(@, v), !.code = @ \o bytes]
    OBVIOUS
  <2>4. fn \in FunctionOf
    BY DoingFacts, CurrentFacts
  <2>5. n \in 0..UINT8_MAX
    <3>1. n \in Nat
      BY <2>1, <2>4, LenProperties DEF FunctionOf
    <3> QED BY <1>2, <2>1, <3>1, Bytes
  <2>6. "OP_CONSTANT" \in Emitted
    BY DEF Emitted
  <2>7. OpCode("OP_CONSTANT") \in 0..UINT8_MAX /\ OpNames[OpCode("OP_CONSTANT") + 1] = "OP_CONSTANT"
    BY <2>6, EmittedCodes, CodesNamed
  <2>8. bytes \in Seq(0..UINT8_MAX) /\ Len(bytes) = 2 /\ bytes[1] = OpCode("OP_CONSTANT")
    BY <2>2, <2>5, <2>7, ByteSeqs
  <2>9. Size("OP_CONSTANT") = 2
    BY DEF Size, WordOps, ByteOps
  <2>10. newFn.code = fn.code \o bytes /\ newFn.functions = fn.functions
    BY <2>3, <2>4 DEF FunctionOf
  <2>11. Rewrite(newFn) /\ Advance /\ UNCHANGED <<emit, comps>>
    BY <1>2, <2>1, <2>2, <2>3 DEF add_constant, steady
  <2>12. "OP_CONSTANT" \notin Jumps
    BY DEF Jumps
  <2>13. bytes \in Seq(Byte)
    BY <2>8 DEF Byte
  <2> QED BY <2>7, <2>8, <2>9, <2>10, <2>11, <2>12, <2>13, PlainGood
<1>3. CASE Len(fn.constants) > UINT8_MAX
  BY <1>1, <1>3 DEF add_constant
<1> QED BY <1>2, <1>3

LEMMA AddingGood ==
  ASSUME CInv, CodeInv,
         chunk_emit_byte \/ emit_int \/ emit_str \/ emit_call \/ set_arity
  PROVE  CodeInv'
<1>2. CASE chunk_emit_byte
  <2>1. Doing("emit")
    BY <1>2 DEF chunk_emit_byte
  <2>2. PICK name : name = Operation
    OBVIOUS
  <2>3. /\ name \in Emitted /\ Size(name) = 1 /\ name \notin Jumps /\ name # "OP_CLOSURE"
        /\ OpCode(name) \in 0..UINT8_MAX /\ OpNames[OpCode(name) + 1] = name
    BY <2>1, <2>2, OperationSize, EmittedCodes, CodesNamed
  <2>4. PICK bytes : bytes = <<OpCode(name)>>
    OBVIOUS
  <2>5. bytes \in Seq(0..UINT8_MAX) /\ Len(bytes) = 1 /\ bytes[1] = OpCode(name)
    BY <2>3, <2>4, ByteSeqs
  <2>6. EmitBytes(bytes) => CodeInv'
    BY <2>1, <2>3, <2>5, EmitBytesGood DEF Byte
  <2>7. Emission(EmitBytes(bytes))
    BY <1>2, <2>2, <2>4 DEF chunk_emit_byte
  <2> QED BY <2>1, <2>6, <2>7, EmissionGood
<1>3. CASE emit_int
  <2>1. Doing("emit_int")
    BY <1>3 DEF emit_int
  <2>2. PICK data : data = current.token.num
    OBVIOUS
  <2>3. data \in Nat
    BY <2>1, <2>2, DoingFacts, CurrentFacts DEF ActivationOf, TokenOf
  <2>4. PICK bytes : bytes = <<OpCode("OP_INT")>> \o WordBytes(data)
    OBVIOUS
  <2>5. ASSUME data <= UINT16_MAX, EmitBytes(bytes) PROVE CodeInv'
    <3>1. "OP_INT" \in Emitted /\ Size("OP_INT") = 3 /\ "OP_INT" \notin Jumps
      BY DEF Emitted, Size, WordOps, Jumps
    <3>2. PICK low \in 0..UINT8_MAX, high \in 0..UINT8_MAX : WordBytes(data) = <<low, high>>
      BY <2>3, <2>5, WordFits DEF WordBytes
    <3>3. PICK code \in 0..UINT8_MAX : code = OpCode("OP_INT") /\ OpNames[code + 1] = "OP_INT"
      BY <3>1, EmittedCodes, CodesNamed
    <3>4. PICK one, two : one = <<code>> /\ two = <<low, high>> /\ bytes = one \o two
      BY <2>4, <3>2, <3>3
    <3>5. /\ one \in Seq(0..UINT8_MAX) /\ Len(one) = 1 /\ one[1] = code
          /\ two \in Seq(0..UINT8_MAX) /\ Len(two) = 2
      BY <3>4, ByteSeqs
    <3>6. /\ one \o two \in Seq(0..UINT8_MAX) /\ Len(one \o two) = 1 + 2
          /\ (one \o two)[1] = one[1]
      <4>1. PICK S : S = 0..UINT8_MAX
        OBVIOUS
      <4>2. one \in Seq(S) /\ two \in Seq(S)
        BY <3>5, <4>1
      <4>3. /\ one \o two \in Seq(S) /\ Len(one \o two) = Len(one) + Len(two)
            /\ \A i \in 1..(Len(one) + Len(two)) :
                 (one \o two)[i] = IF i <= Len(one) THEN one[i] ELSE two[i - Len(one)]
        BY <4>2, ConcatProperties
      <4> QED BY <3>5, <4>1, <4>3
    <3>7. bytes \in Seq(0..UINT8_MAX) /\ Len(bytes) = 3 /\ bytes[1] = code
      BY <3>4, <3>5, <3>6
    <3> QED BY <2>1, <2>5, <3>1, <3>3, <3>7, EmitBytesGood DEF Byte
  <2>6. Fail("integer overflow") => CodeInv'
    BY StopGood
  <2>7. add_constant(int_value(data), strs) => CodeInv'
    BY <2>1, add_constantGood
  <2>8. data > UINT16_MAX \/ data <= UINT16_MAX
    <3>1. UINT16_MAX \in Int
      BY Bytes DEF UINT16_MAX
    <3> QED BY <2>3, <3>1
  <2>9. (IF data > INT_MAX THEN Fail("integer overflow")
         ELSE IF data <= UINT16_MAX THEN EmitBytes(bytes)
              ELSE add_constant(int_value(data), strs)) => CodeInv'
    BY <2>5, <2>6, <2>7
  <2>10. Emission(IF data > INT_MAX THEN Fail("integer overflow")
                  ELSE IF data <= UINT16_MAX THEN EmitBytes(bytes)
                       ELSE add_constant(int_value(data), strs))
    BY <1>3, <2>2, <2>4 DEF emit_int
  <2> QED BY <2>1, <2>9, <2>10, EmissionGood
<1>4. CASE emit_str
  <2>1. Doing("emit_str")
    BY <1>4 DEF emit_str
  <2> QED BY <1>4, <2>1, add_constantGood, EmissionGood DEF emit_str
<1>5. CASE emit_call
  <2>1. Doing("emit_call")
    BY <1>5 DEF emit_call
  <2>2. PICK name : name = IF current.isTail THEN "OP_TAIL_CALL" ELSE "OP_CALL"
    OBVIOUS
  <2>3. /\ name \in Emitted /\ Size(name) = 2 /\ name \notin Jumps /\ name # "OP_CLOSURE"
    BY <2>2 DEF Emitted, Size, WordOps, ByteOps, Jumps
  <2>4. OpCode(name) \in 0..UINT8_MAX /\ OpNames[OpCode(name) + 1] = name
    BY <2>3, EmittedCodes, CodesNamed
  <2>5. current.count \in 0..UINT8_MAX
    BY <2>1, DoingFacts, CurrentFacts DEF ActivationOf
  <2>6. PICK bytes : bytes = <<OpCode(name), current.count>>
    OBVIOUS
  <2>7. bytes \in Seq(0..UINT8_MAX) /\ Len(bytes) = 2 /\ bytes[1] = OpCode(name)
    BY <2>4, <2>5, <2>6, ByteSeqs
  <2>8. EmitBytes(bytes) => CodeInv'
    BY <2>1, <2>3, <2>4, <2>7, EmitBytesGood DEF Byte
  <2>9. Emission(EmitBytes(bytes))
    BY <1>5, <2>2, <2>6 DEF emit_call
  <2> QED BY <2>1, <2>8, <2>9, EmissionGood
<1>7. CASE set_arity
  <2>1. Doing("set_arity") /\ calls # <<>>
    BY <1>7 DEF set_arity, Doing
  <2>2. PICK newFn : newFn = [fn EXCEPT !.arity = current.count]
    OBVIOUS
  <2>3. newFn.code = fn.code /\ newFn.functions = fn.functions
    BY <2>1, <2>2, CurrentFacts DEF FunctionOf
  <2>4. Rewrite(newFn) /\ Advance /\ UNCHANGED <<emit, comps>>
    BY <1>7, <2>2 DEF set_arity, steady
  <2>5. JumpsHeld' /\ \A f : Pending(f)' = Pending(f)
    BY <2>1, <2>4, AdvanceHeld DEF CodeInv
  <2>6. GoodCode(newFn, Pending(comp.fn))
    BY <2>1, <2>3, FunctionFacts, SameGood
  <2> QED BY <2>1, <2>4, <2>5, <2>6, RewriteGood
<1> QED BY <1>2, <1>3, <1>4, <1>5, <1>7

(* What becomes of the pending jumps when the running function remembers   *)
(* another one, or none, in the place of its own.                          *)
LEMMA JumpHeld ==
  ASSUME CInv, JumpsHeld, calls # <<>>, current.proc = "compile_if", emit' = emit,
         NEW next, NEW act, Become(act), act.comp = current.comp, act.jump = next,
         HeldBy(act, emit), comps' = comps
  PROVE  /\ JumpsHeld'
         /\ \A f : f # comp.fn => Pending(f)' = Pending(f)
         /\ \A f : f = comp.fn =>
              /\ Pending(f)' \subseteq
                   Pending(f) \cup (IF next = NoJump THEN {} ELSE {next - 1})
              /\ next # NoJump => next - 1 \in Pending(f)'
              /\ Pending(f) \ (IF current.jump = NoJump THEN {} ELSE {current.jump - 1})
                   \subseteq Pending(f)'
<1>1. /\ depth \in Nat \ {0} /\ current = calls[depth] /\ current \in ActivationOf
      /\ Len(comps) = Top(current) /\ comp = comps[Len(comps)]
      /\ Top(current) = current.comp + Opened(current)
      /\ DOMAIN calls = 1..Len(calls) /\ depth = Len(calls)
  BY CurrentFacts, LenProperties DEF CInv, CallsInv
<1>2. comps[current.comp].fn = comp.fn
  <2>1. Opened(current) = 0 /\ current.comp \in Nat
    BY <1>1 DEF Opened, ActivationOf
  <2>2. current.comp = Len(comps)
    BY <1>1, <2>1
  <2> QED BY <1>1, <2>2
<1>3. depth \in DOMAIN calls
  BY <1>1
<1>4. /\ DOMAIN calls' = DOMAIN calls
      /\ \A i \in DOMAIN calls : calls'[i] = IF i = depth THEN act ELSE calls[i]
  BY <1>3 DEF Become
<1>5. \A i \in DOMAIN calls : calls'[i].comp = calls[i].comp
  BY <1>1, <1>4
<1>6. JumpsHeld'
  BY <1>4 DEF JumpsHeld
<1>7. ASSUME NEW f
      PROVE  Pending(f)' = {calls'[i].jump - 1 : i \in
               {i \in DOMAIN calls : calls'[i].jump # NoJump /\ comps[calls[i].comp].fn = f}}
  BY <1>4, <1>5 DEF Pending
<1>8. ASSUME NEW f
      PROVE  \A e : e \in Pending(f)' <=>
               \E i \in DOMAIN calls : /\ calls'[i].jump # NoJump
                                       /\ comps[calls[i].comp].fn = f
                                       /\ e = calls'[i].jump - 1
  BY <1>7, Zenon
<1>9. ASSUME NEW f
      PROVE  \A e : e \in Pending(f) <=>
               \E i \in DOMAIN calls : /\ calls[i].jump # NoJump
                                       /\ comps[calls[i].comp].fn = f
                                       /\ e = calls[i].jump - 1
  BY Zenon DEF Pending
<1>10. ASSUME NEW f, f # comp.fn PROVE Pending(f)' = Pending(f)
  <2>1. \A e : e \in Pending(f)' <=> e \in Pending(f)
    BY <1>1, <1>2, <1>4, <1>8, <1>9, <1>10
  <2> QED BY <2>1
<1>11. ASSUME NEW f, f = comp.fn
       PROVE  /\ Pending(f)' \subseteq
                   Pending(f) \cup (IF next = NoJump THEN {} ELSE {next - 1})
              /\ next # NoJump => next - 1 \in Pending(f)'
              /\ Pending(f) \ (IF current.jump = NoJump THEN {} ELSE {current.jump - 1})
                   \subseteq Pending(f)'
  <2>1. ASSUME NEW e \in Pending(f)'
        PROVE  e \in Pending(f) \cup (IF next = NoJump THEN {} ELSE {next - 1})
    <3>1. PICK i \in DOMAIN calls : /\ calls'[i].jump # NoJump
                                    /\ comps[calls[i].comp].fn = f
                                    /\ e = calls'[i].jump - 1
      BY <1>8
    <3> QED BY <1>4, <1>9, <3>1
  <2>2. next # NoJump => next - 1 \in Pending(f)'
    BY <1>1, <1>2, <1>3, <1>4, <1>8, <1>11
  <2>3. ASSUME NEW e \in Pending(f),
               e \notin (IF current.jump = NoJump THEN {} ELSE {current.jump - 1})
        PROVE  e \in Pending(f)'
    <3>1. PICK i \in DOMAIN calls : /\ calls[i].jump # NoJump
                                    /\ comps[calls[i].comp].fn = f
                                    /\ e = calls[i].jump - 1
      BY <1>9
    <3>2. i # depth
      BY <1>1, <2>3, <3>1
    <3> QED BY <1>4, <1>8, <3>1, <3>2
  <2> QED BY <2>1, <2>2, <2>3
<1> QED BY <1>6, <1>10, <1>11

(* Where the words of an if are emitted and patched.                       *)
LEMMA JumpPlace ==
  ASSUME CInv, JumpsHeld, emit,
         NEW op \in {"jump_if_false", "jump_over", "patch_jump"}, Doing(op)
  PROVE  /\ calls # <<>> /\ current \in ActivationOf /\ current.proc = "compile_if"
         /\ current.pc = CASE op = "jump_if_false" -> 3
                           [] op = "jump_over" -> 6
                           [] op = "patch_jump" -> 9
         /\ op = "jump_if_false" => current.jump = NoJump
         /\ op # "jump_if_false" =>
              current.jump \in Nat /\ current.jump - 1 \in Pending(comp.fn)
<1>1. /\ calls # <<>> /\ current.proc \in DOMAIN Script
      /\ current.proc \notin Placing => op \notin PlacedOps
      /\ current.proc \in Placing => PlacesOK(current.proc, current.pc, op)
      /\ current \in ActivationOf
  BY DoingFacts, CurrentFacts
<1>2. current.proc = "compile_if"
  BY <1>1 DEF PlacesOK, Placing, PlacedOps
<1>3. current.pc = CASE op = "jump_if_false" -> 3
                     [] op = "jump_over" -> 6
                     [] op = "patch_jump" -> 9
  BY <1>1, <1>2 DEF PlacesOK, Placing
<1>4. op = "jump_if_false" => current.jump = NoJump
  <2>1. depth \in DOMAIN calls /\ current = calls[depth]
    BY <1>1, CurrentActive
  <2> QED BY <1>3, <2>1 DEF JumpsHeld, HeldBy
<1> QED BY <1>1, <1>2, <1>3, <1>4, PendingHere

(* A jump's instruction.                                                   *)
LEMMA JumpAdded ==
  ASSUME CInv, CodeInv, calls # <<>>, NEW name \in Jumps, NEW newFn,
         newFn.code = fn.code \o emit_jump(name), newFn.functions = fn.functions
  PROVE  /\ newFn.code \in Seq(Byte)
         /\ GoodCode(newFn, Pending(comp.fn) \cup {Len(fn.code)})
<1>1. /\ fn.code \in Seq(Byte) /\ GoodCode(fn, Pending(comp.fn))
  BY FunctionFacts
<1>2. PICK bytes : bytes = emit_jump(name)
  OBVIOUS
<1>3. /\ OpCode(name) \in 0..UINT8_MAX /\ OpNames[OpCode(name) + 1] = name
      /\ Size(name) = 3 /\ name # "OP_CLOSURE"
  BY EmittedCodes, CodesNamed DEF Jumps, Emitted, Size, WordOps
<1>4. bytes \in Seq(Byte) /\ Len(bytes) = 3 /\ bytes[1] = OpCode(name)
  BY <1>2, JumpBytes DEF Jumps, Byte, emit_jump
<1>5. Added(newFn, fn, bytes)
  BY <1>1, <1>2, <1>3, <1>4 DEF Added
<1>6. GoodCode(newFn, Pending(comp.fn) \cup {Len(fn.code)})
  BY <1>1, <1>3, <1>4, <1>5, AddedGood
<1>7. newFn.code \in Seq(Byte)
  BY <1>1, <1>2, <1>4, ConcatProperties
<1> QED BY <1>6, <1>7

LEMMA jump_if_falseGood ==
  ASSUME CInv, CodeInv, jump_if_false
  PROVE  CodeInv'
<1>1. Doing("jump_if_false")
  BY DEF jump_if_false
<1>2. ASSUME emit,
             Rewrite([fn EXCEPT !.code = @ \o emit_jump("OP_JUMP_IF_FALSE")]),
             Become([current EXCEPT !.pc = @ + 1, !.jump = Len(fn.code) + 1]),
             UNCHANGED <<steady, pos, comps, strs>>
      PROVE  CodeInv'
  <2>1. PICK newFn : newFn = [fn EXCEPT !.code = @ \o emit_jump("OP_JUMP_IF_FALSE")]
    OBVIOUS
  <2>2. PICK act : act = [current EXCEPT !.pc = @ + 1, !.jump = Len(fn.code) + 1]
    OBVIOUS
  <2>3. /\ calls # <<>> /\ current \in ActivationOf /\ current.proc = "compile_if"
        /\ current.pc = 3 /\ current.jump = NoJump
    BY <1>1, <1>2, JumpPlace DEF CodeInv
  <2>4. fn \in FunctionOf
    BY <2>3, CurrentFacts
  <2>5. newFn.code = fn.code \o emit_jump("OP_JUMP_IF_FALSE") /\ newFn.functions = fn.functions
    BY <2>1, <2>4 DEF FunctionOf
  <2>6. PICK n \in Nat : n = Len(fn.code)
    BY <2>3, FunctionFacts
  <2>7. GoodCode(newFn, Pending(comp.fn) \cup {n})
    BY <2>3, <2>5, <2>6, JumpAdded DEF Jumps
  <2>8. /\ act.proc = current.proc /\ act.comp = current.comp /\ act.pc = 4
        /\ act.jump = n + 1
    BY <2>2, <2>3, <2>6 DEF ActivationOf
  <2>9. n + 1 # NoJump /\ (n + 1) - 1 = n
    BY DEF NoJump
  <2>10. HeldBy(act, emit)
    BY <1>2, <2>3, <2>8 DEF HeldBy
  <2>11. Become(act) /\ emit' = emit /\ comps' = comps
    BY <1>2, <2>2 DEF steady
  <2>12. /\ JumpsHeld'
         /\ \A f : f # comp.fn => Pending(f)' = Pending(f)
         /\ \A f : f = comp.fn => Pending(f)' = Pending(f) \cup {n}
    <3>1. PICK next : next = n + 1
      OBVIOUS
    <3>2. /\ JumpsHeld'
          /\ \A f : f # comp.fn => Pending(f)' = Pending(f)
          /\ \A f : f = comp.fn =>
               /\ Pending(f)' \subseteq Pending(f) \cup {next - 1}
               /\ next - 1 \in Pending(f)'
               /\ Pending(f) \subseteq Pending(f)'
      BY <2>3, <2>8, <2>9, <2>10, <2>11, <3>1, JumpHeld DEF CodeInv
    <3> QED BY <2>9, <3>1, <3>2
  <2>13. \A f : f = comp.fn => GoodCode(newFn, Pending(f)')
    BY <2>7, <2>12
  <2>14. Rewrite(newFn)
    BY <1>2, <2>1
  <2> QED BY <2>3, <2>12, <2>13, <2>14, RewriteGood
<1> QED BY <1>1, <1>2, EmissionGood DEF jump_if_false

(* The code with its pending jump patched.                                 *)
LEMMA PatchesGood ==
  ASSUME CInv, CodeInv, emit, NEW op \in {"jump_over", "patch_jump"}, Doing(op),
         NEW mid, mid.code \in Seq(Byte), mid.functions = fn.functions,
         NEW next, NEW new, new = IF next = NoJump THEN {} ELSE {next - 1},
         next # NoJump => op = "jump_over",
         GoodCode(mid, Pending(comp.fn) \cup new), Patch(mid.code, next)
  PROVE  CodeInv'
<1>1. CASE Fail("too much code to jump over")
  BY <1>1, StopGood
<1>2. CASE ~(Len(mid.code) > UINT16_MAX)
  <2>1. /\ calls # <<>> /\ current \in ActivationOf /\ current.proc = "compile_if"
        /\ current.pc = IF op = "jump_over" THEN 6 ELSE 9
        /\ current.jump \in Nat /\ current.jump - 1 \in Pending(comp.fn)
    BY JumpPlace DEF CodeInv
  <2>2. PICK offset \in Nat, j \in Int : offset = current.jump /\ j = offset - 1
    BY <2>1
  <2>3. PICK newFn : newFn = [fn EXCEPT !.code = patch_jump(mid.code, offset)]
    OBVIOUS
  <2>4. PICK act : act = [current EXCEPT !.pc = @ + 1, !.jump = next]
    OBVIOUS
  <2>5. Rewrite(newFn) /\ Become(act) /\ emit' = emit /\ comps' = comps
    BY <1>2, <2>2, <2>3, <2>4 DEF Patch, steady
  <2>6. fn \in FunctionOf
    BY <2>1, CurrentFacts
  <2>7. newFn.code = patch_jump(mid.code, offset) /\ newFn.functions = mid.functions
    BY <2>3, <2>6 DEF FunctionOf
  <2>8. /\ act.proc = current.proc /\ act.comp = current.comp
        /\ act.pc = current.pc + 1 /\ act.jump = next
    BY <2>1, <2>4 DEF ActivationOf
  <2>9. HeldBy(act, emit)
    BY <2>1, <2>8 DEF HeldBy
  <2>10. Len(mid.code) <= UINT16_MAX
    <3>1. Len(mid.code) \in Nat /\ UINT16_MAX \in Int
      BY LenProperties, Bytes DEF UINT16_MAX
    <3> QED BY <1>2, <3>1
  <2>11. current.jump # NoJump
    BY <2>1 DEF NoJump
  <2>12. /\ JumpsHeld'
         /\ \A f : f # comp.fn => Pending(f)' = Pending(f)
         /\ \A f : f = comp.fn =>
              /\ Pending(f)' \subseteq Pending(f) \cup new
              /\ (Pending(f) \cup new) \ {j} \subseteq Pending(f)'
    <3>1. /\ JumpsHeld'
          /\ \A f : f # comp.fn => Pending(f)' = Pending(f)
          /\ \A f : f = comp.fn =>
               /\ Pending(f)' \subseteq
                    Pending(f) \cup (IF next = NoJump THEN {} ELSE {next - 1})
               /\ next # NoJump => next - 1 \in Pending(f)'
               /\ Pending(f) \ (IF current.jump = NoJump THEN {} ELSE {current.jump - 1})
                    \subseteq Pending(f)'
      BY <2>1, <2>5, <2>8, <2>9, JumpHeld DEF CodeInv
    <3> QED BY <2>2, <2>11, <3>1
  <2>13. ASSUME NEW f, f = comp.fn PROVE GoodCode(newFn, Pending(f)')
    <3>1. PICK P, Q : P = Pending(f) \cup new /\ Q = Pending(f)'
      OBVIOUS
    <3>2. GoodCode(mid, P) /\ j \in P /\ offset = j + 1
      BY <2>1, <2>2, <2>13, <3>1
    <3>3. P \ {j} \subseteq Q /\ Q \subseteq P
      BY <2>12, <2>13, <3>1
    <3>4. GoodCode(newFn, Q)
      BY <2>7, <2>10, <3>2, <3>3, PatchGood
    <3> QED BY <3>1, <3>4
  <2> QED BY <2>1, <2>5, <2>12, <2>13, RewriteGood
<1>3. CASE Len(mid.code) > UINT16_MAX
  BY <1>1, <1>3 DEF Patch
<1> QED BY <1>2, <1>3

LEMMA JumpsGood ==
  ASSUME CInv, CodeInv, jump_over \/ jump_target
  PROVE  CodeInv'
<1>1. CASE jump_over
  <2>1. Doing("jump_over") /\ calls # <<>>
    BY <1>1 DEF jump_over, Doing
  <2>2. ASSUME emit, Patch(fn.code \o emit_jump("OP_JUMP"), Len(fn.code) + 1)
        PROVE  CodeInv'
    <3>1. PICK mid : mid = [fn EXCEPT !.code = @ \o emit_jump("OP_JUMP")]
      OBVIOUS
    <3>2. fn \in FunctionOf
      BY <2>1, CurrentFacts
    <3>3. mid.code = fn.code \o emit_jump("OP_JUMP") /\ mid.functions = fn.functions
      BY <3>1, <3>2 DEF FunctionOf
    <3>4. PICK n \in Nat : n = Len(fn.code)
      BY <2>1, FunctionFacts
    <3>5. mid.code \in Seq(Byte) /\ GoodCode(mid, Pending(comp.fn) \cup {n})
      BY <2>1, <3>3, <3>4, JumpAdded DEF Jumps
    <3>6. n + 1 # NoJump /\ (n + 1) - 1 = n
      BY DEF NoJump
    <3>7. PICK next : next = n + 1 /\ next # NoJump /\ next - 1 = n
      BY <3>6
    <3>8. Patch(mid.code, next)
      BY <2>2, <3>3, <3>4, <3>7
    <3>9. PICK new : new = {n} /\ new = IF next = NoJump THEN {} ELSE {next - 1}
      BY <3>7
    <3>10. GoodCode(mid, Pending(comp.fn) \cup new)
      BY <3>5, <3>9
    <3> QED BY <2>1, <2>2, <3>3, <3>5, <3>8, <3>9, <3>10, PatchesGood
  <2> QED BY <1>1, <2>1, <2>2, EmissionGood DEF jump_over
<1>2. CASE jump_target
  <2>1. Doing("patch_jump") /\ calls # <<>>
    BY <1>2 DEF jump_target, Doing
  <2>2. ASSUME emit, Patch(fn.code, NoJump) PROVE CodeInv'
    <3>1. fn.code \in Seq(Byte) /\ GoodCode(fn, Pending(comp.fn))
      BY <2>1, FunctionFacts
    <3>2. PICK mid : mid = fn
      OBVIOUS
    <3>3. Pending(comp.fn) \cup {} = Pending(comp.fn)
      OBVIOUS
    <3>4. PICK next, new : next = NoJump /\ new = {} /\ new = IF next = NoJump THEN {} ELSE {next - 1}
      OBVIOUS
    <3>5. GoodCode(mid, Pending(comp.fn) \cup new)
      BY <3>1, <3>2, <3>3, <3>4
    <3> QED BY <2>1, <2>2, <3>1, <3>2, <3>4, <3>5, PatchesGood
  <2> QED BY <1>2, <2>1, <2>2, EmissionGood DEF jump_target
<1> QED BY <1>1, <1>2

-----------------------------------------------------------------------------
(* Functions and variables.                                                *)

LEMMA ActiveRecords ==
  ASSUME CInv, NEW i \in DOMAIN calls
  PROVE  calls[i].comp \in 1..Len(comps)
<1>1. /\ calls \in Seq(ActivationOf) /\ DOMAIN calls = 1..Len(calls) /\ Len(calls) \in Nat
  BY LenProperties DEF CInv, CallsInv
<1>2. calls # <<>> /\ depth = Len(calls) /\ current = calls[depth]
  <2>1. calls # <<>>
    BY <1>1, EmptySeq
  <2> QED BY <2>1, CurrentFacts
<1>3. /\ Top(current) = current.comp + Opened(current) /\ Opened(current) \in {0, 1}
      /\ Len(comps) = Top(current) /\ Len(comps) \in Nat
      /\ current \in ActivationOf
  BY <1>2, CurrentFacts
<1>4. calls[i] \in ActivationOf
  BY <1>1
<1>5. calls[i].comp \in Nat \ {0} /\ Opened(calls[i]) \in {0, 1} /\ current.comp \in Nat
  BY <1>3, <1>4 DEF ActivationOf, Opened
<1>6. CASE i = depth
  BY <1>2, <1>3, <1>5, <1>6
<1>7. CASE i # depth
  <2>1. i \in 1..Len(calls) /\ depth \in 1..Len(calls) /\ i < depth
    BY <1>1, <1>2, <1>7
  <2>2. Top(calls[i]) <= calls[depth].comp
    BY <2>1 DEF CInv, CallsInv
  <2>3. calls[i].comp <= current.comp
    BY <1>2, <1>5, <2>2 DEF Top
  <2> QED BY <1>3, <1>5, <2>3
<1> QED BY <1>6, <1>7

LEMMA open_functionGood ==
  ASSUME CInv, CodeInv, open_function
  PROVE  CodeInv'
<1>1. Doing("open_function")
  BY DEF open_function
<1>2. CASE OutOfMemory
  BY <1>2, StopGood
<1>3. CASE /\ functions' = Append(functions, NewFunction)
           /\ comps' = Append(comps, compiler_init(Len(functions) + 1))
           /\ Advance
           /\ UNCHANGED <<steady, pos, strs>>
  <2>1. PICK n \in Nat, m \in Nat :
          /\ n = Len(functions) /\ DOMAIN functions = 1..n
          /\ m = Len(comps) /\ DOMAIN comps = 1..m
    BY RecordFacts
  <2>2. PICK record : record = compiler_init(n + 1)
    OBVIOUS
  <2>3. /\ DOMAIN functions' = 1..(n + 1) /\ functions'[n + 1] = NewFunction
        /\ \A f \in 1..n : functions'[f] = functions[f]
    <3>1. PICK S : S = FunctionOf \cup {NewFunction}
      OBVIOUS
    <3>2. functions \in Seq(S) /\ NewFunction \in S
      BY <3>1, RecordFacts, SeqMonotonic
    <3>3. /\ functions' \in Seq(S) /\ Len(functions') = n + 1
          /\ functions'[n + 1] = NewFunction
          /\ \A f \in 1..n : functions'[f] = functions[f]
      BY <1>3, <2>1, <3>2, AppendProperties
    <3> QED BY <3>3, LenProperties
  <2>4. \A k \in 1..m : comps'[k] = comps[k]
    <3>1. PICK S : S = CompilerOf \cup {record}
      OBVIOUS
    <3>2. comps \in Seq(S) /\ record \in S
      BY <3>1, RecordFacts, SeqMonotonic
    <3> QED BY <1>3, <2>1, <2>2, <3>2, AppendProperties
  <2>5. \A i \in DOMAIN calls : calls[i].comp \in 1..m
    BY <2>1, ActiveRecords
  <2>6. emit' = emit
    BY <1>3 DEF steady
  <2>7. JumpsHeld' /\ \A f : Pending(f)' = Pending(f)
    BY <1>1, <1>3, <2>4, <2>5, <2>6, AdvanceHeld DEF CodeInv
  <2>8. Pending(n + 1) = {}
    <3>1. \A k \in 1..m : comps[k].fn \in 1..n
      BY <2>1, RecordFacts
    <3>2. \A i \in DOMAIN calls : comps[calls[i].comp].fn # n + 1
      BY <2>5, <3>1
    <3> QED BY <3>2 DEF Pending
  <2>9. ASSUME NEW f \in 1..(n + 1) PROVE GoodCode(functions'[f], Pending(f)')
    <3>1. CASE f = n + 1
      BY <2>3, <2>7, <2>8, <3>1, EmptyGood
    <3>2. CASE f \in 1..n
      BY <2>1, <2>3, <2>7, <3>2 DEF CodeInv
    <3> QED BY <3>1, <3>2
  <2> QED BY <2>3, <2>7, <2>9 DEF CodeInv
<1> QED BY <1>2, <1>3 DEF open_function

(* The child gets its OP_RETURN and the parent the closure of the child.   *)
LEMMA ClosedGood ==
  ASSUME CInv, CodeInv,
         NEW child \in DOMAIN functions, NEW parent \in DOMAIN functions, parent # child,
         functions' = [functions EXCEPT
                         ![child].code = Append(@, OpCode("OP_RETURN")),
                         ![parent] = WithChild(@, child)]
  PROVE  \A f \in DOMAIN functions : GoodCode(functions'[f], Pending(f))
<1>1. ASSUME NEW f \in DOMAIN functions
      PROVE  /\ functions[f] \in FunctionOf
             /\ functions[f].code \in Seq(Byte) /\ functions[f].functions \in Seq(Nat)
             /\ Len(functions[f].functions) \in Nat
             /\ GoodCode(functions[f], Pending(f))
  <2>1. functions[f] \in FunctionOf
    BY RecordFacts
  <2>2. functions[f].functions \in Seq(Nat)
    BY <2>1 DEF FunctionOf
  <2> QED BY <2>1, <2>2, LenProperties DEF FunctionOf, Byte, CodeInv
<1>2. GoodCode(functions'[child], Pending(child))
  <2>1. PICK old, new : old = functions[child] /\ new = functions'[child]
    OBVIOUS
  <2>2. PICK op : op = OpCode("OP_RETURN")
    OBVIOUS
  <2>3. new.code = Append(old.code, op) /\ new.functions = old.functions
    BY <1>1, <2>1, <2>2 DEF FunctionOf
  <2>4. "OP_RETURN" \in Emitted /\ "OP_RETURN" \notin Jumps /\ Size("OP_RETURN") = 1
    BY DEF Emitted, Jumps, Size, WordOps, ByteOps
  <2>5. op \in 0..UINT8_MAX /\ OpNames[op + 1] = "OP_RETURN"
    BY <2>2, <2>4, EmittedCodes, CodesNamed
  <2>6. PICK bytes : bytes = <<op>>
    OBVIOUS
  <2>7. bytes \in Seq(Byte) /\ Len(bytes) = 1 /\ bytes[1] = op
    BY <2>5, <2>6 DEF Byte
  <2>8. PICK code \in Seq(Byte) : code = old.code
    BY <1>1, <2>1
  <2>9. Append(code, op) = code \o bytes
    BY <2>5, <2>6, <2>8 DEF Byte
  <2>10. Added(new, old, bytes)
    BY <1>1, <2>1, <2>3, <2>4, <2>5, <2>7, <2>8, <2>9 DEF Added
  <2> QED BY <1>1, <2>1, <2>3, <2>4, <2>5, <2>7, <2>10, AddedGood
<1>3. GoodCode(functions'[parent], Pending(parent))
  <2>1. PICK old, new : old = functions[parent] /\ new = functions'[parent]
    OBVIOUS
  <2>2. PICK op, n, number :
          op = OpCode("OP_CLOSURE") /\ n = Len(old.functions)
            /\ number = n % (UINT8_MAX + 1)
    OBVIOUS
  <2>3. new = WithChild(old, child) /\ n \in Nat
    BY <1>1, <2>1, <2>2
  <2>4. "OP_CLOSURE" \in Emitted /\ "OP_CLOSURE" \notin Jumps /\ Size("OP_CLOSURE") = 2
    BY DEF Emitted, Jumps, Size, WordOps, ByteOps
  <2>5. /\ op \in 0..UINT8_MAX /\ OpNames[op + 1] = "OP_CLOSURE"
        /\ number \in 0..UINT8_MAX
    BY <2>2, <2>3, <2>4, EmittedCodes, CodesNamed, Bytes
  <2>6. PICK bytes : bytes = <<op, number>>
    OBVIOUS
  <2>7. /\ bytes \in Seq(0..UINT8_MAX) /\ Len(bytes) = 2
        /\ bytes[1] = op /\ bytes[2] = number
    BY <2>5, <2>6, ByteSeqs
  <2>8. new.code = old.code \o bytes /\ new.functions = Append(old.functions, child)
    BY <1>1, <2>1, <2>2, <2>3, <2>6 DEF WithChild, FunctionOf
  <2>9. Len(new.functions) = n + 1
    <3>1. child \in Nat
      BY RecordFacts
    <3> QED BY <1>1, <2>1, <2>2, <2>8, <3>1, AppendProperties
  <2>10. Added(new, old, bytes)
    BY <1>1, <2>1, <2>4, <2>5, <2>7, <2>8 DEF Added, Byte
  <2>11. Listed(old, Pending(parent)) /\ Numbered(old)
    BY <1>1, <2>1 DEF GoodCode
  <2>12. Listed(new, Pending(parent))
    BY <2>4, <2>5, <2>7, <2>10, <2>11, AddedListed
  <2>13. Numbered(new)
    BY <2>2, <2>3, <2>5, <2>7, <2>9, <2>10, <2>11, AddedClosure
  <2> QED BY <2>1, <2>12, <2>13 DEF GoodCode
<1>4. ASSUME NEW f \in DOMAIN functions, f # child, f # parent
      PROVE  GoodCode(functions'[f], Pending(f))
  <2>1. functions'[f] = functions[f]
    BY <1>4
  <2> QED BY <1>1, <2>1
<1> QED BY <1>2, <1>3, <1>4

LEMMA close_functionGood ==
  ASSUME CInv, CodeInv, close_function
  PROVE  CodeInv'
<1>1. Doing("close_function") /\ calls # <<>>
  BY DEF close_function, Doing
<1>2. PICK parent, child : parent = comps[current.comp].fn /\ child = comp.fn
  OBVIOUS
<1>3. CASE OutOfMemory
  BY <1>3, StopGood
<1>4. CASE /\ functions' =
                IF ~emit THEN functions
                ELSE [functions EXCEPT
                        ![child].code = Append(@, OpCode("OP_RETURN")),
                        ![parent] = WithChild(@, child)]
           /\ comps' = SubSeq(comps, 1, Len(comps) - 1)
           /\ Advance
           /\ UNCHANGED <<steady, pos, strs>>
  <2>1. /\ Len(comps) = Top(current) /\ Len(comps) \in Nat \ {0}
        /\ current \in ActivationOf /\ comp.fn \in 1..Len(functions)
        /\ comp = comps[Len(comps)]
    BY <1>1, CurrentFacts
  <2>2. PICK act : act = [current EXCEPT !.pc = @ + 1]
    OBVIOUS
  <2>3. /\ act \in ActivationOf /\ act.proc = current.proc /\ act.comp = current.comp
        /\ act.pc = current.pc + 1 /\ current.comp \in Nat \ {0}
    BY SMTT(40), <2>1, <2>2 DEF ActivationOf
  <2>4. PICK m \in Nat : m = current.comp /\ m > 0 /\ Len(comps) = m + 1
    <3>1. Len(comps) = current.comp + 1
      BY <1>1, <2>1, <2>3, OpenPlace
    <3> QED BY <2>3, <3>1
  <2>5. /\ comps \in Seq(CompilerOf) /\ DOMAIN functions = 1..Len(functions)
        /\ \A k \in 1..(m + 1) : comps[k].fn \in 1..Len(functions)
        /\ \A j \in 1..m : comps[j].fn # comps[m + 1].fn
    <3>1. (m + 1) - 1 = m /\ m + 1 \in 1..(m + 1)
      OBVIOUS
    <3> QED BY <2>4, <3>1, RecordFacts
  <2>6. parent \in DOMAIN functions /\ child \in DOMAIN functions /\ parent # child
    <3>1. m \in 1..m /\ m \in 1..(m + 1)
      BY <2>4
    <3>2. parent = comps[m].fn /\ child = comps[m + 1].fn
      BY <1>2, <2>1, <2>4
    <3> QED BY <1>2, <2>1, <2>5, <3>1, <3>2
  <2>7. \A k \in 1..m : comps'[k] = comps[k]
    BY <1>4, <2>4, <2>5, SubSeqProperties
  <2>8. ASSUME NEW i \in DOMAIN calls PROVE calls[i].comp \in 1..m
    <3>1. calls \in Seq(ActivationOf) /\ DOMAIN calls = 1..Len(calls) /\ Len(calls) \in Nat
          /\ depth = Len(calls) /\ current = calls[depth]
      BY <1>1, CurrentFacts, LenProperties DEF CInv, CallsInv
    <3>2. CASE i = depth
      BY <2>4, <3>1, <3>2
    <3>3. CASE i # depth
      <4>1. i \in 1..Len(calls) /\ depth \in 1..Len(calls) /\ i < depth
        BY <3>1, <3>3
      <4>2. Top(calls[i]) <= m
        BY <2>4, <3>1, <4>1 DEF CInv, CallsInv
      <4>3. calls[i].comp \in Nat \ {0} /\ Opened(calls[i]) \in {0, 1}
        <5>1. PICK a \in ActivationOf : a = calls[i]
          BY <3>1
        <5> QED BY <5>1 DEF ActivationOf, Opened
      <4> QED BY <4>2, <4>3 DEF Top
    <3> QED BY <3>2, <3>3
  <2>9. emit' = emit
    BY <1>4 DEF steady
  <2>10. JumpsHeld' /\ \A f : Pending(f)' = Pending(f)
    BY <1>1, <1>4, <2>7, <2>8, <2>9, AdvanceHeld DEF CodeInv
  <2>11. CASE ~emit
    BY <1>4, <2>10, <2>11, UnchangedGood
  <2>12. CASE emit
    <3>1. \A f \in DOMAIN functions : GoodCode(functions'[f], Pending(f))
      BY <1>4, <2>6, <2>12, ClosedGood
    <3>2. DOMAIN functions' = DOMAIN functions
      BY <1>4, <2>12
    <3> QED BY <2>10, <3>1, <3>2 DEF CodeInv
  <2> QED BY <2>11, <2>12
<1> QED BY <1>2, <1>3, <1>4 DEF close_function

LEMMA ResolvedHere ==
  ASSUME CInv, Doing("var"), NEW name, name = current.token.text,
         NEW d \in 1..Len(comps), Known(comps[d], name) # {},
         \A k \in (d + 1)..Len(comps) : Fits(comps[k])
  PROVE  Resolved(Len(comps), d, name) \in VariableOf
<1>1. current \in ActivationOf /\ Len(comps) \in Nat
  BY DoingFacts, CurrentFacts
<1>2. name \in Texts
  BY <1>1 DEF ActivationOf, TokenOf
<1>3. PICK n \in Nat : n = Len(comps)
  BY <1>1
<1>4. CASE d = n
  BY <1>2, <1>3, <1>4, ResolvedIs
<1>5. CASE d # n
  <2>1. n \in (d + 1)..Len(comps)
    BY <1>3, <1>5
  <2> QED BY <1>2, <1>3, <2>1, ResolvedIs
<1> QED BY <1>4, <1>5

(* A capture changes no code.                                              *)
LEMMA CaptureGood ==
  ASSUME CInv, CodeInv, NEW f \in DOMAIN functions, NEW d, NEW name
  PROVE  /\ GoodCode(Capturing(f, d, name), Pending(f))
         /\ Capturing(f, d, name).code = functions[f].code
         /\ functions[f].code \in Seq(Byte)
         /\ \A c : [Capturing(f, d, name) EXCEPT !.code = c].code = c
         /\ \A c : [Capturing(f, d, name) EXCEPT !.code = c].functions
                     = Capturing(f, d, name).functions
<1>1. functions[f] \in FunctionOf
  BY RecordFacts
<1>2. PICK nls : \/ Capturing(f, d, name) = functions[f]
                 \/ Capturing(f, d, name) = [functions[f] EXCEPT !.nonlocals = nls]
  BY DEF Capturing
<1>3. PICK g : g = Capturing(f, d, name)
  OBVIOUS
<1>4. /\ g.code = functions[f].code /\ g.functions = functions[f].functions
      /\ \A c : [g EXCEPT !.code = c].code = c
      /\ \A c : [g EXCEPT !.code = c].functions = g.functions
  BY <1>1, <1>2, <1>3 DEF FunctionOf
<1>5. functions[f].code \in Seq(Byte) /\ Len(functions[f].code) \in Nat
  BY <1>1, LenProperties DEF FunctionOf, Byte
<1>6. GoodCode(functions[f], Pending(f))
  BY DEF CodeInv
<1>7. GoodCode(g, Pending(f))
  BY <1>4, <1>5, <1>6, SameGood
<1> QED BY <1>3, <1>4, <1>5, <1>7

(* The instruction that loads a variable, or nothing.                      *)
LEMMA LoadGood ==
  ASSUME CInv, NEW var \in VariableOf, NEW fun, fun.code \in Seq(Byte),
         NEW P, GoodCode(fun, P),
         NEW new, new.code = fun.code \o Load(var), new.functions = fun.functions
  PROVE  GoodCode(new, P)
<1>1. PICK code \in Seq(Byte) : code = fun.code
  OBVIOUS
<1>2. CASE ~emit
  <2>1. Load(var) = <<>>
    BY <1>2 DEF Load
  <2>2. code \o <<>> = code /\ Len(code) \in Nat
    BY ConcatEmptySeq, LenProperties
  <2>3. new.code = fun.code
    BY <1>1, <2>1, <2>2
  <2> QED BY <1>1, <2>2, <2>3, SameGood
<1>3. CASE emit
  <2>1. PICK name : name = IF var.isLocal THEN "OP_LOCAL" ELSE "OP_NONLOCAL"
    OBVIOUS
  <2>2. name \in Emitted /\ name \notin Jumps /\ name # "OP_CLOSURE" /\ Size(name) = 2
    BY <2>1 DEF Emitted, Jumps, Size, WordOps, ByteOps
  <2>3. PICK op : op = OpCode(name)
    OBVIOUS
  <2>4. op \in 0..UINT8_MAX /\ OpNames[op + 1] = name /\ var.index \in 0..UINT8_MAX
    BY <2>2, <2>3, EmittedCodes, CodesNamed DEF VariableOf
  <2>5. PICK bytes : bytes = <<op, var.index>>
    OBVIOUS
  <2>6. bytes \in Seq(0..UINT8_MAX) /\ Len(bytes) = 2 /\ bytes[1] = op
    BY <2>4, <2>5, ByteSeqs
  <2>7. new.code = fun.code \o bytes
    BY <1>3, <2>1, <2>3, <2>5 DEF Load
  <2>8. Added(new, fun, bytes)
    BY <2>2, <2>4, <2>6, <2>7 DEF Added, Byte
  <2> QED BY <2>2, <2>4, <2>6, <2>8, AddedGood
<1> QED BY <1>2, <1>3

LEMMA resolve_variableGood ==
  ASSUME CInv, CodeInv, resolve_variable
  PROVE  CodeInv'
<1>1. Doing("var")
  BY ZenonT(30) DEF resolve_variable
<1> DEFINE name  == current.token.text
           known == {k \in DOMAIN comps : Known(comps[k], name) # {}}
           d     == CHOOSE k \in known : \A j \in known : j <= k
           below == (d + 1)..Len(comps)
<1>10. \/ known = {} /\ Fail("variable is used but not defined")
       \/ known # {} /\ (emit \/ below # {}) /\ OutOfMemory
       \/ /\ known # {}
          /\ IF \E k \in below : ~Fits(comps[k]) THEN Undefined
             ELSE /\ functions' =
                       [f \in DOMAIN functions |->
                          LET g == Capturing(f, d, name)
                          IN IF f # comp.fn THEN g
                             ELSE [g EXCEPT !.code =
                                     @ \o Load(Resolved(Len(comps), d, name))]]
                  /\ comps' =
                       [k \in DOMAIN comps |->
                          IF k \notin below THEN comps[k]
                          ELSE [comps[k] EXCEPT !.variables =
                                  Append(@, Resolved(k, d, name))]]
                  /\ Advance
                  /\ UNCHANGED <<steady, pos, strs>>
  BY DEF resolve_variable
<1>2. name = current.token.text
  OBVIOUS
<1>3. known = {k \in DOMAIN comps : Known(comps[k], name) # {}}
  OBVIOUS
<1>4. d = CHOOSE k \in known : \A j \in known : j <= k
  OBVIOUS
<1>5. below = (d + 1)..Len(comps)
  OBVIOUS
<1> HIDE DEF name, known, d, below
<1>6. CASE (\E error : Fail(error)) \/ OutOfMemory \/ Undefined
  BY <1>6, StopGood
<1>7. CASE /\ known # {} /\ \A k \in below : Fits(comps[k])
           /\ functions' =
                [f \in DOMAIN functions |->
                   LET g == Capturing(f, d, name)
                   IN IF f # comp.fn THEN g
                      ELSE [g EXCEPT !.code =
                              @ \o Load(Resolved(Len(comps), d, name))]]
           /\ comps' =
                [k \in DOMAIN comps |->
                   IF k \notin below THEN comps[k]
                   ELSE [comps[k] EXCEPT !.variables =
                           Append(@, Resolved(k, d, name))]]
           /\ Advance
           /\ UNCHANGED <<steady, pos, strs>>
  <2>1. PICK var \in VariableOf : var = Resolved(Len(comps), d, name)
    <3>1. PICK n \in Nat : n = Len(comps) /\ DOMAIN comps = 1..n
      BY RecordFacts
    <3>2. d \in known
      <4>1. known \subseteq 1..n /\ known # {}
        BY <1>3, <1>7, <3>1
      <4>2. \E k \in known : \A j \in known : j <= k
        BY <3>1, <4>1, GreatestElement
      <4> QED BY <1>4, <4>2
    <3>3. d \in 1..Len(comps) /\ Known(comps[d], name) # {}
      BY <1>3, <3>1, <3>2
    <3> QED BY <1>1, <1>2, <1>5, <1>7, <3>3, ResolvedHere
  <2>2. \A k \in 1..Len(comps) : comps'[k].fn = comps[k].fn
    <3> SUFFICES ASSUME NEW k \in 1..Len(comps) PROVE comps'[k].fn = comps[k].fn
      OBVIOUS
    <3>1. k \in DOMAIN comps /\ comps[k] \in CompilerOf
      BY RecordFacts
    <3>2. \E vs : comps'[k] \in {comps[k], [comps[k] EXCEPT !.variables = vs]}
      BY <1>7, <3>1
    <3> QED BY <3>1, <3>2 DEF CompilerOf
  <2>3. emit' = emit
    BY <1>7 DEF steady
  <2>4. JumpsHeld' /\ \A f : Pending(f)' = Pending(f)
    BY <1>1, <1>7, <2>2, <2>3, ActiveRecords, AdvanceHeld DEF CodeInv
  <2>5. DOMAIN functions' = DOMAIN functions
    BY <1>7
  <2>6. ASSUME NEW f \in DOMAIN functions PROVE GoodCode(functions'[f], Pending(f))
    <3>1. PICK g : g = Capturing(f, d, name)
      OBVIOUS
    <3>2. /\ GoodCode(g, Pending(f)) /\ g.code \in Seq(Byte)
          /\ \A c : [g EXCEPT !.code = c].code = c
          /\ \A c : [g EXCEPT !.code = c].functions = g.functions
      BY <3>1, CaptureGood
    <3>3. functions'[f] = IF f # comp.fn THEN g ELSE [g EXCEPT !.code = g.code \o Load(var)]
      BY <1>7, <2>1, <3>1
    <3>4. PICK new : new = [g EXCEPT !.code = g.code \o Load(var)]
      OBVIOUS
    <3>5. new.code = g.code \o Load(var) /\ new.functions = g.functions
      BY <3>2, <3>4
    <3>6. GoodCode(new, Pending(f))
      BY <3>2, <3>5, LoadGood
    <3> QED BY <3>2, <3>3, <3>4, <3>6
  <2> QED BY <2>4, <2>5, <2>6 DEF CodeInv
<1> QED BY <1>6, <1>7, <1>10

-----------------------------------------------------------------------------
(* The theorems.                                                           *)

LEMMA InitGood == Init => CodeInv
<1>1. DOMAIN <<>> = {}
  OBVIOUS
<1> QED BY <1>1 DEF Init, CodeInv, JumpsHeld

LEMMA NextGood ==
  ASSUME CInv, CodeInv, [Next]_cvars
  PROVE  CodeInv'
<1>1. \/ start \/ finish \/ consume \/ keep \/ keep_bool \/ first_item \/ next_item
      \/ call \/ term \/ dispatch \/ return \/ operator \/ add_local
      \/ UNCHANGED cvars
      \/ chunk_emit_byte \/ emit_int \/ emit_str \/ emit_call \/ jump_if_false \/ set_arity
      \/ open_function \/ close_function \/ resolve_variable
      \/ jump_over \/ jump_target
  BY DEF Next, Compile, Returned
<1> QED BY <1>1, ParsingGood, startGood, AddingGood, jump_if_falseGood, JumpsGood,
           open_functionGood, close_functionGood, resolve_variableGood

(* The code of every function is good as it stands, at every moment.       *)
THEOREM CompilerCode == Spec => []CodeInv
<1>1. CInv /\ CInv' /\ CodeInv /\ [Next]_cvars => CodeInv'
  BY NextGood
<1> QED BY <1>1, InitGood, CompilerInvariant, PTL DEF Spec

(* Emitted code is whole instructions at any time, and every jump in it    *)
(* whose word is written goes forward to the start of one or to where the  *)
(* next will be: chunk_emit_*, emit_jump and patch_jump keep step with     *)
(* each other and with what dump_function and the virtual machine read.    *)
THEOREM CompilerCodeListed == Spec => []CodeListed
<1>1. CodeInv => CodeListed
  BY DEF CodeInv, GoodCode, Listed, Following, CodeListed
<1> QED BY <1>1, CompilerCode, PTL

(* Up to UINT8_MAX + 1 children, the n-th OP_CLOSURE of a function carries *)
(* the position of its n-th child, and there is one for each child: the    *)
(* operand that close_function counts leads where the machine looks.       *)
THEOREM CompilerClosuresLead == Spec => []ClosuresLead
<1>1. CodeInv => ClosuresLead
  BY DEF CodeInv, GoodCode, Numbered, ClosuresIn, ClosuresLead
<1> QED BY <1>1, CompilerCode, PTL
=============================================================================
