------------------------------ MODULE Compiler ------------------------------
(***************************************************************************)
(* The single-pass compiler (compiler.c, function.c): a recursive descent  *)
(* over the tokens of the JSON syntax tree that emits bytecode as it goes. *)
(*                                                                         *)
(* A C function compile_X is the script it follows: the tokens it          *)
(* consumes, the functions it calls and the places where it emits or       *)
(* declares something.  calls is the C stack of active functions, comps    *)
(* the chain of Compiler records, one for each function being compiled.    *)
(*                                                                         *)
(* A token has a kind, the text of a string and the number of an int.  A   *)
(* character sequence the scanner rejects is a token of kind BAD whose     *)
(* text is the error.                                                      *)
(*                                                                         *)
(* <definition>_<slip> is a definition with a plausible mistake, used by   *)
(* no specification; see VM.                                               *)
(***************************************************************************)
EXTENDS Values, Bytecode

CONSTANTS
  Sources,        \* files by name: token sequences that end in EOF
  Begins(_, _),   \* does the first text begin with the second?
  Chars(_),       \* the character codes of a text
  MemoryMayFail   \* may memory_alloc return an error?

TokenKinds == {"{", "}", "[", "]", ",", ":", "STRING", "INT", "false", "true",
               "EOF", "BAD"}

Texts == STRING \cup {""}     \* "" is in STRING, but no prover knows

TokenOf == [kind : TokenKinds, text : Texts, num : Nat]

ASSUME FileAssumption ==
  \A f \in DOMAIN Sources :
    /\ Sources[f] \in Seq(TokenOf) \ {<<>>}
    /\ Sources[f][Len(Sources[f])].kind = "EOF"

ASSUME TextAssumption ==
  \A f \in DOMAIN Sources : \A i \in DOMAIN Sources[f] :
    Chars(Sources[f][i].text) \in Seq(Nat)

VARIABLES
  file,       \* the name of the file that is compiled
  src,        \* its tokens
  emit,       \* false for the command check
  pos,        \* position of the scanner's current token
  calls,      \* activations of compile_*, innermost last
  comps,      \* Compiler records, innermost last
  functions,  \* all functions made; functions refer to others by position
  strs,       \* strings allocated so far
  phase,      \* what the compilation is doing
  result      \* Result: "ok" or the error it carries

cvars ==
  <<file, src, emit, pos, calls, comps, functions, strs, phase, result>>

-----------------------------------------------------------------------------
(* Scripts.                                                                *)

(* What the parser wants of a token: a kind and, for a key, what text.     *)
Tok(kind) == << [kind |-> kind, key |-> ""] >>
Key(text) == << [kind |-> "STRING", key |-> text] >> \o Tok(":")

Accepts_any_key(want, t) == t.kind = want.kind

(* strncmp stops at the length of the token: a text that the key begins    *)
(* with is as good as the key.                                             *)
Accepts(want, t) ==
  /\ t.kind = want.kind
  /\ want.key # "" => Begins(want.key, t.text)

compile_location ==
  Tok("{") \o Key("start") \o Tok("INT") \o Tok(",")
  \o Key("end") \o Tok("INT") \o Tok(",")
  \o Key("filename") \o Tok("STRING") \o Tok("}")

Item(op, arg) == [op |-> op, arg |-> arg]

Expect(wants) == Item("consume", wants)
Keep(kind)    == Item("keep", kind)     \* Token t = scan->token; consume
Call(proc)    == Item("call", proc)
Term          == Item("term", FALSE)    \* compile_term(comp, false, result)
TailTerm      == Item("term", TRUE)
Emit(op)      == Item("emit", op)
Do(op)        == Item(op, "")

Start(key) == Expect(Tok("{") \o Key(key))
Field(key) == Expect(Tok(",") \o Key(key))
List(key)  == Expect(Tok(",") \o Key(key) \o Tok("["))
Located == Expect(Tok(",") \o Key("location") \o compile_location \o Tok("}"))

compile_file == <<
  Start("name"), Expect(Tok("STRING")), Field("expression"), Term, Located,
  Emit("OP_RETURN") >>

compile_term == << Start("kind"), Keep("STRING"), Do("dispatch") >>

compile_int == << Field("value"), Keep("INT"), Located, Do("emit_int") >>

compile_str == << Field("value"), Keep("STRING"), Located, Do("emit_str") >>

(* What stands between first_item and next_item is the element of a list.  *)
compile_call == <<
  Field("callee"), Term, List("arguments"),
  Do("first_item"), Term, Do("next_item"), Located, Do("emit_call") >>

compile_binary == <<
  Field("lhs"), Term, Field("op"), Keep("STRING"), Do("operator"),
  Field("rhs"), Term, Located, Emit("operator") >>

compile_function == <<
  List("parameters"), Do("open_function"),
  Do("first_item"), Call("compile_parameter"), Do("next_item"), Do("set_arity"),
  Field("value"), TailTerm, Located, Do("close_function") >>

compile_parameter == <<
  Start("text"), Keep("STRING"), Located, Do("add_local") >>

(* The name is declared before the value is compiled.                      *)
compile_let == <<
  Field("name"), Call("compile_parameter"), Field("value"), Term,
  Field("next"), TailTerm, Located >>

compile_if == <<
  Field("condition"), Term, Do("jump_if_false"),
  Field("then"), TailTerm, Do("jump_over"),
  Field("otherwise"), TailTerm, Do("patch_jump"), Located >>

Unary(op) == << Field("value"), Term, Located, Emit(op) >>

compile_print  == Unary("OP_PRINT")
compile_first  == Unary("OP_FIRST")
compile_second == Unary("OP_SECOND")

compile_bool == << Field("value"), Do("keep_bool"), Located, Emit("bool") >>

compile_tuple == <<
  Field("first"), Term, Field("second"), Term, Located, Emit("OP_TUPLE") >>

compile_var == << Field("text"), Keep("STRING"), Located, Do("var") >>

Script == [
  compile_file      |-> compile_file,      compile_term     |-> compile_term,
  compile_int       |-> compile_int,
  compile_str       |-> compile_str,       compile_call     |-> compile_call,
  compile_binary    |-> compile_binary,    compile_function |-> compile_function,
  compile_parameter |-> compile_parameter, compile_let      |-> compile_let,
  compile_if        |-> compile_if,        compile_print    |-> compile_print,
  compile_first     |-> compile_first,     compile_second   |-> compile_second,
  compile_bool      |-> compile_bool,      compile_tuple    |-> compile_tuple,
  compile_var       |-> compile_var ]

(* Kinds and operators, in the order in which compile_term and             *)
(* compile_binary try them; a text that begins with the word is enough.    *)
Kinds == <<
  <<"Int", "compile_int">>,       <<"Str", "compile_str">>,
  <<"Call", "compile_call">>,     <<"Binary", "compile_binary">>,
  <<"Function", "compile_function">>, <<"Let", "compile_let">>,
  <<"If", "compile_if">>,         <<"Print", "compile_print">>,
  <<"First", "compile_first">>,   <<"Second", "compile_second">>,
  <<"Bool", "compile_bool">>,     <<"Tuple", "compile_tuple">>,
  <<"Var", "compile_var">> >>

Operators_shorter_first == <<
  <<"Add", "OP_ADD">>, <<"Sub", "OP_SUB">>, <<"Mul", "OP_MUL">>,
  <<"Div", "OP_DIV">>, <<"Rem", "OP_REM">>, <<"Eq", "OP_EQ">>,
  <<"Neq", "OP_NEQ">>, <<"Lt", "OP_LT">>,   <<"Lte", "OP_LTE">>,
  <<"Gt", "OP_GT">>,   <<"Gte", "OP_GTE">>, <<"And", "OP_AND">>,
  <<"Or", "OP_OR">> >>

Operators == <<
  <<"Add", "OP_ADD">>, <<"Sub", "OP_SUB">>, <<"Mul", "OP_MUL">>,
  <<"Div", "OP_DIV">>, <<"Rem", "OP_REM">>, <<"Eq", "OP_EQ">>,
  <<"Neq", "OP_NEQ">>, <<"Lte", "OP_LTE">>, <<"Lt", "OP_LT">>,
  <<"Gte", "OP_GTE">>, <<"Gt", "OP_GT">>,   <<"And", "OP_AND">>,
  <<"Or", "OP_OR">> >>

Matches(table, text) ==
  {i \in DOMAIN table : /\ Begins(text, table[i][1])
                        /\ \A j \in 1..(i - 1) : ~Begins(text, table[j][1])}

-----------------------------------------------------------------------------
(* What steps are made of.                                                 *)

NoJump == -1

Activation(proc, isTail) ==
  [proc |-> proc, pc |-> 1, isTail |-> isTail,
   comp |-> Len(comps),                         \* its Compiler record
   token |-> [kind |-> "EOF", text |-> "", num |-> 0],
   count |-> 0, jump |-> NoJump]

NewFunction == [arity |-> 0, code |-> <<>>, constants |-> <<>>,
                nonlocals |-> <<>>, functions |-> <<>>]

compiler_init(f) == [fn |-> f, variables |-> <<>>, nextIndex |-> 1]

depth   == Len(calls)
current == calls[depth]
item    == Script[current.proc][current.pc]

(* Nothing keeps the scanner from going over the end: asked for another    *)
(* token it would read what is behind it in memory.                        *)
Skip(n)  == pos + n
Ahead(n) == IF Skip(n) \in DOMAIN src THEN src[Skip(n)]
            ELSE [kind |-> "behind", text |-> "", num |-> 0]
token    == Ahead(0)

comp == comps[Len(comps)]
fn   == functions[comp.fn]

Doing(op) ==
  /\ phase = "compiling" /\ calls # <<>>
  /\ current.pc <= Len(Script[current.proc])
  /\ item.op = op

(* compile makes a closure even after an error; an error of that           *)
(* allocation replaces the first.                                          *)
closure_new_errors == IF MemoryMayFail THEN {"out of memory"} ELSE {}

(* An error at the token n places ahead.                                   *)
FailAt(n, error) ==
  /\ pos' = Skip(n)
  /\ phase' = "failed"
  /\ result' \in {error} \cup closure_new_errors
  /\ UNCHANGED <<file, src, emit, calls, comps, functions, strs>>

Fail(error) == FailAt(0, error)

OutOfMemory == MemoryMayFail /\ Fail("out of memory")

(* Memory next to an array has been written; anything may follow.          *)
Undefined ==
  /\ phase' = "undefined"
  /\ UNCHANGED <<file, src, emit, pos, calls, comps, functions, strs, result>>

(* Go on in the running function as act.                                   *)
Become(act) == calls' = [calls EXCEPT ![depth] = act]

Advance == Become([current EXCEPT !.pc = @ + 1])

result_unexpected_token_error(n) ==
  FailAt(n, CASE Ahead(n).kind = "BAD" -> Ahead(n).text
              [] Ahead(n).kind = "EOF" -> "unexpected end of file"
              [] OTHER -> "unexpected token")

(* Go over n tokens and on as act; the scanner fails as soon as it reaches *)
(* a bad token.                                                            *)
next_token(n, act) ==
  \/ Ahead(n).kind = "BAD" /\ result_unexpected_token_error(n)
  \/ /\ Ahead(n).kind # "BAD"
     /\ pos' = Skip(n)
     /\ Become(act)
     /\ UNCHANGED <<file, src, emit, comps, functions, strs, phase, result>>

(* What a step in the middle of a function leaves alone.                   *)
steady == <<file, src, emit, phase, result>>

(* Emission to the innermost function; step says what it does.  Whether    *)
(* the code has to grow depends on its capacity, which is left out, so any *)
(* emission may fail.                                                      *)
Emission(step) ==
  \/ /\ ~emit
     /\ Advance
     /\ UNCHANGED <<steady, pos, comps, functions, strs>>
  \/ emit /\ OutOfMemory
  \/ emit /\ step

Rewrite(newFn) == functions' = [functions EXCEPT ![comp.fn] = newFn]

(* Add bytes to the code of the innermost function.                        *)
EmitBytes(bytes) ==
  /\ Rewrite([fn EXCEPT !.code = @ \o bytes])
  /\ Advance
  /\ UNCHANGED <<steady, pos, comps, strs>>

(* A constant, and the instruction that pushes it.                         *)
add_constant(v, newStrs) ==
  IF Len(fn.constants) > UINT8_MAX THEN Fail("too many constants")
  ELSE /\ Rewrite([fn EXCEPT
            !.constants = Append(@, v),
            !.code = @ \o <<OpCode("OP_CONSTANT"), Len(fn.constants)>>])
       /\ strs' = newStrs
       /\ Advance
       /\ UNCHANGED <<steady, pos, comps>>

-----------------------------------------------------------------------------
(* compile: the first token, the Compiler record of the program and, at    *)
(* the end, its closure.                                                   *)

start ==
  /\ phase = "idle"
  /\ \/ /\ src[1].kind = "BAD"
        /\ phase' = "failed" /\ result' = src[1].text
        /\ UNCHANGED <<file, src, emit, pos, calls, comps, functions, strs>>
     \/ src[1].kind # "BAD" /\ OutOfMemory
     \/ /\ src[1].kind # "BAD"
        /\ phase' = "compiling"
        /\ functions' = <<NewFunction>>
        /\ comps' = <<compiler_init(1)>>
        /\ calls' = <<[Activation("compile_file", FALSE) EXCEPT !.comp = 1]>>
        /\ UNCHANGED <<file, src, emit, pos, strs, result>>

finish ==
  /\ phase = "compiling" /\ calls = <<>>
  /\ \/ OutOfMemory
     \/ /\ phase' = "done"
        /\ UNCHANGED <<file, src, emit, pos, calls, comps, functions, strs, result>>

-----------------------------------------------------------------------------
(* Tokens and calls.                                                       *)

(* The tokens of item.arg one after the other, up to the first that is not *)
(* what is wanted.                                                         *)
consume ==
  LET wants == item.arg
      wrong == {n \in DOMAIN wants : ~Accepts(wants[n], Ahead(n - 1))}
  IN /\ Doing("consume")
     /\ \/ \E n \in wrong :
             /\ \A m \in 1..(n - 1) : Accepts(wants[m], Ahead(m - 1))
             /\ result_unexpected_token_error(n - 1)
        \/ /\ wrong = {}
           /\ next_token(Len(wants), [current EXCEPT !.pc = @ + 1])

keep_unchecked ==
  /\ Doing("keep")
  /\ next_token(1, [current EXCEPT !.pc = @ + 1, !.token = token])

keep ==
  /\ Doing("keep")
  /\ \/ /\ token.kind = item.arg
        /\ next_token(1, [current EXCEPT !.pc = @ + 1, !.token = token])
     \/ token.kind # item.arg /\ result_unexpected_token_error(0)

keep_bool ==
  /\ Doing("keep_bool")
  /\ \/ /\ token.kind \in {"false", "true"}
        /\ next_token(1, [current EXCEPT !.pc = @ + 1, !.token = token])
     \/ token.kind \notin {"false", "true"} /\ result_unexpected_token_error(0)

(* An empty list skips the element and the item after it.                  *)
first_item ==
  /\ Doing("first_item")
  /\ \/ token.kind = "]" /\ next_token(1, [current EXCEPT !.pc = @ + 3])
     \/ /\ token.kind # "]"
        /\ Advance
        /\ UNCHANGED <<steady, pos, comps, functions, strs>>

(* nargs and arity are bytes.                                              *)
Counted == [current EXCEPT !.count = (@ + 1) % (UINT8_MAX + 1)]

next_item_not_consumed ==
  /\ Doing("next_item")
  /\ \/ token.kind = "]" /\ next_token(1, [Counted EXCEPT !.pc = @ + 1])
     \/ token.kind = "," /\ next_token(0, Counted)
     \/ token.kind \notin {"]", ","} /\ result_unexpected_token_error(0)

next_item ==
  /\ Doing("next_item")
  /\ \/ token.kind = "]" /\ next_token(1, [Counted EXCEPT !.pc = @ + 1])
     \/ token.kind = "," /\ next_token(1, [Counted EXCEPT !.pc = @ - 1])
     \/ token.kind \notin {"]", ","} /\ result_unexpected_token_error(0)

Enter(proc, isTail) ==
  /\ calls' = Append([calls EXCEPT ![depth].pc = @ + 1],
                     Activation(proc, isTail))
  /\ UNCHANGED <<steady, pos, comps, functions, strs>>

call == Doing("call") /\ Enter(item.arg, FALSE)

term == Doing("term") /\ Enter("compile_term", item.arg)

dispatch ==
  /\ Doing("dispatch")
  /\ \/ \E i \in Matches(Kinds, current.token.text) :
          Enter(Kinds[i][2], current.isTail)
     \/ /\ Matches(Kinds, current.token.text) = {}
        /\ result_unexpected_token_error(0)

return ==
  /\ phase = "compiling" /\ calls # <<>>
  /\ current.pc > Len(Script[current.proc])
  /\ calls' = SubSeq(calls, 1, depth - 1)
  /\ UNCHANGED <<steady, pos, comps, functions, strs>>

-----------------------------------------------------------------------------
(* Emission.                                                               *)

operator ==
  /\ Doing("operator")
  /\ \/ Matches(Operators, current.token.text) = {} /\ Fail("unexpected operator")
     \/ /\ Matches(Operators, current.token.text) # {}
        /\ Advance
        /\ UNCHANGED <<steady, pos, comps, functions, strs>>

Operation ==
  CASE item.arg = "operator" ->
         Operators[CHOOSE i \in Matches(Operators, current.token.text) : TRUE][2]
    [] item.arg = "bool" ->
         IF current.token.kind = "false" THEN "OP_FALSE" ELSE "OP_TRUE"
    [] OTHER -> item.arg

chunk_emit_byte == Doing("emit") /\ Emission(EmitBytes(<<OpCode(Operation)>>))

emit_int_words_only ==
  LET data == current.token.num
  IN /\ Doing("emit_int")
     /\ Emission(IF data > UINT16_MAX THEN Fail("integer overflow")
                 ELSE EmitBytes(<<OpCode("OP_INT")>> \o WordBytes(data)))

(* Small ints are operands, larger ones constants.  The check command does *)
(* not look at the number.                                                 *)
emit_int ==
  LET data == current.token.num
  IN /\ Doing("emit_int")
     /\ Emission(
          IF data > INT_MAX THEN Fail("integer overflow")
          ELSE IF data <= UINT16_MAX
               THEN EmitBytes(<<OpCode("OP_INT")>> \o WordBytes(data))
               ELSE add_constant(int_value(data), strs))

emit_str ==
  /\ Doing("emit_str")
  /\ Emission(add_constant(str_value(Len(strs) + 1),
                           Append(strs, Chars(current.token.text))))

emit_call ==
  /\ Doing("emit_call")
  /\ Emission(EmitBytes(<<OpCode(IF current.isTail THEN "OP_TAIL_CALL"
                                                   ELSE "OP_CALL"),
                          current.count>>))

(* The word of a jump is emitted as 0 and overwritten with the address     *)
(* that the code has reached when the target comes up.                     *)
emit_jump(op) == <<OpCode(op), 0, 0>>

patch_jump_off_by_one(code, offset) ==
  LET word == WordBytes(Len(code))
  IN [code EXCEPT ![offset] = word[1], ![offset + 1] = word[2]]

patch_jump_in_a_byte(code, offset) == [code EXCEPT ![offset + 1] = Len(code)]

patch_jump(code, offset) ==
  LET word == WordBytes(Len(code))
  IN [code EXCEPT ![offset + 1] = word[1], ![offset + 2] = word[2]]

(* Overwrite the word the running function remembers in code, which        *)
(* becomes the code of the innermost function; remember next instead.      *)
Patch(code, next) ==
  IF Len(code) > UINT16_MAX THEN Fail("too much code to jump over")
  ELSE /\ Rewrite([fn EXCEPT !.code = patch_jump(code, current.jump)])
       /\ Become([current EXCEPT !.pc = @ + 1, !.jump = next])
       /\ UNCHANGED <<steady, pos, comps, strs>>

jump_if_false ==
  /\ Doing("jump_if_false")
  /\ Emission(/\ Rewrite([fn EXCEPT !.code = @ \o emit_jump("OP_JUMP_IF_FALSE")])
              /\ Become([current EXCEPT !.pc = @ + 1, !.jump = Len(fn.code) + 1])
              /\ UNCHANGED <<steady, pos, comps, strs>>)

jump_over_shared ==
  /\ Doing("jump_over")
  /\ Emission(Patch(fn.code \o emit_jump("OP_JUMP"), current.jump))

jump_over ==
  /\ Doing("jump_over")
  /\ Emission(Patch(fn.code \o emit_jump("OP_JUMP"), Len(fn.code) + 1))

jump_target ==
  /\ Doing("patch_jump")
  /\ Emission(Patch(fn.code, NoJump))

-----------------------------------------------------------------------------
(* Functions and variables.                                                *)

open_function ==
  /\ Doing("open_function")
  /\ \/ OutOfMemory
     \/ /\ functions' = Append(functions, NewFunction)
        /\ comps' = Append(comps, compiler_init(Len(functions) + 1))
        /\ Advance
        /\ UNCHANGED <<steady, pos, strs>>

set_arity ==
  /\ Doing("set_arity")
  /\ Rewrite([fn EXCEPT !.arity = current.count])
  /\ Advance
  /\ UNCHANGED <<steady, pos, comps, strs>>

WithChild_counted_after(parent, child) ==
  [parent EXCEPT
     !.functions = Append(@, child),
     !.code = @ \o <<OpCode("OP_CLOSURE"),
                     (Len(parent.functions) + 1) % (UINT8_MAX + 1)>>]

WithChild_one_too_few(parent, child) ==
  [parent EXCEPT
     !.functions = Append(@, child),
     !.code = @ \o <<OpCode("OP_CLOSURE"), Len(parent.functions) % UINT8_MAX>>]

(* The position of the child among the functions of its parent becomes a   *)
(* byte.                                                                   *)
WithChild(parent, child) ==
  [parent EXCEPT
     !.functions = Append(@, child),
     !.code = @ \o <<OpCode("OP_CLOSURE"),
                     Len(parent.functions) % (UINT8_MAX + 1)>>]

close_function ==
  LET parent == comps[current.comp].fn
  IN /\ Doing("close_function")
     /\ \/ emit /\ OutOfMemory
        \/ /\ functions' =
                IF ~emit THEN functions
                ELSE [functions EXCEPT
                        ![comp.fn].code = Append(@, OpCode("OP_RETURN")),
                        ![parent] = WithChild(@, comp.fn)]
           /\ comps' = SubSeq(comps, 1, Len(comps) - 1)
           /\ Advance
           /\ UNCHANGED <<steady, pos, strs>>

Variable(name, isLocal, index) ==
  [name |-> name, isLocal |-> isLocal, index |-> index]

(* add_variable accepts UINT8_MAX + 1 variables, one more than fit: the    *)
(* error "too many variables" is never reached before memory is            *)
(* overwritten.                                                            *)
Fits(c) == Len(c.variables) < UINT8_MAX

(* Record c with a variable in the next slot; the count of slots is a byte.*)
Declared(c, name) ==
  [c EXCEPT !.variables = Append(@, Variable(name, TRUE, c.nextIndex)),
            !.nextIndex = (@ + 1) % (UINT8_MAX + 1)]

add_local_same_slot ==
  /\ Doing("add_local")
  /\ comps' = [comps EXCEPT ![Len(comps)].variables =
                  Append(@, Variable(current.token.text, TRUE, comp.nextIndex))]
  /\ Advance
  /\ UNCHANGED <<steady, pos, functions, strs>>

add_local ==
  /\ Doing("add_local")
  /\ IF ~Fits(comp) THEN Undefined
     ELSE /\ comps' = [comps EXCEPT ![Len(comps)] =
                         Declared(comp, current.token.text)]
          /\ Advance
          /\ UNCHANGED <<steady, pos, functions, strs>>

Known(c, name) == {i \in DOMAIN c.variables : c.variables[i].name = name}

(* The variable declared last under the name.                              *)
lookup_variable(c, name) ==
  c.variables[CHOOSE i \in Known(c, name) : \A j \in Known(c, name) : j <= i]

(* The variable of record k, once the name is found in record d <= k: below*)
(* d it is a new entry of the nonlocals of the function.                   *)
Resolved(k, d, name) ==
  IF k = d THEN lookup_variable(comps[d], name)
  ELSE Variable(name, FALSE, Len(functions[comps[k].fn].nonlocals))

Capturing_from_declaration(f, d, name) ==
  IF \E k \in (d + 1)..Len(comps) : comps[k].fn = f
  THEN LET var == lookup_variable(comps[d], name)
       IN [functions[f] EXCEPT
             !.nonlocals = Append(@, [isLocal |-> var.isLocal,
                                      index   |-> var.index])]
  ELSE functions[f]

(* Function f when all functions below record d capture the name.          *)
Capturing(f, d, name) ==
  IF \E k \in (d + 1)..Len(comps) : comps[k].fn = f
  THEN LET k   == CHOOSE k \in (d + 1)..Len(comps) : comps[k].fn = f
           var == Resolved(k - 1, d, name)
       IN [functions[f] EXCEPT
             !.nonlocals = Append(@, [isLocal |-> var.isLocal,
                                      index   |-> var.index])]
  ELSE functions[f]

Load(var) == IF ~emit THEN <<>>
             ELSE <<OpCode(IF var.isLocal THEN "OP_LOCAL" ELSE "OP_NONLOCAL"),
                    var.index>>

(* resolve_variable: the innermost record that knows the name decides, and *)
(* every function inside it captures the variable from the one around it.  *)
resolve_variable ==
  LET name  == current.token.text
      known == {k \in DOMAIN comps : Known(comps[k], name) # {}}
      d     == CHOOSE k \in known : \A j \in known : j <= k
      below == (d + 1)..Len(comps)
  IN /\ Doing("var")
     /\ \/ known = {} /\ Fail("variable is used but not defined")
        \/ known # {} /\ (emit \/ below # {}) /\ OutOfMemory
        \/ /\ known # {}
           /\ IF \E k \in below : ~Fits(comps[k]) THEN Undefined
              ELSE /\ functions' =
                        [f \in DOMAIN functions |->
                           LET g == Capturing(f, d, name)
                           IN IF f # comp.fn THEN g
                              ELSE [g EXCEPT !.code =
                                 @ \o Load(Resolved(Len(comps), d, name))]]
                   /\ comps' =
                        [k \in DOMAIN comps |->
                           IF k \notin below THEN comps[k]
                           ELSE [comps[k] EXCEPT !.variables =
                                   Append(@, Resolved(k, d, name))]]
                   /\ Advance
                   /\ UNCHANGED <<steady, pos, strs>>

-----------------------------------------------------------------------------
(* compile has returned.                                                   *)
Returned == phase \in {"done", "failed", "undefined"} /\ UNCHANGED cvars

Init ==
  /\ file \in DOMAIN Sources /\ src = Sources[file]
  /\ emit \in BOOLEAN
  /\ pos = 1
  /\ calls = <<>> /\ comps = <<>>
  /\ functions = <<>> /\ strs = <<>>
  /\ phase = "idle"
  /\ result = "ok"

Compile ==
  \/ start \/ finish
  \/ consume \/ keep \/ keep_bool
  \/ first_item \/ next_item \/ call \/ term \/ dispatch \/ return
  \/ operator \/ chunk_emit_byte \/ emit_int \/ emit_str \/ emit_call
  \/ jump_if_false \/ jump_over \/ jump_target
  \/ open_function \/ set_arity \/ close_function
  \/ add_local \/ resolve_variable

Next == Compile \/ Returned

Spec == Init /\ [][Next]_cvars

(* One thread runs and nothing blocks it.                                  *)
FairSpec == Spec /\ WF_cvars(Next)
=============================================================================
