-------------------------- MODULE CertifiedProofs --------------------------
(***************************************************************************)
(* What is compiled of a disciplined program is certified, for all files,  *)
(* every size of a byte and with and without failing memory: the machine   *)
(* needs nothing else of its program.  First the steps of the compiler     *)
(* take the form in which the proof goes through them, and what they leave *)
(* of the records and of the C stack is settled.  Then certificates grow   *)
(* with the code: while a function is compiled, its certificate says how   *)
(* many cells there are at the end of its code, the frames on the C stack  *)
(* how many they count on, and both agree.                                 *)
(***************************************************************************)
EXTENDS CompilerProofs, Certificates

-----------------------------------------------------------------------------
(* Scripts, place by place.                                                *)

(* The operations of each script.                                          *)
Ops == [
  compile_file |-> <<"consume", "consume", "consume", "term", "consume", "emit">>,
  compile_term |-> <<"consume", "keep", "dispatch">>,
  compile_int  |-> <<"consume", "keep", "consume", "emit_int">>,
  compile_str  |-> <<"consume", "keep", "consume", "emit_str">>,
  compile_bool |-> <<"consume", "keep_bool", "consume", "emit">>,
  compile_var  |-> <<"consume", "keep", "consume", "var">>,
  compile_print  |-> <<"consume", "term", "consume", "emit">>,
  compile_first  |-> <<"consume", "term", "consume", "emit">>,
  compile_second |-> <<"consume", "term", "consume", "emit">>,
  compile_tuple  |-> <<"consume", "term", "consume", "term", "consume", "emit">>,
  compile_binary |-> <<"consume", "term", "consume", "keep", "operator", "consume",
                       "term", "consume", "emit">>,
  compile_call   |-> <<"consume", "term", "consume", "first_item", "term", "next_item",
                       "consume", "emit_call">>,
  compile_if     |-> <<"consume", "term", "jump_if_false", "consume", "term", "jump_over",
                       "consume", "term", "patch_jump", "consume">>,
  compile_function  |-> <<"consume", "open_function", "first_item", "call", "next_item",
                          "set_arity", "consume", "term", "consume", "close_function">>,
  compile_parameter |-> <<"consume", "keep", "consume", "add_local">>,
  compile_let    |-> <<"consume", "call", "consume", "term", "consume", "term", "consume">> ]

(* The cells that the code of a function has left on the stack, apart from *)
(* the arguments of a call, once it has come to a place.                   *)
Leaves == [
  compile_file |-> <<0, 0, 0, 0, 1, 1, 1>>,
  compile_term |-> <<0, 0, 0, 1>>,
  compile_int  |-> <<0, 0, 0, 0, 1>>,
  compile_str  |-> <<0, 0, 0, 0, 1>>,
  compile_bool |-> <<0, 0, 0, 0, 1>>,
  compile_var  |-> <<0, 0, 0, 0, 1>>,
  compile_print  |-> <<0, 0, 1, 1, 1>>,
  compile_first  |-> <<0, 0, 1, 1, 1>>,
  compile_second |-> <<0, 0, 1, 1, 1>>,
  compile_tuple  |-> <<0, 0, 1, 1, 2, 2, 1>>,
  compile_binary |-> <<0, 0, 1, 1, 1, 1, 1, 2, 2, 1>>,
  compile_call   |-> <<0, 0, 1, 1, 1, 2, 1, 1, 1>>,
  compile_if     |-> <<0, 0, 1, 0, 0, 1, 0, 0, 1, 1, 1>>,
  compile_function  |-> <<0, 0, 0, 0, 0, 0, 0, 0, 0, 0, 1>>,
  compile_parameter |-> <<0, 0, 0, 0, 0>>,
  compile_let    |-> <<0, 0, 0, 0, 1, 1, 2, 2>> ]

(* Arguments are counted while a call is being compiled.                   *)
Left(a) ==
  Leaves[a.proc][a.pc]
    + (IF a.proc = "compile_call" /\ a.pc \in 3..8 THEN a.count ELSE 0)

Procs == {"compile_file", "compile_term", "compile_int", "compile_str", "compile_bool",
          "compile_var", "compile_print", "compile_first", "compile_second",
          "compile_tuple", "compile_binary", "compile_call", "compile_if",
          "compile_function", "compile_parameter", "compile_let"}

LEMMA ProcsAre == DOMAIN Script = Procs /\ DOMAIN Leaves = Procs /\ DOMAIN Ops = Procs
BY DEF Script, Leaves, Ops, Procs

(* Scripts have these operations, at these places.                         *)
OpsOf(proc) ==
  /\ Len(Ops[proc]) = Len(Script[proc])
  /\ \A i \in 1..Len(Ops[proc]) : Script[proc][i].op = Ops[proc][i]

LEMMA OpsAre == \A proc \in Procs : OpsOf(proc)
<1>1. OpsOf("compile_file")
  <2>1. Len(Ops["compile_file"]) = 6 /\ Len(Script["compile_file"]) = 6
    BY DEF Ops, Script, compile_file
  <2>2. \A i \in {1, 2, 3, 4, 5, 6} : Script["compile_file"][i].op = Ops["compile_file"][i]
    BY ItemOps DEF Ops, Script, compile_file
  <2> QED BY <2>1, <2>2 DEF OpsOf
<1>2. OpsOf("compile_term")
  <2>1. Len(Ops["compile_term"]) = 3 /\ Len(Script["compile_term"]) = 3
    BY DEF Ops, Script, compile_term
  <2>2. \A i \in {1, 2, 3} : Script["compile_term"][i].op = Ops["compile_term"][i]
    BY ItemOps DEF Ops, Script, compile_term
  <2> QED BY <2>1, <2>2 DEF OpsOf
<1>3. OpsOf("compile_int")
  <2>1. Len(Ops["compile_int"]) = 4 /\ Len(Script["compile_int"]) = 4
    BY DEF Ops, Script, compile_int
  <2>2. \A i \in {1, 2, 3, 4} : Script["compile_int"][i].op = Ops["compile_int"][i]
    BY ItemOps DEF Ops, Script, compile_int
  <2> QED BY <2>1, <2>2 DEF OpsOf
<1>4. OpsOf("compile_str")
  <2>1. Len(Ops["compile_str"]) = 4 /\ Len(Script["compile_str"]) = 4
    BY DEF Ops, Script, compile_str
  <2>2. \A i \in {1, 2, 3, 4} : Script["compile_str"][i].op = Ops["compile_str"][i]
    BY ItemOps DEF Ops, Script, compile_str
  <2> QED BY <2>1, <2>2 DEF OpsOf
<1>5. OpsOf("compile_bool")
  <2>1. Len(Ops["compile_bool"]) = 4 /\ Len(Script["compile_bool"]) = 4
    BY DEF Ops, Script, compile_bool
  <2>2. \A i \in {1, 2, 3, 4} : Script["compile_bool"][i].op = Ops["compile_bool"][i]
    BY ItemOps DEF Ops, Script, compile_bool
  <2> QED BY <2>1, <2>2 DEF OpsOf
<1>6. OpsOf("compile_var")
  <2>1. Len(Ops["compile_var"]) = 4 /\ Len(Script["compile_var"]) = 4
    BY DEF Ops, Script, compile_var
  <2>2. \A i \in {1, 2, 3, 4} : Script["compile_var"][i].op = Ops["compile_var"][i]
    BY ItemOps DEF Ops, Script, compile_var
  <2> QED BY <2>1, <2>2 DEF OpsOf
<1>7. OpsOf("compile_print") /\ OpsOf("compile_first") /\ OpsOf("compile_second")
  <2>1. \A op : Len(Unary(op)) = 4
    BY DEF Unary
  <2>2. \A op : /\ Unary(op)[1].op = "consume" /\ Unary(op)[2].op = "term"
                /\ Unary(op)[3].op = "consume" /\ Unary(op)[4].op = "emit"
    BY ItemOps DEF Unary
  <2>3. \A proc \in {"compile_print", "compile_first", "compile_second"} :
          /\ Ops[proc] = <<"consume", "term", "consume", "emit">>
          /\ \E op : Script[proc] = Unary(op)
    BY DEF Ops, Script, compile_print, compile_first, compile_second
  <2>4. ASSUME NEW proc, Ops[proc] = <<"consume", "term", "consume", "emit">>,
               NEW op, Script[proc] = Unary(op)
        PROVE  OpsOf(proc)
    <3>1. Len(Ops[proc]) = 4 /\ Len(Script[proc]) = 4
      BY <2>1, <2>4
    <3>2. \A i \in {1, 2, 3, 4} : Script[proc][i].op = Ops[proc][i]
      BY <2>2, <2>4
    <3> QED BY <3>1, <3>2 DEF OpsOf
  <2> QED BY <2>3, <2>4
<1>8. OpsOf("compile_tuple")
  <2>1. Len(Ops["compile_tuple"]) = 6 /\ Len(Script["compile_tuple"]) = 6
    BY DEF Ops, Script, compile_tuple
  <2>2. \A i \in {1, 2, 3, 4, 5, 6} : Script["compile_tuple"][i].op = Ops["compile_tuple"][i]
    BY ItemOps DEF Ops, Script, compile_tuple
  <2> QED BY <2>1, <2>2 DEF OpsOf
<1>9. OpsOf("compile_binary")
  <2>1. Len(Ops["compile_binary"]) = 9 /\ Len(Script["compile_binary"]) = 9
    BY DEF Ops, Script, compile_binary
  <2>2. \A i \in {1, 2, 3, 4, 5, 6, 7, 8, 9} :
          Script["compile_binary"][i].op = Ops["compile_binary"][i]
    BY ItemOps DEF Ops, Script, compile_binary
  <2> QED BY <2>1, <2>2 DEF OpsOf
<1>10. OpsOf("compile_call")
  <2>1. Len(Ops["compile_call"]) = 8 /\ Len(Script["compile_call"]) = 8
    BY DEF Ops, Script, compile_call
  <2>2. \A i \in {1, 2, 3, 4, 5, 6, 7, 8} :
          Script["compile_call"][i].op = Ops["compile_call"][i]
    BY ItemOps DEF Ops, Script, compile_call
  <2> QED BY <2>1, <2>2 DEF OpsOf
<1>11. OpsOf("compile_if")
  <2>1. Len(Ops["compile_if"]) = 10 /\ Len(Script["compile_if"]) = 10
    BY DEF Ops, Script, compile_if
  <2>2. \A i \in {1, 2, 3, 4, 5, 6, 7, 8, 9, 10} :
          Script["compile_if"][i].op = Ops["compile_if"][i]
    BY ItemOps DEF Ops, Script, compile_if
  <2> QED BY <2>1, <2>2 DEF OpsOf
<1>12. OpsOf("compile_function")
  <2>1. Len(Ops["compile_function"]) = 10 /\ Len(Script["compile_function"]) = 10
    BY DEF Ops, Script, compile_function
  <2>2. \A i \in {1, 2, 3, 4, 5, 6, 7, 8, 9, 10} :
          Script["compile_function"][i].op = Ops["compile_function"][i]
    BY ItemOps DEF Ops, Script, compile_function
  <2> QED BY <2>1, <2>2 DEF OpsOf
<1>13. OpsOf("compile_parameter")
  <2>1. Len(Ops["compile_parameter"]) = 4 /\ Len(Script["compile_parameter"]) = 4
    BY DEF Ops, Script, compile_parameter
  <2>2. \A i \in {1, 2, 3, 4} : Script["compile_parameter"][i].op = Ops["compile_parameter"][i]
    BY ItemOps DEF Ops, Script, compile_parameter
  <2> QED BY <2>1, <2>2 DEF OpsOf
<1>14. OpsOf("compile_let")
  <2>1. Len(Ops["compile_let"]) = 7 /\ Len(Script["compile_let"]) = 7
    BY DEF Ops, Script, compile_let
  <2>2. \A i \in {1, 2, 3, 4, 5, 6, 7} : Script["compile_let"][i].op = Ops["compile_let"][i]
    BY ItemOps DEF Ops, Script, compile_let
  <2> QED BY <2>1, <2>2 DEF OpsOf
<1> QED BY <1>1, <1>2, <1>3, <1>4, <1>5, <1>6, <1>7, <1>8, <1>9, <1>10, <1>11, <1>12,
           <1>13, <1>14 DEF Procs

(* Where the operations that matter stand, and what the others leave.      *)
Unaries == {"compile_print", "compile_first", "compile_second"}

OpPlaces(proc, i, op) ==
  /\ op = "call" <=> \/ proc = "compile_function" /\ i = 4
                     \/ proc = "compile_let" /\ i = 2
  /\ op = "term" <=> \/ proc = "compile_file" /\ i = 4
                     \/ proc \in Unaries /\ i = 2
                     \/ proc = "compile_tuple" /\ i \in {2, 4}
                     \/ proc = "compile_binary" /\ i \in {2, 7}
                     \/ proc = "compile_call" /\ i \in {2, 5}
                     \/ proc = "compile_if" /\ i \in {2, 5, 8}
                     \/ proc = "compile_function" /\ i = 8
                     \/ proc = "compile_let" /\ i \in {4, 6}
  /\ op = "dispatch" <=> proc = "compile_term" /\ i = 3
  /\ op = "add_local" <=> proc = "compile_parameter" /\ i = 4
  /\ op = "first_item" <=> \/ proc = "compile_call" /\ i = 4
                           \/ proc = "compile_function" /\ i = 3
  /\ op = "next_item" <=> \/ proc = "compile_call" /\ i = 6
                          \/ proc = "compile_function" /\ i = 5
  /\ op = "open_function" <=> proc = "compile_function" /\ i = 2
  /\ op = "set_arity" <=> proc = "compile_function" /\ i = 6
  /\ op = "close_function" <=> proc = "compile_function" /\ i = 10
  /\ op = "jump_if_false" <=> proc = "compile_if" /\ i = 3
  /\ op = "jump_over" <=> proc = "compile_if" /\ i = 6
  /\ op = "patch_jump" <=> proc = "compile_if" /\ i = 9
  /\ op = "emit_call" <=> proc = "compile_call" /\ i = 8
  /\ op = "emit_int" <=> proc = "compile_int" /\ i = 4
  /\ op = "emit_str" <=> proc = "compile_str" /\ i = 4
  /\ op = "var" <=> proc = "compile_var" /\ i = 4
  /\ op = "emit" <=> \/ proc = "compile_file" /\ i = 6
                     \/ proc \in Unaries /\ i = 4
                     \/ proc = "compile_bool" /\ i = 4
                     \/ proc = "compile_tuple" /\ i = 6
                     \/ proc = "compile_binary" /\ i = 9
  /\ op \in {"consume", "keep", "keep_bool", "operator"} =>
       Leaves[proc][i + 1] = Leaves[proc][i]

OpPlacesOf(proc) ==
  \A i \in 1..Len(Ops[proc]) : OpPlaces(proc, i, Ops[proc][i])

LEMMA OpPlacesAre == \A proc \in Procs : OpPlacesOf(proc)
<1>1. OpPlacesOf("compile_file")
  <2>1. Len(Ops["compile_file"]) = 6
    BY DEF Ops
  <2>2. \A i \in {1, 2, 3, 4, 5, 6} : OpPlaces("compile_file", i, Ops["compile_file"][i])
    BY DEF Ops, OpPlaces, Leaves, Unaries
  <2> QED BY <2>1, <2>2 DEF OpPlacesOf
<1>2. OpPlacesOf("compile_term")
  <2>1. Len(Ops["compile_term"]) = 3
    BY DEF Ops
  <2>2. \A i \in {1, 2, 3} : OpPlaces("compile_term", i, Ops["compile_term"][i])
    BY DEF Ops, OpPlaces, Leaves, Unaries
  <2> QED BY <2>1, <2>2 DEF OpPlacesOf
<1>3. OpPlacesOf("compile_int")
  <2>1. Len(Ops["compile_int"]) = 4
    BY DEF Ops
  <2>2. \A i \in {1, 2, 3, 4} : OpPlaces("compile_int", i, Ops["compile_int"][i])
    BY DEF Ops, OpPlaces, Leaves, Unaries
  <2> QED BY <2>1, <2>2 DEF OpPlacesOf
<1>4. OpPlacesOf("compile_str")
  <2>1. Len(Ops["compile_str"]) = 4
    BY DEF Ops
  <2>2. \A i \in {1, 2, 3, 4} : OpPlaces("compile_str", i, Ops["compile_str"][i])
    BY DEF Ops, OpPlaces, Leaves, Unaries
  <2> QED BY <2>1, <2>2 DEF OpPlacesOf
<1>5. OpPlacesOf("compile_bool")
  <2>1. Len(Ops["compile_bool"]) = 4
    BY DEF Ops
  <2>2. \A i \in {1, 2, 3, 4} : OpPlaces("compile_bool", i, Ops["compile_bool"][i])
    BY DEF Ops, OpPlaces, Leaves, Unaries
  <2> QED BY <2>1, <2>2 DEF OpPlacesOf
<1>6. OpPlacesOf("compile_var")
  <2>1. Len(Ops["compile_var"]) = 4
    BY DEF Ops
  <2>2. \A i \in {1, 2, 3, 4} : OpPlaces("compile_var", i, Ops["compile_var"][i])
    BY DEF Ops, OpPlaces, Leaves, Unaries
  <2> QED BY <2>1, <2>2 DEF OpPlacesOf
<1>7. \A proc \in Unaries : OpPlacesOf(proc)
  <2>1. \A proc \in Unaries : Ops[proc] = <<"consume", "term", "consume", "emit">>
                              /\ Leaves[proc] = <<0, 0, 1, 1, 1>>
    BY DEF Unaries, Ops, Leaves
  <2>2. ASSUME NEW proc \in Unaries PROVE OpPlacesOf(proc)
    <3>1. Len(Ops[proc]) = 4
      BY <2>1
    <3>2. \A i \in {1, 2, 3, 4} : OpPlaces(proc, i, Ops[proc][i])
      BY <2>1 DEF OpPlaces, Unaries
    <3> QED BY <3>1, <3>2 DEF OpPlacesOf
  <2> QED BY <2>2
<1>8. OpPlacesOf("compile_tuple")
  <2>1. Len(Ops["compile_tuple"]) = 6
    BY DEF Ops
  <2>2. \A i \in {1, 2, 3, 4, 5, 6} : OpPlaces("compile_tuple", i, Ops["compile_tuple"][i])
    BY DEF Ops, OpPlaces, Leaves, Unaries
  <2> QED BY <2>1, <2>2 DEF OpPlacesOf
<1>9. OpPlacesOf("compile_binary")
  <2>1. Len(Ops["compile_binary"]) = 9
    BY DEF Ops
  <2>2. \A i \in {1, 2, 3, 4, 5, 6, 7, 8, 9} :
          OpPlaces("compile_binary", i, Ops["compile_binary"][i])
    BY DEF Ops, OpPlaces, Leaves, Unaries
  <2> QED BY <2>1, <2>2 DEF OpPlacesOf
<1>10. OpPlacesOf("compile_call")
  <2>1. Len(Ops["compile_call"]) = 8
    BY DEF Ops
  <2>2. \A i \in {1, 2, 3, 4, 5, 6, 7, 8} :
          OpPlaces("compile_call", i, Ops["compile_call"][i])
    BY DEF Ops, OpPlaces, Leaves, Unaries
  <2> QED BY <2>1, <2>2 DEF OpPlacesOf
<1>11. OpPlacesOf("compile_if")
  <2>1. Len(Ops["compile_if"]) = 10
    BY DEF Ops
  <2>2. \A i \in {1, 2, 3, 4, 5, 6, 7, 8, 9, 10} :
          OpPlaces("compile_if", i, Ops["compile_if"][i])
    BY DEF Ops, OpPlaces, Leaves, Unaries
  <2> QED BY <2>1, <2>2 DEF OpPlacesOf
<1>12. OpPlacesOf("compile_function")
  <2>1. Len(Ops["compile_function"]) = 10
    BY DEF Ops
  <2>2. \A i \in {1, 2, 3, 4, 5, 6, 7, 8, 9, 10} :
          OpPlaces("compile_function", i, Ops["compile_function"][i])
    BY DEF Ops, OpPlaces, Leaves, Unaries
  <2> QED BY <2>1, <2>2 DEF OpPlacesOf
<1>13. OpPlacesOf("compile_parameter")
  <2>1. Len(Ops["compile_parameter"]) = 4
    BY DEF Ops
  <2>2. \A i \in {1, 2, 3, 4} : OpPlaces("compile_parameter", i, Ops["compile_parameter"][i])
    BY DEF Ops, OpPlaces, Leaves, Unaries
  <2> QED BY <2>1, <2>2 DEF OpPlacesOf
<1>14. OpPlacesOf("compile_let")
  <2>1. Len(Ops["compile_let"]) = 7
    BY DEF Ops
  <2>2. \A i \in {1, 2, 3, 4, 5, 6, 7} : OpPlaces("compile_let", i, Ops["compile_let"][i])
    BY DEF Ops, OpPlaces, Leaves, Unaries
  <2> QED BY <2>1, <2>2 DEF OpPlacesOf
<1> QED BY <1>1, <1>2, <1>3, <1>4, <1>5, <1>6, <1>7, <1>8, <1>9, <1>10, <1>11, <1>12,
           <1>13, <1>14 DEF Procs, Unaries

LEMMA DoingPlace ==
  ASSUME CInv, NEW op, Doing(op)
  PROVE  /\ current.proc \in Procs /\ current.pc \in 1..Len(Ops[current.proc])
         /\ OpPlaces(current.proc, current.pc, op)
<1>1. /\ current.proc \in Procs /\ current.pc \in 1..Len(Script[current.proc])
      /\ item.op = op
  BY DoingFacts, ProcsAre
<1>2. /\ current.pc \in 1..Len(Ops[current.proc])
      /\ Script[current.proc][current.pc].op = Ops[current.proc][current.pc]
  BY <1>1, OpsAre DEF OpsOf
<1>3. Ops[current.proc][current.pc] = op
  BY <1>1, <1>2 DEF item
<1> QED BY <1>1, <1>2, <1>3, OpPlacesAre DEF OpPlacesOf

-----------------------------------------------------------------------------
(* What a step does to the C stack.                                        *)

TermProcs == Procs \ {"compile_file", "compile_term", "compile_parameter"}

(* The running function goes on as act.                                    *)
Moves(op, act) ==
  /\ Doing(op) /\ Become(act) /\ act \in ActivationOf
  /\ act.proc = current.proc /\ act.comp = current.comp
  /\ \/ act.pc = current.pc + 1
     \/ op = "first_item" /\ act.pc = current.pc + 3
     \/ op = "next_item" /\ act.pc = current.pc - 1
  /\ act.count = IF op = "next_item" THEN (current.count + 1) % (UINT8_MAX + 1)
                                     ELSE current.count
  /\ op \notin {"jump_if_false", "jump_over", "patch_jump"} => act.jump = current.jump
  /\ op \notin {"keep", "keep_bool"} => act.token = current.token
  /\ op \in {"keep", "keep_bool"} => act.token = token

(* What an operation may call.                                             *)
Asks(op, proc) ==
  \/ op = "call" /\ proc = "compile_parameter"
  \/ op = "term" /\ proc = "compile_term"
  \/ op = "dispatch" /\ proc \in TermProcs

LEMMA AdvanceMoves ==
  ASSUME CInv, NEW op, Doing(op), Advance,
         op \notin {"next_item", "keep", "keep_bool"}
  PROVE  \E act : Moves(op, act) /\ act.pc = current.pc + 1 /\ act.jump = current.jump
<1>1. current \in ActivationOf
  BY DoingFacts, CurrentFacts
<1>2. PICK act : act = [current EXCEPT !.pc = @ + 1]
  OBVIOUS
<1>3. /\ act \in ActivationOf /\ act.proc = current.proc /\ act.comp = current.comp
      /\ act.pc = current.pc + 1 /\ act.count = current.count /\ act.jump = current.jump
      /\ act.token = current.token
  BY <1>1, <1>2 DEF ActivationOf
<1>4. Become(act)
  BY <1>2 DEF Advance
<1>5. Moves(op, act)
  BY <1>3, <1>4 DEF Moves
<1> QED BY <1>3, <1>5

Quiet == {"consume", "keep", "keep_bool", "first_item", "next_item", "operator"}

Emitting == {"emit", "emit_int", "emit_str", "emit_call",
             "jump_if_false", "jump_over", "patch_jump"}

(* A step that changes nothing here.                                       *)
Stops == UNCHANGED <<emit, calls, comps, functions, strs>>

LEMMA StopsWhen ==
  ASSUME \/ UNCHANGED cvars \/ OutOfMemory \/ Undefined
         \/ (\E error : Fail(error)) \/ (\E n : result_unexpected_token_error(n))
  PROVE  Stops
BY Zenon DEF Stops, cvars, OutOfMemory, Undefined, Fail, FailAt, result_unexpected_token_error

LEMMA NextTokenMoves ==
  ASSUME CInv, NEW op, Doing(op), NEW n, NEW act, next_token(n, act),
         Become(act) => Moves(op, act)
  PROVE  Stops \/ (Moves(op, act) /\ UNCHANGED <<emit, comps, functions, strs>>)
<1>1. CASE result_unexpected_token_error(n)
  BY <1>1, StopsWhen
<1>2. CASE Become(act) /\ UNCHANGED <<emit, comps, functions, strs>>
  BY <1>2
<1> QED BY <1>1, <1>2 DEF next_token

QuietStep ==
  \E op \in Quiet : \E act : Moves(op, act) /\ UNCHANGED <<emit, comps, functions, strs>>

LEMMA QuietSteps ==
  ASSUME CInv, consume \/ keep \/ keep_bool \/ first_item \/ next_item \/ operator
  PROVE  Stops \/ QuietStep
<1>1. CASE consume
  <2>1. Doing("consume") /\ current \in ActivationOf
    BY <1>1, DoingFacts, CurrentFacts DEF consume
  <2>2. PICK act : act = [current EXCEPT !.pc = @ + 1]
    OBVIOUS
  <2>3. Become(act) => Moves("consume", act)
    BY <2>1, <2>2 DEF ActivationOf, Moves
  <2>4. (\E n : result_unexpected_token_error(n)) \/ (\E n : next_token(n, act))
    BY <1>1, <2>2 DEF consume
  <2> QED BY <2>1, <2>3, <2>4, StopsWhen, NextTokenMoves DEF QuietStep, Quiet
<1>2. CASE keep \/ keep_bool
  <2>1. PICK op \in {"keep", "keep_bool"} : Doing(op)
    BY <1>2 DEF keep, keep_bool
  <2>2. current \in ActivationOf
    BY <2>1, DoingFacts, CurrentFacts
  <2>3. PICK act : act = [current EXCEPT !.pc = @ + 1, !.token = token]
    OBVIOUS
  <2>4. \/ \E n : result_unexpected_token_error(n)
        \/ (\E n : next_token(n, act)) /\ token.kind # "behind"
    <3>1. op = "keep" => item.arg \in {"STRING", "INT"}
      BY <2>1, DoingFacts, ItemArgs
    <3>2. CASE keep
      BY <2>1, <2>3, <3>1, <3>2 DEF keep, Doing
    <3>3. CASE keep_bool
      BY <2>3, <3>3 DEF keep_bool
    <3> QED BY <1>2, <3>2, <3>3
  <2>5. CASE (\E n : next_token(n, act)) /\ token.kind # "behind"
    <3>1. PICK t \in TokenOf : t = token
      BY <2>5, TokenTypes DEF token, CInv
    <3>6. PICK p \in Nat \ {0} : p = current.pc + 1
      BY <2>2 DEF ActivationOf
    <3>4. act = [current EXCEPT !.pc = p, !.token = t]
      BY <2>3, <3>1, <3>6
    <3>5. act \in ActivationOf
      BY Zenon, <2>2, <3>4, UpdateToken
    <3>2. /\ act \in ActivationOf /\ act.proc = current.proc /\ act.comp = current.comp
          /\ act.pc = current.pc + 1 /\ act.count = current.count
          /\ act.jump = current.jump /\ act.token = t
      BY <2>2, <3>4, <3>5, <3>6 DEF ActivationOf
    <3>3. Become(act) => Moves(op, act)
      BY <2>1, <3>1, <3>2 DEF Moves
    <3> QED BY <2>1, <2>5, <3>3, NextTokenMoves DEF QuietStep, Quiet
  <2> QED BY <2>4, <2>5, StopsWhen
<1>3. CASE first_item
  <2>1. Doing("first_item") /\ current \in ActivationOf
    BY <1>3, DoingFacts, CurrentFacts DEF first_item
  <2>2. PICK act : act = [current EXCEPT !.pc = @ + 3]
    OBVIOUS
  <2>3. Become(act) => Moves("first_item", act)
    BY <2>1, <2>2 DEF ActivationOf, Moves
  <2>4. \/ \E n : next_token(n, act)
        \/ Advance /\ UNCHANGED <<emit, comps, functions, strs>>
    BY <1>3, <2>2 DEF first_item, steady
  <2>5. CASE Advance /\ UNCHANGED <<emit, comps, functions, strs>>
    BY <2>1, <2>5, AdvanceMoves DEF QuietStep, Quiet
  <2> QED BY <2>1, <2>3, <2>4, <2>5, NextTokenMoves DEF QuietStep, Quiet
<1>4. CASE next_item
  <2>1. Doing("next_item") /\ current \in ActivationOf
    BY Zenon, <1>4, DoingFacts, CurrentFacts DEF next_item
  <2>2. PICK m \in 0..UINT8_MAX : m = (current.count + 1) % (UINT8_MAX + 1)
    <3>1. current.count \in 0..UINT8_MAX
      BY <2>1 DEF ActivationOf
    <3>2. current.count + 1 \in Nat
      BY <3>1, Bytes
    <3> QED BY <3>2, Bytes
  <2>3. PICK a : a = [current EXCEPT !.count = m]
    OBVIOUS
  <2>4. PICK next, back : next = [a EXCEPT !.pc = @ + 1] /\ back = [a EXCEPT !.pc = @ - 1]
    OBVIOUS
  <2>5. \/ \E k : result_unexpected_token_error(k)
        \/ \E k : next_token(k, next)
        \/ \E k : next_token(k, back)
    BY Zenon, <1>4, <2>2, <2>3, <2>4 DEF next_item, Counted
  <2>6. current.pc - 1 \in Nat \ {0} /\ current.pc + 1 \in Nat \ {0}
    <3>1. \/ current.pc = 6
          \/ current.pc = 5
      BY <2>1, DoingPlace DEF OpPlaces
    <3> QED BY <3>1
  <2>7. /\ next \in ActivationOf /\ back \in ActivationOf
        /\ next.pc = current.pc + 1 /\ back.pc = current.pc - 1
        /\ \A act \in {next, back} :
             /\ act.proc = current.proc /\ act.comp = current.comp /\ act.count = m
             /\ act.jump = current.jump /\ act.token = current.token
    BY ZenonT(60), <2>1, <2>2, <2>3, <2>4, <2>6 DEF ActivationOf
  <2>8. \A act \in {next, back} : Become(act) => Moves("next_item", act)
    BY <2>1, <2>2, <2>7 DEF Moves
  <2> QED BY <2>1, <2>5, <2>8, StopsWhen, NextTokenMoves DEF QuietStep, Quiet
<1>5. CASE operator
  <2>1. Doing("operator")
    BY Zenon, <1>5 DEF operator
  <2>2. (\E error : Fail(error)) \/ (Advance /\ UNCHANGED <<emit, comps, functions, strs>>)
    BY Zenon, <1>5 DEF operator, steady
  <2> QED BY <2>1, <2>2, StopsWhen, AdvanceMoves DEF QuietStep, Quiet
<1> QED BY <1>1, <1>2, <1>3, <1>4, <1>5

EnterStep ==
  \E op \in {"call", "term", "dispatch"} : \E proc, isTail :
    Doing(op) /\ Asks(op, proc) /\ Enter(proc, isTail)

LEMMA TermKinds == \A i \in DOMAIN Kinds : Kinds[i][2] \in TermProcs
<1>1. Len(Kinds) = 13 /\ DOMAIN Kinds = 1..13
  BY DEF Kinds
<1>2. \A i \in {1, 2, 3, 4, 5, 6, 7, 8, 9, 10, 11, 12, 13} : Kinds[i][2] \in TermProcs
  BY DEF Kinds, TermProcs, Procs
<1> QED BY <1>1, <1>2

LEMMA EnterSteps ==
  ASSUME CInv, call \/ term \/ dispatch
  PROVE  Stops \/ EnterStep
<1>1. CASE call
  <2>1. Doing("call") /\ Enter(item.arg, FALSE)
    BY <1>1 DEF call
  <2>2. item.arg = "compile_parameter"
    BY <2>1, DoingFacts, ItemArgs
  <2> QED BY <2>1, <2>2 DEF EnterStep, Asks
<1>2. CASE term
  BY <1>2 DEF term, EnterStep, Asks
<1>3. CASE dispatch
  <2>1. ASSUME NEW i \in Matches(Kinds, current.token.text), Enter(Kinds[i][2], current.isTail)
        PROVE  EnterStep
    <3>1. i \in DOMAIN Kinds
      BY DEF Matches
    <3>2. Doing("dispatch") /\ Kinds[i][2] \in TermProcs
      BY <1>3, <3>1, TermKinds DEF dispatch
    <3> QED BY <2>1, <3>2 DEF EnterStep, Asks
  <2> QED BY <1>3, <2>1, StopsWhen DEF dispatch
<1> QED BY <1>1, <1>2, <1>3

(* Where nothing is emitted, the places that would only go on.             *)
IdleStep ==
  \E op \in Emitting : \E act :
    ~emit /\ Moves(op, act) /\ UNCHANGED <<emit, comps, functions, strs>>

(* The innermost function, once a constant has been added to it.           *)
WithConstant(v) ==
  [fn EXCEPT !.constants = Append(@, v),
             !.code = @ \o <<OpCode("OP_CONSTANT"), Len(fn.constants)>>]

WithCode(bytes) == [fn EXCEPT !.code = @ \o bytes]

(* What is emitted where.                                                  *)
Wrote(op, act, new) ==
  \/ op = "emit" /\ new = WithCode(<<OpCode(Operation)>>) /\ strs' = strs
  \/ /\ op = "emit_int" /\ current.token.num <= UINT16_MAX
     /\ new = WithCode(<<OpCode("OP_INT")>> \o WordBytes(current.token.num))
     /\ strs' = strs
  \/ /\ op = "emit_int" /\ Len(fn.constants) <= UINT8_MAX
     /\ ~(current.token.num > INT_MAX)
     /\ new = WithConstant(int_value(current.token.num))
     /\ strs' = strs
  \/ /\ op = "emit_str" /\ Len(fn.constants) <= UINT8_MAX
     /\ new = WithConstant(str_value(Len(strs) + 1))
     /\ strs' = Append(strs, Chars(current.token.text))
  \/ /\ op = "emit_call"
     /\ new = WithCode(<<OpCode(IF current.isTail THEN "OP_TAIL_CALL" ELSE "OP_CALL"),
                         current.count>>)
     /\ strs' = strs
  \/ /\ op = "jump_if_false" /\ new = WithCode(emit_jump("OP_JUMP_IF_FALSE"))
     /\ act.jump = Len(fn.code) + 1 /\ strs' = strs
  \/ /\ op = "jump_over" /\ Len(fn.code \o emit_jump("OP_JUMP")) <= UINT16_MAX
     /\ new = [fn EXCEPT !.code = patch_jump(fn.code \o emit_jump("OP_JUMP"), current.jump)]
     /\ act.jump = Len(fn.code) + 1 /\ strs' = strs
  \/ /\ op = "patch_jump" /\ Len(fn.code) <= UINT16_MAX
     /\ new = [fn EXCEPT !.code = patch_jump(fn.code, current.jump)]
     /\ act.jump = NoJump /\ strs' = strs

WriteStep ==
  \E op \in Emitting : \E act, new :
    /\ emit /\ Moves(op, act) /\ Rewrite(new) /\ Wrote(op, act, new)
    /\ UNCHANGED <<emit, comps>>

LEMMA EmissionSteps ==
  ASSUME CInv, NEW op \in Emitting, Doing(op), NEW step, Emission(step),
         emit /\ step => Stops \/ WriteStep
  PROVE  Stops \/ WriteStep \/ IdleStep
<1>1. CASE ~emit /\ Advance /\ UNCHANGED <<steady, pos, comps, functions, strs>>
  BY <1>1, AdvanceMoves DEF IdleStep, Emitting, steady
<1>2. CASE emit /\ OutOfMemory
  BY <1>2, StopsWhen
<1> QED BY <1>1, <1>2 DEF Emission

LEMMA EmitBytesSteps ==
  ASSUME CInv, NEW op \in Emitting, Doing(op), emit, NEW bytes, EmitBytes(bytes),
         \A act : op \notin {"jump_if_false", "jump_over", "patch_jump"}
                    /\ (strs' = strs => Wrote(op, act, WithCode(bytes)))
  PROVE  WriteStep
<1>1. Advance /\ Rewrite(WithCode(bytes)) /\ UNCHANGED <<emit, comps, strs>>
  BY DEF EmitBytes, WithCode, steady
<1>2. op \notin {"next_item", "keep", "keep_bool"}
  BY DEF Emitting
<1>3. PICK act : Moves(op, act)
  BY <1>1, <1>2, AdvanceMoves
<1> QED BY <1>1, <1>3 DEF WriteStep

LEMMA ConstantSteps ==
  ASSUME CInv, NEW op \in Emitting, Doing(op), emit, NEW v, NEW newStrs,
         add_constant(v, newStrs),
         \A act : strs' = newStrs /\ Len(fn.constants) <= UINT8_MAX =>
                    Wrote(op, act, WithConstant(v))
  PROVE  Stops \/ WriteStep
<1>1. CASE Fail("too many constants")
  BY Zenon, <1>1, StopsWhen
<1>2. CASE ~(Len(fn.constants) > UINT8_MAX)
  <2>1. Advance /\ Rewrite(WithConstant(v)) /\ UNCHANGED <<emit, comps>> /\ strs' = newStrs
    BY Zenon, <1>2 DEF add_constant, WithConstant, steady
  <2>2. Len(fn.constants) \in Nat /\ UINT8_MAX \in Nat
    BY DoingFacts, CurrentFacts, LenProperties, Bytes DEF FunctionOf
  <2>3. op \notin {"next_item", "keep", "keep_bool"}
    BY DEF Emitting
  <2>4. PICK act : Moves(op, act)
    BY <2>1, <2>3, AdvanceMoves
  <2>5. Wrote(op, act, WithConstant(v))
    BY <1>2, <2>1, <2>2
  <2> QED BY <2>1, <2>4, <2>5 DEF WriteStep
<1>3. CASE Len(fn.constants) > UINT8_MAX
  BY Zenon, <1>1, <1>3 DEF add_constant
<1> QED BY <1>2, <1>3

LEMMA WriteSteps ==
  ASSUME CInv, chunk_emit_byte \/ emit_int \/ emit_str \/ emit_call
  PROVE  Stops \/ WriteStep \/ IdleStep
<1>1. CASE chunk_emit_byte
  <2>1. Doing("emit") /\ "emit" \in Emitting
    BY <1>1 DEF chunk_emit_byte, Emitting
  <2>2. PICK bytes : bytes = <<OpCode(Operation)>>
    OBVIOUS
  <2>3. \A act : strs' = strs => Wrote("emit", act, WithCode(bytes))
    BY <2>2 DEF Wrote
  <2>4. emit /\ EmitBytes(bytes) => WriteStep
    BY <2>1, <2>3, EmitBytesSteps
  <2>5. Emission(EmitBytes(bytes))
    BY <1>1, <2>2 DEF chunk_emit_byte
  <2> QED BY <2>1, <2>4, <2>5, EmissionSteps
<1>2. CASE emit_int
  <2>1. Doing("emit_int") /\ "emit_int" \in Emitting
    BY Zenon, <1>2 DEF emit_int, Emitting
  <2>2. PICK data : data = current.token.num
    OBVIOUS
  <2>3. PICK bytes : bytes = <<OpCode("OP_INT")>> \o WordBytes(data)
    OBVIOUS
  <2>4. ASSUME emit, data <= UINT16_MAX, EmitBytes(bytes) PROVE WriteStep
    <3>1. \A act : strs' = strs => Wrote("emit_int", act, WithCode(bytes))
      BY <2>2, <2>3, <2>4 DEF Wrote
    <3> QED BY <2>1, <2>4, <3>1, EmitBytesSteps
  <2>5. ASSUME emit, ~(data > INT_MAX), add_constant(int_value(data), strs)
        PROVE  Stops \/ WriteStep
    <3>1. \A act : strs' = strs /\ Len(fn.constants) <= UINT8_MAX =>
                     Wrote("emit_int", act, WithConstant(int_value(data)))
      BY <2>2, <2>5 DEF Wrote
    <3> QED BY <2>1, <2>5, <3>1, ConstantSteps
  <2>6. Fail("integer overflow") => Stops
    BY Zenon, StopsWhen
  <2>7. emit /\ (IF data > INT_MAX THEN Fail("integer overflow")
                 ELSE IF data <= UINT16_MAX THEN EmitBytes(bytes)
                      ELSE add_constant(int_value(data), strs)) => Stops \/ WriteStep
    BY Zenon, <2>4, <2>5, <2>6
  <2>8. Emission(IF data > INT_MAX THEN Fail("integer overflow")
                 ELSE IF data <= UINT16_MAX THEN EmitBytes(bytes)
                      ELSE add_constant(int_value(data), strs))
    BY Zenon, <1>2, <2>2, <2>3 DEF emit_int
  <2> QED BY Zenon, <2>1, <2>7, <2>8, EmissionSteps
<1>3. CASE emit_str
  <2>1. Doing("emit_str") /\ "emit_str" \in Emitting
    BY <1>3 DEF emit_str, Emitting
  <2>2. PICK newStrs, v : newStrs = Append(strs, Chars(current.token.text))
                            /\ v = str_value(Len(strs) + 1)
    OBVIOUS
  <2>3. \A act : strs' = newStrs /\ Len(fn.constants) <= UINT8_MAX =>
                   Wrote("emit_str", act, WithConstant(v))
    BY <2>2 DEF Wrote
  <2>4. emit /\ add_constant(v, newStrs) => Stops \/ WriteStep
    BY <2>1, <2>3, ConstantSteps
  <2>5. Emission(add_constant(v, newStrs))
    BY <1>3, <2>2 DEF emit_str
  <2> QED BY <2>1, <2>4, <2>5, EmissionSteps
<1>4. CASE emit_call
  <2>1. Doing("emit_call") /\ "emit_call" \in Emitting
    BY <1>4 DEF emit_call, Emitting
  <2>2. PICK bytes : bytes = <<OpCode(IF current.isTail THEN "OP_TAIL_CALL" ELSE "OP_CALL"),
                               current.count>>
    OBVIOUS
  <2>3. \A act : strs' = strs => Wrote("emit_call", act, WithCode(bytes))
    BY <2>2 DEF Wrote
  <2>4. emit /\ EmitBytes(bytes) => WriteStep
    BY <2>1, <2>3, EmitBytesSteps
  <2>5. Emission(EmitBytes(bytes))
    BY <1>4, <2>2 DEF emit_call
  <2> QED BY <2>1, <2>4, <2>5, EmissionSteps
<1> QED BY <1>1, <1>2, <1>3, <1>4

LEMMA PatchSteps ==
  ASSUME CInv, emit, NEW op \in {"jump_over", "patch_jump"}, Doing(op),
         NEW code, NEW next \in {NoJump} \cup Nat, Patch(code, next),
         \A act : act.jump = next /\ strs' = strs /\ Len(code) <= UINT16_MAX =>
                    Wrote(op, act, [fn EXCEPT !.code = patch_jump(code, current.jump)]),
         Len(code) \in Nat
  PROVE  Stops \/ WriteStep
<1>1. CASE Fail("too much code to jump over")
  BY Zenon, <1>1, StopsWhen
<1>2. CASE ~(Len(code) > UINT16_MAX)
  <2>1. current \in ActivationOf
    BY DoingFacts, CurrentFacts
  <2>2. PICK new : new = [fn EXCEPT !.code = patch_jump(code, current.jump)]
    OBVIOUS
  <2>3. PICK p \in Nat \ {0} : p = current.pc + 1
    BY <2>1 DEF ActivationOf
  <2>4. PICK act : act = [current EXCEPT !.pc = p, !.jump = next]
    OBVIOUS
  <2>5. act \in ActivationOf
    BY Zenon, <2>1, <2>3, <2>4, UpdateJump
  <2>6. /\ act.proc = current.proc /\ act.comp = current.comp /\ act.pc = current.pc + 1
        /\ act.count = current.count /\ act.token = current.token /\ act.jump = next
    BY <2>1, <2>3, <2>4, <2>5 DEF ActivationOf
  <2>7. Rewrite(new) /\ Become(act) /\ UNCHANGED <<emit, comps, strs>>
    BY <1>2, <2>2, <2>3, <2>4 DEF Patch, steady
  <2>8. Moves(op, act)
    BY <2>5, <2>6, <2>7 DEF Moves
  <2>9. Len(code) <= UINT16_MAX
    <3>1. UINT16_MAX \in Int
      BY Bytes DEF UINT16_MAX
    <3> QED BY <1>2, <3>1
  <2>10. Wrote(op, act, new)
    BY <2>2, <2>6, <2>7, <2>9
  <2> QED BY <2>7, <2>8, <2>10 DEF WriteStep, Emitting
<1>3. CASE Len(code) > UINT16_MAX
  BY Zenon, <1>1, <1>3 DEF Patch
<1> QED BY <1>2, <1>3

LEMMA JumpSteps ==
  ASSUME CInv, jump_if_false \/ jump_over \/ jump_target
  PROVE  Stops \/ WriteStep \/ IdleStep
<1>0. ASSUME calls # <<>>
      PROVE  /\ fn \in FunctionOf /\ fn.code \in Seq(Byte)
             /\ Len(fn.code) \in Nat /\ Len(fn.code) + 1 \in Nat
             /\ Len(fn.code \o emit_jump("OP_JUMP")) \in Nat
  <2>1. fn \in FunctionOf
    BY <1>0, CurrentFacts
  <2>2. fn.code \in Seq(Byte) /\ emit_jump("OP_JUMP") \in Seq(Byte)
    BY <2>1, JumpBytes DEF FunctionOf, Byte
  <2>3. fn.code \o emit_jump("OP_JUMP") \in Seq(Byte)
    BY <2>2, ConcatProperties
  <2> QED BY <2>1, <2>2, <2>3, LenProperties
<1>1. CASE jump_if_false
  <2>1. Doing("jump_if_false") /\ calls # <<>>
    BY <1>1 DEF jump_if_false, Doing
  <2>2. ASSUME emit,
               Rewrite([fn EXCEPT !.code = @ \o emit_jump("OP_JUMP_IF_FALSE")]),
               Become([current EXCEPT !.pc = @ + 1, !.jump = Len(fn.code) + 1]),
               UNCHANGED <<steady, pos, comps, strs>>
        PROVE  WriteStep
    <3>1. current \in ActivationOf
      BY <2>1, CurrentFacts
    <3>2. PICK p \in Nat \ {0}, j \in Nat : p = current.pc + 1 /\ j = Len(fn.code) + 1
      BY <1>0, <2>1, <3>1 DEF ActivationOf
    <3>3. PICK act : act = [current EXCEPT !.pc = p, !.jump = j]
      OBVIOUS
    <3>4. act \in ActivationOf
      BY Zenon, <3>1, <3>2, <3>3, UpdateJump
    <3>5. /\ act.proc = current.proc /\ act.comp = current.comp /\ act.pc = current.pc + 1
          /\ act.count = current.count /\ act.token = current.token /\ act.jump = j
      BY <3>1, <3>2, <3>3, <3>4 DEF ActivationOf
    <3>6. Become(act)
      BY <2>2, <3>2, <3>3
    <3>7. Moves("jump_if_false", act)
      BY <2>1, <3>4, <3>5, <3>6 DEF Moves
    <3>8. Wrote("jump_if_false", act, WithCode(emit_jump("OP_JUMP_IF_FALSE")))
      BY <2>2, <3>2, <3>5 DEF Wrote
    <3> QED BY <2>2, <3>7, <3>8 DEF WriteStep, Emitting, WithCode, steady
  <2> QED BY <1>1, <2>1, <2>2, EmissionSteps DEF jump_if_false, Emitting
<1>2. CASE jump_over
  <2>1. Doing("jump_over") /\ calls # <<>>
    BY <1>2 DEF jump_over, Doing
  <2>2. ASSUME emit, Patch(fn.code \o emit_jump("OP_JUMP"), Len(fn.code) + 1)
        PROVE  Stops \/ WriteStep
    <3>0. PICK code : code = fn.code \o emit_jump("OP_JUMP")
      OBVIOUS
    <3>1. PICK next \in Nat : next = Len(fn.code) + 1 /\ code = fn.code \o emit_jump("OP_JUMP")
      BY <1>0, <2>1, <3>0
    <3>2. \A act : act.jump = next /\ strs' = strs /\ Len(code) <= UINT16_MAX =>
            Wrote("jump_over", act, [fn EXCEPT !.code = patch_jump(code, current.jump)])
      BY <3>1 DEF Wrote
    <3>3. Len(code) \in Nat /\ Patch(code, next)
      BY <1>0, <2>1, <2>2, <3>1
    <3> QED BY <2>1, <2>2, <3>2, <3>3, PatchSteps
  <2> QED BY <1>2, <2>1, <2>2, EmissionSteps DEF jump_over, Emitting
<1>3. CASE jump_target
  <2>1. Doing("patch_jump") /\ calls # <<>>
    BY <1>3 DEF jump_target, Doing
  <2>2. ASSUME emit, Patch(fn.code, NoJump) PROVE Stops \/ WriteStep
    <3>1. PICK code, next : code = fn.code /\ next = NoJump
      OBVIOUS
    <3>2. \A act : act.jump = next /\ strs' = strs /\ Len(code) <= UINT16_MAX =>
            Wrote("patch_jump", act, [fn EXCEPT !.code = patch_jump(code, current.jump)])
      BY <3>1 DEF Wrote
    <3>3. Len(code) \in Nat /\ Patch(code, next) /\ next \in {NoJump} \cup Nat
      BY <1>0, <2>1, <2>2, <3>1
    <3> QED BY <2>1, <2>2, <3>2, <3>3, PatchSteps
  <2> QED BY <1>3, <2>1, <2>2, EmissionSteps DEF jump_target, Emitting
<1> QED BY <1>1, <1>2, <1>3

(* The steps that open, close and declare.                                 *)
OpenStep ==
  \E act :
    /\ Moves("open_function", act)
    /\ functions' = Append(functions, NewFunction)
    /\ comps' = Append(comps, compiler_init(Len(functions) + 1))
    /\ UNCHANGED <<emit, strs>>

ArityStep ==
  \E act :
    /\ Moves("set_arity", act)
    /\ Rewrite([fn EXCEPT !.arity = current.count])
    /\ UNCHANGED <<emit, comps, strs>>

CloseStep ==
  \E act :
    /\ Moves("close_function", act)
    /\ functions' =
         IF ~emit THEN functions
         ELSE [functions EXCEPT
                 ![comp.fn].code = Append(@, OpCode("OP_RETURN")),
                 ![comps[current.comp].fn] = WithChild(@, comp.fn)]
    /\ comps' = SubSeq(comps, 1, Len(comps) - 1)
    /\ UNCHANGED <<emit, strs>>

DeclareStep ==
  \E act :
    /\ Moves("add_local", act)
    /\ Fits(comp)
    /\ comps' = [comps EXCEPT ![Len(comps)] = Declared(comp, current.token.text)]
    /\ UNCHANGED <<emit, functions, strs>>

(* The name is that of a variable of record d and of none below it.        *)
ResolveStep ==
  \E d \in 1..Len(comps) : \E act :
    LET name == current.token.text IN
    /\ Moves("var", act)
    /\ Known(comps[d], name) # {}
    /\ \A k \in (d + 1)..Len(comps) : Known(comps[k], name) = {} /\ Fits(comps[k])
    /\ functions' =
         [f \in DOMAIN functions |->
            LET g == Capturing(f, d, name)
            IN IF f # comp.fn THEN g
               ELSE [g EXCEPT !.code = @ \o Load(Resolved(Len(comps), d, name))]]
    /\ comps' =
         [k \in DOMAIN comps |->
            IF k \notin (d + 1)..Len(comps) THEN comps[k]
            ELSE [comps[k] EXCEPT !.variables = Append(@, Resolved(k, d, name))]]
    /\ UNCHANGED <<emit, strs>>

LEMMA RecordSteps ==
  ASSUME CInv, open_function \/ set_arity \/ close_function \/ add_local
  PROVE  Stops \/ OpenStep \/ ArityStep \/ CloseStep \/ DeclareStep
<1>1. CASE open_function
  <2>1. Doing("open_function")
    BY <1>1 DEF open_function
  <2>2. OutOfMemory \/ Advance
    BY <1>1 DEF open_function
  <2>3. CASE Advance
    <3>1. PICK act : Moves("open_function", act)
      BY <2>1, <2>3, AdvanceMoves
    <3> QED BY <1>1, <3>1, StopsWhen DEF open_function, OpenStep, steady
  <2> QED BY <2>2, <2>3, StopsWhen
<1>2. CASE set_arity
  <2>1. Doing("set_arity") /\ Advance
    BY <1>2 DEF set_arity
  <2>2. PICK act : Moves("set_arity", act)
    BY <2>1, AdvanceMoves
  <2> QED BY <1>2, <2>2 DEF set_arity, ArityStep, steady
<1>3. CASE close_function
  <2>1. Doing("close_function")
    BY <1>3 DEF close_function
  <2>2. OutOfMemory \/ Advance
    BY <1>3 DEF close_function
  <2>3. CASE Advance
    <3>1. PICK act : Moves("close_function", act)
      BY <2>1, <2>3, AdvanceMoves
    <3> QED BY <1>3, <3>1, StopsWhen DEF close_function, CloseStep, steady
  <2> QED BY <2>2, <2>3, StopsWhen
<1>4. CASE add_local
  <2>1. Doing("add_local")
    BY <1>4 DEF add_local
  <2>2. Undefined \/ Advance
    BY <1>4 DEF add_local
  <2>3. CASE Advance
    <3>1. PICK act : Moves("add_local", act)
      BY <2>1, <2>3, AdvanceMoves
    <3>2. CASE Fits(comp)
      BY <1>4, <3>1, <3>2 DEF add_local, DeclareStep, steady
    <3>3. CASE ~Fits(comp)
      BY <1>4, <3>3, StopsWhen DEF add_local
    <3> QED BY <3>2, <3>3
  <2> QED BY <2>2, <2>3, StopsWhen
<1> QED BY <1>1, <1>2, <1>3, <1>4

LEMMA ResolveSteps ==
  ASSUME CInv, resolve_variable
  PROVE  Stops \/ ResolveStep
<1>1. Doing("var")
  BY ZenonT(30) DEF resolve_variable
<1> DEFINE name  == current.token.text
           known == {k \in DOMAIN comps : Known(comps[k], name) # {}}
           d     == CHOOSE k \in known : \A j \in known : j <= k
           below == (d + 1)..Len(comps)
<1>10. \/ known = {} /\ Fail("variable is used but not defined")
       \/ known # {} /\ (emit \/ below # {}) /\ OutOfMemory
       \/ /\ known # {}
          /\ IF \E k \in below : ~Fits(comps[k]) THEN Undefined
             ELSE /\ functions' =
                       [f \in DOMAIN functions |->
                          LET g == Capturing(f, d, name)
                          IN IF f # comp.fn THEN g
                             ELSE [g EXCEPT !.code =
                                     @ \o Load(Resolved(Len(comps), d, name))]]
                  /\ comps' =
                       [k \in DOMAIN comps |->
                          IF k \notin below THEN comps[k]
                          ELSE [comps[k] EXCEPT !.variables =
                                  Append(@, Resolved(k, d, name))]]
                  /\ Advance
                  /\ UNCHANGED <<steady, pos, strs>>
  BY Zenon DEF resolve_variable
<1>2. name = current.token.text
  OBVIOUS
<1>3. known = {k \in DOMAIN comps : Known(comps[k], name) # {}}
  OBVIOUS
<1>4. d = CHOOSE k \in known : \A j \in known : j <= k
  OBVIOUS
<1>5. below = (d + 1)..Len(comps)
  OBVIOUS
<1> HIDE DEF name, known, d, below
<1>6. CASE (\E error : Fail(error)) \/ OutOfMemory \/ Undefined
  BY <1>6, StopsWhen
<1>7. CASE /\ known # {} /\ \A k \in below : Fits(comps[k])
           /\ functions' =
                [f \in DOMAIN functions |->
                   LET g == Capturing(f, d, name)
                   IN IF f # comp.fn THEN g
                      ELSE [g EXCEPT !.code =
                              @ \o Load(Resolved(Len(comps), d, name))]]
           /\ comps' =
                [k \in DOMAIN comps |->
                   IF k \notin below THEN comps[k]
                   ELSE [comps[k] EXCEPT !.variables =
                           Append(@, Resolved(k, d, name))]]
           /\ Advance
           /\ UNCHANGED <<steady, pos, strs>>
  <2>1. PICK n \in Nat : n = Len(comps) /\ DOMAIN comps = 1..n
    BY Zenon, RecordFacts
  <2>2. d \in known /\ \A j \in known : j <= d
    <3>1. known \subseteq 1..n /\ known # {}
      BY <1>3, <1>7, <2>1
    <3>2. \E k \in known : \A j \in known : j <= k
      BY <2>1, <3>1, GreatestElement
    <3> QED BY <1>4, <3>2
  <2>3. d \in 1..Len(comps) /\ Known(comps[d], name) # {}
    BY <1>3, <2>1, <2>2
  <2>4. ASSUME NEW k \in (d + 1)..Len(comps)
        PROVE  Known(comps[k], name) = {} /\ Fits(comps[k])
    <3>1. k \in below /\ k \in DOMAIN comps /\ ~(k <= d)
      BY <1>5, <2>1, <2>3
    <3> QED BY <1>3, <1>7, <2>2, <3>1
  <2>5. PICK act : Moves("var", act)
    BY <1>1, <1>7, AdvanceMoves
  <2> QED BY Zenon, <1>2, <1>5, <1>7, <2>3, <2>4, <2>5 DEF ResolveStep, steady
<1> QED BY Zenon, <1>6, <1>7, <1>10

StartStep ==
  /\ phase = "idle"
  /\ functions' = <<NewFunction>> /\ comps' = <<compiler_init(1)>>
  /\ calls' = <<[Activation("compile_file", FALSE) EXCEPT !.comp = 1]>>
  /\ UNCHANGED <<emit, strs>>

(* All that a step can be.                                                 *)
LEMMA Forms ==
  ASSUME CInv, [Next]_cvars
  PROVE  \/ Stops \/ StartStep \/ return \/ QuietStep \/ IdleStep \/ EnterStep \/ WriteStep
         \/ OpenStep \/ ArityStep \/ CloseStep \/ DeclareStep \/ ResolveStep
<1>1. start => Stops \/ StartStep
  BY StopsWhen DEF start, StartStep, Stops
<1>2. finish => Stops
  BY StopsWhen DEF finish, Stops
<1>3. UNCHANGED cvars => Stops
  BY StopsWhen
<1>4. \/ start \/ finish \/ consume \/ keep \/ keep_bool \/ first_item \/ next_item
      \/ call \/ term \/ dispatch \/ return \/ operator \/ add_local
      \/ UNCHANGED cvars
      \/ chunk_emit_byte \/ emit_int \/ emit_str \/ emit_call \/ jump_if_false \/ set_arity
      \/ open_function \/ close_function \/ resolve_variable
      \/ jump_over \/ jump_target
  BY DEF Next, Compile, Returned
<1> QED BY <1>1, <1>2, <1>3, <1>4, QuietSteps, EnterSteps, WriteSteps, JumpSteps,
           RecordSteps, ResolveSteps

-----------------------------------------------------------------------------
(* The C stack after a step.                                               *)

LEMMA CallsNow ==
  ASSUME CInv
  PROVE  /\ calls \in Seq(ActivationOf) /\ Len(calls) \in Nat
         /\ DOMAIN calls = 1..Len(calls)
         /\ calls = <<>> <=> Len(calls) = 0
         /\ calls # <<>> => depth = Len(calls) /\ current = calls[Len(calls)]
         /\ \A i \in 1..Len(calls) : calls[i] \in ActivationOf
BY EmptySeq, LenProperties DEF CInv, CallsInv, depth, current

LEMMA MovesShape ==
  ASSUME CInv, NEW op, NEW act, Moves(op, act)
  PROVE  /\ Len(calls) \in Nat \ {0} /\ calls # <<>>
         /\ DOMAIN calls = 1..Len(calls) /\ depth = Len(calls) /\ current = calls[Len(calls)]
         /\ DOMAIN calls' = 1..Len(calls) /\ Len(calls') = Len(calls)
         /\ \A i \in 1..Len(calls) : calls'[i] = IF i = Len(calls) THEN act ELSE calls[i]
<1>1. Doing(op) /\ calls # <<>>
  BY DEF Moves, Doing
<1>2. /\ depth = Len(calls) /\ current = calls[depth] /\ Len(calls) \in Nat \ {0}
      /\ DOMAIN calls = 1..Len(calls) /\ calls \in Seq(ActivationOf)
  BY <1>1, CurrentFacts, CallsNow
<1>3. calls' = [calls EXCEPT ![Len(calls)] = act] /\ act \in ActivationOf
  BY <1>2 DEF Moves, Become
<1> QED BY <1>1, <1>2, <1>3, ExceptSeq

LEMMA EnterShape ==
  ASSUME CInv, NEW op, Doing(op), NEW proc, NEW isTail, Enter(proc, isTail)
  PROVE  /\ Len(calls) \in Nat \ {0} /\ calls # <<>>
         /\ DOMAIN calls = 1..Len(calls) /\ depth = Len(calls) /\ current = calls[Len(calls)]
         /\ DOMAIN calls' = 1..(Len(calls) + 1) /\ Len(calls') = Len(calls) + 1
         /\ calls'[Len(calls) + 1] = Activation(proc, isTail)
         /\ calls'[Len(calls) + 1].proc = proc /\ calls'[Len(calls) + 1].pc = 1
         /\ calls'[Len(calls) + 1].comp = Len(comps) /\ calls'[Len(calls) + 1].count = 0
         /\ calls'[Len(calls) + 1].jump = NoJump
         /\ \A i \in 1..Len(calls) : i # Len(calls) => calls'[i] = calls[i]
         /\ calls'[Len(calls)] \in ActivationOf
         /\ calls'[Len(calls)].proc = current.proc
         /\ calls'[Len(calls)].pc = current.pc + 1
         /\ calls'[Len(calls)].comp = current.comp
         /\ calls'[Len(calls)].count = current.count
         /\ calls'[Len(calls)].jump = current.jump
         /\ calls'[Len(calls)].token = current.token
         /\ UNCHANGED <<emit, comps, functions, strs>>
<1>1. /\ calls # <<>> /\ current \in ActivationOf
      /\ depth = Len(calls) /\ Len(calls) \in Nat \ {0} /\ current = calls[depth]
      /\ calls \in Seq(ActivationOf) /\ DOMAIN calls = 1..Len(calls)
  BY DoingFacts, CurrentFacts, CallsNow
<1>2. PICK act : act = [current EXCEPT !.pc = @ + 1]
  OBVIOUS
<1>6. PICK p \in Nat \ {0} : p = current.pc + 1
  BY <1>1 DEF ActivationOf
<1>4. act = [current EXCEPT !.pc = p]
  BY <1>2, <1>6
<1>3. /\ act \in ActivationOf /\ act.proc = current.proc /\ act.comp = current.comp
      /\ act.pc = current.pc + 1 /\ act.jump = current.jump /\ act.count = current.count
      /\ act.token = current.token
  BY ZenonT(60), <1>1, <1>6, <1>4 DEF ActivationOf
<1>5. PICK new : new = Activation(proc, isTail)
  OBVIOUS
<1>15. /\ new.proc = proc /\ new.pc = 1 /\ new.comp = Len(comps) /\ new.count = 0
       /\ new.jump = NoJump
  BY Zenon, <1>5 DEF Activation
<1>7. PICK n \in Nat \ {0} : n = Len(calls)
  BY <1>1
<1>8. PICK S : S = ActivationOf \cup {act, new}
  OBVIOUS
<1>9. calls \in Seq(S)
  BY <1>1, <1>8, SeqMonotonic
<1>10. PICK base : base = [calls EXCEPT ![n] = act]
  OBVIOUS
<1>11. /\ base \in Seq(S) /\ Len(base) = n
       /\ \A i \in 1..n : base[i] = IF i = n THEN act ELSE calls[i]
  BY <1>7, <1>8, <1>9, <1>10, ExceptSeq
<1>12. calls' = Append(base, new)
  BY <1>1, <1>2, <1>5, <1>7, <1>10 DEF Enter
<1>13. /\ Len(calls') = n + 1 /\ calls'[n + 1] = new
       /\ DOMAIN calls' = 1..(n + 1)
       /\ \A i \in 1..n : calls'[i] = base[i]
  BY <1>7, <1>8, <1>9, <1>11, <1>12, AppendProperties, LenProperties
<1>14. UNCHANGED <<emit, comps, functions, strs>>
  BY DEF Enter, steady
<1> QED BY <1>1, <1>3, <1>5, <1>7, <1>11, <1>13, <1>14, <1>15

LEMMA ReturnShape ==
  ASSUME CInv, return
  PROVE  /\ Len(calls) \in Nat \ {0} /\ calls # <<>> /\ phase = "compiling"
         /\ Len(calls) - 1 \in Nat
         /\ DOMAIN calls = 1..Len(calls) /\ depth = Len(calls) /\ current = calls[Len(calls)]
         /\ DOMAIN calls' = 1..(Len(calls) - 1) /\ Len(calls') = Len(calls) - 1
         /\ \A i \in 1..(Len(calls) - 1) : calls'[i] = calls[i]
         /\ current.proc \in Procs /\ current.pc = Len(Ops[current.proc]) + 1
         /\ UNCHANGED <<emit, comps, functions, strs>>
<1>1. /\ calls # <<>> /\ current.pc > Len(Script[current.proc])
      /\ calls' = SubSeq(calls, 1, depth - 1)
      /\ UNCHANGED <<emit, comps, functions, strs>> /\ phase = "compiling"
  BY DEF return, steady
<1>2. /\ depth = Len(calls) /\ current = calls[depth] /\ calls \in Seq(ActivationOf)
      /\ current \in ActivationOf /\ ActivationOK(current, emit)
  BY <1>1, CurrentFacts DEF CInv, CallsInv
<1>3. PICK n \in Nat \ {0} : n = Len(calls) /\ n - 1 \in Nat
  BY <1>1, CurrentFacts
<1>4. DOMAIN calls = 1..n
  BY <1>2, <1>3, LenProperties
<1>5. /\ DOMAIN calls' = 1..(n - 1) /\ Len(calls') = n - 1
      /\ \A i \in 1..(n - 1) : calls'[i] = calls[i]
  BY <1>1, <1>2, <1>3, SubSeqProperties, LenProperties
<1>6. current.proc \in Procs /\ current.pc \in Nat
  BY <1>2, ProcsAre DEF ActivationOf
<1>7. Len(Script[current.proc]) = Len(Ops[current.proc]) /\ Len(Script[current.proc]) \in Nat
  BY <1>6, OpsAre, ProcsAre, PlainScripts, PlacedScripts, LenProperties DEF OpsOf
<1>8. current.pc <= Len(Script[current.proc]) + 1
  BY <1>2 DEF ActivationOK
<1> QED BY <1>1, <1>2, <1>3, <1>4, <1>5, <1>6, <1>7, <1>8

-----------------------------------------------------------------------------
(* Who calls whom.                                                         *)

(* b is what a has called at the place before that it is at.               *)
Waits(a, b) ==
  /\ a.pc - 1 \in 1..Len(Ops[a.proc])
  /\ Asks(Ops[a.proc][a.pc - 1], b.proc)

ChainedIn(s) ==
  \A i \in DOMAIN s :
    /\ i = 1 <=> s[i].proc = "compile_file"
    /\ i + 1 \in DOMAIN s => Waits(s[i], s[i + 1])

Chained == ChainedIn(calls)

LEMMA MovesOp ==
  ASSUME CInv, NEW op, Doing(op)
  PROVE  Ops[current.proc][current.pc] = op
<1>1. /\ current.proc \in Procs /\ current.pc \in 1..Len(Script[current.proc])
      /\ item.op = op
  BY DoingFacts, ProcsAre
<1>2. /\ current.pc \in 1..Len(Ops[current.proc])
      /\ Script[current.proc][current.pc].op = Ops[current.proc][current.pc]
  BY <1>1, OpsAre DEF OpsOf
<1> QED BY <1>1, <1>2 DEF item

LEMMA ChainedKept ==
  ASSUME CInv, Chained, [Next]_cvars
  PROVE  Chained'
<1>1. ASSUME NEW op, NEW act, Moves(op, act) PROVE Chained'
  <2>1. /\ DOMAIN calls = 1..Len(calls) /\ DOMAIN calls' = 1..Len(calls)
        /\ Len(calls) \in Nat \ {0} /\ current = calls[Len(calls)]
        /\ \A i \in 1..Len(calls) : calls'[i] = IF i = Len(calls) THEN act ELSE calls[i]
    BY <1>1, MovesShape
  <2>2. act.proc = current.proc
    BY <1>1 DEF Moves
  <2>3. \A i \in 1..Len(calls) : calls'[i].proc = calls[i].proc
    BY Zenon, <2>1, <2>2
  <2>4. ASSUME NEW i \in 1..Len(calls), i + 1 \in 1..Len(calls)
        PROVE  Waits(calls'[i], calls'[i + 1])
    <3>3. PICK n \in Nat : n = Len(calls)
      BY Zenon, <2>1
    <3>4. i # n /\ i \in 1..n
      BY <2>4, <3>3
    <3>1. calls'[i] = calls[i]
      BY ZenonT(60), <2>1, <3>3, <3>4
    <3>2. Waits(calls[i], calls[i + 1])
      BY Zenon, <2>1, <2>4 DEF Chained, ChainedIn
    <3> QED BY <2>3, <2>4, <3>1, <3>2 DEF Waits
  <2> QED BY Zenon, <2>1, <2>3, <2>4 DEF Chained, ChainedIn
<1>2. CASE Stops
  BY <1>2 DEF Stops, Chained, ChainedIn
<1>3. CASE StartStep
  <2>1. PICK first : first = [Activation("compile_file", FALSE) EXCEPT !.comp = 1]
    OBVIOUS
  <2>2. first.proc = "compile_file"
    BY Zenon, <2>1 DEF Activation
  <2>3. calls' = <<first>> /\ DOMAIN calls' = 1..1 /\ calls'[1] = first
    BY <1>3, <2>1 DEF StartStep
  <2> QED BY <2>2, <2>3 DEF Chained, ChainedIn
<1>4. CASE return
  <2>1. /\ DOMAIN calls = 1..Len(calls) /\ DOMAIN calls' = 1..(Len(calls) - 1)
        /\ Len(calls) \in Nat \ {0}
        /\ \A i \in 1..(Len(calls) - 1) : calls'[i] = calls[i]
    BY <1>4, ReturnShape
  <2>2. \A i \in 1..(Len(calls) - 1) : i \in 1..Len(calls)
    BY <2>1
  <2> QED BY <2>1, <2>2 DEF Chained, ChainedIn
<1>5. CASE EnterStep
  <2>0. PICK op \in {"call", "term", "dispatch"} : \E proc, isTail :
          Doing(op) /\ Asks(op, proc) /\ Enter(proc, isTail)
    BY <1>5 DEF EnterStep
  <2>1. PICK proc, isTail : Doing(op) /\ Asks(op, proc) /\ Enter(proc, isTail)
    BY <2>0
  <2>2. PICK n \in Nat \ {0} : n = Len(calls)
    BY <2>1, EnterShape
  <2>3. /\ DOMAIN calls = 1..n /\ current = calls[n]
        /\ DOMAIN calls' = 1..(n + 1) /\ calls'[n + 1] = Activation(proc, isTail)
        /\ \A i \in 1..n : i # n => calls'[i] = calls[i]
        /\ calls'[n].proc = current.proc /\ calls'[n].pc = current.pc + 1
    BY <2>1, <2>2, EnterShape
  <2>4. calls'[n + 1].proc = proc /\ proc # "compile_file"
    <3>1. calls'[n + 1].proc = proc
      BY <2>1, <2>2, EnterShape
    <3>2. proc # "compile_file"
      BY <2>1 DEF Asks, TermProcs
    <3> QED BY <3>1, <3>2
  <2>5. \A i \in 1..n : calls'[i].proc = calls[i].proc
    BY <2>3
  <2>6. Waits(calls'[n], calls'[n + 1])
    <3>1. current.pc \in 1..Len(Ops[current.proc]) /\ Ops[current.proc][current.pc] = op
      BY <2>1, DoingPlace, MovesOp
    <3>2. (current.pc + 1) - 1 = current.pc
      BY <3>1
    <3> QED BY <2>1, <2>3, <2>4, <3>1, <3>2 DEF Waits
  <2>7. ASSUME NEW i \in 1..n, i # n PROVE Waits(calls'[i], calls'[i + 1])
    <3>1. i + 1 \in 1..n /\ calls'[i] = calls[i] /\ Waits(calls[i], calls[i + 1])
      BY SMTT(60), <2>3, <2>7 DEF Chained, ChainedIn
    <3> QED BY <2>5, <3>1 DEF Waits
  <2>8. ASSUME NEW i \in 1..n PROVE i = 1 <=> calls'[i].proc = "compile_file"
    BY <2>3, <2>5 DEF Chained, ChainedIn
  <2>9. n + 1 # 1
    BY <2>2
  <2>10. ASSUME NEW i \in 1..(n + 1)
         PROVE  /\ i = 1 <=> calls'[i].proc = "compile_file"
                /\ i + 1 \in 1..(n + 1) => Waits(calls'[i], calls'[i + 1])
    <3>1. CASE i = n + 1
      BY <2>4, <2>9, <3>1
    <3>2. CASE i \in 1..n
      BY <2>6, <2>7, <2>8, <3>2
    <3> QED BY <3>1, <3>2
  <2> QED BY <2>3, <2>10 DEF Chained, ChainedIn
<1>6. CASE \/ QuietStep \/ IdleStep \/ WriteStep \/ OpenStep \/ ArityStep \/ CloseStep
           \/ DeclareStep \/ ResolveStep
  <2>1. \E op, act : Moves(op, act)
    BY <1>6 DEF QuietStep, IdleStep, WriteStep, OpenStep, ArityStep, CloseStep,
                DeclareStep, ResolveStep
  <2> QED BY SMTT(60), <1>1, <2>1
<1> QED BY <1>2, <1>3, <1>4, <1>5, <1>6, Forms

LEMMA WaitsAt ==
  ASSUME NEW a, NEW b, a.proc \in Procs, a.pc \in Nat, Waits(a, b)
  PROVE  /\ a.proc = "compile_term" => a.pc = 4 /\ b.proc \in TermProcs
         /\ a.proc = "compile_file" => a.pc = 5 /\ b.proc = "compile_term"
         /\ a.proc = "compile_let" => \/ a.pc = 3 /\ b.proc = "compile_parameter"
                                      \/ a.pc \in {5, 7} /\ b.proc = "compile_term"
         /\ a.proc = "compile_function" => \/ a.pc = 5 /\ b.proc = "compile_parameter"
                                           \/ a.pc = 9 /\ b.proc = "compile_term"
         /\ a.proc # "compile_parameter"
         /\ \/ b.proc \in TermProcs /\ a.proc = "compile_term"
            \/ b.proc = "compile_term" /\ a.proc # "compile_term"
            \/ b.proc = "compile_parameter" /\ a.proc \in {"compile_let", "compile_function"}
<1>1. PICK i \in 1..Len(Ops[a.proc]) : i = a.pc - 1
  BY DEF Waits
<1>2. a.pc = i + 1 /\ i \in Int
  BY <1>1
<1>3. PICK op : op = Ops[a.proc][i]
  OBVIOUS
<1>4. OpPlaces(a.proc, i, op) /\ Asks(op, b.proc)
  BY <1>1, <1>3, OpPlacesAre DEF OpPlacesOf, Waits
<1>5. CASE op = "call" /\ b.proc = "compile_parameter"
  <2>1. \/ a.proc = "compile_function" /\ i = 4
        \/ a.proc = "compile_let" /\ i = 2
    BY <1>4, <1>5 DEF OpPlaces
  <2> QED BY <1>2, <1>5, <2>1
<1>6. CASE op = "term" /\ b.proc = "compile_term"
  <2>1. \/ a.proc = "compile_file" /\ i = 4
        \/ a.proc \in Unaries
        \/ a.proc = "compile_tuple"
        \/ a.proc = "compile_binary"
        \/ a.proc = "compile_call"
        \/ a.proc = "compile_if"
        \/ a.proc = "compile_function" /\ i = 8
        \/ a.proc = "compile_let" /\ i \in {4, 6}
    BY <1>4, <1>6 DEF OpPlaces
  <2> QED BY <1>2, <1>6, <2>1 DEF Unaries
<1>7. CASE op = "dispatch" /\ b.proc \in TermProcs
  <2>1. a.proc = "compile_term" /\ i = 3
    BY <1>4, <1>7 DEF OpPlaces
  <2> QED BY <1>2, <1>7, <2>1
<1> QED BY <1>4, <1>5, <1>6, <1>7 DEF Asks

(* A function whose record has no code yet runs itself, or waits for the   *)
(* parameter that runs.                                                    *)
LEMMA ParametersRun ==
  ASSUME NEW s \in Seq(ActivationOf), ChainedIn(s), NEW i \in DOMAIN s,
         s[i].proc = "compile_function", s[i].pc \in 3..8
  PROVE  \/ i = Len(s)
         \/ s[i].pc = 5 /\ i + 1 = Len(s) /\ s[i + 1].proc = "compile_parameter"
<1>1. PICK n \in Nat : n = Len(s) /\ DOMAIN s = 1..n
  BY LenProperties
<1>2. ASSUME NEW j \in 1..n PROVE s[j].proc \in Procs /\ s[j].pc \in Nat
  <2>1. s[j] \in ActivationOf
    BY <1>1
  <2> QED BY <2>1, ProcsAre DEF ActivationOf
<1>3. CASE i + 1 \in 1..n
  <2>1. Waits(s[i], s[i + 1])
    BY <1>1, <1>3 DEF ChainedIn
  <2>2. s[i].pc = 5 /\ s[i + 1].proc = "compile_parameter"
    BY <1>1, <1>2, <1>3, <2>1, WaitsAt
  <2>3. ASSUME i + 1 + 1 \in 1..n PROVE FALSE
    <3>1. Waits(s[i + 1], s[i + 1 + 1])
      BY <1>1, <1>3, <2>3 DEF ChainedIn
    <3> QED BY <1>2, <1>3, <2>2, <3>1, WaitsAt
  <2> QED BY <1>1, <1>3, <2>2, <2>3
<1> QED BY <1>1, <1>3

-----------------------------------------------------------------------------
(* Parameters.  Until the code of a function begins, its slots are those   *)
(* of the parameters counted so far; the one that was declared last is     *)
(* counted when next_item comes to it.                                     *)

Uncounted(s, i) == IF i = Len(s) \/ s[i + 1].pc = 5 THEN 1 ELSE 0

CountOK(a, c, g, more) ==
  /\ a.pc <= 3 => a.count = 0
  /\ a.proc = "compile_function" /\ a.pc \in 3..8 =>
       /\ g.code = <<>>
       /\ a.pc \in {3, 4, 6} => Slots(c) = a.count
       /\ a.pc = 5 => Slots(c) = a.count + more
       /\ a.pc \in {7, 8} => Slots(c) = g.arity

Counting ==
  \A i \in DOMAIN calls :
    CountOK(calls[i], comps[calls[i].comp + 1], functions[comps[calls[i].comp + 1].fn],
            Uncounted(calls, i))

(* A frame that is not about to begin the code of a function.              *)
LEMMA CountFree ==
  ASSUME NEW a, a.pc <= 3 => a.count = 0,
         ~(a.proc = "compile_function" /\ a.pc \in 3..8),
         NEW c, NEW g, NEW more
  PROVE  CountOK(a, c, g, more)
BY DEF CountOK

(* What becomes of the count of a frame that stays as it is.               *)
LEMMA CountSame ==
  ASSUME NEW a, NEW c, NEW g, NEW more, CountOK(a, c, g, more),
         NEW c2, NEW g2, NEW more2,
         a.proc = "compile_function" /\ a.pc \in 3..8 =>
           Slots(c2) = Slots(c) /\ g2.code = g.code /\ g2.arity = g.arity /\ more2 = more
  PROVE  CountOK(a, c2, g2, more2)
BY DEF CountOK

(* Frames under the running function, unless it is a parameter.            *)
LEMMA CountsBelow ==
  ASSUME CInv, CInv', Chained', DOMAIN calls' = 1..Len(calls'),
         NEW i \in DOMAIN calls',
         calls'[i].pc <= 3 => calls'[i].count = 0,
         i # Len(calls'),
         ~(i + 1 = Len(calls') /\ calls'[i + 1].proc = "compile_parameter")
  PROVE  CountOK(calls[i], comps[calls[i].comp + 1], functions[comps[calls[i].comp + 1].fn],
                 Uncounted(calls, i))'
<1>1. calls' \in Seq(ActivationOf) /\ ChainedIn(calls')
  BY DEF CInv, CallsInv, Chained
<1>2. ~(calls'[i].proc = "compile_function" /\ calls'[i].pc \in 3..8)
  BY <1>1, ParametersRun
<1> QED BY <1>2, CountFree

LEMMA CountsMove ==
  ASSUME CInv, CInv', Chained', Counting, NEW op, NEW act, Moves(op, act),
         act.proc = "compile_function" =>
           CountOK(act, comps'[act.comp + 1], functions'[comps'[act.comp + 1].fn], 1),
         \A i \in 1..Len(calls) :
           i + 1 = Len(calls) /\ current.proc = "compile_parameter"
             /\ calls[i].proc = "compile_function" /\ calls[i].pc = 5 =>
           CountOK(calls[i], comps'[calls[i].comp + 1],
                   functions'[comps'[calls[i].comp + 1].fn], IF act.pc = 5 THEN 1 ELSE 0)
  PROVE  Counting'
<1>1. PICK n \in Nat \ {0} : n = Len(calls)
  BY MovesShape
<1>2. /\ DOMAIN calls = 1..n /\ current = calls[n]
      /\ DOMAIN calls' = 1..n /\ Len(calls') = n
      /\ \A i \in 1..n : calls'[i] = IF i = n THEN act ELSE calls[i]
  BY <1>1, MovesShape
<1>3. /\ act.proc = current.proc /\ current \in ActivationOf
      /\ act.pc <= 3 => act.count = 0
  <2>1. Doing(op) /\ current \in ActivationOf /\ act.proc = current.proc
    BY CurrentFacts, DoingFacts DEF Moves
  <2>2. current.pc \in Nat /\ (current.pc <= 3 => current.count = 0)
    BY <1>2, <2>1 DEF Counting, CountOK, ActivationOf
  <2>3. op = "next_item" => current.pc \in {5, 6}
    BY <2>1, DoingPlace DEF OpPlaces
  <2>4. CASE op = "next_item"
    BY <2>1, <2>2, <2>3, <2>4 DEF Moves
  <2>5. CASE op # "next_item"
    BY <2>1, <2>2, <2>5 DEF Moves
  <2> QED BY <2>1, <2>4, <2>5
<1>4. ASSUME NEW i \in 1..n
      PROVE  CountOK(calls[i], comps[calls[i].comp + 1], functions[comps[calls[i].comp + 1].fn],
                     Uncounted(calls, i))'
  <2>1. CASE i = n
    <3>1. calls'[i] = act /\ Uncounted(calls', i) = 1
      BY <1>2, <2>1 DEF Uncounted
    <3>2. CASE act.proc = "compile_function"
      BY <3>1, <3>2
    <3>3. CASE act.proc # "compile_function"
      BY <1>3, <3>1, <3>3 DEF CountOK
    <3> QED BY <3>2, <3>3
  <2>2. CASE i # n
    <3>1. calls'[i] = calls[i] /\ (calls[i].pc <= 3 => calls[i].count = 0)
      BY <1>2, <2>2 DEF Counting, CountOK
    <3>2. CASE i + 1 = n /\ current.proc = "compile_parameter"
      <4>1. calls'[i + 1] = act /\ i # Len(calls')
        BY <1>2, <2>2, <3>2
      <4>2. Uncounted(calls', i) = IF act.pc = 5 THEN 1 ELSE 0
        BY <4>1 DEF Uncounted
      <4>3. CASE calls[i].proc = "compile_function" /\ calls[i].pc \in 3..8
        <5>1. calls' \in Seq(ActivationOf) /\ ChainedIn(calls')
          BY DEF CInv, CallsInv, Chained
        <5>2. calls[i].pc = 5
          BY <1>2, <2>2, <3>1, <4>1, <4>3, <5>1, ParametersRun
        <5>3. CountOK(calls[i], comps'[calls[i].comp + 1],
                      functions'[comps'[calls[i].comp + 1].fn], IF act.pc = 5 THEN 1 ELSE 0)
          BY <1>1, <3>2, <4>3, <5>2
        <5> QED BY <3>1, <4>2, <5>3
      <4>4. CASE ~(calls[i].proc = "compile_function" /\ calls[i].pc \in 3..8)
        BY <3>1, <4>4, CountFree
      <4> QED BY <4>3, <4>4
    <3>3. CASE ~(i + 1 = n /\ current.proc = "compile_parameter")
      <4>1. ~(i + 1 = Len(calls') /\ calls'[i + 1].proc = "compile_parameter")
        BY <1>2, <1>3, <3>3
      <4> QED BY <1>2, <2>2, <3>1, <4>1, CountsBelow
    <3> QED BY <3>2, <3>3
  <2> QED BY <2>1, <2>2
<1> QED BY <1>2, <1>4 DEF Counting

LEMMA SlotsOf ==
  /\ \A f : Slots(compiler_init(f)) = 0
  /\ \A c : c \in CompilerOf => Slots(c) \in Nat /\ Slots(c) <= UINT8_MAX
  /\ \A c, name : c \in CompilerOf /\ SlotsInOrder(c) /\ Fits(c) =>
       /\ Slots(Declared(c, name)) = Slots(c) + 1
       /\ Declared(c, name).fn = c.fn
<1>1. \A f : Slots(compiler_init(f)) = 0
  <2>1. \A f : compiler_init(f).nextIndex = 1
    BY DEF compiler_init
  <2> QED BY <2>1 DEF Slots
<1>2. ASSUME NEW c \in CompilerOf PROVE Slots(c) \in Nat /\ Slots(c) <= UINT8_MAX
  <2>1. c.nextIndex \in 0..UINT8_MAX
    BY DEF CompilerOf
  <2> QED BY <2>1, Bytes DEF Slots
<1>3. ASSUME NEW c \in CompilerOf, NEW name, SlotsInOrder(c), Fits(c)
      PROVE  /\ Slots(Declared(c, name)) = Slots(c) + 1
             /\ Declared(c, name).fn = c.fn
  <2>1. PICK m \in 0..UINT8_MAX : m = c.nextIndex
    BY DEF CompilerOf
  <2>2. m # 0
    <3>1. Len(c.variables) < UINT8_MAX
      BY <1>3 DEF Fits
    <3>2. Len(c.variables) \in Nat
      BY LenProperties DEF CompilerOf
    <3> QED BY <1>3, <2>1, <3>1, <3>2, Bytes DEF SlotsInOrder
  <2>3. PICK d : d = Declared(c, name)
    OBVIOUS
  <2>4. d.nextIndex = (m + 1) % (UINT8_MAX + 1) /\ d.fn = c.fn
    BY <2>1, <2>3 DEF Declared, CompilerOf
  <2>5. d.nextIndex = IF m = UINT8_MAX THEN 0 ELSE m + 1
    BY <2>4, NextByte
  <2>6. Slots(d) = m
    <3>1. CASE m = UINT8_MAX
      BY <2>5, <3>1 DEF Slots
    <3>2. CASE m # UINT8_MAX
      <4>1. d.nextIndex = m + 1 /\ m + 1 # 0 /\ (m + 1) - 1 = m
        BY <2>1, <2>5, <3>2
      <4> QED BY <4>1 DEF Slots
    <3> QED BY <3>1, <3>2
  <2>7. Slots(c) = m - 1
    BY <2>1, <2>2 DEF Slots
  <2> QED BY <2>1, <2>3, <2>4, <2>6, <2>7
<1> QED BY <1>1, <1>2, <1>3

(* Where a function is that does an operation.                             *)
LEMMA FunctionPlaces ==
  ASSUME CInv, NEW op, Doing(op), current.proc = "compile_function"
  PROVE  /\ op = CASE current.pc = 2 -> "open_function" [] current.pc = 3 -> "first_item"
                   [] current.pc = 4 -> "call" [] current.pc = 5 -> "next_item"
                   [] current.pc = 6 -> "set_arity" [] current.pc = 8 -> "term"
                   [] current.pc = 10 -> "close_function" [] OTHER -> "consume"
         /\ current.pc \in 1..10
<1>1. /\ current.pc \in 1..Len(Ops["compile_function"])
      /\ Ops["compile_function"][current.pc] = op
  BY DoingPlace, MovesOp
<1>2. Len(Ops["compile_function"]) = 10
  BY DEF Ops
<1>3. current.pc \in {1, 2, 3, 4, 5, 6, 7, 8, 9, 10}
  BY <1>1, <1>2
<1> QED BY <1>1, <1>3 DEF Ops

LEMMA CountsQuiet ==
  ASSUME CInv, CInv', Chained', Counting, QuietStep
  PROVE  Counting'
<1>0. PICK op \in Quiet : \E act : Moves(op, act) /\ UNCHANGED <<emit, comps, functions, strs>>
  BY DEF QuietStep
<1>1. PICK act : Moves(op, act) /\ UNCHANGED <<emit, comps, functions, strs>>
  BY <1>0
<1>2. PICK n \in Nat \ {0} : n = Len(calls)
  BY <1>1, MovesShape
<1>3. /\ DOMAIN calls = 1..n /\ current = calls[n] /\ Doing(op)
      /\ act.proc = current.proc /\ act.comp = current.comp
  BY <1>1, <1>2, MovesShape DEF Moves
<1>4. current.pc \in Nat /\ current.count \in 0..UINT8_MAX
  BY <1>3, DoingFacts, CurrentFacts DEF ActivationOf
<1>5. PICK c, g : c = comps[act.comp + 1] /\ g = functions[c.fn]
  OBVIOUS
<1>6. n \in DOMAIN calls /\ Uncounted(calls, n) = 1
  BY <1>2, <1>3 DEF Uncounted
<1>7. CountOK(current, c, g, 1)
  BY <1>3, <1>5, <1>6 DEF Counting
<1>8. ASSUME act.proc = "compile_function"
      PROVE  CountOK(act, c, g, 1)
  <2>1. /\ op = CASE current.pc = 2 -> "open_function" [] current.pc = 3 -> "first_item"
                   [] current.pc = 4 -> "call" [] current.pc = 5 -> "next_item"
                   [] current.pc = 6 -> "set_arity" [] current.pc = 8 -> "term"
                   [] current.pc = 10 -> "close_function" [] OTHER -> "consume"
        /\ current.pc \in 1..10
    BY <1>3, <1>8, FunctionPlaces
  <2>2. current.pc \in {1, 3, 5, 7, 9}
    BY <2>1 DEF Quiet
  <2>3. CASE current.pc \in {1, 9}
    <3>1. act.pc = current.pc + 1 /\ act.count = current.count
      BY <1>1, <2>1, <2>3 DEF Moves
    <3> QED BY <1>7, <2>3, <3>1, <1>3, <1>8 DEF CountOK
  <2>4. CASE current.pc = 3
    <3>1. act.pc \in {4, 6} /\ act.count = current.count
      BY <1>1, <2>1, <2>4 DEF Moves
    <3> QED BY <1>7, <2>4, <3>1, <1>3, <1>8 DEF CountOK
  <2>5. CASE current.pc = 5
    <3>1. act.pc \in {4, 6} /\ act.count = (current.count + 1) % (UINT8_MAX + 1)
      BY <1>1, <2>1, <2>5 DEF Moves
    <3>2. Slots(c) = current.count + 1 /\ g.code = <<>>
      BY <1>3, <1>7, <1>8, <2>5 DEF CountOK
    <3>3. Slots(c) <= UINT8_MAX
      <4>1. Opened(current) = 1
        BY <1>3, <1>8, <2>5 DEF Opened
      <4>2. c = comp /\ c \in CompilerOf
        BY <1>3, <1>5, <4>1, DoingFacts, CurrentFacts
      <4> QED BY <4>2, SlotsOf
    <3>4. act.count = current.count + 1
      BY <1>4, <3>1, <3>2, <3>3, NextByte
    <3> QED BY <1>8, <3>1, <3>2, <3>4 DEF CountOK
  <2>6. CASE current.pc = 7
    <3>1. act.pc = 8 /\ act.count = current.count
      BY <1>1, <2>1, <2>6 DEF Moves
    <3> QED BY <1>7, <2>6, <3>1, <1>3, <1>8 DEF CountOK
  <2> QED BY <2>2, <2>3, <2>4, <2>5, <2>6
<1>9. ASSUME NEW i \in 1..Len(calls), i + 1 = Len(calls), current.proc = "compile_parameter"
      PROVE  CountOK(calls[i], comps[calls[i].comp + 1],
                     functions[comps[calls[i].comp + 1].fn], IF act.pc = 5 THEN 1 ELSE 0)
  <2>1. OpPlaces(current.proc, current.pc, op) /\ current.pc \in 1..Len(Ops["compile_parameter"])
    BY <1>3, <1>9, DoingPlace
  <2>2. current.pc \in 1..4 /\ Len(Ops["compile_parameter"]) = 4
    BY <2>1 DEF Ops
  <2>3. op \notin {"first_item", "next_item"} /\ current.pc # 4
    BY <1>9, <2>1 DEF OpPlaces, Quiet
  <2>4. act.pc = current.pc + 1
    BY <1>1, <2>3 DEF Moves
  <2>5. act.pc # 5 /\ current.pc # 5
    BY <2>2, <2>3, <2>4
  <2>6. Uncounted(calls, i) = 0
    BY <1>2, <1>3, <1>9, <2>5 DEF Uncounted
  <2> QED BY <1>3, <1>9, <2>5, <2>6 DEF Counting
<1>10. comps' = comps /\ functions' = functions
  BY <1>1
<1> QED BY <1>1, <1>5, <1>8, <1>9, <1>10, CountsMove

(* Steps of functions that are neither a function nor a parameter.         *)
LEMMA CountsApart ==
  ASSUME CInv, CInv', Chained', Counting,
         NEW op \in Emitting \cup {"var"}, NEW act, Moves(op, act)
  PROVE  Counting'
<1>1. Doing(op) /\ act.proc = current.proc
  BY DEF Moves
<1>2. OpPlaces(current.proc, current.pc, op)
  BY <1>1, DoingPlace
<1>3. act.proc \notin {"compile_function", "compile_parameter"}
  BY <1>1, <1>2 DEF OpPlaces, Emitting, Unaries
<1> QED BY <1>1, <1>3, CountsMove

LEMMA CountsRecords ==
  ASSUME CInv, CInv', Chained', Counting, OpenStep \/ ArityStep \/ CloseStep \/ DeclareStep
  PROVE  Counting'
<1>1. ASSUME NEW op \in {"open_function", "set_arity", "close_function"}, NEW act,
             Moves(op, act),
             CountOK(act, comps'[act.comp + 1], functions'[comps'[act.comp + 1].fn], 1)
      PROVE  Counting'
  <2>1. Doing(op)
    BY <1>1 DEF Moves
  <2>2. OpPlaces(current.proc, current.pc, op)
    BY <2>1, DoingPlace
  <2>3. current.proc = "compile_function"
    BY <2>2 DEF OpPlaces
  <2> QED BY <1>1, <2>3, CountsMove
<1>2. CASE OpenStep
  <2>1. PICK act : Moves("open_function", act)
                   /\ functions' = Append(functions, NewFunction)
                   /\ comps' = Append(comps, compiler_init(Len(functions) + 1))
    BY <1>2 DEF OpenStep
  <2>2. /\ Doing("open_function") /\ act.pc = current.pc + 1 /\ act.count = current.count
        /\ act.comp = current.comp /\ act.proc = current.proc
    BY <2>1 DEF Moves
  <2>3. /\ current.proc = "compile_function" /\ current.pc = 2 /\ calls # <<>>
    BY <2>2, DoingPlace, DoingFacts DEF OpPlaces
  <2>4. act.comp = Len(comps) /\ Len(comps) \in Nat /\ current \in ActivationOf
    BY <2>2, <2>3, CurrentFacts DEF Opened, ActivationOf
  <2>5. PICK c : c = compiler_init(Len(functions) + 1)
    OBVIOUS
  <2>6. Slots(c) = 0 /\ c.fn = Len(functions) + 1
    BY <2>5, SlotsOf DEF compiler_init
  <2>7. comps'[act.comp + 1] = c
    BY <2>1, <2>4, <2>5, RecordFacts, AppendProperties
  <2>8. functions'[c.fn] = NewFunction
    BY <2>1, <2>6, RecordFacts, AppendProperties
  <2>9. NewFunction.code = <<>>
    BY DEF NewFunction
  <2>10. current.count = 0
    <3>1. Len(calls) \in DOMAIN calls /\ current = calls[Len(calls)]
      BY <2>3, CallsNow, CurrentFacts
    <3> QED BY <2>3, <3>1 DEF Counting, CountOK
  <2>11. act.pc = 3 /\ act.count = 0
    BY <2>2, <2>3, <2>10
  <2>12. CountOK(act, c, NewFunction, 1)
    BY <2>6, <2>9, <2>11 DEF CountOK
  <2> QED BY <1>1, <2>1, <2>7, <2>8, <2>12
<1>3. CASE ArityStep
  <2>1. PICK act : /\ Moves("set_arity", act)
                   /\ Rewrite([fn EXCEPT !.arity = current.count]) /\ comps' = comps
    BY <1>3 DEF ArityStep
  <2>2. /\ Doing("set_arity") /\ act.pc = current.pc + 1 /\ act.count = current.count
        /\ act.comp = current.comp /\ act.proc = current.proc
    BY <2>1 DEF Moves
  <2>3. /\ current.proc = "compile_function" /\ current.pc = 6 /\ calls # <<>>
    BY <2>2, DoingPlace, DoingFacts DEF OpPlaces
  <2>4. /\ act.comp + 1 = Len(comps) /\ comp = comps[Len(comps)] /\ comp.fn \in DOMAIN functions
        /\ fn = functions[comp.fn] /\ fn \in FunctionOf
    BY <2>2, <2>3, CurrentFacts, RecordFacts DEF Opened
  <2>5. PICK new : new = [fn EXCEPT !.arity = current.count]
    OBVIOUS
  <2>6. new.arity = current.count /\ new.code = fn.code
    BY <2>4, <2>5 DEF FunctionOf
  <2>7. comps'[act.comp + 1] = comp /\ functions'[comp.fn] = new
    BY <2>1, <2>4, <2>5 DEF Rewrite
  <2>8. CountOK(current, comp, fn, 1)
    <3>1. Len(calls) \in DOMAIN calls /\ current = calls[Len(calls)]
      BY <2>3, CallsNow, CurrentFacts
    <3>2. Uncounted(calls, Len(calls)) = 1
      BY DEF Uncounted
    <3> QED BY <2>2, <2>4, <3>1, <3>2 DEF Counting
  <2>9. act.pc = 7
    BY <2>2, <2>3
  <2>10. CountOK(act, comp, new, 1)
    BY <2>2, <2>3, <2>6, <2>8, <2>9 DEF CountOK
  <2> QED BY <1>1, <2>1, <2>7, <2>10
<1>4. CASE CloseStep
  <2>1. PICK act : Moves("close_function", act)
    BY <1>4 DEF CloseStep
  <2>2. Doing("close_function") /\ act.pc = current.pc + 1
    BY <2>1 DEF Moves
  <2>3. act.pc = 11
    BY <2>2, DoingPlace DEF OpPlaces
  <2>4. \A c, g : CountOK(act, c, g, 1)
    BY <2>3 DEF CountOK
  <2> QED BY <1>1, <2>1, <2>4
<1>5. CASE DeclareStep
  <2>1. PICK act :
          /\ Moves("add_local", act) /\ Fits(comp)
          /\ comps' = [comps EXCEPT ![Len(comps)] = Declared(comp, current.token.text)]
          /\ functions' = functions
    BY <1>5 DEF DeclareStep
  <2>2. /\ Doing("add_local") /\ act.pc = current.pc + 1
        /\ act.comp = current.comp /\ act.proc = current.proc
    BY <2>1 DEF Moves
  <2>3. /\ current.proc = "compile_parameter" /\ current.pc = 4 /\ calls # <<>>
    BY <2>2, DoingPlace, DoingFacts DEF OpPlaces
  <2>4. PICK m \in Nat \ {0} : /\ m = Len(comps) /\ DOMAIN comps = 1..m
                               /\ comp = comps[m] /\ comp \in CompilerOf /\ SlotsInOrder(comp)
    BY <2>3, CurrentFacts, RecordFacts
  <2>5. PICK new : new = Declared(comp, current.token.text)
    OBVIOUS
  <2>6. Slots(new) = Slots(comp) + 1 /\ new.fn = comp.fn /\ Slots(comp) \in Nat
    BY <2>1, <2>4, <2>5, SlotsOf
  <2>7. ASSUME NEW i \in 1..Len(calls), i + 1 = Len(calls),
               calls[i].proc = "compile_function", calls[i].pc = 5
        PROVE  CountOK(calls[i], comps'[calls[i].comp + 1],
                       functions'[comps'[calls[i].comp + 1].fn], 1)
    <3>1. i \in DOMAIN calls /\ current = calls[i + 1] /\ i # Len(calls) /\ calls[i] \in ActivationOf
      BY <2>3, <2>7, CallsNow, CurrentFacts
    <3>2. Uncounted(calls, i) = 0
      BY <2>3, <3>1 DEF Uncounted
    <3>3. calls[i].comp + 1 = m
      <4>1. calls[i + 1].comp = Top(calls[i]) /\ Len(comps) = Top(current)
        BY SMTT(60), <2>3, <2>7, CallsNow, CurrentFacts DEF CInv, CallsInv
      <4>2. Top(calls[i]) = calls[i].comp + 1
        BY <2>7 DEF Top, Opened
      <4>3. Top(current) = current.comp + 0
        BY <2>3 DEF Top, Opened
      <4>4. current.comp \in Nat
        BY <2>3, CurrentFacts DEF ActivationOf
      <4> QED BY <2>4, <3>1, <4>1, <4>2, <4>3, <4>4
    <3>4. CountOK(calls[i], comp, functions[comp.fn], 0)
      BY <2>4, <3>1, <3>2, <3>3 DEF Counting
    <3>5. comps'[m] = new
      BY <2>1, <2>4, <2>5
    <3>6. CountOK(calls[i], new, functions[comp.fn], 1)
      BY <2>6, <2>7, <3>1, <3>4 DEF CountOK, ActivationOf
    <3> QED BY <2>1, <2>6, <3>3, <3>5, <3>6
  <2>8. act.pc = 5 /\ act.proc # "compile_function"
    BY <2>2, <2>3
  <2> QED BY <2>1, <2>3, <2>7, <2>8, CountsMove
<1> QED BY <1>2, <1>3, <1>4, <1>5

LEMMA CountsEnter ==
  ASSUME CInv, CInv', Chained', Counting, EnterStep
  PROVE  Counting'
<1>0. PICK op \in {"call", "term", "dispatch"} : \E proc, isTail :
        Doing(op) /\ Asks(op, proc) /\ Enter(proc, isTail)
  BY DEF EnterStep
<1>1. PICK proc, isTail : Doing(op) /\ Asks(op, proc) /\ Enter(proc, isTail)
  BY <1>0
<1>2. PICK n \in Nat \ {0} : n = Len(calls)
  BY <1>1, EnterShape
<1>3. /\ DOMAIN calls = 1..n /\ current = calls[n]
      /\ DOMAIN calls' = 1..(n + 1) /\ Len(calls') = n + 1
      /\ calls'[n + 1].proc = proc /\ calls'[n + 1].pc = 1 /\ calls'[n + 1].count = 0
      /\ \A i \in 1..n : i # n => calls'[i] = calls[i]
      /\ calls'[n].proc = current.proc /\ calls'[n].pc = current.pc + 1
      /\ calls'[n].comp = current.comp /\ calls'[n].count = current.count
      /\ comps' = comps /\ functions' = functions
  BY <1>1, <1>2, EnterShape
<1>4. current \in ActivationOf /\ current.pc \in Nat /\ current.count \in Nat
  BY <1>1, DoingFacts, CurrentFacts DEF ActivationOf
<1>5. CountOK(current, comps[current.comp + 1], functions[comps[current.comp + 1].fn], 1)
  <2>1. n \in DOMAIN calls /\ Uncounted(calls, n) = 1
    BY <1>2, <1>3 DEF Uncounted
  <2> QED BY <1>3, <2>1 DEF Counting
<1>6. ASSUME NEW i \in 1..(n + 1)
      PROVE  CountOK(calls[i], comps[calls[i].comp + 1], functions[comps[calls[i].comp + 1].fn],
                     Uncounted(calls, i))'
  <2>1. CASE i = n + 1
    <3>1. calls'[i].pc = 1 /\ calls'[i].count = 0
      BY <1>3, <2>1
    <3> QED BY <3>1 DEF CountOK
  <2>2. CASE i = n
    <3>1. /\ calls'[i].proc = current.proc /\ calls'[i].pc = current.pc + 1
          /\ calls'[i].comp = current.comp /\ calls'[i].count = current.count
      BY <1>3, <2>2
    <3>2. Uncounted(calls', i) = 0
      <4>1. i # Len(calls') /\ calls'[i + 1].pc = 1
        BY <1>3, <2>2
      <4> QED BY <4>1 DEF Uncounted
    <3>3. CASE current.proc = "compile_function"
      <4>1. current.pc \in {4, 8}
        BY <1>1, <3>3, DoingPlace DEF OpPlaces
      <4>2. calls'[i].pc \in {5, 9} /\ (calls'[i].pc = 5 => current.pc = 4)
        BY <3>1, <4>1
      <4>3. PICK c, g : c = comps[current.comp + 1] /\ g = functions[c.fn]
        OBVIOUS
      <4>4. CountOK(current, c, g, 1)
        BY <1>5, <4>3
      <4>5. CountOK(calls'[i], c, g, 0)
        BY <1>4, <3>1, <3>3, <4>1, <4>2, <4>4 DEF CountOK
      <4> QED BY <1>3, <3>1, <3>2, <4>3, <4>5
    <3>4. CASE current.proc # "compile_function"
      <4>1. current.pc <= 2 => current.count = 0
        BY <1>4, <1>5 DEF CountOK
      <4>2. calls'[i].pc <= 3 => calls'[i].count = 0
        BY <1>4, <3>1, <4>1
      <4> QED BY <3>1, <3>4, <4>2, CountFree
    <3> QED BY <3>3, <3>4
  <2>3. CASE i \in 1..n /\ i # n
    <3>1. calls'[i] = calls[i] /\ (calls[i].pc <= 3 => calls[i].count = 0)
      BY <1>3, <2>3 DEF Counting, CountOK
    <3>2. i # Len(calls') /\ i + 1 # Len(calls')
      BY <1>3, <2>3
    <3> QED BY <1>3, <3>1, <3>2, CountsBelow
  <2> QED BY <2>1, <2>2, <2>3
<1> QED BY <1>3, <1>6 DEF Counting

LEMMA CountsReturn ==
  ASSUME CInv, CInv', Chained, Chained', Counting, return
  PROVE  Counting'
<1>1. PICK n \in Nat \ {0} : n = Len(calls)
  BY Zenon, ReturnShape
<1>2. /\ DOMAIN calls = 1..n /\ current = calls[n]
      /\ DOMAIN calls' = 1..(n - 1) /\ Len(calls') = n - 1
      /\ \A i \in 1..(n - 1) : calls'[i] = calls[i]
      /\ comps' = comps /\ functions' = functions
      /\ current.pc = Len(Ops[current.proc]) + 1
  BY <1>1, ReturnShape
<1>3. ASSUME NEW i \in 1..(n - 1)
      PROVE  CountOK(calls[i], comps[calls[i].comp + 1], functions[comps[calls[i].comp + 1].fn],
                     Uncounted(calls, i))'
  <2>1. calls'[i] = calls[i] /\ (calls[i].pc <= 3 => calls[i].count = 0) /\ i \in 1..n
    BY SMTT(60), <1>2 DEF Counting, CountOK
  <2>2. CASE calls[i].proc = "compile_function" /\ calls[i].pc \in 3..8
    <3>1. i # Len(calls) /\ i \in DOMAIN calls
      BY <1>1, <1>2
    <3>2. calls[i].pc = 5 /\ i + 1 = n /\ calls[n].proc = "compile_parameter"
      <4>1. calls \in Seq(ActivationOf) /\ ChainedIn(calls)
        BY DEF CInv, CallsInv, Chained
      <4> QED BY <1>1, <2>2, <3>1, <4>1, ParametersRun
    <3>3. calls[i + 1].pc = 5
      <4>1. Len(Ops["compile_parameter"]) = 4
        BY DEF Ops
      <4> QED BY <1>2, <3>2, <4>1
    <3>4. Uncounted(calls, i) = 1
      BY <3>3 DEF Uncounted
    <3>5. i = Len(calls')
      BY <1>2, <3>2
    <3>6. Uncounted(calls', i) = 1
      BY <3>5 DEF Uncounted
    <3> QED BY <1>2, <2>1, <3>1, <3>4, <3>6 DEF Counting
  <2>3. CASE ~(calls[i].proc = "compile_function" /\ calls[i].pc \in 3..8)
    BY <2>1, <2>3, CountFree
  <2> QED BY <2>2, <2>3
<1> QED BY <1>2, <1>3 DEF Counting

LEMMA CountsKept ==
  ASSUME CInv, CInv', Chained, Chained', Counting, [Next]_cvars
  PROVE  Counting'
<1>1. CASE Stops
  BY <1>1 DEF Stops, Counting, Uncounted
<1>2. CASE StartStep
  <2>1. PICK first : first = [Activation("compile_file", FALSE) EXCEPT !.comp = 1]
    OBVIOUS
  <2>2. first.proc = "compile_file" /\ first.count = 0
    BY Zenon, <2>1 DEF Activation
  <2>3. DOMAIN calls' = 1..1 /\ calls'[1] = first
    BY <1>2, <2>1 DEF StartStep
  <2>4. \A c, g, more : CountOK(first, c, g, more)
    BY <2>2 DEF CountOK
  <2> QED BY <2>3, <2>4 DEF Counting
<1>3. CASE IdleStep
  <2>1. PICK op \in Emitting : \E act : Moves(op, act)
    BY <1>3 DEF IdleStep
  <2> QED BY <2>1, CountsApart
<1>4. CASE WriteStep
  <2>1. PICK op \in Emitting : \E act : Moves(op, act)
    BY <1>4 DEF WriteStep
  <2> QED BY <2>1, CountsApart
<1>5. CASE ResolveStep
  <2>1. \E act : Moves("var", act)
    BY <1>5 DEF ResolveStep
  <2> QED BY <2>1, CountsApart
<1> QED BY <1>1, <1>2, <1>3, <1>4, <1>5, Forms, CountsQuiet, CountsRecords, CountsEnter,
           CountsReturn

-----------------------------------------------------------------------------
(* The functions after a step.                                             *)

LEMMA RewriteShape ==
  ASSUME CInv, calls # <<>>, NEW new, Rewrite(new)
  PROVE  /\ comp.fn \in 1..Len(functions) /\ fn = functions[comp.fn] /\ fn \in FunctionOf
         /\ Len(functions) \in Nat /\ DOMAIN functions = 1..Len(functions)
         /\ DOMAIN functions' = 1..Len(functions) /\ Len(functions') = Len(functions)
         /\ \A f \in 1..Len(functions) :
              functions'[f] = IF f = comp.fn THEN new ELSE functions[f]
<1>1. /\ comp.fn \in 1..Len(functions) /\ fn = functions[comp.fn] /\ fn \in FunctionOf
      /\ Len(functions) \in Nat /\ DOMAIN functions = 1..Len(functions)
      /\ functions \in Seq(FunctionOf)
  BY CurrentFacts, RecordFacts
<1>2. functions' = [functions EXCEPT ![comp.fn] = new]
  BY DEF Rewrite
<1>3. PICK S, F : S = FunctionOf \cup {new} /\ F = functions
  OBVIOUS
<1>4. F \in Seq(S) /\ new \in S /\ Len(F) \in Nat
  BY <1>1, <1>3, SeqMonotonic
<1>5. /\ [F EXCEPT ![comp.fn] = new] \in Seq(S)
      /\ Len([F EXCEPT ![comp.fn] = new]) = Len(F)
      /\ \A i \in 1..Len(F) : [F EXCEPT ![comp.fn] = new][i] = IF i = comp.fn THEN new ELSE F[i]
  BY <1>1, <1>3, <1>4, ExceptSeq
<1>6. /\ Len(functions') = Len(functions) /\ functions' \in Seq(S)
      /\ \A i \in 1..Len(functions) : functions'[i] = IF i = comp.fn THEN new ELSE functions[i]
  BY <1>2, <1>3, <1>5
<1>7. DOMAIN functions' = 1..Len(functions)
  BY <1>6, LenProperties
<1> QED BY <1>1, <1>6, <1>7

(* What is written: some code, and now and then a constant.                *)
LEMMA WroteFields ==
  ASSUME CInv, calls # <<>>, NEW op, NEW act, NEW new, Wrote(op, act, new)
  PROVE  /\ new.arity = fn.arity /\ new.nonlocals = fn.nonlocals /\ new.functions = fn.functions
         /\ \/ new.constants = fn.constants /\ strs' = strs
            \/ \E n \in 0..INT_MAX :
                 new.constants = Append(fn.constants, int_value(n)) /\ strs' = strs
            \/ /\ new.constants = Append(fn.constants, str_value(Len(strs) + 1))
               /\ op = "emit_str" /\ strs' = Append(strs, Chars(current.token.text))
         /\ op # "emit_str" => strs' = strs
<1>1. fn \in FunctionOf
  BY CurrentFacts
<1>2. \A bytes : /\ WithCode(bytes).arity = fn.arity /\ WithCode(bytes).nonlocals = fn.nonlocals
                 /\ WithCode(bytes).functions = fn.functions
                 /\ WithCode(bytes).constants = fn.constants
  BY <1>1 DEF WithCode, FunctionOf
<1>3. \A v : /\ WithConstant(v).arity = fn.arity /\ WithConstant(v).nonlocals = fn.nonlocals
             /\ WithConstant(v).functions = fn.functions
             /\ WithConstant(v).constants = Append(fn.constants, v)
  BY <1>1 DEF WithConstant, FunctionOf
<1>4. \A c : /\ [fn EXCEPT !.code = c].arity = fn.arity
             /\ [fn EXCEPT !.code = c].nonlocals = fn.nonlocals
             /\ [fn EXCEPT !.code = c].functions = fn.functions
             /\ [fn EXCEPT !.code = c].constants = fn.constants
  BY <1>1 DEF FunctionOf
<1>5. CASE \E bytes : new = WithCode(bytes) /\ strs' = strs
  BY <1>2, <1>5
<1>6. CASE \E c : new = [fn EXCEPT !.code = c] /\ strs' = strs
  BY <1>4, <1>6
<1>7. CASE \E n \in 0..INT_MAX : new = WithConstant(int_value(n)) /\ strs' = strs
  BY <1>3, <1>7
<1>8. CASE /\ new = WithConstant(str_value(Len(strs) + 1))
           /\ op = "emit_str" /\ strs' = Append(strs, Chars(current.token.text))
  BY <1>3, <1>8
<1>9. ~(current.token.num > INT_MAX) => current.token.num \in 0..INT_MAX
  BY CurrentFacts, IntAssumption DEF ActivationOf, TokenOf
<1> QED BY <1>5, <1>6, <1>7, <1>8, <1>9 DEF Wrote

LEMMA WroteShape ==
  ASSUME CInv, calls # <<>>, NEW op, NEW act, NEW new, Wrote(op, act, new)
  PROVE  /\ new.arity = fn.arity /\ new.nonlocals = fn.nonlocals /\ new.functions = fn.functions
         /\ \/ new.constants = fn.constants
            \/ \E v : new.constants = Append(fn.constants, v)
<1>1. /\ new.arity = fn.arity /\ new.nonlocals = fn.nonlocals /\ new.functions = fn.functions
      /\ \/ new.constants = fn.constants
         \/ \E n \in 0..INT_MAX : new.constants = Append(fn.constants, int_value(n))
         \/ new.constants = Append(fn.constants, str_value(Len(strs) + 1))
  BY WroteFields
<1>2. ASSUME NEW n \in 0..INT_MAX, new.constants = Append(fn.constants, int_value(n))
      PROVE  \E v : new.constants = Append(fn.constants, v)
  BY Zenon, <1>2
<1>3. ASSUME new.constants = Append(fn.constants, str_value(Len(strs) + 1))
      PROVE  \E v : new.constants = Append(fn.constants, v)
  BY Zenon, <1>3
<1> QED BY Zenon, <1>1, <1>2, <1>3

LEMMA CaptureFields ==
  ASSUME CInv, NEW f \in DOMAIN functions, NEW d, NEW name
  PROVE  /\ Capturing(f, d, name).arity = functions[f].arity
         /\ Capturing(f, d, name).code = functions[f].code
         /\ Capturing(f, d, name).constants = functions[f].constants
         /\ Capturing(f, d, name).functions = functions[f].functions
         /\ \A c : /\ [Capturing(f, d, name) EXCEPT !.code = c].arity = functions[f].arity
                   /\ [Capturing(f, d, name) EXCEPT !.code = c].code = c
                   /\ [Capturing(f, d, name) EXCEPT !.code = c].constants
                        = functions[f].constants
                   /\ [Capturing(f, d, name) EXCEPT !.code = c].functions
                        = functions[f].functions
                   /\ [Capturing(f, d, name) EXCEPT !.code = c].nonlocals
                        = Capturing(f, d, name).nonlocals
<1>1. functions[f] \in FunctionOf
  BY RecordFacts
<1>2. \E g : Capturing(f, d, name) = [functions[f] EXCEPT !.nonlocals = g]
  <2>1. functions[f] = [functions[f] EXCEPT !.nonlocals = functions[f].nonlocals]
    BY <1>1 DEF FunctionOf
  <2> QED BY <2>1 DEF Capturing
<1>3. PICK g, new : new = [functions[f] EXCEPT !.nonlocals = g] /\ Capturing(f, d, name) = new
  BY <1>2
<1>4. /\ new.arity = functions[f].arity /\ new.code = functions[f].code
      /\ new.constants = functions[f].constants /\ new.functions = functions[f].functions
  BY <1>1, <1>3 DEF FunctionOf
<1>5. DOMAIN new = {"arity", "code", "constants", "nonlocals", "functions"}
  BY <1>1, <1>3 DEF FunctionOf
<1>6. \A c : /\ [new EXCEPT !.code = c].arity = new.arity /\ [new EXCEPT !.code = c].code = c
             /\ [new EXCEPT !.code = c].constants = new.constants
             /\ [new EXCEPT !.code = c].functions = new.functions
             /\ [new EXCEPT !.code = c].nonlocals = new.nonlocals
  BY <1>5
<1> QED BY <1>3, <1>4, <1>6

(* The records of a function and of the one around it.                     *)
LEMMA ClosePlace ==
  ASSUME CInv, Doing("close_function")
  PROVE  /\ Len(comps) >= 2 /\ Len(comps) \in Nat /\ current.comp = Len(comps) - 1
         /\ current.comp \in 1..Len(comps) /\ comps[current.comp] \in CompilerOf
         /\ comps[current.comp].fn \in 1..Len(functions)
         /\ comp.fn \in 1..Len(functions) /\ comps[current.comp].fn # comp.fn
         /\ fn = functions[comp.fn] /\ comp = comps[Len(comps)]
<1>1. current.proc = "compile_function" /\ current.pc = 10 /\ calls # <<>>
  BY DoingPlace, DoingFacts DEF OpPlaces
<1>2. /\ Len(comps) = current.comp + 1 /\ current.comp \in Nat \ {0} /\ Len(comps) \in Nat
      /\ comp = comps[Len(comps)] /\ comp.fn \in 1..Len(functions)
      /\ fn = functions[comp.fn]
  BY <1>1, CurrentFacts DEF Opened, ActivationOf
<1>3. PICK m \in Nat : m = Len(comps) /\ current.comp = m - 1 /\ m >= 2 /\ m - 1 \in 1..m
  BY <1>2
<1>4. /\ comps[m - 1] \in CompilerOf /\ comps[m - 1].fn \in 1..Len(functions)
      /\ comps[m - 1].fn # comps[m].fn
  <2>1. m \in 1..Len(comps) /\ m - 1 \in 1..Len(comps) /\ m - 1 \in 1..(m - 1)
    BY <1>3
  <2> QED BY <2>1, RecordFacts
<1> QED BY <1>2, <1>3, <1>4

LEMMA SeqOf ==
  ASSUME NEW S, NEW n \in Nat, NEW t \in [1..n -> S]
  PROVE  t \in Seq(S) /\ Len(t) = n
<1>1. t \in Seq(S)
  BY SeqDef
<1>2. DOMAIN t = 1..Len(t) /\ Len(t) \in Nat /\ DOMAIN t = 1..n
  BY <1>1, LenProperties
<1> QED BY <1>1, <1>2

LEMMA CloseShape ==
  ASSUME CInv, Doing("close_function"), emit,
         functions' =
           [functions EXCEPT
              ![comp.fn].code = Append(@, OpCode("OP_RETURN")),
              ![comps[current.comp].fn] = WithChild(@, comp.fn)]
  PROVE  /\ DOMAIN functions' = DOMAIN functions /\ Len(functions') = Len(functions)
         /\ functions'[comp.fn] = [fn EXCEPT !.code = Append(@, OpCode("OP_RETURN"))]
         /\ functions'[comps[current.comp].fn]
              = WithChild(functions[comps[current.comp].fn], comp.fn)
         /\ \A f \in DOMAIN functions : f \notin {comp.fn, comps[current.comp].fn} =>
              functions'[f] = functions[f]
<1>1. PICK q, r : q = comps[current.comp].fn /\ r = comp.fn
  OBVIOUS
<1>2. /\ q \in DOMAIN functions /\ r \in DOMAIN functions /\ q # r
      /\ fn = functions[r]
  BY <1>1, ClosePlace, RecordFacts
<1>3. functions' = [functions EXCEPT ![r].code = Append(@, OpCode("OP_RETURN")),
                                     ![q] = WithChild(@, r)]
  BY <1>1
<1>4. /\ DOMAIN functions' = DOMAIN functions
      /\ functions'[r] = [functions[r] EXCEPT !.code = Append(@, OpCode("OP_RETURN"))]
      /\ functions'[q] = WithChild(functions[q], r)
      /\ \A f \in DOMAIN functions : f \notin {r, q} => functions'[f] = functions[f]
  BY <1>2, <1>3
<1>5. Len(functions') = Len(functions)
  <2>1. functions \in Seq(FunctionOf) /\ Len(functions) \in Nat
        /\ DOMAIN functions = 1..Len(functions)
    BY SMTT(60), RecordFacts
  <2>2. functions' \in [1..Len(functions) -> {functions'[i] : i \in 1..Len(functions)}]
    BY <1>3, <1>4, <2>1
  <2> QED BY <2>1, <2>2, SeqOf
<1> QED BY <1>1, <1>2, <1>4, <1>5

LEMMA ChildFields ==
  ASSUME NEW parent \in FunctionOf, NEW child
  PROVE  /\ WithChild(parent, child).arity = parent.arity
         /\ WithChild(parent, child).nonlocals = parent.nonlocals
         /\ WithChild(parent, child).constants = parent.constants
         /\ WithChild(parent, child).functions = Append(parent.functions, child)
         /\ WithChild(parent, child).code =
              parent.code \o <<OpCode("OP_CLOSURE"), Len(parent.functions) % (UINT8_MAX + 1)>>
BY DEF WithChild, FunctionOf

LEMMA LastOrBefore == \A n \in Nat : \A j \in 1..(n + 1) : j = n + 1 \/ j \in 1..n
OBVIOUS

LEMMA Interval == \A m, n \in Nat : 1..m = 1..n => m = n
OBVIOUS

(* The records after a step: those of before, or one that has been opened. *)
LEMMA RecordsStep ==
  ASSUME CInv, CInv', [Next]_cvars
  PROVE  /\ Len(functions) \in Nat /\ Len(functions') \in Nat
         /\ Len(functions) <= Len(functions')
         /\ DOMAIN functions = 1..Len(functions) /\ DOMAIN functions' = 1..Len(functions')
         /\ DOMAIN comps' = 1..Len(comps') /\ Len(comps') \in Nat /\ Len(comps) \in Nat
         /\ \A k \in 1..Len(comps') :
              \/ k \in 1..Len(comps) /\ comps'[k].fn = comps[k].fn
              \/ comps'[k].fn = Len(functions) + 1
         /\ \A f \in 1..Len(functions') :
              \/ /\ f \in 1..Len(functions)
                 /\ functions'[f].functions = functions[f].functions \/ (emit /\ CloseStep)
                 /\ functions'[f].constants = functions[f].constants \/ WriteStep
              \/ functions'[f] = NewFunction
<1>1. /\ functions \in Seq(FunctionOf) /\ Len(functions) \in Nat
      /\ DOMAIN functions = 1..Len(functions)
      /\ DOMAIN comps = 1..Len(comps) /\ Len(comps) \in Nat
      /\ \A k \in 1..Len(comps) : comps[k] \in CompilerOf
  BY RecordFacts
<1>2. /\ Len(functions') \in Nat /\ DOMAIN functions' = 1..Len(functions')
      /\ DOMAIN comps' = 1..Len(comps') /\ Len(comps') \in Nat
  BY LenProperties DEF CInv, ScopesInv
<1>3. CASE UNCHANGED <<comps, functions>>
  BY <1>1, <1>2, <1>3
<1>4. CASE StartStep
  <2>1. functions = <<>>
    BY <1>4 DEF StartStep, CInv
  <2>2. Len(functions) = 0
    BY <1>1, <2>1
  <2>3. /\ Len(comps') = 1 /\ comps'[1].fn = 1 /\ Len(functions') = 1
        /\ functions'[1] = NewFunction
    BY <1>4 DEF StartStep, compiler_init
  <2> QED BY <1>1, <1>2, <2>2, <2>3
<1>5. CASE WriteStep \/ ArityStep
  <2>1. PICK new : calls # <<>> /\ Rewrite(new) /\ comps' = comps
                   /\ new.functions = fn.functions
                   /\ (new.constants = fn.constants \/ WriteStep)
    <3>1. CASE WriteStep
      <4>1. PICK op \in Emitting : \E act, new : Moves(op, act) /\ Rewrite(new) /\ Wrote(op, act, new)
                                          /\ comps' = comps
        BY <3>1 DEF WriteStep
      <4>2. PICK act, new : Moves(op, act) /\ Rewrite(new) /\ Wrote(op, act, new)
                            /\ comps' = comps
        BY <4>1
      <4>3. calls # <<>>
        BY <4>2 DEF Moves, Doing
      <4> QED BY <3>1, <4>2, <4>3, WroteFields
    <3>2. CASE ArityStep
      <4>1. Rewrite([fn EXCEPT !.arity = current.count]) /\ calls # <<>> /\ comps' = comps
        BY <3>2 DEF ArityStep, Moves, Doing
      <4>2. fn \in FunctionOf
        BY <4>1, CurrentFacts
      <4>3. PICK new : new = [fn EXCEPT !.arity = current.count]
        OBVIOUS
      <4>4. new.functions = fn.functions /\ new.constants = fn.constants
        BY <4>2, <4>3 DEF FunctionOf
      <4> QED BY <4>1, <4>3, <4>4
    <3> QED BY <1>5, <3>1, <3>2
  <2>2. /\ fn = functions[comp.fn] /\ Len(functions') = Len(functions)
        /\ \A f \in 1..Len(functions) :
             functions'[f] = IF f = comp.fn THEN new ELSE functions[f]
    BY <2>1, RewriteShape
  <2> QED BY <1>1, <1>2, <2>1, <2>2
<1>6. CASE OpenStep
  <2>1. /\ functions' = Append(functions, NewFunction)
        /\ comps' = Append(comps, compiler_init(Len(functions) + 1))
    BY <1>6 DEF OpenStep
  <2>2. PICK n \in Nat, m \in Nat : n = Len(functions) /\ m = Len(comps)
    BY Zenon, <1>1
  <2>3. PICK c : c = compiler_init(n + 1)
    OBVIOUS
  <2>4. c.fn = n + 1
    BY <2>3 DEF compiler_init
  <2>5. /\ Len(functions') = n + 1 /\ functions'[n + 1] = NewFunction
        /\ \A f \in 1..n : functions'[f] = functions[f]
    BY <1>1, <2>1, <2>2, AppendProperties
  <2>6. comps \in Seq(CompilerOf \cup {c}) /\ comps' = Append(comps, c)
    <3>1. comps \in Seq(CompilerOf)
      BY RecordFacts
    <3> QED BY <2>1, <2>2, <2>3, <3>1, SeqMonotonic
  <2>7. /\ Len(comps') = m + 1 /\ comps'[m + 1] = c
        /\ \A k \in 1..m : comps'[k] = comps[k]
    BY <2>2, <2>6, AppendProperties
  <2>8. \A k \in 1..Len(comps') : k \in 1..m \/ k = m + 1
    BY <2>2, <2>7
  <2>9. \A f \in 1..Len(functions') : f \in 1..n \/ f = n + 1
    BY <2>2, <2>5
  <2>10. \A f \in 1..Len(functions') :
           \/ /\ f \in 1..n /\ functions'[f] = functions[f]
           \/ functions'[f] = NewFunction
    BY <2>5, <2>9
  <2>11. \A k \in 1..Len(comps') :
           \/ k \in 1..m /\ comps'[k].fn = comps[k].fn
           \/ comps'[k].fn = n + 1
    BY <2>4, <2>7, <2>8
  <2>12. n <= Len(functions')
    BY <2>5
  <2> QED BY <1>1, <1>2, <2>2, <2>10, <2>11, <2>12
<1>7. CASE CloseStep
  <2>1. /\ Doing("close_function") /\ comps' = SubSeq(comps, 1, Len(comps) - 1)
        /\ functions' = IF ~emit THEN functions
                        ELSE [functions EXCEPT
                                ![comp.fn].code = Append(@, OpCode("OP_RETURN")),
                                ![comps[current.comp].fn] = WithChild(@, comp.fn)]
    BY <1>7 DEF CloseStep, Moves
  <2>2. PICK m \in Nat : m = Len(comps) /\ m >= 2
    BY <2>1, ClosePlace
  <2>3. Len(comps') = m - 1 /\ \A k \in 1..(m - 1) : comps'[k] = comps[k]
    <3>1. comps \in Seq(CompilerOf)
      BY RecordFacts
    <3> QED BY <2>1, <2>2, <3>1, SubSeqProperties
  <2>4. \A k \in 1..Len(comps') : k \in 1..Len(comps) /\ comps'[k].fn = comps[k].fn
    BY <2>2, <2>3
  <2>5. CASE ~emit
    BY <1>1, <1>2, <2>1, <2>4, <2>5
  <2>6. CASE emit
    <3>1. PICK q, r : q = comps[current.comp].fn /\ r = comp.fn
      BY SMTT(60)
    <3>2. /\ Len(functions') = Len(functions)
          /\ functions'[r] = [functions[r] EXCEPT !.code = Append(@, OpCode("OP_RETURN"))]
          /\ functions'[q] = WithChild(functions[q], r)
          /\ \A f \in DOMAIN functions : f \notin {r, q} => functions'[f] = functions[f]
          /\ q \in 1..Len(functions) /\ r \in 1..Len(functions)
      BY <2>1, <2>6, <3>1, CloseShape, ClosePlace
    <3>3. functions[q] \in FunctionOf /\ functions[r] \in FunctionOf
      BY <1>1, <3>2
    <3>4. functions'[q].constants = functions[q].constants
      <4>1. PICK old \in FunctionOf : old = functions[q]
        BY <3>3
      <4>2. WithChild(old, r).constants = old.constants
        BY ChildFields
      <4> QED BY <3>2, <4>1, <4>2
    <3>5. functions'[r].constants = functions[r].constants
      BY <3>2, <3>3 DEF FunctionOf
    <3>6. \A f \in 1..Len(functions') : functions'[f].constants = functions[f].constants
      BY <1>1, <3>2, <3>4, <3>5
    <3> QED BY <1>1, <1>2, <1>7, <2>4, <2>6, <3>2, <3>6
  <2> QED BY <2>5, <2>6
<1>8. CASE DeclareStep
  <2>1. /\ Doing("add_local") /\ functions' = functions
        /\ comps' = [comps EXCEPT ![Len(comps)] = Declared(comp, current.token.text)]
    BY <1>8 DEF DeclareStep, Moves
  <2>2. PICK m \in Nat \ {0} : m = Len(comps) /\ comp = comps[m]
    BY <2>1, DoingFacts, CurrentFacts
  <2>3. Declared(comp, current.token.text).fn = comp.fn
    <3>1. comp \in CompilerOf
      BY <1>1, <2>2
    <3>2. PICK x, y : x = Append(comp.variables, Variable(current.token.text, TRUE, comp.nextIndex))
                      /\ y = (comp.nextIndex + 1) % (UINT8_MAX + 1)
      OBVIOUS
    <3>3. Declared(comp, current.token.text) = [comp EXCEPT !.variables = x, !.nextIndex = y]
      BY <3>2 DEF Declared
    <3> QED BY <3>1, <3>3 DEF CompilerOf
  <2>4. \A k \in 1..m : comps'[k].fn = comps[k].fn
    BY Zenon, <1>1, <2>1, <2>2, <2>3
  <2>5. DOMAIN comps' = DOMAIN comps
    BY <2>1
  <2>6. Len(comps') = m
    <3>1. 1..Len(comps') = 1..m
      BY Zenon, <1>1, <1>2, <2>2, <2>5
    <3> QED BY ZenonT(60), <1>2, <3>1, Interval
  <2>7. \A k \in 1..Len(comps') : k \in 1..Len(comps) /\ comps'[k].fn = comps[k].fn
    BY <2>2, <2>4, <2>6
  <2>8. Len(functions') = Len(functions)
    BY <2>1
  <2>9. \A f \in 1..Len(functions') :
          /\ f \in 1..Len(functions) /\ functions'[f].functions = functions[f].functions
          /\ functions'[f].constants = functions[f].constants
    BY <2>1
  <2>10. Len(functions) <= Len(functions')
    BY <1>1, <2>8
  <2> QED BY <1>1, <1>2, <2>7, <2>9, <2>10
<1>9. CASE ResolveStep
  <2>0. PICK d \in 1..Len(comps) :
         /\ functions' =
              [f \in DOMAIN functions |->
                 LET g == Capturing(f, d, current.token.text)
                 IN IF f # comp.fn THEN g
                    ELSE [g EXCEPT !.code =
                            @ \o Load(Resolved(Len(comps), d, current.token.text))]]
         /\ comps' =
              [k \in DOMAIN comps |->
                 IF k \notin (d + 1)..Len(comps) THEN comps[k]
                 ELSE [comps[k] EXCEPT
                         !.variables = Append(@, Resolved(k, d, current.token.text))]]
    BY <1>9 DEF ResolveStep
  <2>1. PICK name : name = current.token.text
    OBVIOUS
  <2>2. /\ DOMAIN functions' = DOMAIN functions /\ DOMAIN comps' = DOMAIN comps
        /\ \A k \in DOMAIN comps :
             comps'[k] = comps[k] \/ \E x : comps'[k] = [comps[k] EXCEPT !.variables = x]
        /\ \A f \in DOMAIN functions :
             \/ functions'[f] = Capturing(f, d, name)
             \/ \E c : functions'[f] = [Capturing(f, d, name) EXCEPT !.code = c]
    BY <2>0, <2>1
  <2>3. \A k \in 1..Len(comps) : comps'[k].fn = comps[k].fn
    BY <1>1, <2>2 DEF CompilerOf
  <2>4. \A f \in DOMAIN functions : /\ functions'[f].functions = functions[f].functions
                                    /\ functions'[f].constants = functions[f].constants
    <3>1. ASSUME NEW f \in DOMAIN functions
          PROVE  /\ functions'[f].functions = functions[f].functions
                 /\ functions'[f].constants = functions[f].constants
      <4>1. PICK new : new = Capturing(f, d, name)
        OBVIOUS
      <4>2. /\ new.functions = functions[f].functions /\ new.constants = functions[f].constants
            /\ \A c : /\ [new EXCEPT !.code = c].functions = functions[f].functions
                     /\ [new EXCEPT !.code = c].constants = functions[f].constants
        BY <4>1, CaptureFields
      <4>3. functions'[f] = new \/ \E c : functions'[f] = [new EXCEPT !.code = c]
        BY <2>2, <4>1
      <4> QED BY <4>2, <4>3
    <3> QED BY <3>1
  <2>5. Len(functions') = Len(functions) /\ Len(comps') = Len(comps)
    <3>1. 1..Len(functions') = 1..Len(functions) /\ 1..Len(comps') = 1..Len(comps)
      BY Zenon, <1>1, <1>2, <2>2
    <3> QED BY ZenonT(60), <1>1, <1>2, <3>1, Interval
  <2>6. \A k \in 1..Len(comps') : k \in 1..Len(comps) /\ comps'[k].fn = comps[k].fn
    BY <2>3, <2>5
  <2>7. \A f \in 1..Len(functions') :
          /\ f \in 1..Len(functions) /\ functions'[f].functions = functions[f].functions
          /\ functions'[f].constants = functions[f].constants
    BY <1>1, <2>4, <2>5
  <2>8. Len(functions) <= Len(functions')
    BY <1>1, <2>5
  <2> QED BY <1>1, <1>2, <2>6, <2>7, <2>8
<1>10. Stops \/ return \/ QuietStep \/ IdleStep \/ EnterStep => UNCHANGED <<comps, functions>>
  BY DEF Stops, return, steady, QuietStep, IdleStep, EnterStep, Enter
<1> QED BY <1>3, <1>4, <1>5, <1>6, <1>7, <1>8, <1>9, <1>10, Forms

-----------------------------------------------------------------------------
(* Children and constants.                                                 *)

(* A child exists and is closed: it is not being compiled any longer.      *)
ChildrenClosed ==
  \A f \in DOMAIN functions : \A i \in 1..Len(functions[f].functions) :
    /\ functions[f].functions[i] \in 1..Len(functions)
    /\ \A k \in 1..Len(comps) : comps[k].fn # functions[f].functions[i]

(* An int that fits or a text that exists.                                 *)
KnownConstant(v, n) == \/ is_int(v) /\ v.val \in INT_MIN..INT_MAX
                       \/ is_str(v) /\ v.val \in 1..n

ConstantsKnown ==
  \A f \in DOMAIN functions : \A i \in 1..Len(functions[f].constants) :
    KnownConstant(functions[f].constants[i], Len(strs))

LEMMA NewChildless ==
  /\ Len(NewFunction.functions) = 0 /\ Len(NewFunction.constants) = 0
  /\ NewFunction.code = <<>> /\ NewFunction.arity = 0 /\ NewFunction.nonlocals = <<>>
BY DEF NewFunction

LEMMA ChildrenKept ==
  ASSUME CInv, CInv', ChildrenClosed, [Next]_cvars
  PROVE  ChildrenClosed'
<1>1. PICK n \in Nat, m \in Nat :
        /\ n = Len(functions) /\ m = Len(functions') /\ n <= m
        /\ DOMAIN functions = 1..n /\ DOMAIN functions' = 1..m
  BY RecordsStep
<1>2. /\ \A k \in 1..Len(comps') : \/ k \in 1..Len(comps) /\ comps'[k].fn = comps[k].fn
                                   \/ comps'[k].fn = n + 1
      /\ \A f \in 1..m : \/ /\ f \in 1..n
                            /\ functions'[f].functions = functions[f].functions
                                 \/ (emit /\ CloseStep)
                         \/ functions'[f] = NewFunction
  BY <1>1, RecordsStep
<1>3. ASSUME NEW f \in 1..n, NEW i \in 1..Len(functions[f].functions)
      PROVE  /\ functions[f].functions[i] \in 1..m
             /\ \A k \in 1..Len(comps') : comps'[k].fn # functions[f].functions[i]
  <2>1. PICK c \in 1..n : c = functions[f].functions[i] /\ \A k \in 1..Len(comps) : comps[k].fn # c
    BY <1>1 DEF ChildrenClosed
  <2>2. c # n + 1 /\ c \in 1..m
    BY <1>1
  <2> QED BY <1>2, <2>1, <2>2
<1>4. ASSUME NEW f \in 1..m, functions'[f] = NewFunction, NEW i \in 1..Len(functions'[f].functions)
      PROVE  FALSE
  BY <1>4, NewChildless
<1>5. CASE ~(emit /\ CloseStep)
  <2>1. ASSUME NEW f \in 1..m, NEW i \in 1..Len(functions'[f].functions)
        PROVE  /\ functions'[f].functions[i] \in 1..m
               /\ \A k \in 1..Len(comps') : comps'[k].fn # functions'[f].functions[i]
    <3>1. f \in 1..n /\ functions'[f].functions = functions[f].functions
      BY <1>2, <1>4, <1>5, <2>1
    <3> QED BY <1>3, <2>1, <3>1
  <2> QED BY <1>1, <2>1 DEF ChildrenClosed
<1>6. CASE emit /\ CloseStep
  <2>1. /\ Doing("close_function") /\ comps' = SubSeq(comps, 1, Len(comps) - 1)
        /\ functions' = [functions EXCEPT
                           ![comp.fn].code = Append(@, OpCode("OP_RETURN")),
                           ![comps[current.comp].fn] = WithChild(@, comp.fn)]
    BY <1>6 DEF CloseStep, Moves
  <2>2. PICK q \in 1..n, r \in 1..n : q = comps[current.comp].fn /\ r = comp.fn
    BY SMTT(60), <1>1, <2>1, ClosePlace
  <2>3. /\ m = n
        /\ functions'[r] = [functions[r] EXCEPT !.code = Append(@, OpCode("OP_RETURN"))]
        /\ functions'[q] = WithChild(functions[q], r)
        /\ \A f \in 1..n : f \notin {r, q} => functions'[f] = functions[f]
        /\ fn = functions[r]
    BY <1>1, <1>6, <2>1, <2>2, CloseShape, ClosePlace
  <2>4. functions[q] \in FunctionOf /\ functions[r] \in FunctionOf
    BY <1>1, RecordFacts
  <2>5. functions'[r].functions = functions[r].functions
    BY <2>3, <2>4 DEF FunctionOf
  <2>6. functions'[q].functions = Append(functions[q].functions, r)
    <3>1. PICK old \in FunctionOf : old = functions[q]
      BY <2>4
    <3>2. WithChild(old, r).functions = Append(old.functions, r)
      BY ChildFields
    <3> QED BY <2>3, <3>1, <3>2
  <2>7. \A k \in 1..Len(comps') : comps'[k].fn # r
    <3>1. PICK l \in Nat : l = Len(comps) /\ l >= 2 /\ comp = comps[l]
      BY <2>1, ClosePlace
    <3>2. comps \in Seq(CompilerOf)
      BY RecordFacts
    <3>3. Len(comps') = l - 1 /\ \A k \in 1..(l - 1) : comps'[k] = comps[k]
      BY <2>1, <3>1, <3>2, SubSeqProperties
    <3>4. l \in 1..Len(comps)
      BY <3>1
    <3>5. \A k \in 1..(l - 1) : comps[k].fn # comps[l].fn
      BY <3>4, RecordFacts
    <3> QED BY <2>2, <3>1, <3>3, <3>5
  <2>8. ASSUME NEW f \in 1..m, NEW i \in 1..Len(functions'[f].functions)
        PROVE  /\ functions'[f].functions[i] \in 1..m
               /\ \A k \in 1..Len(comps') : comps'[k].fn # functions'[f].functions[i]
    <3>1. CASE f = q
      <4>1. PICK s \in Seq(Nat), l \in Nat : s = functions[q].functions /\ l = Len(s)
        BY <2>4, LenProperties DEF FunctionOf
      <4>2. /\ Len(functions'[f].functions) = l + 1
            /\ functions'[f].functions[l + 1] = r
            /\ \A j \in 1..l : functions'[f].functions[j] = s[j]
        BY SMTT(60), <2>6, <3>1, <4>1, AppendProperties
      <4>3. CASE i = l + 1
        BY <2>3, <2>7, <4>2, <4>3
      <4>4. CASE i \in 1..l
        <5>1. i \in 1..Len(functions[q].functions) /\ functions'[f].functions[i] = functions[q].functions[i]
          BY <4>1, <4>2, <4>4
        <5> QED BY <1>3, <5>1
      <4>5. \A j \in 1..(l + 1) : j = l + 1 \/ j \in 1..l
        BY <4>1, LastOrBefore
      <4> QED BY <2>8, <4>2, <4>3, <4>4, <4>5
    <3>2. CASE f # q
      <4>1. f \in 1..n /\ functions'[f].functions = functions[f].functions
        BY <2>3, <2>5, <3>2
      <4> QED BY <1>3, <2>8, <4>1
    <3> QED BY <3>1, <3>2
  <2> QED BY <1>1, <2>8 DEF ChildrenClosed
<1> QED BY <1>5, <1>6

(* Only writing makes strings.                                             *)
LEMMA StrsStep ==
  ASSUME CInv, [Next]_cvars
  PROVE  strs' = strs \/ WriteStep
BY Forms DEF Stops, StartStep, return, steady, QuietStep, IdleStep, EnterStep, Enter,
             OpenStep, ArityStep, CloseStep, DeclareStep, ResolveStep

LEMMA ConstantsKept ==
  ASSUME CInv, CInv', ConstantsKnown, [Next]_cvars
  PROVE  ConstantsKnown'
<1>1. PICK n \in Nat, m \in Nat :
        /\ n = Len(functions) /\ m = Len(functions') /\ n <= m
        /\ DOMAIN functions = 1..n /\ DOMAIN functions' = 1..m
        /\ \A f \in 1..m : \/ /\ f \in 1..n
                              /\ functions'[f].constants = functions[f].constants \/ WriteStep
                           \/ functions'[f] = NewFunction
  BY RecordsStep
<1>2. ASSUME NEW f \in 1..m, functions'[f] = NewFunction, NEW i \in 1..Len(functions'[f].constants)
      PROVE  FALSE
  BY <1>2, NewChildless
<1>3. CASE ~WriteStep
  <2>1. strs' = strs
    BY <1>3, StrsStep
  <2>2. ASSUME NEW f \in 1..m, NEW i \in 1..Len(functions'[f].constants)
        PROVE  KnownConstant(functions'[f].constants[i], Len(strs'))
    <3>1. f \in 1..n /\ functions'[f].constants = functions[f].constants
      BY <1>1, <1>2, <1>3, <2>2
    <3>2. KnownConstant(functions[f].constants[i], Len(strs))
      BY <1>1, <2>2, <3>1 DEF ConstantsKnown
    <3> QED BY <2>1, <3>1, <3>2 DEF KnownConstant
  <2> QED BY <1>1, <2>2 DEF ConstantsKnown
<1>4. CASE WriteStep
  <2>1. PICK op \in Emitting : \E act, new : Moves(op, act) /\ Rewrite(new) /\ Wrote(op, act, new)
    BY <1>4 DEF WriteStep
  <2>2. PICK act, new : Moves(op, act) /\ Rewrite(new) /\ Wrote(op, act, new)
    BY <2>1
  <2>3. calls # <<>>
    BY <2>2 DEF Moves, Doing
  <2>4. /\ fn = functions[comp.fn] /\ comp.fn \in 1..n /\ m = n
        /\ \A f \in 1..n : functions'[f] = IF f = comp.fn THEN new ELSE functions[f]
        /\ fn \in FunctionOf
    BY <1>1, <2>2, <2>3, RewriteShape
  <2>5. PICK s \in Seq(Value), l \in Nat : s = fn.constants /\ l = Len(s)
    BY <2>4, LenProperties DEF FunctionOf
  <2>6. PICK z \in Nat : z = Len(strs) /\ strs \in Seq(Range_(strs))
    BY LenProperties DEF CInv
  <2>7. Len(strs') \in {z, z + 1}
    <3>1. CASE strs' = strs
      BY <2>6, <3>1
    <3>2. CASE strs' = Append(strs, Chars(current.token.text))
      <4>1. PICK x : x = Chars(current.token.text)
        OBVIOUS
      <4>2. strs \in Seq(Range_(strs) \cup {x})
        BY <2>6, SeqMonotonic
      <4>3. Len(Append(strs, x)) = z + 1
        BY <2>6, <4>2, AppendProperties
      <4> QED BY <3>2, <4>1, <4>3
    <3> QED BY <2>2, <2>3, <3>1, <3>2, WroteFields
  <2>8. \A v : KnownConstant(v, Len(strs)) => KnownConstant(v, Len(strs'))
    <3>1. \A x : x \in 1..Len(strs) => x \in 1..Len(strs')
      BY <2>6, <2>7
    <3> QED BY <3>1 DEF KnownConstant
  <2>9. ASSUME NEW i \in 1..Len(new.constants)
        PROVE  KnownConstant(new.constants[i], Len(strs'))
    <3>1. CASE new.constants = fn.constants
      <4>1. KnownConstant(fn.constants[i], Len(strs))
        BY <1>1, <2>4, <2>9, <3>1 DEF ConstantsKnown
      <4> QED BY <2>8, <3>1, <4>1
    <3>2. ASSUME NEW v, new.constants = Append(fn.constants, v), KnownConstant(v, Len(strs'))
          PROVE  KnownConstant(new.constants[i], Len(strs'))
      <4>1. s \in Seq(Value \cup {v})
        BY <2>5, SeqMonotonic
      <4>2. Append(s, v)[l + 1] = v /\ Len(Append(s, v)) = l + 1
            /\ \A j \in 1..l : Append(s, v)[j] = s[j]
        BY <2>5, <4>1, AppendProperties
      <4>3. CASE i = l + 1
        BY <2>5, <3>2, <4>2, <4>3
      <4>4. CASE i \in 1..l
        <5>1. KnownConstant(fn.constants[i], Len(strs))
          BY <1>1, <2>4, <2>5, <4>4 DEF ConstantsKnown
        <5>2. new.constants[i] = fn.constants[i]
          BY <2>5, <3>2, <4>2, <4>4
        <5> QED BY <2>8, <5>1, <5>2
      <4> QED BY <2>5, <2>9, <3>2, <4>2, <4>3, <4>4
    <3>3. \A x \in 0..INT_MAX : KnownConstant(int_value(x), Len(strs'))
      BY IntAssumption DEF KnownConstant, int_value, Plain, is_int, INT_MIN
    <3>4. strs' = Append(strs, Chars(current.token.text)) => KnownConstant(str_value(Len(strs) + 1), Len(strs'))
      <4>1. ASSUME strs' = Append(strs, Chars(current.token.text))
            PROVE  Len(strs) + 1 \in 1..Len(strs')
        <5>1. PICK x : x = Chars(current.token.text)
          OBVIOUS
        <5>2. strs \in Seq(Range_(strs) \cup {x})
          BY <2>6, SeqMonotonic
        <5>3. Len(Append(strs, x)) = z + 1
          BY <2>6, <5>2, AppendProperties
        <5> QED BY <2>6, <4>1, <5>1, <5>3
      <4>2. PICK y \in Nat : y = z + 1
        OBVIOUS
      <4>3. is_str(str_value(y)) /\ str_value(y).val = y
        BY DEF str_value, Plain, is_str
      <4> QED BY <2>6, <4>1, <4>2, <4>3 DEF KnownConstant
    <3> QED BY <2>2, <2>3, <3>1, <3>2, <3>3, <3>4, WroteFields
  <2>10. ASSUME NEW f \in 1..m, NEW i \in 1..Len(functions'[f].constants)
         PROVE  KnownConstant(functions'[f].constants[i], Len(strs'))
    <3>1. CASE f = comp.fn
      BY <2>4, <2>9, <2>10, <3>1
    <3>2. CASE f # comp.fn
      <4>1. functions'[f] = functions[f]
        BY <2>4, <3>2
      <4> QED BY <1>1, <2>4, <2>8, <2>10, <4>1 DEF ConstantsKnown
    <3> QED BY <3>1, <3>2
  <2> QED BY <1>1, <2>10 DEF ConstantsKnown
<1> QED BY <1>3, <1>4
-----------------------------------------------------------------------------
(* The program and its text.                                               *)

LEMMA PhaseStep ==
  ASSUME CInv, [Next]_cvars
  PROVE  /\ UNCHANGED <<file, src, emit>>
         /\ phase' \in {"compiling", "done"} => phase \in {"compiling", "done"} \/ StartStep
         /\ phase' = "done" => Stops /\ (phase = "done" \/ calls = <<>>)
<1> USE DEF steady
<1>1. CASE \E error : Fail(error) \/ \E n : result_unexpected_token_error(n)
  BY Zenon, <1>1 DEF Fail, FailAt, result_unexpected_token_error
<1>2. CASE OutOfMemory \/ Undefined
  BY Zenon, <1>2 DEF OutOfMemory, Undefined, Fail, FailAt
<1>3. CASE start
  <2> QED BY <1>2, <1>3 DEF start, StartStep
<1>4. CASE finish
  BY <1>2, <1>4 DEF finish, Stops
<1>5. CASE UNCHANGED <<file, src, emit, phase>> /\ phase # "done"
  BY <1>5
<1>6. CASE UNCHANGED cvars
  BY <1>6 DEF cvars, Stops
<1>7. ASSUME NEW n, NEW act, next_token(n, act), phase = "compiling"
      PROVE  (\E m : result_unexpected_token_error(m))
               \/ (UNCHANGED <<file, src, emit, phase>> /\ phase # "done")
  BY <1>7 DEF next_token
<1>8. CASE consume
  BY <1>1, <1>5, <1>7, <1>8 DEF consume, Doing
<1>9. CASE keep \/ keep_bool \/ first_item \/ next_item
  BY Zenon, <1>1, <1>5, <1>7, <1>9 DEF keep, keep_bool, first_item, next_item, Doing
<1>10. CASE call \/ term \/ dispatch \/ return \/ operator
  BY Zenon, <1>1, <1>5, <1>10 DEF call, term, dispatch, return, operator, Enter, Doing
<1>11. ASSUME NEW step, Emission(step), phase = "compiling",
              step => (\E error : Fail(error)) \/ UNCHANGED <<file, src, emit, phase>>
       PROVE  \/ \E error : Fail(error)
              \/ OutOfMemory
              \/ UNCHANGED <<file, src, emit, phase>> /\ phase # "done"
  BY <1>11 DEF Emission
<1>12. /\ \A bytes : EmitBytes(bytes) => UNCHANGED <<file, src, emit, phase>>
       /\ \A v, s : add_constant(v, s) =>
                      (\E error : Fail(error)) \/ UNCHANGED <<file, src, emit, phase>>
       /\ \A c, n : Patch(c, n) =>
                      (\E error : Fail(error)) \/ UNCHANGED <<file, src, emit, phase>>
  BY Zenon DEF EmitBytes, add_constant, Patch
<1>13. CASE chunk_emit_byte \/ emit_int \/ emit_str \/ emit_call
  <2>1. PICK step : /\ Emission(step) /\ phase = "compiling"
                    /\ step => (\E error : Fail(error)) \/ UNCHANGED <<file, src, emit, phase>>
    <3>1. CASE chunk_emit_byte
      BY <1>12, <3>1 DEF chunk_emit_byte, Doing
    <3>2. CASE emit_int
      <4> DEFINE data == current.token.num
                 step == IF data > INT_MAX THEN Fail("integer overflow")
                         ELSE IF data <= UINT16_MAX
                              THEN EmitBytes(<<OpCode("OP_INT")>> \o WordBytes(data))
                              ELSE add_constant(int_value(data), strs)
      <4>1. Emission(step) /\ phase = "compiling"
        BY Zenon, <3>2 DEF emit_int, Doing
      <4>2. step => (\E error : Fail(error)) \/ UNCHANGED <<file, src, emit, phase>>
        BY Zenon, <1>12
      <4> HIDE DEF step
      <4> QED BY <4>1, <4>2
    <3>3. CASE emit_str
      BY <1>12, <3>3 DEF emit_str, Doing
    <3>4. CASE emit_call
      BY <1>12, <3>4 DEF emit_call, Doing
    <3> QED BY <1>13, <3>1, <3>2, <3>3, <3>4
  <2> QED BY <1>1, <1>2, <1>5, <1>11, <2>1
<1>14. CASE jump_if_false \/ jump_over \/ jump_target
  <2>1. PICK step : /\ Emission(step) /\ phase = "compiling"
                    /\ step => (\E error : Fail(error)) \/ UNCHANGED <<file, src, emit, phase>>
    <3>1. CASE jump_if_false
      BY <1>12, <3>1 DEF jump_if_false, Doing
    <3>2. CASE jump_over
      BY <1>12, <3>2 DEF jump_over, Doing
    <3>3. CASE jump_target
      BY <1>12, <3>3 DEF jump_target, Doing
    <3> QED BY <1>14, <3>1, <3>2, <3>3
  <2> QED BY <1>1, <1>2, <1>5, <1>11, <2>1
<1>15. CASE open_function \/ set_arity \/ close_function \/ add_local
  BY <1>2, <1>5, <1>15 DEF open_function, set_arity, close_function, add_local, Doing
<1>16. CASE resolve_variable
  BY Zenon, <1>1, <1>2, <1>5, <1>16 DEF resolve_variable, Doing
<1>17. CASE Returned
  BY <1>6, <1>17 DEF Returned
<1> QED BY <1>3, <1>4, <1>6, <1>8, <1>9, <1>10, <1>13, <1>14, <1>15, <1>16, <1>17
        DEF Next, Compile
(* The record and the function of the program come first; they are there   *)
(* for as long as the compilation goes well.                               *)
Rooted ==
  /\ phase \in {"compiling", "done"} => Len(comps) >= 1
  /\ phase = "done" => calls = <<>>
  /\ calls = <<>> => Len(comps) <= 1
  /\ calls # <<>> => calls[1].comp = 1
  /\ Len(comps) >= 1 =>
       comps[1].fn = 1 /\ functions[1].arity = 0 /\ functions[1].nonlocals = <<>>

(* A step of the running function leaves the first record to the program.  *)
LEMMA FirstKept ==
  ASSUME CInv, CInv', Rooted,
         \/ UNCHANGED <<comps, functions>> /\ calls # <<>>
         \/ WriteStep \/ OpenStep \/ ArityStep \/ CloseStep \/ DeclareStep \/ ResolveStep
  PROVE  /\ Len(comps') >= 1 /\ comps'[1].fn = 1
         /\ functions'[1].arity = 0 /\ functions'[1].nonlocals = <<>>
<1>1. calls # <<>>
  BY ZenonT(60) DEF WriteStep, OpenStep, ArityStep, CloseStep, DeclareStep, ResolveStep, Moves, Doing
<1>2. PICK m \in Nat \ {0}, n \in Nat :
        /\ m = Len(comps) /\ n = Len(functions) /\ comp = comps[m]
        /\ comp.fn \in 1..n /\ fn = functions[comp.fn] /\ fn \in FunctionOf
  BY <1>1, CurrentFacts
<1>3. /\ DOMAIN comps = 1..m /\ DOMAIN functions = 1..n
      /\ \A k \in 1..m : comps[k] \in CompilerOf /\ comps[k].fn \in 1..n
      /\ \A k \in 1..m : \A j \in 1..(k - 1) : comps[j].fn # comps[k].fn
      /\ comps \in Seq(CompilerOf) /\ functions \in Seq(FunctionOf)
  BY <1>2, RecordFacts
<1>4. 1 \in 1..m /\ comps[1].fn = 1 /\ functions[1].arity = 0 /\ functions[1].nonlocals = <<>>
      /\ 1 \in 1..n
  BY <1>2, <1>3 DEF Rooted
<1>5. CASE UNCHANGED <<comps, functions>>
  BY <1>2, <1>4, <1>5
<1>6. CASE WriteStep
  <2>1. PICK op \in Emitting : \E act, new : /\ Moves(op, act) /\ Rewrite(new)
                                              /\ Wrote(op, act, new) /\ comps' = comps
    BY <1>6 DEF WriteStep
  <2>2. PICK act, new : Rewrite(new) /\ Wrote(op, act, new) /\ comps' = comps
    BY <2>1
  <2>3. new.arity = fn.arity /\ new.nonlocals = fn.nonlocals
    BY <1>1, <2>2, WroteFields
  <2>4. functions'[1] = IF 1 = comp.fn THEN new ELSE functions[1]
    BY <1>1, <1>2, <1>4, <2>2, RewriteShape
  <2> QED BY <1>2, <1>4, <2>2, <2>3, <2>4
<1>7. CASE OpenStep
  <2>1. PICK c : comps' = Append(comps, c) /\ functions' = Append(functions, NewFunction)
    BY <1>7 DEF OpenStep
  <2>2. comps \in Seq(CompilerOf \cup {c}) /\ functions \in Seq(FunctionOf \cup {NewFunction})
    BY <1>3, SeqMonotonic
  <2>3. Len(comps') = m + 1 /\ comps'[1] = comps[1] /\ functions'[1] = functions[1]
    BY <1>2, <1>4, <2>1, <2>2, AppendProperties
  <2> QED BY <1>4, <2>3
<1>8. CASE ArityStep
  <2>1. Rewrite([fn EXCEPT !.arity = current.count]) /\ comps' = comps
        /\ Doing("set_arity")
    BY <1>8 DEF ArityStep, Moves
  <2>2. current.proc = "compile_function" /\ current.pc = 6
    BY <2>1, DoingPlace DEF OpPlaces
  <2>3. m >= 2
    <3>1. current.comp \in Nat \ {0} /\ m = Top(current) /\ Opened(current) = 1
      BY <1>1, <1>2, <2>2, CurrentFacts DEF Opened, ActivationOf
    <3>2. PICK x \in Nat \ {0} : x = current.comp
      BY <3>1
    <3>3. m = x + 1
      BY <3>1, <3>2 DEF Top
    <3> QED BY <3>3
  <2>4. comp.fn # 1
    <3>1. m \in 1..m /\ 1 \in 1..(m - 1)
      BY <2>3
    <3> QED BY <1>2, <1>3, <1>4, <3>1
  <2>5. functions'[1] = functions[1]
    BY <1>1, <1>2, <1>4, <2>1, <2>4, RewriteShape
  <2> QED BY <1>2, <1>4, <2>1, <2>5
<1>9. CASE CloseStep
  <2>1. /\ Doing("close_function") /\ comps' = SubSeq(comps, 1, Len(comps) - 1)
        /\ functions' = IF ~emit THEN functions
                        ELSE [functions EXCEPT
                                ![comp.fn].code = Append(@, OpCode("OP_RETURN")),
                                ![comps[current.comp].fn] = WithChild(@, comp.fn)]
    BY <1>9 DEF CloseStep, Moves
  <2>2. m >= 2
    BY <1>2, <2>1, ClosePlace
  <2>3. Len(comps') = m - 1 /\ comps'[1] = comps[1]
    BY <1>2, <1>3, <2>1, <2>2, SubSeqProperties
  <2>4. functions'[1].arity = 0 /\ functions'[1].nonlocals = <<>>
    <3>1. CASE ~emit
      BY <1>4, <2>1, <3>1
    <3>2. CASE emit
      <4>1. PICK q, r : q = comps[current.comp].fn /\ r = comp.fn
        BY SMTT(60)
      <4>2. /\ functions'[q] = WithChild(functions[q], r)
            /\ \A f \in DOMAIN functions : f \notin {r, q} => functions'[f] = functions[f]
            /\ r # 1 /\ q \in 1..n
        <5>1. m \in 1..m /\ 1 \in 1..(m - 1)
          BY <2>2
        <5>2. r # 1
          BY <1>2, <1>3, <1>4, <4>1, <5>1
        <5>3. q \in 1..n
          BY <1>2, <2>1, <4>1, ClosePlace
        <5> QED BY <2>1, <3>2, <4>1, <5>2, <5>3, CloseShape
      <4>3. PICK old \in FunctionOf : old = functions[q]
        BY <1>3, <4>2
      <4>4. WithChild(old, r).arity = old.arity /\ WithChild(old, r).nonlocals = old.nonlocals
        BY ChildFields
      <4> QED BY <1>3, <1>4, <4>2, <4>3, <4>4
    <3> QED BY <3>1, <3>2
  <2> QED BY <1>4, <2>2, <2>3, <2>4
<1>10. CASE DeclareStep
  <2>1. comps' = [comps EXCEPT ![m] = Declared(comp, current.token.text)]
        /\ functions' = functions
        /\ Fits(comp)
    BY <1>2, <1>10 DEF DeclareStep
  <2>2. Declared(comp, current.token.text).fn = comp.fn
    <3>1. m \in 1..m
      BY <1>2
    <3> QED BY <1>2, <1>3, <2>1, <3>1, SlotsOf, RecordFacts
  <2>3. comps'[1].fn = comps[1].fn
    BY <1>2, <1>3, <1>4, <2>1, <2>2
  <2>4. Len(comps') = m
    BY <1>2, <1>3, <2>1
  <2> QED BY <1>2, <1>4, <2>1, <2>3, <2>4
<1>11. CASE ResolveStep
  <2>1. PICK d \in 1..m :
          /\ functions' =
               [f \in DOMAIN functions |->
                  LET g == Capturing(f, d, current.token.text)
                  IN IF f # comp.fn THEN g
                     ELSE [g EXCEPT !.code =
                             @ \o Load(Resolved(Len(comps), d, current.token.text))]]
          /\ comps' =
               [k \in DOMAIN comps |->
                  IF k \notin (d + 1)..Len(comps) THEN comps[k]
                  ELSE [comps[k] EXCEPT
                          !.variables = Append(@, Resolved(k, d, current.token.text))]]
    BY ZenonT(60), <1>2, <1>11 DEF ResolveStep
  <2>2. DOMAIN comps' = 1..m /\ comps'[1] = comps[1]
    BY <1>2, <1>3, <1>4, <2>1
  <2>3. Len(comps') = m
    <3>1. Len(comps') \in Nat /\ DOMAIN comps' = 1..Len(comps')
      <4>1. comps' \in Seq(CompilerOf)
        BY DEF CInv, ScopesInv
      <4> QED BY <4>1, LenProperties
    <3> QED BY <2>2, <3>1, Interval
  <2>4. PICK name, g : name = current.token.text /\ g = Capturing(1, d, name)
    OBVIOUS
  <2>5. g = functions[1]
    <3>1. \A k \in (d + 1)..Len(comps) : k \in 1..m /\ 1 \in 1..(k - 1)
      BY <1>2
    <3>2. \A k \in (d + 1)..Len(comps) : comps[k].fn # 1
      BY SMTT(60), <1>3, <1>4, <3>1
    <3> QED BY <2>4, <3>2 DEF Capturing
  <2>6. functions'[1] = g \/ \E c : functions'[1] = [g EXCEPT !.code = c]
    BY <1>3, <1>4, <2>1, <2>4
  <2>7. PICK old \in FunctionOf : old = functions[1]
    BY <1>3, <1>4
  <2>8. \A c : /\ [old EXCEPT !.code = c].arity = old.arity
              /\ [old EXCEPT !.code = c].nonlocals = old.nonlocals
    BY DEF FunctionOf
  <2>9. functions'[1].arity = 0 /\ functions'[1].nonlocals = <<>>
    BY <1>4, <2>5, <2>6, <2>7, <2>8
  <2> QED BY <1>2, <1>4, <2>2, <2>3, <2>9
<1> QED BY SMTT(60), <1>1, <1>5, <1>6, <1>7, <1>8, <1>9, <1>10, <1>11
LEMMA RootedKept ==
  ASSUME CInv, CInv', Chained, Rooted, [Next]_cvars
  PROVE  Rooted'
<1>1. /\ phase' \in {"compiling", "done"} => phase \in {"compiling", "done"} \/ StartStep
      /\ phase' = "done" => Stops /\ (phase = "done" \/ calls = <<>>)
  BY PhaseStep
<1>2. PICK m \in Nat : m = Len(comps) /\ DOMAIN comps = 1..m
  BY Zenon, RecordFacts
<1>3. CASE Stops
  <2>1. calls' = calls /\ comps' = comps /\ functions' = functions
    BY <1>3 DEF Stops
  <2>2. CASE StartStep
    <3>1. Len(comps') = 1 /\ calls' # <<>>
      BY <2>2 DEF StartStep
    <3> QED BY <1>1, <2>1, <3>1 DEF Rooted
  <2>3. CASE ~StartStep
    BY <1>1, <2>1, <2>3 DEF Rooted
  <2> QED BY <2>2, <2>3
<1>4. CASE StartStep
  <2>1. calls' # <<>> /\ calls'[1].comp = 1
    BY Zenon, <1>4 DEF StartStep, Activation
  <2>2. Len(comps') = 1 /\ comps'[1].fn = 1 /\ functions'[1] = NewFunction
    BY <1>4 DEF StartStep, compiler_init
  <2>3. phase' # "done"
    BY Zenon, <1>1, <1>4, <2>1 DEF Stops, Rooted, StartStep
  <2> QED BY <2>1, <2>2, <2>3, NewChildless DEF Rooted
<1>5. CASE return
  <2>1. /\ Len(calls) \in Nat \ {0} /\ Len(calls') = Len(calls) - 1 /\ calls # <<>>
        /\ \A i \in 1..(Len(calls) - 1) : calls'[i] = calls[i]
        /\ current = calls[Len(calls)]
        /\ UNCHANGED <<comps, functions>> /\ phase = "compiling"
    BY Zenon, <1>5, ReturnShape
  <2>2. calls' = <<>> <=> Len(calls') = 0
    BY CallsNow DEF CInv, CallsInv
  <2>3. phase' # "done"
    BY <1>1, <2>1
  <2>4. CASE Len(calls) = 1
    <3>1. current.proc = "compile_file" /\ current.comp = 1
      BY <2>1, <2>4 DEF Chained, ChainedIn, Rooted
    <3>2. Len(comps) = 1
      BY <2>1, <3>1, CurrentFacts DEF Top, Opened
    <3> QED BY <2>1, <2>2, <2>3, <2>4, <3>2 DEF Rooted
  <2>5. CASE Len(calls) # 1
    <3>1. 1 \in 1..(Len(calls) - 1)
      BY <2>1, <2>5
    <3> QED BY <2>1, <2>2, <2>3, <2>5, <3>1 DEF Rooted
  <2> QED BY <2>4, <2>5
<1>6. ASSUME calls' # <<>>, calls # <<>>, calls'[1].comp = calls[1].comp,
             \/ UNCHANGED <<comps, functions>>
             \/ WriteStep \/ OpenStep \/ ArityStep \/ CloseStep \/ DeclareStep \/ ResolveStep
      PROVE  Rooted'
  <2>1. /\ Len(comps') >= 1 /\ comps'[1].fn = 1
        /\ functions'[1].arity = 0 /\ functions'[1].nonlocals = <<>>
    BY <1>6, FirstKept
  <2>2. phase' # "done"
    BY <1>1, <1>6 DEF Stops, Rooted
  <2> QED BY <1>6, <2>1, <2>2 DEF Rooted
<1>7. ASSUME NEW op, NEW act, Moves(op, act)
      PROVE  calls' # <<>> /\ calls # <<>> /\ calls'[1].comp = calls[1].comp
  <2>1. /\ Len(calls) \in Nat \ {0} /\ calls # <<>> /\ Len(calls') = Len(calls)
        /\ current = calls[Len(calls)]
        /\ \A i \in 1..Len(calls) : calls'[i] = IF i = Len(calls) THEN act ELSE calls[i]
    BY <1>7, MovesShape
  <2>2. act.comp = current.comp
    BY <1>7 DEF Moves
  <2> QED BY <2>1, <2>2
<1>8. CASE EnterStep
  <2>1. PICK op, proc, isTail : Doing(op) /\ Enter(proc, isTail)
    BY <1>8 DEF EnterStep
  <2>2. /\ Len(calls) \in Nat \ {0} /\ calls # <<>> /\ Len(calls') = Len(calls) + 1
        /\ current = calls[Len(calls)]
        /\ \A i \in 1..Len(calls) : i # Len(calls) => calls'[i] = calls[i]
        /\ calls'[Len(calls)].comp = current.comp
        /\ UNCHANGED <<comps, functions>>
    BY <2>1, EnterShape
  <2>3. calls' # <<>> /\ calls'[1].comp = calls[1].comp
    BY <2>2
  <2> QED BY <1>6, <2>2, <2>3
<1>9. CASE QuietStep \/ IdleStep
  BY <1>6, <1>7, <1>9 DEF QuietStep, IdleStep
<1>10. CASE WriteStep \/ OpenStep \/ ArityStep \/ CloseStep \/ DeclareStep \/ ResolveStep
  <2>1. \E op, act : Moves(op, act)
    BY <1>10 DEF WriteStep, OpenStep, ArityStep, CloseStep, DeclareStep, ResolveStep
  <2> QED BY SMTT(60), <1>6, <1>7, <1>10, <2>1
<1> QED BY <1>3, <1>4, <1>5, <1>8, <1>9, <1>10, Forms

(* Strings are read from the file; a compile_str that has come to its text *)
(* has one of the file's.                                                  *)
StringOK(a) == a.proc = "compile_str" /\ a.pc >= 3 => Chars(a.token.text) \in Seq(Nat)

SourceOK ==
  /\ src = Sources[file]
  /\ strs \in Seq(Seq(Nat))
  /\ \A i \in DOMAIN calls : StringOK(calls[i])

LEMMA TokenText ==
  ASSUME CInv, SourceOK
  PROVE  Chars(token.text) \in Seq(Nat)
<1>1. pos \in DOMAIN src
  BY LenProperties DEF CInv, TokensInv
<1>2. token = src[pos]
  <2>1. PICK n \in Nat : n = pos
    BY <1>1, LenProperties DEF CInv, TokensInv
  <2>2. Skip(0) = pos
    BY <2>1 DEF Skip
  <2> QED BY Zenon, <1>1, <2>2 DEF token, Ahead
<1> QED BY <1>1, <1>2, TextAssumption DEF SourceOK, CInv

LEMMA SourceKept ==
  ASSUME CInv, CInv', SourceOK, [Next]_cvars
  PROVE  SourceOK'
<1>1. UNCHANGED <<file, src>>
  BY PhaseStep
<1>2. DOMAIN calls = 1..Len(calls)
  BY CallsNow
<1>3. ASSUME NEW op, NEW act, Moves(op, act)
      PROVE  /\ \A i \in DOMAIN calls' : StringOK(calls'[i])
             /\ op = "emit_str" => Chars(current.token.text) \in Seq(Nat)
  <2>1. /\ Len(calls) \in Nat \ {0} /\ calls # <<>> /\ DOMAIN calls' = 1..Len(calls)
        /\ current = calls[Len(calls)]
        /\ \A i \in 1..Len(calls) : calls'[i] = IF i = Len(calls) THEN act ELSE calls[i]
    BY <1>3, MovesShape
  <2>2. StringOK(current)
    <3>1. PICK l \in Nat \ {0} : l = Len(calls)
      BY <2>1
    <3>2. l \in DOMAIN calls
      BY <1>2, <3>1
    <3> QED BY <2>1, <3>1, <3>2 DEF SourceOK
  <2>3. /\ Doing(op) /\ act.proc = current.proc
        /\ \/ act.pc = current.pc + 1
           \/ op \in {"first_item", "next_item"}
        /\ op \notin {"keep", "keep_bool"} => act.token = current.token
        /\ op \in {"keep", "keep_bool"} => act.token = token
    BY <1>3 DEF Moves
  <2>4. OpPlaces(current.proc, current.pc, op) /\ Ops[current.proc][current.pc] = op
        /\ current.proc \in Procs /\ current.pc \in 1..Len(Ops[current.proc])
    BY <2>3, DoingPlace, MovesOp
  <2>5. op = "emit_str" => current.proc = "compile_str" /\ current.pc = 4
    BY <2>4 DEF OpPlaces
  <2>6. current.proc = "compile_str" =>
          /\ current.pc \in 1..4
          /\ op = <<"consume", "keep", "consume", "emit_str">>[current.pc]
    BY <2>4 DEF Ops
  <2>7. StringOK(act)
    <3>1. CASE op \in {"keep", "keep_bool"}
      BY <2>3, <3>1, TokenText DEF StringOK
    <3>2. CASE op \notin {"keep", "keep_bool"}
      <4>1. current.proc = "compile_str" => current.pc \in {1, 3, 4} /\ act.pc = current.pc + 1
        BY <2>3, <2>6, <3>2
      <4> QED BY <2>2, <2>3, <3>2, <4>1 DEF StringOK
    <3> QED BY <3>1, <3>2
  <2>8. \A i \in DOMAIN calls' : StringOK(calls'[i])
    BY Zenon, <1>2, <2>1, <2>7 DEF SourceOK
  <2> QED BY <2>2, <2>5, <2>8 DEF StringOK
<1>4. CASE WriteStep
  <2>1. PICK op \in Emitting : \E act, new : Moves(op, act) /\ Rewrite(new) /\ Wrote(op, act, new)
    BY <1>4 DEF WriteStep
  <2>2. PICK act, new : Moves(op, act) /\ Wrote(op, act, new)
    BY <2>1
  <2>3. calls # <<>>
    BY <2>2 DEF Moves, Doing
  <2>4. strs' \in Seq(Seq(Nat))
    <3>1. strs' = strs \/ (op = "emit_str" /\ strs' = Append(strs, Chars(current.token.text)))
      BY <2>2, <2>3, WroteFields
    <3>2. ASSUME op = "emit_str", strs' = Append(strs, Chars(current.token.text))
          PROVE  strs' \in Seq(Seq(Nat))
      <4>1. PICK x \in Seq(Nat) : x = Chars(current.token.text)
        BY <1>3, <2>2, <3>2
      <4> QED BY <3>2, <4>1, AppendProperties DEF SourceOK
    <3> QED BY <3>1, <3>2 DEF SourceOK
  <2> QED BY <1>1, <1>3, <2>2, <2>4 DEF SourceOK
<1>5. CASE QuietStep \/ IdleStep \/ OpenStep \/ ArityStep \/ CloseStep \/ DeclareStep \/ ResolveStep
  <2>1. (\E op, act : Moves(op, act)) /\ strs' = strs
    BY <1>5 DEF QuietStep, IdleStep, OpenStep, ArityStep, CloseStep, DeclareStep, ResolveStep
  <2> QED BY SMTT(60), <1>1, <1>3, <2>1 DEF SourceOK
<1>6. CASE Stops
  BY <1>1, <1>6 DEF Stops, SourceOK
<1>7. CASE StartStep
  <2>1. PICK a : calls' = <<a>> /\ a.proc = "compile_file" /\ strs' = strs
    BY Zenon, <1>7 DEF StartStep, Activation
  <2>2. \A i \in DOMAIN calls' : calls'[i] = a
    BY <2>1
  <2> QED BY <1>1, <2>1, <2>2 DEF SourceOK, StringOK
<1>8. CASE return
  <2>1. /\ \A i \in DOMAIN calls' : i \in DOMAIN calls /\ calls'[i] = calls[i]
        /\ strs' = strs
    BY <1>8, ReturnShape
  <2> QED BY <1>1, <2>1 DEF SourceOK
<1>9. CASE EnterStep
  <2>1. PICK op, proc, isTail : Doing(op) /\ Enter(proc, isTail)
    BY <1>9 DEF EnterStep
  <2>2. /\ Len(calls) \in Nat \ {0} /\ DOMAIN calls' = 1..(Len(calls) + 1)
        /\ current = calls[Len(calls)]
        /\ calls'[Len(calls) + 1].pc = 1
        /\ \A i \in 1..Len(calls) : i # Len(calls) => calls'[i] = calls[i]
        /\ calls'[Len(calls)].proc = current.proc
        /\ strs' = strs
    BY <2>1, EnterShape
  <2>3. current.proc # "compile_str"
    <3>1. PICK o \in {"call", "term", "dispatch"} : Doing(o)
      BY <1>9 DEF EnterStep
    <3> QED BY <3>1, DoingPlace DEF OpPlaces, Unaries
  <2>4. \A i \in 1..(Len(calls) + 1) : i = Len(calls) + 1 \/ i = Len(calls) \/ i \in 1..(Len(calls) - 1)
    BY <2>2
  <2>5. ASSUME NEW i \in DOMAIN calls' PROVE StringOK(calls'[i])
    <3>1. CASE i = Len(calls) + 1
      BY <2>2, <3>1 DEF StringOK
    <3>2. CASE i = Len(calls)
      BY <2>2, <2>3, <3>2 DEF StringOK
    <3>3. CASE i \in 1..(Len(calls) - 1)
      <4>1. i \in 1..Len(calls) /\ i # Len(calls)
        BY <2>2, <3>3
      <4> QED BY Zenon, <1>2, <2>2, <4>1 DEF SourceOK
    <3> QED BY <2>2, <2>4, <3>1, <3>2, <3>3
  <2> QED BY <1>1, <2>2, <2>5 DEF SourceOK
<1> QED BY <1>4, <1>5, <1>6, <1>7, <1>8, <1>9, Forms

(* The facts about frames, counts, children, constants and texts.          *)
ShapeInv ==
  CInv /\ Chained /\ Counting /\ ChildrenClosed /\ ConstantsKnown /\ Rooted /\ SourceOK

LEMMA InitShape == ASSUME Init PROVE CInv => ShapeInv
<1>1. /\ calls = <<>> /\ comps = <<>> /\ functions = <<>> /\ strs = <<>> /\ phase = "idle"
      /\ src = Sources[file]
  BY DEF Init
<1> QED BY <1>1 DEF ShapeInv, Chained, ChainedIn, Counting, ChildrenClosed, ConstantsKnown,
                    Rooted, SourceOK

LEMMA ShapeKept ==
  ASSUME ShapeInv, CInv', [Next]_cvars
  PROVE  ShapeInv'
<1>1. Chained'
  BY ChainedKept DEF ShapeInv
<1> QED BY <1>1, CountsKept, ChildrenKept, ConstantsKept, RootedKept, SourceKept DEF ShapeInv

-----------------------------------------------------------------------------
(* Certificates of code that grows.                                        *)

(* While a function is compiled its certificate h may owe the words of the *)
(* jumps in P; live says that control may still come to the end of code.   *)
RuleAt(p, g, h, P, a) ==
  /\ a \notin P => SafeAt(p, g, h, a)
  /\ a \in P /\ OpAt(g, a) = "OP_JUMP_IF_FALSE" =>
       h[a] >= 1 /\ Flows(h, a + 3, h[a] - 1)

Measures(p, g, h, P, live) ==
  /\ h \in [DOMAIN h -> Nat]
  /\ DOMAIN h = dump_function(g) \cup (IF live THEN {Len(g.code)} ELSE {})
  /\ 0 \in DOMAIN h /\ h[0] = g.arity
  /\ \A a \in dump_function(g) : RuleAt(p, g, h, P, a)

(* The instruction at a is the same in new.                                *)
SameAt(g, new, a) ==
  /\ OpAt(new, a) = OpAt(g, a)
  /\ OpAt(g, a) \in ByteOps => read_byte(new, a + 1) = read_byte(g, a + 1)
  /\ OpAt(g, a) \in WordOps => read_word(new, a + 1) = read_word(g, a + 1)

(* What g refers to is there for new as well.                              *)
Widens(p, g, p2, new) ==
  /\ Len(g.code) <= Len(new.code)
  /\ Len(g.constants) <= Len(new.constants)
  /\ Len(g.nonlocals) <= Len(new.nonlocals)
  /\ Len(g.functions) <= Len(new.functions)
  /\ \A i \in 1..Len(g.functions) :
       /\ new.functions[i] = g.functions[i]
       /\ p2.functions[g.functions[i]].nonlocals = p.functions[g.functions[i]].nonlocals

(* h2 asks nowhere for more than h, and at a for the same.                 *)
Eases(h, h2, a) ==
  /\ h \in [DOMAIN h -> Nat] /\ h2 \in [DOMAIN h2 -> Nat]
  /\ DOMAIN h \subseteq DOMAIN h2
  /\ \A b \in DOMAIN h : h2[b] <= h[b]
  /\ a \in DOMAIN h /\ h2[a] = h[a]

Sized(g) ==
  /\ g.code \in Seq(Byte) /\ Len(g.code) \in Nat
  /\ Len(g.constants) \in Nat /\ Len(g.nonlocals) \in Nat /\ Len(g.functions) \in Nat

LEMMA FlowKept ==
  ASSUME NEW h, NEW h2, NEW a, Eases(h, h2, a), NEW b, NEW n \in Int, Flows(h, b, n)
  PROVE  Flows(h2, b, n)
<1>1. b \in DOMAIN h /\ h[b] <= n
  BY DEF Flows
<1>2. b \in DOMAIN h2 /\ h2[b] \in Nat /\ h[b] \in Nat /\ h2[b] <= h[b]
  BY <1>1 DEF Eases
<1> QED BY <1>1, <1>2 DEF Flows

LEMMA CaptureKept ==
  ASSUME NEW g, NEW new, Sized(g), Sized(new), Len(g.nonlocals) <= Len(new.nonlocals),
         NEW child, NEW child2, child2.nonlocals = child.nonlocals,
         \A i \in 1..Len(child.nonlocals) : child.nonlocals[i].index \in Nat,
         NEW n, CaptureSafe(g, n, child)
  PROVE  CaptureSafe(new, n, child2)
BY SMTT(60) DEF CaptureSafe, Sized

LEMMA SafeKept ==
  ASSUME NEW p, NEW g, NEW h, NEW a \in Nat, NEW p2, NEW new, NEW h2,
         Sized(g), Sized(new), SameAt(g, new, a), Widens(p, g, p2, new), Eases(h, h2, a),
         a + Size(OpAt(g, a)) <= Len(g.code),
         \A i \in 1..Len(g.functions) :
           \A j \in 1..Len(p.functions[g.functions[i]].nonlocals) :
             p.functions[g.functions[i]].nonlocals[j].index \in Nat,
         SafeAt(p, g, h, a)
  PROVE  SafeAt(p2, new, h2, a)
<1>1. PICK op : op = OpAt(g, a) /\ op = OpAt(new, a)
  BY DEF SameAt
<1>2. PICK n \in Nat : n = h[a] /\ n = h2[a]
  BY DEF Eases
<1>3. /\ op \in ByteOps => read_byte(new, a + 1) = read_byte(g, a + 1)
      /\ op \in WordOps => read_word(new, a + 1) = read_word(g, a + 1)
  BY <1>1 DEF SameAt
<1>4. \A b : \A m \in Int : Flows(h, b, m) => Flows(h2, b, m)
  BY FlowKept
<1>5. /\ Len(g.code) <= Len(new.code) /\ Len(g.constants) <= Len(new.constants)
      /\ Len(g.nonlocals) <= Len(new.nonlocals) /\ Len(g.functions) <= Len(new.functions)
  BY DEF Widens
<1>6. a + Size(op) <= Len(new.code)
  BY SMTT(60), <1>1, <1>5, SizeIs DEF Sized
<1>7. /\ op = "OP_NOP" => Flows(h2, a + 1, n)
      /\ op \in {"OP_FALSE", "OP_TRUE"} => Flows(h2, a + 1, n + 1)
      /\ op = "OP_INT" => Flows(h2, a + 3, n + 1)
  BY <1>1, <1>2, <1>4 DEF SafeAt
<1>8. /\ op \in Binary => n >= 2 /\ Flows(h2, a + 1, n - 1)
      /\ op \in {"OP_FIRST", "OP_SECOND", "OP_PRINT"} => n >= 1 /\ Flows(h2, a + 1, n)
  BY <1>1, <1>2, <1>4 DEF SafeAt
<1>9. /\ op = "OP_JUMP" => Flows(h2, read_word(new, a + 1), n)
      /\ op = "OP_JUMP_IF_FALSE" =>
           n >= 1 /\ Flows(h2, read_word(new, a + 1), n - 1) /\ Flows(h2, a + 3, n - 1)
  BY <1>1, <1>2, <1>3, <1>4 DEF SafeAt, WordOps
<1>10. ASSUME op \in ByteOps
       PROVE  \E byte \in Nat : byte = read_byte(g, a + 1) /\ byte = read_byte(new, a + 1)
  <2>1. a + 2 <= Len(g.code)
    BY <1>1, <1>10 DEF Size, WordOps, ByteOps
  <2>2. (a + 1) + 1 \in 1..Len(g.code)
    BY SMTT(60), <2>1 DEF Sized
  <2>3. g.code[(a + 1) + 1] \in Byte
    BY <2>2, ElementOfSeq DEF Sized
  <2>4. read_byte(g, a + 1) \in Nat
    BY <2>3, Bytes DEF read_byte, Byte
  <2> QED BY <1>3, <1>10, <2>4
<1>11. ASSUME op \in {"OP_CALL", "OP_TAIL_CALL"}
       PROVE  /\ read_byte(new, a + 1) < n
              /\ op = "OP_CALL" => Flows(h2, a + 2, n - read_byte(new, a + 1))
  <2>1. PICK byte \in Nat : byte = read_byte(g, a + 1) /\ byte = read_byte(new, a + 1)
    BY <1>10, <1>11 DEF ByteOps
  <2>2. byte < n /\ (op = "OP_CALL" => Flows(h, a + 2, n - byte))
    BY <1>1, <1>2, <1>11, <2>1 DEF SafeAt
  <2> QED BY <1>4, <2>1, <2>2
<1>12. ASSUME op = "OP_CONSTANT"
       PROVE  read_byte(new, a + 1) < Len(new.constants) /\ Flows(h2, a + 2, n + 1)
  <2>1. PICK byte \in Nat : byte = read_byte(g, a + 1) /\ byte = read_byte(new, a + 1)
    BY <1>10, <1>12 DEF ByteOps
  <2>2. byte < Len(g.constants) /\ Flows(h, a + 2, n + 1)
    BY <1>1, <1>2, <1>12, <2>1 DEF SafeAt
  <2>3. Len(g.constants) \in Nat /\ Len(new.constants) \in Nat
    BY DEF Sized
  <2>4. byte < Len(new.constants)
    BY <1>5, <2>2, <2>3
  <2> QED BY <1>4, <2>1, <2>2, <2>4
<1>13. ASSUME op = "OP_LOCAL"
       PROVE  read_byte(new, a + 1) <= n /\ Flows(h2, a + 2, n + 1)
  <2>1. PICK byte \in Nat : byte = read_byte(g, a + 1) /\ byte = read_byte(new, a + 1)
    BY <1>10, <1>13 DEF ByteOps
  <2>2. byte <= n /\ Flows(h, a + 2, n + 1)
    BY <1>1, <1>2, <1>13, <2>1 DEF SafeAt
  <2> QED BY <1>4, <2>1, <2>2
<1>14. ASSUME op = "OP_NONLOCAL"
       PROVE  read_byte(new, a + 1) < Len(new.nonlocals) /\ Flows(h2, a + 2, n + 1)
  <2>1. PICK byte \in Nat : byte = read_byte(g, a + 1) /\ byte = read_byte(new, a + 1)
    BY <1>10, <1>14 DEF ByteOps
  <2>2. byte < Len(g.nonlocals) /\ Flows(h, a + 2, n + 1)
    BY <1>1, <1>2, <1>14, <2>1 DEF SafeAt
  <2> QED BY SMTT(60), <1>4, <1>5, <2>1, <2>2 DEF Sized
<1>15. ASSUME op = "OP_CLOSURE"
       PROVE  /\ read_byte(new, a + 1) < Len(new.functions)
              /\ CaptureSafe(new, n + 1, p2.functions[new.functions[read_byte(new, a + 1) + 1]])
              /\ Flows(h2, a + 2, n + 1)
  <2>1. PICK byte \in Nat : byte = read_byte(g, a + 1) /\ byte = read_byte(new, a + 1)
    BY <1>10, <1>15 DEF ByteOps
  <2>2. PICK c : c = g.functions[byte + 1]
    OBVIOUS
  <2>3. /\ byte < Len(g.functions) /\ CaptureSafe(g, n + 1, p.functions[c])
        /\ Flows(h, a + 2, n + 1)
    BY <1>1, <1>2, <1>15, <2>1, <2>2 DEF SafeAt
  <2>4. byte + 1 \in 1..Len(g.functions)
    BY SMTT(60), <2>1, <2>3 DEF Sized
  <2>5. new.functions[byte + 1] = c /\ p2.functions[c].nonlocals = p.functions[c].nonlocals
        /\ \A j \in 1..Len(p.functions[c].nonlocals) : p.functions[c].nonlocals[j].index \in Nat
    BY <2>2, <2>4 DEF Widens
  <2>6. CaptureSafe(new, n + 1, p2.functions[c])
    <3>1. PICK x, y : x = p.functions[c] /\ y = p2.functions[c]
      OBVIOUS
    <3>2. /\ y.nonlocals = x.nonlocals /\ CaptureSafe(g, n + 1, x)
          /\ \A j \in 1..Len(x.nonlocals) : x.nonlocals[j].index \in Nat
      BY <2>3, <2>5, <3>1
    <3>3. CaptureSafe(new, n + 1, y)
      BY <1>5, <3>2, CaptureKept
    <3> QED BY <3>1, <3>3
  <2>7. byte < Len(new.functions)
    BY SMTT(60), <1>5, <2>1, <2>3 DEF Sized
  <2> QED BY <1>4, <2>1, <2>3, <2>5, <2>6, <2>7
<1> QED BY <1>1, <1>2, <1>6, <1>7, <1>8, <1>9, <1>11, <1>12, <1>13, <1>14, <1>15 DEF SafeAt
LEMMA BytesSame ==
  ASSUME NEW g, NEW new, NEW a \in Nat,
         \A i \in (a + 1)..Following(g, a) : new.code[i] = g.code[i]
  PROVE  SameAt(g, new, a)
<1>1. PICK s \in 1..3 : s = Size(OpAt(g, a)) /\ Following(g, a) = a + s
  BY SizeIs DEF Following
<1>2. \A i \in (a + 1)..(a + s) : new.code[i] = g.code[i]
  BY <1>1
<1>3. OpAt(new, a) = OpAt(g, a)
  <2>1. new.code[a + 1] = g.code[a + 1]
    BY <1>1, <1>2
  <2> QED BY <2>1 DEF OpAt
<1>4. OpAt(g, a) \in ByteOps => read_byte(new, a + 1) = read_byte(g, a + 1)
  <2>1. SUFFICES ASSUME OpAt(g, a) \in ByteOps PROVE read_byte(new, a + 1) = read_byte(g, a + 1)
    OBVIOUS
  <2>2. s = 2
    BY <1>1, <2>1 DEF Size, WordOps, ByteOps
  <2>3. (a + 1) + 1 \in (a + 1)..(a + s)
    BY <2>2
  <2> QED BY <1>2, <2>3 DEF read_byte
<1>5. OpAt(g, a) \in WordOps => read_word(new, a + 1) = read_word(g, a + 1)
  <2>1. SUFFICES ASSUME OpAt(g, a) \in WordOps PROVE read_word(new, a + 1) = read_word(g, a + 1)
    OBVIOUS
  <2>2. s = 3
    BY <1>1, <2>1 DEF Size
  <2>3. (a + 1) + 1 \in (a + 1)..(a + s) /\ (a + 1) + 2 \in (a + 1)..(a + s)
    BY <2>2
  <2> QED BY <1>2, <2>3 DEF read_word
<1> QED BY <1>3, <1>4, <1>5 DEF SameAt

(* The numbers in what the children of g capture are numbers.              *)
Indexed(p, g) ==
  \A i \in 1..Len(g.functions) :
    \A j \in 1..Len(p.functions[g.functions[i]].nonlocals) :
      p.functions[g.functions[i]].nonlocals[j].index \in Nat

LEMMA RuleKept ==
  ASSUME NEW p, NEW g, NEW h, NEW P, NEW a \in Nat, NEW p2, NEW new, NEW h2, NEW Q,
         Sized(g), Sized(new), SameAt(g, new, a), Widens(p, g, p2, new), Eases(h, h2, a),
         Following(g, a) <= Len(g.code), Indexed(p, g), a \in P <=> a \in Q,
         RuleAt(p, g, h, P, a)
  PROVE  RuleAt(p2, new, h2, Q, a)
<1>1. a \notin Q => SafeAt(p2, new, h2, a)
  BY SafeKept DEF RuleAt, Following, Indexed
<1>2. ASSUME a \in Q, OpAt(new, a) = "OP_JUMP_IF_FALSE"
      PROVE  h2[a] >= 1 /\ Flows(h2, a + 3, h2[a] - 1)
  <2>1. h[a] >= 1 /\ Flows(h, a + 3, h[a] - 1)
    BY <1>2 DEF RuleAt, SameAt
  <2>2. PICK n \in Nat : n = h[a] /\ n = h2[a]
    BY DEF Eases
  <2>3. Flows(h, a + 3, n - 1) /\ n - 1 \in Int
    BY <2>1, <2>2
  <2>4. Flows(h2, a + 3, n - 1)
    BY <2>3, FlowKept
  <2> QED BY <2>1, <2>2, <2>4
<1> QED BY <1>1, <1>2 DEF RuleAt

LEMMA ListedSweep ==
  ASSUME NEW g, NEW P, Sized(g), Listed(g, P)
  PROVE  /\ dump_function(g) \subseteq 0..(Len(g.code) - 1)
         /\ \A a \in dump_function(g) : Following(g, a) <= Len(g.code) /\ a \in Nat
         /\ P \subseteq dump_function(g)
         /\ Len(g.code) > 0 => 0 \in dump_function(g)
<1>1. Sweep(g, dump_function(g))
  BY DumpSweeps DEF Sized
<1>2. \A a \in dump_function(g) : Following(g, a) <= Len(g.code)
  BY DEF Listed
<1>3. P \subseteq dump_function(g)
  BY DEF Listed
<1>4. dump_function(g) \subseteq 0..(Len(g.code) - 1)
  BY <1>1 DEF Sweep
<1> QED BY <1>1, <1>2, <1>3, <1>4 DEF Sweep, Sized

(* The code stays.                                                         *)
LEMMA MeasuresKept ==
  ASSUME NEW p, NEW g, NEW h, NEW P, NEW live, NEW p2, NEW new,
         Sized(g), Sized(new), Listed(g, P), Indexed(p, g), Widens(p, g, p2, new),
         new.code = g.code, new.arity = g.arity,
         Measures(p, g, h, P, live)
  PROVE  Measures(p2, new, h, P, live)
<1>1. \A a : OpAt(new, a) = OpAt(g, a) /\ Following(new, a) = Following(g, a)
  BY DEF OpAt, Following
<1>2. dump_function(new) = dump_function(g)
  <2>1. Sweep(new, dump_function(g))
    BY <1>1, DumpSweeps DEF Sweep, Sized
  <2> QED BY <2>1, SweepIsDump DEF Sized
<1>3. h \in [DOMAIN h -> Nat] /\ dump_function(g) \subseteq DOMAIN h
  BY DEF Measures
<1>4. ASSUME NEW a \in dump_function(g) PROVE RuleAt(p2, new, h, P, a)
  <2>1. a \in Nat /\ Following(g, a) <= Len(g.code)
    BY ListedSweep
  <2>2. SameAt(g, new, a)
    BY <2>1, BytesSame
  <2>3. Eases(h, h, a)
    <3>1. \A b \in DOMAIN h : h[b] <= h[b]
      BY <1>3
    <3> QED BY <1>3, <3>1 DEF Eases
  <2>4. RuleAt(p, g, h, P, a)
    BY DEF Measures
  <2> QED BY <2>1, <2>2, <2>3, <2>4, RuleKept
<1> QED BY <1>2, <1>4 DEF Measures

(* Control may come to the end of the code.                                *)
Growing(p, g, h, P) == Measures(p, g, h, P, TRUE)

(* The certificate with m cells at e.                                      *)
Raised(h, e, m) == [a \in DOMAIN h \cup {e} |-> IF a = e THEN m ELSE h[a]]

(* What is pending of the jumps of g is what was.                          *)
SamePending(g, P, Q) == \A a \in dump_function(g) : a \in P <=> a \in Q

(* An instruction is added, which has to be safe by itself.                *)
LEMMA AppendedMeasures ==
  ASSUME NEW p, NEW g, NEW h, NEW P, NEW p2, NEW new, NEW bytes, Added(new, g, bytes),
         Sized(g), Sized(new), Listed(g, P), Indexed(p, g), Widens(p, g, p2, new),
         new.arity = g.arity, NEW m \in Nat,
         NEW Q, SamePending(g, P, Q),
         NEW h2, h2 = Raised(h, Len(new.code), m),
         Growing(p, g, h, P),
         RuleAt(p2, new, h2, Q, Len(g.code))
  PROVE  Growing(p2, new, h2, Q)
<1>1. PICK n \in Nat, e \in Nat : n = Len(g.code) /\ e = Len(new.code) /\ n < e
  <2>1. PICK k \in 1..3 : k = Len(bytes)
    BY AddedCode
  <2> QED BY SMTT(60), <2>1, AddedCode DEF Sized
<1>2. PICK S : S = dump_function(g)
  OBVIOUS
<1>3. /\ dump_function(new) = S \cup {n} /\ S \subseteq 0..(n - 1)
      /\ \A a \in S : a \in Nat /\ Following(g, a) <= n /\ a # n
  <2>1. S \subseteq 0..(n - 1)
    BY <1>1, <1>2, ListedSweep
  <2> QED BY <1>1, <1>2, <2>1, AddedSweep, ListedSweep
<1>4. h \in [DOMAIN h -> Nat] /\ DOMAIN h = S \cup {n} /\ 0 \in DOMAIN h /\ h[0] = g.arity
  BY <1>1, <1>2 DEF Growing, Measures
<1>5. /\ DOMAIN h2 = S \cup {n} \cup {e} /\ h2[e] = m
      /\ \A a \in S \cup {n} : h2[a] = h[a]
      /\ h2 \in [DOMAIN h2 -> Nat]
  <2>1. \A a \in S \cup {n} : a # e
    BY <1>1, <1>3
  <2> QED BY <1>1, <1>4, <2>1 DEF Raised
<1>6. ASSUME NEW a \in S PROVE RuleAt(p2, new, h2, Q, a)
  <2>1. a \in Nat /\ Following(g, a) <= n /\ a # n
    BY <1>3
  <2>2. SameAt(g, new, a)
    <3>1. \A i \in (a + 1)..Following(g, a) : i \in 1..n
      BY <2>1, Follows
    <3>2. \A i \in (a + 1)..Following(g, a) : new.code[i] = g.code[i]
      BY <1>1, <3>1, AddedCode
    <3> QED BY <2>1, <3>2, BytesSame
  <2>3. Eases(h, h2, a)
    <3>1. \A b \in DOMAIN h : h2[b] <= h[b]
      BY <1>4, <1>5
    <3> QED BY <1>4, <1>5, <3>1 DEF Eases
  <2>4. RuleAt(p, g, h, P, a)
    BY <1>2 DEF Growing, Measures
  <2>5. a \in P <=> a \in Q
    BY <1>2 DEF SamePending
  <2> QED BY <1>1, <2>1, <2>2, <2>3, <2>4, <2>5, RuleKept
<1>7. 0 \in DOMAIN h2 /\ h2[0] = new.arity
  BY <1>4, <1>5
<1> QED BY <1>1, <1>3, <1>5, <1>6, <1>7 DEF Growing, Measures

(* The last instruction is added, which goes nowhere.                      *)
LEMMA EndedMeasures ==
  ASSUME NEW p, NEW g, NEW h, NEW P, NEW p2, NEW new, NEW bytes, Added(new, g, bytes),
         Sized(g), Sized(new), Listed(g, P), Indexed(p, g), Widens(p, g, p2, new),
         new.arity = g.arity, OpNames[bytes[1] + 1] = "OP_RETURN",
         Growing(p, g, h, P)
  PROVE  Measures(p2, new, h, P, FALSE)
<1>1. PICK n \in Nat : n = Len(g.code)
  BY DEF Sized
<1>2. PICK S : S = dump_function(g)
  OBVIOUS
<1>3. /\ dump_function(new) = S \cup {n} /\ S \subseteq 0..(n - 1)
      /\ \A a \in S : a \in Nat /\ Following(g, a) <= n /\ a # n
      /\ OpAt(new, n) = "OP_RETURN" /\ Following(new, n) = Len(new.code)
      /\ P \subseteq S
  <2>1. S \subseteq 0..(n - 1)
    BY <1>1, <1>2, ListedSweep
  <2> QED BY <1>1, <1>2, <2>1, AddedSweep, ListedSweep
<1>4. h \in [DOMAIN h -> Nat] /\ DOMAIN h = S \cup {n} /\ 0 \in DOMAIN h /\ h[0] = g.arity
  BY <1>1, <1>2 DEF Growing, Measures
<1>5. ASSUME NEW a \in S PROVE RuleAt(p2, new, h, P, a)
  <2>1. a \in Nat /\ Following(g, a) <= n
    BY <1>3
  <2>2. SameAt(g, new, a)
    <3>1. \A i \in (a + 1)..Following(g, a) : i \in 1..n
      BY <2>1, Follows
    <3>2. \A i \in (a + 1)..Following(g, a) : new.code[i] = g.code[i]
      BY <1>1, <3>1, AddedCode
    <3> QED BY <2>1, <3>2, BytesSame
  <2>3. Eases(h, h, a)
    <3>1. \A b \in DOMAIN h : h[b] <= h[b]
      BY <1>4
    <3> QED BY <1>4, <3>1 DEF Eases
  <2>4. RuleAt(p, g, h, P, a)
    BY <1>2 DEF Growing, Measures
  <2> QED BY <1>1, <2>1, <2>2, <2>3, <2>4, RuleKept
<1>6. RuleAt(p2, new, h, P, n)
  <2>1. n \notin P
    BY <1>3
  <2>2. n + Size("OP_RETURN") <= Len(new.code)
    BY <1>3 DEF Following, Sized
  <2> QED BY <1>3, <2>1, <2>2 DEF RuleAt, SafeAt, Binary
<1> QED BY <1>3, <1>4, <1>5, <1>6 DEF Growing, Measures

(* Fewer cells at the end.                                                 *)
LEMMA LoweredMeasures ==
  ASSUME NEW p, NEW g, NEW h, NEW P, Sized(g), Listed(g, P), Indexed(p, g),
         Len(g.code) > 0, NEW m \in Nat, m <= h[Len(g.code)],
         NEW h2, h2 = Raised(h, Len(g.code), m),
         Growing(p, g, h, P)
  PROVE  Growing(p, g, h2, P)
<1>1. PICK n \in Nat : n = Len(g.code) /\ n > 0
  BY DEF Sized
<1>2. PICK S : S = dump_function(g)
  OBVIOUS
<1>3. /\ S \subseteq 0..(n - 1) /\ 0 \in S
      /\ \A a \in S : a \in Nat /\ Following(g, a) <= n /\ a # n
  <2>1. S \subseteq 0..(n - 1)
    BY <1>1, <1>2, ListedSweep
  <2> QED BY <1>1, <1>2, <2>1, ListedSweep
<1>4. h \in [DOMAIN h -> Nat] /\ DOMAIN h = S \cup {n} /\ h[0] = g.arity
  BY <1>1, <1>2 DEF Growing, Measures
<1>5. /\ DOMAIN h2 = S \cup {n} /\ h2[n] = m
      /\ \A a \in S : h2[a] = h[a]
      /\ h2 \in [DOMAIN h2 -> Nat]
  BY <1>1, <1>3, <1>4 DEF Raised
<1>6. Widens(p, g, p, g)
  BY DEF Widens, Sized
<1>7. ASSUME NEW a \in S PROVE RuleAt(p, g, h2, P, a)
  <2>1. a \in Nat /\ Following(g, a) <= n
    BY <1>3
  <2>2. SameAt(g, g, a)
    BY DEF SameAt
  <2>3. Eases(h, h2, a)
    <3>1. \A b \in DOMAIN h : h2[b] <= h[b]
      BY <1>1, <1>4, <1>5
    <3> QED BY <1>4, <1>5, <3>1 DEF Eases
  <2>4. RuleAt(p, g, h, P, a)
    BY <1>2 DEF Growing, Measures
  <2> QED BY <1>1, <1>6, <2>1, <2>2, <2>3, <2>4, RuleKept
<1> QED BY <1>1, <1>2, <1>3, <1>4, <1>5, <1>7 DEF Growing, Measures

(* A jump gets its word: the end of the code.                              *)
Settled(P, Q, j) == P \ {j} \subseteq Q /\ Q \subseteq P

LEMMA PatchedMeasures ==
  ASSUME NEW p, NEW g, NEW h, NEW P, NEW j \in P, NEW p2, NEW new,
         Sized(g), Sized(new), Listed(g, P), Indexed(p, g), Widens(p, g, p2, new),
         new.arity = g.arity, Len(g.code) <= UINT16_MAX,
         NEW offset, offset = j + 1, new.code = patch_jump(g.code, offset),
         NEW Q, Settled(P, Q, j),
         Growing(p, g, h, P),
         h[Len(g.code)] + (IF OpAt(g, j) = "OP_JUMP" THEN 0 ELSE 1) <= h[j]
  PROVE  /\ Growing(p2, new, h, Q) /\ Len(new.code) = Len(g.code)
         /\ \A a \in dump_function(g) : OpAt(new, a) = OpAt(g, a)
<1>1. PICK n \in Nat : n = Len(g.code)
  BY DEF Sized
<1>2. PICK S : S = dump_function(g)
  OBVIOUS
<1>3. /\ Sweep(g, S) /\ S \subseteq 0..(n - 1)
      /\ \A a \in S : Following(g, a) <= n /\ Following(g, a) \in Nat /\ a \in Nat
      /\ P \subseteq {a \in S : OpAt(g, a) \in Jumps}
  <2>1. Sweep(g, S) /\ S \subseteq 0..(n - 1)
    BY <1>1, <1>2, DumpSweeps DEF Sweep
  <2>2. \A a \in S : a \in Nat
    BY <2>1
  <2> QED BY <1>1, <1>2, <2>1, <2>2, Follows DEF Listed
<1>4. j \in S /\ j \in Nat /\ OpAt(g, j) \in Jumps /\ Following(g, j) = j + 3 /\ j + 3 <= n
  <2>1. j \in S /\ OpAt(g, j) \in Jumps
    BY <1>3
  <2>2. Following(g, j) = j + 3
    BY <2>1 DEF Following, Size, Jumps, WordOps
  <2> QED BY <1>3, <2>1, <2>2
<1>5. /\ Len(new.code) = n /\ offset \in Nat
      /\ \A a \in 1..n : a \notin {offset + 1, offset + 2} => new.code[a] = g.code[a]
  <2>1. PICK code \in Seq(0..UINT8_MAX) : code = g.code
    BY DEF Byte, Sized
  <2>2. Len(code) <= UINT16_MAX /\ Len(code) = n
    BY <1>1, <2>1
  <2>3. /\ Len(patch_jump(code, offset)) = n
        /\ \A a \in 1..n :
             a \notin {offset + 1, offset + 2} => patch_jump(code, offset)[a] = code[a]
    BY ZenonT(60), <2>2, PatchedCode
  <2>4. offset \in Nat
    BY <1>4
  <2> QED BY <2>1, <2>3, <2>4
<1>6. \A a \in S : a # j => a + 1 # offset + 1 /\ a + 1 # offset + 2
  <2>1. ASSUME NEW a \in S, a > j PROVE a >= j + 3
    BY <1>1, <1>2, <1>4, <2>1, SweepSkips
  <2> QED BY <1>3, <1>4, <2>1
<1>7. ASSUME NEW a \in S
      PROVE  OpAt(new, a) = OpAt(g, a) /\ Following(new, a) = Following(g, a)
  <2>1. a + 1 \in 1..n /\ a + 1 \notin {offset + 1, offset + 2}
    BY <1>3, <1>4, <1>6
  <2>2. new.code[a + 1] = g.code[a + 1]
    BY <1>5, <2>1
  <2> QED BY <2>2 DEF OpAt, Following
<1>8. dump_function(new) = S
  <2>1. Sweep(new, S)
    BY <1>1, <1>3, <1>5, <1>7 DEF Sweep
  <2> QED BY <1>5, <2>1, SweepIsDump
<1>9. h \in [DOMAIN h -> Nat] /\ DOMAIN h = S \cup {n} /\ 0 \in DOMAIN h /\ h[0] = g.arity
  BY <1>1, <1>2 DEF Growing, Measures
<1>10. ASSUME NEW a \in S, a # j PROVE RuleAt(p2, new, h, Q, a)
  <2>1. a \in Nat /\ Following(g, a) \in Nat /\ Following(g, a) <= n
    BY <1>3
  <2>2. a < j => Following(g, a) <= j
    BY <1>1, <1>2, <1>4, SweepSkips
  <2>3. a > j => a >= j + 3
    BY <1>1, <1>2, <1>4, SweepSkips
  <2>4. \A i \in (a + 1)..Following(g, a) :
          i \in 1..n /\ i \notin {offset + 1, offset + 2}
    BY <1>4, <1>10, <2>1, <2>2, <2>3
  <2>5. SameAt(g, new, a)
    BY <1>5, <2>1, <2>4, BytesSame
  <2>6. Eases(h, h, a)
    <3>1. \A b \in DOMAIN h : h[b] <= h[b]
      BY <1>9
    <3> QED BY <1>9, <3>1 DEF Eases
  <2>7. RuleAt(p, g, h, P, a)
    BY <1>2 DEF Growing, Measures
  <2>8. a \in P <=> a \in Q
    BY <1>10 DEF Settled
  <2> QED BY <1>1, <2>1, <2>5, <2>6, <2>7, <2>8, RuleKept
<1>11. RuleAt(p2, new, h, Q, j)
  <2>1. PICK m \in Nat, e \in Nat : m = h[j] /\ e = h[n]
    BY <1>4, <1>9
  <2>2. RuleAt(p, g, h, P, j)
    BY <1>2, <1>4 DEF Growing, Measures
  <2>3. read_word(new, j + 1) = n
    <3>1. /\ new.code[offset + 1] + (UINT8_MAX + 1) * new.code[offset + 2] = n
          /\ (j + 1) + 1 = offset + 1 /\ (j + 1) + 2 = offset + 2
      BY <1>1, <1>4, <1>5, PatchedWord DEF Sized
    <3> QED BY <3>1 DEF read_word
  <2>4. OpAt(new, j) = OpAt(g, j) /\ j + Size(OpAt(new, j)) <= Len(new.code)
    BY <1>4, <1>5, <1>7 DEF Following
  <2>5. CASE OpAt(g, j) = "OP_JUMP"
    <3>1. Flows(h, n, m)
      BY <1>1, <1>9, <2>1, <2>5 DEF Flows
    <3> QED BY <2>1, <2>3, <2>4, <2>5, <3>1 DEF RuleAt, SafeAt, Binary
  <2>6. CASE OpAt(g, j) = "OP_JUMP_IF_FALSE"
    <3>1. Flows(h, n, m - 1) /\ m >= 1
      BY <1>1, <1>9, <2>1, <2>6 DEF Flows
    <3>2. Flows(h, j + 3, m - 1)
      BY <2>1, <2>2, <2>6 DEF RuleAt
    <3> QED BY <2>1, <2>3, <2>4, <2>6, <3>1, <3>2 DEF RuleAt, SafeAt, Binary
  <2> QED BY <1>4, <2>5, <2>6 DEF Jumps
<1>12. \A a \in S : RuleAt(p2, new, h, Q, a)
  BY <1>10, <1>11
<1>13. Growing(p2, new, h, Q)
  BY <1>5, <1>8, <1>9, <1>12 DEF Growing, Measures
<1> QED BY <1>1, <1>2, <1>5, <1>7, <1>13
-----------------------------------------------------------------------------
(* What is left at each place.                                             *)

LeavesOf(proc) ==
  \A i \in 1..(Len(Ops[proc]) + 1) : Leaves[proc][i] \in {0, 1, 2}

LEMMA LeavesAre ==
  \A proc \in Procs : LeavesOf(proc) /\ Leaves[proc][1] = 0
<1>1. \A proc \in {"compile_int", "compile_str", "compile_bool", "compile_var"} :
        LeavesOf(proc) /\ Leaves[proc][1] = 0
  <2>1. \A proc \in {"compile_int", "compile_str", "compile_bool", "compile_var"} :
          Len(Ops[proc]) = 4 /\ Leaves[proc] = <<0, 0, 0, 0, 1>>
    BY DEF Ops, Leaves
  <2>2. ASSUME NEW proc, Len(Ops[proc]) = 4, Leaves[proc] = <<0, 0, 0, 0, 1>>
        PROVE  LeavesOf(proc) /\ Leaves[proc][1] = 0
    <3>1. \A i \in 1..5 : <<0, 0, 0, 0, 1>>[i] \in {0, 1, 2}
      OBVIOUS
    <3>2. Leaves[proc][1] = 0
      BY <2>2
    <3> QED BY <2>2, <3>1, <3>2 DEF LeavesOf
  <2> QED BY <2>1, <2>2
<1>2. \A proc \in Unaries : LeavesOf(proc) /\ Leaves[proc][1] = 0
  <2>1. \A proc \in Unaries : Len(Ops[proc]) = 4 /\ Leaves[proc] = <<0, 0, 1, 1, 1>>
    BY DEF Ops, Leaves, Unaries
  <2>2. ASSUME NEW proc, Len(Ops[proc]) = 4, Leaves[proc] = <<0, 0, 1, 1, 1>>
        PROVE  LeavesOf(proc) /\ Leaves[proc][1] = 0
    <3>1. \A i \in 1..5 : <<0, 0, 1, 1, 1>>[i] \in {0, 1, 2}
      OBVIOUS
    <3>2. Leaves[proc][1] = 0
      BY <2>2
    <3> QED BY <2>2, <3>1, <3>2 DEF LeavesOf
  <2> QED BY <2>1, <2>2
<1>3. LeavesOf("compile_file") /\ Leaves["compile_file"][1] = 0
  BY DEF LeavesOf, Ops, Leaves
<1>4. LeavesOf("compile_term") /\ Leaves["compile_term"][1] = 0
  BY DEF LeavesOf, Ops, Leaves
<1>5. LeavesOf("compile_tuple") /\ Leaves["compile_tuple"][1] = 0
  BY DEF LeavesOf, Ops, Leaves
<1>6. LeavesOf("compile_binary") /\ Leaves["compile_binary"][1] = 0
  BY DEF LeavesOf, Ops, Leaves
<1>7. LeavesOf("compile_call") /\ Leaves["compile_call"][1] = 0
  BY DEF LeavesOf, Ops, Leaves
<1>8. LeavesOf("compile_if") /\ Leaves["compile_if"][1] = 0
  BY DEF LeavesOf, Ops, Leaves
<1>9. LeavesOf("compile_function") /\ Leaves["compile_function"][1] = 0
  BY DEF LeavesOf, Ops, Leaves
<1>10. LeavesOf("compile_parameter") /\ Leaves["compile_parameter"][1] = 0
  BY DEF LeavesOf, Ops, Leaves
<1>11. LeavesOf("compile_let") /\ Leaves["compile_let"][1] = 0
  BY DEF LeavesOf, Ops, Leaves
<1> QED BY <1>1, <1>2, <1>3, <1>4, <1>5, <1>6, <1>7, <1>8, <1>9, <1>10, <1>11
        DEF Procs, Unaries

(* A frame that stands somewhere in its script.                            *)
Placed(a) == a \in ActivationOf /\ a.proc \in Procs /\ a.pc \in 1..(Len(Ops[a.proc]) + 1)

LEMMA LeftNat ==
  ASSUME NEW a, Placed(a)
  PROVE  /\ Left(a) \in Nat
         /\ a.pc = 1 => Left(a) = 0
<1>1. Leaves[a.proc][a.pc] \in {0, 1, 2} /\ (a.pc = 1 => Leaves[a.proc][a.pc] = 0)
  BY LeavesAre DEF LeavesOf, Placed
<1>2. a.count \in Nat
  <2>1. a.count \in 0..UINT8_MAX
    BY DEF Placed, ActivationOf
  <2> QED BY <2>1, Bytes
<1>3. PICK x \in {0, 1, 2} : x = Leaves[a.proc][a.pc]
  BY <1>1
<1>4. PICK y \in Nat : y = IF a.proc = "compile_call" /\ a.pc \in 3..8 THEN a.count ELSE 0
  BY <1>2
<1>5. Left(a) = x + y
  BY <1>3, <1>4 DEF Left
<1>6. a.pc = 1 => x = 0 /\ y = 0
  BY <1>1, <1>3, <1>4
<1> QED BY <1>5, <1>6

AllPlaced == \A i \in DOMAIN calls : Placed(calls[i])

LEMMA FramesPlaced == CInv => AllPlaced
<1> SUFFICES ASSUME CInv, NEW i \in DOMAIN calls PROVE Placed(calls[i])
  BY DEF AllPlaced
<1>1. i \in 1..Len(calls)
  BY CallsNow
<1>2. ActivationOK(calls[i], emit) /\ calls[i] \in ActivationOf
  BY <1>1 DEF CInv, CallsInv, ActivationOK
<1>3. calls[i].proc \in Procs /\ calls[i].pc \in Nat \ {0}
      /\ calls[i].pc <= Len(Script[calls[i].proc]) + 1
  BY <1>2, ProcsAre DEF ActivationOK, ActivationOf
<1>4. Len(Ops[calls[i].proc]) = Len(Script[calls[i].proc]) /\ Len(Script[calls[i].proc]) \in Nat
  <2>1. Len(Ops[calls[i].proc]) = Len(Script[calls[i].proc])
    BY <1>3, OpsAre DEF OpsOf
  <2>2. Script[calls[i].proc] \in Seq(Items) \cup Seq(PlainItems)
    BY <1>3, PlainScripts, PlacedScripts, ProcsAre
  <2> QED BY <2>1, <2>2, LenProperties
<1>5. PICK p \in Nat \ {0}, l \in Nat : p = calls[i].pc /\ l = Len(Ops[calls[i].proc]) /\ p <= l + 1
  BY <1>3, <1>4
<1>6. p \in 1..(l + 1)
  BY <1>5
<1> QED BY <1>2, <1>3, <1>5, <1>6 DEF Placed

(* The places of the running function, before and after a step.            *)
LEMMA MovesPlaced ==
  ASSUME CInv, CInv', NEW op, NEW act, Moves(op, act)
  PROVE  Placed(current) /\ Placed(act)
<1>1. /\ Len(calls) \in Nat \ {0} /\ DOMAIN calls = 1..Len(calls) /\ current = calls[Len(calls)]
      /\ DOMAIN calls' = 1..Len(calls)
      /\ \A i \in 1..Len(calls) : calls'[i] = IF i = Len(calls) THEN act ELSE calls[i]
  BY MovesShape
<1>2. PICK n \in Nat \ {0} : n = Len(calls)
  BY Zenon, <1>1
<1>3. n \in 1..n
  OBVIOUS
<1>4. Placed(calls[n])
  BY Zenon, <1>1, <1>2, <1>3, FramesPlaced DEF AllPlaced
<1>5. \A i \in DOMAIN calls' : Placed(calls'[i])
  <2>1. AllPlaced'
    BY FramesPlaced, PTL
  <2> QED BY <2>1 DEF AllPlaced, Placed
<1> QED BY Zenon, <1>1, <1>2, <1>3, <1>4, <1>5

(* Parsing leaves no more than there was.                                  *)
LEMMA LeftQuiet ==
  ASSUME CInv, CInv', NEW op \in Quiet, NEW act, Moves(op, act)
  PROVE  Left(act) <= Left(current)
<1>1. /\ OpPlaces(current.proc, current.pc, op) /\ Ops[current.proc][current.pc] = op
      /\ current.proc \in Procs /\ current.pc \in 1..Len(Ops[current.proc])
  BY DoingPlace, MovesOp DEF Moves
<1>2. /\ act.proc = current.proc
      /\ \/ act.pc = current.pc + 1
         \/ op = "first_item" /\ act.pc = current.pc + 3
         \/ op = "next_item" /\ act.pc = current.pc - 1
      /\ act.count = IF op = "next_item" THEN (current.count + 1) % (UINT8_MAX + 1)
                                         ELSE current.count
  BY DEF Moves
<1>3. PICK c \in 0..UINT8_MAX : c = current.count
  BY MovesPlaced DEF Placed, ActivationOf
<1>4. c \in Nat /\ (c + 1) % (UINT8_MAX + 1) \in Nat /\ (c + 1) % (UINT8_MAX + 1) <= c + 1
  BY NextByte, Bytes
<1>5. Left(current) \in Nat /\ Left(act) \in Nat
  BY MovesPlaced, LeftNat
<1>6. CASE op \in {"consume", "keep", "keep_bool", "operator"}
  <2>1. Leaves[act.proc][act.pc] = Leaves[current.proc][current.pc] /\ act.pc = current.pc + 1
    BY <1>1, <1>2, <1>6 DEF OpPlaces
  <2>2. act.count = current.count
    BY <1>2, <1>6
  <2>3. current.proc = "compile_call" => (act.pc \in 3..8 <=> current.pc \in 3..8)
    <3>1. SUFFICES ASSUME current.proc = "compile_call"
                   PROVE  act.pc \in 3..8 <=> current.pc \in 3..8
      OBVIOUS
    <3>2. current.pc \in 1..8 /\ current.pc \notin {2, 8}
      BY <1>1, <1>6, <3>1 DEF Ops
    <3> QED BY <2>1, <3>2
  <2>4. Left(act) = Left(current)
    BY <1>2, <2>1, <2>2, <2>3 DEF Left
  <2> QED BY <1>5, <2>4
<1>7. CASE op \in {"first_item", "next_item"} /\ current.proc = "compile_function"
  <2>1. act.pc \in 4..6 /\ act.proc = "compile_function"
    BY <1>1, <1>2, <1>7 DEF OpPlaces
  <2>2. Left(act) = 0
    BY <2>1 DEF Left, Leaves
  <2> QED BY <1>5, <2>2
<1>8. CASE op = "first_item" /\ current.proc = "compile_call"
  <2>1. current.pc = 4 /\ act.pc \in {5, 7} /\ act.count = c
    BY <1>1, <1>2, <1>3, <1>8 DEF OpPlaces
  <2>2. Left(current) = 1 + c /\ Left(act) = 1 + c
    BY <1>2, <1>3, <1>8, <2>1 DEF Left, Leaves
  <2> QED BY <1>4, <2>2
<1>9. CASE op = "next_item" /\ current.proc = "compile_call"
  <2>1. current.pc = 6 /\ act.pc \in {5, 7} /\ act.count = (c + 1) % (UINT8_MAX + 1)
    BY <1>1, <1>2, <1>3, <1>9 DEF OpPlaces
  <2>2. Left(current) = 2 + c
    BY <1>3, <1>9, <2>1 DEF Left, Leaves
  <2>3. PICK d : d = (c + 1) % (UINT8_MAX + 1)
    OBVIOUS
  <2>4. Left(act) = 1 + d
    BY <1>2, <1>9, <2>1, <2>3 DEF Left, Leaves
  <2> QED BY <1>4, <2>2, <2>3, <2>4
<1> QED BY <1>1, <1>6, <1>7, <1>8, <1>9 DEF Quiet, OpPlaces

(* A term adds one cell to what there was.                                 *)
LEMMA LeftEnter ==
  ASSUME CInv, NEW op \in {"term", "dispatch"}, Doing(op), Opened(current) = 0,
         current.pc <= 3 => current.count = 0,
         NEW adv, adv.proc = current.proc, adv.pc = current.pc + 1, adv.count = current.count
  PROVE  Left(adv) = Left(current) + 1
<1>1. OpPlaces(current.proc, current.pc, op)
  BY DoingPlace
<1>2. PICK c \in Nat : c = current.count
  <2>1. current.count \in 0..UINT8_MAX
    BY CurrentFacts DEF Doing, ActivationOf
  <2> QED BY <2>1, Bytes
<1>3. CASE current.proc = "compile_call"
  <2>1. current.pc \in {2, 5}
    BY <1>1, <1>3 DEF OpPlaces, Unaries
  <2>2. CASE current.pc = 2
    BY <1>2, <1>3, <2>2 DEF Left, Leaves
  <2>3. CASE current.pc = 5
    BY <1>2, <1>3, <2>3 DEF Left, Leaves
  <2> QED BY <2>1, <2>2, <2>3
<1>4. CASE current.proc # "compile_call"
  <2>1. Left(current) = Leaves[current.proc][current.pc] /\ Left(adv) = Leaves[adv.proc][adv.pc]
    <3>1. Leaves[current.proc][current.pc] \in {0, 1, 2}
      <4>1. current.proc \in Procs /\ current.pc \in 1..Len(Ops[current.proc])
        BY DoingPlace
      <4> QED BY <4>1, LeavesAre DEF LeavesOf
    <3>2. Leaves[adv.proc][adv.pc] \in {0, 1, 2}
      <4>1. current.proc \in Procs /\ current.pc \in 1..Len(Ops[current.proc])
        BY DoingPlace
      <4>2. adv.pc \in 1..(Len(Ops[adv.proc]) + 1)
        BY <4>1
      <4> QED BY <4>1, <4>2, LeavesAre DEF LeavesOf
    <3> QED BY <1>4, <3>1, <3>2 DEF Left
  <2>2. Leaves[current.proc][current.pc + 1] = Leaves[current.proc][current.pc] + 1
    <3>1. CASE op = "dispatch"
      BY <1>1, <3>1 DEF OpPlaces, Leaves
    <3>2. CASE op = "term" /\ current.proc \in {"compile_file", "compile_let"} \cup Unaries
      BY <1>1, <3>2 DEF OpPlaces, Leaves, Unaries
    <3>3. CASE op = "term" /\ current.proc \in {"compile_tuple", "compile_binary", "compile_if"}
      BY <1>1, <3>3 DEF OpPlaces, Leaves, Unaries
    <3>4. CASE op = "term" /\ current.proc = "compile_function"
      <4>1. Opened(current) = 1
        BY <1>1, <3>4 DEF OpPlaces, Opened, Unaries
      <4> QED BY <4>1
    <3> QED BY <1>1, <1>4, <3>1, <3>2, <3>3, <3>4 DEF OpPlaces
  <2> QED BY <2>1, <2>2
<1> QED BY <1>3, <1>4

LEMMA LeftReturn ==
  ASSUME NEW a \in ActivationOf, a.proc \in Procs, a.pc = Len(Ops[a.proc]) + 1
  PROVE  Left(a) >= IF a.proc = "compile_parameter" THEN 0 ELSE 1
<1>1. CASE a.proc = "compile_file"
  <2>1. a.pc = 7 /\ Leaves[a.proc][7] = 1
    BY <1>1 DEF Ops, Leaves
  <2> QED BY <1>1, <2>1 DEF Left
<1>2. CASE a.proc = "compile_term"
  <2>1. a.pc = 4 /\ Leaves[a.proc][4] = 1
    BY <1>2 DEF Ops, Leaves
  <2> QED BY <1>2, <2>1 DEF Left
<1>3. CASE a.proc = "compile_int"
  <2>1. a.pc = 5 /\ Leaves[a.proc][5] = 1
    BY <1>3 DEF Ops, Leaves
  <2> QED BY <1>3, <2>1 DEF Left
<1>4. CASE a.proc = "compile_str"
  <2>1. a.pc = 5 /\ Leaves[a.proc][5] = 1
    BY <1>4 DEF Ops, Leaves
  <2> QED BY <1>4, <2>1 DEF Left
<1>5. CASE a.proc = "compile_bool"
  <2>1. a.pc = 5 /\ Leaves[a.proc][5] = 1
    BY <1>5 DEF Ops, Leaves
  <2> QED BY <1>5, <2>1 DEF Left
<1>6. CASE a.proc = "compile_var"
  <2>1. a.pc = 5 /\ Leaves[a.proc][5] = 1
    BY <1>6 DEF Ops, Leaves
  <2> QED BY <1>6, <2>1 DEF Left
<1>7. CASE a.proc = "compile_print"
  <2>1. a.pc = 5 /\ Leaves[a.proc][5] = 1
    BY <1>7 DEF Ops, Leaves
  <2> QED BY <1>7, <2>1 DEF Left
<1>8. CASE a.proc = "compile_first"
  <2>1. a.pc = 5 /\ Leaves[a.proc][5] = 1
    BY <1>8 DEF Ops, Leaves
  <2> QED BY <1>8, <2>1 DEF Left
<1>9. CASE a.proc = "compile_second"
  <2>1. a.pc = 5 /\ Leaves[a.proc][5] = 1
    BY <1>9 DEF Ops, Leaves
  <2> QED BY <1>9, <2>1 DEF Left
<1>10. CASE a.proc = "compile_tuple"
  <2>1. a.pc = 7 /\ Leaves[a.proc][7] = 1
    BY <1>10 DEF Ops, Leaves
  <2> QED BY <1>10, <2>1 DEF Left
<1>11. CASE a.proc = "compile_binary"
  <2>1. a.pc = 10 /\ Leaves[a.proc][10] = 1
    BY <1>11 DEF Ops, Leaves
  <2> QED BY <1>11, <2>1 DEF Left
<1>12. CASE a.proc = "compile_call"
  <2>1. a.pc = 9 /\ Leaves[a.proc][9] = 1
    BY <1>12 DEF Ops, Leaves
  <2> QED BY <1>12, <2>1 DEF Left
<1>13. CASE a.proc = "compile_if"
  <2>1. a.pc = 11 /\ Leaves[a.proc][11] = 1
    BY <1>13 DEF Ops, Leaves
  <2> QED BY <1>13, <2>1 DEF Left
<1>14. CASE a.proc = "compile_function"
  <2>1. a.pc = 11 /\ Leaves[a.proc][11] = 1
    BY <1>14 DEF Ops, Leaves
  <2> QED BY <1>14, <2>1 DEF Left
<1>15. CASE a.proc = "compile_parameter"
  <2>1. a.pc = 5 /\ Leaves[a.proc][5] = 0
    BY <1>15 DEF Ops, Leaves
  <2> QED BY <1>15, <2>1 DEF Left
<1>16. CASE a.proc = "compile_let"
  <2>1. a.pc = 8 /\ Leaves[a.proc][8] = 2
    BY <1>16 DEF Ops, Leaves
  <2> QED BY <1>16, <2>1 DEF Left
<1> QED BY <1>1, <1>2, <1>3, <1>4, <1>5, <1>6, <1>7, <1>8,
           <1>9, <1>10, <1>11, <1>12, <1>13, <1>14, <1>15, <1>16 DEF Procs

(* What an emission takes and leaves.                                      *)
LEMMA LeftWrites ==
  ASSUME CInv, NEW op \in Emitting \cup {"var", "close_function", "open_function", "set_arity"},
         NEW act, Moves(op, act)
  PROVE  /\ act.pc = current.pc + 1
         /\ op = "jump_if_false" => Left(current) = 1 /\ Left(act) = 0
         /\ op = "jump_over" => Left(current) = 1 /\ Left(act) = 0
         /\ op = "patch_jump" => Left(current) = 1 /\ Left(act) = 1
         /\ op = "emit_call" => Left(current) = 1 + current.count /\ Left(act) = 1
         /\ op \in {"emit_int", "emit_str", "var", "close_function"} =>
              Left(current) = 0 /\ Left(act) = 1
         /\ op \in {"open_function", "set_arity"} => Left(current) = 0 /\ Left(act) = 0
         /\ op = "emit" /\ current.proc \in Unaries => Left(current) = 1 /\ Left(act) = 1
         /\ op = "emit" /\ current.proc = "compile_bool" => Left(current) = 0 /\ Left(act) = 1
         /\ op = "emit" /\ current.proc \in {"compile_tuple", "compile_binary"} =>
              Left(current) = 2 /\ Left(act) = 1
         /\ op = "emit" /\ current.proc = "compile_file" => act.pc = 7
<1>1. OpPlaces(current.proc, current.pc, op) /\ calls # <<>>
  BY DoingPlace DEF Moves, Doing
<1>2. act.pc = current.pc + 1 /\ act.proc = current.proc /\ act.count = current.count
  BY DEF Moves, Emitting
<1>3. PICK c \in Nat : c = current.count
  <2>1. current.count \in 0..UINT8_MAX
    BY <1>1, CurrentFacts DEF ActivationOf
  <2> QED BY <2>1, Bytes
<1>4. /\ op = "jump_if_false" => Left(current) = 1 /\ Left(act) = 0
      /\ op = "jump_over" => Left(current) = 1 /\ Left(act) = 0
      /\ op = "patch_jump" => Left(current) = 1 /\ Left(act) = 1
  BY <1>1, <1>2 DEF OpPlaces, Left, Leaves
<1>5. op = "emit_call" => Left(current) = 1 + current.count /\ Left(act) = 1
  BY <1>1, <1>2, <1>3 DEF OpPlaces, Left, Leaves
<1>6. op \in {"emit_int", "emit_str", "var", "close_function"} =>
        Left(current) = 0 /\ Left(act) = 1
  BY <1>1, <1>2 DEF OpPlaces, Left, Leaves
<1>7. op \in {"open_function", "set_arity"} => Left(current) = 0 /\ Left(act) = 0
  BY <1>1, <1>2 DEF OpPlaces, Left, Leaves
<1>8. op = "emit" /\ current.proc \in Unaries => Left(current) = 1 /\ Left(act) = 1
  BY <1>1, <1>2 DEF OpPlaces, Left, Leaves, Unaries
<1>9. op = "emit" /\ current.proc = "compile_bool" => Left(current) = 0 /\ Left(act) = 1
  BY <1>1, <1>2 DEF OpPlaces, Left, Leaves, Unaries
<1>10. op = "emit" /\ current.proc \in {"compile_tuple", "compile_binary"} =>
         Left(current) = 2 /\ Left(act) = 1
  BY <1>1, <1>2 DEF OpPlaces, Left, Leaves, Unaries
<1>11. op = "emit" /\ current.proc = "compile_file" => act.pc = 7
  BY <1>1, <1>2 DEF OpPlaces, Unaries
<1> QED BY <1>2, <1>4, <1>5, <1>6, <1>7, <1>8, <1>9, <1>10, <1>11

(* Which byte compile_X emits at its end.                                  *)
LEMMA OperationOf ==
  ASSUME CInv, Doing("emit")
  PROVE  \/ current.proc = "compile_file" /\ Operation = "OP_RETURN"
         \/ current.proc \in Unaries /\ Operation \in {"OP_FIRST", "OP_SECOND", "OP_PRINT"}
         \/ current.proc = "compile_bool" /\ Operation \in {"OP_FALSE", "OP_TRUE"}
         \/ current.proc \in {"compile_tuple", "compile_binary"} /\ Operation \in Binary
<1>1. OpPlaces(current.proc, current.pc, "emit") /\ calls # <<>>
  BY DoingPlace DEF Doing
<1>2. CASE current.proc = "compile_file" /\ current.pc = 6
  <2>1. item = Emit("OP_RETURN")
    BY <1>2 DEF item, Script, compile_file
  <2> QED BY <1>2, <2>1 DEF Operation, Emit, Item
<1>3. CASE current.proc \in Unaries /\ current.pc = 4
  <2>1. PICK o \in {"OP_FIRST", "OP_SECOND", "OP_PRINT"} : item = Unary(o)[4]
    BY <1>3 DEF item, Script, Unaries, compile_print, compile_first, compile_second
  <2>2. item = Emit(o)
    BY <2>1 DEF Unary
  <2> QED BY <1>3, <2>2 DEF Operation, Emit, Item
<1>4. CASE current.proc = "compile_bool" /\ current.pc = 4
  <2>1. item = Emit("bool")
    BY <1>4 DEF item, Script, compile_bool
  <2> QED BY <1>4, <2>1 DEF Operation, Emit, Item
<1>5. CASE current.proc = "compile_tuple" /\ current.pc = 6
  <2>1. item = Emit("OP_TUPLE")
    BY <1>5 DEF item, Script, compile_tuple
  <2> QED BY <1>5, <2>1 DEF Operation, Emit, Item, Binary
<1>6. CASE current.proc = "compile_binary" /\ current.pc = 9
  <2>1. item = Emit("operator")
    BY <1>6 DEF item, Script, compile_binary
  <2>2. ActivationOK(current, emit)
    BY <1>1, CurrentFacts
  <2>3. Matches(Operators, current.token.text) # {}
    BY <1>6, <2>2 DEF ActivationOK
  <2>4. PICK i : i = CHOOSE j \in Matches(Operators, current.token.text) : TRUE
    OBVIOUS
  <2>5. i \in DOMAIN Operators
    BY <2>3, <2>4 DEF Matches
  <2>6. Operation = Operators[i][2]
    BY <2>1, <2>4 DEF Operation, Emit, Item
  <2>7. Len(Operators) = 13 /\ DOMAIN Operators = 1..13
    BY DEF Operators
  <2>8. i \in {1, 2, 3, 4, 5, 6, 7, 8, 9, 10, 11, 12, 13}
    BY <2>5, <2>7
  <2>9. Operators[i][2] \in {"OP_ADD", "OP_SUB", "OP_MUL", "OP_DIV", "OP_REM", "OP_EQ",
                             "OP_NEQ", "OP_LTE", "OP_LT", "OP_GTE", "OP_GT", "OP_AND",
                             "OP_OR"}
    BY <2>8 DEF Operators
  <2> QED BY <1>6, <2>6, <2>9 DEF Binary
<1> QED BY <1>1, <1>2, <1>3, <1>4, <1>5, <1>6 DEF OpPlaces
-----------------------------------------------------------------------------
(* What the compiler knows of the stack of the machine.                    *)

compiled == [functions |-> functions, strs |-> strs]

(* The code of the program has not ended.                                  *)
Going == calls # <<>> /\ calls[1].pc < 7

Ended(a) == a.proc = "compile_file" /\ a.pc = 7

(* Control may come to the end of the code of f as it stands.              *)
Live(f) == \E k \in 1..Len(comps) : comps[k].fn = f /\ (k > 1 \/ Going)

(* The cells at the end of the code of record k.                           *)
End(H, k) == H[comps[k].fn][Len(functions[comps[k].fn].code)]

(* How many cells of a stand under those of what it has called.            *)
Needs(a, b) == IF b.proc = "compile_parameter" THEN 0 ELSE Left(a) - 1

(* B[i] cells stand under those of frame i of s.                           *)
BasedIn(s, B) ==
  /\ DOMAIN B = DOMAIN s
  /\ \A i \in DOMAIN s : B[i] \in Nat
  /\ \A i \in DOMAIN s :
       i + 1 \in DOMAIN s /\ Opened(s[i]) = 0 => B[i + 1] >= B[i] + Needs(s[i], s[i + 1])

(* Frame i compiles something in the value of a let of its function.       *)
InValue(s, i) ==
  \E j \in 1..(i - 1) : s[j].proc = "compile_let" /\ s[j].comp = s[i].comp /\ s[j].pc = 5

(* The let of frame i has declared its name.                               *)
Named(s, i) == s[i].pc > 3 \/ (s[i].pc = 3 /\ (i = Len(s) \/ s[i + 1].pc = 5))

(* All slots have cells under those of frame i, but for the slot of a let  *)
(* whose value is still to come.                                           *)
FloorOK(s, i, slots, b) ==
  /\ s[i].proc \in TermProcs \ {"compile_let"} \/ (s[i].proc = "compile_term" /\ s[i].pc <= 3)
       => slots <= b + (IF InValue(s, i) THEN 1 ELSE 0)
  /\ s[i].proc = "compile_let" /\ s[i].pc <= 6
       => slots <= b + (IF Named(s, i) THEN 1 ELSE 0)
  /\ s[i].proc = "compile_file" /\ s[i].pc <= 4 => slots = 0

Floors(B) ==
  \A i \in DOMAIN calls : FloorOK(calls, i, Slots(comps[calls[i].comp]), B[i])

(* What the frame that writes to a function has left is there.             *)
Heights(H, B) ==
  \A i \in DOMAIN calls :
    (i = Len(calls) \/ Opened(calls[i]) = 1) /\ ~Ended(calls[i]) =>
      End(H, calls[i].comp) >= B[i] + Left(calls[i])

(* Before a jump that a frame remembers there is a condition or a branch.  *)
HoldsAt(a, h, g, b) ==
  a.jump # NoJump =>
    h[a.jump - 1] >= b + 1 /\ (a.pc >= 7 => OpAt(g, a.jump - 1) = "OP_JUMP")

Holds(H, B) ==
  \A i \in DOMAIN calls :
    HoldsAt(calls[i], H[comps[calls[i].comp].fn], functions[comps[calls[i].comp].fn], B[i])

(* A closure that captures a slot of record k stands on its cell at least. *)
Outer(H) == \A k \in 1..(Len(comps) - 1) : Slots(comps[k]) <= End(H, k) + 1

Covered(H, B) ==
  /\ DOMAIN H = DOMAIN functions
  /\ \A f \in DOMAIN functions : Measures(compiled, functions[f], H[f], Pending(f), Live(f))
  /\ BasedIn(calls, B)
  /\ Heights(H, B)
  /\ Holds(H, B)
  /\ Floors(B)
  /\ Outer(H)

CertInv == emit => \E H, B : Covered(H, B)

(* The frame of compile_file runs, or waits for its expression.            *)
LEMMA FirstWaits ==
  ASSUME CInv, Chained, calls # <<>>
  PROVE  /\ calls[1].proc = "compile_file"
         /\ Len(calls) = 1 => calls[1] = current
         /\ Len(calls) # 1 => calls[1].pc = 5 /\ current.proc # "compile_file"
<1>1. PICK n \in Nat \ {0} : n = Len(calls) /\ current = calls[n] /\ DOMAIN calls = 1..n
  BY Zenon, CallsNow
<1>2. 1 \in 1..n /\ n \in 1..n /\ 1 + 1 = 2 /\ (n # 1 => 2 \in 1..n)
  OBVIOUS
<1>3. \A i \in 1..n : /\ i = 1 <=> calls[i].proc = "compile_file"
                      /\ i + 1 \in 1..n => Waits(calls[i], calls[i + 1])
  BY <1>1 DEF Chained, ChainedIn
<1>4. calls[1].proc = "compile_file" /\ (n # 1 => Waits(calls[1], calls[2]))
  BY <1>2, <1>3
<1>5. n # 1 => calls[n].proc # "compile_file"
  BY <1>2, <1>3
<1>6. n # 1 => calls[1].pc = 5
  <2>1. calls[1] \in ActivationOf
    BY <1>1, <1>2, CallsNow
  <2>2. calls[1].pc \in Nat /\ calls[1].proc \in Procs
    BY <1>4, <2>1 DEF ActivationOf, Procs
  <2> QED BY <1>4, <2>2, WaitsAt
<1> QED BY <1>1, <1>4, <1>5, <1>6

(* The program's code ends as compile_file emits OP_RETURN.                *)
LEMMA MovesGoing ==
  ASSUME CInv, Chained, NEW op, NEW act, Moves(op, act)
  PROVE  /\ Going /\ ~Ended(current)
         /\ Going' <=> ~Ended(act)
         /\ Ended(act) <=> op = "emit" /\ current.proc = "compile_file"
         /\ Ended(act) => Len(calls) = 1
<1>1. /\ calls # <<>> /\ DOMAIN calls' = 1..Len(calls)
      /\ \A i \in 1..Len(calls) : calls'[i] = IF i = Len(calls) THEN act ELSE calls[i]
  BY MovesShape
<1>2. PICK n \in Nat \ {0} : n = Len(calls)
  BY MovesShape
<1>3. 1 \in 1..n
  OBVIOUS
<1>4. calls' # <<>> /\ calls'[1] = IF 1 = n THEN act ELSE calls[1]
  BY <1>1, <1>2, <1>3
<1>5. /\ OpPlaces(current.proc, current.pc, op)
      /\ current.pc \in 1..Len(Ops[current.proc])
  BY DoingPlace DEF Moves
<1>6. /\ act.proc = current.proc
      /\ \/ act.pc = current.pc + 1
         \/ op = "first_item" /\ act.pc = current.pc + 3
         \/ op = "next_item" /\ act.pc = current.pc - 1
  BY DEF Moves
<1>7. CASE n = 1
  <2>1. current.proc = "compile_file"
    BY <1>1, <1>2, <1>7, FirstWaits
  <2>2. current.pc \in 1..6
    <3>1. Len(Ops["compile_file"]) = 6
      BY DEF Ops
    <3> QED BY <1>5, <2>1, <3>1
  <2>3. act.pc = current.pc + 1
    BY <1>5, <1>6, <2>1 DEF OpPlaces
  <2>4. op = "emit" <=> current.pc = 6
    BY <1>5, <2>1 DEF OpPlaces, Unaries
  <2>5. calls[1] = current /\ calls'[1] = act
    BY <1>1, <1>2, <1>4, <1>7, FirstWaits
  <2> QED BY <1>1, <1>2, <1>4, <1>6, <1>7, <2>1, <2>2, <2>3, <2>4, <2>5 DEF Going, Ended
<1>8. CASE n # 1
  <2>1. calls[1].pc = 5 /\ current.proc # "compile_file"
    BY <1>1, <1>2, <1>8, FirstWaits
  <2>2. calls'[1].pc = 5
    BY <1>4, <1>8, <2>1
  <2>3. act.proc # "compile_file"
    BY <1>6, <2>1
  <2> QED BY <1>1, <1>4, <2>1, <2>2, <2>3 DEF Going, Ended
<1> QED BY <1>7, <1>8

LEMMA EnterGoing ==
  ASSUME CInv, Chained, NEW op \in {"term", "call", "dispatch"}, Doing(op),
         NEW proc, NEW isTail, Enter(proc, isTail)
  PROVE  Going /\ Going' /\ ~Ended(current)
<1>1. /\ DOMAIN calls' = 1..(Len(calls) + 1) /\ calls # <<>>
      /\ \A i \in 1..Len(calls) : i # Len(calls) => calls'[i] = calls[i]
      /\ calls'[Len(calls)].pc = current.pc + 1
  BY EnterShape
<1>2. PICK n \in Nat \ {0} : n = Len(calls)
  BY EnterShape
<1>3. 1 \in 1..n /\ 1 \in 1..(n + 1)
  OBVIOUS
<1>4. calls' # <<>>
  <2>1. DOMAIN calls' # {}
    BY <1>1, <1>2, <1>3
  <2>2. DOMAIN <<>> = {}
    OBVIOUS
  <2> QED BY <2>1, <2>2
<1>5. CASE n = 1
  <2>1. calls[1] = current /\ current.proc = "compile_file"
    BY <1>1, <1>2, <1>5, FirstWaits
  <2>2. current.pc = 4
    <3>1. OpPlaces(current.proc, current.pc, op)
      BY DoingPlace
    <3> QED BY <2>1, <3>1 DEF OpPlaces, Unaries
  <2>3. calls'[1].pc = 5
    BY <1>1, <1>2, <1>5, <2>2
  <2> QED BY <1>1, <1>4, <2>1, <2>2, <2>3 DEF Going, Ended
<1>6. CASE n # 1
  <2>1. calls[1].pc = 5 /\ current.proc # "compile_file"
    BY <1>1, <1>2, <1>6, FirstWaits
  <2>2. calls'[1].pc = 5
    BY <1>1, <1>2, <1>3, <1>6, <2>1
  <2> QED BY <1>1, <1>4, <2>1, <2>2 DEF Going, Ended
<1> QED BY <1>5, <1>6

LEMMA ReturnGoing ==
  ASSUME CInv, Chained, return
  PROVE  /\ Going' <=> Going
         /\ Len(calls) > 1 => ~Ended(current) /\ Going
<1>1. /\ DOMAIN calls' = 1..(Len(calls) - 1) /\ calls # <<>>
      /\ \A i \in 1..(Len(calls) - 1) : calls'[i] = calls[i]
      /\ current.pc = Len(Ops[current.proc]) + 1
  BY ReturnShape
<1>2. PICK n \in Nat \ {0} : n = Len(calls)
  BY Zenon, ReturnShape
<1>3. CASE n = 1
  <2>1. calls[1].pc = 7
    <3>1. calls[1] = current /\ current.proc = "compile_file"
      BY <1>1, <1>2, <1>3, FirstWaits
    <3>2. Len(Ops["compile_file"]) + 1 = 7
      BY DEF Ops
    <3> QED BY <1>1, <3>1, <3>2
  <2>2. calls' = <<>>
    <3>1. depth = Len(calls) /\ calls \in Seq(ActivationOf)
      BY <1>1, CallsNow
    <3>2. calls' = SubSeq(calls, 1, n - 1)
      BY <1>2, <3>1 DEF return
    <3> QED BY <1>3, <3>1, <3>2
  <2> QED BY <1>2, <1>3, <2>1, <2>2 DEF Going
<1>4. CASE n # 1
  <2>1. calls[1].pc = 5 /\ current.proc # "compile_file"
    BY <1>1, <1>2, <1>4, FirstWaits
  <2>2. 1 \in 1..(n - 1)
    BY <1>4
  <2>3. calls'[1] = calls[1] /\ calls' # <<>>
    <3>1. DOMAIN calls' # {}
      BY <1>1, <1>2, <2>2
    <3>2. DOMAIN <<>> = {}
      OBVIOUS
    <3>3. calls' # <<>>
      BY <3>1, <3>2
    <3> QED BY <1>1, <1>2, <2>2, <3>3
  <2> QED BY <1>1, <2>1, <2>3 DEF Going, Ended
<1> QED BY <1>2, <1>3, <1>4

(* A function is live as long as a record has it.                          *)
LEMMA LiveKept ==
  ASSUME Going' <=> Going, Len(comps') = Len(comps),
         \A k \in 1..Len(comps) : comps'[k].fn = comps[k].fn
  PROVE  \A f : Live(f)' <=> Live(f)
BY DEF Live
-----------------------------------------------------------------------------
(* What holds of the frames as the running function goes on.               *)

LEMMA FramesRecords ==
  ASSUME CInv, calls # <<>>
  PROVE  /\ current.comp \in Nat \ {0} /\ current.comp <= Len(comps)
         /\ \A i \in 1..Len(calls) :
              /\ calls[i].comp \in Nat \ {0} /\ calls[i].comp <= current.comp
              /\ i # Len(calls) => calls[i].comp + Opened(calls[i]) <= current.comp
<1>1. PICK n \in Nat \ {0} : n = Len(calls) /\ current = calls[n] /\ DOMAIN calls = 1..n
  BY Zenon, CallsNow
<1>2. ASSUME NEW i \in 1..n
      PROVE  calls[i].comp \in Nat \ {0} /\ Opened(calls[i]) \in {0, 1}
  <2>1. calls[i] \in ActivationOf
    BY <1>1, <1>2, CallsNow
  <2> QED BY <2>1 DEF ActivationOf, Opened
<1>3. n \in 1..n
  OBVIOUS
<1>4. ASSUME NEW i \in 1..n, i # n
      PROVE  calls[i].comp + Opened(calls[i]) <= current.comp
  <2>1. i < n
    BY <1>4
  <2>2. Top(calls[i]) <= calls[n].comp
    BY <1>1, <1>3, <1>4, <2>1 DEF CInv, CallsInv
  <2> QED BY <1>1, <2>2 DEF Top
<1>5. ASSUME NEW i \in 1..n PROVE calls[i].comp <= current.comp
  <2>1. PICK a \in Nat, o \in {0, 1}, c \in Nat :
          a = calls[i].comp /\ o = Opened(calls[i]) /\ c = current.comp
    BY <1>1, <1>2, <1>3
  <2>2. i # n => a + o <= c
    BY <1>4, <2>1
  <2>3. i = n => a = c
    BY <1>1, <2>1
  <2> QED BY <2>1, <2>2, <2>3
<1>6. current.comp <= Len(comps)
  <2>1. Len(comps) = Top(current)
    BY CurrentFacts
  <2>2. PICK a \in Nat, o \in {0, 1} : a = current.comp /\ o = Opened(current)
    BY <1>1, <1>2, <1>3
  <2> QED BY <2>1, <2>2 DEF Top
<1> QED BY <1>1, <1>2, <1>3, <1>4, <1>5, <1>6

LEMMA BasedMoves ==
  ASSUME CInv, NEW op, NEW act, Moves(op, act), NEW B, BasedIn(calls, B)
  PROVE  BasedIn(calls', B)
<1>1. PICK n \in Nat \ {0} :
        /\ n = Len(calls) /\ current = calls[n] /\ DOMAIN calls = 1..n /\ DOMAIN calls' = 1..n
        /\ \A i \in 1..n : calls'[i] = IF i = n THEN act ELSE calls[i]
  BY MovesShape
<1>2. ASSUME NEW i \in 1..n, i + 1 \in 1..n, Opened(calls'[i]) = 0
      PROVE  B[i + 1] >= B[i] + Needs(calls'[i], calls'[i + 1])
  <2>1. i # n
    BY <1>2
  <2>2. calls'[i] = calls[i]
    BY <1>1, <2>1
  <2>3. calls'[i + 1].proc = calls[i + 1].proc
    BY <1>1, <1>2 DEF Moves
  <2>4. B[i + 1] >= B[i] + Needs(calls[i], calls[i + 1])
    BY <1>1, <1>2, <2>2 DEF BasedIn
  <2> QED BY <2>2, <2>3, <2>4 DEF Needs
<1> QED BY <1>1, <1>2 DEF BasedIn

LEMMA NamedMoves ==
  ASSUME CInv, Chained, NEW op, NEW act, Moves(op, act),
         NEW i \in 1..Len(calls), calls[i].proc = "compile_let", Named(calls, i)
  PROVE  Named(calls', i)
<1>1. PICK n \in Nat \ {0} :
        /\ n = Len(calls) /\ n = Len(calls') /\ current = calls[n]
        /\ DOMAIN calls = 1..n /\ DOMAIN calls' = 1..n
        /\ \A j \in 1..n : calls'[j] = IF j = n THEN act ELSE calls[j]
  BY MovesShape
<1>2. /\ OpPlaces(current.proc, current.pc, op) /\ current.pc \in 1..Len(Ops[current.proc])
      /\ act.pc \in {current.pc + 1, current.pc + 3} \/ op = "next_item"
  BY DoingPlace DEF Moves
<1>3. current.pc \in Nat
  <2>1. current \in ActivationOf
    BY CurrentFacts, MovesShape
  <2> QED BY <2>1 DEF ActivationOf
<1>4. CASE i = n
  <2>1. op # "next_item"
    BY <1>1, <1>2, <1>4 DEF OpPlaces
  <2>2. current.pc >= 3
    BY <1>1, <1>3, <1>4 DEF Named
  <2>3. act.pc > 3
    BY <1>2, <1>3, <2>1, <2>2
  <2> QED BY <1>1, <1>4, <2>3 DEF Named
<1>5. CASE i # n
  <2>1. i \in 1..n /\ i + 1 \in 1..n
    BY <1>1, <1>5
  <2>2. calls'[i] = calls[i]
    BY <1>1, <1>5, <2>1
  <2>3. CASE calls[i].pc > 3
    BY <2>2, <2>3 DEF Named
  <2>4. CASE calls[i].pc = 3 /\ calls[i + 1].pc = 5
    <3>1. Waits(calls[i], calls[i + 1])
      BY <1>1, <2>1 DEF Chained, ChainedIn
    <3>2. calls[i + 1].proc = "compile_parameter"
      BY <2>4, <3>1, WaitsAt DEF Procs
    <3>3. i + 1 # n
      <4>1. Len(Ops["compile_parameter"]) = 4
        BY DEF Ops
      <4>2. i + 1 = n => current.proc = "compile_parameter" /\ current.pc = 5
        BY <1>1, <2>4, <3>2
      <4>3. current.proc = "compile_parameter" => current.pc \in 1..4
        BY <1>2, <4>1
      <4> QED BY <4>2, <4>3
    <3>4. calls'[i + 1] = calls[i + 1]
      BY <1>1, <2>1, <3>3
    <3> QED BY <2>2, <2>4, <3>4 DEF Named
  <2> QED BY <1>1, <1>5, <2>3, <2>4 DEF Named
<1> QED BY <1>4, <1>5

LEMMA FloorMoves ==
  ASSUME CInv, Chained, NEW op, NEW act, Moves(op, act),
         NEW i \in 1..Len(calls), NEW slots \in Nat, NEW b \in Nat, FloorOK(calls, i, slots, b)
  PROVE  FloorOK(calls', i, slots, b)
<1>1. PICK n \in Nat \ {0} :
        /\ n = Len(calls) /\ current = calls[n] /\ DOMAIN calls = 1..n /\ DOMAIN calls' = 1..n
        /\ \A j \in 1..n : calls'[j] = IF j = n THEN act ELSE calls[j]
  BY MovesShape
<1>2. /\ OpPlaces(current.proc, current.pc, op)
      /\ act.pc \in {current.pc + 1, current.pc + 3} \/ op = "next_item"
      /\ act.proc = current.proc /\ act.comp = current.comp
  BY DoingPlace DEF Moves
<1>3. current.pc \in Nat
  <2>1. current \in ActivationOf
    BY CurrentFacts, MovesShape
  <2> QED BY <2>1 DEF ActivationOf
<1>4. \A j \in 1..n : calls'[j].proc = calls[j].proc /\ calls'[j].comp = calls[j].comp
  BY <1>1, <1>2
<1>5. InValue(calls', i) <=> InValue(calls, i)
  <2>1. \A j \in 1..(i - 1) : j \in 1..n /\ calls'[j] = calls[j]
    BY <1>1
  <2>2. calls'[i].comp = calls[i].comp
    BY <1>1, <1>4
  <2> QED BY <2>1, <2>2 DEF InValue
<1>6. ASSUME calls[i].proc \in {"compile_term", "compile_let", "compile_file"}
      PROVE  \A m \in 1..6 : calls'[i].pc <= m => calls[i].pc <= m
  <2>1. CASE i = n
    <3>1. op # "next_item"
      BY <1>1, <1>2, <1>6, <2>1 DEF OpPlaces
    <3>2. act.pc \in {current.pc + 1, current.pc + 3}
      BY <1>2, <3>1
    <3>3. calls'[i] = act /\ calls[i] = current
      BY <1>1, <2>1
    <3> QED BY SMTT(60), <1>3, <3>2, <3>3
  <2>2. CASE i # n
    BY <1>1, <2>2
  <2> QED BY <2>1, <2>2
<1>7. calls[i].proc = "compile_let" /\ Named(calls, i) => Named(calls', i)
  BY NamedMoves
<1>8. calls'[i].proc = calls[i].proc
  BY <1>1, <1>4
<1>9. 3 \in 1..6 /\ 4 \in 1..6 /\ 6 \in 1..6
  OBVIOUS
<1>10. calls'[i].proc \in TermProcs \ {"compile_let"}
         \/ (calls'[i].proc = "compile_term" /\ calls'[i].pc <= 3)
       => slots <= b + (IF InValue(calls', i) THEN 1 ELSE 0)
  BY <1>5, <1>6, <1>8, <1>9 DEF FloorOK
<1>11. calls'[i].proc = "compile_let" /\ calls'[i].pc <= 6
         => slots <= b + (IF Named(calls', i) THEN 1 ELSE 0)
  <2> SUFFICES ASSUME calls'[i].proc = "compile_let", calls'[i].pc <= 6
               PROVE  slots <= b + (IF Named(calls', i) THEN 1 ELSE 0)
    OBVIOUS
  <2>1. slots <= b + (IF Named(calls, i) THEN 1 ELSE 0)
    BY <1>6, <1>8, <1>9 DEF FloorOK
  <2> QED BY <1>7, <1>8, <2>1
<1>12. calls'[i].proc = "compile_file" /\ calls'[i].pc <= 4 => slots = 0
  BY <1>6, <1>8, <1>9 DEF FloorOK
<1> QED BY <1>10, <1>11, <1>12 DEF FloorOK

LEMMA PendingMoves ==
  ASSUME CInv, NEW op, NEW act, Moves(op, act), act.jump = current.jump,
         \A i \in 1..Len(calls) : comps'[calls[i].comp].fn = comps[calls[i].comp].fn
  PROVE  \A f : Pending(f)' = Pending(f)
<1>1. PICK n \in Nat \ {0} :
        /\ n = Len(calls) /\ current = calls[n] /\ DOMAIN calls = 1..n /\ DOMAIN calls' = 1..n
        /\ \A i \in 1..n : calls'[i] = IF i = n THEN act ELSE calls[i]
  BY MovesShape
<1>2. \A i \in 1..n : calls'[i].jump = calls[i].jump /\ calls'[i].comp = calls[i].comp
  BY <1>1 DEF Moves
<1>3. \A i \in DOMAIN calls :
        /\ calls'[i].jump = calls[i].jump
        /\ comps'[calls'[i].comp].fn = comps[calls[i].comp].fn
  BY <1>1, <1>2
<1> QED BY <1>1, <1>3, PendingKept

LEMMA PendingEnter ==
  ASSUME CInv, NEW op, Doing(op), NEW proc, NEW isTail, Enter(proc, isTail)
  PROVE  \A f : Pending(f)' = Pending(f)
<1>1. PICK n \in Nat \ {0} :
        /\ n = Len(calls) /\ current = calls[n]
        /\ DOMAIN calls = 1..n /\ DOMAIN calls' = 1..(n + 1)
        /\ calls'[n + 1].jump = NoJump
        /\ \A i \in 1..n : i # n => calls'[i] = calls[i]
        /\ calls'[n].jump = current.jump /\ calls'[n].comp = current.comp
        /\ comps' = comps
  BY EnterShape
<1>2. \A i \in 1..n : calls'[i].jump = calls[i].jump /\ calls'[i].comp = calls[i].comp
  BY <1>1
<1>3. \A i \in 1..(n + 1) : i = n + 1 \/ i \in 1..n
  BY LastOrBefore
<1>4. \A i \in 1..n : i \in 1..(n + 1)
  OBVIOUS
<1>5. {i \in DOMAIN calls' : calls'[i].jump # NoJump} = {i \in DOMAIN calls : calls[i].jump # NoJump}
  BY <1>1, <1>2, <1>3, <1>4
<1> SUFFICES ASSUME NEW f PROVE Pending(f)' = Pending(f)
  OBVIOUS
<1>6. {i \in DOMAIN calls' : calls'[i].jump # NoJump /\ comps'[calls'[i].comp].fn = f}
        = {i \in DOMAIN calls : calls[i].jump # NoJump /\ comps[calls[i].comp].fn = f}
  BY <1>1, <1>2, <1>5
<1> QED BY <1>1, <1>2, <1>6 DEF Pending

LEMMA PendingReturn ==
  ASSUME CInv, JumpsHeld, return
  PROVE  \A f : Pending(f)' = Pending(f)
<1>1. PICK n \in Nat \ {0} :
        /\ n = Len(calls) /\ current = calls[n]
        /\ DOMAIN calls = 1..n /\ DOMAIN calls' = 1..(n - 1)
        /\ \A i \in 1..(n - 1) : calls'[i] = calls[i]
        /\ current.pc = Len(Ops[current.proc]) + 1
        /\ comps' = comps
  BY Zenon, ReturnShape
<1>2. current.jump = NoJump
  <2>1. n \in DOMAIN calls
    BY <1>1
  <2>2. HeldBy(current, emit)
    BY <1>1, <2>1 DEF JumpsHeld
  <2>3. current.proc = "compile_if" => current.pc = 11
    <3>1. current.proc = "compile_if" => Len(Ops[current.proc]) + 1 = 11
      BY DEF Ops
    <3>2. current.pc = Len(Ops[current.proc]) + 1
      BY <1>1
    <3> QED BY <3>1, <3>2
  <2> QED BY <2>2, <2>3 DEF HeldBy
<1>3. \A i \in 1..n : i = n \/ i \in 1..(n - 1)
  OBVIOUS
<1>4. \A i \in 1..(n - 1) : i \in 1..n
  OBVIOUS
<1> SUFFICES ASSUME NEW f PROVE Pending(f)' = Pending(f)
  OBVIOUS
<1>5. {i \in DOMAIN calls' : calls'[i].jump # NoJump /\ comps'[calls'[i].comp].fn = f}
        = {i \in DOMAIN calls : calls[i].jump # NoJump /\ comps[calls[i].comp].fn = f}
  BY <1>1, <1>2, <1>3, <1>4
<1>6. \A i \in DOMAIN calls : calls[i].jump # NoJump => i \in DOMAIN calls' /\ calls'[i] = calls[i]
  BY <1>1, <1>2, <1>3
<1> QED BY <1>5, <1>6 DEF Pending

(* The running function goes on as act, and what is written leaves what    *)
(* the frames know.                                                        *)
LEMMA MoveCovered ==
  ASSUME CInv, CInv', CodeInv, Chained, Chained',
         NEW op, NEW act, Moves(op, act), op # "add_local",
         NEW H, NEW B, Covered(H, B), NEW H2, DOMAIN H2 = DOMAIN functions',
         \A f \in DOMAIN functions' :
           Measures(compiled', functions'[f], H2[f], Pending(f)', Live(f)'),
         \A f \in DOMAIN functions : \A a \in dump_function(functions[f]) :
           H2[f][a] = H[f][a] /\ OpAt(functions'[f], a) = OpAt(functions[f], a),
         \A k \in 1..Len(comps) : k <= Len(comps') =>
           comps'[k].fn = comps[k].fn /\ Slots(comps'[k]) = Slots(comps[k]),
         \A k \in 1..(current.comp - 1) : End(H2, k)' = End(H, k),
         ~Ended(act) => End(H2, act.comp)' >= B[Len(calls)] + Left(act),
         HoldsAt(act, H2[comps'[act.comp].fn], functions'[comps'[act.comp].fn],
                 B[Len(calls)]),
         act.comp < Len(comps') => Slots(comps[act.comp]) <= End(H2, act.comp)' + 1
  PROVE  Covered(H2, B)'
<1>1. PICK n \in Nat \ {0} :
        /\ n = Len(calls) /\ n = Len(calls') /\ current = calls[n]
        /\ DOMAIN calls = 1..n /\ DOMAIN calls' = 1..n
        /\ \A i \in 1..n : calls'[i] = IF i = n THEN act ELSE calls[i]
  BY MovesShape
<1>2. calls # <<>> /\ n \in 1..n
  BY <1>1, MovesShape
<1>3. act.comp = current.comp
  BY DEF Moves
<1>4. PICK m \in Nat \ {0} : m = current.comp
  BY <1>2, FramesRecords
<1>5. m <= Len(comps) /\ m <= Len(comps') /\ Len(comps) \in Nat /\ Len(comps') \in Nat
  <2>1. Len(comps') = Top(act)
    <3>1. calls' # <<>>
      BY <1>1, <1>2
    <3>2. Len(comps') = Top(calls'[Len(calls')])
      BY <3>1 DEF CInv, CallsInv
    <3> QED BY <1>1, <1>2, <3>2
  <2>2. PICK o \in {0, 1} : Top(act) = m + o
    BY <1>3, <1>4 DEF Top, Opened
  <2>3. Len(comps) \in Nat /\ m <= Len(comps)
    BY <1>2, <1>4, RecordFacts, FramesRecords
  <2> QED BY <2>1, <2>2, <2>3
<1>6. \A i \in 1..n : calls'[i].comp = calls[i].comp
  BY <1>1, <1>3
<1>7. \A i \in 1..n : calls[i].comp \in 1..m /\ calls[i].comp \in 1..Len(comps)
                      /\ calls[i].comp <= Len(comps')
  <2> SUFFICES ASSUME NEW i \in 1..n PROVE calls[i].comp \in 1..m /\ calls[i].comp \in 1..Len(comps)
                                           /\ calls[i].comp <= Len(comps')
    OBVIOUS
  <2>1. PICK c \in Nat \ {0} : c = calls[i].comp /\ c <= m
    BY <1>1, <1>2, <1>4, FramesRecords
  <2> QED BY <1>5, <2>1
<1>8. \A i \in 1..n : /\ comps'[calls[i].comp].fn = comps[calls[i].comp].fn
                      /\ Slots(comps'[calls[i].comp]) = Slots(comps[calls[i].comp])
  BY SMTT(60), <1>7
<1>9. BasedIn(calls', B)
  BY BasedMoves DEF Covered
<1>10. Heights(H2, B)'
  <2>1. ASSUME NEW i \in 1..n, i = n \/ Opened(calls'[i]) = 1, ~Ended(calls'[i]),
               NEW k, k = calls'[i].comp
        PROVE  End(H2, k)' >= B[i] + Left(calls'[i])
    <3>1. CASE i = n
      BY <1>1, <2>1, <3>1
    <3>2. CASE i # n
      <4>1. calls'[i] = calls[i] /\ Opened(calls[i]) = 1
        BY <1>1, <2>1, <3>2
      <4>2. PICK c \in Nat \ {0} : c = calls[i].comp /\ c + 1 <= m
        BY <1>1, <1>2, <1>4, <3>2, <4>1, FramesRecords
      <4>3. c \in 1..(current.comp - 1)
        BY <1>4, <4>2
      <4>4. End(H, c) >= B[i] + Left(calls[i])
        BY <1>1, <2>1, <4>1, <4>2 DEF Covered, Heights
      <4> QED BY <2>1, <4>1, <4>2, <4>3, <4>4
    <3> QED BY <3>1, <3>2
  <2> QED BY <1>1, <2>1 DEF Heights, End
<1>11. Holds(H2, B)'
  <2>1. ASSUME NEW i \in 1..n
        PROVE  HoldsAt(calls'[i], H2[comps'[calls'[i].comp].fn],
                       functions'[comps'[calls'[i].comp].fn], B[i])
    <3>1. CASE i = n
      BY <1>1, <1>3, <3>1
    <3>2. CASE i # n
      <4>1. calls'[i] = calls[i]
        BY <1>1, <3>2
      <4>2. PICK f : f = comps[calls[i].comp].fn /\ f = comps'[calls'[i].comp].fn
        BY <1>8, <4>1
      <4>3. HoldsAt(calls[i], H[f], functions[f], B[i])
        BY <1>1, <4>2 DEF Covered, Holds
      <4>4. ASSUME calls[i].jump # NoJump
            PROVE  f \in DOMAIN functions /\ calls[i].jump - 1 \in dump_function(functions[f])
        <5>1. f \in DOMAIN functions
          <6>1. \A k \in 1..Len(comps) : comps[k].fn \in 1..Len(functions)
            BY RecordFacts
          <6> QED BY <1>7, <4>2, <6>1, RecordFacts
        <5>2. calls[i].jump - 1 \in Pending(f)
          BY <1>1, <4>2, <4>4 DEF Pending
        <5>3. Listed(functions[f], Pending(f))
          BY <5>1 DEF CodeInv, GoodCode
        <5> QED BY <5>1, <5>2, <5>3 DEF Listed
      <4>5. HoldsAt(calls[i], H2[f], functions'[f], B[i])
        BY <4>3, <4>4 DEF HoldsAt
      <4> QED BY <4>1, <4>2, <4>5
    <3> QED BY <3>1, <3>2
  <2> QED BY <1>1, <2>1 DEF Holds
<1>12. Floors(B)'
  <2>1. ASSUME NEW i \in 1..n
        PROVE  FloorOK(calls', i, Slots(comps'[calls'[i].comp]), B[i])
    <3>1. PICK slots : slots = Slots(comps[calls[i].comp])
      OBVIOUS
    <3>2. slots \in Nat
      BY <1>7, <3>1, RecordFacts, SlotsOf
    <3>3. FloorOK(calls, i, slots, B[i]) /\ B[i] \in Nat
      BY <1>1, <3>1 DEF Covered, Floors, BasedIn
    <3>4. FloorOK(calls', i, slots, B[i])
      BY <1>1, <3>2, <3>3, FloorMoves
    <3> QED BY <1>6, <1>8, <3>1, <3>4
  <2> QED BY <1>1, <2>1 DEF Floors
<1>13. Outer(H2)'
  <2>1. ASSUME NEW k \in 1..(Len(comps') - 1)
        PROVE  Slots(comps'[k]) <= End(H2, k)' + 1
    <3>1. Len(comps') <= m + 1
      <4>1. Len(comps') = Top(act)
        <5>1. Len(comps') = Top(calls'[Len(calls')])
          <6>1. calls' # <<>>
            BY <1>1, <1>2
          <6> QED BY <6>1 DEF CInv, CallsInv
        <5> QED BY <1>1, <1>2, <5>1
      <4> QED BY <1>3, <1>4, <4>1 DEF Top, Opened
    <3>2. CASE k = m
      <4>1. act.comp < Len(comps')
        BY <1>3, <1>4, <1>5, <3>2
      <4>2. Slots(comps'[k]) = Slots(comps[k])
        BY <1>5, <3>2
      <4> QED BY <1>3, <1>4, <3>2, <4>1, <4>2
    <3>3. CASE k # m
      <4>1. k \in 1..(m - 1) /\ k \in 1..(Len(comps) - 1) /\ k \in 1..Len(comps) /\ k <= Len(comps')
        BY <1>5, <3>1, <3>3
      <4>2. Slots(comps[k]) <= End(H, k) + 1
        BY <4>1 DEF Covered, Outer
      <4>3. Slots(comps'[k]) = Slots(comps[k]) /\ End(H2, k)' = End(H, k)
        BY <1>4, <4>1
      <4> QED BY <4>2, <4>3
    <3> QED BY <3>2, <3>3
  <2> QED BY <2>1 DEF Outer
<1> QED BY <1>9, <1>10, <1>11, <1>12, <1>13 DEF Covered
-----------------------------------------------------------------------------
(* Calls and returns of the compiler's functions.                          *)

(* No code changes, nor what is pending or live.                           *)
LEMMA SameMeasures ==
  ASSUME UNCHANGED <<comps, functions>>, NEW H,
         \A f \in DOMAIN functions : Measures(compiled, functions[f], H[f], Pending(f), Live(f)),
         \A f : Pending(f)' = Pending(f), Going' <=> Going, compiled' = compiled
  PROVE  \A f \in DOMAIN functions' :
           Measures(compiled', functions'[f], H[f], Pending(f)', Live(f)')
<1>1. \A f : Live(f)' <=> Live(f)
  BY DEF Live
<1>2. ASSUME NEW f \in DOMAIN functions'
      PROVE  Measures(compiled', functions'[f], H[f], Pending(f)', Live(f)')
  <2>1. PICK P, live : P = Pending(f) /\ live = Live(f)
    OBVIOUS
  <2>2. P = Pending(f)' /\ (live <=> Live(f)')
    BY <1>1, <2>1
  <2>3. Measures(compiled, functions[f], H[f], P, live)
    BY <1>2, <2>1
  <2> QED BY <2>2, <2>3 DEF Measures
<1> QED BY <1>2

(* The cells under those of what is called.                                *)
BaseFor(proc, b) ==
  IF Opened(current) = 1 THEN IF proc = "compile_parameter" THEN 0 ELSE fn.arity
  ELSE b + (IF proc = "compile_parameter" THEN 0 ELSE Left(current))

(* What a function that is about to be called may be, and where.           *)
LEMMA EnterPlaces ==
  ASSUME CInv, NEW op, NEW proc, Doing(op), Asks(op, proc)
  PROVE  /\ op \in {"term", "call", "dispatch"}
         /\ proc = "compile_parameter" <=> op = "call"
         /\ current.proc = "compile_function" <=> Opened(current) = 1
         /\ Opened(current) = 1 /\ op # "call" => current.pc = 8 /\ proc = "compile_term"
         /\ op = "call" /\ Opened(current) = 0 => current.proc = "compile_let" /\ current.pc = 2
         /\ current.proc = "compile_let" => current.pc \in {2, 4, 6}
         /\ current.proc = "compile_file" => current.pc = 4
         /\ current.proc = "compile_term" => current.pc = 3 /\ proc \in TermProcs
         /\ current.proc # "compile_term" /\ op # "call" => proc = "compile_term"
         /\ current.proc # "compile_parameter"
<1>1. OpPlaces(current.proc, current.pc, op)
  BY DoingPlace
<1>2. current.proc = "compile_function" => current.pc \in {4, 8}
  BY <1>1 DEF Asks, OpPlaces, Unaries
<1>3. CASE op = "call"
  BY <1>1, <1>2, <1>3 DEF Asks, OpPlaces, Opened, TermProcs
<1>4. CASE op = "term"
  BY <1>1, <1>2, <1>4 DEF Asks, OpPlaces, Opened, Unaries, TermProcs
<1>5. CASE op = "dispatch"
  BY <1>1, <1>2, <1>5 DEF Asks, OpPlaces, Opened, Unaries, TermProcs
<1> QED BY <1>3, <1>4, <1>5 DEF Asks

(* A place that counts nothing yet.                                        *)
LEMMA CountsStart ==
  ASSUME CInv, Counting, calls # <<>>
  PROVE  /\ current.pc <= 3 => current.count = 0
         /\ current.proc = "compile_function" /\ current.pc = 8 =>
              fn.code = <<>> /\ Slots(comp) = fn.arity
<1>1. PICK n \in Nat \ {0} : n = Len(calls) /\ current = calls[n] /\ DOMAIN calls = 1..n
  BY CallsNow
<1>2. n \in DOMAIN calls
  BY <1>1
<1>3. CountOK(current, comps[current.comp + 1], functions[comps[current.comp + 1].fn],
              Uncounted(calls, n))
  BY <1>1, <1>2 DEF Counting
<1>4. current.proc = "compile_function" /\ current.pc = 8 => Len(comps) = current.comp + 1
  BY CurrentFacts DEF Opened
<1>5. comp = comps[Len(comps)] /\ fn = functions[comp.fn]
  BY CurrentFacts
<1> QED BY <1>3, <1>4, <1>5 DEF CountOK

LEMMA BasedEnter ==
  ASSUME CInv, CInv', Counting, NEW op, NEW proc, NEW isTail, Doing(op), Asks(op, proc),
         Enter(proc, isTail),
         NEW B, BasedIn(calls, B), NEW n \in Nat \ {0}, n = Len(calls), NEW base \in Nat,
         base = BaseFor(proc, B[n]),
         NEW B2, B2 = [i \in 1..(n + 1) |-> IF i = n + 1 THEN base ELSE B[i]]
  PROVE  BasedIn(calls', B2)
<1>1. /\ current = calls[n] /\ DOMAIN calls = 1..n /\ DOMAIN calls' = 1..(n + 1)
      /\ calls'[n + 1].proc = proc
      /\ calls'[n].proc = current.proc /\ calls'[n].pc = current.pc + 1
      /\ calls'[n].count = current.count
      /\ \A i \in 1..n : i # n => calls'[i] = calls[i]
  BY EnterShape
<1>2. DOMAIN B = 1..n /\ \A i \in 1..n : B[i] \in Nat
  BY <1>1 DEF BasedIn
<1>3. \A i \in 1..(n + 1) : B2[i] \in Nat
  BY <1>2, LastOrBefore
<1>4. ASSUME NEW i \in 1..(n + 1), i + 1 \in 1..(n + 1), Opened(calls'[i]) = 0
      PROVE  B2[i + 1] >= B2[i] + Needs(calls'[i], calls'[i + 1])
  <2>1. i \in 1..n
    BY <1>4
  <2>2. CASE i = n
    <3>1. B2[i + 1] = base /\ B2[i] = B[n] /\ B[n] \in Nat
      BY <1>2, <2>1, <2>2
    <3>2. Opened(current) = 0
      <4>1. current.proc = "compile_function" => Opened(calls'[n]) = 1
        <5> SUFFICES ASSUME current.proc = "compile_function" PROVE Opened(calls'[n]) = 1
          OBVIOUS
        <5>1. Opened(current) = 1
          BY EnterPlaces
        <5>2. current.pc \in {4, 8}
          <6>1. OpPlaces(current.proc, current.pc, op)
            BY DoingPlace
          <6> QED BY <6>1 DEF Asks, OpPlaces, Unaries
        <5> QED BY SMTT(60), <1>1, <5>2 DEF Opened
      <4>2. Opened(current) \in {0, 1}
        BY DEF Opened
      <4> QED BY <1>4, <2>2, <4>1, <4>2, EnterPlaces
    <3>3. CASE proc = "compile_parameter"
      BY <1>1, <2>2, <3>1, <3>2, <3>3 DEF Needs, BaseFor
    <3>4. CASE proc # "compile_parameter"
      <4>1. op \in {"term", "dispatch"}
        BY <3>4, EnterPlaces
      <4>2. Left(calls'[n]) = Left(current) + 1
        BY <1>1, <3>2, <4>1, LeftEnter, CountsStart DEF Doing
      <4>3. Left(current) \in Nat
        <5>1. Placed(current)
          BY <1>1, FramesPlaced DEF AllPlaced
        <5> QED BY <5>1, LeftNat
      <4>4. base = B[n] + Left(current)
        BY <3>2, <3>4 DEF BaseFor
      <4> QED BY <1>1, <2>2, <3>1, <3>4, <4>2, <4>3, <4>4 DEF Needs
    <3> QED BY <3>3, <3>4
  <2>3. CASE i # n
    <3>1. i \in 1..n /\ i + 1 \in 1..n
      BY <2>1, <2>3
    <3>2. calls'[i] = calls[i] /\ calls'[i + 1].proc = calls[i + 1].proc
      BY <1>1, <2>3, <3>1
    <3>3. B[i + 1] >= B[i] + Needs(calls[i], calls[i + 1])
      BY <1>1, <1>4, <3>1, <3>2 DEF BasedIn
    <3>4. B2[i + 1] = B[i + 1] /\ B2[i] = B[i]
      BY <2>1, <3>1
    <3> QED BY <3>2, <3>3, <3>4 DEF Needs
  <2> QED BY <2>2, <2>3
<1>5. DOMAIN B2 = 1..(n + 1)
  OBVIOUS
<1> QED BY <1>1, <1>3, <1>4, <1>5 DEF BasedIn

LEMMA FloorsEnter ==
  ASSUME CInv, CInv', Chained, Counting, LetsLead',
         NEW op, NEW proc, NEW isTail, Doing(op), Asks(op, proc), Enter(proc, isTail),
         NEW B, BasedIn(calls, B), Floors(B), NEW n \in Nat \ {0}, n = Len(calls),
         NEW base \in Nat, base = BaseFor(proc, B[n]),
         NEW B2, B2 = [i \in 1..(n + 1) |-> IF i = n + 1 THEN base ELSE B[i]]
  PROVE  Floors(B2)'
<1>1. /\ current = calls[n] /\ DOMAIN calls = 1..n /\ DOMAIN calls' = 1..(n + 1)
      /\ Len(calls') = n + 1 /\ calls # <<>>
      /\ calls'[n + 1].proc = proc /\ calls'[n + 1].pc = 1 /\ calls'[n + 1].comp = Len(comps)
      /\ calls'[n].proc = current.proc /\ calls'[n].pc = current.pc + 1
      /\ calls'[n].comp = current.comp
      /\ \A i \in 1..n : i # n => calls'[i] = calls[i]
      /\ comps' = comps /\ functions' = functions
  BY EnterShape
<1>2. \A i \in 1..n : calls'[i].comp = calls[i].comp /\ B2[i] = B[i]
  BY <1>1, LastOrBefore
<1>3. B2[n + 1] = base /\ B[n] \in Nat /\ n \in 1..n /\ n + 1 \in 1..(n + 1)
  BY <1>1 DEF BasedIn
<1>4. \A i \in 1..n : InValue(calls', i) <=> InValue(calls, i)
  <2> SUFFICES ASSUME NEW i \in 1..n PROVE InValue(calls', i) <=> InValue(calls, i)
    OBVIOUS
  <2>1. \A j \in 1..(i - 1) : j \in 1..n /\ calls'[j] = calls[j]
    BY <1>1
  <2> QED BY <1>2, <2>1 DEF InValue
<1>5. ASSUME NEW i \in 1..n, i # n, NEW slots, FloorOK(calls, i, slots, B[i])
      PROVE  FloorOK(calls', i, slots, B2[i])
  <2>1. calls'[i] = calls[i] /\ i + 1 \in 1..n /\ i # n + 1
    BY <1>1, <1>5
  <2>2. calls[i].proc = "compile_let" => (Named(calls, i) <=> Named(calls', i))
    <3> SUFFICES ASSUME calls[i].proc = "compile_let" PROVE Named(calls, i) <=> Named(calls', i)
      OBVIOUS
    <3>1. CASE i + 1 # n
      <4>1. calls'[i + 1] = calls[i + 1]
        BY <1>1, <2>1, <3>1
      <4> QED BY <1>1, <1>5, <2>1, <4>1 DEF Named
    <3>2. CASE i + 1 = n /\ calls[i].pc = 3
      <4>1. Waits(calls[i], calls[i + 1])
        BY <1>1, <2>1 DEF Chained, ChainedIn
      <4>2. calls[i + 1].proc = "compile_parameter"
        BY <3>2, <4>1, WaitsAt DEF Procs
      <4> QED BY <1>1, <3>2, <4>2, EnterPlaces
    <3>3. CASE calls[i].pc # 3
      BY <2>1, <3>3 DEF Named
    <3> QED BY <3>1, <3>2, <3>3
  <2> QED BY <1>2, <1>4, <1>5, <2>1, <2>2 DEF FloorOK
<1>6. PICK slots : slots = Slots(comps[current.comp])
  OBVIOUS
<1>7. slots \in Nat /\ FloorOK(calls, n, slots, B[n])
  <2>1. current.comp \in 1..Len(comps)
    <3>1. PICK c \in Nat \ {0} : c = current.comp /\ c <= Len(comps)
      BY <1>1, FramesRecords
    <3> QED BY <3>1, RecordFacts
  <2>2. slots \in Nat
    BY <1>6, <2>1, RecordFacts, SlotsOf
  <2> QED BY <1>1, <1>3, <1>6, <2>2 DEF Floors
<1>8. current.pc \in Nat /\ current.proc \in Procs
  BY <1>1, DoingPlace, CurrentFacts DEF ActivationOf
<1>9. FloorOK(calls', n, slots, B2[n])
  <2>1. calls'[n].proc \in TermProcs \ {"compile_let"}
          \/ (calls'[n].proc = "compile_term" /\ calls'[n].pc <= 3)
        => slots <= B2[n] + (IF InValue(calls', n) THEN 1 ELSE 0)
    <3>1. current.proc = "compile_term" => calls'[n].pc = 4
      BY <1>1, EnterPlaces
    <3> QED BY <1>1, <1>2, <1>3, <1>4, <1>7, <3>1 DEF FloorOK
  <2>2. calls'[n].proc = "compile_let" /\ calls'[n].pc <= 6
        => slots <= B2[n] + (IF Named(calls', n) THEN 1 ELSE 0)
    <3> SUFFICES ASSUME current.proc = "compile_let", current.pc + 1 <= 6
                 PROVE  slots <= B2[n] + (IF Named(calls', n) THEN 1 ELSE 0)
      BY <1>1
    <3>1. current.pc \in {2, 4}
      BY <1>8, EnterPlaces
    <3>2. CASE current.pc = 2
      <4>1. ~Named(calls, n)
        BY <1>1, <3>2 DEF Named
      <4>2. slots <= B[n]
        BY <1>1, <1>3, <1>7, <3>2, <4>1 DEF FloorOK
      <4> QED BY <1>2, <1>3, <1>7, <4>2
    <3>3. CASE current.pc = 4
      <4>1. Named(calls', n) /\ Named(calls, n)
        BY <1>1, <3>3 DEF Named
      <4> QED BY <1>1, <1>2, <1>3, <1>7, <3>3, <4>1 DEF FloorOK
    <3> QED BY <3>1, <3>2, <3>3
  <2>3. calls'[n].proc = "compile_file" => calls'[n].pc = 5
    BY <1>1, EnterPlaces
  <2> QED BY <2>1, <2>2, <2>3 DEF FloorOK
<1>10. FloorOK(calls', n + 1, Slots(comp), base)
  <2>1. CASE proc = "compile_parameter"
    BY <1>1, <2>1 DEF FloorOK, TermProcs
  <2>2. CASE proc # "compile_parameter" /\ Opened(current) = 1
    <3>1. proc = "compile_term" /\ current.pc = 8 /\ current.proc = "compile_function"
      BY <2>2, EnterPlaces
    <3>2. base = fn.arity /\ Slots(comp) = fn.arity
      BY <1>1, <2>2, <3>1, CountsStart DEF BaseFor
    <3> QED BY <1>1, <3>1, <3>2 DEF FloorOK, TermProcs
  <2>3. CASE proc # "compile_parameter" /\ Opened(current) = 0
    <3>1. current.proc # "compile_function" /\ op # "call"
      BY <2>3, EnterPlaces
    <3>2. Len(comps) = current.comp /\ Slots(comp) = slots
      <4>1. Len(comps) = current.comp + Opened(current) /\ comp = comps[Len(comps)]
            /\ Len(comps) \in Nat
        BY <1>1, CurrentFacts
      <4>2. current.comp \in Nat
        BY <1>1, CurrentFacts DEF ActivationOf
      <4> QED BY <1>6, <2>3, <4>1, <4>2
    <3>3. PICK l \in Nat : l = Left(current)
      <4>1. Placed(current)
        BY <1>1, FramesPlaced DEF AllPlaced
      <4> QED BY <4>1, LeftNat
    <3>4. base = B[n] + l
      BY <2>3, <3>3 DEF BaseFor
    <3>5. InValue(calls, n) => InValue(calls', n + 1)
      <4> SUFFICES ASSUME InValue(calls, n) PROVE InValue(calls', n + 1)
        OBVIOUS
      <4>1. PICK j \in 1..(n - 1) :
              calls[j].proc = "compile_let" /\ calls[j].comp = current.comp /\ calls[j].pc = 5
        BY <1>1 DEF InValue
      <4>2. j \in 1..n /\ j # n /\ j \in 1..((n + 1) - 1)
        BY <4>1
      <4>3. calls'[j] = calls[j]
        BY <1>1, <4>2
      <4> QED BY <1>1, <3>2, <4>1, <4>2, <4>3 DEF InValue
    <3>6. CASE current.proc = "compile_file"
      <4>1. slots = 0
        BY <1>1, <1>7, <3>6, EnterPlaces DEF FloorOK
      <4> QED BY <1>1, <3>1, <3>2, <3>6, <4>1, EnterPlaces DEF FloorOK, TermProcs
    <3>7. CASE current.proc = "compile_let"
      <4>1. proc = "compile_term" /\ current.pc \in {4, 6}
        <5>1. OpPlaces(current.proc, current.pc, op)
          BY DoingPlace
        <5>2. op = "term"
          BY <3>1, <3>7, <5>1, EnterPlaces DEF OpPlaces
        <5> QED BY <3>1, <3>7, <5>1, <5>2, EnterPlaces DEF OpPlaces, Unaries
      <4>2. slots <= B[n] + 1
        <5>1. Named(calls, n)
          BY <1>1, <4>1 DEF Named
        <5> QED BY <1>1, <1>3, <1>7, <3>7, <4>1, <5>1 DEF FloorOK
      <4>3. CASE current.pc = 4
        <5>1. InValue(calls', n + 1)
          <6>1. n \in 1..((n + 1) - 1) /\ calls'[n].pc = 5
            BY <1>1, <4>3
          <6> QED BY <1>1, <3>2, <3>7, <6>1 DEF InValue
        <5> QED BY <1>1, <1>3, <1>7, <3>2, <3>4, <4>1, <4>2, <5>1 DEF FloorOK, TermProcs
      <4>4. CASE current.pc = 6
        <5>1. l = 1
          BY <3>3, <3>7, <4>4 DEF Left, Leaves
        <5> QED BY <1>1, <1>3, <1>7, <3>2, <3>4, <4>1, <4>2, <5>1 DEF FloorOK, TermProcs
      <4> QED BY <4>1, <4>3, <4>4
    <3>8. CASE current.proc = "compile_term"
      <4>1. proc \in TermProcs /\ slots <= B[n] + (IF InValue(calls, n) THEN 1 ELSE 0)
        BY <1>1, <1>7, <3>8, EnterPlaces DEF FloorOK
      <4>2. CASE proc # "compile_let"
        BY <1>1, <1>3, <1>7, <3>2, <3>4, <3>5, <4>1, <4>2 DEF FloorOK, TermProcs
      <4>3. CASE proc = "compile_let"
        <5>1. ~InValue(calls, n)
          <6> SUFFICES ASSUME InValue(calls, n) PROVE FALSE
            OBVIOUS
          <6>1. PICK j \in 1..(n - 1) :
                  calls[j].proc = "compile_let" /\ calls[j].comp = current.comp /\ calls[j].pc = 5
            BY <1>1 DEF InValue
          <6>2. j \in 1..n /\ j # n /\ j \in 1..((n + 1) - 1)
            BY <6>1
          <6>3. calls'[j] = calls[j]
            BY <1>1, <6>2
          <6>4. \A i \in 1..((n + 1) - 1) : calls'[i].comp = calls'[n + 1].comp =>
                  \/ calls'[i].proc \in {"compile_file", "compile_term"}
                  \/ calls'[i].proc = "compile_let" /\ calls'[i].pc > 6
            <7>1. n + 1 \in DOMAIN calls' /\ calls'[n + 1].proc = "compile_let"
              BY <1>1, <1>3, <4>3
            <7> QED BY <7>1 DEF LetsLead
          <6>5. calls'[j].comp = calls'[n + 1].comp
            BY <1>1, <3>2, <6>1, <6>3
          <6>6. calls'[j].proc \in {"compile_file", "compile_term"} \/ calls'[j].pc > 6
            BY <6>2, <6>4, <6>5
          <6> QED BY <6>1, <6>3, <6>6
        <5> QED BY <1>1, <1>3, <1>7, <3>2, <3>4, <4>1, <4>3, <5>1 DEF FloorOK, TermProcs
      <4> QED BY <4>2, <4>3
    <3>9. CASE current.proc \in TermProcs \ {"compile_let"}
      <4>1. proc = "compile_term" /\ slots <= B[n] + (IF InValue(calls, n) THEN 1 ELSE 0)
        BY <1>1, <1>7, <3>1, <3>9, EnterPlaces DEF FloorOK, TermProcs
      <4> QED BY <1>1, <1>3, <1>7, <3>2, <3>4, <3>5, <4>1 DEF FloorOK, TermProcs
    <3> QED BY <1>8, <3>6, <3>7, <3>8, <3>9, EnterPlaces DEF TermProcs
  <2> QED BY <2>1, <2>2, <2>3, CurrentFacts, <1>1
<1>11. ASSUME NEW i \in 1..(n + 1)
       PROVE  FloorOK(calls', i, Slots(comps'[calls'[i].comp]), B2[i])
  <2>1. CASE i = n + 1
    BY <1>1, <1>3, <1>10, <2>1, CurrentFacts
  <2>2. CASE i = n
    BY <1>1, <1>6, <1>9, <2>2
  <2>3. CASE i \in 1..n /\ i # n
    <3>1. FloorOK(calls, i, Slots(comps[calls[i].comp]), B[i])
      BY <1>1, <2>3 DEF Floors
    <3>2. calls'[i].comp = calls[i].comp
      BY <1>2, <2>3
    <3> QED BY <1>1, <1>5, <2>3, <3>1, <3>2
  <2> QED BY <2>1, <2>2, <2>3, LastOrBefore
<1> QED BY <1>1, <1>11 DEF Floors

LEMMA HeightsEnter ==
  ASSUME CInv, CInv', Chained, Counting,
         NEW op, NEW proc, NEW isTail, Doing(op), Asks(op, proc), Enter(proc, isTail),
         NEW H, NEW B, Covered(H, B), NEW n \in Nat \ {0}, n = Len(calls),
         NEW base \in Nat, base = BaseFor(proc, B[n]),
         NEW B2, B2 = [i \in 1..(n + 1) |-> IF i = n + 1 THEN base ELSE B[i]]
  PROVE  Heights(H, B2)'
<1>1. /\ current = calls[n] /\ DOMAIN calls = 1..n /\ DOMAIN calls' = 1..(n + 1)
      /\ Len(calls') = n + 1 /\ calls # <<>>
      /\ calls'[n + 1].proc = proc /\ calls'[n + 1].pc = 1 /\ calls'[n + 1].comp = Len(comps)
      /\ calls'[n].proc = current.proc /\ calls'[n].pc = current.pc + 1
      /\ calls'[n].comp = current.comp
      /\ \A i \in 1..n : i # n => calls'[i] = calls[i]
      /\ comps' = comps /\ functions' = functions
  BY EnterShape
<1>2. \A k : End(H, k)' = End(H, k)
  BY <1>1 DEF End
<1>3. B2[n + 1] = base /\ n \in 1..n /\ n + 1 \in 1..(n + 1)
      /\ \A i \in 1..n : B2[i] = B[i] /\ B[i] \in Nat
  BY <1>1, LastOrBefore DEF Covered, BasedIn
<1>4. op \in {"term", "call", "dispatch"}
  BY EnterPlaces
<1>5. Going /\ ~Ended(current)
  BY <1>4, EnterGoing
<1>6. End(H, current.comp) >= B[n] + Left(current)
  BY <1>1, <1>3, <1>5 DEF Covered, Heights
<1>7. Placed(current)
  BY <1>1, FramesPlaced DEF AllPlaced
<1>8. PICK l \in Nat : l = Left(current)
  BY <1>7, LeftNat
<1>9. Left(calls'[n + 1]) = 0
  <2>1. n + 1 \in DOMAIN calls'
    BY <1>1, <1>3
  <2>2. AllPlaced'
    BY FramesPlaced, PTL
  <2>3. Placed(calls'[n + 1])
    BY <2>1, <2>2 DEF AllPlaced, Placed
  <2> QED BY <1>1, <2>3, LeftNat
<1>10. End(H, Len(comps)) >= base
  <2>1. Len(comps) = current.comp + Opened(current) /\ comp = comps[Len(comps)]
        /\ Len(comps) \in Nat \ {0} /\ comp.fn \in DOMAIN functions /\ fn = functions[comp.fn]
    BY <1>1, CurrentFacts, RecordFacts
  <2>2. CASE Opened(current) = 0
    <3>1. current.comp = Len(comps)
      <4>1. current.comp \in Nat
        BY <1>1, CurrentFacts DEF ActivationOf
      <4> QED BY <2>1, <2>2, <4>1
    <3>2. base = B[n] + (IF proc = "compile_parameter" THEN 0 ELSE l)
      BY <1>8, <2>2 DEF BaseFor
    <3>3. PICK e : e = End(H, Len(comps))
      OBVIOUS
    <3>4. e \in Nat
      <4>1. PICK c : c = comp.fn /\ c \in DOMAIN functions /\ End(H, Len(comps)) = H[c][Len(functions[c].code)]
        BY <2>1 DEF End
      <4>2. Live(c)
        BY <1>5, <2>1, <4>1 DEF Live
      <4>3. Measures(compiled, functions[c], H[c], Pending(c), Live(c))
        BY <4>1 DEF Covered
      <4> QED BY <3>3, <4>1, <4>2, <4>3 DEF Measures
    <3>5. PICK b \in Nat : b = B[n]
      BY <1>3
    <3>6. e >= b + l
      BY <1>6, <1>8, <3>1, <3>3, <3>5
    <3>7. base = b \/ base = b + l
      BY <3>2, <3>5
    <3> QED BY <1>8, <3>3, <3>4, <3>5, <3>6, <3>7
  <2>3. CASE Opened(current) = 1
    <3>1. PICK c : c = comp.fn /\ c \in DOMAIN functions /\ fn = functions[c]
                   /\ End(H, Len(comps)) = H[c][Len(functions[c].code)]
      BY <2>1 DEF End
    <3>2. Measures(compiled, functions[c], H[c], Pending(c), Live(c)) /\ Live(c)
      <4>1. Measures(compiled, functions[c], H[c], Pending(c), Live(c))
        BY <3>1 DEF Covered
      <4>2. Live(c)
        BY <1>5, <2>1, <3>1 DEF Live
      <4> QED BY <4>1, <4>2
    <3>3. CASE proc = "compile_parameter"
      <4>1. H[c][Len(functions[c].code)] \in Nat
        BY <3>2 DEF Measures
      <4>2. base = 0
        BY <2>3, <3>3 DEF BaseFor
      <4> QED BY <3>1, <4>1, <4>2
    <3>4. CASE proc # "compile_parameter"
      <4>1. current.pc = 8 /\ current.proc = "compile_function"
        BY <2>3, <3>4, EnterPlaces
      <4>2. functions[c].code = <<>> /\ base = functions[c].arity
        BY <1>1, <2>3, <3>1, <3>4, <4>1, CountsStart DEF BaseFor
      <4>3. Len(functions[c].code) = 0
        BY <4>2
      <4>4. H[c][0] = functions[c].arity
        BY <3>2 DEF Measures
      <4> QED BY <3>1, <4>2, <4>3, <4>4
    <3> QED BY <3>3, <3>4
  <2> QED BY <2>2, <2>3 DEF Opened
<1>11. ASSUME NEW i \in 1..(n + 1), i = n + 1 \/ Opened(calls'[i]) = 1, ~Ended(calls'[i]),
              NEW k, k = calls'[i].comp
       PROVE  End(H, k)' >= B2[i] + Left(calls'[i])
  <2>1. CASE i = n + 1
    BY <1>1, <1>2, <1>3, <1>9, <1>10, <1>11, <2>1
  <2>2. CASE i = n
    <3>1. Opened(calls'[n]) = 1 /\ current.proc = "compile_function"
      BY <1>1, <1>11, <2>2 DEF Opened
    <3>2. current.pc \in {4, 8}
      <4>1. OpPlaces(current.proc, current.pc, op)
        BY DoingPlace
      <4> QED BY <1>4, <3>1, <4>1 DEF OpPlaces, Unaries
    <3>3. Left(calls'[n]) = 0 /\ Left(current) = 0
      BY SMTT(60), <1>1, <3>1, <3>2 DEF Left, Leaves
    <3> QED BY <1>1, <1>2, <1>3, <1>6, <1>11, <2>2, <3>3
  <2>3. CASE i \in 1..n /\ i # n
    <3>1. calls'[i] = calls[i] /\ Opened(calls[i]) = 1 /\ k = calls[i].comp
      BY <1>1, <1>11, <2>3
    <3>2. End(H, k) >= B[i] + Left(calls[i])
      BY <1>1, <1>11, <2>3, <3>1 DEF Covered, Heights
    <3> QED BY <1>2, <1>3, <2>3, <3>1, <3>2
  <2> QED BY <2>1, <2>2, <2>3, LastOrBefore
<1> QED BY ZenonT(60), <1>1, <1>11 DEF Heights, End

LEMMA EnterCovered ==
  ASSUME CInv, CInv', CodeInv, Chained, Counting, LetsLead',
         NEW op, NEW proc, NEW isTail, Doing(op), Asks(op, proc), Enter(proc, isTail),
         NEW H, NEW B, Covered(H, B)
  PROVE  \E B2 : Covered(H, B2)'
<1>1. PICK n \in Nat \ {0} :
        /\ n = Len(calls) /\ current = calls[n] /\ DOMAIN calls = 1..n /\ DOMAIN calls' = 1..(n + 1)
        /\ calls # <<>>
        /\ calls'[n + 1].jump = NoJump
        /\ calls'[n].proc = current.proc /\ calls'[n].pc = current.pc + 1
        /\ calls'[n].comp = current.comp /\ calls'[n].jump = current.jump
        /\ \A i \in 1..n : i # n => calls'[i] = calls[i]
        /\ UNCHANGED <<emit, comps, functions, strs>>
  BY EnterShape
<1>2. PICK base : base = BaseFor(proc, B[n])
  OBVIOUS
<1>3. n \in 1..n /\ \A i \in 1..n : B[i] \in Nat
  BY <1>1 DEF Covered, BasedIn
<1>4. base \in Nat
  <2>1. Placed(current)
    BY <1>1, <1>3, FramesPlaced DEF AllPlaced
  <2>2. PICK l \in Nat : l = Left(current)
    BY <2>1, LeftNat
  <2>3. PICK r \in 0..UINT8_MAX : r = fn.arity
    BY <1>1, CurrentFacts DEF FunctionOf
  <2>4. r \in Nat
    BY <2>3, Bytes
  <2>5. B[n] \in Nat
    BY <1>3
  <2> QED BY <1>2, <2>2, <2>3, <2>4, <2>5 DEF BaseFor
<1>5. PICK B2 : B2 = [i \in 1..(n + 1) |-> IF i = n + 1 THEN base ELSE B[i]]
  OBVIOUS
<1>6. BasedIn(calls', B2)
  BY SMTT(60), <1>1, <1>2, <1>4, <1>5, BasedEnter DEF Covered
<1>7. Floors(B2)'
  BY SMTT(60), <1>1, <1>2, <1>4, <1>5, FloorsEnter DEF Covered
<1>8. Heights(H, B2)'
  BY <1>1, <1>2, <1>4, <1>5, HeightsEnter
<1>9. Holds(H, B2)'
  <2>1. ASSUME NEW i \in 1..(n + 1)
        PROVE  HoldsAt(calls'[i], H[comps'[calls'[i].comp].fn],
                       functions'[comps'[calls'[i].comp].fn], B2[i])
    <3>1. CASE i = n + 1
      BY <1>1, <3>1 DEF HoldsAt
    <3>2. CASE i \in 1..n
      <4>1. PICK f : f = comps[calls[i].comp].fn
        OBVIOUS
      <4>2. HoldsAt(calls[i], H[f], functions[f], B[i])
        BY <1>1, <3>2, <4>1 DEF Covered, Holds
      <4>3. /\ calls'[i].comp = calls[i].comp /\ calls'[i].jump = calls[i].jump
            /\ calls'[i] # calls[i] => calls'[i].proc = current.proc /\ i = n
            /\ B2[i] = B[i]
        BY <1>1, <1>5, <3>2
      <4>4. calls[i].jump # NoJump /\ calls'[i].pc >= 7 => calls[i].pc >= 7
        <5> SUFFICES ASSUME calls[i].jump # NoJump, calls'[i].pc >= 7, calls[i].pc < 7, i = n
                     PROVE  FALSE
          <6>1. i # n => calls'[i] = calls[i]
            BY <1>1, <3>2
          <6>2. calls[i] \in ActivationOf
            BY <1>1, <3>2, CallsNow
          <6>3. calls[i].pc \in Nat
            BY <6>2 DEF ActivationOf
          <6> QED BY <6>1, <6>3
        <5>1. current.proc = "compile_if"
          BY <1>1, <1>3 DEF CodeInv, JumpsHeld, HeldBy
        <5>2. current.pc = 6
          <6>1. current \in ActivationOf
            BY <1>1, CurrentFacts
          <6>2. current.pc \in Nat
            BY <6>1 DEF ActivationOf
          <6> QED BY <1>1, <6>2
        <5>3. OpPlaces(current.proc, current.pc, op)
          BY DoingPlace
        <5> QED BY <5>1, <5>2, <5>3, EnterPlaces DEF OpPlaces, Unaries
      <4> QED BY <1>1, <4>1, <4>2, <4>3, <4>4 DEF HoldsAt
    <3> QED BY <3>1, <3>2, LastOrBefore
  <2> QED BY <1>1, <2>1 DEF Holds
<1>10. Outer(H)'
  BY <1>1 DEF Covered, Outer, End
<1>11. \A f \in DOMAIN functions' :
         Measures(compiled', functions'[f], H[f], Pending(f)', Live(f)')
  <2>1. Going' <=> Going
    <3>1. op \in {"term", "call", "dispatch"}
      BY EnterPlaces
    <3> QED BY <3>1, EnterGoing
  <2>2. compiled' = compiled
    BY <1>1 DEF compiled
  <2> QED BY <1>1, <2>1, <2>2, PendingEnter, SameMeasures DEF Covered
<1>12. DOMAIN H = DOMAIN functions'
  BY <1>1 DEF Covered
<1> QED BY <1>6, <1>7, <1>8, <1>9, <1>10, <1>11, <1>12 DEF Covered

(* A function returns to the one that has called it.                       *)
LEMMA ReturnCovered ==
  ASSUME CInv, CInv', CodeInv, Chained, return,
         NEW H, NEW B, Covered(H, B)
  PROVE  \E B2 : Covered(H, B2)'
<1>1. PICK n \in Nat \ {0} :
        /\ n = Len(calls) /\ current = calls[n] /\ DOMAIN calls = 1..n /\ DOMAIN calls' = 1..(n - 1)
        /\ n - 1 = Len(calls') /\ n - 1 \in Nat /\ calls # <<>>
        /\ \A i \in 1..(n - 1) : calls'[i] = calls[i]
        /\ current.proc \in Procs /\ current.pc = Len(Ops[current.proc]) + 1
        /\ UNCHANGED <<emit, comps, functions, strs>>
  BY Zenon, ReturnShape
<1>2. PICK B2 : B2 = [i \in 1..(n - 1) |-> B[i]]
  OBVIOUS
<1>3. n \in 1..n /\ \A i \in 1..(n - 1) : i \in 1..n /\ B2[i] = B[i] /\ i # n
  BY <1>1, <1>2
<1>4. DOMAIN B2 = 1..(n - 1) /\ \A i \in 1..n : B[i] \in Nat
  BY <1>1, <1>2 DEF Covered, BasedIn
<1>5. BasedIn(calls', B2)
  <2>1. ASSUME NEW i \in 1..(n - 1), i + 1 \in 1..(n - 1), Opened(calls'[i]) = 0
        PROVE  B2[i + 1] >= B2[i] + Needs(calls'[i], calls'[i + 1])
    <3>1. i \in 1..n /\ i + 1 \in 1..n
      BY <1>1, <2>1
    <3>2. B[i + 1] >= B[i] + Needs(calls[i], calls[i + 1])
      BY <1>1, <2>1, <3>1 DEF Covered, BasedIn
    <3> QED BY <1>1, <1>3, <2>1, <3>2
  <2> QED BY <1>1, <1>3, <1>4, <2>1 DEF BasedIn
<1>6. Heights(H, B2)'
  <2>1. ASSUME NEW i \in 1..(n - 1), i = n - 1 \/ Opened(calls'[i]) = 1, ~Ended(calls'[i]),
               NEW k, k = calls'[i].comp
        PROVE  End(H, k)' >= B2[i] + Left(calls'[i])
    <3>1. End(H, k)' = End(H, k) /\ calls'[i] = calls[i] /\ B2[i] = B[i] /\ i \in 1..n /\ i # n
      BY <1>1, <1>3, <2>1 DEF End
    <3>2. CASE Opened(calls[i]) = 1
      <4>1. End(H, k) >= B[i] + Left(calls[i])
        BY <1>1, <2>1, <3>1, <3>2 DEF Covered, Heights
      <4> QED BY <3>1, <4>1
    <3>3. CASE i = n - 1 /\ Opened(calls[i]) = 0
      <4>1. i + 1 = n /\ i + 1 \in 1..n
        BY <1>1, <3>3
      <4>2. Placed(calls[i]) /\ Placed(current)
        BY <1>1, <1>3, <3>1, FramesPlaced DEF AllPlaced
      <4>3. PICK l \in Nat, l2 \in Nat : l = Left(calls[i]) /\ l2 = Left(current)
        BY <4>2, LeftNat
      <4>4. l2 >= IF current.proc = "compile_parameter" THEN 0 ELSE 1
        BY <1>1, <4>2, <4>3, LeftReturn DEF Placed
      <4>5. B[n] >= B[i] + Needs(calls[i], current)
        BY <1>1, <3>1, <3>3, <4>1 DEF Covered, BasedIn
      <4>6. End(H, current.comp) >= B[n] + l2
        <5>1. ~Ended(current)
          BY <1>1, <3>3, <4>1, ReturnGoing
        <5> QED BY <1>1, <1>3, <4>3, <5>1 DEF Covered, Heights
      <4>7. current.comp = k
        <5>1. calls[i + 1].comp = Top(calls[i])
          BY <1>1, <3>3 DEF CInv, CallsInv
        <5>2. calls[i].comp \in Nat
          BY <1>1, <3>1, CallsNow DEF ActivationOf
        <5> QED BY <1>1, <2>1, <3>1, <3>3, <4>1, <5>1, <5>2 DEF Top
      <4>8. current.proc = "compile_parameter" => l = 0
        <5> SUFFICES ASSUME current.proc = "compile_parameter" PROVE l = 0
          OBVIOUS
        <5>1. Waits(calls[i], current)
          BY <1>1, <3>1, <4>1 DEF Chained, ChainedIn
        <5>2. calls[i].proc \in Procs /\ calls[i].pc \in Nat
          BY <4>2 DEF Placed, ActivationOf
        <5>3. \/ calls[i].proc = "compile_let" /\ calls[i].pc = 3
              \/ calls[i].proc = "compile_function" /\ calls[i].pc = 5
          BY <5>1, <5>2, WaitsAt DEF TermProcs
        <5> QED BY <4>3, <5>3 DEF Left, Leaves
      <4>9. PICK e \in Nat : e = End(H, k)
        <5>1. PICK f : f = comps[k].fn
          OBVIOUS
        <5>2. f \in DOMAIN functions /\ k \in 1..Len(comps)
          <6>1. n \in DOMAIN calls
            BY <1>1, <1>3
          <6>2. current.comp \in 1..Len(comps)
            BY <1>1, <6>1, ActiveRecords
          <6> QED BY <4>7, <5>1, <6>2, RecordFacts
        <5>3. Live(f)
          <6>1. Len(calls) > 1
            BY <1>1, <3>3
          <6>2. Going
            BY <6>1, ReturnGoing
          <6> QED BY <5>1, <5>2, <6>2 DEF Live
        <5>4. Measures(compiled, functions[f], H[f], Pending(f), Live(f))
          BY <5>2 DEF Covered
        <5>5. H[f][Len(functions[f].code)] \in Nat
          BY <5>3, <5>4 DEF Measures
        <5> QED BY <5>1, <5>5 DEF End
      <4>10. PICK b \in Nat, bn \in Nat : b = B[i] /\ bn = B[n]
        BY <1>3, <1>4, <3>1
      <4>11. CASE current.proc = "compile_parameter"
        <5>1. bn >= b + 0 /\ e >= bn + l2 /\ l = 0
          BY <4>5, <4>6, <4>7, <4>8, <4>9, <4>10, <4>11 DEF Needs
        <5> QED BY <3>1, <4>3, <4>9, <4>10, <5>1
      <4>12. CASE current.proc # "compile_parameter"
        <5>1. bn >= b + (l - 1) /\ e >= bn + l2 /\ l2 >= 1
          BY <4>3, <4>4, <4>5, <4>6, <4>7, <4>9, <4>10, <4>12 DEF Needs
        <5> QED BY <3>1, <4>3, <4>9, <4>10, <5>1
      <4> QED BY <4>11, <4>12
    <3> QED BY <2>1, <3>1, <3>2, <3>3 DEF Opened
  <2> QED BY <1>1, <2>1 DEF Heights, End
<1>7. Holds(H, B2)'
  <2>1. ASSUME NEW i \in 1..(n - 1)
        PROVE  HoldsAt(calls'[i], H[comps'[calls'[i].comp].fn],
                       functions'[comps'[calls'[i].comp].fn], B2[i])
    <3>1. calls'[i] = calls[i] /\ B2[i] = B[i] /\ i \in 1..n
      BY <1>1, <1>3, <2>1
    <3> QED BY <1>1, <3>1 DEF Covered, Holds
  <2> QED BY <1>1, <2>1 DEF Holds
<1>8. Floors(B2)'
  <2>1. ASSUME NEW i \in 1..(n - 1)
        PROVE  FloorOK(calls', i, Slots(comps'[calls'[i].comp]), B2[i])
    <3>1. calls'[i] = calls[i] /\ B2[i] = B[i] /\ i \in 1..n /\ i # n
      BY <1>1, <1>3, <2>1
    <3>2. FloorOK(calls, i, Slots(comps[calls[i].comp]), B[i])
      BY <1>1, <3>1 DEF Covered, Floors
    <3>3. InValue(calls', i) <=> InValue(calls, i)
      <4>1. \A j \in 1..(i - 1) : j \in 1..(n - 1) /\ calls'[j] = calls[j]
        BY <1>1, <2>1
      <4> QED BY <3>1, <4>1 DEF InValue
    <3>4. Slots(comps[calls[i].comp]) \in Nat /\ B[i] \in Nat
      <4>1. calls[i].comp \in 1..Len(comps)
        BY <1>1, <3>1, ActiveRecords
      <4> QED BY <1>4, <3>1, <4>1, RecordFacts, SlotsOf
    <3>5. calls[i].proc = "compile_let" /\ Named(calls, i) => Named(calls', i)
      <4>1. CASE i = n - 1
        BY <1>1, <3>1, <4>1 DEF Named
      <4>2. CASE i # n - 1
        <5>1. i + 1 \in 1..(n - 1)
          BY <1>1, <2>1, <4>2
        <5>2. calls'[i + 1] = calls[i + 1]
          BY <1>1, <5>1
        <5> QED BY <1>1, <3>1, <5>2 DEF Named
      <4> QED BY <4>1, <4>2
    <3>6. PICK slots \in Nat, b \in Nat : slots = Slots(comps[calls[i].comp]) /\ b = B[i]
      BY <3>4
    <3>7. FloorOK(calls', i, slots, b)
      <4>1. calls'[i].proc = "compile_let" /\ calls'[i].pc <= 6
              => slots <= b + (IF Named(calls', i) THEN 1 ELSE 0)
        <5> SUFFICES ASSUME calls[i].proc = "compile_let", calls[i].pc <= 6
                     PROVE  slots <= b + (IF Named(calls', i) THEN 1 ELSE 0)
          BY <3>1
        <5>1. slots <= b + (IF Named(calls, i) THEN 1 ELSE 0)
          BY <3>2, <3>6 DEF FloorOK
        <5> QED BY <3>5, <5>1
      <4> QED BY <3>1, <3>2, <3>3, <3>6, <4>1 DEF FloorOK
    <3> QED BY <1>1, <3>1, <3>6, <3>7
  <2> QED BY <1>1, <2>1 DEF Floors
<1>9. Outer(H)'
  BY <1>1 DEF Covered, Outer, End
<1>10. \A f \in DOMAIN functions' :
         Measures(compiled', functions'[f], H[f], Pending(f)', Live(f)')
  <2>1. compiled' = compiled
    BY <1>1 DEF compiled
  <2> QED BY <1>1, <2>1, PendingReturn, ReturnGoing, SameMeasures DEF Covered, CodeInv
<1>11. DOMAIN H = DOMAIN functions'
  BY <1>1 DEF Covered
<1> QED BY <1>5, <1>6, <1>7, <1>8, <1>9, <1>10, <1>11 DEF Covered

(* A parameter or the name of a let gets a slot.                           *)
LEMMA DeclareFloors ==
  ASSUME CInv, CInv', Chained, LetsLead, DeclareStep, NEW B, BasedIn(calls, B), Floors(B)
  PROVE  Floors(B)'
<1>1. PICK act : /\ Moves("add_local", act) /\ Fits(comp)
                 /\ comps' = [comps EXCEPT ![Len(comps)] = Declared(comp, current.token.text)]
  BY DEF DeclareStep
<1>2. PICK n \in Nat \ {0} :
        /\ n = Len(calls) /\ n = Len(calls') /\ current = calls[n]
        /\ DOMAIN calls = 1..n /\ DOMAIN calls' = 1..n /\ calls # <<>>
        /\ \A i \in 1..n : calls'[i] = IF i = n THEN act ELSE calls[i]
  BY <1>1, MovesShape
<1>3. /\ current.proc = "compile_parameter" /\ current.pc = 4
      /\ act.proc = "compile_parameter" /\ act.pc = 5 /\ act.comp = current.comp
  <2>1. OpPlaces(current.proc, current.pc, "add_local")
    BY <1>1, DoingPlace DEF Moves
  <2>2. current.proc = "compile_parameter" /\ current.pc = 4
    BY <2>1 DEF OpPlaces
  <2> QED BY <1>1, <2>2 DEF Moves
<1>4. PICK m \in Nat \ {0} : m = Len(comps) /\ m = current.comp
  <2>1. Len(comps) = current.comp + Opened(current) /\ Len(comps) \in Nat \ {0}
        /\ current.comp \in Nat
    BY <1>2, CurrentFacts DEF ActivationOf
  <2>2. Opened(current) = 0
    BY <1>3 DEF Opened
  <2> QED BY <2>1, <2>2
<1>5. /\ \A k \in 1..m : k # m => comps'[k] = comps[k]
      /\ Slots(comps'[m]) = Slots(comps[m]) + 1
      /\ \A k \in 1..m : Slots(comps[k]) \in Nat
  <2>1. DOMAIN comps = 1..m /\ \A k \in 1..m : comps[k] \in CompilerOf /\ SlotsInOrder(comps[k])
    BY <1>4, RecordFacts
  <2>2. m \in 1..m /\ comp = comps[m]
    BY <1>2, <1>4, CurrentFacts
  <2>3. comps'[m] = Declared(comp, current.token.text)
    BY <1>1, <1>4, <2>1, <2>2
  <2>4. \A k \in 1..m : k # m => comps'[k] = comps[k]
    BY <1>1, <1>4, <2>1
  <2> QED BY <1>1, <2>1, <2>2, <2>3, <2>4, SlotsOf
<1>6. \A i \in 1..n : calls[i].comp \in 1..m
  <2> SUFFICES ASSUME NEW i \in 1..n PROVE calls[i].comp \in 1..m
    OBVIOUS
  <2>1. PICK c \in Nat \ {0} : c = calls[i].comp /\ c <= m
    BY <1>2, <1>4, FramesRecords
  <2> QED BY <2>1
<1>7. n \in 1..n /\ n # 1
  BY <1>2, <1>3, FirstWaits
<1>8. n - 1 \in 1..n /\ (n - 1) + 1 = n
  BY <1>7
<1>9. \/ calls[n - 1].proc = "compile_let" /\ calls[n - 1].pc = 3
      \/ calls[n - 1].proc = "compile_function" /\ calls[n - 1].pc = 5
  <2>1. Waits(calls[n - 1], calls[n])
    BY <1>2, <1>7, <1>8 DEF Chained, ChainedIn
  <2>2. Placed(calls[n - 1])
    BY <1>2, <1>8, FramesPlaced DEF AllPlaced
  <2> QED BY <1>2, <1>3, <2>1, <2>2, WaitsAt DEF Placed, ActivationOf, TermProcs
<1>10. ASSUME NEW i \in 1..n PROVE FloorOK(calls, i, Slots(comps[calls[i].comp]), B[i])
  BY <1>2 DEF Floors
<1>11. \A i \in 1..n : B[i] \in Nat
  BY <1>2 DEF BasedIn
<1>12. ASSUME NEW i \in 1..n, i # n
       PROVE  FloorOK(calls', i, Slots(comps'[calls[i].comp]), B[i])
  <2>1. CASE calls[i].comp # m
    <3>1. Slots(comps'[calls[i].comp]) = Slots(comps[calls[i].comp])
      BY <1>5, <1>6, <2>1
    <3>2. PICK slots \in Nat, b \in Nat : slots = Slots(comps[calls[i].comp]) /\ b = B[i]
      BY <1>5, <1>6, <1>11
    <3>3. FloorOK(calls', i, slots, b)
      BY <1>1, <1>2, <1>10, <3>2, FloorMoves
    <3> QED BY <3>1, <3>2, <3>3
  <2>2. CASE calls[i].comp = m /\ i = n - 1
    <3>1. calls[i].proc = "compile_let" /\ calls[i].pc = 3
      <4>1. calls[i].comp + Opened(calls[i]) <= m
        BY <1>2, <1>4, <1>12, FramesRecords
      <4>2. calls[i].proc = "compile_function" /\ calls[i].pc = 5 => Opened(calls[i]) = 1
        BY DEF Opened
      <4> QED BY <1>9, <2>2, <4>1, <4>2
    <3>2. calls'[i] = calls[i] /\ calls'[i + 1].pc = 5 /\ calls[i + 1].pc = 4
      BY <1>2, <1>3, <1>8, <2>2
    <3>3. ~Named(calls, i) /\ Named(calls', i)
      BY <1>2, <1>8, <2>2, <3>1, <3>2 DEF Named
    <3>4. PICK slots \in Nat, b \in Nat : slots = Slots(comps[m]) /\ b = B[i]
      BY <1>5, <1>6, <1>11, <2>2
    <3>5. slots <= b + 0
      BY <1>10, <2>2, <3>1, <3>3, <3>4 DEF FloorOK
    <3> QED BY <1>5, <2>2, <3>1, <3>2, <3>3, <3>4, <3>5 DEF FloorOK, TermProcs
  <2>3. CASE calls[i].comp = m /\ i # n - 1
    <3>1. i \in 1..((n - 1) - 1) /\ i + 1 \in 1..n
      BY <1>12, <2>3
    <3>2. calls[n - 1].proc = "compile_let" /\ calls[n - 1].comp = m
      <4>1. PICK c \in Nat \ {0}, o \in {0, 1} :
              c = calls[n - 1].comp /\ o = Opened(calls[n - 1]) /\ c + o <= m
        <5>1. n - 1 # n /\ n - 1 \in 1..Len(calls)
          BY <1>2, <1>8
        <5>2. Opened(calls[n - 1]) \in {0, 1}
          BY DEF Opened
        <5>3. /\ calls[n - 1].comp \in Nat \ {0}
              /\ calls[n - 1].comp + Opened(calls[n - 1]) <= m
          BY <1>2, <1>4, <5>1, FramesRecords
        <5> QED BY <5>2, <5>3
      <4>2. Top(calls[i]) <= c
        <5>1. i < n - 1
          BY <3>1
        <5> QED BY <1>2, <1>8, <4>1, <5>1 DEF CInv, CallsInv
      <4>3. Top(calls[i]) >= m
        <5>1. Opened(calls[i]) \in {0, 1}
          BY DEF Opened
        <5> QED BY <2>3, <5>1 DEF Top
      <4>4. Top(calls[i]) \in Int
        <5>1. Opened(calls[i]) \in {0, 1}
          BY DEF Opened
        <5> QED BY <2>3, <5>1 DEF Top
      <4>5. c = m /\ o = 0
        BY <4>1, <4>2, <4>3, <4>4
      <4>6. calls[n - 1].proc = "compile_function" /\ calls[n - 1].pc = 5 => o = 1
        BY <4>1 DEF Opened
      <4> QED BY <1>9, <4>1, <4>5, <4>6
    <3>3. \/ calls[i].proc \in {"compile_file", "compile_term"}
          \/ calls[i].proc = "compile_let" /\ calls[i].pc > 6
      BY <1>2, <1>8, <2>3, <3>1, <3>2 DEF LetsLead
    <3>4. calls[i].pc \in Nat /\ calls[i].proc \in Procs
      <4>1. Placed(calls[i])
        BY <1>2, FramesPlaced DEF AllPlaced
      <4> QED BY <4>1 DEF Placed, ActivationOf
    <3>5. Waits(calls[i], calls[i + 1])
      BY <1>2, <3>1 DEF Chained, ChainedIn
    <3>6. calls[i].proc = "compile_file" => calls[i].pc = 5
      BY <3>4, <3>5, WaitsAt
    <3>7. calls[i].proc = "compile_term" => calls[i].pc = 4
      BY <3>4, <3>5, WaitsAt
    <3>8. calls'[i] = calls[i]
      BY <1>2, <1>12
    <3> QED BY <3>3, <3>4, <3>6, <3>7, <3>8 DEF FloorOK, TermProcs
  <2> QED BY <2>1, <2>2, <2>3
<1>13. FloorOK(calls', n, Slots(comps'[act.comp]), B[n])
  BY <1>2, <1>3, <1>7 DEF FloorOK, TermProcs
<1>14. \A i \in 1..n : calls'[i].comp = calls[i].comp
  BY <1>2, <1>3
<1>15. ASSUME NEW i \in 1..n
       PROVE  FloorOK(calls', i, Slots(comps'[calls'[i].comp]), B[i])
  <2>1. CASE i = n
    BY <1>2, <1>13, <2>1
  <2>2. CASE i # n
    BY <1>12, <1>14, <2>2
  <2> QED BY <2>1, <2>2
<1> QED BY <1>2, <1>15 DEF Floors

LEMMA DeclareCovered ==
  ASSUME CInv, CInv', Chained, LetsLead, DeclareStep, NEW H, NEW B, Covered(H, B)
  PROVE  Covered(H, B)'
<1>1. PICK act : /\ Moves("add_local", act) /\ Fits(comp)
                 /\ comps' = [comps EXCEPT ![Len(comps)] = Declared(comp, current.token.text)]
                 /\ UNCHANGED <<emit, functions, strs>>
  BY DEF DeclareStep
<1>2. PICK n \in Nat \ {0} :
        /\ n = Len(calls) /\ n = Len(calls') /\ current = calls[n]
        /\ DOMAIN calls = 1..n /\ DOMAIN calls' = 1..n /\ calls # <<>>
        /\ \A i \in 1..n : calls'[i] = IF i = n THEN act ELSE calls[i]
  BY <1>1, MovesShape
<1>3. /\ current.proc = "compile_parameter" /\ current.pc = 4
      /\ act.proc = "compile_parameter" /\ act.pc = 5 /\ act.comp = current.comp
      /\ act.jump = current.jump
  <2>1. OpPlaces(current.proc, current.pc, "add_local")
    BY <1>1, DoingPlace DEF Moves
  <2>2. current.proc = "compile_parameter" /\ current.pc = 4
    BY <2>1 DEF OpPlaces
  <2> QED BY <1>1, <2>2 DEF Moves
<1>4. PICK m \in Nat : m = Len(comps) /\ m = Len(comps') /\ DOMAIN comps = 1..m
  <2>1. Len(comps') = Len(comps)
    BY <1>1, RecordFacts
  <2> QED BY <2>1, RecordFacts
<1>5. /\ \A k \in 1..m : k # m => comps'[k] = comps[k]
      /\ \A k \in 1..m : comps'[k].fn = comps[k].fn
  <2>1. Declared(comp, current.token.text).fn = comp.fn
    <3>1. comp \in CompilerOf /\ SlotsInOrder(comp)
      BY <1>2, CurrentFacts, RecordFacts
    <3> QED BY <1>1, <3>1, SlotsOf
  <2>2. comp = comps[m] /\ m \in 1..m
    BY <1>2, <1>4, CurrentFacts
  <2>3. comps'[m] = Declared(comp, current.token.text)
    BY <1>1, <1>4, <2>2
  <2>4. \A k \in 1..m : k # m => comps'[k] = comps[k]
    BY <1>1, <1>4
  <2> QED BY <2>1, <2>2, <2>3, <2>4
<1>6. \A i \in 1..n : calls'[i].comp = calls[i].comp /\ calls[i].comp \in 1..m
  <2>1. \A i \in 1..n : calls[i].comp \in 1..m
    BY <1>2, <1>4, ActiveRecords
  <2> QED BY <1>2, <1>3, <2>1
<1>7. \A k \in 1..m : End(H, k)' = End(H, k)
  BY <1>1, <1>5 DEF End
<1>8. BasedIn(calls', B)
  BY <1>1, BasedMoves DEF Covered
<1>9. Floors(B)'
  BY DeclareFloors DEF Covered
<1>10. Left(act) = 0 /\ Left(current) = 0 /\ ~Ended(current)
  BY <1>3 DEF Left, Leaves, Ended
<1>11. Heights(H, B)'
  <2>1. ASSUME NEW i \in 1..n, i = n \/ Opened(calls'[i]) = 1, ~Ended(calls'[i]),
               NEW k, k = calls'[i].comp
        PROVE  End(H, k)' >= B[i] + Left(calls'[i])
    <3>1. k = calls[i].comp /\ End(H, k)' = End(H, k)
      BY <1>6, <1>7, <2>1
    <3>2. CASE i = n
      <4>1. End(H, k) >= B[n] + Left(current)
        BY <1>2, <1>10, <3>1, <3>2 DEF Covered, Heights
      <4> QED BY <1>2, <1>10, <3>1, <3>2, <4>1
    <3>3. CASE i # n
      <4>1. calls'[i] = calls[i]
        BY <1>2, <3>3
      <4> QED BY <1>2, <2>1, <3>1, <3>3, <4>1 DEF Covered, Heights
    <3> QED BY <3>2, <3>3
  <2> QED BY <1>2, <2>1 DEF Heights, End
<1>12. Holds(H, B)'
  <2>1. ASSUME NEW i \in 1..n
        PROVE  HoldsAt(calls'[i], H[comps'[calls'[i].comp].fn],
                       functions'[comps'[calls'[i].comp].fn], B[i])
    <3>1. PICK f : f = comps[calls[i].comp].fn /\ f = comps'[calls'[i].comp].fn
      BY <1>5, <1>6
    <3>2. HoldsAt(calls[i], H[f], functions[f], B[i])
      BY <1>2, <3>1 DEF Covered, Holds
    <3>3. calls'[i].jump = calls[i].jump /\ (calls'[i].pc >= 7 => calls[i].pc >= 7)
      BY <1>2, <1>3
    <3> QED BY <1>1, <3>1, <3>2, <3>3 DEF HoldsAt
  <2> QED BY <1>2, <2>1 DEF Holds
<1>13. Outer(H)'
  <2>1. ASSUME NEW k \in 1..(m - 1)
        PROVE  Slots(comps'[k]) <= End(H, k)' + 1
    <3>1. k \in 1..m /\ k # m
      BY <1>4, <2>1
    <3>2. Slots(comps[k]) <= End(H, k) + 1
      BY <1>4, <2>1 DEF Covered, Outer
    <3> QED BY <1>5, <1>7, <3>1, <3>2
  <2> QED BY <1>4, <2>1 DEF Outer
<1>14. \A f \in DOMAIN functions' :
         Measures(compiled', functions'[f], H[f], Pending(f)', Live(f)')
  <2>1. \A f : Pending(f)' = Pending(f)
    BY <1>1, <1>2, <1>3, <1>5, <1>6, PendingMoves
  <2>2. Going' <=> Going
    BY <1>1, <1>3, MovesGoing DEF Ended
  <2>3. \A f : Live(f)' <=> Live(f)
    BY <1>4, <1>5, <2>2, LiveKept
  <2>4. compiled' = compiled
    BY <1>1 DEF compiled
  <2>5. ASSUME NEW f \in DOMAIN functions
        PROVE  Measures(compiled', functions'[f], H[f], Pending(f)', Live(f)')
    <3>1. PICK P, live : P = Pending(f) /\ live = Live(f)
      OBVIOUS
    <3>2. P = Pending(f)' /\ (live <=> Live(f)')
      BY <2>1, <2>3, <3>1
    <3>3. Measures(compiled, functions[f], H[f], P, live)
      BY <2>5, <3>1 DEF Covered
    <3> QED BY <1>1, <2>4, <3>2, <3>3 DEF Measures
  <2> QED BY <1>1, <2>5
<1>15. DOMAIN H = DOMAIN functions'
  BY <1>1 DEF Covered
<1> QED BY <1>8, <1>9, <1>11, <1>12, <1>13, <1>14, <1>15 DEF Covered
-----------------------------------------------------------------------------
(* Certificates as the running function writes.                            *)

LEMMA FunctionSized ==
  ASSUME CInv, NEW f \in DOMAIN functions
  PROVE  Sized(functions[f]) /\ functions[f] \in FunctionOf
<1>1. functions[f] \in FunctionOf
  BY RecordFacts
<1>2. /\ functions[f].code \in Seq(Byte) /\ functions[f].constants \in Seq(Value)
      /\ functions[f].nonlocals \in Seq([isLocal : BOOLEAN, index : 0..UINT8_MAX])
      /\ functions[f].functions \in Seq(Nat)
  BY <1>1 DEF FunctionOf, Byte
<1>3. /\ Len(functions[f].code) \in Nat /\ Len(functions[f].constants) \in Nat
      /\ Len(functions[f].nonlocals) \in Nat /\ Len(functions[f].functions) \in Nat
  BY <1>2
<1> QED BY <1>1, <1>2, <1>3 DEF Sized

LEMMA FunctionIndexed ==
  ASSUME CInv, ChildrenClosed, NEW f \in DOMAIN functions
  PROVE  Indexed(compiled, functions[f])
<1> SUFFICES ASSUME NEW i \in 1..Len(functions[f].functions),
                    NEW c, c = functions[f].functions[i],
                    NEW j \in 1..Len(functions[c].nonlocals)
             PROVE  functions[c].nonlocals[j].index \in Nat
  BY DEF Indexed, compiled
<1>1. c \in DOMAIN functions
  BY RecordFacts DEF ChildrenClosed
<1>2. functions[c].nonlocals \in Seq([isLocal : BOOLEAN, index : 0..UINT8_MAX])
  BY <1>1, FunctionSized DEF FunctionOf
<1>3. functions[c].nonlocals[j] \in [isLocal : BOOLEAN, index : 0..UINT8_MAX]
  <2>1. PICK S, s : s = functions[c].nonlocals /\ S = [isLocal : BOOLEAN, index : 0..UINT8_MAX]
    OBVIOUS
  <2>2. s \in Seq(S) /\ j \in 1..Len(s)
    BY <1>2, <2>1
  <2>3. s[j] \in S
    BY <2>2
  <2> QED BY <2>1, <2>3
<1>4. functions[c].nonlocals[j].index \in 0..UINT8_MAX
  BY <1>3
<1> QED BY <1>4, Bytes

(* Functions that no record has any longer keep what they capture.         *)
ClosedKeep ==
  \A c \in DOMAIN functions : (\A k \in 1..Len(comps) : comps[k].fn # c) =>
    functions'[c].nonlocals = functions[c].nonlocals

LEMMA StepWidens ==
  ASSUME CInv, ChildrenClosed, ClosedKeep, NEW f \in DOMAIN functions, NEW g, g = functions[f],
         NEW new, Len(g.code) <= Len(new.code), Len(g.constants) <= Len(new.constants),
         Len(g.nonlocals) <= Len(new.nonlocals), Len(g.functions) <= Len(new.functions),
         \A i \in 1..Len(g.functions) : new.functions[i] = g.functions[i]
  PROVE  Widens(compiled, g, compiled', new)
<1>1. ASSUME NEW i \in 1..Len(g.functions), NEW c, c = g.functions[i]
      PROVE  functions'[c].nonlocals = functions[c].nonlocals
  <2>1. c \in DOMAIN functions /\ \A k \in 1..Len(comps) : comps[k].fn # c
    BY <1>1, RecordFacts DEF ChildrenClosed
  <2> QED BY <2>1 DEF ClosedKeep
<1>2. \A i \in 1..Len(g.functions) :
        compiled'.functions[g.functions[i]].nonlocals
          = compiled.functions[g.functions[i]].nonlocals
  BY <1>1 DEF compiled
<1> QED BY <1>2 DEF Widens

(* A function that is not written to.                                      *)
LEMMA OthersKept ==
  ASSUME CInv, CInv', CodeInv, ChildrenClosed, ClosedKeep,
         NEW f \in DOMAIN functions, f \in DOMAIN functions',
         functions'[f].code = functions[f].code, functions'[f].arity = functions[f].arity,
         functions'[f].functions = functions[f].functions,
         functions'[f].constants = functions[f].constants,
         Len(functions[f].nonlocals) <= Len(functions'[f].nonlocals),
         Pending(f)' = Pending(f), Live(f)' <=> Live(f),
         NEW h, Measures(compiled, functions[f], h, Pending(f), Live(f))
  PROVE  Measures(compiled', functions'[f], h, Pending(f)', Live(f)')
<1>1. PICK p, p2, g, new, P, live :
        /\ p = compiled /\ p2 = compiled' /\ g = functions[f] /\ new = functions'[f]
        /\ P = Pending(f) /\ live = Live(f)
  OBVIOUS
<1>2. Sized(g)
  BY <1>1, FunctionSized
<1>3. Sized(new)
  <2>1. new \in FunctionOf
    BY <1>1 DEF CInv, ScopesInv
  <2>2. /\ new.code \in Seq(Byte) /\ new.constants \in Seq(Value)
        /\ new.nonlocals \in Seq([isLocal : BOOLEAN, index : 0..UINT8_MAX])
        /\ new.functions \in Seq(Nat)
    BY <2>1 DEF FunctionOf, Byte
  <2>3. /\ Len(new.code) \in Nat /\ Len(new.constants) \in Nat
        /\ Len(new.nonlocals) \in Nat /\ Len(new.functions) \in Nat
    BY <2>2
  <2> QED BY <2>2, <2>3 DEF Sized
<1>4. Listed(g, P)
  BY <1>1 DEF CodeInv, GoodCode
<1>5. Indexed(p, g)
  BY <1>1, FunctionIndexed
<1>6. Widens(p, g, p2, new)
  <2>1. /\ Len(g.code) <= Len(new.code) /\ Len(g.constants) <= Len(new.constants)
        /\ Len(g.nonlocals) <= Len(new.nonlocals) /\ Len(g.functions) <= Len(new.functions)
        /\ \A i \in 1..Len(g.functions) : new.functions[i] = g.functions[i]
    BY <1>1, <1>2, <1>3 DEF Sized
  <2> QED BY <1>1, <2>1, StepWidens
<1>7. Measures(p, g, h, P, live)
  BY <1>1
<1>8. Measures(p2, new, h, P, live)
  BY <1>1, <1>2, <1>3, <1>4, <1>5, <1>6, <1>7, MeasuresKept
<1>9. P = Pending(f)' /\ (live <=> Live(f)')
  BY <1>1
<1> QED BY <1>1, <1>8, <1>9 DEF Measures

(* The end of the code of a record.                                        *)
LEMMA EndFacts ==
  ASSUME CInv, NEW H, NEW B, Covered(H, B), Going, NEW k \in 1..Len(comps),
         NEW f, f = comps[k].fn
  PROVE  /\ f \in DOMAIN functions /\ Live(f)
         /\ Measures(compiled, functions[f], H[f], Pending(f), TRUE)
         /\ End(H, k) = H[f][Len(functions[f].code)]
         /\ End(H, k) \in Nat
<1>1. f \in DOMAIN functions
  BY RecordFacts
<1>2. Live(f)
  BY DEF Live
<1>3. Measures(compiled, functions[f], H[f], Pending(f), Live(f))
  BY <1>1 DEF Covered
<1>4. Measures(compiled, functions[f], H[f], Pending(f), TRUE)
  BY <1>2, <1>3 DEF Measures
<1>5. End(H, k) = H[f][Len(functions[f].code)]
  BY DEF End
<1> QED BY <1>1, <1>2, <1>4, <1>5 DEF Measures

LEMMA MoveFacts ==
  ASSUME CInv, Chained, NEW op, NEW act, Moves(op, act), NEW H, NEW B, Covered(H, B)
  PROVE  /\ current.comp \in 1..Len(comps) /\ act.comp = current.comp /\ Going
         /\ B[Len(calls)] \in Nat /\ Left(current) \in Nat
         /\ End(H, current.comp) \in Nat
         /\ End(H, current.comp) >= B[Len(calls)] + Left(current)
<1>1. PICK n \in Nat \ {0} : n = Len(calls) /\ current = calls[n] /\ DOMAIN calls = 1..n
  BY MovesShape
<1>2. n \in 1..n
  OBVIOUS
<1>3. current.comp \in 1..Len(comps)
  BY <1>1, <1>2, ActiveRecords
<1>4. Going /\ ~Ended(current)
  BY MovesGoing
<1>5. B[n] \in Nat /\ End(H, current.comp) >= B[n] + Left(current)
  BY <1>1, <1>2, <1>4 DEF Covered, BasedIn, Heights
<1>6. Left(current) \in Nat
  BY <1>1, <1>2, FramesPlaced, LeftNat DEF AllPlaced
<1>7. End(H, current.comp) \in Nat
  BY <1>3, <1>4, EndFacts
<1> QED BY <1>1, <1>3, <1>4, <1>5, <1>6, <1>7 DEF Moves

(* Nothing changes before the end of the code of g.                        *)
Before(g, h, new, h2) ==
  \A a \in dump_function(g) : h2[a] = h[a] /\ OpAt(new, a) = OpAt(g, a)

(* The jump that the running function remembers, if it keeps it.           *)
LEMMA HoldsMoves ==
  ASSUME CInv, CodeInv, NEW op, NEW act, Moves(op, act),
         op \notin {"jump_if_false", "jump_over", "patch_jump"},
         NEW H, NEW B, Covered(H, B), NEW h2, NEW new, NEW f, f = comps[current.comp].fn,
         Before(functions[f], H[f], new, h2)
  PROVE  HoldsAt(act, h2, new, B[Len(calls)])
<1>1. PICK n \in Nat \ {0} : n = Len(calls) /\ current = calls[n] /\ DOMAIN calls = 1..n
  BY MovesShape
<1>2. n \in 1..n
  OBVIOUS
<1>3. HoldsAt(current, H[f], functions[f], B[n])
  BY <1>1, <1>2 DEF Covered, Holds
<1>4. act.jump = current.jump
  BY DEF Moves
<1> SUFFICES ASSUME act.jump # NoJump
             PROVE  HoldsAt(act, h2, new, B[n])
  BY <1>1 DEF HoldsAt
<1>5. HeldBy(current, emit)
  BY <1>1, <1>2 DEF CodeInv, JumpsHeld
<1>6. current.proc = "compile_if" /\ current.pc \in 4..9
  BY <1>4, <1>5 DEF HeldBy
<1>7. act.pc >= 7 => current.pc >= 7
  <2>1. OpPlaces(current.proc, current.pc, op)
    BY DoingPlace DEF Moves
  <2>2. act.pc = current.pc + 1 /\ current.pc # 6
    BY <1>6, <2>1 DEF OpPlaces, Moves
  <2> QED BY <1>6, <2>2
<1>8. act.jump - 1 \in dump_function(functions[f])
  <2>1. f \in DOMAIN functions
    <3>1. current.comp \in 1..Len(comps)
      BY SMTT(60), <1>1, <1>2, ActiveRecords
    <3> QED BY <3>1, RecordFacts
  <2>2. act.jump - 1 \in Pending(f)
    BY <1>1, <1>2, <1>4 DEF Pending
  <2>3. Listed(functions[f], Pending(f))
    BY <2>1 DEF CodeInv, GoodCode
  <2> QED BY <2>2, <2>3 DEF Listed
<1> QED BY <1>3, <1>4, <1>7, <1>8 DEF HoldsAt, Before
LEMMA QuietCovered ==
  ASSUME CInv, CInv', CodeInv, Chained, Chained', QuietStep, NEW H, NEW B, Covered(H, B)
  PROVE  Covered(H, B)'
<1>1. PICK op, act :
        op \in Quiet /\ Moves(op, act) /\ UNCHANGED <<emit, comps, functions, strs>>
  BY DEF QuietStep
<1>2. op \notin {"jump_if_false", "jump_over", "patch_jump", "emit", "add_local"}
  BY <1>1 DEF Quiet
<1>3. act.jump = current.jump /\ act.comp = current.comp
  BY <1>1, <1>2 DEF Moves
<1>4. \A f : Pending(f)' = Pending(f)
  BY <1>1, <1>3, PendingMoves
<1>5. (Going' <=> Going) /\ ~Ended(act)
  BY <1>1, <1>2, MovesGoing
<1>6. compiled' = compiled
  BY <1>1 DEF compiled
<1>7. \A f \in DOMAIN functions' :
        Measures(compiled', functions'[f], H[f], Pending(f)', Live(f)')
  BY <1>1, <1>4, <1>5, <1>6, SameMeasures DEF Covered
<1>8. \A k : End(H, k)' = End(H, k)
  BY <1>1 DEF End
<1>9. End(H, act.comp)' >= B[Len(calls)] + Left(act)
  <2>1. PICK b, l, l2, e : b = B[Len(calls)] /\ l = Left(current) /\ l2 = Left(act)
                           /\ e = End(H, current.comp)
    OBVIOUS
  <2>2. b \in Nat /\ l \in Nat /\ e \in Nat /\ e >= b + l
    BY <1>1, <2>1, MoveFacts
  <2>3. l2 \in Nat /\ l2 <= l
    BY <1>1, <2>1, MovesPlaced, LeftNat, LeftQuiet
  <2>4. e >= b + l2
    BY <2>2, <2>3
  <2> QED BY <1>3, <1>8, <2>1, <2>4
<1>10. PICK f : f = comps[current.comp].fn
  OBVIOUS
<1>11. HoldsAt(act, H[f], functions[f], B[Len(calls)])
  BY <1>1, <1>2, <1>10, HoldsMoves DEF Before
<1>12. HoldsAt(act, H[comps'[act.comp].fn], functions'[comps'[act.comp].fn], B[Len(calls)])
  BY <1>1, <1>3, <1>10, <1>11
<1>13. act.comp < Len(comps') => Slots(comps[act.comp]) <= End(H, act.comp)' + 1
  <2>1. SUFFICES ASSUME act.comp < Len(comps')
                 PROVE  Slots(comps[act.comp]) <= End(H, act.comp)' + 1
    OBVIOUS
  <2>2. act.comp \in 1..Len(comps) /\ Len(comps) \in Nat
    BY <1>1, MoveFacts, RecordFacts
  <2>3. act.comp \in 1..(Len(comps) - 1)
    BY <1>1, <2>1, <2>2
  <2> QED BY <1>8, <2>3 DEF Covered, Outer
<1>14. DOMAIN H = DOMAIN functions'
  BY <1>1 DEF Covered
<1>15. \A g \in DOMAIN functions : \A a \in dump_function(functions[g]) :
         H[g][a] = H[g][a] /\ OpAt(functions'[g], a) = OpAt(functions[g], a)
  BY <1>1
<1>16. \A k \in 1..Len(comps) : k <= Len(comps') =>
         comps'[k].fn = comps[k].fn /\ Slots(comps'[k]) = Slots(comps[k])
  BY <1>1
<1>17. \A k \in 1..(current.comp - 1) : End(H, k)' = End(H, k)
  BY <1>8
<1> QED BY <1>1, <1>2, <1>7, <1>9, <1>12, <1>13, <1>14, <1>15, <1>16, <1>17, MoveCovered
-----------------------------------------------------------------------------
(* What the running function writes to the innermost function.             *)
Stays(f) ==
  /\ functions'[f].code = functions[f].code /\ functions'[f].arity = functions[f].arity
  /\ functions'[f].functions = functions[f].functions
  /\ functions'[f].constants = functions[f].constants
  /\ Len(functions[f].nonlocals) <= Len(functions'[f].nonlocals)
Writing(new) ==
  /\ DOMAIN functions' = DOMAIN functions /\ functions'[comp.fn] = new
  /\ \A f \in DOMAIN functions : f # comp.fn => Stays(f)
  /\ ClosedKeep
  /\ Len(comps') = Len(comps)
  /\ \A k \in 1..Len(comps) :
       comps'[k].fn = comps[k].fn /\ Slots(comps'[k]) = Slots(comps[k])

LEMMA RewriteWrites ==
  ASSUME CInv, calls # <<>>, NEW new, Rewrite(new), new.nonlocals = fn.nonlocals,
         comps' = comps
  PROVE  Writing(new)
<1>1. /\ comp.fn \in 1..Len(functions) /\ fn = functions[comp.fn]
      /\ Len(functions) \in Nat /\ DOMAIN functions = 1..Len(functions)
      /\ DOMAIN functions' = 1..Len(functions)
      /\ \A f \in 1..Len(functions) : functions'[f] = IF f = comp.fn THEN new ELSE functions[f]
  BY RewriteShape
<1>2. ClosedKeep
  BY <1>1 DEF ClosedKeep
<1>3. ASSUME NEW f \in DOMAIN functions, f # comp.fn
      PROVE  Stays(f)
  <2>1. functions'[f] = functions[f]
    BY <1>1, <1>3
  <2>2. PICK m \in Nat : m = Len(functions[f].nonlocals)
    BY <1>3, FunctionSized DEF Sized
  <2> QED BY <2>1, <2>2 DEF Stays
<1> QED BY <1>1, <1>2, <1>3 DEF Writing

LEMMA WritingCovered ==
  ASSUME CInv, CInv', CodeInv, Chained, Chained', ChildrenClosed,
         NEW op, NEW act, Moves(op, act), op # "add_local",
         NEW new, Writing(new),
         NEW H, NEW B, Covered(H, B),
         NEW c, c = comp.fn,
         NEW h2, Measures(compiled', new, h2, Pending(c)', Live(c)'),
         \A f : f # c => Pending(f)' = Pending(f) /\ (Live(f)' <=> Live(f)),
         \A a \in dump_function(fn) : h2[a] = H[c][a] /\ OpAt(new, a) = OpAt(fn, a),
         NEW H2, DOMAIN H2 = DOMAIN H, H2[c] = h2,
         \A f \in DOMAIN H : f # c => H2[f] = H[f],
         ~Ended(act) => End(H2, act.comp)' >= B[Len(calls)] + Left(act),
         HoldsAt(act, H2[comps[act.comp].fn], functions'[comps[act.comp].fn], B[Len(calls)]),
         act.comp < Len(comps) => Slots(comps[act.comp]) <= End(H2, act.comp)' + 1
  PROVE  Covered(H2, B)'
<1>0. calls # <<>>
  BY MovesShape
<1>1. /\ calls # <<>> /\ c \in 1..Len(functions) /\ fn = functions[c]
      /\ Len(functions) \in Nat /\ DOMAIN functions = 1..Len(functions)
      /\ DOMAIN functions' = 1..Len(functions) /\ functions'[c] = new
      /\ \A f \in 1..Len(functions) : f # c => Stays(f)
  BY <1>0, CurrentFacts, RecordFacts DEF Writing
<1>2. /\ DOMAIN H2 = 1..Len(functions) /\ H2[c] = h2
      /\ \A f \in 1..Len(functions) : f # c => H2[f] = H[f]
  BY <1>1 DEF Covered
<1>3. ClosedKeep
  BY DEF Writing
<1>4. ASSUME NEW f \in DOMAIN functions'
      PROVE  Measures(compiled', functions'[f], H2[f], Pending(f)', Live(f)')
  <2>1. CASE f = c
    BY <1>1, <1>2, <2>1 DEF Measures
  <2>2. CASE f # c
    <3>1. PICK h : h = H[f]
      OBVIOUS
    <3>2. f \in DOMAIN functions /\ Stays(f) /\ H2[f] = h
      BY <1>1, <1>2, <1>4, <2>2, <3>1
    <3>3. Measures(compiled, functions[f], h, Pending(f), Live(f))
      BY <3>1, <3>2 DEF Covered
    <3>4. Pending(f)' = Pending(f) /\ (Live(f)' <=> Live(f))
      BY <2>2
    <3>6. Measures(compiled', functions'[f], h, Pending(f)', Live(f)')
      BY <1>3, <1>4, <3>2, <3>3, <3>4, OthersKept DEF Stays
    <3> QED BY <3>2, <3>6
  <2> QED BY <2>1, <2>2
<1>5. ASSUME NEW f \in DOMAIN functions, NEW a \in dump_function(functions[f])
      PROVE  H2[f][a] = H[f][a] /\ OpAt(functions'[f], a) = OpAt(functions[f], a)
  <2>1. CASE f = c
    BY <1>1, <1>2, <1>5, <2>1
  <2>2. CASE f # c
    BY <1>1, <1>2, <1>5, <2>2 DEF OpAt, Stays
  <2> QED BY <2>1, <2>2
<1>6. /\ current.comp \in Nat \ {0} /\ current.comp <= Len(comps) /\ Len(comps) \in Nat
      /\ act.comp = current.comp /\ comp = comps[Len(comps)]
  BY SMTT(60), <1>1, FramesRecords, CurrentFacts DEF Moves
<1>7. ASSUME NEW k \in 1..(current.comp - 1)
      PROVE  End(H2, k)' = End(H, k)
  <2>1. k \in 1..Len(comps) /\ k \in 1..(Len(comps) - 1) /\ Len(comps) \in 1..Len(comps)
    BY <1>6
  <2>2. comps[k].fn # c /\ comps[k].fn \in 1..Len(functions)
    BY <1>6, <2>1, RecordFacts
  <2>3. PICK f \in 1..Len(functions) : f = comps[k].fn /\ f # c
    BY <2>2
  <2>4. comps'[k].fn = f /\ H2[f] = H[f] /\ functions'[f].code = functions[f].code
    BY <1>1, <1>2, <2>1, <2>3 DEF Writing, Stays
  <2> QED BY <2>3, <2>4 DEF End
<1>8. \A k \in 1..Len(comps) : k <= Len(comps') =>
        comps'[k].fn = comps[k].fn /\ Slots(comps'[k]) = Slots(comps[k])
  BY DEF Writing
<1>9. DOMAIN H2 = DOMAIN functions'
  BY <1>1, <1>2
<1>10. HoldsAt(act, H2[comps'[act.comp].fn], functions'[comps'[act.comp].fn], B[Len(calls)])
  <2>1. act.comp \in 1..Len(comps)
    BY <1>6
  <2>2. comps'[act.comp].fn = comps[act.comp].fn
    BY <2>1 DEF Writing
  <2> QED BY <2>2
<1>11. act.comp < Len(comps') => Slots(comps[act.comp]) <= End(H2, act.comp)' + 1
  BY DEF Writing
<1> QED BY <1>4, <1>5, <1>7, <1>8, <1>9, <1>10, <1>11, MoveCovered

(* When the instruction that is added is safe, with e cells where it stands*)
(* and m behind it.                                                        *)
Leads(p, new, op, byte, e, m) ==
  /\ op \in {"OP_FALSE", "OP_TRUE", "OP_INT", "OP_CONSTANT", "OP_LOCAL", "OP_NONLOCAL",
             "OP_CLOSURE"} => m <= e + 1
  /\ op = "OP_CONSTANT" => byte < Len(new.constants)
  /\ op = "OP_LOCAL" => byte <= e
  /\ op = "OP_NONLOCAL" => byte < Len(new.nonlocals)
  /\ op = "OP_CLOSURE" =>
       byte < Len(new.functions) /\ CaptureSafe(new, e + 1, p.functions[new.functions[byte + 1]])
  /\ op \in Binary => e >= 2 /\ m <= e - 1
  /\ op \in {"OP_FIRST", "OP_SECOND", "OP_PRINT"} => e >= 1 /\ m <= e
  /\ op = "OP_JUMP_IF_FALSE" => e >= 1 /\ m <= e - 1
  /\ op = "OP_CALL" => byte \in Nat /\ byte < e /\ m <= e - byte
  /\ op = "OP_TAIL_CALL" => byte < e
  /\ op # "OP_NOP"

LEMMA AddedRule ==
  ASSUME NEW p, NEW g, NEW h, NEW new, NEW bytes, Added(new, g, bytes),
         NEW P, Listed(g, P), NEW a, a = Len(g.code), h \in [DOMAIN h -> Nat], a \in DOMAIN h,
         NEW op, op = OpNames[bytes[1] + 1], NEW e, e = h[a], NEW m \in Nat,
         NEW h2, h2 = Raised(h, Len(new.code), m),
         NEW Q, a \in Q <=> op \in Jumps, Leads(p, new, op, bytes[2], e, m)
  PROVE  RuleAt(p, new, h2, Q, a)
<1>1. /\ a \in Nat /\ Len(bytes) = Size(op) /\ Len(new.code) = a + Size(op)
      /\ \A i \in 1..Len(bytes) : new.code[a + i] = bytes[i]
  <2>1. Len(bytes) = Size(op)
    BY DEF Added
  <2>2. /\ Len(g.code) \in Nat /\ Len(new.code) = Len(g.code) + Len(bytes)
        /\ \A i \in 1..Len(bytes) : new.code[Len(g.code) + i] = bytes[i]
    BY AddedCode
  <2> QED BY <2>1, <2>2
<1>2. OpAt(new, a) = op
  BY AddedSweep
<1>3. op \in ByteOps => read_byte(new, a + 1) = bytes[2]
  <2>1. SUFFICES ASSUME op \in ByteOps PROVE read_byte(new, a + 1) = bytes[2]
    OBVIOUS
  <2>2. Len(bytes) = 2
    BY <1>1, <2>1 DEF Size, ByteOps, WordOps
  <2>3. new.code[a + 2] = bytes[2]
    BY <1>1, <2>2
  <2>4. (a + 1) + 1 = a + 2
    BY <1>1
  <2> QED BY <2>3, <2>4 DEF read_byte
<1>4. PICK l \in Nat : l = Len(new.code) /\ l # a /\ l = a + Size(op)
  <2>1. Size(op) \in 1..3
    BY SizeIs
  <2> QED BY <1>1, <2>1
<1>5. /\ h2[a] = e /\ e \in Nat /\ h2[l] = m /\ l \in DOMAIN h2 /\ a \in DOMAIN h2
  BY <1>4 DEF Raised
<1>6. \A n : m <= n => Flows(h2, l, n)
  BY <1>5 DEF Flows
<1>7. CASE op \in Jumps
  <2>1. OpAt(new, a) = "OP_JUMP_IF_FALSE" => h2[a] >= 1 /\ Flows(h2, a + 3, h2[a] - 1)
    <3>1. SUFFICES ASSUME op = "OP_JUMP_IF_FALSE"
                   PROVE  e >= 1 /\ Flows(h2, a + 3, e - 1)
      BY <1>2, <1>5
    <3>2. l = a + 3
      BY <1>4, <3>1 DEF Size, WordOps
    <3>3. e >= 1 /\ m <= e - 1
      BY <3>1 DEF Leads
    <3> QED BY <1>6, <3>2, <3>3
  <2> QED BY <1>7, <2>1 DEF RuleAt
<1>8. CASE op \notin Jumps
  <2> SUFFICES SafeAt(p, new, h2, a)
    BY <1>8 DEF RuleAt
  <2>1. a + Size(op) <= Len(new.code)
    BY <1>4
  <2>2. op \in {"OP_FALSE", "OP_TRUE"} => Flows(h2, a + 1, e + 1)
    <3>1. SUFFICES ASSUME op \in {"OP_FALSE", "OP_TRUE"} PROVE Flows(h2, a + 1, e + 1)
      OBVIOUS
    <3>2. l = a + 1 /\ m <= e + 1
      BY <1>4, <3>1 DEF Size, WordOps, ByteOps, Leads
    <3> QED BY <1>6, <3>2
  <2>3. op = "OP_INT" => Flows(h2, a + 3, e + 1)
    <3>1. SUFFICES ASSUME op = "OP_INT" PROVE Flows(h2, a + 3, e + 1)
      OBVIOUS
    <3>2. l = a + 3 /\ m <= e + 1
      BY <1>4, <3>1 DEF Size, WordOps, Leads
    <3> QED BY <1>6, <3>2
  <2>4. op \in {"OP_CONSTANT", "OP_LOCAL", "OP_NONLOCAL", "OP_CLOSURE"} =>
          Flows(h2, a + 2, e + 1)
    <3>1. SUFFICES ASSUME op \in {"OP_CONSTANT", "OP_LOCAL", "OP_NONLOCAL", "OP_CLOSURE"}
                   PROVE  Flows(h2, a + 2, e + 1)
      OBVIOUS
    <3>2. l = a + 2
      BY <1>4, <3>1 DEF Size, WordOps, ByteOps
    <3>3. m <= e + 1
      BY <3>1 DEF Leads
    <3> QED BY <1>6, <3>2, <3>3
  <2>5. op \in Binary => e >= 2 /\ Flows(h2, a + 1, e - 1)
    <3>1. SUFFICES ASSUME op \in Binary PROVE e >= 2 /\ Flows(h2, a + 1, e - 1)
      OBVIOUS
    <3>2. l = a + 1
      BY <1>4, <3>1 DEF Size, WordOps, ByteOps, Binary
    <3>3. e >= 2 /\ m <= e - 1
      BY <3>1 DEF Leads
    <3> QED BY <1>6, <3>2, <3>3
  <2>6. op \in {"OP_FIRST", "OP_SECOND", "OP_PRINT"} => e >= 1 /\ Flows(h2, a + 1, e)
    <3>1. SUFFICES ASSUME op \in {"OP_FIRST", "OP_SECOND", "OP_PRINT"}
                   PROVE  e >= 1 /\ Flows(h2, a + 1, e)
      OBVIOUS
    <3>2. l = a + 1
      BY <1>4, <3>1 DEF Size, WordOps, ByteOps
    <3>3. e >= 1 /\ m <= e
      BY <3>1 DEF Leads
    <3> QED BY <1>6, <3>2, <3>3
  <2>7. op \in {"OP_CALL", "OP_TAIL_CALL"} => bytes[2] < e
    BY DEF Leads
  <2>8. op = "OP_CALL" => Flows(h2, a + 2, e - bytes[2])
    <3>1. SUFFICES ASSUME op = "OP_CALL" PROVE Flows(h2, a + 2, e - bytes[2])
      OBVIOUS
    <3>2. l = a + 2
      BY <1>4, <3>1 DEF Size, WordOps, ByteOps
    <3>3. m <= e - bytes[2]
      BY <3>1 DEF Leads
    <3> QED BY <1>6, <3>2, <3>3
  <2>9. /\ op = "OP_CONSTANT" => bytes[2] < Len(new.constants)
        /\ op = "OP_LOCAL" => bytes[2] <= e
        /\ op = "OP_NONLOCAL" => bytes[2] < Len(new.nonlocals)
        /\ op = "OP_CLOSURE" =>
             /\ bytes[2] < Len(new.functions)
             /\ CaptureSafe(new, e + 1, p.functions[new.functions[bytes[2] + 1]])
        /\ op # "OP_NOP"
    BY DEF Leads
  <2>10. op \notin {"OP_JUMP", "OP_JUMP_IF_FALSE"}
    BY <1>8 DEF Jumps
  <2>11. op \in {"OP_CONSTANT", "OP_LOCAL", "OP_NONLOCAL", "OP_CLOSURE", "OP_CALL",
                 "OP_TAIL_CALL"} => read_byte(new, a + 1) = bytes[2]
    BY <1>3 DEF ByteOps
  <2> QED BY <1>2, <1>5, <2>1, <2>2, <2>3, <2>4, <2>5, <2>6, <2>7, <2>8, <2>9, <2>10, <2>11
          DEF SafeAt
<1> QED BY <1>7, <1>8
-----------------------------------------------------------------------------
(* An instruction is added.                                                *)

(* The function that the running one writes to.                            *)
LEMMA HereFacts ==
  ASSUME CInv, CodeInv, Chained, ChildrenClosed, NEW op, NEW act, Moves(op, act),
         Opened(current) = 0, NEW H, NEW B, Covered(H, B), NEW c, c = comp.fn
  PROVE  /\ c \in DOMAIN functions /\ fn = functions[c]
         /\ act.comp = Len(comps) /\ comps[act.comp].fn = c /\ current.comp = Len(comps)
         /\ Len(comps) \in Nat \ {0}
         /\ Growing(compiled, fn, H[c], Pending(c)) /\ Live(c)
         /\ Sized(fn) /\ Listed(fn, Pending(c)) /\ Indexed(compiled, fn)
         /\ B[Len(calls)] \in Nat /\ Left(current) \in Nat /\ H[c][Len(fn.code)] \in Nat
         /\ H[c][Len(fn.code)] >= B[Len(calls)] + Left(current)
<1>1. calls # <<>>
  BY MovesShape
<1>2. /\ current.comp = Len(comps) /\ Len(comps) \in Nat \ {0} /\ comp = comps[Len(comps)]
      /\ c \in DOMAIN functions /\ fn = functions[c]
  <2>1. /\ Top(current) = current.comp + Opened(current) /\ Len(comps) = Top(current)
        /\ Len(comps) \in Nat \ {0} /\ comp = comps[Len(comps)]
        /\ current \in ActivationOf /\ comp.fn \in 1..Len(functions) /\ fn = functions[comp.fn]
    BY <1>1, CurrentFacts
  <2>2. current.comp \in Nat
    BY <2>1 DEF ActivationOf
  <2>3. Top(current) = current.comp
    BY <2>1, <2>2
  <2> QED BY <2>1, <2>3, RecordFacts
<1>3. act.comp = current.comp
  BY DEF Moves
<1>4. Going /\ B[Len(calls)] \in Nat /\ Left(current) \in Nat
      /\ End(H, current.comp) >= B[Len(calls)] + Left(current)
  BY MoveFacts
<1>5. PICK k \in 1..Len(comps) : k = Len(comps) /\ c = comps[k].fn
  BY <1>2
<1>6. /\ Measures(compiled, functions[c], H[c], Pending(c), TRUE) /\ Live(c)
      /\ End(H, k) = H[c][Len(functions[c].code)] /\ End(H, k) \in Nat
  BY ZenonT(60), <1>4, <1>5, EndFacts
<1>7. Sized(functions[c]) /\ Listed(functions[c], Pending(c)) /\ Indexed(compiled, functions[c])
  BY <1>2, FunctionSized, FunctionIndexed DEF CodeInv, GoodCode
<1> QED BY <1>2, <1>3, <1>4, <1>5, <1>6, <1>7 DEF Growing

LEMMA LiveMoves ==
  ASSUME CInv, Chained, NEW op, NEW act, Moves(op, act), ~Ended(act), NEW new, Writing(new)
  PROVE  \A f : Live(f)' <=> Live(f)
<1>1. Going' <=> Going
  BY MovesGoing
<1>2. Len(comps') = Len(comps) /\ \A k \in 1..Len(comps) : comps'[k].fn = comps[k].fn
  BY DEF Writing
<1> QED BY <1>1, <1>2, LiveKept

LEMMA AddedLonger ==
  ASSUME NEW g, NEW new, NEW bytes, Added(new, g, bytes)
  PROVE  Len(g.code) \in Nat /\ Len(new.code) \in Nat /\ Len(g.code) < Len(new.code)
<1>1. /\ Len(g.code) \in Nat /\ Len(bytes) \in 1..3
      /\ Len(new.code) = Len(g.code) + Len(bytes)
  BY AddedCode
<1>2. \A l \in Nat : \A d \in 1..3 : l + d \in Nat /\ l < l + d
  OBVIOUS
<1> QED BY <1>1, <1>2

LEMMA AppendCovered ==
  ASSUME CInv, CInv', CodeInv, Chained, Chained', ChildrenClosed,
         NEW op, NEW act, Moves(op, act), op # "add_local", Opened(current) = 0, ~Ended(act),
         NEW new, Writing(new), new.arity = fn.arity, Sized(new),
         Len(fn.constants) <= Len(new.constants), Len(fn.nonlocals) <= Len(new.nonlocals),
         new.functions = fn.functions,
         NEW bytes, Added(new, fn, bytes), NEW o, o = OpNames[bytes[1] + 1],
         NEW H, NEW B, Covered(H, B), NEW c, c = comp.fn,
         NEW e, e = H[c][Len(fn.code)], NEW m \in Nat, m >= B[Len(calls)] + Left(act),
         NEW p, p = compiled', Leads(p, new, o, bytes[2], e, m),
         \A f : f # c => Pending(f)' = Pending(f),
         SamePending(fn, Pending(c), Pending(c)'),
         Len(fn.code) \in Pending(c)' <=> o \in Jumps,
         HoldsAt(act, Raised(H[c], Len(new.code), m), new, B[Len(calls)])
  PROVE  \E H2 : Covered(H2, B)'
<1>1. /\ c \in DOMAIN functions /\ fn = functions[c]
      /\ act.comp = Len(comps) /\ comps[act.comp].fn = c /\ current.comp = Len(comps)
      /\ Len(comps) \in Nat \ {0}
      /\ Growing(compiled, fn, H[c], Pending(c)) /\ Live(c)
      /\ Sized(fn) /\ Listed(fn, Pending(c)) /\ Indexed(compiled, fn)
  BY HereFacts
<1>2. PICK g, h, P, Q, q : g = fn /\ h = H[c] /\ P = Pending(c) /\ Q = Pending(c)' /\ q = compiled
  OBVIOUS
<1>3. PICK h2 : h2 = Raised(h, Len(new.code), m)
  OBVIOUS
<1>4. /\ h \in [DOMAIN h -> Nat] /\ Len(g.code) \in DOMAIN h
      /\ DOMAIN h = dump_function(g) \cup {Len(g.code)}
  BY <1>1, <1>2 DEF Growing, Measures
<1>5. RuleAt(p, new, h2, Q, Len(g.code))
  <2>1. PICK a : a = Len(g.code)
    OBVIOUS
  <2>2. /\ Added(new, g, bytes) /\ Listed(g, P) /\ a \in DOMAIN h /\ e = h[a]
        /\ (a \in Q <=> o \in Jumps)
    BY <1>1, <1>2, <1>4, <2>1
  <2>3. RuleAt(p, new, h2, Q, a)
    BY <1>3, <1>4, <2>1, <2>2, AddedRule
  <2> QED BY <2>1, <2>3
<1>6. ClosedKeep
  BY DEF Writing
<1>7. Widens(q, g, p, new)
  <2>1. PICK l \in Nat, l2 \in Nat : l = Len(g.code) /\ l2 = Len(new.code) /\ l <= l2
    BY <1>2, AddedLonger
  <2>2. Len(g.functions) <= Len(new.functions)
    BY <1>1, <1>2 DEF Sized
  <2> QED BY <1>1, <1>2, <1>6, <2>1, <2>2, StepWidens
<1>8. Growing(p, new, h2, Q)
  <2>1. /\ Added(new, g, bytes) /\ Sized(g) /\ Listed(g, P) /\ Indexed(q, g)
        /\ new.arity = g.arity /\ SamePending(g, P, Q)
        /\ Growing(q, g, h, P)
    BY <1>1, <1>2
  <2> QED BY <1>3, <1>5, <1>7, <2>1, AppendedMeasures
<1>9. \A f : Live(f)' <=> Live(f)
  BY LiveMoves
<1>10. Measures(compiled', new, h2, Pending(c)', Live(c)')
  BY <1>1, <1>2, <1>8, <1>9 DEF Growing, Measures
<1>11. PICK l \in Nat, l2 \in Nat : l = Len(g.code) /\ l2 = Len(new.code) /\ l < l2
  BY <1>2, AddedLonger
<1>12. ASSUME NEW a \in dump_function(fn)
       PROVE  h2[a] = H[c][a] /\ OpAt(new, a) = OpAt(fn, a)
  <2>1. a \in 0..(l - 1) /\ OpAt(new, a) = OpAt(fn, a)
    BY <1>1, <1>2, <1>11, AddedSweep
  <2>2. a # l2 /\ a \in DOMAIN h
    BY <1>2, <1>4, <1>11, <2>1
  <2> QED BY <1>2, <1>3, <1>11, <2>1, <2>2 DEF Raised
<1>13. h2[l2] = m
  BY <1>3, <1>11 DEF Raised
<1>14. DOMAIN H = DOMAIN functions
  BY DEF Covered
<1>15. PICK H2 : DOMAIN H2 = DOMAIN H /\ H2[c] = h2 /\ \A f \in DOMAIN H : f # c => H2[f] = H[f]
  <2>1. LET H2 == [H EXCEPT ![c] = h2]
        IN  DOMAIN H2 = DOMAIN H /\ H2[c] = h2 /\ \A f \in DOMAIN H : f # c => H2[f] = H[f]
    BY <1>1, <1>14
  <2> QED BY <2>1
<1>16. functions'[c] = new /\ comps'[act.comp].fn = c
  <2>1. act.comp \in 1..Len(comps)
    BY <1>1
  <2> QED BY <1>1, <2>1 DEF Writing
<1>17. End(H2, act.comp)' = m
  BY <1>11, <1>13, <1>15, <1>16 DEF End
<1>18. HoldsAt(act, H2[comps[act.comp].fn], functions'[comps[act.comp].fn], B[Len(calls)])
  BY <1>1, <1>2, <1>3, <1>15, <1>16
<1>19. \A f : f # c => Pending(f)' = Pending(f) /\ (Live(f)' <=> Live(f))
  BY <1>9
<1>20. ~(act.comp < Len(comps))
  BY <1>1
<1>21. ~Ended(act) => End(H2, act.comp)' >= B[Len(calls)] + Left(act)
  BY <1>17
<1>22. Covered(H2, B)'
  BY SMTT(60), <1>10, <1>12, <1>15, <1>18, <1>19, <1>20, <1>21, WritingCovered
<1> QED BY <1>22

LEMMA WrittenSized ==
  ASSUME CInv, CInv', calls # <<>>, NEW new, Writing(new)
  PROVE  Sized(new)
<1>1. comp.fn \in DOMAIN functions' /\ functions'[comp.fn] = new
  BY CurrentFacts, RecordFacts DEF Writing
<1>2. functions' \in Seq(FunctionOf)
  BY DEF CInv, ScopesInv
<1>3. new \in FunctionOf
  BY <1>1, <1>2
<1>4. /\ new.code \in Seq(Byte) /\ new.constants \in Seq(Value)
      /\ new.nonlocals \in Seq([isLocal : BOOLEAN, index : 0..UINT8_MAX])
      /\ new.functions \in Seq(Nat)
  BY <1>3 DEF FunctionOf, Byte
<1>5. /\ Len(new.code) \in Nat /\ Len(new.constants) \in Nat
      /\ Len(new.nonlocals) \in Nat /\ Len(new.functions) \in Nat
  BY <1>4
<1> QED BY <1>4, <1>5 DEF Sized

(* Nothing changes before what is added.                                   *)
LEMMA RaisedOld ==
  ASSUME NEW p, NEW g, NEW h, NEW P, Growing(p, g, h, P), Listed(g, P),
         NEW new, NEW bytes, Added(new, g, bytes), NEW m, NEW a \in dump_function(g)
  PROVE  Raised(h, Len(new.code), m)[a] = h[a] /\ OpAt(new, a) = OpAt(g, a)
<1>1. PICK l \in Nat, l2 \in Nat : l = Len(g.code) /\ l2 = Len(new.code) /\ l < l2
  BY AddedLonger
<1>2. a \in 0..(l - 1) /\ OpAt(new, a) = OpAt(g, a)
  BY <1>1, AddedSweep
<1>3. a # l2 /\ a \in DOMAIN h
  BY <1>1, <1>2 DEF Growing, Measures
<1> QED BY <1>1, <1>2, <1>3 DEF Raised

(* Emission of anything but the words of jumps.                            *)
LEMMA PlainCovered ==
  ASSUME CInv, CInv', CodeInv, Chained, Chained', ChildrenClosed,
         NEW op, op \in {"emit", "emit_int", "emit_str", "emit_call"},
         NEW act, Moves(op, act), Opened(current) = 0, ~Ended(act),
         UNCHANGED <<emit, comps>>, NEW new, Rewrite(new), Wrote(op, act, new),
         NEW bytes, Added(new, fn, bytes), NEW o, o = OpNames[bytes[1] + 1], o \notin Jumps,
         NEW H, NEW B, Covered(H, B), NEW c, c = comp.fn,
         NEW e, e = H[c][Len(fn.code)], NEW m \in Nat, m >= B[Len(calls)] + Left(act),
         NEW p, p = compiled', Leads(p, new, o, bytes[2], e, m)
  PROVE  \E H2 : Covered(H2, B)'
<1>1. calls # <<>>
  BY MovesShape
<1>2. /\ fn = functions[c] /\ Growing(compiled, fn, H[c], Pending(c))
      /\ Sized(fn) /\ Listed(fn, Pending(c)) /\ comps[current.comp].fn = c
  BY HereFacts DEF Moves
<1>3. /\ new.arity = fn.arity /\ new.nonlocals = fn.nonlocals /\ new.functions = fn.functions
      /\ \/ new.constants = fn.constants
         \/ \E v : new.constants = Append(fn.constants, v)
  BY <1>1, WroteShape
<1>4. Writing(new)
  BY <1>1, <1>3, RewriteWrites
<1>5. Sized(new)
  BY <1>1, <1>4, WrittenSized
<1>6. Len(fn.constants) <= Len(new.constants)
  <2>1. PICK l \in Nat : l = Len(fn.constants)
    BY <1>2 DEF Sized
  <2>2. CASE new.constants = fn.constants
    BY <2>1, <2>2
  <2>3. ASSUME NEW v, new.constants = Append(fn.constants, v)
        PROVE  Len(fn.constants) <= Len(new.constants)
    <3>1. fn.constants \in Seq(Value)
      BY <1>1, CurrentFacts DEF FunctionOf
    <3>2. Len(Append(fn.constants, v)) = l + 1
      <4>1. PICK S : S = Value \cup {v}
        OBVIOUS
      <4>2. fn.constants \in Seq(S) /\ v \in S
        BY <3>1, <4>1, SeqMonotonic
      <4> QED BY <2>1, <4>2, AppendProperties
    <3> QED BY <2>1, <2>3, <3>2
  <2> QED BY <1>3, <2>2, <2>3
<1>7. Len(fn.nonlocals) <= Len(new.nonlocals)
  BY <1>2, <1>3 DEF Sized
<1>8. act.jump = current.jump /\ op # "add_local"
       /\ op \notin {"jump_if_false", "jump_over", "patch_jump"}
  BY DEF Moves
<1>9. \A f : Pending(f)' = Pending(f)
  BY <1>8, PendingMoves
<1>10. SamePending(fn, Pending(c), Pending(c)')
  BY <1>9 DEF SamePending
<1>11. Len(fn.code) \in Pending(c)' <=> o \in Jumps
  <2>1. PICK l \in Nat : l = Len(fn.code)
    BY <1>2 DEF Sized
  <2>2. dump_function(fn) \subseteq 0..(l - 1) /\ Pending(c) \subseteq dump_function(fn)
    BY <1>2, <2>1, ListedSweep
  <2>3. l \notin 0..(l - 1)
    BY <2>1
  <2> QED BY <1>9, <2>1, <2>2, <2>3
<1>12. HoldsAt(act, Raised(H[c], Len(new.code), m), new, B[Len(calls)])
  <2>1. PICK g, h, P, q, h2 : /\ g = fn /\ h = H[c] /\ P = Pending(c) /\ q = compiled
                              /\ h2 = Raised(h, Len(new.code), m)
    OBVIOUS
  <2>2. ASSUME NEW a \in dump_function(g)
        PROVE  h2[a] = h[a] /\ OpAt(new, a) = OpAt(g, a)
    <3>1. Growing(q, g, h, P) /\ Listed(g, P) /\ Added(new, g, bytes)
      BY <1>2, <2>1
    <3> QED BY <2>1, <3>1, RaisedOld
  <2>3. PICK f : f = c
    OBVIOUS
  <2>4. /\ f = comps[current.comp].fn
        /\ Before(functions[f], H[f], new, h2)
    BY <1>2, <2>1, <2>2, <2>3 DEF Before
  <2>5. HoldsAt(act, h2, new, B[Len(calls)])
    BY ONLY CInv, CodeInv, Moves(op, act), Covered(H, B), <1>8, <2>4, HoldsMoves
  <2> QED BY <2>1, <2>5
<1> QED BY <1>3, <1>4, <1>5, <1>6, <1>7, <1>8, <1>9, <1>10, <1>11, <1>12, AppendCovered

(* The instruction that some bytes are.                                    *)
Instruction(bytes, name) ==
  bytes \in Seq(Byte) /\ Len(bytes) = Size(name) /\ OpNames[bytes[1] + 1] = name

LEMMA ShortInstructions ==
  ASSUME NEW name \in Emitted
  PROVE  /\ Size(name) = 1 => Instruction(<<OpCode(name)>>, name)
         /\ \A b \in 0..UINT8_MAX : Size(name) = 2 => Instruction(<<OpCode(name), b>>, name)
<1>1. PICK code \in 0..UINT8_MAX : code = OpCode(name) /\ OpNames[code + 1] = name
  BY EmittedCodes, CodesNamed
<1>2. ASSUME NEW b \in 0..UINT8_MAX
      PROVE  /\ <<code>> \in Seq(Byte) /\ Len(<<code>>) = 1 /\ <<code>>[1] = code
             /\ <<code, b>> \in Seq(Byte) /\ Len(<<code, b>>) = 2 /\ <<code, b>>[1] = code
  BY ByteSeqs DEF Byte
<1>3. 0 \in 0..UINT8_MAX
  BY Bytes
<1> QED BY <1>1, <1>2, <1>3 DEF Instruction

LEMMA IntInstruction ==
  ASSUME NEW data \in Nat, data <= UINT16_MAX
  PROVE  Instruction(<<OpCode("OP_INT")>> \o WordBytes(data), "OP_INT")
<1>1. "OP_INT" \in Emitted /\ Size("OP_INT") = 3
  BY DEF Emitted, Size, WordOps
<1>2. PICK low \in 0..UINT8_MAX, high \in 0..UINT8_MAX : WordBytes(data) = <<low, high>>
  BY WordFits DEF WordBytes
<1>3. PICK code \in 0..UINT8_MAX : code = OpCode("OP_INT") /\ OpNames[code + 1] = "OP_INT"
  BY <1>1, EmittedCodes, CodesNamed
<1>4. PICK one, two : one = <<code>> /\ two = <<low, high>>
  OBVIOUS
<1>5. PICK S : S = 0..UINT8_MAX
  OBVIOUS
<1>6. /\ one \in Seq(S) /\ Len(one) = 1 /\ one[1] = code
      /\ two \in Seq(S) /\ Len(two) = 2
  BY <1>4, <1>5, ByteSeqs
<1>7. /\ one \o two \in Seq(S) /\ Len(one \o two) = Len(one) + Len(two)
      /\ \A i \in 1..(Len(one) + Len(two)) :
           (one \o two)[i] = IF i <= Len(one) THEN one[i] ELSE two[i - Len(one)]
  BY <1>6, ConcatProperties
<1>8. Len(one \o two) = 3 /\ (one \o two)[1] = code
  BY <1>6, <1>7
<1>9. Instruction(one \o two, "OP_INT")
  BY <1>1, <1>3, <1>5, <1>7, <1>8 DEF Instruction, Byte
<1> QED BY <1>2, <1>3, <1>4, <1>9

(* The byte at the end of a function.                                      *)
LEMMA EmitCovered ==
  ASSUME CInv, CInv', CodeInv, Chained, Chained', ChildrenClosed,
         NEW act, Moves("emit", act), Opened(current) = 0, ~Ended(act),
         UNCHANGED <<emit, comps>>, NEW new, Rewrite(new), Wrote("emit", act, new),
         NEW H, NEW B, Covered(H, B)
  PROVE  \E H2 : Covered(H2, B)'
<1>1. Doing("emit") /\ calls # <<>>
  BY MovesShape DEF Moves
<1>2. PICK name : name = Operation
  OBVIOUS
<1>3. name \in Emitted /\ Size(name) = 1 /\ name \notin Jumps
  BY <1>1, <1>2, OperationSize
<1>4. PICK bytes : bytes = <<OpCode(name)>>
  OBVIOUS
<1>5. Instruction(bytes, name)
  BY <1>3, <1>4, ShortInstructions
<1>6. new = WithCode(bytes)
  BY <1>2, <1>4 DEF Wrote
<1>7. fn \in FunctionOf
  BY <1>1, CurrentFacts
<1>8. Added(new, fn, bytes)
  <2>1. new.code = fn.code \o bytes
    BY <1>6, <1>7 DEF WithCode, FunctionOf
  <2>2. fn.code \in Seq(Byte)
    BY <1>7 DEF FunctionOf, Byte
  <2> QED BY <1>5, <2>1, <2>2 DEF Added, Instruction
<1>9. PICK c, e, p, b, l, r : /\ c = comp.fn /\ e = H[c][Len(fn.code)] /\ p = compiled'
                              /\ b = B[Len(calls)] /\ l = Left(current) /\ r = Left(act)
  OBVIOUS
<1>10. b \in Nat /\ l \in Nat /\ e \in Nat /\ e >= b + l
  BY <1>9, HereFacts
<1>11. current.proc # "compile_file"
  BY MovesGoing
<1>12. \E m \in Nat : m >= b + r /\ Leads(p, new, name, bytes[2], e, m)
  <2>1. CASE current.proc \in Unaries /\ name \in {"OP_FIRST", "OP_SECOND", "OP_PRINT"}
    <3>1. l = 1 /\ r = 1
      BY <1>9, <2>1, LeftWrites DEF Emitting
    <3>2. e >= b + r /\ e >= 1 /\ e <= e
      BY <1>10, <3>1
    <3>3. Leads(p, new, name, bytes[2], e, e)
      BY <2>1, <3>2 DEF Leads, Binary
    <3> QED BY <1>10, <3>2, <3>3
  <2>2. CASE current.proc = "compile_bool" /\ name \in {"OP_FALSE", "OP_TRUE"}
    <3>1. l = 0 /\ r = 1
      BY <1>9, <2>2, LeftWrites DEF Emitting
    <3>2. e + 1 \in Nat /\ e + 1 >= b + r /\ e + 1 <= e + 1
      BY <1>10, <3>1
    <3>3. Leads(p, new, name, bytes[2], e, e + 1)
      BY <2>2, <3>2 DEF Leads, Binary
    <3> QED BY <3>2, <3>3
  <2>3. CASE current.proc \in {"compile_tuple", "compile_binary"} /\ name \in Binary
    <3>1. l = 2 /\ r = 1
      BY <1>9, <2>3, LeftWrites DEF Emitting
    <3>2. e - 1 \in Nat /\ e - 1 >= b + r /\ e >= 2 /\ e - 1 <= e - 1
      BY <1>10, <3>1
    <3>3. Leads(p, new, name, bytes[2], e, e - 1)
      BY <2>3, <3>2 DEF Leads, Binary
    <3> QED BY <3>2, <3>3
  <2> QED BY <1>1, <1>2, <1>11, <2>1, <2>2, <2>3, OperationOf
<1>13. PICK m \in Nat : m >= b + r /\ Leads(p, new, name, bytes[2], e, m)
  BY <1>12
<1>14. PICK op : op = "emit"
  OBVIOUS
<1>15. /\ op \in {"emit", "emit_int", "emit_str", "emit_call"}
       /\ Moves(op, act) /\ Wrote(op, act, new)
  BY <1>14
<1>16. name = OpNames[bytes[1] + 1]
  BY <1>5 DEF Instruction
<1> QED BY <1>3, <1>8, <1>9, <1>13, <1>15, <1>16, PlainCovered

(* A number, a constant or a call.                                         *)
LEMMA AddedBy ==
  ASSUME CInv, calls # <<>>, NEW new, NEW bytes, NEW name, Instruction(bytes, name),
         new.code = fn.code \o bytes
  PROVE  Added(new, fn, bytes) /\ name = OpNames[bytes[1] + 1]
<1>1. fn.code \in Seq(Byte)
  BY CurrentFacts DEF FunctionOf, Byte
<1> QED BY <1>1 DEF Added, Instruction

LEMMA PushCovered ==
  ASSUME CInv, CInv', CodeInv, Chained, Chained', ChildrenClosed,
         NEW op \in {"emit_int", "emit_str"}, NEW act, Moves(op, act), Opened(current) = 0,
         UNCHANGED <<emit, comps>>, NEW new, Rewrite(new), Wrote(op, act, new),
         NEW bytes, NEW name \in {"OP_INT", "OP_CONSTANT"}, Instruction(bytes, name),
         new.code = fn.code \o bytes,
         name = "OP_CONSTANT" => bytes[2] < Len(new.constants),
         NEW H, NEW B, Covered(H, B)
  PROVE  \E H2 : Covered(H2, B)'
<1>1. calls # <<>> /\ ~Ended(act)
  BY MovesShape, MovesGoing
<1>2. name \notin Jumps
  BY DEF Jumps
<1>3. Added(new, fn, bytes) /\ name = OpNames[bytes[1] + 1]
  BY <1>1, AddedBy
<1>4. PICK c, e, p, b, l, r : /\ c = comp.fn /\ e = H[c][Len(fn.code)] /\ p = compiled'
                              /\ b = B[Len(calls)] /\ l = Left(current) /\ r = Left(act)
  OBVIOUS
<1>5. b \in Nat /\ l \in Nat /\ e \in Nat /\ e >= b + l
  BY <1>4, HereFacts
<1>6. l = 0 /\ r = 1
  BY <1>4, LeftWrites DEF Emitting
<1>7. PICK m \in Nat : m = e + 1 /\ m >= b + r /\ m <= e + 1
  BY <1>5, <1>6
<1>8. Leads(p, new, name, bytes[2], e, m)
  BY <1>7 DEF Leads, Binary
<1>9. op \in {"emit", "emit_int", "emit_str", "emit_call"}
  OBVIOUS
<1> QED BY ZenonT(60), <1>1, <1>2, <1>3, <1>4, <1>7, <1>8, <1>9, PlainCovered

LEMMA ConstantIs ==
  ASSUME CInv, calls # <<>>, Len(fn.constants) <= UINT8_MAX, NEW v,
         NEW new, new = WithConstant(v)
  PROVE  \E bytes : /\ Instruction(bytes, "OP_CONSTANT") /\ new.code = fn.code \o bytes
                    /\ bytes[2] < Len(new.constants)
<1>1. fn \in FunctionOf
  BY CurrentFacts
<1>2. fn.constants \in Seq(Value)
  BY <1>1 DEF FunctionOf
<1>3. PICK n \in 0..UINT8_MAX : n = Len(fn.constants)
  BY <1>2, Bytes, LenProperties
<1>4. PICK bytes : bytes = <<OpCode("OP_CONSTANT"), n>>
  OBVIOUS
<1>5. "OP_CONSTANT" \in Emitted /\ Size("OP_CONSTANT") = 2
  BY DEF Emitted, Size, WordOps, ByteOps
<1>6. Instruction(bytes, "OP_CONSTANT") /\ bytes[2] = n
  BY <1>4, <1>5, ShortInstructions
<1>7. new.code = fn.code \o bytes /\ new.constants = Append(fn.constants, v)
  BY <1>1, <1>3, <1>4 DEF WithConstant, FunctionOf
<1>8. Len(Append(fn.constants, v)) = n + 1
  <2>1. PICK S : S = Value \cup {v}
    OBVIOUS
  <2>2. fn.constants \in Seq(S) /\ v \in S
    BY <1>2, <2>1, SeqMonotonic
  <2> QED BY <1>3, <2>2, AppendProperties
<1>9. n < n + 1
  BY <1>3, Bytes
<1> QED BY <1>6, <1>7, <1>8, <1>9

LEMMA EmitIntCovered ==
  ASSUME CInv, CInv', CodeInv, Chained, Chained', ChildrenClosed,
         NEW op \in {"emit_int", "emit_str"}, NEW act, Moves(op, act), Opened(current) = 0,
         UNCHANGED <<emit, comps>>, NEW new, Rewrite(new), Wrote(op, act, new),
         NEW H, NEW B, Covered(H, B)
  PROVE  \E H2 : Covered(H2, B)'
<1>1. calls # <<>>
  BY MovesShape
<1>2. PICK data : data = current.token.num
  OBVIOUS
<1>3. CASE data <= UINT16_MAX /\ new = WithCode(<<OpCode("OP_INT")>> \o WordBytes(data))
  <2>1. PICK bytes : bytes = <<OpCode("OP_INT")>> \o WordBytes(data)
    OBVIOUS
  <2>2. data \in Nat
    BY <1>1, <1>2, CurrentFacts DEF ActivationOf, TokenOf
  <2>3. Instruction(bytes, "OP_INT")
    BY <1>3, <2>1, <2>2, IntInstruction
  <2>4. new.code = fn.code \o bytes
    BY <1>1, <1>3, <2>1, CurrentFacts DEF WithCode, FunctionOf
  <2>5. PICK name : name = "OP_INT"
    OBVIOUS
  <2> QED BY <2>3, <2>4, <2>5, PushCovered
<1>4. ASSUME NEW v, Len(fn.constants) <= UINT8_MAX, new = WithConstant(v)
      PROVE  \E H2 : Covered(H2, B)'
  <2>1. PICK bytes : /\ Instruction(bytes, "OP_CONSTANT") /\ new.code = fn.code \o bytes
                     /\ bytes[2] < Len(new.constants)
    BY <1>1, <1>4, ConstantIs
  <2>2. PICK name : name = "OP_CONSTANT"
    OBVIOUS
  <2> QED BY <2>1, <2>2, PushCovered
<1> QED BY <1>2, <1>3, <1>4 DEF Wrote

LEMMA EmitCallCovered ==
  ASSUME CInv, CInv', CodeInv, Chained, Chained', ChildrenClosed,
         NEW op, op = "emit_call", NEW act, Moves(op, act), Opened(current) = 0,
         UNCHANGED <<emit, comps>>, NEW new, Rewrite(new), Wrote(op, act, new),
         NEW H, NEW B, Covered(H, B)
  PROVE  \E H2 : Covered(H2, B)'
<1>1. calls # <<>> /\ ~Ended(act)
  BY MovesShape, MovesGoing
<1>2. PICK name, n : /\ name = IF current.isTail THEN "OP_TAIL_CALL" ELSE "OP_CALL"
                     /\ n = current.count
  OBVIOUS
<1>3. name \in Emitted /\ Size(name) = 2 /\ name \notin Jumps
  BY <1>2 DEF Emitted, Size, WordOps, ByteOps, Jumps
<1>4. n \in 0..UINT8_MAX /\ fn \in FunctionOf /\ n \in Nat
  BY <1>1, <1>2, CurrentFacts, Bytes DEF ActivationOf
<1>5. PICK bytes : bytes = <<OpCode(name), n>>
  OBVIOUS
<1>6. Instruction(bytes, name) /\ bytes[2] = n
  BY <1>3, <1>4, <1>5, ShortInstructions
<1>7. new = WithCode(bytes)
  BY <1>2, <1>5 DEF Wrote
<1>8. new.code = fn.code \o bytes
  BY <1>4, <1>7 DEF WithCode, FunctionOf
<1>9. Added(new, fn, bytes) /\ name = OpNames[bytes[1] + 1]
  BY <1>1, <1>6, <1>8, AddedBy
<1>10. PICK c, e, p, b, l, r : /\ c = comp.fn /\ e = H[c][Len(fn.code)] /\ p = compiled'
                               /\ b = B[Len(calls)] /\ l = Left(current) /\ r = Left(act)
  OBVIOUS
<1>11. b \in Nat /\ l \in Nat /\ e \in Nat /\ e >= b + l
  BY <1>10, HereFacts
<1>12. l = 1 + n /\ r = 1
  BY <1>2, <1>10, LeftWrites DEF Emitting
<1>13. n < e /\ e - n \in Nat /\ e - n >= b + r /\ e - n <= e - n
  BY <1>4, <1>11, <1>12
<1>14. PICK m \in Nat : m >= b + r /\ m <= e - n
  BY <1>13
<1>15. Leads(p, new, name, n, e, m)
  BY <1>2, <1>4, <1>13, <1>14 DEF Leads, Binary
<1>16. op \in {"emit", "emit_int", "emit_str", "emit_call"}
  OBVIOUS
<1> QED BY <1>1, <1>3, <1>6, <1>9, <1>10, <1>14, <1>15, <1>16, PlainCovered

(* The program's OP_RETURN, after which nothing runs.                      *)
LEMMA EndCovered ==
  ASSUME CInv, CInv', CodeInv, Chained, Chained', ChildrenClosed, Rooted,
         NEW op, op = "emit", NEW act, Moves(op, act), Ended(act),
         UNCHANGED <<emit, comps>>, NEW new, Rewrite(new), Wrote(op, act, new),
         NEW H, NEW B, Covered(H, B)
  PROVE  Covered(H, B)'
<1>1. Doing("emit") /\ calls # <<>>
  BY MovesShape DEF Moves
<1>2. /\ current.proc = "compile_file" /\ Len(calls) = 1 /\ ~Going'
  BY MovesGoing
<1>3. Opened(current) = 0
  BY <1>2 DEF Opened
<1>4. PICK c : c = comp.fn
  OBVIOUS
<1>5. /\ c \in DOMAIN functions /\ fn = functions[c]
      /\ act.comp = Len(comps) /\ comps[act.comp].fn = c /\ current.comp = Len(comps)
      /\ Growing(compiled, fn, H[c], Pending(c)) /\ Live(c)
      /\ Sized(fn) /\ Listed(fn, Pending(c)) /\ Indexed(compiled, fn)
  BY <1>3, <1>4, HereFacts
<1>6. Len(comps) = 1
  <2>1. calls[1] = current
    BY <1>1, <1>2, FirstWaits
  <2> QED BY <1>1, <1>5, <2>1 DEF Rooted
<1>7. \A f : ~Live(f)' /\ (f # c => ~Live(f))
  <2>1. Len(comps') = 1 /\ \A k \in 1..1 : ~(k > 1)
    BY <1>6
  <2>2. comps[1].fn = c
    BY <1>5, <1>6
  <2>3. \A f : ~Live(f)'
    BY <1>2, <2>1 DEF Live
  <2>4. \A f : f # c => ~Live(f)
    BY <1>6, <2>1, <2>2 DEF Live
  <2> QED BY <2>3, <2>4
<1>8. PICK name : name = Operation
  OBVIOUS
<1>9. name = "OP_RETURN"
  BY <1>1, <1>2, <1>8, OperationOf DEF Unaries
<1>10. PICK bytes : bytes = <<OpCode(name)>>
  OBVIOUS
<1>11. Instruction(bytes, name)
  BY <1>1, <1>8, <1>10, OperationSize, ShortInstructions
<1>12. fn \in FunctionOf
  BY <1>1, CurrentFacts
<1>13. new.code = fn.code \o bytes
  BY <1>8, <1>10, <1>12 DEF Wrote, WithCode, FunctionOf
<1>14. Added(new, fn, bytes) /\ name = OpNames[bytes[1] + 1]
  BY <1>1, <1>11, <1>13, AddedBy
<1>15. /\ new.arity = fn.arity /\ new.nonlocals = fn.nonlocals /\ new.functions = fn.functions
       /\ new.constants = fn.constants
  BY <1>8, <1>10, <1>12 DEF Wrote, WithCode, FunctionOf
<1>16. Writing(new)
  BY <1>1, <1>15, RewriteWrites
<1>17. Sized(new)
  BY <1>1, <1>16, WrittenSized
<1>18. \A f : Pending(f)' = Pending(f)
  <2>1. act.jump = current.jump
    BY DEF Moves
  <2> QED BY <2>1, PendingMoves
<1>19. PICK g, h, P, p, q : g = fn /\ h = H[c] /\ P = Pending(c) /\ p = compiled /\ q = compiled'
  OBVIOUS
<1>20. Widens(p, g, q, new)
  <2>1. PICK l \in Nat, l2 \in Nat : l = Len(g.code) /\ l2 = Len(new.code) /\ l <= l2
    BY <1>14, <1>19, AddedLonger
  <2>2. /\ Len(g.functions) <= Len(new.functions) /\ Len(g.constants) <= Len(new.constants)
        /\ Len(g.nonlocals) <= Len(new.nonlocals)
    BY <1>5, <1>15, <1>19 DEF Sized
  <2>3. ClosedKeep
    BY <1>16 DEF Writing
  <2> QED BY <1>5, <1>15, <1>19, <2>1, <2>2, <2>3, StepWidens
<1>21. Measures(q, new, h, P, FALSE)
  <2>1. /\ Added(new, g, bytes) /\ Sized(g) /\ Listed(g, P) /\ Indexed(p, g)
        /\ new.arity = g.arity /\ OpNames[bytes[1] + 1] = "OP_RETURN"
        /\ Growing(p, g, h, P)
    BY <1>5, <1>9, <1>14, <1>15, <1>19
  <2> QED BY <1>17, <1>20, <2>1, EndedMeasures
<1>22. Measures(compiled', new, h, Pending(c)', Live(c)')
  BY <1>7, <1>18, <1>19, <1>21 DEF Measures
<1>23. \A a \in dump_function(fn) : h[a] = H[c][a] /\ OpAt(new, a) = OpAt(fn, a)
  BY <1>5, <1>14, <1>19, AddedSweep
<1>24. HoldsAt(act, H[comps[act.comp].fn], functions'[comps[act.comp].fn], B[Len(calls)])
  <2>1. PICK f, h2 : f = c /\ h2 = h
    OBVIOUS
  <2>2. /\ f = comps[current.comp].fn /\ op \notin {"jump_if_false", "jump_over", "patch_jump"}
        /\ Before(functions[f], H[f], new, h2)
    BY <1>5, <1>23, <2>1 DEF Before
  <2>4. HoldsAt(act, h2, new, B[Len(calls)])
    BY <2>2, HoldsMoves
  <2>5. functions'[c] = new
    BY <1>4, <1>16 DEF Writing
  <2> QED BY <1>5, <1>19, <2>1, <2>4, <2>5
<1>25. /\ \A f : f # c => Pending(f)' = Pending(f) /\ (Live(f)' <=> Live(f))
       /\ op # "add_local" /\ ~(act.comp < Len(comps))
       /\ \A f \in DOMAIN H : f # c => H[f] = H[f]
  BY <1>5, <1>6, <1>7, <1>18
<1> QED BY ONLY CInv, CInv', CodeInv, Chained, Chained', ChildrenClosed, Moves(op, act), Ended(act),
        Covered(H, B), <1>4, <1>16, <1>19, <1>22, <1>23, <1>24, <1>25, WritingCovered
-----------------------------------------------------------------------------
(* Jumps.                                                                  *)

LEMMA JumpInstruction ==
  ASSUME NEW name \in Jumps
  PROVE  Instruction(emit_jump(name), name)
<1>1. PICK bytes : bytes = emit_jump(name)
  OBVIOUS
<1>2. OpNames[OpCode(name) + 1] = name /\ Size(name) = 3
  BY EmittedCodes, CodesNamed DEF Jumps, Emitted, Size, WordOps
<1>3. bytes \in Seq(Byte) /\ Len(bytes) = 3 /\ bytes[1] = OpCode(name)
  BY <1>1, JumpBytes DEF Jumps, Byte, emit_jump
<1> QED BY <1>1, <1>2, <1>3 DEF Instruction

(* What is pending as an if goes on, remembering another jump or none.     *)
LEMMA JumpPending ==
  ASSUME CInv, CodeInv, emit, NEW op \in {"jump_if_false", "jump_over", "patch_jump"},
         NEW act, Moves(op, act), UNCHANGED <<emit, comps>>,
         op = "patch_jump" => act.jump = NoJump, NEW c, c = comp.fn
  PROVE  /\ calls # <<>> /\ Opened(current) = 0 /\ ~Ended(act)
         /\ act.pc = CASE op = "jump_if_false" -> 4 [] op = "jump_over" -> 7
                       [] op = "patch_jump" -> 10
         /\ op = "jump_if_false" => current.jump = NoJump
         /\ op # "jump_if_false" => current.jump \in Nat /\ current.jump - 1 \in Pending(c)
         /\ \A f : f # c => Pending(f)' = Pending(f)
         /\ Pending(c)' \subseteq
              Pending(c) \cup (IF act.jump = NoJump THEN {} ELSE {act.jump - 1})
         /\ act.jump # NoJump => act.jump - 1 \in Pending(c)'
         /\ Pending(c) \ (IF current.jump = NoJump THEN {} ELSE {current.jump - 1})
              \subseteq Pending(c)'
<1>1. Doing(op) /\ Become(act) /\ act.proc = current.proc /\ act.comp = current.comp
  BY DEF Moves
<1>2. /\ calls # <<>> /\ current \in ActivationOf /\ current.proc = "compile_if"
      /\ current.pc = CASE op = "jump_if_false" -> 3
                        [] op = "jump_over" -> 6
                        [] op = "patch_jump" -> 9
      /\ op = "jump_if_false" => current.jump = NoJump
      /\ op # "jump_if_false" =>
           current.jump \in Nat /\ current.jump - 1 \in Pending(comp.fn)
  BY <1>1, JumpPlace DEF CodeInv
<1>3. act.pc = current.pc + 1
  BY DEF Moves
<1>4. act.pc = CASE op = "jump_if_false" -> 4 [] op = "jump_over" -> 7
                 [] op = "patch_jump" -> 10
  BY <1>2, <1>3
<1>5. HeldBy(act, emit)
  BY <1>1, <1>2, <1>4 DEF HeldBy
<1>6. PICK next : next = act.jump
  OBVIOUS
<1>7. /\ \A f : f # comp.fn => Pending(f)' = Pending(f)
      /\ \A f : f = comp.fn =>
           /\ Pending(f)' \subseteq Pending(f) \cup (IF next = NoJump THEN {} ELSE {next - 1})
           /\ next # NoJump => next - 1 \in Pending(f)'
           /\ Pending(f) \ (IF current.jump = NoJump THEN {} ELSE {current.jump - 1})
                \subseteq Pending(f)'
  BY <1>1, <1>2, <1>5, <1>6, JumpHeld DEF CodeInv
<1>8. PICK f : f = c
  OBVIOUS
<1>9. /\ Pending(f)' \subseteq Pending(f) \cup (IF next = NoJump THEN {} ELSE {next - 1})
      /\ next # NoJump => next - 1 \in Pending(f)'
      /\ Pending(f) \ (IF current.jump = NoJump THEN {} ELSE {current.jump - 1})
           \subseteq Pending(f)'
  BY <1>7, <1>8
<1>10. Opened(current) = 0 /\ ~Ended(act)
  BY <1>1, <1>2 DEF Opened, Ended
<1> QED BY <1>2, <1>4, <1>6, <1>7, <1>8, <1>9, <1>10

LEMMA jump_if_falseCovered ==
  ASSUME CInv, CInv', CodeInv, Chained, Chained', ChildrenClosed, emit,
         NEW op, op = "jump_if_false", NEW act, Moves(op, act),
         UNCHANGED <<emit, comps>>, NEW new, Rewrite(new), Wrote(op, act, new),
         NEW H, NEW B, Covered(H, B)
  PROVE  \E H2 : Covered(H2, B)'
<1>1. PICK name, bytes : name = "OP_JUMP_IF_FALSE" /\ bytes = emit_jump(name)
  OBVIOUS
<1>2. Instruction(bytes, name) /\ name \in Jumps
  BY <1>1, JumpInstruction DEF Jumps
<1>3. PICK c : c = comp.fn
  OBVIOUS
<1>4. /\ calls # <<>> /\ Opened(current) = 0 /\ ~Ended(act) /\ act.pc = 4
      /\ \A f : f # c => Pending(f)' = Pending(f)
      /\ Pending(c)' \subseteq
           Pending(c) \cup (IF act.jump = NoJump THEN {} ELSE {act.jump - 1})
      /\ act.jump # NoJump => act.jump - 1 \in Pending(c)'
      /\ Pending(c) \ (IF current.jump = NoJump THEN {} ELSE {current.jump - 1})
           \subseteq Pending(c)'
      /\ current.jump = NoJump
  BY <1>3, JumpPending
<1>5. fn \in FunctionOf
  BY <1>4, CurrentFacts
<1>6. /\ new.code = fn.code \o bytes /\ act.jump = Len(fn.code) + 1
      /\ new.arity = fn.arity /\ new.nonlocals = fn.nonlocals /\ new.functions = fn.functions
      /\ new.constants = fn.constants
  BY <1>1, <1>5 DEF Wrote, WithCode, FunctionOf
<1>7. Added(new, fn, bytes) /\ name = OpNames[bytes[1] + 1]
  BY <1>2, <1>4, <1>6, AddedBy
<1>8. Writing(new)
  BY <1>4, <1>6, RewriteWrites
<1>9. Sized(new)
  BY <1>4, <1>8, WrittenSized
<1>10. PICK e, p, b, l, r : /\ e = H[c][Len(fn.code)] /\ p = compiled'
                            /\ b = B[Len(calls)] /\ l = Left(current) /\ r = Left(act)
  OBVIOUS
<1>11. /\ b \in Nat /\ l \in Nat /\ e \in Nat /\ e >= b + l
       /\ Growing(compiled, fn, H[c], Pending(c))
       /\ Sized(fn) /\ Listed(fn, Pending(c)) /\ act.comp = Len(comps) /\ comps[act.comp].fn = c
  BY <1>3, <1>4, <1>10, HereFacts
<1>12. l = 1 /\ r = 0
  BY <1>10, LeftWrites DEF Emitting
<1>13. PICK m \in Nat : m = e - 1 /\ m >= b + r /\ m <= e - 1 /\ e >= 1 /\ e >= b + 1
  BY <1>11, <1>12
<1>14. Leads(p, new, name, bytes[2], e, m)
  BY <1>1, <1>13 DEF Leads, Binary
<1>15. PICK n \in Nat, n2 \in Nat : n = Len(fn.code) /\ n2 = Len(new.code) /\ n < n2
  BY <1>7, AddedLonger
<1>16. act.jump # NoJump /\ act.jump - 1 = n /\ act.jump = n + 1
  BY <1>6, <1>15 DEF NoJump
<1>17. Len(fn.code) \in Pending(c)' <=> name \in Jumps
  BY <1>2, <1>4, <1>15, <1>16
<1>18. SamePending(fn, Pending(c), Pending(c)')
  <2>1. dump_function(fn) \subseteq 0..(n - 1)
    BY <1>11, <1>15, ListedSweep
  <2>2. n \notin dump_function(fn)
    BY <2>1
  <2>3. Pending(c)' \subseteq Pending(c) \cup {n} /\ Pending(c) \subseteq Pending(c)'
    BY <1>4, <1>16
  <2> QED BY <2>2, <2>3 DEF SamePending
<1>19. HoldsAt(act, Raised(H[c], Len(new.code), m), new, B[Len(calls)])
  <2>1. n \in DOMAIN H[c] /\ n # n2
    BY <1>11, <1>15 DEF Growing, Measures
  <2>2. Raised(H[c], Len(new.code), m)[n] = e
    BY <1>10, <1>15, <2>1 DEF Raised
  <2> QED BY <1>4, <1>10, <1>13, <1>16, <2>2 DEF HoldsAt
<1>20. Len(fn.constants) <= Len(new.constants) /\ Len(fn.nonlocals) <= Len(new.nonlocals)
  BY <1>6, <1>11 DEF Sized
<1>21. op # "add_local"
  OBVIOUS
<1> QED BY <1>3, <1>4, <1>6, <1>7, <1>8, <1>9, <1>10, <1>13, <1>14, <1>17, <1>18, <1>19, <1>20,
           <1>21, AppendCovered

(* The code and the certificate of mid begin with those of g.              *)
Continues(g, h, mid, h2) ==
  Before(g, h, mid, h2) /\ \A a \in dump_function(g) : a \in dump_function(mid)

(* The word of a jump is written.  The code is mid before that, and h its  *)
(* certificate.                                                            *)
LEMMA PatchCovered ==
  ASSUME CInv, CInv', CodeInv, Chained, Chained', ChildrenClosed, emit,
         NEW op \in {"jump_over", "patch_jump"}, NEW act, Moves(op, act),
         UNCHANGED <<emit, comps>>, op = "patch_jump" => act.jump = NoJump,
         NEW new, Rewrite(new), NEW mid,
         new.arity = mid.arity, new.nonlocals = mid.nonlocals, new.functions = mid.functions,
         new.constants = mid.constants,
         mid.arity = fn.arity, mid.nonlocals = fn.nonlocals, mid.functions = fn.functions,
         mid.constants = fn.constants, Sized(mid), Len(fn.code) <= Len(mid.code),
         Len(mid.code) <= UINT16_MAX, new.code = patch_jump(mid.code, current.jump),
         NEW H, NEW B, Covered(H, B), NEW c, c = comp.fn,
         NEW P, Listed(mid, P), NEW j \in P, j = current.jump - 1, Settled(P, Pending(c)', j),
         NEW h, NEW p, p = compiled, Growing(p, mid, h, P),
         NEW e, e = h[Len(mid.code)], e >= B[Len(calls)] + Left(act),
         e + (IF OpAt(mid, j) = "OP_JUMP" THEN 0 ELSE 1) <= h[j],
         Continues(fn, H[c], mid, h), HoldsAt(act, h, mid, B[Len(calls)]),
         act.jump # NoJump => act.jump - 1 \in P
  PROVE  \E H2 : Covered(H2, B)'
<1>1. /\ calls # <<>> /\ Opened(current) = 0 /\ ~Ended(act)
      /\ current.jump \in Nat /\ \A f : f # c => Pending(f)' = Pending(f)
  BY JumpPending
<1>2. /\ c \in DOMAIN functions /\ fn = functions[c]
      /\ act.comp = Len(comps) /\ comps[act.comp].fn = c /\ Len(comps) \in Nat \ {0}
      /\ Live(c) /\ Sized(fn) /\ Listed(fn, Pending(c)) /\ Indexed(compiled, fn)
  BY <1>1, HereFacts
<1>3. Writing(new)
  BY <1>1, RewriteWrites
<1>4. Sized(new)
  BY <1>1, <1>3, WrittenSized
<1>5. PICK q, offset, Q : q = compiled' /\ offset = current.jump /\ Q = Pending(c)'
  OBVIOUS
<1>6. offset = j + 1
  BY <1>1, <1>5
<1>7. Len(new.code) = Len(mid.code)
  <2>1. mid.code \in Seq(0..UINT8_MAX)
    BY DEF Sized, Byte
  <2> QED BY <2>1, PatchedCode
<1>8. Widens(p, mid, q, new)
  <2>1. PICK l \in Nat, l2 \in Nat : l = Len(fn.code) /\ l2 = Len(mid.code) /\ l <= l2
    BY <1>2 DEF Sized
  <2>2. /\ Len(fn.constants) <= Len(new.constants) /\ Len(fn.nonlocals) <= Len(new.nonlocals)
        /\ Len(fn.functions) <= Len(new.functions)
    BY <1>2 DEF Sized
  <2>3. ClosedKeep
    BY <1>3 DEF Writing
  <2>4. Widens(compiled, fn, compiled', new)
    BY <1>2, <1>7, <2>1, <2>2, <2>3, StepWidens
  <2> QED BY <1>5, <1>7, <2>1, <2>4 DEF Widens
<1>9. Indexed(p, mid)
  BY <1>2 DEF Indexed
<1>10. /\ Growing(q, new, h, Q)
       /\ \A a \in dump_function(mid) : OpAt(new, a) = OpAt(mid, a)
  <2>1. Settled(P, Q, j) /\ new.code = patch_jump(mid.code, offset)
    BY <1>5
  <2>2. h[Len(mid.code)] + (IF OpAt(mid, j) = "OP_JUMP" THEN 0 ELSE 1) <= h[j]
    OBVIOUS
  <2> QED BY <1>4, <1>6, <1>8, <1>9, <2>1, <2>2, PatchedMeasures
<1>11. \A f : Live(f)' <=> Live(f)
  BY <1>1, <1>3, LiveMoves
<1>12. Measures(compiled', new, h, Pending(c)', Live(c)')
  BY <1>2, <1>5, <1>10, <1>11 DEF Growing, Measures
<1>13. Before(fn, H[c], new, h)
  BY <1>10 DEF Continues, Before
<1>14. HoldsAt(act, h, new, B[Len(calls)])
  <2>1. P \subseteq dump_function(mid)
    BY DEF Listed
  <2> QED BY <1>10, <2>1 DEF HoldsAt
<1>15. DOMAIN H = DOMAIN functions
  BY DEF Covered
<1>16. PICK H2 : DOMAIN H2 = DOMAIN H /\ H2[c] = h /\ \A f \in DOMAIN H : f # c => H2[f] = H[f]
  <2>1. LET H2 == [H EXCEPT ![c] = h]
        IN  DOMAIN H2 = DOMAIN H /\ H2[c] = h /\ \A f \in DOMAIN H : f # c => H2[f] = H[f]
    BY <1>2, <1>15
  <2> QED BY <2>1
<1>17. functions'[c] = new /\ comps'[act.comp].fn = c
  BY <1>2, <1>3 DEF Writing
<1>18. End(H2, act.comp)' = e
  BY <1>7, <1>16, <1>17 DEF End
<1>19. /\ ~Ended(act) => End(H2, act.comp)' >= B[Len(calls)] + Left(act)
       /\ HoldsAt(act, H2[comps[act.comp].fn], functions'[comps[act.comp].fn], B[Len(calls)])
       /\ ~(act.comp < Len(comps)) /\ op # "add_local"
       /\ \A f : f # c => Pending(f)' = Pending(f) /\ (Live(f)' <=> Live(f))
       /\ \A a \in dump_function(fn) : h[a] = H[c][a] /\ OpAt(new, a) = OpAt(fn, a)
  BY <1>1, <1>2, <1>11, <1>13, <1>14, <1>16, <1>17, <1>18 DEF Before
<1>20. Covered(H2, B)'
  BY ONLY CInv, CInv', CodeInv, Chained, Chained', ChildrenClosed, Moves(op, act),
     Covered(H, B), c = comp.fn, <1>3, <1>12, <1>16, <1>19, WritingCovered
<1> QED BY <1>20

(* What the running function remembers.                                    *)
LEMMA HoldsHere ==
  ASSUME CInv, calls # <<>>, NEW H, NEW B, Covered(H, B), NEW c, comps[current.comp].fn = c
  PROVE  HoldsAt(current, H[c], functions[c], B[Len(calls)])
<1>1. PICK n \in Nat \ {0} : n = Len(calls) /\ current = calls[n] /\ DOMAIN calls = 1..n
  <2>1. Len(calls) \in Nat /\ DOMAIN calls = 1..Len(calls) /\ Len(calls) # 0
        /\ current = calls[Len(calls)]
    BY CallsNow
  <2> QED BY Zenon, <2>1
<1>2. n \in 1..n
  OBVIOUS
<1> QED BY <1>1, <1>2 DEF Covered, Holds

LEMMA jump_targetCovered ==
  ASSUME CInv, CInv', CodeInv, Chained, Chained', ChildrenClosed, emit,
         NEW op, op = "patch_jump", NEW act, Moves(op, act),
         UNCHANGED <<emit, comps>>, NEW new, Rewrite(new), Wrote(op, act, new),
         NEW H, NEW B, Covered(H, B)
  PROVE  \E H2 : Covered(H2, B)'
<1>1. PICK c : c = comp.fn
  OBVIOUS
<1>2. act.jump = NoJump
  BY DEF Wrote
<1>3. /\ calls # <<>> /\ Opened(current) = 0 /\ ~Ended(act) /\ act.pc = 10
      /\ current.jump \in Nat /\ current.jump - 1 \in Pending(c)
      /\ Pending(c)' \subseteq Pending(c) \cup (IF act.jump = NoJump THEN {} ELSE {act.jump - 1})
      /\ Pending(c) \ (IF current.jump = NoJump THEN {} ELSE {current.jump - 1})
           \subseteq Pending(c)'
  BY <1>1, <1>2, JumpPending
<1>4. /\ c \in DOMAIN functions /\ fn = functions[c] /\ comps[current.comp].fn = c
      /\ Growing(compiled, fn, H[c], Pending(c)) /\ Indexed(compiled, fn)
      /\ Sized(fn) /\ Listed(fn, Pending(c))
  BY <1>1, <1>3, HereFacts DEF Moves
<1>5. PICK e, b, l, r : /\ e = H[c][Len(fn.code)] /\ b = B[Len(calls)]
                        /\ l = Left(current) /\ r = Left(act)
  OBVIOUS
<1>6. b \in Nat /\ l \in Nat /\ e \in Nat /\ e >= b + l
  BY <1>1, <1>3, <1>5, HereFacts
<1>7. l = 1 /\ r = 1
  BY <1>5, LeftWrites DEF Emitting
<1>8. PICK m \in Nat : m = b + 1 /\ m <= e /\ m >= b + r /\ m + 0 = m
  BY <1>6, <1>7
<1>9. current.proc = "compile_if" /\ current.pc = 9
  <2>1. OpPlaces(current.proc, current.pc, op)
    BY DoingPlace DEF Moves
  <2> QED BY <2>1 DEF OpPlaces
<1>10. PICK j : j = current.jump - 1
  OBVIOUS
<1>11. H[c][j] >= b + 1 /\ OpAt(fn, j) = "OP_JUMP"
  <2>1. HoldsAt(current, H[c], functions[c], B[Len(calls)])
    BY <1>3, <1>4, HoldsHere
  <2>2. current.jump # NoJump
    BY <1>3 DEF NoJump
  <2>3. current.pc >= 7
    BY <1>9
  <2> QED BY <1>4, <1>5, <1>10, <2>1, <2>2, <2>3 DEF HoldsAt
<1>12. PICK n \in Nat : n = Len(fn.code)
  BY <1>4 DEF Sized
<1>13. /\ dump_function(fn) \subseteq 0..(n - 1) /\ Pending(c) \subseteq dump_function(fn)
  BY <1>4, <1>12, ListedSweep
<1>14. j \in Pending(c) /\ j \in 0..(n - 1) /\ n > 0
  BY <1>3, <1>10, <1>13
<1>15. PICK h : h = Raised(H[c], n, m)
  OBVIOUS
<1>16. /\ n \in DOMAIN H[c] /\ h[n] = m
       /\ \A a \in dump_function(fn) : h[a] = H[c][a]
  <2>1. DOMAIN H[c] = dump_function(fn) \cup {n}
    BY <1>4, <1>12 DEF Growing, Measures
  <2>2. \A a \in dump_function(fn) : a # n
    BY <1>13
  <2> QED BY <1>15, <2>1, <2>2 DEF Raised
<1>17. PICK g, k, p, P : g = fn /\ k = H[c] /\ p = compiled /\ P = Pending(c)
  OBVIOUS
<1>18. Growing(p, g, h, P)
  <2>1. /\ Sized(g) /\ Listed(g, P) /\ Indexed(p, g) /\ Len(g.code) > 0 /\ m <= k[Len(g.code)]
        /\ h = Raised(k, Len(g.code), m) /\ Growing(p, g, k, P)
    BY <1>4, <1>5, <1>8, <1>12, <1>14, <1>15, <1>17
  <2> QED BY <2>1, LoweredMeasures
<1>19. Continues(fn, H[c], g, h)
  BY <1>16, <1>17 DEF Continues, Before
<1>20. HoldsAt(act, h, g, B[Len(calls)])
  BY <1>2 DEF HoldsAt
<1>21. Settled(P, Pending(c)', j)
  <2>1. current.jump # NoJump
    BY <1>3 DEF NoJump
  <2> QED BY <1>2, <1>3, <1>10, <1>17, <2>1 DEF Settled
<1>22. fn \in FunctionOf
  BY <1>3, CurrentFacts
<1>23. /\ new.arity = g.arity /\ new.nonlocals = g.nonlocals /\ new.functions = g.functions
       /\ new.constants = g.constants /\ new.code = patch_jump(g.code, current.jump)
       /\ Len(g.code) <= UINT16_MAX
  BY <1>17, <1>22 DEF Wrote, FunctionOf
<1>24. /\ g.arity = fn.arity /\ g.nonlocals = fn.nonlocals /\ g.functions = fn.functions
       /\ g.constants = fn.constants /\ Sized(g) /\ Len(fn.code) <= Len(g.code)
       /\ Listed(g, P) /\ j \in P /\ m = h[Len(g.code)]
       /\ m >= B[Len(calls)] + Left(act)
  BY <1>4, <1>5, <1>8, <1>12, <1>14, <1>16, <1>17
<1>25. m + (IF OpAt(g, j) = "OP_JUMP" THEN 0 ELSE 1) <= h[j]
  <2>1. h[j] = H[c][j] /\ OpAt(g, j) = "OP_JUMP"
    BY <1>11, <1>13, <1>14, <1>16, <1>17
  <2>2. m <= H[c][j]
    BY <1>6, <1>8, <1>11
  <2> QED BY <1>8, <2>1, <2>2
<1>26. /\ op \in {"jump_over", "patch_jump"} /\ (op = "patch_jump" => act.jump = NoJump)
       /\ (act.jump # NoJump => act.jump - 1 \in P)
  BY <1>2
<1> QED BY ONLY CInv, CInv', CodeInv, Chained, Chained', ChildrenClosed, emit, Moves(op, act),
        UNCHANGED <<emit, comps>>, Rewrite(new), Covered(H, B),
        <1>1, <1>10, <1>17, <1>18, <1>19, <1>20, <1>21, <1>23, <1>24, <1>25, <1>26, PatchCovered

LEMMA jump_overCovered ==
  ASSUME CInv, CInv', CodeInv, Chained, Chained', ChildrenClosed, emit,
         NEW op, op = "jump_over", NEW act, Moves(op, act),
         UNCHANGED <<emit, comps>>, NEW new, Rewrite(new), Wrote(op, act, new),
         NEW H, NEW B, Covered(H, B)
  PROVE  \E H2 : Covered(H2, B)'
<1>1. PICK c, name, bytes : c = comp.fn /\ name = "OP_JUMP" /\ bytes = emit_jump(name)
  OBVIOUS
<1>2. Instruction(bytes, name) /\ name \in Jumps
  BY <1>1, JumpInstruction DEF Jumps
<1>3. /\ calls # <<>> /\ Opened(current) = 0 /\ ~Ended(act) /\ act.pc = 7
      /\ current.jump \in Nat /\ current.jump - 1 \in Pending(c)
      /\ Pending(c)' \subseteq Pending(c) \cup (IF act.jump = NoJump THEN {} ELSE {act.jump - 1})
      /\ act.jump # NoJump => act.jump - 1 \in Pending(c)'
      /\ Pending(c) \ (IF current.jump = NoJump THEN {} ELSE {current.jump - 1})
           \subseteq Pending(c)'
  BY <1>1, JumpPending
<1>4. /\ c \in DOMAIN functions /\ fn = functions[c] /\ comps[current.comp].fn = c
      /\ Growing(compiled, fn, H[c], Pending(c)) /\ Indexed(compiled, fn)
      /\ Sized(fn) /\ Listed(fn, Pending(c))
  BY <1>1, <1>3, HereFacts DEF Moves
<1>5. PICK e, b, l, r : /\ e = H[c][Len(fn.code)] /\ b = B[Len(calls)]
                        /\ l = Left(current) /\ r = Left(act)
  OBVIOUS
<1>6. b \in Nat /\ l \in Nat /\ e \in Nat /\ e >= b + l
  BY <1>1, <1>3, <1>5, HereFacts
<1>7. l = 1 /\ r = 0
  BY <1>5, LeftWrites DEF Emitting
<1>8. b >= b + r /\ e >= b + 1
  BY <1>6, <1>7
<1>9. PICK g, k, p, P, j : /\ g = fn /\ k = H[c] /\ p = compiled /\ P = Pending(c)
                           /\ j = current.jump - 1
  OBVIOUS
<1>10. g \in FunctionOf
  BY <1>3, <1>9, CurrentFacts
<1>11. PICK mid : mid = [g EXCEPT !.code = g.code \o bytes]
  OBVIOUS
<1>12. /\ mid.arity = g.arity /\ mid.nonlocals = g.nonlocals /\ mid.functions = g.functions
       /\ mid.constants = g.constants /\ mid.code = g.code \o bytes
  BY <1>10, <1>11 DEF FunctionOf
<1>13. Added(mid, g, bytes) /\ name = OpNames[bytes[1] + 1]
  BY <1>2, <1>3, <1>9, <1>12, AddedBy
<1>14. PICK n \in Nat, n2 \in Nat : n = Len(g.code) /\ n2 = Len(mid.code) /\ n < n2
  BY <1>13, AddedLonger
<1>15. /\ act.jump = n + 1 /\ n2 <= UINT16_MAX
       /\ new.arity = mid.arity /\ new.nonlocals = mid.nonlocals /\ new.functions = mid.functions
       /\ new.constants = mid.constants /\ new.code = patch_jump(mid.code, current.jump)
  BY <1>1, <1>9, <1>10, <1>12, <1>14 DEF Wrote, FunctionOf
<1>16. act.jump # NoJump /\ act.jump - 1 = n /\ current.jump # NoJump
  BY <1>3, <1>14, <1>15 DEF NoJump
<1>17. Sized(mid)
  <2>1. mid.code \in Seq(Byte)
    BY <1>2, <1>4, <1>9, <1>12, ConcatProperties DEF Sized, Instruction
  <2> QED BY <1>4, <1>9, <1>12, <1>14, <2>1 DEF Sized
<1>18. PICK Q : Q = P \cup {n}
  OBVIOUS
<1>19. /\ dump_function(g) \subseteq 0..(n - 1) /\ P \subseteq dump_function(g)
       /\ Listed(g, P) /\ Sized(g) /\ Indexed(p, g) /\ Growing(p, g, k, P)
  BY <1>4, <1>9, <1>14, ListedSweep
<1>20. n \notin dump_function(g) /\ \A a \in dump_function(g) : a # n2
  BY <1>14, <1>19
<1>21. Listed(mid, Q)
  BY <1>2, <1>13, <1>14, <1>18, <1>19, AddedListed
<1>22. PICK h : h = Raised(k, n2, b)
  OBVIOUS
<1>23. /\ k \in [DOMAIN k -> Nat] /\ DOMAIN k = dump_function(g) \cup {n}
  BY <1>14, <1>19 DEF Growing, Measures
<1>24. h[n2] = b /\ h[n] = k[n] /\ \A a \in dump_function(g) : h[a] = k[a]
  BY <1>14, <1>20, <1>22, <1>23 DEF Raised
<1>25. RuleAt(p, mid, h, Q, n)
  <2>1. PICK f : f = k[n]
    OBVIOUS
  <2>2. Leads(p, mid, name, bytes[2], f, b)
    BY <1>1 DEF Leads, Binary
  <2>3. /\ n \in DOMAIN k /\ (n \in Q <=> name \in Jumps) /\ h = Raised(k, Len(mid.code), b)
    BY <1>2, <1>14, <1>18, <1>22, <1>23
  <2> QED BY <1>6, <1>13, <1>14, <1>19, <1>23, <2>1, <2>2, <2>3, AddedRule
<1>26. Growing(p, mid, h, Q)
  <2>1. SamePending(g, P, Q)
    BY <1>18, <1>20 DEF SamePending
  <2>2. Widens(p, g, p, mid)
    BY <1>12, <1>14, <1>17, <1>19 DEF Widens, Sized
  <2>3. h = Raised(k, Len(mid.code), b) /\ RuleAt(p, mid, h, Q, Len(g.code))
    BY <1>14, <1>22, <1>25
  <2>4. /\ Added(mid, g, bytes) /\ Sized(g) /\ Sized(mid) /\ Listed(g, P) /\ Indexed(p, g)
        /\ mid.arity = g.arity /\ Growing(p, g, k, P)
    BY <1>12, <1>13, <1>17, <1>19
  <2>5. PICK m \in Nat : m = b
    BY <1>6
  <2> QED BY ONLY <2>1, <2>2, <2>3, <2>4, <2>5, AppendedMeasures
<1>27. Continues(fn, H[c], mid, h) /\ OpAt(mid, n) = "OP_JUMP"
  <2>1. /\ dump_function(mid) = dump_function(g) \cup {n}
        /\ \A a \in dump_function(g) : OpAt(mid, a) = OpAt(g, a)
        /\ OpAt(mid, n) = "OP_JUMP"
    BY <1>1, <1>13, <1>14, <1>19, AddedSweep
  <2> QED BY <1>9, <1>24, <2>1 DEF Continues, Before
<1>28. HoldsAt(act, h, mid, B[Len(calls)])
  <2>1. h[n] = e
    BY <1>5, <1>9, <1>14, <1>24
  <2> QED BY <1>5, <1>8, <1>16, <1>27, <2>1 DEF HoldsAt
<1>29. j \in P /\ Settled(Q, Pending(c)', j)
  BY <1>3, <1>9, <1>16, <1>18 DEF Settled
<1>30. k[j] >= b + 1
  <2>1. HoldsAt(current, H[c], functions[c], B[Len(calls)])
    BY <1>3, <1>4, HoldsHere
  <2> QED BY <1>5, <1>9, <1>16, <2>1 DEF HoldsAt
<1>31. b + (IF OpAt(mid, j) = "OP_JUMP" THEN 0 ELSE 1) <= h[j]
  <2>1. h[j] = k[j] /\ k[j] \in Nat
    BY <1>19, <1>23, <1>24, <1>29
  <2>2. b + 0 <= h[j] /\ b + 1 <= h[j]
    BY <1>6, <1>30, <2>1
  <2> QED BY <2>2
<1>32. /\ mid.arity = fn.arity /\ mid.nonlocals = fn.nonlocals /\ mid.functions = fn.functions
       /\ mid.constants = fn.constants /\ Len(fn.code) <= Len(mid.code)
       /\ Len(mid.code) <= UINT16_MAX
       /\ j \in Q /\ b = h[Len(mid.code)] /\ b >= B[Len(calls)] + Left(act)
  BY <1>5, <1>8, <1>9, <1>12, <1>14, <1>15, <1>18, <1>24, <1>29
<1>33. /\ op \in {"jump_over", "patch_jump"} /\ (op = "patch_jump" => act.jump = NoJump)
       /\ (act.jump # NoJump => act.jump - 1 \in Q)
  BY <1>16, <1>18
<1> QED BY ONLY CInv, CInv', CodeInv, Chained, Chained', ChildrenClosed, emit, Moves(op, act),
        UNCHANGED <<emit, comps>>, Rewrite(new), Covered(H, B),
        <1>1, <1>9, <1>15, <1>17, <1>21, <1>26, <1>27, <1>28, <1>29, <1>31, <1>32, <1>33,
        PatchCovered

(* Anything that is emitted.                                               *)
LEMMA WriteCovered ==
  ASSUME CInv, CInv', CodeInv, Chained, Chained', ChildrenClosed, Rooted, WriteStep,
         NEW H, NEW B, Covered(H, B)
  PROVE  \E H2 : Covered(H2, B)'
<1>1. PICK op \in Emitting :
        \E act, new : /\ emit /\ Moves(op, act) /\ Rewrite(new) /\ Wrote(op, act, new)
                      /\ UNCHANGED <<emit, comps>>
  BY DEF WriteStep
<1>2. PICK act, new : /\ emit /\ Moves(op, act) /\ Rewrite(new) /\ Wrote(op, act, new)
                      /\ UNCHANGED <<emit, comps>>
  BY <1>1
<1>3. Opened(current) = 0
  <2>1. OpPlaces(current.proc, current.pc, op)
    BY <1>2, DoingPlace DEF Moves
  <2>2. current.proc # "compile_function"
    BY <2>1 DEF OpPlaces, Emitting, Unaries
  <2> QED BY <2>2 DEF Opened
<1>4. CASE op = "emit"
  <2>1. CASE Ended(act)
    BY <1>2, <1>4, <2>1, EndCovered
  <2>2. CASE ~Ended(act)
    BY <1>2, <1>3, <1>4, <2>2, EmitCovered
  <2> QED BY <2>1, <2>2
<1>5. CASE op \in {"emit_int", "emit_str"}
  BY <1>2, <1>3, <1>5, EmitIntCovered
<1>6. CASE op = "emit_call"
  BY <1>2, <1>3, <1>6, EmitCallCovered
<1>7. CASE op = "jump_if_false"
  BY <1>2, <1>7, jump_if_falseCovered
<1>8. CASE op = "jump_over"
  BY <1>2, <1>8, jump_overCovered
<1>9. CASE op = "patch_jump"
  BY <1>2, <1>9, jump_targetCovered
<1> QED BY <1>4, <1>5, <1>6, <1>7, <1>8, <1>9 DEF Emitting
-----------------------------------------------------------------------------
(* Functions.                                                              *)

(* A function that has its parameters begins its code.                     *)
LEMMA ArityCovered ==
  ASSUME CInv, CInv', CodeInv, Chained, Chained', Counting, ChildrenClosed, ArityStep,
         NEW H, NEW B, Covered(H, B)
  PROVE  \E H2 : Covered(H2, B)'
<1>1. PICK op, act, new :
        /\ op = "set_arity" /\ Moves(op, act) /\ Rewrite(new)
        /\ new = [fn EXCEPT !.arity = current.count] /\ UNCHANGED <<emit, comps, strs>>
  <2>1. PICK act : /\ Moves("set_arity", act)
                   /\ Rewrite([fn EXCEPT !.arity = current.count])
                   /\ UNCHANGED <<emit, comps, strs>>
    BY DEF ArityStep
  <2> QED BY <2>1
<1>2. PICK n \in Nat \ {0} : n = Len(calls) /\ current = calls[n] /\ DOMAIN calls = 1..n
                             /\ calls # <<>>
  BY <1>1, MovesShape
<1>3. /\ current.proc = "compile_function" /\ current.pc = 6
  <2>1. OpPlaces(current.proc, current.pc, op)
    BY <1>1, DoingPlace DEF Moves
  <2> QED BY <1>1, <2>1 DEF OpPlaces
<1>4. Opened(current) = 1
  BY <1>3 DEF Opened
<1>5. /\ Len(comps) \in Nat \ {0} /\ comp = comps[Len(comps)] /\ current.comp \in Nat \ {0}
      /\ Len(comps) = current.comp + 1 /\ current \in ActivationOf
  <2>1. /\ Top(current) = current.comp + Opened(current) /\ Len(comps) = Top(current)
        /\ Len(comps) \in Nat \ {0} /\ comp = comps[Len(comps)] /\ current \in ActivationOf
    BY <1>2, CurrentFacts
  <2>2. current.comp \in Nat \ {0}
    BY <2>1 DEF ActivationOf
  <2> QED BY <1>4, <2>1, <2>2
<1>6. PICK c : c = comp.fn
  OBVIOUS
<1>7. /\ c \in DOMAIN functions /\ fn = functions[c] /\ fn \in FunctionOf
  BY <1>2, <1>6, CurrentFacts, RecordFacts
<1>8. fn.code = <<>>
  <2>1. n \in DOMAIN calls
    BY <1>2
  <2>2. CountOK(calls[n], comps[calls[n].comp + 1], functions[comps[calls[n].comp + 1].fn],
                Uncounted(calls, n))
    BY <2>1 DEF Counting
  <2>3. functions[comps[calls[n].comp + 1].fn] = fn
    BY <1>2, <1>5, <1>6, <1>7
  <2> QED BY <1>2, <1>3, <2>2, <2>3 DEF CountOK
<1>9. /\ new.arity = current.count /\ new.nonlocals = fn.nonlocals
      /\ new.functions = fn.functions /\ new.constants = fn.constants /\ new.code = fn.code
  BY <1>1, <1>7 DEF FunctionOf
<1>10. Writing(new)
  BY <1>1, <1>2, <1>9, RewriteWrites
<1>11. Len(fn.code) = 0 /\ Len(new.code) = 0 /\ dump_function(fn) = {} /\ dump_function(new) = {}
  <2>1. Len(fn.code) = 0 /\ Len(new.code) = 0
    BY <1>8, <1>9
  <2>2. \A g : Len(g.code) = 0 => dump_function(g) = {}
    <3>1. ASSUME NEW g, Len(g.code) = 0 PROVE dump_function(g) = {}
      <4>1. dump_function(g) \subseteq 0..(0 - 1)
        BY <3>1, DumpSweeps DEF Sweep
      <4> QED BY <4>1
    <3> QED BY <3>1
  <2> QED BY <2>1, <2>2
<1>12. current.count \in Nat
  BY <1>5 DEF ActivationOf
<1>13. Going /\ ~Ended(act) /\ act.comp = current.comp /\ act.proc = current.proc
  BY <1>1, <1>3, MovesGoing DEF Moves, Ended
<1>14. \A f : Live(f)' <=> Live(f)
  BY <1>1, <1>10, <1>13, LiveMoves
<1>15. Live(c)
  <2>1. PICK k \in 1..Len(comps) : k = Len(comps) /\ c = comps[k].fn
    BY <1>5, <1>6
  <2> QED BY <1>13, <2>1, EndFacts
<1>16. PICK h2 : h2 = [a \in {0} |-> current.count]
  OBVIOUS
<1>17. Measures(compiled', new, h2, Pending(c)', Live(c)')
  BY <1>9, <1>11, <1>12, <1>14, <1>15, <1>16 DEF Measures
<1>18. op \notin {"jump_if_false", "jump_over", "patch_jump", "add_local"}
  BY <1>1
<1>19. \A f : Pending(f)' = Pending(f)
  <2>1. act.jump = current.jump
    BY <1>1, <1>18 DEF Moves
  <2> QED BY <1>1, <2>1, PendingMoves
<1>20. DOMAIN H = DOMAIN functions
  BY DEF Covered
<1>21. PICK H2 : DOMAIN H2 = DOMAIN H /\ H2[c] = h2 /\ \A f \in DOMAIN H : f # c => H2[f] = H[f]
  <2>1. LET H2 == [H EXCEPT ![c] = h2]
        IN  DOMAIN H2 = DOMAIN H /\ H2[c] = h2 /\ \A f \in DOMAIN H : f # c => H2[f] = H[f]
    BY <1>7, <1>20
  <2> QED BY <2>1
<1>22. PICK k \in 1..Len(comps), f \in DOMAIN functions :
         k = act.comp /\ k = current.comp /\ f = comps[k].fn /\ f # c /\ k < Len(comps)
         /\ k \in 1..(Len(comps) - 1)
  <2>1. PICK k \in 1..Len(comps) : k = act.comp /\ k = current.comp /\ k < Len(comps)
    BY <1>5, <1>13
  <2>2. comps[k].fn \in DOMAIN functions /\ comps[k].fn # comps[Len(comps)].fn
    <3>1. Len(comps) \in 1..Len(comps)
      BY <1>5
    <3> QED BY SMTT(60), <2>1, <3>1, RecordFacts
  <2> QED BY <1>5, <1>6, <2>1, <2>2
<1>23. /\ H2[f] = H[f] /\ functions'[f] = functions[f]
       /\ comps' = comps
  <2>1. functions'[f] = functions[f]
    BY <1>1, <1>2, <1>6, <1>22, RewriteShape
  <2> QED BY <1>1, <1>20, <1>21, <1>22, <2>1
<1>24. End(H2, act.comp)' = End(H, act.comp)
  BY <1>22, <1>23 DEF End
<1>25. End(H, act.comp) >= B[Len(calls)] + Left(act)
  <2>1. End(H, current.comp) >= B[Len(calls)] + Left(current)
    BY <1>1, MoveFacts
  <2>2. Left(current) = 0 /\ Left(act) = 0
    BY <1>1, LeftWrites
  <2> QED BY <1>22, <2>1, <2>2
<1>26. HoldsAt(act, H2[comps[act.comp].fn], functions'[comps[act.comp].fn], B[Len(calls)])
  <2>1. Before(functions[f], H[f], functions[f], H[f]) /\ f = comps[current.comp].fn
    BY <1>22 DEF Before
  <2>2. PICK h, g : h = H[f] /\ g = functions[f]
    OBVIOUS
  <2>3. HoldsAt(act, h, g, B[Len(calls)])
    BY <1>1, <1>18, <2>1, <2>2, HoldsMoves
  <2> QED BY <1>22, <1>23, <2>2, <2>3
<1>27. Slots(comps[act.comp]) <= End(H, act.comp) + 1
  BY <1>22 DEF Covered, Outer
<1>28. /\ \A d : d # c => Pending(d)' = Pending(d) /\ (Live(d)' <=> Live(d))
       /\ \A a \in dump_function(fn) : h2[a] = H[c][a] /\ OpAt(new, a) = OpAt(fn, a)
       /\ ~Ended(act) => End(H2, act.comp)' >= B[Len(calls)] + Left(act)
       /\ act.comp < Len(comps) => Slots(comps[act.comp]) <= End(H2, act.comp)' + 1
       /\ op # "add_local"
  BY <1>11, <1>14, <1>18, <1>19, <1>24, <1>25, <1>27
<1>29. Covered(H2, B)'
  BY <1>1, <1>6, <1>10, <1>17, <1>21, <1>26, <1>28, WritingCovered
<1> QED BY <1>29

(* A function that has no code yet.                                        *)
LEMMA NewMeasures ==
  ASSUME NEW p, NEW g, g = NewFunction, NEW h, h = [a \in {0} |-> 0], NEW P, NEW live, live
  PROVE  Measures(p, g, h, P, live)
<1>1. Len(g.code) = 0 /\ g.arity = 0
  BY NewChildless
<1>2. dump_function(g) = {}
  <2>1. dump_function(g) \subseteq 0..(0 - 1)
    BY <1>1, DumpSweeps DEF Sweep
  <2> QED BY <2>1
<1> QED BY <1>1, <1>2 DEF Measures

LEMMA OpenCovered ==
  ASSUME CInv, CInv', CodeInv, Chained, Chained', ChildrenClosed, OpenStep,
         NEW H, NEW B, Covered(H, B)
  PROVE  \E H2 : Covered(H2, B)'
<1>1. PICK op, act :
        /\ op = "open_function" /\ Moves(op, act)
        /\ functions' = Append(functions, NewFunction)
        /\ comps' = Append(comps, compiler_init(Len(functions) + 1))
        /\ UNCHANGED <<emit, strs>>
  <2>1. PICK act : /\ Moves("open_function", act)
                   /\ functions' = Append(functions, NewFunction)
                   /\ comps' = Append(comps, compiler_init(Len(functions) + 1))
                   /\ UNCHANGED <<emit, strs>>
    BY DEF OpenStep
  <2> QED BY <2>1
<1>2. PICK n \in Nat, m \in Nat :
        /\ n = Len(functions) /\ DOMAIN functions = 1..n
        /\ m = Len(comps) /\ DOMAIN comps = 1..m
  BY RecordFacts
<1>3. PICK record : record = compiler_init(n + 1)
  OBVIOUS
<1>4. /\ DOMAIN functions' = 1..(n + 1) /\ functions'[n + 1] = NewFunction
      /\ \A f \in 1..n : functions'[f] = functions[f]
  <2>1. PICK S : S = FunctionOf \cup {NewFunction}
    OBVIOUS
  <2>2. functions \in Seq(S) /\ NewFunction \in S
    BY <2>1, RecordFacts, SeqMonotonic
  <2>3. /\ functions' \in Seq(S) /\ Len(functions') = n + 1
        /\ functions'[n + 1] = NewFunction
        /\ \A f \in 1..n : functions'[f] = functions[f]
    BY <1>1, <1>2, <2>2, AppendProperties
  <2> QED BY <2>3, LenProperties
<1>5. Len(comps') = m + 1 /\ comps'[m + 1] = record /\ \A k \in 1..m : comps'[k] = comps[k]
  <2>1. PICK S : S = CompilerOf \cup {record}
    OBVIOUS
  <2>2. comps \in Seq(S) /\ record \in S
    BY <2>1, RecordFacts, SeqMonotonic
  <2> QED BY <1>1, <1>2, <1>3, <2>2, AppendProperties
<1>6. PICK i \in Nat \ {0} : i = Len(calls) /\ current = calls[i] /\ DOMAIN calls = 1..i
                             /\ calls # <<>>
  BY <1>1, MovesShape
<1>7. /\ current.proc = "compile_function" /\ current.pc = 2
  <2>1. OpPlaces(current.proc, current.pc, op)
    BY <1>1, DoingPlace DEF Moves
  <2> QED BY <1>1, <2>1 DEF OpPlaces
<1>8. Going /\ Going' /\ ~Ended(act) /\ act.comp = current.comp /\ act.proc = current.proc
  BY <1>1, <1>7, MovesGoing DEF Moves, Ended
<1>9. op \notin {"jump_if_false", "jump_over", "patch_jump", "add_local"}
  BY <1>1
<1>10. \A k \in 1..Len(calls) : calls[k].comp \in 1..m
  BY <1>2, <1>6, ActiveRecords
<1>11. \A f : Pending(f)' = Pending(f)
  <2>1. act.jump = current.jump
    BY <1>1, <1>9 DEF Moves
  <2>2. \A k \in 1..Len(calls) : comps'[calls[k].comp].fn = comps[calls[k].comp].fn
    BY <1>5, <1>10
  <2> QED BY <1>1, <2>1, <2>2, PendingMoves
<1>12. record.fn = n + 1
  BY <1>3 DEF compiler_init
<1>13. m + 1 > 1
  <2>1. current.comp \in 1..m
    BY <1>6, <1>10
  <2> QED BY <1>2, <2>1
<1>14. Live(n + 1)'
  <2>1. PICK k \in 1..(m + 1) : k = m + 1
    BY <1>2
  <2>2. k \in 1..Len(comps') /\ comps'[k].fn = n + 1 /\ k > 1
    BY <1>5, <1>12, <1>13, <2>1
  <2> QED BY <2>2 DEF Live
<1>15. \A f \in 1..n : Live(f)' <=> Live(f)
  <2>1. ASSUME NEW f \in 1..n PROVE Live(f)' <=> Live(f)
    <3>1. f # n + 1
      BY <1>2
    <3>2. \A k \in 1..(m + 1) : k = m + 1 \/ k \in 1..m
      BY <1>2, LastOrBefore
    <3>3. \A k \in 1..m : k \in 1..(m + 1)
      BY <1>2
    <3>4. Live(f)' => Live(f)
      BY <1>2, <1>5, <1>8, <1>12, <3>1, <3>2 DEF Live
    <3>5. Live(f) => Live(f)'
      BY <1>2, <1>5, <1>8, <3>3 DEF Live
    <3> QED BY <3>4, <3>5
  <2> QED BY <2>1
<1>16. ClosedKeep
  BY <1>2, <1>4 DEF ClosedKeep
<1>17. PICK H2 : H2 = [f \in 1..(n + 1) |-> IF f = n + 1 THEN [a \in {0} |-> 0] ELSE H[f]]
  OBVIOUS
<1>18. \A f \in 1..n : H2[f] = H[f]
  <2>1. \A f \in 1..n : f # n + 1 /\ f \in 1..(n + 1)
    BY <1>2
  <2> QED BY <1>17, <2>1
<1>19. ASSUME NEW f \in DOMAIN functions'
       PROVE  Measures(compiled', functions'[f], H2[f], Pending(f)', Live(f)')
  <2>1. CASE f = n + 1
    <3>1. functions'[f] = NewFunction /\ H2[f] = [a \in {0} |-> 0] /\ Live(f)'
      BY <1>4, <1>14, <1>17, <1>19, <2>1
    <3>2. PICK p, g, h, P, live : /\ p = compiled' /\ g = functions'[f] /\ h = H2[f]
                                  /\ P = Pending(f)' /\ live = Live(f)'
      OBVIOUS
    <3>3. Measures(p, g, h, P, live)
      BY <3>1, <3>2, NewMeasures
    <3> QED BY <3>2, <3>3
  <2>2. CASE f # n + 1
    <3>1. f \in 1..n
      BY <1>2, <1>4, <1>19, <2>2, LastOrBefore
    <3>2. f \in DOMAIN functions /\ functions'[f] = functions[f]
      BY <1>2, <1>4, <3>1
    <3>3. PICK h : h = H[f]
      OBVIOUS
    <3>4. Measures(compiled, functions[f], h, Pending(f), Live(f))
      BY <3>2, <3>3 DEF Covered
    <3>5. Pending(f)' = Pending(f) /\ (Live(f)' <=> Live(f))
      BY <1>11, <1>15, <3>1
    <3>6. Len(functions[f].nonlocals) <= Len(functions'[f].nonlocals)
      BY <3>2, FunctionSized DEF Sized
    <3>7. /\ functions'[f].code = functions[f].code /\ functions'[f].arity = functions[f].arity
          /\ functions'[f].functions = functions[f].functions
          /\ functions'[f].constants = functions[f].constants
      BY <3>2
    <3>8. Measures(compiled', functions'[f], h, Pending(f)', Live(f)')
      BY <1>16, <1>19, <3>2, <3>4, <3>5, <3>6, <3>7, OthersKept
    <3> QED BY <1>18, <3>1, <3>3, <3>8
  <2> QED BY <2>1, <2>2
<1>20. ASSUME NEW f \in DOMAIN functions, NEW a \in dump_function(functions[f])
       PROVE  H2[f][a] = H[f][a] /\ OpAt(functions'[f], a) = OpAt(functions[f], a)
  BY <1>2, <1>4, <1>18, <1>20
<1>21. ASSUME NEW k \in 1..m
       PROVE  End(H2, k)' = End(H, k)
  <2>1. PICK f \in 1..n : f = comps[k].fn
    BY <1>2, RecordFacts
  <2>2. comps'[k].fn = f /\ functions'[f] = functions[f] /\ H2[f] = H[f]
    BY <1>4, <1>5, <1>18, <2>1
  <2> QED BY <2>1, <2>2 DEF End
<1>22. PICK k \in 1..m, f \in 1..n : k = current.comp /\ f = comps[k].fn
  <2>1. PICK k \in 1..m : k = current.comp
    BY <1>6, <1>10
  <2> QED BY <1>2, <2>1, RecordFacts
<1>23. \A x \in 1..(current.comp - 1) : End(H2, x)' = End(H, x)
  BY <1>2, <1>21, <1>22
<1>24. /\ End(H, k) >= B[Len(calls)] + Left(act) /\ End(H, k) \in Nat /\ B[Len(calls)] \in Nat
       /\ End(H, k) >= B[Len(calls)]
  <2>1. /\ End(H, current.comp) >= B[Len(calls)] + Left(current)
        /\ End(H, current.comp) \in Nat /\ B[Len(calls)] \in Nat
    BY <1>1, MoveFacts
  <2>2. Left(current) = 0 /\ Left(act) = 0
    BY <1>1, LeftWrites
  <2> QED BY <1>22, <2>1, <2>2
<1>25. End(H2, act.comp)' = End(H, k)
  <2>1. act.comp = k
    BY <1>8, <1>22
  <2>2. End(H2, k)' = End(H, k)
    BY <1>21
  <2> QED BY <2>1, <2>2 DEF End
<1>26. HoldsAt(act, H2[comps'[act.comp].fn], functions'[comps'[act.comp].fn], B[Len(calls)])
  <2>1. Before(functions[f], H[f], functions[f], H[f]) /\ f = comps[current.comp].fn
    BY <1>22 DEF Before
  <2>2. PICK h, g : h = H[f] /\ g = functions[f]
    OBVIOUS
  <2>3. HoldsAt(act, h, g, B[Len(calls)])
    BY <1>1, <1>9, <2>1, <2>2, HoldsMoves
  <2>4. comps'[act.comp].fn = f
    BY <1>5, <1>8, <1>22
  <2> QED BY <1>4, <1>18, <1>22, <2>2, <2>3, <2>4
<1>27. Slots(comps[act.comp]) <= End(H2, act.comp)' + 1
  <2>1. PICK s, b, e : s = Slots(comps[k]) /\ b = B[Len(calls)] /\ e = End(H, k)
    OBVIOUS
  <2>2. s \in Nat
    BY <1>2, <2>1, RecordFacts, SlotsOf
  <2>3. FloorOK(calls, i, s, b)
    <3>1. FloorOK(calls, i, Slots(comps[calls[i].comp]), B[i])
      BY <1>6 DEF Covered, Floors
    <3> QED BY <1>6, <1>22, <2>1, <3>1
  <2>4. calls[i].proc \in TermProcs \ {"compile_let"}
    BY <1>6, <1>7 DEF TermProcs, Procs
  <2>5. s <= b + 1
    <3>1. s <= b + (IF InValue(calls, i) THEN 1 ELSE 0)
      BY <2>3, <2>4 DEF FloorOK
    <3>2. b \in Nat
      BY <1>24, <2>1
    <3> QED BY <2>2, <3>1, <3>2
  <2>6. s <= e + 1
    BY <1>24, <2>1, <2>2, <2>5
  <2> QED BY <1>8, <1>22, <1>25, <2>1, <2>6
<1>28. DOMAIN H2 = DOMAIN functions'
  BY <1>4, <1>17
<1>29. \A x \in 1..Len(comps) : x <= Len(comps') =>
         comps'[x].fn = comps[x].fn /\ Slots(comps'[x]) = Slots(comps[x])
  BY <1>2, <1>5
<1>30. /\ ~Ended(act) => End(H2, act.comp)' >= B[Len(calls)] + Left(act)
       /\ act.comp < Len(comps') => Slots(comps[act.comp]) <= End(H2, act.comp)' + 1
       /\ op # "add_local"
  BY <1>9, <1>24, <1>25, <1>27
<1>31. Covered(H2, B)'
  <2>1. Moves(op, act)
    BY <1>1
  <2> QED BY <1>19, <1>20, <1>23, <1>26, <1>28, <1>29, <1>30, <2>1, MoveCovered
<1> QED BY <1>31
-----------------------------------------------------------------------------
(* Variables.                                                              *)

(* What resolve_variable does, r[k] being the variable that record k has   *)
(* for the name in the end.                                                *)
Resolves(d, r, act) ==
  /\ Moves("var", act) /\ UNCHANGED <<emit, strs>>
  /\ Captured(d, r) /\ r[d].name = current.token.text
  /\ \A f \in DOMAIN functions :
       /\ functions'[f].arity = functions[f].arity
       /\ functions'[f].constants = functions[f].constants
       /\ functions'[f].functions = functions[f].functions
       /\ functions'[f].code = IF f = comp.fn THEN functions[f].code \o Load(r[Len(comps)])
                                              ELSE functions[f].code
       /\ (\A k \in (d + 1)..Len(comps) : comps[k].fn # f) =>
            functions'[f].nonlocals = functions[f].nonlocals

LEMMA ResolveShape ==
  ASSUME CInv, CInv', ResolveStep
  PROVE  \E d \in 1..Len(comps) : \E r, act : Resolves(d, r, act)
<1>1. PICK name : name = current.token.text
  OBVIOUS
<1>2. PICK d \in 1..Len(comps) : \E act :
        /\ Moves("var", act)
        /\ Known(comps[d], name) # {}
        /\ \A k \in (d + 1)..Len(comps) : Known(comps[k], name) = {} /\ Fits(comps[k])
        /\ functions' =
             [f \in DOMAIN functions |->
                LET g == Capturing(f, d, name)
                IN IF f # comp.fn THEN g
                   ELSE [g EXCEPT !.code = @ \o Load(Resolved(Len(comps), d, name))]]
        /\ comps' =
             [k \in DOMAIN comps |->
                IF k \notin (d + 1)..Len(comps) THEN comps[k]
                ELSE [comps[k] EXCEPT !.variables = Append(@, Resolved(k, d, name))]]
        /\ UNCHANGED <<emit, strs>>
  BY <1>1 DEF ResolveStep
<1>3. PICK act :
        /\ Moves("var", act)
        /\ Known(comps[d], name) # {}
        /\ \A k \in (d + 1)..Len(comps) : Known(comps[k], name) = {} /\ Fits(comps[k])
        /\ functions' =
             [f \in DOMAIN functions |->
                LET g == Capturing(f, d, name)
                IN IF f # comp.fn THEN g
                   ELSE [g EXCEPT !.code = @ \o Load(Resolved(Len(comps), d, name))]]
        /\ comps' =
             [k \in DOMAIN comps |->
                IF k \notin (d + 1)..Len(comps) THEN comps[k]
                ELSE [comps[k] EXCEPT !.variables = Append(@, Resolved(k, d, name))]]
        /\ UNCHANGED <<emit, strs>>
  BY <1>2
<1>4. PICK n \in Nat, m \in Nat : /\ n = Len(comps) /\ DOMAIN comps = 1..n
                                  /\ m = Len(functions) /\ DOMAIN functions = 1..m
  BY Zenon, RecordFacts
<1>5. calls # <<>> /\ current \in ActivationOf
  BY <1>3, MovesShape, CurrentFacts
<1>6. name \in Texts
  BY <1>1, <1>5 DEF ActivationOf, TokenOf
<1>7. /\ \A k \in (d + 1)..n : Fits(comps[k])
      /\ Known(comps[d], name) # {}
  BY <1>3, <1>4
<1>8. PICK r : r = [k \in d..n |-> Resolved(k, d, name)]
  OBVIOUS
<1>9. \A k \in d..n : r[k] = Resolved(k, d, name)
  BY <1>8
<1>10. d \in d..n /\ n \in d..n /\ d \in 1..n
  BY <1>4
<1>11. ASSUME NEW k \in d..n PROVE k = d \/ k \in (d + 1)..n
  BY <1>4, <1>10
<1>12. ASSUME NEW k \in (d + 1)..n PROVE k \in d..n /\ k - 1 \in d..n /\ k \in 1..n
  BY <1>4, <1>10
<1>13. /\ r[d] \in VariableOf /\ r[d].name = name
       /\ r[d] \in Range_(comps[d].variables)
       /\ \A k \in (d + 1)..n :
            /\ r[k] \in VariableOf /\ r[k].name = name /\ ~r[k].isLocal
            /\ r[k].index = Len(functions[comps[k].fn].nonlocals)
  <2>1. /\ Resolved(d, d, name) \in VariableOf /\ Resolved(d, d, name).name = name
        /\ Resolved(d, d, name) \in Range_(comps[d].variables)
        /\ \A k \in (d + 1)..n :
             /\ Resolved(k, d, name) \in VariableOf
             /\ Resolved(k, d, name).name = name
             /\ ~Resolved(k, d, name).isLocal
             /\ Resolved(k, d, name).index = Len(functions[comps[k].fn].nonlocals)
    BY <1>4, <1>6, <1>7, ResolvedIs
  <2> QED BY <1>9, <1>10, <1>12, <2>1
<1>14. /\ \A k \in 1..d : Capturing(comps[k].fn, d, name) = functions[comps[k].fn]
       /\ \A k \in (d + 1)..n :
            Capturing(comps[k].fn, d, name).nonlocals
              = Append(functions[comps[k].fn].nonlocals,
                       [isLocal |-> Resolved(k - 1, d, name).isLocal,
                        index   |-> Resolved(k - 1, d, name).index])
  BY <1>4, <1>6, <1>7, CapturingIs
<1>15. ASSUME NEW f \in 1..m
       PROVE  /\ functions'[f].arity = functions[f].arity
              /\ functions'[f].constants = functions[f].constants
              /\ functions'[f].functions = functions[f].functions
              /\ functions'[f].code = IF f = comp.fn THEN functions[f].code \o Load(r[n])
                                                     ELSE functions[f].code
              /\ functions'[f].nonlocals = Capturing(f, d, name).nonlocals
              /\ (\A k \in (d + 1)..n : comps[k].fn # f) =>
                   functions'[f].nonlocals = functions[f].nonlocals
  <2>1. PICK g, code : /\ g = Capturing(f, d, name)
                       /\ code = functions[f].code \o Load(Resolved(n, d, name))
    OBVIOUS
  <2>2. /\ g.arity = functions[f].arity /\ g.code = functions[f].code
        /\ g.constants = functions[f].constants /\ g.functions = functions[f].functions
        /\ [g EXCEPT !.code = code].arity = functions[f].arity
        /\ [g EXCEPT !.code = code].code = code
        /\ [g EXCEPT !.code = code].constants = functions[f].constants
        /\ [g EXCEPT !.code = code].functions = functions[f].functions
        /\ [g EXCEPT !.code = code].nonlocals = g.nonlocals
    BY <1>4, <2>1, CaptureFields
  <2>3. functions'[f] = IF f # comp.fn THEN g ELSE [g EXCEPT !.code = code]
    <3>1. functions'[f] = IF f # comp.fn THEN g
                          ELSE [g EXCEPT !.code = g.code \o Load(Resolved(n, d, name))]
      BY <1>3, <1>4, <2>1
    <3>2. g.code \o Load(Resolved(n, d, name)) = code
      BY <2>1, <2>2
    <3> QED BY <3>1, <3>2
  <2>4. Resolved(n, d, name) = r[n]
    BY <1>9, <1>10
  <2>5. (\A k \in (d + 1)..n : comps[k].fn # f) => g = functions[f]
    BY SMTT(60), <1>4, <2>1 DEF Capturing
  <2>6. CASE f = comp.fn
    BY <2>1, <2>2, <2>3, <2>4, <2>5, <2>6
  <2>7. CASE f # comp.fn
    BY <2>1, <2>2, <2>3, <2>5, <2>7
  <2> QED BY <2>6, <2>7
<1>16. \A k \in 1..n : comps[k].fn \in 1..m
  BY <1>4, RecordFacts
<1>17. Captured(d, r)
  <2>1. \A k \in 1..d : functions'[comps[k].fn].nonlocals = functions[comps[k].fn].nonlocals
    <3>1. \A k \in 1..d : k \in 1..n
      BY <1>4, <1>10
    <3> QED BY <1>14, <1>15, <1>16, <3>1
  <2>2. ASSUME NEW k \in (d + 1)..n
        PROVE  functions'[comps[k].fn].nonlocals
                 = Append(functions[comps[k].fn].nonlocals,
                          [isLocal |-> r[k - 1].isLocal, index |-> r[k - 1].index])
    <3>1. k \in 1..n /\ r[k - 1] = Resolved(k - 1, d, name)
      BY <1>9, <1>12
    <3>2. PICK f \in 1..m : f = comps[k].fn
      BY <1>16, <3>1
    <3>3. functions'[f].nonlocals = Capturing(f, d, name).nonlocals
      BY <1>15
    <3>4. PICK v : v = Resolved(k - 1, d, name)
      OBVIOUS
    <3>5. Capturing(f, d, name).nonlocals
            = Append(functions[f].nonlocals, [isLocal |-> v.isLocal, index |-> v.index])
      BY <1>14, <3>2, <3>4
    <3> QED BY <3>1, <3>2, <3>3, <3>4, <3>5
  <2>3. comps' = [k \in DOMAIN comps |->
                    IF k \notin (d + 1)..Len(comps) THEN comps[k]
                    ELSE [comps[k] EXCEPT !.variables = Append(@, r[k])]]
    BY Zenon, <1>3, <1>4, <1>9, <1>12
  <2>4. functions' \in Seq(FunctionOf) /\ Len(functions') = Len(functions)
    <3>1. functions' \in Seq(FunctionOf) /\ Len(functions') \in Nat
          /\ DOMAIN functions' = 1..Len(functions')
      BY LenProperties DEF CInv, ScopesInv
    <3>2. DOMAIN functions' = 1..m
      BY <1>3, <1>4
    <3> QED BY Zenon, <1>4, <3>1, <3>2, Interval
  <2>5. \A k \in d..n : r[k] \in VariableOf /\ r[k].name = r[d].name
    BY <1>11, <1>13
  <2> QED BY <1>4, <1>7, <1>13, <2>1, <2>2, <2>3, <2>4, <2>5 DEF Captured
<1>18. Resolves(d, r, act)
  BY <1>1, <1>3, <1>4, <1>13, <1>15, <1>17 DEF Resolves
<1> QED BY <1>18

(* What resolve_variable writes.                                           *)
LEMMA ResolveWrites ==
  ASSUME CInv, CInv', NEW d \in 1..Len(comps), NEW r, NEW act, Resolves(d, r, act),
         NEW new, new = functions'[comp.fn]
  PROVE  /\ Writing(new)
         /\ new.arity = fn.arity /\ new.constants = fn.constants /\ new.functions = fn.functions
         /\ new.code = fn.code \o Load(r[Len(comps)])
         /\ Len(fn.nonlocals) <= Len(new.nonlocals)
<1>1. PICK n \in Nat, m \in Nat : /\ n = Len(comps) /\ DOMAIN comps = 1..n
                                  /\ m = Len(functions) /\ DOMAIN functions = 1..m
  BY Zenon, RecordFacts
<1>2. calls # <<>>
  BY MovesShape DEF Resolves
<1>3. comp.fn \in 1..m /\ fn = functions[comp.fn]
  BY <1>1, <1>2, CurrentFacts
<1>4. \A k \in 1..n : comps[k].fn \in 1..m /\ comps[k] \in CompilerOf
  BY <1>1, RecordFacts
<1>5. DOMAIN functions' = 1..m
  BY <1>1, LenProperties DEF Resolves, Captured
<1>6. ASSUME NEW k \in 1..n
      PROVE  comps'[k].fn = comps[k].fn /\ Slots(comps'[k]) = Slots(comps[k])
  <2>1. comps[k] \in CompilerOf
    BY <1>4
  <2>2. PICK x, v : x = Append(comps[k].variables, r[k]) /\ v = comps[k]
    OBVIOUS
  <2>3. comps'[k] = v \/ comps'[k] = [v EXCEPT !.variables = x]
    BY <1>1, <2>2 DEF Resolves, Captured
  <2>4. [v EXCEPT !.variables = x].fn = v.fn
        /\ [v EXCEPT !.variables = x].nextIndex = v.nextIndex
    BY <2>1, <2>2 DEF CompilerOf
  <2> QED BY <2>2, <2>3, <2>4 DEF Slots
<1>7. Len(comps') = Len(comps)
  BY ScopesCapture DEF Resolves
<1>8. ASSUME NEW f \in 1..m
      PROVE  Len(functions[f].nonlocals) <= Len(functions'[f].nonlocals)
  <2>1. functions[f] \in FunctionOf
    BY <1>1, FunctionSized
  <2>2. PICK l \in Nat : l = Len(functions[f].nonlocals)
    BY <2>1, LenProperties DEF FunctionOf
  <2>3. ASSUME NEW k \in (d + 1)..n, comps[k].fn = f
        PROVE  Len(functions'[f].nonlocals) = l + 1
    <3>1. PICK x : x = [isLocal |-> r[k - 1].isLocal, index |-> r[k - 1].index]
      OBVIOUS
    <3>2. functions'[f].nonlocals = Append(functions[f].nonlocals, x)
      BY <1>1, <2>3, <3>1 DEF Resolves, Captured
    <3>3. PICK T : T = [isLocal : BOOLEAN, index : 0..UINT8_MAX]
      OBVIOUS
    <3>4. PICK S : S = T \cup {x}
      OBVIOUS
    <3>5. functions[f].nonlocals \in Seq(T)
      BY <2>1, <3>3 DEF FunctionOf
    <3>6. functions[f].nonlocals \in Seq(S) /\ x \in S
      BY <3>4, <3>5, SeqMonotonic
    <3> QED BY <2>2, <3>2, <3>6, AppendProperties
  <2>4. CASE \E k \in (d + 1)..n : comps[k].fn = f
    BY <2>2, <2>3, <2>4
  <2>5. CASE \A k \in (d + 1)..n : comps[k].fn # f
    BY <1>1, <2>2, <2>5 DEF Resolves
  <2> QED BY <2>4, <2>5
<1>9. ASSUME NEW f \in 1..m, f # comp.fn
      PROVE  Stays(f)
  BY <1>1, <1>8, <1>9 DEF Stays, Resolves
<1>10. ClosedKeep
  <2>1. ASSUME NEW f \in 1..m, \A k \in 1..n : comps[k].fn # f
        PROVE  functions'[f].nonlocals = functions[f].nonlocals
    <3>1. \A k \in (d + 1)..n : k \in 1..n
      BY <1>1
    <3> QED BY <1>1, <2>1, <3>1 DEF Resolves
  <2> QED BY <1>1, <2>1 DEF ClosedKeep
<1>11. Writing(new)
  BY <1>1, <1>5, <1>6, <1>7, <1>9, <1>10 DEF Writing
<1> QED BY Zenon, <1>1, <1>3, <1>8, <1>11 DEF Resolves

(* A declared variable has one of the slots that were given away.          *)
LEMMA LocalSlot ==
  ASSUME NEW s \in CompilerOf, SlotsInOrder(s), NEW v \in Range_(s.variables), v.isLocal
  PROVE  /\ v \in VariableOf /\ v.index \in Nat
         /\ Slots(s) \in Nat /\ v.index <= Slots(s)
<1>1. s.variables \in Seq(VariableOf) /\ s.nextIndex \in Nat
  BY Bytes DEF CompilerOf
<1>2. PICK i \in 1..Len(s.variables) : v = s.variables[i]
  BY <1>1, LenProperties DEF Range_
<1>3. v \in VariableOf
  BY <1>1, <1>2, ElementOfSeq
<1>4. v.index \in Nat /\ v.index <= UINT8_MAX /\ Slots(s) \in Nat
  BY <1>3, SlotsOf, Bytes DEF VariableOf
<1>5. CASE s.nextIndex = 0
  BY <1>3, <1>4, <1>5 DEF Slots
<1>6. CASE s.nextIndex # 0
  <2>1. v.index < s.nextIndex
    BY <1>2, <1>6 DEF SlotsInOrder
  <2>2. Slots(s) = s.nextIndex - 1
    BY <1>6 DEF Slots
  <2> QED BY <1>1, <1>3, <1>4, <2>1, <2>2
<1> QED BY <1>5, <1>6

(* A variable is on the stack before it is used.                           *)
LEMMA ResolveLeads ==
  ASSUME CInv, CInv', CodeInv, Chained, ChildrenClosed, ValuesFirst,
         NEW d \in 1..Len(comps), NEW r, NEW act, Resolves(d, r, act),
         NEW H, NEW B, Covered(H, B), NEW e, e = H[comp.fn][Len(fn.code)],
         NEW v, v = r[Len(comps)], NEW new, new = functions'[comp.fn]
  PROVE  /\ v \in VariableOf
         /\ v.isLocal => v.index <= e
         /\ ~v.isLocal => v.index < Len(new.nonlocals)
<1>1. PICK n \in Nat : n = Len(comps) /\ DOMAIN comps = 1..n /\ d \in 1..n
  BY Zenon, RecordFacts
<1>2. Moves("var", act) /\ Doing("var") /\ calls # <<>> /\ current = calls[Len(calls)]
      /\ Len(calls) \in DOMAIN calls
  BY MovesShape DEF Resolves, Moves
<1>3. current.proc = "compile_var" /\ current.pc = 4
  BY <1>2, DoingPlace DEF OpPlaces
<1>4. Opened(current) = 0 /\ ~Ended(act)
  BY <1>2, <1>3, MovesGoing DEF Opened
<1>5. PICK c, b, l, s, slots :
        /\ c = comp.fn /\ b = B[Len(calls)] /\ l = Left(current) /\ s = comps[n]
        /\ slots = Slots(s)
  OBVIOUS
<1>6. /\ comp = s /\ current.comp = n /\ s \in CompilerOf /\ SlotsInOrder(s) /\ n \in 1..n
      /\ c = s.fn /\ fn = functions[c]
  BY <1>1, <1>2, <1>4, <1>5, CurrentFacts, RecordFacts, HereFacts DEF comp
<1>7. b \in Nat /\ l \in Nat /\ e \in Nat /\ e >= b + l
  BY <1>2, <1>4, <1>5, HereFacts
<1>8. l = 0
  BY <1>2, <1>5, LeftWrites
<1>9. v \in VariableOf /\ v.name = current.token.text
  <2>1. n \in d..n
    BY <1>1
  <2> QED BY <1>1, <2>1 DEF Resolves, Captured
<1>10. CASE d = n
  <2>1. v \in Range_(s.variables)
    BY <1>1, <1>5, <1>10 DEF Resolves, Captured
  <2>2. ASSUME v.isLocal PROVE v.index <= e
    <3>1. slots \in Nat /\ v.index \in Nat
      BY <1>5, <1>6, <2>1, <2>2, LocalSlot
    <3>2. v.index <= slots
      BY <1>5, <1>6, <2>1, <2>2, LocalSlot
    <3>3. slots <= b + (IF InValue(calls, Len(calls)) THEN 1 ELSE 0)
      <4>1. FloorOK(calls, Len(calls), slots, b)
        BY <1>2, <1>5, <1>6 DEF Covered, Floors
      <4>2. "compile_var" \in TermProcs \ {"compile_let"}
        BY DEF TermProcs, Procs
      <4> QED BY <1>2, <1>3, <4>1, <4>2 DEF FloorOK
    <3>4. CASE ~InValue(calls, Len(calls))
      BY <1>7, <1>8, <3>1, <3>2, <3>3, <3>4
    <3>5. CASE InValue(calls, Len(calls))
      <4>1. PICK j \in 1..(Len(calls) - 1) :
              calls[j].proc = "compile_let" /\ calls[j].comp = n /\ calls[j].pc = 5
        BY <1>2, <1>6, <3>5 DEF InValue
      <4>2. j \in DOMAIN calls
        <5>1. PICK k \in Nat \ {0} : k = Len(calls) /\ DOMAIN calls = 1..k
          BY <1>2, MovesShape
        <5> QED BY <4>1, <5>1
      <4>3. v.index # slots
        BY <1>1, <1>2, <1>5, <1>6, <1>9, <2>1, <2>2, <4>1, <4>2 DEF ValuesFirst
      <4> QED BY SMTT(60), <1>7, <1>8, <3>1, <3>2, <3>3, <4>3
    <3> QED BY <3>4, <3>5
  <2>3. ASSUME ~v.isLocal PROVE v.index < Len(new.nonlocals)
    <3>1. v.index < Len(functions[s.fn].nonlocals)
      BY SMTT(60), <1>1, <1>5, <1>6, <2>1, <2>3, CaptureFacts
    <3>2. functions'[s.fn].nonlocals = functions[s.fn].nonlocals
      <4>1. n \in 1..d
        BY <1>6, <1>10
      <4> QED BY <1>5, <4>1 DEF Resolves, Captured
    <3> QED BY <1>5, <1>6, <3>1, <3>2
  <2> QED BY SMTT(60), <1>9, <2>2, <2>3
<1>11. CASE d # n
  <2>1. n \in (d + 1)..n
    BY <1>1, <1>11
  <2>2. ~v.isLocal /\ v.index = Len(functions[s.fn].nonlocals)
    BY <1>1, <1>5, <2>1 DEF Resolves, Captured
  <2>3. PICK x : x = [isLocal |-> r[n - 1].isLocal, index |-> r[n - 1].index]
    OBVIOUS
  <2>4. new.nonlocals = Append(functions[s.fn].nonlocals, x)
    BY <1>1, <1>5, <1>6, <2>1, <2>3 DEF Resolves, Captured
  <2>5. functions[s.fn] \in FunctionOf
    BY <1>1, <1>2, <1>6, CurrentFacts
  <2>6. PICK T : T = [isLocal : BOOLEAN, index : 0..UINT8_MAX]
    OBVIOUS
  <2>7. functions[s.fn].nonlocals \in Seq(T \cup {x}) /\ x \in T \cup {x}
    <3>1. functions[s.fn].nonlocals \in Seq(T)
      BY <2>5, <2>6 DEF FunctionOf
    <3> QED BY <3>1, SeqMonotonic
  <2>8. PICK k \in Nat : k = Len(functions[s.fn].nonlocals)
    BY <2>7, LenProperties
  <2>9. Len(new.nonlocals) = k + 1
    BY <2>4, <2>7, <2>8, AppendProperties
  <2> QED BY SMTT(60), <1>9, <2>2, <2>8, <2>9
<1> QED BY <1>10, <1>11

LEMMA ResolveCovered ==
  ASSUME CInv, CInv', CodeInv, Chained, Chained', ChildrenClosed, ValuesFirst, emit,
         ResolveStep, NEW H, NEW B, Covered(H, B)
  PROVE  \E H2 : Covered(H2, B)'
<1>1. PICK d \in 1..Len(comps) : \E r, act : Resolves(d, r, act)
  BY ResolveShape
<1>2. PICK r, act : Resolves(d, r, act)
  BY <1>1
<1>3. PICK op : op = "var"
  OBVIOUS
<1>4. /\ Moves(op, act) /\ Doing(op) /\ calls # <<>>
      /\ op \notin {"add_local", "jump_if_false", "jump_over", "patch_jump"}
  BY <1>2, <1>3, MovesShape DEF Resolves, Moves
<1>5. Opened(current) = 0 /\ ~Ended(act)
  <2>1. current.proc = "compile_var"
    BY <1>3, <1>4, DoingPlace DEF OpPlaces
  <2> QED BY <1>4, <2>1, MovesGoing DEF Opened
<1>6. PICK new, v, c, e, p : /\ new = functions'[comp.fn] /\ v = r[Len(comps)] /\ c = comp.fn
                             /\ e = H[comp.fn][Len(fn.code)] /\ p = compiled'
  OBVIOUS
<1>7. /\ Writing(new)
      /\ new.arity = fn.arity /\ new.constants = fn.constants /\ new.functions = fn.functions
      /\ new.code = fn.code \o Load(v)
      /\ Len(fn.nonlocals) <= Len(new.nonlocals)
  BY <1>2, <1>6, ResolveWrites
<1>8. /\ v \in VariableOf
      /\ v.isLocal => v.index <= e
      /\ ~v.isLocal => v.index < Len(new.nonlocals)
  BY <1>2, <1>6, ResolveLeads
<1>9. PICK name, k : name = (IF v.isLocal THEN "OP_LOCAL" ELSE "OP_NONLOCAL") /\ k = v.index
  OBVIOUS
<1>10. name \in Emitted /\ Size(name) = 2 /\ name \notin Jumps /\ k \in 0..UINT8_MAX
  BY <1>8, <1>9 DEF Emitted, Size, WordOps, ByteOps, Jumps, VariableOf
<1>11. PICK bytes : bytes = <<OpCode(name), k>>
  OBVIOUS
<1>12. Instruction(bytes, name) /\ bytes[2] = k
  BY <1>10, <1>11, ShortInstructions
<1>13. new.code = fn.code \o bytes
  BY <1>7, <1>9, <1>11 DEF Load
<1>14. Added(new, fn, bytes) /\ name = OpNames[bytes[1] + 1]
  BY <1>4, <1>12, <1>13, AddedBy
<1>15. /\ fn = functions[c] /\ Growing(compiled, fn, H[c], Pending(c))
       /\ Sized(fn) /\ Listed(fn, Pending(c)) /\ comps[current.comp].fn = c
       /\ B[Len(calls)] \in Nat /\ Left(current) \in Nat /\ e \in Nat
       /\ e >= B[Len(calls)] + Left(current)
  BY <1>4, <1>5, <1>6, HereFacts
<1>16. Sized(new)
  BY <1>4, <1>7, WrittenSized
<1>17. PICK m \in Nat : m = e + 1 /\ m >= B[Len(calls)] + Left(act) /\ m <= e + 1
  <2>1. PICK b, l, a : b = B[Len(calls)] /\ l = Left(current) /\ a = Left(act)
    OBVIOUS
  <2>2. l = 0 /\ a = 1
    BY <1>3, <1>4, <2>1, LeftWrites
  <2> QED BY <1>15, <2>1, <2>2
<1>18. Leads(p, new, name, k, e, m)
  BY <1>8, <1>9, <1>17 DEF Leads, Binary
<1>19. \A f : Pending(f)' = Pending(f)
  <2>1. act.jump = current.jump
    BY <1>4 DEF Moves
  <2>2. \A i \in 1..Len(calls) : comps'[calls[i].comp].fn = comps[calls[i].comp].fn
    <3>1. ASSUME NEW i \in 1..Len(calls) PROVE calls[i].comp \in 1..Len(comps)
      <4>1. PICK h, z \in Nat : h = calls[i].comp /\ z = current.comp /\ h \in Nat \ {0}
                                /\ h <= z /\ z <= Len(comps)
        BY <1>4, FramesRecords
      <4>2. PICK q \in Nat : q = Len(comps)
        BY Zenon, RecordFacts
      <4> QED BY <4>1, <4>2
    <3> QED BY <1>7, <3>1 DEF Writing
  <2> QED BY <1>4, <2>1, <2>2, PendingMoves
<1>20. SamePending(fn, Pending(c), Pending(c)')
  BY <1>19 DEF SamePending
<1>21. Len(fn.code) \in Pending(c)' <=> name \in Jumps
  <2>1. PICK l \in Nat : l = Len(fn.code)
    BY <1>15 DEF Sized
  <2>2. l \notin Pending(c)
    <3>1. dump_function(fn) \subseteq 0..(l - 1) /\ Pending(c) \subseteq dump_function(fn)
      BY <1>15, <2>1, ListedSweep
    <3> QED BY <2>1, <3>1
  <2> QED BY <1>10, <1>19, <2>1, <2>2
<1>22. HoldsAt(act, Raised(H[c], Len(new.code), m), new, B[Len(calls)])
  <2>1. PICK h2 : h2 = Raised(H[c], Len(new.code), m)
    OBVIOUS
  <2>2. PICK g, h, P, q : /\ g = fn /\ h = H[c] /\ P = Pending(c) /\ q = compiled
                          /\ g = functions[c]
    BY <1>15
  <2>3. Growing(q, g, h, P) /\ Listed(g, P) /\ Added(new, g, bytes)
    BY <1>14, <1>15, <2>2
  <2>4. ASSUME NEW a \in dump_function(g)
        PROVE  h2[a] = h[a] /\ OpAt(new, a) = OpAt(g, a)
    BY ONLY <2>1, <2>2, <2>3, RaisedOld
  <2>5. Before(functions[c], H[c], new, h2)
    BY <2>2, <2>4 DEF Before
  <2> QED BY <1>4, <1>15, <2>1, <2>5, HoldsMoves
<1>23. Len(fn.constants) <= Len(new.constants)
  BY <1>7, <1>16 DEF Sized
<1> QED BY ZenonT(60), <1>4, <1>5, <1>6, <1>7, <1>12, <1>14, <1>16, <1>17, <1>18, <1>19, <1>20, <1>21,
           <1>22, <1>23, AppendCovered
-----------------------------------------------------------------------------
(* What functions capture.                                                 *)
Found(nonlocals, variables) ==
  \A i \in 1..Len(nonlocals) : \E u \in Range_(variables) :
    nonlocals[i] = [isLocal |-> u.isLocal, index |-> u.index]

(* The function of each record captures variables of the record before.    *)
CapturesFound ==
  \A k \in 2..Len(comps) :
    Found(functions[comps[k].fn].nonlocals, comps[k - 1].variables)

LEMMA FoundMore ==
  ASSUME NEW S, NEW s \in Seq(S), NEW vars, NEW vars2, Found(s, vars),
         Range_(vars) \subseteq Range_(vars2), NEW u \in Range_(vars2),
         NEW x, x = [isLocal |-> u.isLocal, index |-> u.index]
  PROVE  Found(Append(s, x), vars2)
<1>1. PICK n \in Nat : n = Len(s)
  BY LenProperties
<1>2. s \in Seq(S \cup {x})
  BY SeqMonotonic
<1>3. PICK t : t = Append(s, x)
  OBVIOUS
<1>4. Len(t) = n + 1 /\ t[n + 1] = x /\ \A i \in 1..n : t[i] = s[i]
  BY <1>1, <1>2, <1>3, AppendProperties
<1>5. ASSUME NEW i \in 1..(n + 1)
      PROVE  \E w \in Range_(vars2) : t[i] = [isLocal |-> w.isLocal, index |-> w.index]
  <2>1. CASE i = n + 1
    BY <1>4, <2>1
  <2>2. CASE i # n + 1
    <3>1. i \in 1..n
      BY <2>2, LastOrBefore
    <3> QED BY ZenonT(60), <1>1, <1>4, <3>1 DEF Found
  <2> QED BY <2>1, <2>2
<1> QED BY <1>3, <1>4, <1>5 DEF Found

LEMMA FoundResolve ==
  ASSUME CInv, CInv', CapturesFound, ResolveStep
  PROVE  CapturesFound'
<1>1. PICK d \in 1..Len(comps) : \E r, act : Resolves(d, r, act)
  BY ResolveShape
<1>2. PICK r, act : Resolves(d, r, act)
  BY <1>1
<1>3. PICK n \in Nat : n = Len(comps) /\ DOMAIN comps = 1..n /\ d \in 1..n
  BY RecordFacts
<1>4. Len(comps') = n
  BY <1>2, <1>3, ScopesCapture DEF Resolves
<1>5. ASSUME NEW k \in 1..n
      PROVE  /\ comps[k] \in CompilerOf /\ comps'[k].fn = comps[k].fn
             /\ functions[comps[k].fn] \in FunctionOf
             /\ comps[k].fn \in DOMAIN functions
             /\ k \in 1..d => comps'[k].variables = comps[k].variables
             /\ k \in (d + 1)..n => /\ comps'[k].variables = Append(comps[k].variables, r[k])
                                    /\ r[k] \in VariableOf
  <2>1. comps[k] \in CompilerOf /\ comps[k].fn \in DOMAIN functions
    BY <1>3, RecordFacts
  <2>2. PICK x, v : x = Append(comps[k].variables, r[k]) /\ v = comps[k]
    OBVIOUS
  <2>3. comps'[k] = IF k \notin (d + 1)..n THEN v ELSE [v EXCEPT !.variables = x]
    BY <1>2, <1>3, <2>2 DEF Resolves, Captured
  <2>4. [v EXCEPT !.variables = x].fn = v.fn
        /\ [v EXCEPT !.variables = x].variables = x
    BY SMTT(60), <2>1, <2>2 DEF CompilerOf
  <2>5. k \in 1..d => k \notin (d + 1)..n
    BY <1>3
  <2>6. k \in (d + 1)..n => r[k] \in VariableOf
    <3>1. k \in (d + 1)..n => k \in d..n
      BY <1>3
    <3> QED BY <1>2, <1>3, <3>1 DEF Resolves, Captured
  <2>7. functions[comps[k].fn] \in FunctionOf
    BY <2>1, FunctionSized
  <2> QED BY <2>1, <2>2, <2>3, <2>4, <2>5, <2>6, <2>7
<1>6. ASSUME NEW k \in (d + 1)..n
      PROVE  GrownBy(comps'[k].variables, comps[k].variables, r[k])
  <2>1. k \in 1..n
    BY <1>3
  <2>2. PICK s, x : s = comps[k].variables /\ x = r[k]
    OBVIOUS
  <2>3. s \in Seq(VariableOf) /\ x \in VariableOf /\ comps'[k].variables = Append(s, x)
    BY <1>5, <2>1, <2>2 DEF CompilerOf
  <2>4. GrownBy(Append(s, x), s, x)
    BY ONLY <2>3, Grown
  <2> QED BY <2>2, <2>3, <2>4
<1>7. ASSUME NEW k \in 1..n
      PROVE  Range_(comps[k].variables) \subseteq Range_(comps'[k].variables)
  <2>1. CASE k \in 1..d
    BY <1>5, <2>1
  <2>2. CASE k \in (d + 1)..n
    BY <1>6, <2>2 DEF GrownBy
  <2> QED BY <1>3, <2>1, <2>2
<1>8. ASSUME NEW k \in d..n
      PROVE  r[k] \in Range_(comps'[k].variables)
  <2>1. CASE k = d
    <3>1. d \in 1..d
      BY <1>3
    <3>2. comps'[d].variables = comps[d].variables
      BY <1>3, <1>5, <3>1
    <3> QED BY <1>2, <2>1, <3>2 DEF Resolves, Captured
  <2>2. CASE k # d
    <3>1. k \in (d + 1)..n
      BY <1>3, <2>2
    <3> QED BY <1>6, <3>1 DEF GrownBy
  <2> QED BY <2>1, <2>2
<1>9. ASSUME NEW k \in 2..n
      PROVE  Found(functions'[comps'[k].fn].nonlocals, comps'[k - 1].variables)
  <2>1. k \in 1..n /\ k - 1 \in 1..n
    BY <1>3
  <2>2. Found(functions[comps[k].fn].nonlocals, comps[k - 1].variables)
    BY <1>3 DEF CapturesFound
  <2>3. Range_(comps[k - 1].variables) \subseteq Range_(comps'[k - 1].variables)
    BY <1>7, <2>1
  <2>4. CASE k \in 1..d
    <3>1. functions'[comps[k].fn].nonlocals = functions[comps[k].fn].nonlocals
      BY <1>2, <2>4 DEF Resolves, Captured
    <3> QED BY ZenonT(60), <1>5, <2>1, <2>2, <2>3, <3>1 DEF Found
  <2>5. CASE k \notin 1..d
    <3>1. k \in (d + 1)..n /\ k - 1 \in d..n
      BY <1>3, <2>5
    <3>2. PICK x : x = [isLocal |-> r[k - 1].isLocal, index |-> r[k - 1].index]
      OBVIOUS
    <3>3. functions'[comps[k].fn].nonlocals = Append(functions[comps[k].fn].nonlocals, x)
      BY <1>2, <1>3, <3>1, <3>2 DEF Resolves, Captured
    <3>4. r[k - 1] \in Range_(comps'[k - 1].variables)
      BY <1>8, <3>1
    <3>5. PICK T : T = [isLocal : BOOLEAN, index : 0..UINT8_MAX]
      OBVIOUS
    <3>6. functions[comps[k].fn].nonlocals \in Seq(T)
      BY <1>5, <2>1, <3>5 DEF FunctionOf
    <3>7. PICK vars, vars2, u, s : /\ vars = comps[k - 1].variables
                                   /\ vars2 = comps'[k - 1].variables
                                   /\ u = r[k - 1] /\ s = functions[comps[k].fn].nonlocals
      OBVIOUS
    <3>8. Found(Append(s, x), vars2)
      BY ONLY <2>2, <2>3, <3>2, <3>4, <3>6, <3>7, FoundMore
    <3> QED BY <1>5, <2>1, <3>3, <3>7, <3>8
  <2> QED BY <2>4, <2>5
<1> QED BY <1>4, <1>9 DEF CapturesFound

(* The other steps that change a record or a function.                     *)
LEMMA FoundOpen ==
  ASSUME CInv, CInv', CapturesFound, OpenStep
  PROVE  CapturesFound'
<1>1. PICK n \in Nat, m \in Nat : /\ n = Len(comps) /\ DOMAIN comps = 1..n
                                  /\ m = Len(functions) /\ DOMAIN functions = 1..m
  BY Zenon, RecordFacts
<1>2. PICK c : c = compiler_init(m + 1)
  OBVIOUS
<1>3. functions' = Append(functions, NewFunction) /\ comps' = Append(comps, c)
      /\ c.fn = m + 1
  BY <1>1, <1>2 DEF OpenStep, compiler_init
<1>4. Len(comps') = n + 1 /\ comps'[n + 1] = c /\ \A k \in 1..n : comps'[k] = comps[k]
  <2>1. comps \in Seq(CompilerOf \cup {c})
    BY RecordFacts, SeqMonotonic
  <2> QED BY <1>1, <1>3, <2>1, AppendProperties
<1>5. functions'[m + 1] = NewFunction /\ \A f \in 1..m : functions'[f] = functions[f]
  <2>1. functions \in Seq(FunctionOf \cup {NewFunction})
    BY RecordFacts, SeqMonotonic
  <2> QED BY <1>1, <1>3, <2>1, AppendProperties
<1>6. ASSUME NEW k \in 2..(n + 1)
      PROVE  Found(functions'[comps'[k].fn].nonlocals, comps'[k - 1].variables)
  <2>1. CASE k = n + 1
    <3>1. comps'[k].fn = m + 1
      BY <1>3, <1>4, <2>1
    <3>2. functions'[comps'[k].fn].nonlocals = <<>>
      BY <1>5, <3>1, NewChildless
    <3>3. \A vars : Found(<<>>, vars)
      BY DEF Found
    <3> QED BY <3>2, <3>3
  <2>2. CASE k # n + 1
    <3>1. k \in 2..n /\ k \in 1..n /\ k - 1 \in 1..n
      BY <2>2
    <3>2. comps[k].fn \in 1..m
      BY <1>1, <3>1, RecordFacts
    <3> QED BY <1>1, <1>4, <1>5, <3>1, <3>2 DEF CapturesFound
  <2> QED BY <2>1, <2>2
<1> QED BY <1>4, <1>6 DEF CapturesFound

LEMMA FoundOther ==
  ASSUME CInv, CInv', CapturesFound, WriteStep \/ ArityStep \/ CloseStep \/ DeclareStep
  PROVE  CapturesFound'
<1>1. PICK n \in Nat, m \in Nat : /\ n = Len(comps) /\ DOMAIN comps = 1..n
                                  /\ m = Len(functions) /\ DOMAIN functions = 1..m
  BY Zenon, RecordFacts
<1>2. calls # <<>>
  BY DEF WriteStep, ArityStep, CloseStep, DeclareStep, Moves, Doing
<1>3. /\ \A k \in 1..n : comps[k].fn \in 1..m /\ comps[k] \in CompilerOf
      /\ \A f \in 1..m : functions[f] \in FunctionOf
      /\ comps \in Seq(CompilerOf)
  BY <1>1, FunctionSized, RecordFacts
<1>4. CASE WriteStep \/ ArityStep
  <2>1. PICK new : Rewrite(new) /\ comps' = comps /\ new.nonlocals = fn.nonlocals
    <3>1. CASE WriteStep
      <4>1. PICK op \in Emitting : \E act, new :
              Rewrite(new) /\ Wrote(op, act, new) /\ comps' = comps
        BY <3>1 DEF WriteStep
      <4>2. PICK act, new : Rewrite(new) /\ Wrote(op, act, new) /\ comps' = comps
        BY <4>1
      <4> QED BY <1>2, <4>2, WroteFields
    <3>2. CASE ArityStep
      <4>1. PICK new : new = [fn EXCEPT !.arity = current.count]
        OBVIOUS
      <4>2. fn \in FunctionOf
        BY <1>2, CurrentFacts
      <4>3. Rewrite(new) /\ comps' = comps
        BY <3>2, <4>1 DEF ArityStep
      <4>4. new.nonlocals = fn.nonlocals
        BY <4>1, <4>2 DEF FunctionOf
      <4> QED BY <4>3, <4>4
    <3> QED BY <1>4, <3>1, <3>2
  <2>2. \A f \in 1..m : functions'[f].nonlocals = functions[f].nonlocals
    BY <1>1, <1>2, <2>1, RewriteShape
  <2>3. \A k \in 2..n : functions'[comps[k].fn].nonlocals = functions[comps[k].fn].nonlocals
    BY <1>3, <2>2
  <2> QED BY <1>1, <2>1, <2>3 DEF CapturesFound
<1>5. CASE CloseStep
  <2>1. /\ Doing("close_function") /\ comps' = SubSeq(comps, 1, n - 1)
        /\ functions' = IF ~emit THEN functions
                        ELSE [functions EXCEPT
                                ![comp.fn].code = Append(@, OpCode("OP_RETURN")),
                                ![comps[current.comp].fn] = WithChild(@, comp.fn)]
    BY <1>1, <1>5 DEF CloseStep, Moves
  <2>2. n >= 2
    BY <1>1, <2>1, ClosePlace
  <2>3. Len(comps') = n - 1 /\ \A k \in 1..(n - 1) : comps'[k] = comps[k]
    BY <1>1, <1>3, <2>1, <2>2, SubSeqProperties
  <2>4. \A f \in 1..m : functions'[f].nonlocals = functions[f].nonlocals
    <3>1. CASE ~emit
      BY <2>1, <3>1
    <3>2. CASE emit
      <4>1. PICK q, r : q = comps[current.comp].fn /\ r = comp.fn
        OBVIOUS
      <4>2. /\ functions'[r] = [functions[r] EXCEPT !.code = Append(@, OpCode("OP_RETURN"))]
            /\ functions'[q] = WithChild(functions[q], r)
            /\ \A f \in DOMAIN functions : f \notin {r, q} => functions'[f] = functions[f]
            /\ q \in 1..m /\ r \in 1..m
        BY <1>1, <2>1, <3>2, <4>1, CloseShape, ClosePlace
      <4>3. functions'[q].nonlocals = functions[q].nonlocals
        <5>1. PICK old \in FunctionOf : old = functions[q]
          BY <1>3, <4>2
        <5>2. WithChild(old, r).nonlocals = old.nonlocals
          BY ChildFields
        <5> QED BY <4>2, <5>1, <5>2
      <4>4. functions'[r].nonlocals = functions[r].nonlocals
        BY <1>3, <4>2 DEF FunctionOf
      <4> QED BY <1>1, <4>2, <4>3, <4>4
    <3> QED BY <3>1, <3>2
  <2>5. ASSUME NEW k \in 2..(n - 1)
        PROVE  Found(functions'[comps'[k].fn].nonlocals, comps'[k - 1].variables)
    <3>1. k \in 2..n /\ k \in 1..n /\ k \in 1..(n - 1) /\ k - 1 \in 1..(n - 1)
      BY <1>1
    <3> QED BY <1>1, <1>3, <2>3, <2>4, <3>1 DEF CapturesFound
  <2> QED BY <2>3, <2>5 DEF CapturesFound
<1>6. CASE DeclareStep
  <2>1. /\ functions' = functions /\ Fits(comp)
        /\ comps' = [comps EXCEPT ![n] = Declared(comp, current.token.text)]
    BY <1>1, <1>6 DEF DeclareStep
  <2>2. n \in 1..n /\ comp = comps[n]
    BY <1>1, <1>2, CurrentFacts
  <2>3. Declared(comp, current.token.text).fn = comp.fn
    BY <1>1, <1>3, <2>1, <2>2, SlotsOf, RecordFacts
  <2>4. \A k \in 1..n : comps'[k].fn = comps[k].fn
    BY <1>1, <2>1, <2>2, <2>3
  <2>5. Len(comps') = n
    <3>1. comps' \in Seq(CompilerOf)
      BY DEF CInv, ScopesInv
    <3>2. PICK l \in Nat : l = Len(comps') /\ DOMAIN comps' = 1..l
      BY <3>1, LenProperties
    <3> QED BY <1>1, <2>1, <3>2, Interval
  <2>6. ASSUME NEW k \in 2..n
        PROVE  Found(functions'[comps'[k].fn].nonlocals, comps'[k - 1].variables)
    <3>1. k \in 1..n /\ k - 1 \in 1..n /\ k - 1 # n
      BY <1>1
    <3>2. comps'[k - 1] = comps[k - 1]
      BY <1>1, <2>1, <3>1
    <3> QED BY <1>1, <2>1, <2>4, <3>1, <3>2 DEF CapturesFound
  <2> QED BY <2>5, <2>6 DEF CapturesFound
<1> QED BY <1>4, <1>5, <1>6

LEMMA FoundKept ==
  ASSUME CInv, CInv', CapturesFound, [Next]_cvars
  PROVE  CapturesFound'
<1>1. CASE UNCHANGED <<comps, functions>>
  BY <1>1 DEF CapturesFound
<1>2. CASE StartStep
  <2>1. Len(comps') = 1
    BY <1>2 DEF StartStep
  <2> QED BY <2>1 DEF CapturesFound
<1>3. Stops \/ return \/ QuietStep \/ IdleStep \/ EnterStep => UNCHANGED <<comps, functions>>
  BY ReturnShape DEF Stops, QuietStep, IdleStep, EnterStep, Enter
<1> QED BY <1>1, <1>2, <1>3, Forms, FoundOpen, FoundOther, FoundResolve
-----------------------------------------------------------------------------
(* Closures.                                                               *)
(* What the function of the last record captures is there when its closure *)
(* is made.                                                                *)
LEMMA ClosureCaptures ==
  ASSUME CInv, CapturesFound, NEW H, Outer(H), NEW n \in Nat, n = Len(comps), n >= 2,
         NEW e \in Nat, e = End(H, n - 1),
         NEW g, Len(g.nonlocals) = Len(functions[comps[n - 1].fn].nonlocals),
         NEW child, child.nonlocals = functions[comps[n].fn].nonlocals
  PROVE  CaptureSafe(g, e + 1, child)
<1>1. PICK k, s : /\ k = n - 1 /\ s = comps[k]
                  /\ k \in 1..(Len(comps) - 1) /\ k \in 1..Len(comps)
  OBVIOUS
<1>2. s \in CompilerOf /\ SlotsInOrder(s)
  BY <1>1, RecordFacts
<1>3. Slots(s) <= e + 1
  BY <1>1 DEF Outer
<1>4. Found(child.nonlocals, s.variables)
  <2>1. n \in 2..Len(comps)
    OBVIOUS
  <2> QED BY <1>1, <2>1 DEF CapturesFound
<1>5. ASSUME NEW i \in 1..Len(child.nonlocals)
      PROVE  IF child.nonlocals[i].isLocal THEN child.nonlocals[i].index <= e + 1
             ELSE child.nonlocals[i].index < Len(g.nonlocals)
  <2>1. PICK u \in Range_(s.variables) :
          child.nonlocals[i] = [isLocal |-> u.isLocal, index |-> u.index]
    BY <1>4 DEF Found
  <2>2. CASE u.isLocal
    <3>1. u.index \in Nat /\ Slots(s) \in Nat /\ u.index <= Slots(s)
      BY <1>2, <2>2, LocalSlot
    <3> QED BY <1>3, <2>1, <2>2, <3>1
  <2>3. CASE ~u.isLocal
    <3>1. u.index < Len(functions[comps[k].fn].nonlocals)
      BY <1>1, <2>3, CaptureFacts
    <3> QED BY <1>1, <2>1, <2>3, <3>1
  <2> QED BY <2>2, <2>3
<1> QED BY <1>5 DEF CaptureSafe

(* The byte that numbers the last child of a function.                     *)
ChildOf(g, parent, r) == g = WithChild(parent, r) /\ Len(g.functions) <= UINT8_MAX + 1

(* These bytes are added, and number it.                                   *)
Numbers(bytes, g, parent, r) ==
  /\ Instruction(bytes, "OP_CLOSURE") /\ g.code = parent.code \o bytes
  /\ bytes[2] < Len(g.functions) /\ g.functions[bytes[2] + 1] = r

LEMMA ChildByte ==
  ASSUME NEW parent, NEW r, parent \in FunctionOf /\ r \in Nat, NEW g, ChildOf(g, parent, r)
  PROVE  \E bytes : Numbers(bytes, g, parent, r)
<1>1. g = WithChild(parent, r) /\ Len(g.functions) <= UINT8_MAX + 1
  BY DEF ChildOf
<1>2. PICK n \in Nat : n = Len(parent.functions)
  BY LenProperties DEF FunctionOf
<1>3. g.functions = Append(parent.functions, r) /\ parent.functions \in Seq(Nat)
  BY <1>1, ChildFields DEF FunctionOf
<1>4. Len(g.functions) = n + 1 /\ g.functions[n + 1] = r
  BY <1>2, <1>3, AppendProperties
<1>5. n \in 0..UINT8_MAX /\ n % (UINT8_MAX + 1) = n
  <2>1. PICK u \in Nat : u = UINT8_MAX /\ n <= u
    BY <1>2, <1>4, <1>1, Bytes
  <2>2. n % (u + 1) = n
    BY <2>1
  <2> QED BY <2>1, <2>2
<1>6. PICK bytes : bytes = <<OpCode("OP_CLOSURE"), n>>
  OBVIOUS
<1>7. "OP_CLOSURE" \in Emitted /\ Size("OP_CLOSURE") = 2
  BY DEF Emitted, Size, WordOps, ByteOps
<1>8. Instruction(bytes, "OP_CLOSURE") /\ bytes[2] = n
  BY <1>5, <1>6, <1>7, ShortInstructions
<1>9. g.code = parent.code \o bytes
  BY <1>2, <1>5, <1>6, <1>1, ChildFields
<1>10. n < n + 1
  OBVIOUS
<1>11. bytes[2] < Len(g.functions) /\ g.functions[bytes[2] + 1] = r
  BY <1>4, <1>8, <1>10
<1> QED BY <1>8, <1>9, <1>11 DEF Numbers

(* What close_function does, r being the function of the last of n records *)
(* and q that of the one before.                                           *)
Closes(n, q, r, act) ==
  /\ Moves("close_function", act) /\ emit
  /\ n \in Nat /\ n >= 2 /\ n = Len(comps) /\ DOMAIN comps = 1..n
  /\ Len(comps') = n - 1 /\ \A k \in 1..(n - 1) : comps'[k] = comps[k]
  /\ q = comps[n - 1].fn /\ r = comps[n].fn /\ q # r
  /\ \A k \in 1..n : comps[k].fn \in DOMAIN functions
  /\ \A k \in 1..(n - 1) : comps[k].fn # r
  /\ \A k \in 1..n : comps[k].fn = q => k = n - 1
  /\ current.comp = n - 1 /\ act.comp = n - 1 /\ Going /\ Going'
  /\ Left(current) = 0 /\ Left(act) = 1 /\ Opened(current) = 1 /\ ~Ended(current)
  /\ DOMAIN functions' = DOMAIN functions
  /\ functions'[r] = [functions[r] EXCEPT !.code = Append(@, OpCode("OP_RETURN"))]
  /\ functions'[q] = WithChild(functions[q], r)
  /\ \A f \in DOMAIN functions : f \notin {r, q} => functions'[f] = functions[f]
  /\ \A f : Pending(f)' = Pending(f)

LEMMA CloseFacts ==
  ASSUME CInv, CInv', Chained, Chained', emit, CloseStep
  PROVE  \E act : Closes(Len(comps), comps[Len(comps) - 1].fn, comps[Len(comps)].fn, act)
<1>1. PICK act :
        /\ Moves("close_function", act)
        /\ functions' = [functions EXCEPT
                           ![comp.fn].code = Append(@, OpCode("OP_RETURN")),
                           ![comps[current.comp].fn] = WithChild(@, comp.fn)]
        /\ comps' = SubSeq(comps, 1, Len(comps) - 1)
  BY DEF CloseStep
<1>2. PICK op : op = "close_function"
  OBVIOUS
<1>3. Moves(op, act) /\ Doing("close_function")
  BY <1>1, <1>2 DEF Moves
<1>4. PICK n \in Nat : /\ n = Len(comps) /\ n >= 2 /\ DOMAIN comps = 1..n
                       /\ comps \in Seq(CompilerOf)
  BY Zenon, <1>3, ClosePlace, RecordFacts
<1>5. PICK q, r : q = comps[n - 1].fn /\ r = comps[n].fn
  OBVIOUS
<1>6. /\ current.comp = n - 1 /\ comp.fn = r /\ comps[current.comp].fn = q
      /\ q # r /\ fn = functions[r] /\ act.comp = n - 1
  BY <1>1, <1>3, <1>4, <1>5, ClosePlace DEF Moves
<1>7. Len(comps') = n - 1 /\ \A k \in 1..(n - 1) : comps'[k] = comps[k]
  BY <1>1, <1>4, SubSeqProperties
<1>8. /\ \A k \in 1..n : comps[k].fn \in DOMAIN functions
      /\ \A k \in 1..n : \A j \in 1..(k - 1) : comps[j].fn # comps[k].fn
  BY <1>4, RecordFacts
<1>9. \A k \in 1..(n - 1) : comps[k].fn # r
  BY <1>4, <1>5, <1>8
<1>10. ASSUME NEW k \in 1..n, comps[k].fn = q PROVE k = n - 1
  <2>1. k = n \/ k = n - 1 \/ k \in 1..((n - 1) - 1)
    BY <1>4
  <2>2. n - 1 \in 1..n
    BY <1>4
  <2> QED BY <1>5, <1>6, <1>8, <1>10, <2>1, <2>2
<1>11. current.proc = "compile_function" /\ current.pc = 10
  BY <1>3, DoingPlace DEF OpPlaces
<1>12. Opened(current) = 1
  BY <1>11 DEF Opened
<1>13. Going /\ Going' /\ ~Ended(current)
  BY <1>2, <1>3, <1>11, MovesGoing
<1>14. Left(current) = 0 /\ Left(act) = 1
  BY <1>2, <1>3, LeftWrites
<1>15. /\ DOMAIN functions' = DOMAIN functions
       /\ functions'[r] = [functions[r] EXCEPT !.code = Append(@, OpCode("OP_RETURN"))]
       /\ functions'[q] = WithChild(functions[q], r)
       /\ \A f \in DOMAIN functions : f \notin {r, q} => functions'[f] = functions[f]
  BY <1>1, <1>3, <1>6, CloseShape
<1>16. \A f : Pending(f)' = Pending(f)
  <2>1. act.jump = current.jump /\ calls # <<>>
    BY <1>2, <1>3, MovesShape DEF Moves
  <2>2. ASSUME NEW i \in 1..Len(calls)
        PROVE  comps'[calls[i].comp].fn = comps[calls[i].comp].fn
    <3>1. PICK h \in Nat \ {0} : h = calls[i].comp /\ h <= n - 1
      BY <1>6, <2>1, FramesRecords
    <3>2. h \in 1..(n - 1)
      BY SMTT(60), <1>4, <3>1
    <3> QED BY <1>7, <3>1, <3>2
  <2> QED BY <1>3, <2>1, <2>2, PendingMoves
<1>17. Closes(n, q, r, act)
  BY <1>1, <1>4, <1>5, <1>6, <1>7, <1>8, <1>9, <1>10, <1>12, <1>13, <1>14, <1>15, <1>16
     DEF Closes
<1> QED BY <1>4, <1>5, <1>17

(* Which functions are live then.                                          *)
LEMMA CloseLive ==
  ASSUME NEW n, NEW q, NEW r, NEW act, Closes(n, q, r, act)
  PROVE  Live(r) /\ ~Live(r)' /\ Live(q) /\ Live(q)'
         /\ \A f : f # r => (Live(f)' <=> Live(f))
<1>1. /\ n \in Nat /\ n >= 2 /\ n = Len(comps)
      /\ Len(comps') = n - 1 /\ (\A k \in 1..(n - 1) : comps'[k] = comps[k])
      /\ q = comps[n - 1].fn /\ r = comps[n].fn
      /\ (\A k \in 1..(n - 1) : comps[k].fn # r) /\ Going /\ Going'
  BY DEF Closes
<1>2. n \in 1..n /\ n - 1 \in 1..n /\ n - 1 \in 1..(n - 1)
  BY <1>1
<1>3. \A f : Live(f) <=> \E k \in 1..n : comps[k].fn = f
  BY <1>1 DEF Live
<1>4. \A f : Live(f)' <=> \E k \in 1..(n - 1) : comps[k].fn = f
  BY <1>1 DEF Live
<1>5. \A k \in 1..n : k = n \/ k \in 1..(n - 1)
  BY <1>1
<1>6. \A k \in 1..(n - 1) : k \in 1..n
  BY <1>1
<1> QED BY <1>1, <1>2, <1>3, <1>4, <1>5, <1>6

LEMMA SizedThen ==
  ASSUME CInv', NEW f \in DOMAIN functions'
  PROVE  Sized(functions'[f])
<1>1. functions' \in Seq(FunctionOf)
  BY DEF CInv, ScopesInv
<1>2. functions'[f] \in FunctionOf
  BY <1>1
<1> QED BY <1>2, LenProperties DEF FunctionOf, Sized, Byte

(* The functions that are not written to, and the one that is closed.      *)
LEMMA CloseKeeps ==
  ASSUME CInv, NEW n, NEW q, NEW r, NEW act, Closes(n, q, r, act)
  PROVE  /\ \A f \in DOMAIN functions :
              /\ functions'[f].nonlocals = functions[f].nonlocals
              /\ functions'[f].arity = functions[f].arity
              /\ functions'[f].constants = functions[f].constants
              /\ f # q => functions'[f].functions = functions[f].functions
              /\ f \notin {q, r} => functions'[f].code = functions[f].code
         /\ functions'[r].code = functions[r].code \o <<OpCode("OP_RETURN")>>
         /\ ClosedKeep
         /\ q \in DOMAIN functions /\ r \in DOMAIN functions /\ r \in Nat
<1>1. /\ n \in Nat /\ n >= 2 /\ q = comps[n - 1].fn /\ r = comps[n].fn /\ q # r
      /\ (\A k \in 1..n : comps[k].fn \in DOMAIN functions)
      /\ functions'[r] = [functions[r] EXCEPT !.code = Append(@, OpCode("OP_RETURN"))]
      /\ functions'[q] = WithChild(functions[q], r)
      /\ \A f \in DOMAIN functions : f \notin {r, q} => functions'[f] = functions[f]
  BY DEF Closes
<1>2. n \in 1..n /\ n - 1 \in 1..n
  BY <1>1
<1>3. q \in DOMAIN functions /\ r \in DOMAIN functions
  BY <1>1, <1>2
<1>4. r \in Nat
  <2>1. DOMAIN functions = 1..Len(functions) /\ Len(functions) \in Nat
    BY RecordFacts
  <2> QED BY <1>3, <2>1
<1>5. PICK old \in FunctionOf, parent \in FunctionOf : old = functions[r] /\ parent = functions[q]
  BY <1>3, FunctionSized
<1>6. PICK code : code = Append(old.code, OpCode("OP_RETURN"))
  OBVIOUS
<1>7. functions'[r] = [old EXCEPT !.code = code]
  BY <1>1, <1>5, <1>6
<1>8. /\ functions'[r].code = code /\ functions'[r].arity = old.arity
      /\ functions'[r].constants = old.constants /\ functions'[r].nonlocals = old.nonlocals
      /\ functions'[r].functions = old.functions
  BY <1>7 DEF FunctionOf
<1>9. /\ WithChild(parent, r).arity = parent.arity
      /\ WithChild(parent, r).nonlocals = parent.nonlocals
      /\ WithChild(parent, r).constants = parent.constants
  BY ChildFields
<1>10. code = old.code \o <<OpCode("OP_RETURN")>>
  <2>1. PICK x : x = OpCode("OP_RETURN")
    OBVIOUS
  <2>2. PICK T : T = 0..UINT8_MAX
    OBVIOUS
  <2>3. old.code \in Seq(T)
    BY <2>2 DEF FunctionOf
  <2>4. old.code \in Seq(T \cup {x}) /\ x \in T \cup {x}
    BY <2>3, SeqMonotonic
  <2>5. Append(old.code, x) = old.code \o <<x>>
    BY ONLY <2>4, AppendIsConcat
  <2> QED BY <1>6, <2>1, <2>5
<1>11. \A f \in DOMAIN functions :
         /\ functions'[f].nonlocals = functions[f].nonlocals
         /\ functions'[f].arity = functions[f].arity
         /\ functions'[f].constants = functions[f].constants
         /\ f # q => functions'[f].functions = functions[f].functions
         /\ f \notin {q, r} => functions'[f].code = functions[f].code
  BY ZenonT(60), <1>1, <1>5, <1>8, <1>9
<1> QED BY <1>3, <1>4, <1>5, <1>8, <1>10, <1>11 DEF ClosedKeep

(* The function that is closed.                                            *)
LEMMA CloseChild ==
  ASSUME CInv, CInv', CodeInv, ChildrenClosed,
         NEW n, NEW q, NEW r, NEW act, Closes(n, q, r, act), NEW H, NEW B, Covered(H, B)
  PROVE  Measures(compiled', functions'[r], H[r], Pending(r)', Live(r)')
<1>1. /\ Live(r) /\ ~Live(r)' /\ Pending(r)' = Pending(r) /\ q # r
      /\ DOMAIN functions' = DOMAIN functions
  <2>1. Live(r) /\ ~Live(r)'
    BY CloseLive
  <2> QED BY <2>1 DEF Closes
<1>2. PICK g, new, h, P, p, p2, bytes :
        /\ g = functions[r] /\ new = functions'[r] /\ h = H[r] /\ P = Pending(r)
        /\ p = compiled /\ p2 = compiled' /\ bytes = <<OpCode("OP_RETURN")>>
  OBVIOUS
<1>3. /\ r \in DOMAIN functions /\ ClosedKeep /\ new.code = g.code \o bytes
      /\ new.arity = g.arity /\ new.constants = g.constants /\ new.nonlocals = g.nonlocals
      /\ new.functions = g.functions
  BY <1>1, <1>2, CloseKeeps
<1>4. Sized(g) /\ Sized(new) /\ Indexed(p, g)
  BY <1>1, <1>2, <1>3, FunctionSized, SizedThen, FunctionIndexed
<1>5. Listed(g, P)
  BY <1>2, <1>3 DEF CodeInv, GoodCode
<1>6. Instruction(bytes, "OP_RETURN")
  <2>1. "OP_RETURN" \in Emitted /\ Size("OP_RETURN") = 1
    BY DEF Emitted, Size, WordOps, ByteOps
  <2> QED BY <1>2, <2>1, ShortInstructions
<1>7. Added(new, g, bytes) /\ OpNames[bytes[1] + 1] = "OP_RETURN"
  <2>1. g.code \in Seq(Byte)
    BY <1>4 DEF Sized
  <2> QED BY <1>3, <1>6, <2>1 DEF Added, Instruction
<1>8. Len(g.code) <= Len(new.code)
  BY <1>7, AddedLonger
<1>9. Widens(p, g, p2, new)
  <2>1. /\ Len(g.constants) <= Len(new.constants) /\ Len(g.nonlocals) <= Len(new.nonlocals)
        /\ Len(g.functions) <= Len(new.functions)
        /\ \A i \in 1..Len(g.functions) : new.functions[i] = g.functions[i]
    BY <1>3, <1>4 DEF Sized
  <2> QED BY <1>2, <1>3, <1>8, <2>1, StepWidens
<1>10. Growing(p, g, h, P)
  <2>1. Measures(p, g, h, P, Live(r))
    BY <1>2, <1>3 DEF Covered
  <2> QED BY <1>1, <2>1 DEF Growing, Measures
<1>11. Measures(p2, new, h, P, FALSE)
  BY ONLY <1>3, <1>4, <1>5, <1>7, <1>9, <1>10, EndedMeasures
<1> QED BY <1>1, <1>2, <1>11 DEF Measures

(* The function around it, which gets the closure.                         *)
LEMMA CloseParent ==
  ASSUME CInv, CInv', CodeInv, ChildrenClosed, CapturesFound, FewChildren',
         NEW n, NEW q, NEW r, NEW act, Closes(n, q, r, act), NEW H, NEW B, Covered(H, B),
         NEW e \in Nat, e = End(H, n - 1),
         NEW new, new = functions'[q], NEW h2, h2 = Raised(H[q], Len(new.code), e + 1)
  PROVE  /\ Measures(compiled', new, h2, Pending(q)', Live(q)')
         /\ Before(functions[q], H[q], new, h2)
         /\ h2[Len(new.code)] = e + 1
<1>1. /\ n \in Nat /\ n >= 2 /\ n = Len(comps) /\ q = comps[n - 1].fn /\ r = comps[n].fn
      /\ q # r /\ DOMAIN functions' = DOMAIN functions
      /\ functions'[q] = WithChild(functions[q], r) /\ Pending(q)' = Pending(q)
  BY DEF Closes
<1>2. Live(q) /\ Live(q)'
  BY CloseLive
<1>3. PICK g, h, P, p, p2 :
        /\ g = functions[q] /\ h = H[q] /\ P = Pending(q)
        /\ p = compiled /\ p2 = compiled'
  BY SMTT(60)
<1>4. /\ q \in DOMAIN functions /\ r \in Nat /\ ClosedKeep
      /\ new.arity = g.arity /\ new.constants = g.constants /\ new.nonlocals = g.nonlocals
      /\ functions'[r].nonlocals = functions[r].nonlocals
  BY <1>1, <1>3, CloseKeeps
<1>5. Sized(g) /\ Sized(new) /\ Indexed(p, g) /\ g \in FunctionOf
  BY <1>1, <1>3, <1>4, FunctionSized, SizedThen, FunctionIndexed
<1>6. Listed(g, P)
  BY <1>3, <1>4 DEF CodeInv, GoodCode
<1>7. new = WithChild(g, r) /\ ChildOf(new, g, r)
  BY <1>1, <1>3, <1>4 DEF FewChildren, ChildOf
<1>8. PICK bytes : /\ Instruction(bytes, "OP_CLOSURE") /\ new.code = g.code \o bytes
                   /\ bytes[2] < Len(new.functions) /\ new.functions[bytes[2] + 1] = r
  <2>1. PICK bytes : Numbers(bytes, new, g, r)
    BY ONLY <1>4, <1>5, <1>7, ChildByte
  <2> QED BY <2>1 DEF Numbers
<1>9. Added(new, g, bytes) /\ OpNames[bytes[1] + 1] = "OP_CLOSURE"
  <2>1. g.code \in Seq(Byte)
    BY <1>5 DEF Sized
  <2> QED BY <1>8, <2>1 DEF Added, Instruction
<1>10. Len(g.code) <= Len(new.code)
  BY <1>9, AddedLonger
<1>11. Widens(p, g, p2, new)
  <2>1. /\ new.functions = Append(g.functions, r) /\ g.functions \in Seq(Nat)
    BY <1>5, <1>7, ChildFields DEF FunctionOf
  <2>2. PICK l \in Nat : l = Len(g.functions)
    BY <2>1, LenProperties
  <2>3. Len(new.functions) = l + 1 /\ \A i \in 1..l : new.functions[i] = g.functions[i]
    BY <1>4, <2>1, <2>2, AppendProperties
  <2>4. /\ Len(g.constants) <= Len(new.constants) /\ Len(g.nonlocals) <= Len(new.nonlocals)
    BY <1>4, <1>5 DEF Sized
  <2>5. Len(g.functions) <= Len(new.functions)
    BY <2>2, <2>3
  <2>6. \A i \in 1..Len(g.functions) : new.functions[i] = g.functions[i]
    BY <2>2, <2>3
  <2> QED BY <1>3, <1>4, <1>10, <2>4, <2>5, <2>6, StepWidens
<1>12. Growing(p, g, h, P)
  <2>1. Measures(p, g, h, P, Live(q))
    BY <1>3, <1>4 DEF Covered
  <2> QED BY <1>2, <2>1 DEF Growing, Measures
<1>13. PICK a \in Nat : a = Len(g.code)
  BY <1>5 DEF Sized
<1>14. h \in [DOMAIN h -> Nat] /\ a \in DOMAIN h /\ h[a] = e
  BY Zenon, <1>1, <1>3, <1>12, <1>13 DEF Growing, Measures, End
<1>15. CaptureSafe(new, e + 1, p2.functions[r])
  <2>1. Outer(H)
    BY DEF Covered
  <2>2. p2.functions[r].nonlocals = functions[comps[n].fn].nonlocals
    BY <1>1, <1>3, <1>4 DEF compiled
  <2>3. Len(new.nonlocals) = Len(functions[comps[n - 1].fn].nonlocals)
    BY <1>1, <1>3, <1>4
  <2>4. PICK child : child = p2.functions[r]
    OBVIOUS
  <2> QED BY <1>1, <2>1, <2>2, <2>3, <2>4, ClosureCaptures
<1>16. PICK m, name : m = e + 1 /\ name = "OP_CLOSURE" /\ m \in Nat
  OBVIOUS
<1>17. Leads(p2, new, name, bytes[2], e, m)
  BY <1>8, <1>15, <1>16 DEF Leads, Binary
<1>18. a \notin P /\ name \notin Jumps
  <2>1. dump_function(g) \subseteq 0..(a - 1) /\ P \subseteq dump_function(g)
    BY <1>5, <1>6, <1>13, ListedSweep
  <2> QED BY <1>13, <1>16, <2>1 DEF Jumps
<1>19. h2 = Raised(h, Len(new.code), m)
  BY <1>3, <1>16
<1>20. RuleAt(p2, new, h2, P, a)
  <2>1. a \in P <=> name \in Jumps
    BY <1>18
  <2> QED BY ONLY <1>6, <1>9, <1>13, <1>14, <1>16, <1>17, <1>19, <2>1, AddedRule
<1>21. Growing(p2, new, h2, P)
  <2>1. SamePending(g, P, P)
    BY DEF SamePending
  <2>2. RuleAt(p2, new, h2, P, Len(g.code))
    BY <1>13, <1>20
  <2> QED BY ONLY <1>4, <1>5, <1>6, <1>9, <1>11, <1>12, <1>16, <1>19, <2>1, <2>2,
                  AppendedMeasures
<1>22. Before(g, h, new, h2)
  <2>1. ASSUME NEW b \in dump_function(g)
        PROVE  h2[b] = h[b] /\ OpAt(new, b) = OpAt(g, b)
    BY ONLY <1>6, <1>9, <1>12, <1>19, RaisedOld
  <2> QED BY <2>1 DEF Before
<1>23. h2[Len(new.code)] = m
  BY <1>19 DEF Raised
<1>24. Measures(p2, new, h2, P, Live(q)')
  BY <1>2, <1>21 DEF Growing, Measures
<1> QED BY Zenon, <1>1, <1>3, <1>16, <1>22, <1>23, <1>24

(* Its instructions are what they were.                                    *)
LEMMA CloseOld ==
  ASSUME CInv, CodeInv, NEW n, NEW q, NEW r, NEW act, Closes(n, q, r, act),
         NEW a \in dump_function(functions[r])
  PROVE  OpAt(functions'[r], a) = OpAt(functions[r], a)
<1>1. PICK g, new, bytes : /\ g = functions[r] /\ new = functions'[r]
                           /\ bytes = <<OpCode("OP_RETURN")>>
  OBVIOUS
<1>2. r \in DOMAIN functions /\ new.code = g.code \o bytes
  BY <1>1, CloseKeeps
<1>3. Sized(g) /\ Listed(g, Pending(r))
  BY <1>1, <1>2, FunctionSized DEF CodeInv, GoodCode
<1>4. a \in 0..(Len(g.code) - 1) /\ g.code \in Seq(Byte)
  BY <1>1, <1>3, ListedSweep DEF Sized
<1>5. PICK l \in Nat : l = Len(g.code)
  BY <1>3 DEF Sized
<1>6. a + 1 \in 1..l
  BY <1>4, <1>5
<1>7. new.code[a + 1] = g.code[a + 1]
  <2>1. bytes \in Seq(Byte \cup {OpCode("OP_RETURN")})
    BY <1>1
  <2>2. g.code \in Seq(Byte \cup {OpCode("OP_RETURN")})
    BY <1>4, SeqMonotonic
  <2> QED BY <1>2, <1>5, <1>6, <2>1, <2>2, ConcatProperties
<1> QED BY <1>1, <1>7 DEF OpAt

(* A function that ends becomes a closure.                                 *)
LEMMA CloseCovered ==
  ASSUME CInv, CInv', CodeInv, Chained, Chained', ChildrenClosed, CapturesFound, FewChildren',
         emit, CloseStep, NEW H, NEW B, Covered(H, B)
  PROVE  \E H2 : Covered(H2, B)'
<1>1. PICK n, q, r : n = Len(comps) /\ q = comps[Len(comps) - 1].fn /\ r = comps[Len(comps)].fn
  OBVIOUS
<1>2. PICK act : Closes(n, q, r, act)
  BY <1>1, CloseFacts
<1>3. /\ n \in Nat /\ n >= 2 /\ n = Len(comps) /\ q = comps[n - 1].fn /\ r = comps[n].fn
      /\ q # r /\ DOMAIN functions' = DOMAIN functions
      /\ Len(comps') = n - 1 /\ (\A k \in 1..(n - 1) : comps'[k] = comps[k])
      /\ (\A k \in 1..n : comps[k].fn \in DOMAIN functions)
      /\ (\A k \in 1..(n - 1) : comps[k].fn # r)
      /\ (\A k \in 1..n : comps[k].fn = q => k = n - 1)
      /\ current.comp = n - 1 /\ act.comp = n - 1 /\ Going /\ Going'
      /\ Left(current) = 0 /\ Left(act) = 1 /\ Opened(current) = 1 /\ ~Ended(current)
      /\ \A f : Pending(f)' = Pending(f)
  BY <1>2 DEF Closes
<1>4. PICK op : op = "close_function"
  OBVIOUS
<1>5. Moves(op, act) /\ op # "add_local"
      /\ op \notin {"jump_if_false", "jump_over", "patch_jump"}
  BY <1>2, <1>4 DEF Closes
<1>6. PICK b, e : b = B[Len(calls)] /\ e = End(H, n - 1)
  OBVIOUS
<1>7. b \in Nat /\ e \in Nat /\ e >= b + 0
  BY <1>3, <1>5, <1>6, MoveFacts
<1>8. PICK new, h2 : new = functions'[q] /\ h2 = Raised(H[q], Len(new.code), e + 1)
  OBVIOUS
<1>9. /\ Measures(compiled', new, h2, Pending(q)', Live(q)')
      /\ Before(functions[q], H[q], new, h2)
      /\ h2[Len(new.code)] = e + 1
  BY <1>2, <1>6, <1>7, <1>8, CloseParent
<1>10. PICK H2 : H2 = [f \in DOMAIN functions |-> IF f = q THEN h2 ELSE H[f]]
  OBVIOUS
<1>11. q \in DOMAIN functions /\ r \in DOMAIN functions
  BY <1>2, CloseKeeps
<1>12. /\ DOMAIN H2 = DOMAIN functions' /\ H2[q] = h2
       /\ \A f \in DOMAIN functions : f # q => H2[f] = H[f]
  BY <1>3, <1>10, <1>11
<1>13. ASSUME NEW f \in DOMAIN functions, f \notin {q, r}
       PROVE  Measures(compiled', functions'[f], H[f], Pending(f)', Live(f)')
              /\ functions'[f] = functions[f]
  <2>1. functions'[f] = functions[f]
    BY <1>2, <1>13 DEF Closes
  <2>2. Live(f)' <=> Live(f)
    BY <1>2, <1>13, CloseLive
  <2>3. Measures(compiled, functions[f], H[f], Pending(f), Live(f))
    BY DEF Covered
  <2>4. ClosedKeep
    BY <1>2, CloseKeeps
  <2>5. Len(functions[f].nonlocals) <= Len(functions'[f].nonlocals)
    BY <2>1, FunctionSized DEF Sized
  <2>6. PICK h : h = H[f]
    OBVIOUS
  <2>7. Measures(compiled', functions'[f], h, Pending(f)', Live(f)')
    BY <1>3, <2>1, <2>2, <2>3, <2>4, <2>5, <2>6, OthersKept
  <2> QED BY <2>1, <2>6, <2>7
<1>14. Measures(compiled', functions'[r], H[r], Pending(r)', Live(r)')
  BY SMTT(60), <1>2, CloseChild
<1>15. \A f \in DOMAIN functions' :
         Measures(compiled', functions'[f], H2[f], Pending(f)', Live(f)')
  BY <1>3, <1>8, <1>9, <1>12, <1>13, <1>14
<1>16. \A f \in DOMAIN functions : \A a \in dump_function(functions[f]) :
         H2[f][a] = H[f][a] /\ OpAt(functions'[f], a) = OpAt(functions[f], a)
  <2>1. \A a \in dump_function(functions[r]) :
          OpAt(functions'[r], a) = OpAt(functions[r], a)
    BY <1>2, CloseOld
  <2>2. ASSUME NEW f \in DOMAIN functions, NEW a \in dump_function(functions[f])
        PROVE  H2[f][a] = H[f][a] /\ OpAt(functions'[f], a) = OpAt(functions[f], a)
    <3>1. CASE f = q
      BY <1>8, <1>9, <1>12, <2>2, <3>1 DEF Before
    <3>2. CASE f = r
      BY <1>3, <1>11, <1>12, <2>1, <2>2, <3>2
    <3>3. CASE f \notin {q, r}
      BY <1>12, <1>13, <2>2, <3>3
    <3> QED BY <3>1, <3>2, <3>3
  <2> QED BY <2>2
<1>17. \A k \in 1..Len(comps) : k <= Len(comps') =>
         comps'[k].fn = comps[k].fn /\ Slots(comps'[k]) = Slots(comps[k])
  <2>1. ASSUME NEW k \in 1..n, k <= n - 1 PROVE comps'[k] = comps[k]
    <3>1. k \in 1..(n - 1)
      BY <1>3, <2>1
    <3> QED BY <1>3, <3>1
  <2>2. \A k \in 1..n : k <= n - 1 => Slots(comps'[k]) = Slots(comps[k])
    BY <2>1 DEF Slots
  <2> QED BY <1>3, <2>1, <2>2
<1>18. ASSUME NEW k \in 1..(current.comp - 1)
       PROVE  End(H2, k)' = End(H, k)
  <2>1. k \in 1..(n - 1) /\ k # n - 1 /\ k \in 1..n
    BY <1>3
  <2>2. PICK f : f = comps[k].fn
    OBVIOUS
  <2>3. f \notin {q, r} /\ comps'[k].fn = f /\ f \in DOMAIN functions
    BY <1>3, <2>1, <2>2
  <2>4. functions'[f] = functions[f] /\ H2[f] = H[f]
    BY <1>12, <1>13, <2>3
  <2> QED BY <2>2, <2>3, <2>4 DEF End
<1>19. End(H2, act.comp)' = e + 1
  <2>1. n - 1 \in 1..(n - 1)
    BY <1>3
  <2>2. comps'[n - 1].fn = q
    BY <1>3, <2>1
  <2>3. PICK k : k = n - 1
    OBVIOUS
  <2>4. End(H2, k)' = e + 1
    BY <1>8, <1>9, <1>12, <2>2, <2>3 DEF End
  <2> QED BY <1>3, <2>3, <2>4 DEF End
<1>20. ~Ended(act) => End(H2, act.comp)' >= B[Len(calls)] + Left(act)
  <2>1. PICK x : x = End(H2, act.comp)'
    OBVIOUS
  <2> QED BY <1>3, <1>6, <1>7, <1>19, <2>1
<1>21. HoldsAt(act, H2[comps'[act.comp].fn], functions'[comps'[act.comp].fn], B[Len(calls)])
  <2>1. n - 1 \in 1..(n - 1)
    BY <1>3
  <2>2. comps'[act.comp].fn = q /\ comps[current.comp].fn = q
    BY <1>3, <2>1
  <2>3. HoldsAt(act, h2, new, B[Len(calls)])
    BY <1>5, <1>9, <2>2, HoldsMoves
  <2> QED BY <1>8, <1>12, <2>2, <2>3
<1>22. act.comp < Len(comps') => Slots(comps[act.comp]) <= End(H2, act.comp)' + 1
  BY <1>3
<1>23. Covered(H2, B)'
  BY <1>5, <1>12, <1>15, <1>16, <1>17, <1>18, <1>20, <1>21, <1>22, MoveCovered
<1> QED BY <1>23
-----------------------------------------------------------------------------
(* Every step of the compiler.                                             *)
LEMMA SameCovered ==
  ASSUME UNCHANGED <<calls, comps, functions, strs>>, NEW H, NEW B, Covered(H, B)
  PROVE  Covered(H, B)'
<1>1. /\ Going' = Going /\ compiled' = compiled
      /\ \A f : Pending(f)' = Pending(f)
  BY DEF Going, compiled, Pending
<1>2. \A f : Live(f)' = Live(f)
  BY <1>1 DEF Live
<1>3. ASSUME NEW k PROVE End(H, k)' = End(H, k)
  BY DEF End
<1>4. \A f \in DOMAIN functions' :
        Measures(compiled', functions'[f], H[f], Pending(f)', Live(f)')
  BY <1>1, <1>2 DEF Covered
<1>5. Heights(H, B)' /\ Outer(H)'
  BY <1>3 DEF Covered, Heights, Outer, End
<1>6. Holds(H, B)' /\ Floors(B)'
  BY DEF Covered, Holds, Floors
<1>7. BasedIn(calls', B) /\ DOMAIN H = DOMAIN functions'
  BY DEF Covered
<1> QED BY <1>4, <1>5, <1>6, <1>7 DEF Covered

LEMMA StartCovered ==
  ASSUME StartStep
  PROVE  \E H, B : Covered(H, B)'
<1>1. PICK g, c, a : g = NewFunction /\ c = compiler_init(1)
                     /\ a = [Activation("compile_file", FALSE) EXCEPT !.comp = 1]
  OBVIOUS
<1>2. functions' = <<g>> /\ comps' = <<c>> /\ calls' = <<a>>
  BY <1>1 DEF StartStep
<1>3. /\ a.proc = "compile_file" /\ a.pc = 1 /\ a.comp = 1 /\ a.jump = NoJump
      /\ a.count = 0
  BY Zenon, <1>1 DEF Activation
<1>4. c.fn = 1 /\ Slots(c) = 0
  BY <1>1, SlotsOf DEF compiler_init
<1>5. PICK h, H, B : h = [x \in {0} |-> 0] /\ H = <<h>> /\ B = <<0>>
  OBVIOUS
<1>6. /\ DOMAIN functions' = {1} /\ DOMAIN comps' = {1} /\ DOMAIN calls' = {1}
      /\ DOMAIN H = {1} /\ DOMAIN B = {1} /\ Len(comps') = 1 /\ Len(calls') = 1
      /\ functions'[1] = g /\ comps'[1] = c /\ calls'[1] = a /\ H[1] = h /\ B[1] = 0
  BY <1>2, <1>5
<1>7. Going'
  BY <1>2, <1>3 DEF Going
<1>8. Live(1)'
  BY <1>4, <1>6, <1>7 DEF Live
<1>9. Measures(compiled', g, h, Pending(1)', Live(1)')
  <2>1. PICK p, P, live : p = compiled' /\ P = Pending(1)' /\ live = Live(1)'
    OBVIOUS
  <2>2. Measures(p, g, h, P, live)
    BY <1>1, <1>5, <1>8, <2>1, NewMeasures
  <2> QED BY <2>1, <2>2
<1>10. Left(a) = 0
  BY <1>3 DEF Left, Leaves
<1>11. BasedIn(calls', B)
  BY <1>6 DEF BasedIn
<1>12. Heights(H, B)'
  <2>1. End(H, 1)' = 0
    <3>1. Len(g.code) = 0
      BY <1>1, NewChildless
    <3> QED BY <1>4, <1>5, <1>6, <3>1 DEF End
  <2> QED BY <1>3, <1>6, <1>10, <2>1 DEF Heights, End
<1>13. Holds(H, B)'
  BY <1>3, <1>6 DEF Holds, HoldsAt
<1>14. Floors(B)'
  BY <1>3, <1>4, <1>6 DEF Floors, FloorOK, TermProcs
<1>15. Outer(H)'
  BY <1>6 DEF Outer
<1>16. \A f \in DOMAIN functions' :
         Measures(compiled', functions'[f], H[f], Pending(f)', Live(f)')
  BY <1>6, <1>9
<1>17. Covered(H, B)'
  BY <1>6, <1>11, <1>12, <1>13, <1>14, <1>15, <1>16 DEF Covered
<1> QED BY <1>17

LEMMA CertKept ==
  ASSUME ShapeInv, ShapeInv', CodeInv, CapturesFound, Disciplined, Disciplined', CertInv,
         [Next]_cvars
  PROVE  CertInv'
<1>1. emit' = emit
  BY PhaseStep DEF ShapeInv
<1>2. /\ CInv /\ Chained /\ Counting /\ ChildrenClosed /\ Rooted /\ LetsLead /\ ValuesFirst
      /\ CInv' /\ Chained' /\ LetsLead' /\ FewChildren'
  BY DEF ShapeInv, Disciplined
<1>3. SUFFICES ASSUME emit PROVE \E H, B : Covered(H, B)'
  BY <1>1 DEF CertInv
<1>4. PICK H, B : Covered(H, B)
  BY <1>3 DEF CertInv
<1>5. CASE Stops
  <2>1. Covered(H, B)'
    BY <1>4, <1>5, SameCovered DEF Stops
  <2> QED BY <2>1
<1>6. CASE StartStep
  BY <1>6, StartCovered
<1>7. CASE return
  BY <1>2, <1>4, <1>7, ReturnCovered
<1>8. CASE QuietStep
  <2>1. Covered(H, B)'
    BY <1>2, <1>4, <1>8, QuietCovered
  <2> QED BY <2>1
<1>9. CASE EnterStep
  <2>1. PICK op \in {"call", "term", "dispatch"} : \E proc, isTail :
          Doing(op) /\ Asks(op, proc) /\ Enter(proc, isTail)
    BY <1>9 DEF EnterStep
  <2>2. PICK proc, isTail : Doing(op) /\ Asks(op, proc) /\ Enter(proc, isTail)
    BY <2>1
  <2> QED BY <1>2, <1>4, <2>2, EnterCovered
<1>10. CASE WriteStep
  BY <1>2, <1>4, <1>10, WriteCovered
<1>11. CASE OpenStep
  BY <1>2, <1>4, <1>11, OpenCovered
<1>12. CASE ArityStep
  BY <1>2, <1>4, <1>12, ArityCovered
<1>13. CASE CloseStep
  BY <1>2, <1>3, <1>4, <1>13, CloseCovered
<1>14. CASE DeclareStep
  <2>1. Covered(H, B)'
    BY <1>2, <1>4, <1>14, DeclareCovered
  <2> QED BY <2>1
<1>15. CASE ResolveStep
  BY <1>2, <1>3, <1>4, <1>15, ResolveCovered
<1>16. ~IdleStep
  BY <1>3 DEF IdleStep
<1> QED BY <1>2, <1>5, <1>6, <1>7, <1>8, <1>9, <1>10, <1>11, <1>12, <1>13, <1>14, <1>15,
           <1>16, Forms
-----------------------------------------------------------------------------
(* Compiled programs.                                                      *)
(* Some certificates of the functions are right once compile has run.      *)
Certifiable == phase = "done" /\ emit => \E depths : CertifiedBy(compiled, depths)

LEMMA FunctionsFit == FunctionOf \subseteq Function
<1>1. 0..UINT8_MAX \subseteq Nat
  BY Bytes
<1>2. [isLocal : BOOLEAN, index : 0..UINT8_MAX] \subseteq [isLocal : BOOLEAN, index : Nat]
  BY <1>1
<1>3. PICK S, T : /\ S = [isLocal : BOOLEAN, index : 0..UINT8_MAX]
                  /\ T = [isLocal : BOOLEAN, index : Nat]
  OBVIOUS
<1>4. ASSUME NEW s \in Seq(S) PROVE s \in Seq(T)
  <2>1. S \subseteq T
    BY <1>2, <1>3
  <2> QED BY <1>4, <2>1, SeqMonotonic
<1> QED BY <1>1, <1>3, <1>4 DEF FunctionOf, Function

LEMMA DoneCertified ==
  ASSUME ShapeInv, CertInv
  PROVE  Certifiable
<1>1. SUFFICES ASSUME phase = "done", emit PROVE \E depths : CertifiedBy(compiled, depths)
  BY DEF Certifiable
<1>2. PICK H, B : Covered(H, B)
  BY <1>1 DEF CertInv
<1>3. /\ CInv /\ calls = <<>> /\ Len(comps) = 1 /\ comps[1].fn = 1
      /\ functions[1].arity = 0 /\ functions[1].nonlocals = <<>>
  <2>1. Len(comps) \in Nat
    BY RecordFacts DEF ShapeInv
  <2> QED BY <1>1, <2>1 DEF ShapeInv, Rooted
<1>4. ~Going /\ DOMAIN calls = {}
  BY <1>3 DEF Going
<1>5. \A f : ~Live(f) /\ Pending(f) = {}
  BY <1>3, <1>4 DEF Live, Pending
<1>6. PICK n \in Nat : /\ n = Len(functions) /\ DOMAIN functions = 1..n
                       /\ functions \in Seq(FunctionOf)
  BY Zenon, <1>3, RecordFacts
<1>7. 1 \in 1..n
  BY <1>3, <1>6, RecordFacts
<1>8. PICK g, strings : g = functions /\ strings = strs
  OBVIOUS
<1>9. PICK p : p = compiled /\ p.functions = g /\ p.strs = strings
  <2>1. compiled.functions = g /\ compiled.strs = strings
    BY <1>8 DEF compiled
  <2> QED BY <2>1
<1>10. PICK at : at = [fun \in Range_(g) |-> CHOOSE f \in 1..n : g[f] = fun]
  OBVIOUS
<1>11. PICK depths : depths = [fun \in Range_(g) |-> H[at[fun]]]
  OBVIOUS
<1>12. ASSUME NEW f \in 1..n
       PROVE  \E k \in 1..n : g[k] = g[f] /\ depths[g[f]] = H[k]
  <2>1. g[f] \in Range_(g)
    BY <1>6, <1>8 DEF Range_
  <2>2. at[g[f]] \in 1..n /\ g[at[g[f]]] = g[f]
    BY <1>10, <2>1
  <2> QED BY <1>11, <2>1, <2>2
<1>13. ASSUME NEW fun, NEW h, NEW k \in 1..n, fun = g[k], h = H[k]
       PROVE  /\ DOMAIN h \subseteq dump_function(fun)
              /\ h \in [DOMAIN h -> Nat]
              /\ Flows(h, 0, fun.arity)
              /\ \A a \in DOMAIN h : SafeAt(p, fun, h, a)
  <2>1. Measures(p, fun, h, Pending(k), Live(k))
    BY <1>2, <1>6, <1>8, <1>9, <1>13 DEF Covered
  <2>2. Measures(p, fun, h, {}, FALSE)
    BY <1>5, <2>1 DEF Measures
  <2>3. DOMAIN h = dump_function(fun) /\ 0 \in DOMAIN h /\ h[0] = fun.arity
        /\ h \in [DOMAIN h -> Nat]
    BY <2>2 DEF Measures
  <2>4. \A a \in DOMAIN h : SafeAt(p, fun, h, a)
    BY <2>2, <2>3 DEF Measures, RuleAt
  <2>5. Flows(h, 0, fun.arity)
    BY <2>3 DEF Flows
  <2> QED BY <2>3, <2>4, <2>5
<1>14. ASSUME NEW k \in 1..n
       PROVE  /\ \A i \in 1..Len(g[k].functions) : g[k].functions[i] \in 1..n
              /\ \A i \in 1..Len(g[k].constants) :
                   \/ is_int(g[k].constants[i])
                   \/ is_str(g[k].constants[i]) /\ g[k].constants[i].val \in 1..Len(strings)
  <2>1. ChildrenClosed /\ ConstantsKnown
    BY DEF ShapeInv
  <2> QED BY <1>6, <1>8, <2>1 DEF ChildrenClosed, ConstantsKnown, KnownConstant
<1>15. g \in Seq(Function)
  BY <1>6, <1>8, FunctionsFit, SeqMonotonic
<1>16. strings \in Seq(Seq(Nat))
  BY <1>8 DEF ShapeInv, SourceOK
<1>17. g # <<>> /\ Len(g) = n /\ g[1].arity = 0 /\ g[1].nonlocals = <<>>
  BY <1>3, <1>6, <1>7, <1>8
<1>18. ASSUME NEW f \in 1..n, NEW fun, fun = g[f], NEW h, h = depths[fun]
       PROVE  /\ DOMAIN h \subseteq dump_function(fun)
              /\ h \in [DOMAIN h -> Nat]
              /\ Flows(h, 0, fun.arity)
              /\ \A a \in DOMAIN h : SafeAt(p, fun, h, a)
  <2>1. PICK k \in 1..n : g[k] = fun /\ h = H[k]
    BY <1>12, <1>18
  <2> QED BY <1>13, <2>1
<1>19. CertifiedBy(p, depths)
  BY ONLY ZenonT(60), <1>9, <1>14, <1>15, <1>16, <1>17, <1>18 DEF CertifiedBy
<1> QED BY <1>9, <1>19

LEMMA InitCert ==
  ASSUME Init
  PROVE  CertInv /\ CapturesFound
<1>1. calls = <<>> /\ comps = <<>> /\ functions = <<>>
  BY DEF Init
<1>2. DOMAIN calls = {} /\ Len(comps) = 0 /\ DOMAIN functions = {}
  BY <1>1
<1>3. Covered(<<>>, <<>>)
  BY <1>2 DEF Covered, BasedIn, Heights, Holds, Floors, Outer
<1>4. CapturesFound
  BY <1>2 DEF CapturesFound
<1> QED BY <1>3, <1>4 DEF CertInv

(* Records, C stack, children, constants and text keep to their forms, in  *)
(* every state of the compiler.                                            *)
THEOREM CompilerShape == Spec => []ShapeInv
<1>1. CInv /\ Init => ShapeInv
  BY InitShape
<1>2. ShapeInv /\ CInv' /\ [Next]_cvars => ShapeInv'
  BY ShapeKept
<1> QED BY <1>1, <1>2, CompilerInvariant, PTL DEF Spec

(* Each entry of the nonlocals of a function names a variable of the       *)
(* record around it.                                                       *)
THEOREM CompilerCapturesFound == Spec => []CapturesFound
<1>1. Init => CapturesFound
  BY InitCert
<1>2. CInv /\ CInv' /\ CapturesFound /\ [Next]_cvars => CapturesFound'
  BY FoundKept
<1> QED BY <1>1, <1>2, CompilerInvariant, PTL DEF Spec

(* What is compiled of a disciplined program is certified: no instruction  *)
(* of it reads or takes a cell that is not there, and none refers to a     *)
(* constant, a variable or a function that does not exist.                 *)
THEOREM CompilerCertifies == Spec /\ []Disciplined => []Certifiable
<1>1. Init => CertInv
  BY InitCert
<1>2. /\ ShapeInv /\ ShapeInv' /\ CodeInv /\ CapturesFound
      /\ Disciplined /\ Disciplined' /\ CertInv /\ [Next]_cvars
      => CertInv'
  BY CertKept
<1>3. ShapeInv /\ CertInv => Certifiable
  BY DoneCertified
<1> QED BY <1>1, <1>2, <1>3, CompilerShape, CompilerCode, CompilerCapturesFound, PTL DEF Spec
=============================================================================
