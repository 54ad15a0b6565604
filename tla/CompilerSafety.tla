--------------------------- MODULE CompilerSafety ---------------------------
(***************************************************************************)
(* What holds while a file is compiled, and of the bytecode that results.  *)
(***************************************************************************)
EXTENDS Compiler, FiniteSets

Range_(s) == {s[i] : i \in DOMAIN s}

FunctionOf == [arity     : 0..UINT8_MAX,
               code      : Seq(0..UINT8_MAX),
               constants : Seq(Value),
               nonlocals : Seq([isLocal : BOOLEAN, index : 0..UINT8_MAX]),
               functions : Seq(Nat)]

VariableOf == [name : Texts, isLocal : BOOLEAN, index : 0..UINT8_MAX]

(* The type invariant.                                                     *)
CTypeOK ==
  /\ file \in DOMAIN Sources
  /\ emit \in BOOLEAN
  /\ pos \in 1..Len(src)
  /\ \A i \in DOMAIN calls :
       /\ calls[i].proc \in DOMAIN Script
       /\ calls[i].pc \in 1..(Len(Script[calls[i].proc]) + 1)
       /\ calls[i].isTail \in BOOLEAN
       /\ calls[i].comp \in DOMAIN comps
       /\ calls[i].token \in TokenOf
       /\ calls[i].count \in 0..UINT8_MAX
       /\ calls[i].jump \in {NoJump} \cup Nat
  /\ comps \in Seq([fn : DOMAIN functions, variables : Seq(VariableOf),
                    nextIndex : 0..UINT8_MAX])
  /\ functions \in Seq(FunctionOf)
  /\ strs \in Seq(Range_(strs))
  /\ phase \in {"idle", "compiling", "done", "failed", "undefined"}

(* No token is asked for after the end, wherever a file ends: having       *)
(* delivered it, the scanner stands behind the NUL.                        *)
NothingAfterEnd == \A i \in 1..(pos - 1) : src[i].kind # "EOF"

-----------------------------------------------------------------------------
(* Scopes.                                                                 *)

(* A variable that is no slot of the frame of record k is a nonlocal of    *)
(* its function, and that nonlocal leads to a variable of the same name in *)
(* the function around it: however deep the use, each closure on the way   *)
(* finds what the next one inside captures.                                *)
CapturesLead ==
  \A k \in DOMAIN comps :
    \A v \in Range_(comps[k].variables) :
      ~v.isLocal =>
        /\ k > 1
        /\ v.index < Len(functions[comps[k].fn].nonlocals)
        /\ \E u \in Range_(comps[k - 1].variables) :
             /\ u.name = v.name
             /\ functions[comps[k].fn].nonlocals[v.index + 1]
                  = [isLocal |-> u.isLocal, index |-> u.index]

(* No two declarations of a function share a slot, and no two captures an  *)
(* entry.                                                                  *)
SlotsDistinct ==
  \A k \in DOMAIN comps :
    \A i, j \in DOMAIN comps[k].variables :
      /\ comps[k].variables[i].isLocal = comps[k].variables[j].isLocal
      /\ comps[k].variables[i].index = comps[k].variables[j].index
      => i = j

-----------------------------------------------------------------------------
(* Code.                                                                   *)

Jumps == {"OP_JUMP", "OP_JUMP_IF_FALSE"}

(* The jumps of function f whose word the compiler still has to write: the *)
(* addresses before the words that active functions remember.              *)
Pending(f) ==
  {calls[i].jump - 1 : i \in {i \in DOMAIN calls :
                                /\ calls[i].jump # NoJump
                                /\ comps[calls[i].comp].fn = f}}

(* The code of every function is a sequence of whole instructions at any   *)
(* time; every jump in it goes forward, to the start of an instruction or  *)
(* to where the next one will be, unless an active compile_if remembers it.*)
CodeListed ==
  \A f \in DOMAIN functions :
    LET fun == functions[f]
        at  == dump_function(fun)
    IN /\ \A a \in at : a + Size(OpAt(fun, a)) <= Len(fun.code)
       /\ Pending(f) \subseteq {a \in at : OpAt(fun, a) \in Jumps}
       /\ \A a \in at \ Pending(f) :
            OpAt(fun, a) \in Jumps =>
              /\ read_word(fun, a + 1) \in at \cup {Len(fun.code)}
              /\ read_word(fun, a + 1) > a

(* Each OP_CLOSURE makes the closure of the function it was emitted for:   *)
(* the first of the first child of its function, and so on, as long as     *)
(* there are no more children than a byte can number.                      *)
ClosuresLead ==
  \A f \in DOMAIN functions :
    LET fun == functions[f]
        closures == {a \in dump_function(fun) : OpAt(fun, a) = "OP_CLOSURE"}
    IN Len(fun.functions) <= UINT8_MAX + 1 =>
         /\ Cardinality(closures) = Len(fun.functions)
         /\ \A a \in closures :
              read_byte(fun, a + 1) = Cardinality({b \in closures : b < a})

(* Emitted code stays as it is, but for the word of a jump that an active  *)
(* function remembers.                                                     *)
OnlyJumpsPatched ==
  [][\A f \in DOMAIN functions :
       \A a \in 0..(Len(functions[f].code) - 1) :
         functions'[f].code[a + 1] # functions[f].code[a + 1] =>
           \E j \in Pending(f) : a \in {j + 1, j + 2}]_cvars

-----------------------------------------------------------------------------
(* What the machine needs.                                                 *)

(* How many slots of its frame record c has given away.                    *)
Slots(c) == IF c.nextIndex = 0 THEN UINT8_MAX ELSE c.nextIndex - 1

(* Lets stand only where nothing is pending: while one is compiled,        *)
(* nothing else of its function is but the lets around it, which are at    *)
(* their next.                                                             *)
LetsLead ==
  \A j \in DOMAIN calls : calls[j].proc = "compile_let" =>
    \A i \in 1..(j - 1) : calls[i].comp = calls[j].comp =>
      \/ calls[i].proc \in {"compile_file", "compile_term"}
      \/ calls[i].proc = "compile_let" /\ calls[i].pc > 6

(* The value of a let does not use its name, but for functions in it.      *)
ValuesFirst ==
  Doing("var") =>
    \A i \in DOMAIN calls :
      calls[i].proc = "compile_let" /\ calls[i].comp = Len(comps) /\ calls[i].pc = 5 =>
        \A v \in Range_(comp.variables) :
          v.isLocal /\ v.index = Slots(comp) => v.name # current.token.text

(* A byte numbers the children of each function.                           *)
FewChildren ==
  \A f \in DOMAIN functions : Len(functions[f].functions) <= UINT8_MAX + 1

(* What the compiler takes for granted of a program; it looks at none.     *)
Disciplined == LetsLead /\ ValuesFirst /\ FewChildren

(* The parser consumes a token or leaves a function again and again: it    *)
(* returns, whatever the file holds.                                       *)
Returns == <>(phase \in {"done", "failed", "undefined"})
=============================================================================
