------------------------------ MODULE VMLayout ------------------------------
(***************************************************************************)
(* The values of a run in the layouts of TaggedValues: whether what the    *)
(* machine keeps is still the same after tagging, and whether it stays     *)
(* within the blocks of its closures.                                      *)
(***************************************************************************)
EXTENDS VMSafety, TaggedValues

(* An int is wider than a word of the bytecode, and the int constants of a *)
(* program are ints.                                                       *)
ASSUME NumberAssumption ==
  /\ UINT16_MAX <= INT_MAX
  /\ \A p \in Programs : \A f \in 1..Len(p.functions) :
       LET constants == p.functions[f].constants
       IN \A i \in 1..Len(constants) :
            is_int(constants[i]) => constants[i].val \in INT_MIN..INT_MAX

(* The address of an object leaves the four highest bits free.             *)
AddressesFit ==
  \A n \in {Len(strs), Len(tuples), Len(closures)} : 16 * n + 15 <= INT64_MAX

(* A value may be a structure or its tag and payload in one number: every  *)
(* value that is pushed, printed, captured or stored in a tuple is, after  *)
(* tagging, still the same value.                                          *)
LayoutsAgree ==
  /\ \A i \in 0..top : SurvivesTagging(stack[i])
  /\ \A i \in 1..Len(out) : SurvivesTagging(out[i])
  /\ \A t \in 1..Len(tuples) :
       SurvivesTagging(tuples[t].first) /\ SurvivesTagging(tuples[t].second)
  /\ \A c \in 1..Len(closures) : \A i \in 1..Len(closures[c].nonlocals) :
       SurvivesTagging(closures[c].nonlocals[i])

(* The nonlocals of the running closure that the next instruction reads,   *)
(* counted from 0.                                                         *)
NonlocalsRead ==
  CASE OpAt(function, ip) = "OP_NONLOCAL" -> {Byte}
    [] OpAt(function, ip) = "OP_CLOSURE" ->
         LET nonlocals == functions[function.functions[Byte + 1]].nonlocals
         IN {nonlocals[i].index :
               i \in {j \in 1..Len(nonlocals) : ~nonlocals[j].isLocal}}
    [] OTHER -> {}

(* In the build with tagged values closures are written and read within    *)
(* their blocks.  Where a value is larger than a pointer, closure_new asks *)
(* for too little from two nonlocals on: do_closure has then written       *)
(* exactly Missing bytes behind the block, and what do_nonlocal and        *)
(* do_closure read of the running closure is no further behind.            *)
ClosureOverrun ==
  \A size \in ValueSizes :
    /\ \A c \in 1..Len(closures) :
         LET k == Len(closures[c].nonlocals)
         IN /\ POINTER_SIZE <= closure_new(k, size)
            /\ k > 0 =>
                 nonlocal_end(k - 1, size) = closure_new(k, size) + Missing(k, size)
    /\ status = "running" => \A i \in NonlocalsRead :
         LET k == Len(closures[cl].nonlocals)
         IN nonlocal_end(i, size) <= closure_new(k, size) + Missing(k, size)

(* A bool is 0 or 1 and an int is one.                                     *)
InRange(v) ==
  /\ v.type = "bool" => v.val \in {0, 1}
  /\ v.type = "int" => v.val \in INT_MIN..INT_MAX

(* Why they agree: no operation leaves the range of its type.              *)
NumbersInRange ==
  /\ \A i \in 0..(StackSize - 1) : InRange(stack[i])
  /\ \A i \in 1..Len(out) : InRange(out[i])
  /\ \A t \in 1..Len(tuples) : InRange(tuples[t].first) /\ InRange(tuples[t].second)
  /\ \A c \in 1..Len(closures) : \A i \in 1..Len(closures[c].nonlocals) :
       InRange(closures[c].nonlocals[i])
=============================================================================
