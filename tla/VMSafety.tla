------------------------------ MODULE VMSafety ------------------------------
(***************************************************************************)
(* What makes the virtual machine safe although it checks nothing but the  *)
(* two overflows: the bytecode it is given.  Depth holds a certificate of  *)
(* each function of the programs (see Certificates); the invariants say    *)
(* what follows for every run.                                             *)
(***************************************************************************)
EXTENDS VM, Certificates

CONSTANT Depth      \* functions of a program |-> function |-> its certificate

(* Depth is right about p.                                                 *)
Certified(p) == CertifiedBy(p, Depth[p.functions])

ASSUME CertificateAssumption == \A p \in Programs : Certified(p)

-----------------------------------------------------------------------------
(* The type invariant.                                                     *)

Elements(s) == {s[i] : i \in DOMAIN s}

Errors == {"out of memory", "stack overflow", "too many nested calls",
           "cannot add", "cannot convert to string", "cannot subtract",
           "cannot multiply", "cannot divide", "cannot calculate remainder",
           "cannot compare", "cannot get first element",
           "cannot get second element", "cannot call", "expected arguments"}

TypeOK ==
  /\ functions \in Seq(Function)
  /\ stack \in [0..(StackSize - 1) -> Value]
  /\ top \in -1..(StackSize - 1)
  /\ frames \in Seq([cl : Nat, ip : Nat, slots : Nat])
  /\ Len(frames) <= CallstackSize
  /\ cl \in Nat /\ ip \in Nat /\ slots \in Nat
  /\ strs \in Seq(Elements(strs))
  /\ tuples \in Seq([first : Value, second : Value])
  /\ closures \in Seq([fn : Nat, nonlocals : Seq(Value)])
  /\ status \in {"idle", "ready", "running", "halted", "trapped"}
  /\ result \in {"ok"} \cup Errors
  /\ out \in Seq(Value)

(* A value the program computed: not fresh memory, and if it is a pointer, *)
(* one to an object that exists.                                           *)
Valid(v) ==
  /\ v # Uninit
  /\ is_str(v) => v.val \in 1..Len(strs)
  /\ is_tuple(v) => v.val \in 1..Len(tuples)
  /\ is_closure(v) => v.val \in 1..Len(closures)

(* Every cell in use holds a value the program computed: no instruction    *)
(* reads an operand, a variable or a callee from memory nobody wrote or    *)
(* below its frame (stack_peek, stack_pop, slots[index] check nothing).    *)
StackDefined == \A i \in 0..top : Valid(stack[i])

(* What the heap refers to exists too: a closure has captured all the      *)
(* variables its function declares, whatever do_closure read when.         *)
HeapDefined ==
  /\ \A t \in 1..Len(tuples) : Valid(tuples[t].first) /\ Valid(tuples[t].second)
  /\ \A c \in 1..Len(closures) :
       /\ closures[c].fn \in 1..Len(functions)
       /\ Len(closures[c].nonlocals) = Len(functions[closures[c].fn].nonlocals)
       /\ \A i \in 1..Len(closures[c].nonlocals) : Valid(closures[c].nonlocals[i])

(* A tuple is younger than its components, so that tuple_equal and         *)
(* tuple_print, which recur over them unguarded, come to an end.           *)
TuplesWellFounded ==
  \A t \in 1..Len(tuples) :
    /\ is_tuple(tuples[t].first) => tuples[t].first.val < t
    /\ is_tuple(tuples[t].second) => tuples[t].second.val < t

(* Values printed stay readable.                                           *)
OutputDefined == \A i \in 1..Len(out) : Valid(out[i])

-----------------------------------------------------------------------------
(* Frames.                                                                 *)

(* The first cell that is not the k-th frame's while its callee runs.      *)
Base(k) == IF k < Len(frames) THEN frames[k + 1].slots ELSE slots

(* Closure c can run at address a with n cells above its cell 0.           *)
CanRun(c, a, n) ==
  /\ c \in 1..Len(closures)
  /\ Flows(Depth[functions][functions[closures[c].fn]], a, n)

(* The height at which a caller resumes: the cells up to and including the *)
(* callee's cell 0 will be its own, with the result in the last.           *)
CanResume(k) ==
  /\ frames[k].slots < Base(k)
  /\ CanRun(frames[k].cl, frames[k].ip, Base(k) - frames[k].slots)

(* Whoever runs, and whoever waits for a call to return, finds the cells   *)
(* its instructions expect: calls, tail calls and returns nest.            *)
FramesNest ==
  status = "running" =>
    /\ CanRun(cl, ip, top - slots)
    /\ \A k \in 1..Len(frames) : CanResume(k)

(* The machine executes the instructions that dump_function lists: a jump  *)
(* or a return never lands inside an operand.                              *)
RunsListedInstructions ==
  status = "running" =>
    /\ ip \in dump_function(function)
    /\ \A k \in 1..Len(frames) :
         frames[k].ip \in dump_function(functions[closures[frames[k].cl].fn])

(* While a callee runs, nothing it or its tail calls do touches the cells  *)
(* of its callers, which hold their variables and temporaries.             *)
CallersUntouched ==
  [][\A i \in 0..(StackSize - 1) : i < slots => stack'[i] = stack[i]]_vars

(* A call that returns takes the caller back to where it was, with the     *)
(* callee and its arguments replaced by exactly one value.                 *)
ReturnsToCaller ==
  [][Len(frames') < Len(frames) =>
       /\ top' = slots
       /\ cl' = frames[Len(frames)].cl
       /\ slots' = frames[Len(frames)].slots
       /\ slots' < top']_vars

(* Before the first instruction there is no frame and no cell in use.      *)
NotStarted ==
  status \in {"idle", "ready"} =>
    top = -1 /\ frames = <<>> /\ cl = 1 /\ ip = 0 /\ slots = 0

(* The functions are those of a certified program, whose strings exist,    *)
(* and the first closure is the program itself.                            *)
ProgramLoaded ==
  /\ \E p \in Programs : functions = p.functions /\ Len(strs) >= Len(p.strs)
  /\ closures # <<>> /\ closures[1].fn = 1

(* The inductive invariant.                                                *)
IInv ==
  /\ TypeOK
  /\ ProgramLoaded
  /\ NotStarted
  /\ StackDefined
  /\ HeapDefined
  /\ TuplesWellFounded
  /\ OutputDefined
  /\ FramesNest

(* Liveness: the programs of a run contain no endless recursion, so the    *)
(* run ends, in a result, an error or a trap.                              *)
Ends == <>(status \in {"halted", "trapped"})
=============================================================================
