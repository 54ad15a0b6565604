----------------------------- MODULE RinhaSafety -----------------------------
(***************************************************************************)
(* What holds while the interpreter runs what it has compiled itself.      *)
(***************************************************************************)
EXTENDS Rinha, CompilerSafety, TaggedValues

(* An int is wider than a word of the bytecode.                            *)
ASSUME WordAssumption == UINT16_MAX <= INT_MAX

Safety == INSTANCE VMActivations WITH Programs <- {}, Depth <- <<>>

Layouts == INSTANCE VMLayout WITH Programs <- {}, Depth <- <<>>

(* From vm_init to the end of the run every cell in use and every object   *)
(* of the heap holds values the program has computed, no tuple contains    *)
(* itself, and the machine executes the instructions that dump_function    *)
(* lists: of main, which hands the machine what compile has made without   *)
(* looking at it.  The values are the same in the two layouts of value.h   *)
(* as long as the addresses of objects fit beside the tag: the compiler    *)
(* refuses the numbers that are no ints.                                   *)
MachineSafe ==
  status # "idle" =>
    /\ Safety!StackDefined
    /\ Safety!HeapDefined
    /\ Safety!TuplesWellFounded
    /\ Safety!OutputDefined
    /\ Safety!RunsListedInstructions
    /\ Layouts!AddressesFit => Layouts!LayoutsAgree

(* Whatever the program means, main must not succeed, fail or be killed    *)
(* without a reason.  It succeeds only if the command is right, the file   *)
(* was read whole and compiled, and what was run has come to its end       *)
(* without an error; it is killed only by a trap of the machine; it fails  *)
(* only if it was misused, the file could not be read, memory for the file *)
(* was refused, or the compiler or the machine has met an error.  Nothing  *)
(* is run of a file that was not read whole and compiled, or for another   *)
(* command.  All bets are off once memory has been overwritten.            *)
ExitTells ==
  LET used == argc \in 2..3 /\ command # "other"
      read == argc = 3 /\ disk = "readable"
      ran  == command = "run" /\ phase = "done"
  IN /\ exited = "success" =>
          /\ used
          /\ \/ command = "version"
             \/ read /\ phase = "undefined"
             \/ /\ read /\ phase = "done" /\ result = "ok"
                /\ command = "run" => status = "halted"
     /\ exited = "killed" =>
          /\ used /\ read
          /\ phase = "undefined" \/ (ran /\ status = "trapped")
     /\ exited = "failure" =>
          \/ ~used
          \/ ~read /\ phase = "idle"
          \/ MemoryMayFail /\ phase = "idle"
          \/ read /\ phase \in {"failed", "undefined"}
          \/ read /\ ran /\ status = "halted" /\ result # "ok"
     /\ status # "idle" => used /\ read /\ ran

(* What has been compiled runs as if every call had cells of its own:      *)
(* whatever changes the machine of Activations is the compiler, until it   *)
(* is done, or a step of that machine.                                     *)
RunsAsActivations == [][compile \/ Safety!Calls!Next]_(Safety!Calls!vars)
=============================================================================
