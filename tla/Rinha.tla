------------------------------- MODULE Rinha -------------------------------
(***************************************************************************)
(* The interpreter (main.c): one process that reads a file, compiles it    *)
(* and, for the command run, gives what the compiler made to the virtual   *)
(* machine.  The two share the functions, the strings and the Result; the  *)
(* process exits as soon as the Result carries an error.                   *)
(*                                                                         *)
(* The disk is the environment: between file_size and fread, as before     *)
(* them, the file may be there or not.                                     *)
(*                                                                         *)
(* Operators named <definition>_<slip> are the definition with a mistake.  *)
(***************************************************************************)
EXTENDS Compiler

CONSTANTS StackSize, CallstackSize      \* see VM

ASSUME MachineAssumption == /\ StackSize \in Nat \ {0}
                            /\ CallstackSize \in Nat \ {0}
                            /\ MemoryMayFail \in BOOLEAN

VARIABLES
  argc, command,                                \* command is argv[1]
  disk,                                         \* what becomes of the file argv[2]
  stage,                                        \* main, read_file or compile
  exited,                                       \* how the process has ended
  stack, top, frames, cl, ip, slots, tuples, closures, status, out  \* see VM

Machine == INSTANCE VM WITH Programs <- {}

mvars == <<stack, top, frames, cl, ip, slots, tuples, closures, status, out>>

process == <<argc, command, disk, stage, exited>>

rvars == <<process, cvars, mvars>>

(* A file that grows after file_size is read as it was: it is "readable".  *)
Disks == {"readable", "missing", "locked", "empty", "cut after file_size"}

RInit ==
  /\ Init
  /\ argc \in 1..4
  /\ command \in {"version", "check", "dump", "run", "other"}
  /\ emit = (command \in {"dump", "run"})
  /\ disk \in Disks
  /\ stage = "main"
  /\ exited = "no"
  /\ Machine!Fresh

Exit(how) ==
  /\ exited' = how
  /\ UNCHANGED <<argc, command, disk, stage, cvars, mvars>>

Proceed(next) ==
  /\ stage' = next
  /\ UNCHANGED <<argc, command, disk, exited, cvars, mvars>>

At(where) == exited = "no" /\ stage = where

main ==
  /\ At("main")
  /\ \/ (argc \notin 2..3 \/ command = "other") /\ Exit("failure")
     \/ argc \in 2..3 /\ command = "version" /\ Exit("success")
     \/ argc \in 2..3 /\ command \in {"check", "dump", "run"} /\ Proceed("read_file")

(* Without argv[2] the name is NULL, and there is no such file.            *)
open_file == argc = 3 /\ disk \notin {"missing", "locked"}

(* fread has read one block of the length that file_size has found.        *)
fread == disk \notin {"empty", "cut after file_size"}

read_file ==
  /\ At("read_file")
  /\ \/ (MemoryMayFail \/ ~open_file \/ ~fread) /\ Exit("failure")
     \/ open_file /\ fread /\ Proceed("compile")

compile == At("compile") /\ Compile /\ UNCHANGED <<process, mvars>>

run_whatever_was_compiled ==
  /\ At("compile") /\ command = "run" /\ phase \in {"done", "failed"}
  /\ status \notin {"halted", "trapped"}
  /\ Machine!Next
  /\ UNCHANGED <<process, file, src, emit, pos, calls, comps, phase>>

(* vm_init and vm_run, once compile has returned without an error.         *)
run ==
  /\ At("compile") /\ command = "run" /\ phase = "done"
  /\ status \notin {"halted", "trapped"}
  /\ Machine!Next
  /\ UNCHANGED <<process, file, src, emit, pos, calls, comps, phase>>

Ran == IF status = "trapped" THEN {"killed"}
       ELSE IF result = "ok" THEN {"success"} ELSE {"failure"}

Endings_not_looked_at ==
  CASE phase = "failed"                     -> {"failure"}
    [] phase = "done" /\ command # "run"    -> {"success"}
    [] phase = "done" /\ status = "trapped" -> {"killed"}
    [] phase = "done" /\ status = "halted"  -> {"success"}
    [] OTHER                                -> {}

(* How the process may end now: by panic, at the end of main or by a       *)
(* signal; in any way once memory has been overwritten.                    *)
Endings ==
  CASE phase = "failed"                  -> {"failure"}
    [] phase = "undefined"               -> {"success", "failure", "killed"}
    [] phase = "done" /\ command # "run" -> {"success"}
    [] phase = "done" /\ status \in {"halted", "trapped"} -> Ran
    [] OTHER                             -> {}

exit == At("compile") /\ \E how \in Endings : Exit(how)

Gone == exited # "no" /\ UNCHANGED rvars

RNext == main \/ read_file \/ compile \/ run \/ exit \/ Gone

RSpec == RInit /\ [][RNext]_rvars

(* One thread runs and nothing blocks it.                                  *)
RFairSpec == RSpec /\ WF_rvars(RNext)
=============================================================================
