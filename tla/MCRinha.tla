------------------------------ MODULE MCRinha ------------------------------
(***************************************************************************)
(* The interpreter on whole programs, against what the programs mean.      *)
(***************************************************************************)
EXTENDS RinhaSafety, MCTerms

AllTerms == Curated \o CaptureTerms \o Rejected

FilesOf(terms) == [i \in DOMAIN terms |-> File(terms[i])]

MCFiles == FilesOf(AllTerms)

MCLetFiles  == FilesOf(NestedLets)
MCCallFiles == FilesOf(NestedCalls)

MCBegins(t, w) == BeginsWith(t, w)
MCChars(t)     == CodesOf(t)

RECURSIVE Tree(_)
Tree(v) ==
  CASE v.type = "tuple" -> Pair(Tree(tuples[v.val].first), Tree(tuples[v.val].second))
    [] v.type = "str"   -> Text(strs[v.val])
    [] v.type = "int"   -> Num(v.val)
    [] v.type = "bool"  -> Bool(v.val = 1)
    [] OTHER            -> Closure(v.val - 1)   \* closure 1 is the program

Printed == [i \in DOMAIN out |-> Tree(out[i])]

Limits == {"out of memory", "stack overflow", "too many nested calls"}

(* A program that is compiled and run prints what it means and ends the    *)
(* way it means to, with the value it means, unless memory or one of the   *)
(* stacks runs out; until then it has printed the same.                    *)
RunsAsMeant(terms) ==
  phase = "done" /\ status \in {"halted", "trapped"} =>
    LET meaning == Meaning(terms[file])
    IN \/ /\ result \in Limits
          /\ IsPrefix(Printed, meaning.out)
       \/ /\ Printed = meaning.out
          /\ meaning.status = IF status = "trapped" THEN "trap"
                              ELSE IF result = "ok" THEN "ok" ELSE "error"
          /\ meaning.status = "ok" => Tree(stack[top]) = meaning.v

RunsAsReference == RunsAsMeant(AllTerms)

(* The exit status tells the truth.  The process succeeds only if the file *)
(* could be read and compiled and, for run, if the program means to end    *)
(* without an error; it fails only for one of these reasons or because a   *)
(* limit was hit, and is killed only by a division that traps.             *)
ExitsAsMeant ==
  LET program  == AllTerms[file]
      rejected == program = Unknown \/ (program = TooLarge /\ emit)
      misused  == argc \notin 2..3 \/ command = "other"
      unread   == argc # 3 \/ disk # "readable"
      Means(how) == command = "run" /\ Meaning(program).status = how
  IN /\ ExitTells
     /\ exited = "success" =>
          /\ ~misused
          /\ command # "version" =>
               ~unread /\ ~rejected /\ ~Means("error") /\ ~Means("trap")
     /\ exited = "killed" => ~misused /\ ~unread /\ ~rejected /\ Means("trap")
     /\ exited = "failure" =>
          \/ misused \/ unread \/ rejected
          \/ MemoryMayFail /\ phase = "idle"
          \/ result \in Limits
          \/ Means("error")

(* docs/rinha.ebnf:22: a let is a prim_expr, and so can be an operand, the *)
(* branch of an if or the value of a let.                                  *)
LetsAnywhere == RunsAsMeant(NestedLets)

(* docs/rinha.ebnf:23: so can an if, whatever its branches are.            *)
CallsAnywhere == RunsAsMeant(NestedCalls)

(* The process ends.                                                       *)
Exits == <>(exited # "no")
=============================================================================
