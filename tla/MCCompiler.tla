----------------------------- MODULE MCCompiler -----------------------------
(***************************************************************************)
(* The compiler on the files of whole programs.                            *)
(***************************************************************************)
EXTENDS CompilerSafety, MCCertificates, MCTerms

(* As many functions as a byte can number, and as many parameters as a     *)
(* Compiler record has variables.                                          *)
MCTermList == Curated \o CaptureTerms \o <<Siblings(32), Wide(31)>>

ASSUME \A i \in DOMAIN MCTermList :
         LetsFirst(MCTermList[i], TRUE) /\ CallsLast(MCTermList[i], TRUE)

AllTerms == MCTermList \o Rejected

FilesOf(terms) == [i \in DOMAIN terms |-> File(terms[i])]

MCFiles == FilesOf(AllTerms)

MCLeakFiles == FilesOf(Leaks)
MCManyFiles == FilesOf(ManyVariables)

MCBegins(t, w) == BeginsWith(t, w)
MCChars(t)     == CodesOf(t)

(* A program in which lets come first and calls last is disciplined all    *)
(* the while, and what run is given for it is certified: the virtual       *)
(* machine reads no cell that was not written, enters no operand as an     *)
(* instruction and leaves each frame as it should.                         *)
CompiledIsCertified ==
  /\ Disciplined
  /\ phase = "done" /\ emit =>
       CertifiedBy([functions |-> functions, strs |-> strs],
                   [f \in Range_(functions) |-> CertificateOf(f)])

(* Programs are rejected for a name that is not declared and, where code   *)
(* is emitted, for an int that is too large; no others are.                *)
RejectsOnly ==
  phase \in {"failed", "undefined"} =>
    \/ result = "out of memory"
    \/ /\ AllTerms[file] = Unknown
       /\ result = "variable is used but not defined"
    \/ AllTerms[file] = TooLarge /\ emit /\ result = "integer overflow"

(* compiler.c:167 tells a program that uses a variable that is not defined *)
(* so; the others are those in which each use is inside the let or the     *)
(* function that declares it.                                              *)
RejectsUndefined == phase = "done" => Scoped(Leaks[file], {})

(* compiler.c:141-145 answers a variable too many with an error.           *)
TooManyIsReported == phase # "undefined"
=============================================================================
