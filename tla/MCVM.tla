-------------------------------- MODULE MCVM --------------------------------
(***************************************************************************)
(* Runs of whole programs: their certificates, and what they must print.   *)
(***************************************************************************)
EXTENDS VMLayout, VMActivations, MCPrograms, MCCertificates

MCPrograms_ == {ProgramCaptures, ProgramFib, ProgramLoop, ProgramSum(3),
                ProgramSum(4), ProgramWiden, ProgramNotCallable,
                ProgramArity, ProgramText, ProgramTopTail, ProgramCurryTail,
                ProgramCondArg, ProgramNop, ProgramTrap, ProgramSelf,
                ProgramDeep(18), ProgramDeep(19),
                ProgramEnds}

MCDepth ==
  [fns \in {p.functions : p \in MCPrograms_} |->
     [fn \in Elements(fns) |-> CertificateOf(fn)]]

-----------------------------------------------------------------------------
(* What the programs print, and the errors that need no small memory.      *)

RECURSIVE Tree(_)
Tree(v) == CASE is_tuple(v) -> <<Tree(tuples[v.val].first),
                                 Tree(tuples[v.val].second)>>
             [] is_str(v) -> strs[v.val]
             [] OTHER -> v

RECURSIVE DeepTree(_, _)
DeepTree(i, n) == IF i = n THEN int_value(n)
                  ELSE <<int_value(i), DeepTree(i + 1, n)>>

Prints(p) ==
  CASE p = ProgramCaptures  -> <<int_value(10)>>
    [] p = ProgramFib       -> <<int_value(3)>>
    [] p = ProgramLoop      -> <<int_value(1)>>
    [] p = ProgramSum(3)    -> <<int_value(6)>>
    [] p = ProgramWiden     -> <<TRUE_VALUE>>
    [] p = ProgramText      -> << <<97, 49, 50, 98>>, <<116, 114, 117, 101>> >>
    [] p = ProgramTopTail   -> <<int_value(2)>>
    [] p = ProgramCurryTail -> <<int_value(5)>>
    [] p = ProgramCondArg   -> <<int_value(3)>>
    [] p = ProgramSelf      -> << <<int_value(300), TRUE_VALUE>> >>
    [] p = ProgramDeep(18)  -> <<DeepTree(1, 19)>>
    [] p = ProgramEnds      -> << <<int_value(INT_MIN), int_value(INT_MAX)>> >>
    [] OTHER                -> <<>>

(* A run that ends without an error has printed what the source says,      *)
(* whichever calls were tail calls and however the frames were laid out.   *)
PrintsExpected ==
  \A p \in Programs :
    status = "halted" /\ result = "ok" /\ functions = p.functions =>
      [i \in DOMAIN out |-> Tree(out[i])] = Prints(p)

=============================================================================
