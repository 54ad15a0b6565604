---------------------------- MODULE MachineProofs ----------------------------
(***************************************************************************)
(* All that is proved of the machine: its calls and its values.            *)
(***************************************************************************)
EXTENDS ActivationProofs, LayoutProofs
=============================================================================
