----------------------------- MODULE MCAppSetup -----------------------------
(***************************************************************************)
(* A small instance of AppSetup.                                           *)
(***************************************************************************)
EXTENDS AppSetup, TLC

EveryFault == AllFaults

Symmetry == Permutations(Apps) \cup Permutations(Callbacks)
=============================================================================
