--------------------------- MODULE MCSharedFetch ----------------------------
(***************************************************************************)
(* A small instance of SharedFetch.                                        *)
(***************************************************************************)
EXTENDS SharedFetch

EveryFault == AllFaults
=============================================================================
