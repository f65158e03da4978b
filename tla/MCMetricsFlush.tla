--------------------------- MODULE MCMetricsFlush ---------------------------
(***************************************************************************)
(* A small instance of MetricsFlush.                                       *)
(***************************************************************************)
EXTENDS MetricsFlush

EveryFault == AllFaults
=============================================================================
