--------------------------- MODULE MCProvisioning ---------------------------
(***************************************************************************)
(* Small instances of Provisioning.                                         *)
(***************************************************************************)
EXTENDS Provisioning, TLC

CONSTANTS w1, w2, z1, z2

OneWorker  == {w1}
TwoWorkers == {w1, w2}
OneZone    == {z1}
TwoZones   == {z1, z2}

\* Workers are interchangeable, and so are zones.
Symmetry == Permutations(Workers) \cup Permutations(Zones)
=============================================================================
