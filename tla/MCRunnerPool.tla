---------------------------- MODULE MCRunnerPool ----------------------------
(***************************************************************************)
(* A small instance of RunnerPool.                                          *)
(***************************************************************************)
EXTENDS RunnerPool, TLC

CONSTANTS j1, j2, w1, w2

TwoJobs    == {j1, j2}
TwoWorkers == {w1, w2}

\* Idle names an arbitrary job, so jobs are not symmetric.
Symmetry == Permutations(Workers)
=============================================================================
