----------------------------- MODULE CheckChain -----------------------------
(***************************************************************************)
(* What the check tasks of one job promise, whatever happens to the        *)
(* requests that run them: one chain of steps, each scheduled once and     *)
(* after its predecessor, that counts at most Reprovisions replacements    *)
(* one at a time.                                                          *)
(***************************************************************************)
EXTENDS Naturals

CONSTANT Reprovisions

VARIABLES
    steps,      \* checks scheduled so far
    counted     \* replacements the newest of them counts

Init == steps = 0 /\ counted = 0

\* The queued task schedules the first check.
Start ==
    /\ steps = 0
    /\ steps' = 1
    /\ UNCHANGED counted

\* A check finds the VM there, or gone and not yet replaced too often.
Extend ==
    /\ steps > 0
    /\ steps' = steps + 1
    /\ \/ counted' = counted
       \/ counted < Reprovisions /\ counted' = counted + 1

Next == Start \/ Extend

Spec == Init /\ [][Next]_<<steps, counted>>
=============================================================================
