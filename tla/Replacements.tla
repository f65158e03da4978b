---------------------------- MODULE Replacements ----------------------------
(***************************************************************************)
(* Provisioning with two history variables: how many VMs the check tasks   *)
(* of the job have created, and how often an attempt at a check was made   *)
(* again.                                                                  *)
(***************************************************************************)
EXTENDS Provisioning

VARIABLES replaced, repeats

CountsVM == \E w \in Workers :
    /\ At(w, "insert") /\ IsCheck(handler[w].task)
    /\ \E z \in Zones : Insert(w, z) /\ vm'[z] # vm[z]

CountsRepeat == \E w \in Workers, n \in CheckNames :
    Dispatch(w, n) /\ tasks[n].attempts > 0

ReplacementsInit == Init /\ replaced = 0 /\ repeats = 0

ReplacementsNext ==
    /\ Next
    /\ replaced' = replaced + (IF CountsVM THEN 1 ELSE 0)
    /\ repeats'  = repeats + (IF CountsRepeat THEN 1 ELSE 0)

ReplacementsSpec ==
    ReplacementsInit /\ [][ReplacementsNext]_<<vars, replaced, repeats>>

\* Checks create as many VMs as the newest payload counts, and at most one
\* more each time an attempt at a check is repeated: a check that died after
\* it scheduled its successor replaces again what the successor counted once.
\* (With several zones and an insertion reported failed that took effect, one
\* attempt may leave a VM in each zone, so this is said of one zone, or of
\* replies that arrive.)
ReplacementsCounted == replaced <= NewestCount + repeats
=============================================================================
