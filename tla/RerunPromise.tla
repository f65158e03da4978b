---------------------------- MODULE RerunPromise ----------------------------
(***************************************************************************)
(* What the orchestrator promises of a job that failed on its runner,      *)
(* whatever happens to the tasks and requests that see to it: somebody has *)
(* it in hand until there is nothing left to do, it is rerun only when     *)
(* that is due, and it is given up only on a ground that really exists.    *)
(***************************************************************************)
EXTENDS Naturals

CONSTANTS
    RerunAttempts,  \* the attempt beyond which nothing is rerun
    MaxRunAttempt   \* bound: the last attempt people take the run to

VARIABLES
    job,        \* the execution: whether its VM was preempted, its attempt
    run,        \* the run it belongs to
    listed,     \* the run still has this execution and none in its place
    inHand,     \* somebody has still to see to it
    grounds     \* on which it was given up

promised == <<job, run, listed, inHand, grounds>>

Attempts == 1..MaxRunAttempt

Init ==
    /\ job \in [preempted : BOOLEAN, attempt : Attempts]
    /\ run = [status |-> "busy", cancelled |-> FALSE, attempt |-> job.attempt]
    /\ listed = TRUE
    /\ inHand = FALSE
    /\ grounds = {}

NextAttempt ==
    run' = [status |-> "busy", cancelled |-> FALSE, attempt |-> run.attempt + 1]

TakeInHand ==
    /\ ~inHand /\ inHand' = TRUE
    /\ UNCHANGED <<job, run, listed, grounds>>

\* There is a rerun that nobody made or refused to make.
Due == job.preempted /\ listed /\ grounds = {}

LetGo ==
    /\ inHand /\ ~Due
    /\ inHand' = FALSE
    /\ UNCHANGED <<job, run, listed, grounds>>

Rerun ==
    /\ job.preempted /\ listed
    /\ run.status = "completed" /\ ~run.cancelled
    /\ run.attempt < RerunAttempts
    /\ NextAttempt
    /\ listed' = FALSE
    /\ UNCHANGED <<job, inHand, grounds>>

GiveUp(ground) ==
    /\ job.preempted
    /\ \/ ground = "attempts" /\ run.attempt >= RerunAttempts
       \/ ground = "cancelled" /\ run.status = "completed" /\ run.cancelled
       \/ ground = "overlooked"
    /\ grounds' = grounds \cup {ground}
    /\ UNCHANGED <<job, run, listed, inHand>>

\* The queue gives up a task; another may still be there.
Exhaust ==
    /\ inHand
    /\ grounds' = grounds \cup {"exhausted"}
    /\ inHand' \in BOOLEAN
    /\ UNCHANGED <<job, run, listed>>

\* The run and the people who use it.
RunEnds ==
    /\ run.status = "busy"
    /\ \E cancelled \in {run.cancelled, TRUE} :
          run' = [run EXCEPT !.status = "completed", !.cancelled = cancelled]
    /\ UNCHANGED <<job, listed, inHand, grounds>>

PersonReruns ==
    /\ run.status = "completed"
    /\ run.attempt < MaxRunAttempt
    /\ NextAttempt
    /\ listed' \in {listed, FALSE}
    /\ UNCHANGED <<job, inHand, grounds>>

Next ==
    \/ TakeInHand \/ LetGo \/ Rerun \/ Exhaust
    \/ \E ground \in {"attempts", "cancelled", "overlooked"} : GiveUp(ground)
    \/ RunEnds \/ PersonReruns

Spec == Init /\ [][Next]_promised
=============================================================================
