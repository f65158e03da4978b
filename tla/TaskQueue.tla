----------------------------- MODULE TaskQueue -----------------------------
(***************************************************************************)
(* The Cloud Tasks queue as queue.go uses it: a task is created under a    *)
(* name, delivered at least once, retried until it is acknowledged or out  *)
(* of attempts, and its name stays taken after that.  Cloud Tasks keeps it *)
(* for hours (webhook.go:761); here it is kept for good, unless the module *)
(* that uses the queue frees it, as Rerun does.  A queue is a function     *)
(* from names to tasks; each operator below gives the queue after one      *)
(* operation.  The schedule time of a task is abstracted: a due task may   *)
(* be delivered at any later moment.                                       *)
(***************************************************************************)
EXTENDS Naturals

CONSTANT MaxAttempts    \* queue.tf: max_attempts

ASSUME MaxAttemptsAssumption == MaxAttempts \in Nat \ {0}

TaskStates == {"none", "due", "running", "done", "exhausted"}

\* `count` is the one field of a payload that any handler reads back and
\* changes, gcrunner_provisioned of a check task.
Task == [state : TaskStates, attempts : 0..MaxAttempts, count : Nat]

NoTask == [state |-> "none", attempts |-> 0, count |-> 0]

Taken(q, n)  == q[n].state # "none"
Active(q, n) == q[n].state \in {"due", "running"}

\* CreateTask.  The caller checks Taken first: a taken name is refused with
\* AlreadyExists and the queue is left as it is.
Created(q, n, count) ==
    [q EXCEPT ![n] = [state |-> "due", attempts |-> 0, count |-> count]]

Dispatched(q, n) ==
    [q EXCEPT ![n].state = "running", ![n].attempts = @ + 1]

\* A task that is finished with keeps its name and payload only.
Acknowledged(q, n) == [q EXCEPT ![n].state = "done", ![n].attempts = 0]

\* Broken variant: one attempt too many.
FailedOneMore(q, n) ==
    IF q[n].attempts <= MaxAttempts
    THEN [q EXCEPT ![n].state = "due"]
    ELSE [q EXCEPT ![n].state = "exhausted", ![n].attempts = 0]

\* A failed, lost or timed-out attempt: another one while any is left.
Failed(q, n) ==
    IF q[n].attempts < MaxAttempts
    THEN [q EXCEPT ![n].state = "due"]
    ELSE [q EXCEPT ![n].state = "exhausted", ![n].attempts = 0]
=============================================================================
