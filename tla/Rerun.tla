------------------------------- MODULE Rerun -------------------------------
(***************************************************************************)
(* The rerun of one execution of a job that failed on its runner: the      *)
(* completed task, which may find that the VM was preempted, and the rerun *)
(* tasks that wait for the rest of the run.  GitHub, a newer push and      *)
(* people finish, cancel and rerun the same run meanwhile.  As in          *)
(* Provisioning, a handler does one outside call per step.                 *)
(***************************************************************************)
EXTENDS TaskQueue, FiniteSets

CONSTANTS
    Workers,        \* concurrent requests the orchestrator can be handling
    Faults,         \* what the environment may do wrong, see AllFaults
    RerunAttempts,  \* webhook.go: rerunAttempts
    MaxRunAttempt,  \* bound: the last attempt people take the run to
    Slots           \* bound: seconds that tasks deferred in them may be open

AllFaults == {"crash", "timeout", "apiError", "lostReply",  \* see Provisioning
              "partialList",    \* AggregatedList leaves out the preemption
              "refusal"}        \* the App may not rerun jobs

ASSUME RerunAssumption ==
    /\ RerunAttempts \in Nat \ {0}
    /\ MaxRunAttempt \in Nat
    /\ RerunAttempts <= MaxRunAttempt
    /\ Slots \in Nat \ {0, 1}
    /\ Faults \subseteq AllFaults

VARIABLES
    job,        \* the execution, as the completed event tells it
    run,        \* the run it belongs to, on GitHub
    listed,     \* the run's latest jobs still list the execution
    now,        \* the second it is, modulo Slots
    tasks,      \* the queue
    handler,    \* the request each worker is handling
    asked,      \* history: the attempts our reruns began
    ended       \* history: why a rerun was given up

vars == <<job, run, listed, now, tasks, handler, asked, ended>>
githubVars == <<job, run, listed>>

-----------------------------------------------------------------------------
(* Names and types *)

\* The name of a deferred rerun carries its second, and is never used again:
\* a slot stands for another second each time `now` comes round to it.
Completed   == <<"completed", 0>>
Deferred(t) == <<"rerun", t>>
Times       == 0 .. (Slots - 1)
RerunNames  == {"rerun"} \X Times
TaskNames   == {Completed} \cup RerunNames

RunAttempts == 1..MaxRunAttempt

Job == [preempted : BOOLEAN, attempt : RunAttempts]
Run == [status : {"busy", "completed"}, cancelled : BOOLEAN,
        attempt : RunAttempts]

PCs == {"idle", "preemption", "list", "fetchRun", "post", "listAgain",
        "delete", "defer", "reply"}
Reasons == {"overlooked", "attempts", "cancelled", "exhausted"}

\* live: the queue still waits for this reply.  seen: the attempt the job was
\* listed with.  deferred: the completed task has a rerun to schedule.
Handler == [pc : PCs, task : TaskNames, live : BOOLEAN,
            seen : 0..MaxRunAttempt, deferred : BOOLEAN, ok : BOOLEAN]

Idle == [pc |-> "idle", task |-> Completed, live |-> FALSE, seen |-> 0,
         deferred |-> FALSE, ok |-> TRUE]

TypeOK ==
    /\ job \in Job
    /\ run \in Run
    /\ listed \in BOOLEAN
    /\ now \in Times
    /\ tasks \in [TaskNames -> Task]
    /\ handler \in [Workers -> Handler]
    /\ asked \subseteq RunAttempts
    /\ ended \subseteq Reasons

\* The execution belongs to the attempt the run is in.
Init ==
    /\ job \in Job
    /\ run = [status |-> "busy", cancelled |-> FALSE, attempt |-> job.attempt]
    /\ listed = TRUE
    /\ now = 0
    /\ tasks = [n \in TaskNames |-> NoTask]
    /\ handler = [w \in Workers |-> Idle]
    /\ asked = {}
    /\ ended = {}

-----------------------------------------------------------------------------
(* Requests *)

At(w, pc)   == handler[w].pc = pc
Goto(w, pc) == handler' = [handler EXCEPT ![w].pc = pc]

Done(w, ok) == handler' = [handler EXCEPT ![w].pc = "reply", ![w].ok = ok]

CallFails(w) == "apiError" \in Faults /\ Done(w, FALSE)

\* The queue learns that an attempt failed, and may have been the last.
Unanswered(n) ==
    /\ tasks' = Failed(tasks, n)
    /\ ended' = IF tasks'[n].state = "exhausted" THEN ended \cup {"exhausted"}
                                                 ELSE ended

\* A second completed delivery finds the name taken and is dropped.
Webhook ==
    /\ ~Taken(tasks, Completed)
    /\ tasks' = Created(tasks, Completed, 0)
    /\ UNCHANGED <<githubVars, now, handler, asked, ended>>

\* A deferred rerun is not delivered in the second it was made.
Dispatch(w, n) ==
    /\ At(w, "idle")
    /\ tasks[n].state = "due"
    /\ n # Deferred(now)
    /\ tasks' = Dispatched(tasks, n)
    /\ handler' = [handler EXCEPT ![w] =
           [Idle EXCEPT !.pc = IF n = Completed THEN "preemption" ELSE "list",
                        !.task = n, !.live = TRUE]]
    /\ UNCHANGED <<githubVars, now, asked, ended>>

Reply(w) ==
    /\ At(w, "reply")
    /\ \/ /\ handler[w].live /\ handler[w].ok
          /\ tasks' = Acknowledged(tasks, handler[w].task)
          /\ UNCHANGED ended
       \/ handler[w].live /\ ~handler[w].ok /\ Unanswered(handler[w].task)
       \/ ~handler[w].live /\ UNCHANGED <<tasks, ended>>
    /\ handler' = [handler EXCEPT ![w] = Idle]
    /\ UNCHANGED <<githubVars, now, asked>>

Crash(w) ==
    /\ "crash" \in Faults
    /\ ~At(w, "idle")
    /\ \/ handler[w].live /\ Unanswered(handler[w].task)
       \/ ~handler[w].live /\ UNCHANGED <<tasks, ended>>
    /\ handler' = [handler EXCEPT ![w] = Idle]
    /\ UNCHANGED <<githubVars, now, asked>>

Timeout(w) ==
    /\ "timeout" \in Faults
    /\ handler[w].live
    /\ Unanswered(handler[w].task)
    /\ handler' = [handler EXCEPT ![w].live = FALSE]
    /\ UNCHANGED <<githubVars, now, asked>>

-----------------------------------------------------------------------------
(* handleCompleted and handleRerun *)

\* rerunWorkflowJob returned nil: a completed task deletes the VM.
Settled(w) ==
    IF handler[w].task = Completed THEN Goto(w, "delete") ELSE Done(w, TRUE)

\* Broken variant: a rerun task that finds the run busy is finished with.
RunBusyDropped(w) ==
    IF handler[w].task = Completed
    THEN handler' = [handler EXCEPT ![w].pc = "delete", ![w].deferred = TRUE]
    ELSE Done(w, TRUE)

\* rerunWorkflowJob returned errRunBusy: a completed task deletes the VM before
\* it defers the rerun.
RunBusy(w) ==
    IF handler[w].task = Completed
    THEN handler' = [handler EXCEPT ![w].pc = "delete", ![w].deferred = TRUE]
    ELSE Goto(w, "defer")

\* rerunIfPreempted, up to rerunWorkflowJob.
Preemption(w) ==
    /\ At(w, "preemption")
    /\ \/ /\ job.preempted /\ job.attempt < RerunAttempts
          /\ Goto(w, "list")
          /\ UNCHANGED ended
       \/ /\ job.preempted /\ job.attempt >= RerunAttempts
          /\ Goto(w, "delete")
          /\ ended' = ended \cup {"attempts"}
       \/ /\ ~job.preempted \/ "partialList" \in Faults
          /\ Goto(w, "delete")
          /\ ended' = IF job.preempted THEN ended \cup {"overlooked"} ELSE ended
       \/ CallFails(w) /\ UNCHANGED ended
    /\ UNCHANGED <<githubVars, now, tasks, asked>>

\* Broken variant: the attempt of the event stands for that of the copy.
SpentForPayload == job.attempt >= RerunAttempts

\* Reruns of other jobs took the execution as far as ours may.
Spent == run.attempt >= RerunAttempts

\* Broken variant: the job is recognised by its name alone.
ListedByName == TRUE

\* listedJob finds the execution.  The copies a rerun makes of the jobs it
\* leaves alone have its attempt number.
Listed == listed

List(w) ==
    /\ At(w, "list")
    /\ \/ ~Listed /\ Settled(w) /\ UNCHANGED ended
       \/ /\ Listed /\ Spent
          /\ Settled(w)
          /\ ended' = ended \cup {"attempts"}
       \/ /\ Listed /\ ~Spent
          /\ handler' = [handler EXCEPT ![w].pc = "fetchRun",
                                        ![w].seen = run.attempt]
          /\ UNCHANGED ended
       \/ CallFails(w) /\ UNCHANGED ended
    /\ UNCHANGED <<githubVars, now, tasks, asked>>

FetchRun(w) ==
    /\ At(w, "fetchRun")
    /\ \/ run.status = "busy" /\ RunBusy(w) /\ UNCHANGED ended
       \/ /\ run.status = "completed" /\ run.cancelled
          /\ Settled(w)
          /\ ended' = ended \cup {"cancelled"}
       \/ /\ run.status = "completed" /\ ~run.cancelled
          /\ Goto(w, "post")
          /\ UNCHANGED ended
       \/ CallFails(w) /\ UNCHANGED ended
    /\ UNCHANGED <<githubVars, now, tasks, asked>>

\* The id posted is that of the copy in the attempt seen: GitHub reruns it
\* while that attempt is the latest and has come to its end.
Acceptable(w) == run.status = "completed" /\ handler[w].seen = run.attempt

NextAttempt ==
    run' = [status |-> "busy", cancelled |-> FALSE, attempt |-> run.attempt + 1]

Post(w) ==
    /\ At(w, "post")
    /\ \/ /\ Acceptable(w)
          /\ NextAttempt
          /\ listed' = FALSE
          /\ asked' = asked \cup {run.attempt + 1}
          /\ Settled(w) \/ ("lostReply" \in Faults /\ Done(w, FALSE))
       \/ /\ ~Acceptable(w) \/ "refusal" \in Faults
          /\ Goto(w, "listAgain")
          /\ UNCHANGED <<run, listed, asked>>
       \/ CallFails(w) /\ UNCHANGED <<run, listed, asked>>
    /\ UNCHANGED <<job, now, tasks, ended>>

\* A refusal counts as done only when the execution is gone from the list.
ListAgain(w) ==
    /\ At(w, "listAgain")
    /\ \/ ~Listed /\ Settled(w)
       \/ Listed /\ Done(w, FALSE)
       \/ CallFails(w)
    /\ UNCHANGED <<githubVars, now, tasks, asked, ended>>

\* Broken variant: the deferred rerun ends with the deletion of the VM.
DeleteOnly(w) ==
    /\ At(w, "delete")
    /\ Done(w, TRUE) \/ CallFails(w)
    /\ UNCHANGED <<githubVars, now, tasks, asked, ended>>

\* deleteRunnerVM; the VM itself is no part of this module.
Delete(w) ==
    /\ At(w, "delete")
    /\ \/ handler[w].deferred /\ Goto(w, "defer")
       \/ ~handler[w].deferred /\ Done(w, TRUE)
       \/ CallFails(w)
    /\ UNCHANGED <<githubVars, now, tasks, asked, ended>>

\* deferRerun.  A name that is taken is an error here, unlike in scheduleCheck.
Defer(w) ==
    /\ At(w, "defer")
    /\ LET n == Deferred(now) IN
       \/ /\ ~Taken(tasks, n)
          /\ tasks' = Created(tasks, n, 0)
          /\ Done(w, TRUE) \/ ("lostReply" \in Faults /\ Done(w, FALSE))
       \/ Taken(tasks, n) /\ Done(w, FALSE) /\ UNCHANGED tasks
       \/ CallFails(w) /\ UNCHANGED tasks
    /\ UNCHANGED <<githubVars, now, asked, ended>>

-----------------------------------------------------------------------------
(* GitHub, people and time *)

RunEnds ==
    /\ run.status = "busy"
    /\ run' = [run EXCEPT !.status = "completed"]
    /\ UNCHANGED <<job, listed, now, tasks, handler, asked, ended>>

\* A newer push or a person cancels the run.
Cancel ==
    /\ run.status = "busy"
    /\ run' = [run EXCEPT !.status = "completed", !.cancelled = TRUE]
    /\ UNCHANGED <<job, listed, now, tasks, handler, asked, ended>>

\* A person reruns the job, or another, which copies the execution along.
PersonReruns ==
    /\ run.status = "completed"
    /\ run.attempt < MaxRunAttempt
    /\ NextAttempt
    /\ listed' \in {listed, FALSE}
    /\ UNCHANGED <<job, now, tasks, handler, asked, ended>>

\* The names of the second that begins have never been used.
Tick ==
    LET next == Deferred((now + 1) % Slots) IN
    /\ ~Active(tasks, next)
    /\ now' = (now + 1) % Slots
    /\ tasks' = [tasks EXCEPT ![next] = NoTask]
    /\ UNCHANGED <<githubVars, handler, asked, ended>>

-----------------------------------------------------------------------------
HandlerStep(w) ==
    \/ Preemption(w) \/ List(w) \/ FetchRun(w) \/ Post(w) \/ ListAgain(w)
    \/ Delete(w) \/ Defer(w) \/ Reply(w)

Next ==
    \/ Webhook
    \/ \E w \in Workers :
          \/ \E n \in TaskNames : Dispatch(w, n)
          \/ HandlerStep(w)
          \/ Crash(w)
          \/ Timeout(w)
    \/ RunEnds \/ Cancel \/ PersonReruns \/ Tick

Spec == Init /\ [][Next]_vars

\* The queue delivers, requests run to their reply, time passes, and GitHub
\* ends every run sooner or later.
Fairness ==
    /\ \A n \in TaskNames : WF_vars(\E w \in Workers : Dispatch(w, n))
    /\ \A w \in Workers : WF_vars(HandlerStep(w))
    /\ WF_vars(Tick) /\ WF_vars(RunEnds)

FairSpec == Spec /\ Fairness

-----------------------------------------------------------------------------
(* Properties *)

\* However often the tasks are repeated, overlap or lose their replies, the
\* execution is rerun once: what came of the rerun is not rerun in its place
\* (github.go:416 "Only a rerun that took is done").
RerunOnce == Cardinality(asked) <= 1

\* A rerun is asked for at the moment it is due and no other: the VM was
\* preempted, the run is over and nobody cancelled it since it was looked at,
\* and the attempt begun is within the cap whatever others reran meanwhile.
RerunDeserved ==
    [][asked' # asked =>
          /\ job.preempted /\ listed
          /\ run.status = "completed" /\ ~run.cancelled
          /\ run'.attempt <= RerunAttempts]_vars

Pending == \E n \in TaskNames : Active(tasks, n)

\* A preempted execution that nobody reran is still being looked after, unless
\* there was a reason to give up on it.
PreemptionRemembered ==
    (job.preempted /\ listed /\ Taken(tasks, Completed)) => ended # {} \/ Pending

Promise == INSTANCE RerunPromise WITH inHand <- Pending, grounds <- ended

\* The tasks and requests together keep the promise: the last task ends only
\* with nothing left to do, a rerun is made only when it is due, and each ground
\* for giving up exists when it is recorded (handleCompleted, handleRerun).
PromiseKept == Promise!Spec

\* A preempted execution is rerun in the end (labels.md:82 "re-runs a job whose
\* VM was preempted mid-run, up to three attempts in total").
PreemptedIsRerun ==
    (job.preempted /\ Taken(tasks, Completed)) ~> (~listed \/ ended # {})
=============================================================================
