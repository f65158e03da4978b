---------------------------- MODULE Provisioning ----------------------------
(***************************************************************************)
(* One workflow job from its queued webhook to the moment it leaves        *)
(* GitHub's queue: the webhook handler, the queued task, the chain of      *)
(* check tasks, the GitHub registration of the job's runner and the VM of  *)
(* that name in every zone.  A handler runs on a worker and does one       *)
(* outside call per step, so two deliveries interleave between any two     *)
(* calls and a worker can die between them.                                *)
(***************************************************************************)
EXTENDS TaskQueue, FiniteSets

CONSTANTS
    Workers,        \* concurrent requests the orchestrator can be handling
    Zones,          \* zones the job may be placed in
    Reprovisions,   \* webhook.go: reprovisions
    Faults,         \* what the environment may do wrong, see AllFaults
    MaxStep,        \* bound: the last check step that can be created
    MaxWindow       \* bound: requeue windows that pass

AllFaults == {"crash",          \* a worker dies in the middle of a request
              "timeout",        \* the queue stops waiting, the worker goes on
              "apiError",       \* a call fails and changes nothing
              "lostReply",      \* a call takes effect and is reported failed
              "partialList",    \* AggregatedList leaves out a zone
              "redelivery",     \* GitHub sends the queued webhook again
              "refusal",        \* the run or its labels are refused
              "waiting"}        \* the job goes back to waiting and returns

ASSUME ProvisioningAssumption ==
    /\ Reprovisions \in Nat
    /\ MaxStep \in Nat \ {0}
    /\ MaxWindow \in Nat \ {0}
    /\ Faults \subseteq AllFaults
    /\ Workers \cap Zones = {}
    /\ Zones # {}

VARIABLES
    job,            \* the job's status on GitHub
    young,          \* created less than staleQueued ago
    window,         \* the current requeueWindow
    tasks,          \* the queue
    handler,        \* the request each worker is handling
    vm,             \* the VM of the job's name in each zone
    registration,   \* the runner of the job's name on GitHub
    holders,        \* workers and VMs holding that very registration
    ended           \* history: why the orchestrator let go of the job

vars == <<job, young, window, tasks, handler, vm, registration, holders,
          ended>>
githubVars == <<job, young, window>>
runnerVars == <<vm, registration, holders>>

-----------------------------------------------------------------------------
(* Names and types *)

\* job-ID-queued is Queued(0), job-ID-queued-<window> is Queued(window).
Queued(n) == <<"queued", n>>
Check(k)  == <<"check", k>>
QueuedNames == {"queued"} \X (0..MaxWindow)
CheckNames  == {"check"} \X (1..MaxStep)
TaskNames   == QueuedNames \cup CheckNames

IsCheck(n) == n[1] = "check"
Step(n)    == n[2]

\* "left" is in_progress or completed: no handler here tells them apart.
JobStates == {"queued", "waiting", "left"}

\* "up" is booting or listening, "busy" running this job or another with the
\* same labels; "stopping" has no runner any more and is deleting itself.
VMStates == {"none", "up", "busy", "stopping"}
RegistrationStates == {"none", "idle", "busy"}

PCs == {"idle", "leftQueue", "resolve", "failRun", "scheduleFirst",
        "status", "findChecked", "scheduleNext",
        "findVM", "findRunner", "removeRunner", "register", "insert",
        "findFailed", "removeFailed", "reply"}
Outcomes == {"none", "ok", "error", "permanent", "configuration"}
Reasons  == {"gaveUp", "permanent", "refused", "waiting"}

\* live: the queue still waits for this reply.  left: zones not tried yet.
Handler == [pc : PCs, task : TaskNames, live : BOOLEAN, gone : BOOLEAN,
            left : SUBSET Zones, out : Outcomes]

Idle == [pc |-> "idle", task |-> Queued(0), live |-> FALSE, gone |-> FALSE,
         left |-> {}, out |-> "none"]

TypeOK ==
    /\ job \in JobStates
    /\ young \in BOOLEAN
    /\ window \in 1..MaxWindow
    /\ tasks \in [TaskNames -> Task]
    /\ handler \in [Workers -> Handler]
    /\ vm \in [Zones -> VMStates]
    /\ registration \in RegistrationStates
    /\ holders \subseteq Workers \cup Zones
    /\ ended \subseteq Reasons

Init ==
    /\ job = "queued"
    /\ young = TRUE
    /\ window = 1
    /\ tasks = [n \in TaskNames |-> NoTask]
    /\ handler = [w \in Workers |-> Idle]
    /\ vm = [z \in Zones |-> "none"]
    /\ registration = "none"
    /\ holders = {}
    /\ ended = {}

-----------------------------------------------------------------------------
(* Helpers of the handlers *)

At(w, pc) == handler[w].pc = pc

Goto(w, pc) == handler' = [handler EXCEPT ![w].pc = pc]

Done(w, out) ==
    handler' = [handler EXCEPT ![w].pc = "reply", ![w].out = out]

\* A call that failed before it changed anything: the task is retried.
CallFails(w) ==
    /\ "apiError" \in Faults
    /\ Done(w, "error")

\* createRunnerVM returned nil: a queued task starts the chain of checks, a
\* check task already scheduled its successor.
Provisioned(w) ==
    IF IsCheck(handler[w].task) THEN Done(w, "ok") ELSE Goto(w, "scheduleFirst")

\* createRunnerVM returned an error.  handleCheck makes every one permanent;
\* provisionJob fails the run over a configuration error.
ProvisionFailed(w, out) ==
    CASE IsCheck(handler[w].task) -> Done(w, "permanent")
      [] ~IsCheck(handler[w].task) /\ out = "configuration" -> Goto(w, "failRun")
      [] OTHER -> Done(w, out)

\* What a search for the VM can report: a zone that has it, or none.
Held == {z \in Zones : vm[z] # "none"}
SearchFinds    == Held # {}
SearchOverlooks == Held = {} \/ "partialList" \in Faults

-----------------------------------------------------------------------------
(* The webhook handler and the queue *)

\* handleWebhook enqueues job-ID-queued; a taken name goes through requeue,
\* which uses the name of the current window and drops a second in it.
Webhook ==
    /\ \/ /\ ~Taken(tasks, Queued(0))
          /\ tasks' = Created(tasks, Queued(0), 0)
       \/ /\ "redelivery" \in Faults
          /\ Taken(tasks, Queued(0))
          /\ ~Taken(tasks, Queued(window))
          /\ tasks' = Created(tasks, Queued(window), 0)
    /\ UNCHANGED <<githubVars, handler, runnerVars, ended>>

\* A check at MaxStep is never delivered: it could not schedule the next one.
Dispatch(w, n) ==
    /\ At(w, "idle")
    /\ tasks[n].state = "due"
    /\ n # Check(MaxStep)
    /\ tasks' = Dispatched(tasks, n)
    /\ handler' = [handler EXCEPT ![w] =
           [Idle EXCEPT !.pc = IF IsCheck(n) THEN "status" ELSE "leftQueue",
                        !.task = n, !.live = TRUE]]
    /\ UNCHANGED <<githubVars, runnerVars, ended>>

\* HandleTask answers: 200 also for a permanent failure, 500 for the others.
Reply(w) ==
    /\ At(w, "reply")
    /\ tasks' = IF ~handler[w].live THEN tasks
                ELSE IF handler[w].out = "error"
                     THEN Failed(tasks, handler[w].task)
                     ELSE Acknowledged(tasks, handler[w].task)
    /\ ended' = IF handler[w].live /\ handler[w].out = "permanent"
                                   /\ ~IsCheck(handler[w].task)
                THEN ended \cup {"permanent"} ELSE ended
    /\ handler' = [handler EXCEPT ![w] = Idle]
    /\ holders' = holders \ {w}
    /\ UNCHANGED <<githubVars, vm, registration>>

Crash(w) ==
    /\ "crash" \in Faults
    /\ ~At(w, "idle")
    /\ tasks' = IF handler[w].live THEN Failed(tasks, handler[w].task)
                                   ELSE tasks
    /\ handler' = [handler EXCEPT ![w] = Idle]
    /\ holders' = holders \ {w}
    /\ UNCHANGED <<githubVars, vm, registration, ended>>

Timeout(w) ==
    /\ "timeout" \in Faults
    /\ handler[w].live
    /\ tasks' = Failed(tasks, handler[w].task)
    /\ handler' = [handler EXCEPT ![w].live = FALSE]
    /\ UNCHANGED <<githubVars, runnerVars, ended>>

-----------------------------------------------------------------------------
(* handleQueued: provisionJob up to createRunnerVM *)

LeftQueue(w) ==
    /\ At(w, "leftQueue")
    /\ \/ /\ young \/ job # "left"
          /\ Goto(w, "resolve")
       \/ /\ ~young
          /\ job = "left"
          /\ Done(w, "ok")
       \/ /\ ~young
          /\ CallFails(w)
    /\ UNCHANGED <<githubVars, tasks, runnerVars, ended>>

\* checkRunSource and resolveJob: a refusal is a configuration error.
Resolve(w) ==
    /\ At(w, "resolve")
    /\ \/ Goto(w, "findVM")
       \/ "refusal" \in Faults /\ Goto(w, "failRun")
       \/ CallFails(w)
    /\ UNCHANGED <<githubVars, tasks, runnerVars, ended>>

\* A failed check and a cancelled run, or nothing at all when the App is not
\* allowed to; either way provisionJob returns no runner and no error.
FailRun(w) ==
    /\ At(w, "failRun")
    /\ \/ /\ Done(w, "ok")
          /\ ended' = ended \cup {"refused"}
          /\ job' \in {job, "left"}
       \/ /\ CallFails(w)
          /\ UNCHANGED <<job, ended>>
    /\ UNCHANGED <<young, window, tasks, runnerVars>>

\* scheduleCheck, of the step and count given.  AlreadyExists is no error.
Scheduled(step, count) ==
    tasks' = IF Taken(tasks, Check(step)) THEN tasks
             ELSE Created(tasks, Check(step), count)

\* Broken variant: a check that could not be scheduled is only logged.
ScheduleFirstIgnored(w) ==
    /\ At(w, "scheduleFirst")
    /\ \/ Scheduled(1, 0)
       \/ "apiError" \in Faults /\ UNCHANGED tasks
    /\ Done(w, "ok")
    /\ UNCHANGED <<githubVars, runnerVars, ended>>

ScheduleFirst(w) ==
    /\ At(w, "scheduleFirst")
    /\ \/ Scheduled(1, 0) /\ Done(w, "ok")
       \/ "lostReply" \in Faults /\ Scheduled(1, 0) /\ Done(w, "error")
       \/ CallFails(w) /\ UNCHANGED tasks
    /\ UNCHANGED <<githubVars, runnerVars, ended>>

-----------------------------------------------------------------------------
(* handleCheck up to createRunnerVM *)

Status(w) ==
    /\ At(w, "status")
    /\ \/ /\ job = "queued"
          /\ Goto(w, "findChecked")
          /\ UNCHANGED ended
       \/ /\ job # "queued"
          /\ Done(w, "ok")
          /\ ended' = IF job = "waiting" THEN ended \cup {"waiting"} ELSE ended
       \/ /\ CallFails(w)
          /\ UNCHANGED ended
    /\ UNCHANGED <<githubVars, tasks, runnerVars>>

\* Broken variant: the limit is tested too late.
MayReplaceOneMore(w) == tasks[handler[w].task].count <= Reprovisions

\* The checks may still replace the runner.
MayReplace(w) == tasks[handler[w].task].count < Reprovisions

FindChecked(w) ==
    /\ At(w, "findChecked")
    /\ \/ /\ SearchFinds
          /\ handler' = [handler EXCEPT ![w].pc = "scheduleNext",
                                        ![w].gone = FALSE]
          /\ UNCHANGED ended
       \/ /\ SearchOverlooks
          /\ MayReplace(w)
          /\ handler' = [handler EXCEPT ![w].pc = "scheduleNext",
                                        ![w].gone = TRUE]
          /\ UNCHANGED ended
       \/ /\ SearchOverlooks
          /\ ~MayReplace(w)
          /\ Done(w, "ok")
          /\ ended' = ended \cup {"gaveUp"}
       \/ CallFails(w) /\ UNCHANGED ended
    /\ UNCHANGED <<githubVars, tasks, runnerVars>>

\* Broken variants: a replacement is not counted, or once per attempt.
NextCountForgotten(w) == tasks[handler[w].task].count
NextCountPerAttempt(w) ==
    tasks[handler[w].task].count
        + (IF handler[w].gone THEN tasks[handler[w].task].attempts ELSE 0)

\* The successor carries one more replacement when the VM was gone.
NextCount(w) ==
    tasks[handler[w].task].count + (IF handler[w].gone THEN 1 ELSE 0)

ScheduleNext(w) ==
    /\ At(w, "scheduleNext")
    /\ LET next == Step(handler[w].task) + 1 IN
       \/ /\ Scheduled(next, NextCount(w))
          /\ IF handler[w].gone THEN Goto(w, "findVM") ELSE Done(w, "ok")
       \/ /\ "lostReply" \in Faults
          /\ Scheduled(next, NextCount(w))
          /\ Done(w, "error")
       \/ CallFails(w) /\ UNCHANGED tasks
    /\ UNCHANGED <<githubVars, runnerVars, ended>>

-----------------------------------------------------------------------------
(* createRunnerVM, for a queued or a check task *)

\* Broken variants: a VM that is there ends the task, is not a reason to stop,
\* or counts only while it runs.
FindVMUnwatched(w) ==
    /\ At(w, "findVM")
    /\ IF SearchFinds THEN Done(w, "ok") ELSE Goto(w, "findRunner")
    /\ UNCHANGED <<githubVars, tasks, runnerVars, ended>>

FindVMStartsOver(w) ==
    /\ At(w, "findVM")
    /\ Goto(w, "findRunner")
    /\ UNCHANGED <<githubVars, tasks, runnerVars, ended>>

FindVMRunningOnly(w) ==
    /\ At(w, "findVM")
    /\ IF \E z \in Zones : vm[z] \in {"up", "busy"}
       THEN Provisioned(w) ELSE Goto(w, "findRunner")
    /\ UNCHANGED <<githubVars, tasks, runnerVars, ended>>

FindVM(w) ==
    /\ At(w, "findVM")
    /\ \/ SearchFinds /\ Provisioned(w)
       \/ SearchOverlooks /\ Goto(w, "findRunner")
       \/ "apiError" \in Faults /\ ProvisionFailed(w, "error")
    /\ UNCHANGED <<githubVars, tasks, runnerVars, ended>>

\* removeIdleRunner first looks the runner up: from then on the worker knows
\* the id of that registration.
FindRunner(w) ==
    /\ At(w, "findRunner")
    /\ \/ /\ registration = "none"
          /\ Goto(w, "register")
          /\ UNCHANGED holders
       \/ /\ registration = "idle"
          /\ Goto(w, "removeRunner")
          /\ holders' = holders \cup {w}
       \/ /\ registration = "busy" \/ "apiError" \in Faults
          /\ ProvisionFailed(w, "error")
          /\ UNCHANGED holders
    /\ UNCHANGED <<githubVars, tasks, vm, registration, ended>>

\* DELETE of the registration looked up: another worker may have removed it
\* meanwhile (404, no error) or GitHub given its runner a job (refused), or the
\* registration is gone and the answer is lost.
RemoveRunner(w) ==
    /\ At(w, "removeRunner")
    /\ \/ /\ w \in holders /\ registration = "idle"
          /\ registration' = "none"
          /\ holders' = {}
          /\ Goto(w, "register")
       \/ /\ w \in holders /\ registration = "idle" /\ "lostReply" \in Faults
          /\ registration' = "none"
          /\ holders' = {}
          /\ ProvisionFailed(w, "error")
       \/ /\ w \notin holders
          /\ Goto(w, "register")
          /\ UNCHANGED <<registration, holders>>
       \/ /\ (w \in holders /\ registration = "busy") \/ "apiError" \in Faults
          /\ ProvisionFailed(w, "error")
          /\ holders' = holders \ {w}
          /\ UNCHANGED registration
    /\ UNCHANGED <<githubVars, tasks, vm, ended>>

\* The zone loop goes on, or is left for the clean-up, with `left` to try.
Turn(w, pc, out, left) ==
    handler' = [handler EXCEPT ![w].pc = pc, ![w].out = out, ![w].left = left]

\* generateJITConfig: GitHub refuses a second registration of the name.
Register(w) ==
    /\ At(w, "register")
    /\ \/ /\ registration = "none"
          /\ registration' = "idle"
          /\ holders' = {w}
          /\ Turn(w, "insert", "none", Zones)
       \/ /\ registration = "none" /\ "lostReply" \in Faults
          /\ registration' = "idle"
          /\ holders' = {}
          /\ ProvisionFailed(w, "error")
       \/ /\ registration # "none" \/ "apiError" \in Faults
          /\ ProvisionFailed(w, "error")
          /\ UNCHANGED <<registration, holders>>
    /\ UNCHANGED <<githubVars, tasks, vm, ended>>

\* A VM boots in zone z with the JIT config worker w was given.
Boot(w, z) ==
    /\ vm[z] = "none"
    /\ vm' = [vm EXCEPT ![z] = "up"]

\* The loop moves past zone z.  After the last zone the error is a
\* configuration error when no zone has the machine type.
SkipZone(w, z, soft) ==
    LET left == handler[w].left \ {z}
        out  == IF soft THEN "error" ELSE handler[w].out
    IN Turn(w, IF left = {} THEN "findFailed" ELSE "insert",
               IF left = {} /\ out = "none" THEN "configuration" ELSE out,
               left)

\* One turn of createRunnerInstance's loop.
Insert(w, z) ==
    /\ At(w, "insert")
    /\ z \in handler[w].left
    /\ \/ /\ Boot(w, z)
          /\ holders' = IF w \in holders THEN (holders \ {w}) \cup {z}
                                         ELSE holders
          /\ Provisioned(w)
       \/ /\ vm[z] # "none"                 \* insertErrorAlreadyExists
          /\ holders' = holders \ {w}
          /\ Provisioned(w)
          /\ UNCHANGED <<vm>>
       \/ /\ "lostReply" \in Faults         \* created, and Wait failed
          /\ Boot(w, z)
          /\ holders' = IF w \in holders THEN holders \cup {z} ELSE holders
          /\ SkipZone(w, z, TRUE)
       \/ /\ "apiError" \in Faults          \* quota, or no capacity
          /\ SkipZone(w, z, TRUE)
          /\ UNCHANGED <<vm, holders>>
       \/ /\ "refusal" \in Faults           \* no such machine type here
          /\ SkipZone(w, z, FALSE)
          /\ UNCHANGED <<vm, holders>>
       \/ /\ "refusal" \in Faults           \* fatal, or the image is gone
          /\ \E out \in {"error", "permanent"} : Turn(w, "findFailed", out, {})
          /\ UNCHANGED <<vm, holders>>
    /\ UNCHANGED <<githubVars, tasks, registration, ended>>

\* createRunnerVM removes the registration of a VM it could not create; what
\* goes wrong here is only logged.
FindFailed(w) ==
    /\ At(w, "findFailed")
    /\ \/ /\ registration = "idle"
          /\ Goto(w, "removeFailed")
          /\ holders' = holders \cup {w}
       \/ /\ registration # "idle" \/ "apiError" \in Faults
          /\ ProvisionFailed(w, handler[w].out)
          /\ holders' = holders \ {w}
    /\ UNCHANGED <<githubVars, tasks, vm, registration, ended>>

RemoveFailed(w) ==
    /\ At(w, "removeFailed")
    /\ ProvisionFailed(w, handler[w].out)
    /\ \/ /\ w \in holders /\ registration = "idle"
          /\ registration' = "none"
          /\ holders' = {}
       \/ /\ w \notin holders \/ registration # "idle" \/ "apiError" \in Faults
          /\ holders' = holders \ {w}
          /\ UNCHANGED registration
    /\ UNCHANGED <<githubVars, tasks, vm, ended>>

-----------------------------------------------------------------------------
(* GitHub and the VMs *)

\* A listener whose JIT config is that of the registration on GitHub, which
\* one listener at a time can use, is handed this job or another one.
Assign(z) ==
    /\ vm[z] = "up"
    /\ z \in holders /\ registration = "idle"
    /\ registration' = "busy"
    /\ vm' = [vm EXCEPT ![z] = "busy"]
    /\ job' \in {job} \cup (IF job = "queued" THEN {"left"} ELSE {})
    /\ UNCHANGED <<young, window, tasks, handler, holders, ended>>

\* The ephemeral runner ends with its job, and so does its registration.
Finish(z) ==
    /\ vm[z] = "busy"
    /\ vm' = [vm EXCEPT ![z] = "stopping"]
    /\ registration' = "none"
    /\ holders' = {}
    /\ UNCHANGED <<githubVars, tasks, handler, ended>>

\* A startup that fails, a registration that is gone, or the watchdog.
Stop(z) ==
    /\ vm[z] = "up"
    /\ vm' = [vm EXCEPT ![z] = "stopping"]
    /\ holders' = holders \ {z}
    /\ UNCHANGED <<githubVars, tasks, handler, registration, ended>>

\* Preempted, self-destructed, deleted by a completed task, or too old.
Vanish(z) ==
    /\ vm[z] # "none"
    /\ vm' = [vm EXCEPT ![z] = "none"]
    /\ holders' = holders \ {z}
    /\ UNCHANGED <<githubVars, tasks, handler, registration, ended>>

\* GitHub gives up on the runner of a VM that died running a job.
RunnerLost ==
    /\ registration = "busy"
    /\ \A z \in Zones : vm[z] # "busy"
    /\ registration' = "none"
    /\ holders' = {}
    /\ UNCHANGED <<githubVars, tasks, handler, vm, ended>>

\* Another runner takes the job, it is cancelled, or it waits for a while.
JobMoves ==
    /\ \/ job # "left" /\ job' = "left"
       \/ "waiting" \in Faults /\ job = "queued" /\ job' = "waiting"
       \/ "waiting" \in Faults /\ job = "waiting" /\ job' = "queued"
    /\ UNCHANGED <<young, window, tasks, handler, runnerVars, ended>>

Clock ==
    /\ \/ young /\ young' = FALSE /\ UNCHANGED window
       \/ window < MaxWindow /\ window' = window + 1 /\ UNCHANGED young
    /\ UNCHANGED <<job, tasks, handler, runnerVars, ended>>

-----------------------------------------------------------------------------
HandlerStep(w) ==
    \/ LeftQueue(w) \/ Resolve(w) \/ FailRun(w) \/ ScheduleFirst(w)
    \/ Status(w) \/ FindChecked(w) \/ ScheduleNext(w)
    \/ FindVM(w) \/ FindRunner(w) \/ RemoveRunner(w) \/ Register(w)
    \/ \E z \in Zones : Insert(w, z)
    \/ FindFailed(w) \/ RemoveFailed(w)
    \/ Reply(w)

Environment ==
    \/ \E z \in Zones : Assign(z) \/ Finish(z) \/ Stop(z) \/ Vanish(z)
    \/ RunnerLost \/ JobMoves \/ Clock

Next ==
    \/ Webhook
    \/ \E w \in Workers :
          \/ \E n \in TaskNames : Dispatch(w, n)
          \/ HandlerStep(w)
          \/ Crash(w)
          \/ Timeout(w)
    \/ Environment

Spec == Init /\ [][Next]_vars

\* Cloud Tasks keeps delivering what is due, and a request that is not killed
\* runs to its reply.  Nothing is asked of GitHub or of Compute Engine.
Fairness ==
    /\ \A n \in TaskNames : WF_vars(\E w \in Workers : Dispatch(w, n))
    /\ \A w \in Workers : WF_vars(HandlerStep(w))

FairSpec == Spec /\ Fairness

-----------------------------------------------------------------------------
(* Properties *)

\* The checks of a job are one chain (webhook.go:648 "does not start a second
\* chain"): steps are created in order, each with the count of its
\* predecessor or one more, and no payload asks for more than Reprovisions.
OneChain ==
    \A k \in 1..MaxStep : Taken(tasks, Check(k)) =>
        /\ tasks[Check(k)].count <= Reprovisions
        /\ k = 1 => tasks[Check(k)].count = 0
        /\ k > 1 => /\ Taken(tasks, Check(k - 1))
                    /\ tasks[Check(k)].count - tasks[Check(k - 1)].count \in {0, 1}

Exhausted == \E n \in TaskNames : tasks[n].state = "exhausted"

\* What ends the orchestrator's care for a job for a reason.
Over == job = "left" \/ ended # {} \/ Exhausted

\* A job GitHub still has queued is never silently forgotten, whichever
\* requests die, overlap or are repeated: a task for it is still to be
\* delivered or answered, unless a task ran out of attempts or a handler
\* decided to let go of the job.
QueuedJobWatched ==
    Taken(tasks, Queued(0)) =>
        Over \/ \E n \in TaskNames : Active(tasks, n)

\* While requests are handled one at a time and every reply arrives, a job
\* never has two VMs (architecture.md:75 "only one VM is ever created per job").
OneVM == Cardinality(Held) <= 1

\* A VM that has not run a job yet can still come up: nobody removed its
\* registration (vm.go:169 "leave both it and its registration alone").
VMKeepsRegistration == \A z \in Zones : vm[z] = "up" => z \in holders

\* Number of checks scheduled, and the count the newest carries.
StepsTaken == {k \in 1..MaxStep : Taken(tasks, Check(k))}
Newest == IF StepsTaken = {} THEN 0
          ELSE CHOOSE k \in StepsTaken : \A i \in StepsTaken : i <= k
NewestCount == IF StepsTaken = {} THEN 0 ELSE tasks[Check(Newest)].count

\* The tasks implement the abstract chain: no step of any handler schedules
\* anything but its next link.
Chain == INSTANCE CheckChain WITH steps <- Newest, counted <- NewestCount
ChainSpec == Chain!Spec

\* A delivered job gets a runner, and gets another when the VM is lost before
\* the job started, unless the job leaves the queue or there is a reason to
\* give up on it (architecture.md:66 "if the job's VM is gone ... it provisions
\* a replacement").  The last disjunct is the bound of the model.
QueuedJobGetsRunner ==
    (Taken(tasks, Queued(0)) /\ Held = {}) ~>
        (Held # {} \/ Over \/ Taken(tasks, Check(MaxStep)))
=============================================================================
