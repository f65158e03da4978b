----------------------------- MODULE RunnerPool -----------------------------
(***************************************************************************)
(* Jobs of the same labels and the VMs created for them.  GitHub hands a   *)
(* queued job to any idle runner, so a job need not run on the VM that     *)
(* bears its name, and a name is used again when a check replaces a VM     *)
(* that is gone.  The completed task of each job deletes a VM by its name. *)
(* What comes before, the rerun of a preempted job, is module Rerun.       *)
(***************************************************************************)
EXTENDS TaskQueue

CONSTANTS
    Jobs,       \* jobs with the same labels; a VM bears the name of a job
    None,       \* no job, no VM
    Workers,    \* concurrent requests the orchestrator can be handling
    Faults,     \* what the environment may do wrong, see AllFaults
    MaxGen      \* bound: how many VMs of a name are created

AllFaults == {"crash", "timeout", "apiError", "lostReply",  \* see Provisioning
              "partialList"}    \* AggregatedList leaves out the VM's zone

ASSUME RunnerPoolAssumption ==
    /\ Jobs # {} /\ None \notin Jobs
    /\ MaxGen \in Nat \ {0}
    /\ Faults \subseteq AllFaults

VARIABLES
    job,        \* each job on GitHub, and the VM it was given to
    vm,         \* the VM of each name
    inserting,  \* the jobs a handler is about to insert a VM for
    tasks,      \* the completed task of each job
    handler,    \* the request each worker is handling
    overlooked  \* history: jobs whose VM a search left out

vars == <<job, vm, inserting, tasks, handler, overlooked>>
githubVars == <<job, vm, inserting>>

-----------------------------------------------------------------------------
(* Types *)

Generations == 0..MaxGen

\* runner: WorkflowJob.RunnerName; gen tells apart the VMs that bore it.
Job == [status : {"queued", "running", "completed"},
        runner : Jobs \cup {None}, gen : Generations]

\* A runner is registered for one job: it is idle, then used.  works: the job
\* GitHub has it working on, which outlives a VM that is lost.  late: history,
\* the VM was inserted when the job it was made for was over.
VM == [state : {"gone", "idle", "used"}, works : Jobs \cup {None},
       gen : Generations, late : BOOLEAN]

PCs == {"idle", "busy", "find", "delete", "reply"}

\* found: the VM the search returned.  running: history, the jobs that were
\* on a runner when this request looked whether its own is busy.
Handler == [pc : PCs, task : Jobs, live : BOOLEAN, found : Generations,
            running : SUBSET Jobs, ok : BOOLEAN]

Idle == [pc |-> "idle", task |-> CHOOSE j \in Jobs : TRUE, live |-> FALSE,
         found |-> 0, running |-> {}, ok |-> TRUE]

TypeOK ==
    /\ job \in [Jobs -> Job]
    /\ vm \in [Jobs -> VM]
    /\ inserting \subseteq Jobs
    /\ tasks \in [Jobs -> Task]
    /\ handler \in [Workers -> Handler]
    /\ overlooked \subseteq Jobs

Init ==
    /\ job = [j \in Jobs |-> [status |-> "queued", runner |-> None, gen |-> 0]]
    /\ vm = [n \in Jobs |->
                [state |-> "gone", works |-> None, gen |-> 0, late |-> FALSE]]
    /\ inserting = {}
    /\ tasks = [j \in Jobs |-> NoTask]
    /\ handler = [w \in Workers |-> Idle]
    /\ overlooked = {}

-----------------------------------------------------------------------------
(* GitHub, the VMs and the tasks that create them *)

\* leftQueue and findInstanceZone, in a queued or a check task.
Provision(n) ==
    /\ job[n].status = "queued"
    /\ vm[n].state = "gone"
    /\ inserting' = inserting \cup {n}
    /\ UNCHANGED <<job, vm, tasks, handler, overlooked>>

\* removeIdleRunner to the insert, which may come to nothing.  The job can have
\* been given to a runner or cancelled since.
Insert(n) ==
    /\ n \in inserting
    /\ inserting' = inserting \ {n}
    /\ \/ /\ vm[n].state = "gone"
          /\ vm[n].works = None
          /\ vm[n].gen < MaxGen
          /\ vm' = [vm EXCEPT ![n] =
                       [state |-> "idle", works |-> None, gen |-> @.gen + 1,
                        late |-> job[n].status = "completed"]]
       \/ UNCHANGED vm
    /\ UNCHANGED <<job, tasks, handler, overlooked>>

Assign(n, j) ==
    /\ vm[n].state = "idle"
    /\ job[j].status = "queued"
    /\ vm' = [vm EXCEPT ![n].state = "used", ![n].works = j]
    /\ job' = [job EXCEPT ![j] =
                  [status |-> "running", runner |-> n, gen |-> vm[n].gen]]
    /\ UNCHANGED <<inserting, tasks, handler, overlooked>>

\* The job ends on its runner, or GitHub finds that its runner is lost.
JobEnds(n) ==
    /\ vm[n].works # None
    /\ job' = [job EXCEPT ![vm[n].works].status = "completed"]
    /\ vm' = [vm EXCEPT ![n].works = None]
    /\ UNCHANGED <<inserting, tasks, handler, overlooked>>

Cancel(j) ==
    /\ job[j].status = "queued"
    /\ job' = [job EXCEPT ![j].status = "completed"]
    /\ UNCHANGED <<vm, inserting, tasks, handler, overlooked>>

\* The VM deletes itself after its job or without one, is preempted, or has
\* reached the end of its lifetime.
VMGoes(n) ==
    /\ vm[n].state # "gone"
    /\ vm' = [vm EXCEPT ![n].state = "gone"]
    /\ UNCHANGED <<job, inserting, tasks, handler, overlooked>>

-----------------------------------------------------------------------------
(* The queue and the requests *)

At(w, pc)   == handler[w].pc = pc
Goto(w, pc) == handler' = [handler EXCEPT ![w].pc = pc]

Done(w, ok) == handler' = [handler EXCEPT ![w].pc = "reply", ![w].ok = ok]

CallFails(w) == "apiError" \in Faults /\ Done(w, FALSE)

\* Another completed delivery finds the name taken and is dropped.
Webhook(j) ==
    /\ job[j].status = "completed"
    /\ ~Taken(tasks, j)
    /\ tasks' = Created(tasks, j, 0)
    /\ UNCHANGED <<githubVars, handler, overlooked>>

RanHere(j) == job[j].runner # None

\* Broken variant: the VM to delete is the one created for the job.
DeletionTargetOwn(j) == j

\* deletionTarget
DeletionTarget(j) == IF RanHere(j) THEN job[j].runner ELSE j

Dispatch(w, j) ==
    /\ At(w, "idle")
    /\ tasks[j].state = "due"
    /\ tasks' = Dispatched(tasks, j)
    /\ handler' = [handler EXCEPT ![w] =
           [Idle EXCEPT !.pc = IF RanHere(j) THEN "find" ELSE "busy",
                        !.task = j, !.live = TRUE]]
    /\ UNCHANGED <<githubVars, overlooked>>

Reply(w) ==
    /\ At(w, "reply")
    /\ tasks' = IF ~handler[w].live THEN tasks
                ELSE IF handler[w].ok THEN Acknowledged(tasks, handler[w].task)
                ELSE Failed(tasks, handler[w].task)
    /\ handler' = [handler EXCEPT ![w] = Idle]
    /\ UNCHANGED <<githubVars, overlooked>>

Crash(w) ==
    /\ "crash" \in Faults
    /\ ~At(w, "idle")
    /\ tasks' = IF handler[w].live THEN Failed(tasks, handler[w].task) ELSE tasks
    /\ handler' = [handler EXCEPT ![w] = Idle]
    /\ UNCHANGED <<githubVars, overlooked>>

Timeout(w) ==
    /\ "timeout" \in Faults
    /\ handler[w].live
    /\ tasks' = Failed(tasks, handler[w].task)
    /\ handler' = [handler EXCEPT ![w].live = FALSE]
    /\ UNCHANGED <<githubVars, overlooked>>

-----------------------------------------------------------------------------
(* handleCompleted *)

Target(w) == DeletionTarget(handler[w].task)

Running == {j \in Jobs : job[j].status = "running"}

\* Broken variant: a runner that cannot be looked up counts as busy.
BusyOrUnknown(w) ==
    /\ At(w, "busy")
    /\ \/ vm[Target(w)].works # None /\ Done(w, TRUE)
       \/ /\ vm[Target(w)].works = None
          /\ handler' = [handler EXCEPT ![w].pc = "find",
                                        ![w].running = Running]
       \/ "apiError" \in Faults /\ Done(w, TRUE)
    /\ UNCHANGED <<githubVars, tasks, overlooked>>

\* runnerIsBusy, for a job that never ran: its VM is left to the job it has.
Busy(w) ==
    /\ At(w, "busy")
    /\ \/ vm[Target(w)].works # None /\ Done(w, TRUE)
       \/ /\ vm[Target(w)].works = None
          /\ handler' = [handler EXCEPT ![w].pc = "find",
                                        ![w].running = Running]
       \/ CallFails(w)
    /\ UNCHANGED <<githubVars, tasks, overlooked>>

\* deleteRunnerVM: findInstanceZone.
Find(w) ==
    /\ At(w, "find")
    /\ LET there == vm[Target(w)].state # "gone" IN
       \/ /\ there
          /\ handler' = [handler EXCEPT ![w].pc = "delete",
                                        ![w].found = vm[Target(w)].gen]
          /\ UNCHANGED overlooked
       \/ /\ there /\ "partialList" \in Faults
          /\ Done(w, TRUE)
          /\ overlooked' = overlooked \cup {handler[w].task}
       \/ ~there /\ Done(w, TRUE) /\ UNCHANGED overlooked
       \/ CallFails(w) /\ UNCHANGED overlooked
    /\ UNCHANGED <<githubVars, tasks>>

\* Broken variant: an error of the deletion is only logged.
DeleteErrorDropped(w) ==
    /\ At(w, "delete")
    /\ \/ vm' = [vm EXCEPT ![Target(w)].state = "gone"]
       \/ "apiError" \in Faults /\ UNCHANGED vm
    /\ Done(w, TRUE)
    /\ UNCHANGED <<job, inserting, tasks, overlooked>>

\* deleteRunnerVM: the deletion, by name and zone.  A VM that took the place of
\* the one found is deleted for it, if it is in that zone.
Delete(w) ==
    /\ At(w, "delete")
    /\ LET n == Target(w)  there == vm[n].state # "gone" IN
       \/ /\ there
          /\ vm' = [vm EXCEPT ![n].state = "gone"]
          /\ Done(w, TRUE) \/ ("lostReply" \in Faults /\ Done(w, FALSE))
       \/ /\ ~there \/ vm[n].gen # handler[w].found
          /\ Done(w, TRUE)
          /\ UNCHANGED vm
       \/ CallFails(w) /\ UNCHANGED vm
    /\ UNCHANGED <<job, inserting, tasks, overlooked>>

HandlerStep(w) == Busy(w) \/ Find(w) \/ Delete(w) \/ Reply(w)

Next ==
    \/ \E j \in Jobs : Provision(j) \/ Insert(j) \/ JobEnds(j) \/ Cancel(j)
                          \/ VMGoes(j) \/ Webhook(j)
    \/ \E n, j \in Jobs : Assign(n, j)
    \/ \E w \in Workers : \/ \E j \in Jobs : Dispatch(w, j)
                          \/ HandlerStep(w) \/ Crash(w) \/ Timeout(w)

Spec == Init /\ [][Next]_vars

-----------------------------------------------------------------------------
(* Properties *)

\* The VM that ran a job is gone when the job's completed task is acknowledged,
\* whoever else works on it, unless the search left its zone out: the second of
\* the ways security.md:42 names for a VM to end when the first one failed.
CompletedVMGone ==
    \A j \in Jobs :
       LET ranOn == vm[job[j].runner] IN
       tasks[j].state = "done" /\ RanHere(j) /\ j \notin overlooked =>
           ranOn.state = "gone" \/ ranOn.gen # job[j].gen

\* A job that never ran leaves no VM without work behind, except one that was
\* inserted when the job was already over.
NoIdleLeftover ==
    \A j \in Jobs :
       tasks[j].state = "done" /\ ~RanHere(j) /\ j \notin overlooked =>
           vm[j].state # "idle" \/ vm[j].late

\* handleCompleted never deletes the VM of a running job (webhook.go:729 "Its
\* own VM may meanwhile have picked up another job with the same labels, so
\* only delete it when idle"), but for two windows: the VM was given that job
\* after its runner was looked up, or it bears the name of the VM that is
\* meant, which was replaced.
KillsExplained ==
    [][\A w \in Workers : Delete(w) =>
          LET j == handler[w].task IN
          \A n \in Jobs :
             (/\ vm[n].state # "gone" /\ vm'[n].state = "gone"
              /\ vm[n].works # None)
             => \/ ~RanHere(j) /\ vm[n].works \notin handler[w].running
                \/ RanHere(j) /\ n = job[j].runner /\ vm[n].gen # job[j].gen]_vars
=============================================================================
