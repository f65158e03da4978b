-------------------------- MODULE RunnerPoolProofs --------------------------
(***************************************************************************)
(* Proofs about RunnerPool, for any number of jobs, workers, attempts and  *)
(* VMs of a name, and under any of the faults.                             *)
(***************************************************************************)
EXTENDS RunnerPool, TLAPS

-----------------------------------------------------------------------------
(* The queue: what one operation on it does, for any set S of task names *)

LEMMA CreatedFacts ==
    ASSUME NEW S, NEW q \in [S -> Task], NEW n \in S, NEW c \in Nat
    PROVE  /\ Created(q, n, c) \in [S -> Task]
           /\ Created(q, n, c)[n] = [state |-> "due", attempts |-> 0, count |-> c]
           /\ \A m \in S : m # n => Created(q, n, c)[m] = q[m]
BY MaxAttemptsAssumption DEF Created, Task, TaskStates

LEMMA DispatchedFacts ==
    ASSUME NEW S, NEW q \in [S -> Task], NEW n \in S,
           q[n].attempts < MaxAttempts
    PROVE  /\ Dispatched(q, n) \in [S -> Task]
           /\ Dispatched(q, n)[n].state = "running"
           /\ \A m \in S : m # n => Dispatched(q, n)[m] = q[m]
<1>. DEFINE t == [q[n] EXCEPT !.state = "running", !.attempts = @ + 1]
<1>1. q[n].attempts + 1 \in 0..MaxAttempts
  BY MaxAttemptsAssumption DEF Task
<1>2. t \in Task /\ t.state = "running"
  <2>1. q[n] \in Task
    OBVIOUS
  <2>. QED
    BY <1>1, <2>1 DEF Task, TaskStates
<1>3. Dispatched(q, n) = [q EXCEPT ![n] = t]
  BY DEF Dispatched
<1>. HIDE DEF t
<1>. QED
  BY <1>2, <1>3

LEMMA AcknowledgedFacts ==
    ASSUME NEW S, NEW q \in [S -> Task], NEW n \in S
    PROVE  /\ Acknowledged(q, n) \in [S -> Task]
           /\ Acknowledged(q, n)[n].state = "done"
           /\ \A m \in S : m # n => Acknowledged(q, n)[m] = q[m]
<1>. DEFINE t == [q[n] EXCEPT !.state = "done", !.attempts = 0]
<1>1. t \in Task /\ t.state = "done"
  <2>1. q[n] \in Task
    OBVIOUS
  <2>2. 0 \in 0..MaxAttempts
    BY MaxAttemptsAssumption
  <2>. QED
    BY <2>1, <2>2 DEF Task, TaskStates
<1>2. Acknowledged(q, n) = [q EXCEPT ![n] = t]
  BY DEF Acknowledged
<1>. HIDE DEF t
<1>. QED
  BY <1>1, <1>2

\* A failed attempt leaves the task due, with an attempt left, or exhausted.
LEMMA FailedFacts ==
    ASSUME NEW S, NEW q \in [S -> Task], NEW n \in S
    PROVE  /\ Failed(q, n) \in [S -> Task]
           /\ \/ /\ Failed(q, n)[n].state = "due"
                 /\ Failed(q, n)[n].attempts < MaxAttempts
              \/ Failed(q, n)[n].state = "exhausted"
           /\ \A m \in S : m # n => Failed(q, n)[m] = q[m]
<1>1. CASE q[n].attempts < MaxAttempts
  <2>. DEFINE t == [q[n] EXCEPT !.state = "due"]
  <2>1. t \in Task /\ t.state = "due" /\ t.attempts < MaxAttempts
    <3>1. q[n] \in Task
      OBVIOUS
    <3>. QED
      BY <1>1, <3>1 DEF Task, TaskStates
  <2>2. Failed(q, n) = [q EXCEPT ![n] = t]
    BY <1>1 DEF Failed
  <2>. HIDE DEF t
  <2>. QED
    BY <2>1, <2>2
<1>2. CASE ~(q[n].attempts < MaxAttempts)
  <2>. DEFINE t == [q[n] EXCEPT !.state = "exhausted", !.attempts = 0]
  <2>1. t \in Task /\ t.state = "exhausted"
    <3>1. q[n] \in Task
      OBVIOUS
    <3>2. 0 \in 0..MaxAttempts
      BY MaxAttemptsAssumption
    <3>. QED
      BY <3>1, <3>2 DEF Task, TaskStates
  <2>2. Failed(q, n) = [q EXCEPT ![n] = t]
    BY <1>2 DEF Failed
  <2>. HIDE DEF t
  <2>. QED
    BY <2>1, <2>2
<1>. QED
  BY <1>1, <1>2

-----------------------------------------------------------------------------
(* The inductive invariant *)

\* Of the attempts at one task the queue waits for one, and only while it is
\* running; a task that is due has an attempt left.
RequestsOK ==
    /\ \A w \in Workers : handler[w].live =>
           tasks[handler[w].task].state = "running" /\ ~At(w, "idle")
    /\ \A v, w \in Workers :
           handler[v].live /\ handler[w].live
               /\ handler[v].task = handler[w].task => v = w
    /\ \A j \in Jobs :
           tasks[j].state = "due" => tasks[j].attempts < MaxAttempts

\* A completed task exists, and is handled, only after its job is over.
AfterTheJob ==
    /\ \A j \in Jobs : Taken(tasks, j) => job[j].status = "completed"
    /\ \A w \in Workers : ~At(w, "idle") => Taken(tasks, handler[w].task)

\* A VM runs one job, the one GitHub gave it while it was idle.
OneJobPerVM ==
    /\ \A n \in Jobs : vm[n].state = "idle" => vm[n].works = None
    /\ \A n \in Jobs : vm[n].works # None =>
           LET k == vm[n].works IN
           job[k].status = "running" /\ job[k].runner = n /\ job[k].gen = vm[n].gen
    /\ \A j \in Jobs : RanHere(j) =>
           /\ job[j].gen <= vm[job[j].runner].gen
           /\ job[j].gen = vm[job[j].runner].gen => vm[job[j].runner].state # "idle"
    /\ \A j, k \in Jobs :
           RanHere(j) /\ job[j].runner = job[k].runner /\ job[j].gen = job[k].gen => j = k

LeftIdle(j) == vm[j].state = "idle" /\ ~vm[j].late

\* What a completed task is for is done.
Settled(j) ==
    IF RanHere(j)
    THEN vm[job[j].runner].state = "gone" \/ job[j].gen < vm[job[j].runner].gen
    ELSE ~LeftIdle(j)

SettledOrOverlooked(j) == j \in overlooked \/ Settled(j)

\* Where worker w stands.  The VM it found is the one that ran the job, or one
\* that came after it.
Stands(w) ==
    LET j == handler[w].task IN
    /\ \A k \in handler[w].running : job[k].status # "queued"
    /\ At(w, "busy") => ~RanHere(j)
    /\ handler[w].pc \in {"find", "delete"} /\ ~RanHere(j) =>
           vm[j].works \notin handler[w].running
    /\ At(w, "delete") =>
           /\ handler[w].found <= vm[Target(w)].gen
           /\ RanHere(j) => job[j].gen <= handler[w].found
           /\ ~RanHere(j) /\ handler[w].found # vm[j].gen => ~LeftIdle(j)
    /\ At(w, "reply") /\ handler[w].ok => SettledOrOverlooked(j)

HandlersOK == \A w \in Workers : Stands(w)

DoneOK == \A j \in Jobs : tasks[j].state = "done" => SettledOrOverlooked(j)

IInv == /\ TypeOK /\ RequestsOK /\ AfterTheJob /\ OneJobPerVM
        /\ HandlersOK /\ DoneOK

LEMMA Types ==
    /\ 0 \in Generations /\ Generations \subseteq Nat
    /\ NoTask \in Task /\ NoTask.state = "none"
    /\ Idle \in Handler /\ ~Idle.live /\ Idle.pc = "idle" /\ Idle.running = {}
<1>1. 0 \in Generations /\ Generations \subseteq Nat
  BY RunnerPoolAssumption DEF Generations
<1>2. NoTask \in Task /\ NoTask.state = "none"
  BY MaxAttemptsAssumption DEF NoTask, Task, TaskStates
<1>3. (CHOOSE j \in Jobs : TRUE) \in Jobs
  BY RunnerPoolAssumption
<1>4. Idle \in Handler /\ ~Idle.live /\ Idle.pc = "idle" /\ Idle.running = {}
  BY <1>1, <1>3 DEF Idle, Handler, PCs
<1>. QED
  BY <1>1, <1>2, <1>4

LEMMA InitHolds == Init => IInv
<1>. SUFFICES ASSUME Init PROVE IInv
  OBVIOUS
<1>1. TypeOK
  BY Types DEF Init, TypeOK, Job, VM
<1>2. RequestsOK /\ AfterTheJob
  BY Types DEF Init, RequestsOK, AfterTheJob, Taken, At
<1>3. OneJobPerVM
  BY DEF Init, OneJobPerVM, RanHere
<1>4. HandlersOK /\ DoneOK
  BY Types DEF Init, HandlersOK, Stands, DoneOK, At
<1>. QED
  BY <1>1, <1>2, <1>3, <1>4 DEF IInv

-----------------------------------------------------------------------------
(* What GitHub and the VMs do: a job that is over stays as it is, and VMs  *)
(* of a name come one after another.                                       *)

JobsKept ==
    /\ \A j \in Jobs : job[j].status = "completed" => job'[j] = job[j]
    /\ \A j \in Jobs : job[j].status # "queued" => job'[j].status # "queued"

VMsKept ==
    \A n \in Jobs :
       /\ vm[n].gen <= vm'[n].gen
       /\ vm'[n].gen = vm[n].gen =>
              /\ vm[n].state = "gone" => vm'[n].state = "gone"
              /\ vm[n].state # "idle" => vm'[n].state # "idle"
              /\ vm'[n].late = vm[n].late
       /\ vm'[n].gen # vm[n].gen /\ job[n].status = "completed" => vm'[n].late
       /\ \/ vm'[n].works \in {vm[n].works, None}
          \/ vm'[n].works \in Jobs /\ job[vm'[n].works].status = "queued"

Kept ==
    /\ job' \in [Jobs -> Job] /\ vm' \in [Jobs -> VM]
    /\ OneJobPerVM' /\ JobsKept /\ VMsKept

LEMMA InsertKeeps ==
    ASSUME IInv, NEW n \in Jobs, Insert(n)
    PROVE  Kept
<1>. USE DEF IInv, TypeOK
<1>1. CASE UNCHANGED vm
  BY <1>1, RunnerPoolAssumption
  DEF Insert, Kept, JobsKept, VMsKept, OneJobPerVM, RanHere, VM, Generations
<1>2. CASE ~UNCHANGED vm
  <2>1. /\ vm[n].state = "gone" /\ vm[n].works = None
        /\ vm[n].gen + 1 \in Generations /\ vm[n].gen \in Nat
        /\ vm' = [vm EXCEPT ![n] = [state |-> "idle", works |-> None, gen |-> vm[n].gen + 1,
                                    late |-> job[n].status = "completed"]]
        /\ UNCHANGED job
    BY <1>2, RunnerPoolAssumption DEF Insert, VM, Generations
  <2>2. vm' \in [Jobs -> VM] /\ job' \in [Jobs -> Job]
    BY <2>1 DEF VM
  <2>3. \A m \in Jobs : vm[m].gen \in Nat /\ vm[m].gen <= vm'[m].gen
    BY <2>1 DEF VM, Generations
  <2>4. JobsKept
    BY <2>1 DEF JobsKept
  <2>6. \A m \in Jobs : m # n => vm'[m] = vm[m]
    BY <2>1
  <2>7. /\ vm'[n].gen = vm[n].gen + 1 /\ vm'[n].works = None
        /\ job[n].status = "completed" => vm'[n].late
    BY <2>1
  <2>5. VMsKept
    <3>1. \A m \in Jobs : vm'[m].gen # vm[m].gen => m = n
      BY <2>6
    <3>2. vm'[n].gen # vm[n].gen
      BY <2>1, <2>7
    <3>. QED
      BY <2>3, <2>6, <2>7, <3>1, <3>2 DEF VMsKept
  <2>8. \A j \in Jobs : RanHere(j) =>
           job[j].gen \in Nat /\ job[j].runner \in Jobs /\ job[j].gen <= vm[job[j].runner].gen
    BY DEF OneJobPerVM, RanHere, Job, Generations
  <2>9. OneJobPerVM'
    <3>1. \A m \in Jobs : vm'[m].state = "idle" => vm'[m].works = None
      BY <2>6, <2>7 DEF OneJobPerVM
    <3>2. \A m \in Jobs : vm'[m].works # None =>
              /\ job'[vm'[m].works].status = "running" /\ job'[vm'[m].works].runner = m
              /\ job'[vm'[m].works].gen = vm'[m].gen
      BY <2>1, <2>6, <2>7 DEF OneJobPerVM
    <3>3. \A j \in Jobs : RanHere(j) =>
              /\ job[j].gen <= vm'[job[j].runner].gen
              /\ job[j].gen = vm'[job[j].runner].gen => vm'[job[j].runner].state # "idle"
      <4>. SUFFICES ASSUME NEW j \in Jobs, RanHere(j)
                    PROVE  /\ job[j].gen <= vm'[job[j].runner].gen
                           /\ job[j].gen = vm'[job[j].runner].gen => vm'[job[j].runner].state # "idle"
        OBVIOUS
      <4>1. CASE job[j].runner = n
        BY <4>1, <2>1, <2>7, <2>8
      <4>2. CASE job[j].runner # n
        BY <4>2, <2>6, <2>8 DEF OneJobPerVM
      <4>. QED
        BY <4>1, <4>2
    <3>. QED
      BY <2>1, <3>1, <3>2, <3>3 DEF OneJobPerVM, RanHere
  <2>. QED
    BY <2>2, <2>4, <2>5, <2>9 DEF Kept
<1>. QED
  BY <1>1, <1>2

LEMMA AssignKeeps ==
    ASSUME IInv, NEW n \in Jobs, NEW k \in Jobs, Assign(n, k)
    PROVE  Kept
<1>. USE DEF IInv, TypeOK
<1>1. /\ vm[n].state = "idle" /\ job[k].status = "queued"
      /\ vm' = [vm EXCEPT ![n].state = "used", ![n].works = k]
      /\ job' = [job EXCEPT ![k] = [status |-> "running", runner |-> n, gen |-> vm[n].gen]]
  BY DEF Assign
<1>2. vm' \in [Jobs -> VM] /\ job' \in [Jobs -> Job]
  <2>1. vm' \in [Jobs -> VM]
    BY <1>1 DEF VM
  <2>2. [status |-> "running", runner |-> n, gen |-> vm[n].gen] \in Job
    BY DEF VM, Job
  <2>. QED
    BY <1>1, <2>1, <2>2
<1>3. /\ \A m \in Jobs : m # n => vm'[m] = vm[m]
      /\ vm'[n].state = "used" /\ vm'[n].works = k /\ vm'[n].gen = vm[n].gen /\ vm'[n].late = vm[n].late
      /\ \A j \in Jobs : j # k => job'[j] = job[j]
      /\ job'[k] = [status |-> "running", runner |-> n, gen |-> vm[n].gen]
  BY <1>1 DEF VM
<1>4. JobsKept
  BY <1>1, <1>3 DEF JobsKept
<1>5. VMsKept
  BY <1>1, <1>3 DEF VMsKept, VM, Generations
<1>6. OneJobPerVM'
  <2>1. \A m \in Jobs : vm'[m].state = "idle" => vm'[m].works = None
    BY <1>3 DEF OneJobPerVM
  <2>2. \A m \in Jobs : vm'[m].works # None =>
            /\ job'[vm'[m].works].status = "running" /\ job'[vm'[m].works].runner = m
            /\ job'[vm'[m].works].gen = vm'[m].gen
    <3>. SUFFICES ASSUME NEW m \in Jobs, vm'[m].works # None
                  PROVE  /\ job'[vm'[m].works].status = "running" /\ job'[vm'[m].works].runner = m
                         /\ job'[vm'[m].works].gen = vm'[m].gen
      OBVIOUS
    <3>1. CASE m = n
      BY <3>1, <1>3
    <3>2. CASE m # n
      <4>1. vm'[m].works = vm[m].works /\ vm[m].works \in Jobs /\ vm[m].works # k
        BY <3>2, <1>1, <1>3 DEF OneJobPerVM, VM
      <4>. QED
        BY <3>2, <4>1, <1>3 DEF OneJobPerVM
    <3>. QED
      BY <3>1, <3>2
  <2>3. \A j \in Jobs : job'[j].runner # None =>
            /\ job'[j].gen <= vm'[job'[j].runner].gen
            /\ job'[j].gen = vm'[job'[j].runner].gen => vm'[job'[j].runner].state # "idle"
    <3>. SUFFICES ASSUME NEW j \in Jobs, job'[j].runner # None
                  PROVE  /\ job'[j].gen <= vm'[job'[j].runner].gen
                         /\ job'[j].gen = vm'[job'[j].runner].gen => vm'[job'[j].runner].state # "idle"
      OBVIOUS
    <3>1. CASE j = k
      BY <3>1, <1>3 DEF VM, Generations
    <3>2. CASE j # k
      <4>1. job'[j] = job[j] /\ job[j].runner \in Jobs
        BY <3>2, <1>3 DEF Job
      <4>2. CASE job[j].runner = n
        BY <4>1, <4>2, <1>3 DEF OneJobPerVM, RanHere
      <4>3. CASE job[j].runner # n
        BY <4>1, <4>3, <1>3 DEF OneJobPerVM, RanHere
      <4>. QED
        BY <4>2, <4>3
    <3>. QED
      BY <3>1, <3>2
  <2>4. \A j \in Jobs : j # k => ~(job[j].runner = n /\ job[j].gen = vm[n].gen)
    BY <1>1, RunnerPoolAssumption DEF OneJobPerVM, RanHere
  <2>5. \A i, j \in Jobs :
            job'[i].runner # None /\ job'[i].runner = job'[j].runner /\ job'[i].gen = job'[j].gen => i = j
    BY <2>4, <1>3 DEF OneJobPerVM, RanHere
  <2>. QED
    BY <2>1, <2>2, <2>3, <2>5 DEF OneJobPerVM, RanHere
<1>. QED
  BY <1>2, <1>4, <1>5, <1>6 DEF Kept

LEMMA JobEndsKeeps ==
    ASSUME IInv, NEW n \in Jobs, JobEnds(n)
    PROVE  Kept
<1>. USE DEF IInv, TypeOK
<1>. DEFINE k == vm[n].works
<1>1. /\ k \in Jobs /\ k # None
      /\ job[k].status = "running" /\ job[k].runner = n /\ job[k].gen = vm[n].gen
      /\ vm' = [vm EXCEPT ![n].works = None]
      /\ job' = [job EXCEPT ![k].status = "completed"]
  BY DEF JobEnds, VM, OneJobPerVM
<1>. HIDE DEF k
<1>2. vm' \in [Jobs -> VM] /\ job' \in [Jobs -> Job]
  BY <1>1 DEF VM, Job
<1>3. /\ \A m \in Jobs : m # n => vm'[m] = vm[m]
      /\ vm'[n].state = vm[n].state /\ vm'[n].works = None /\ vm'[n].gen = vm[n].gen /\ vm'[n].late = vm[n].late
      /\ \A j \in Jobs : j # k => job'[j] = job[j]
      /\ job'[k].status = "completed"
      /\ \A j \in Jobs : job'[j].runner = job[j].runner /\ job'[j].gen = job[j].gen
  BY <1>1 DEF VM, Job
<1>4. JobsKept
  BY <1>1, <1>3 DEF JobsKept
<1>5. VMsKept
  BY <1>1, <1>3 DEF VMsKept, VM, Generations
<1>6. OneJobPerVM'
  <2>1. \A m \in Jobs : vm'[m].state = "idle" => vm'[m].works = None
    BY <1>3 DEF OneJobPerVM
  <2>2. \A m \in Jobs : vm'[m].works # None =>
            /\ job'[vm'[m].works].status = "running" /\ job'[vm'[m].works].runner = m
            /\ job'[vm'[m].works].gen = vm'[m].gen
    <3>. SUFFICES ASSUME NEW m \in Jobs, vm'[m].works # None
                  PROVE  /\ job'[vm'[m].works].status = "running" /\ job'[vm'[m].works].runner = m
                         /\ job'[vm'[m].works].gen = vm'[m].gen
      OBVIOUS
    <3>1. m # n /\ vm'[m] = vm[m]
      BY <1>3
    <3>2. vm[m].works \in Jobs /\ vm[m].works # k
      BY <3>1, <1>1 DEF OneJobPerVM, VM
    <3>. QED
      BY <3>1, <3>2, <1>3 DEF OneJobPerVM
  <2>3. \A j \in Jobs : job'[j].runner # None =>
            /\ job'[j].gen <= vm'[job'[j].runner].gen
            /\ job'[j].gen = vm'[job'[j].runner].gen => vm'[job'[j].runner].state # "idle"
    <3>1. \A m \in Jobs : vm'[m].gen = vm[m].gen /\ vm'[m].state = vm[m].state
      BY <1>3
    <3>2. \A j \in Jobs : job[j].runner # None => job[j].runner \in Jobs
      BY DEF Job
    <3>. QED
      BY <1>3, <3>1, <3>2 DEF OneJobPerVM, RanHere
  <2>. QED
    BY <2>1, <2>2, <2>3, <1>3 DEF OneJobPerVM, RanHere
<1>. QED
  BY <1>2, <1>4, <1>5, <1>6 DEF Kept

LEMMA CancelKeeps ==
    ASSUME IInv, NEW k \in Jobs, Cancel(k)
    PROVE  Kept
<1>. USE DEF IInv, TypeOK
<1>1. /\ job[k].status = "queued" /\ UNCHANGED vm
      /\ job' = [job EXCEPT ![k].status = "completed"]
  BY DEF Cancel
<1>2. job' \in [Jobs -> Job]
  BY <1>1 DEF Job
<1>3. /\ \A j \in Jobs : j # k => job'[j] = job[j]
      /\ job'[k].status = "completed"
      /\ \A j \in Jobs : job'[j].runner = job[j].runner /\ job'[j].gen = job[j].gen
  BY <1>1 DEF Job
<1>4. JobsKept /\ VMsKept
  BY <1>1, <1>3 DEF JobsKept, VMsKept, VM, Generations
<1>5. \A n \in Jobs : vm[n].works # None => vm[n].works \in Jobs /\ vm[n].works # k
  BY <1>1 DEF OneJobPerVM, VM
<1>6. OneJobPerVM'
  BY <1>1, <1>3, <1>5 DEF OneJobPerVM, RanHere
<1>. QED
  BY <1>1, <1>2, <1>4, <1>6 DEF Kept

\* A VM goes, by itself or because it is deleted.
LEMMA GoneKeeps ==
    ASSUME IInv, NEW n \in Jobs, UNCHANGED job, vm' = [vm EXCEPT ![n].state = "gone"]
    PROVE  Kept
<1>. USE DEF IInv, TypeOK
<1>1. vm' \in [Jobs -> VM]
  BY DEF VM
<1>2. \A m \in Jobs : /\ vm'[m].state \in {vm[m].state, "gone"} /\ vm'[m].works = vm[m].works
                      /\ vm'[m].gen = vm[m].gen /\ vm'[m].late = vm[m].late
  BY DEF VM
<1>3. JobsKept /\ VMsKept
  BY <1>2 DEF JobsKept, VMsKept, VM, Generations
<1>4. \A j \in Jobs : RanHere(j) => job[j].runner \in Jobs
  BY DEF RanHere, Job
<1>5. OneJobPerVM'
  BY <1>2, <1>4 DEF OneJobPerVM, RanHere
<1>. QED
  BY <1>1, <1>3, <1>5 DEF Kept

LEMMA SameKeeps == ASSUME IInv, UNCHANGED <<job, vm>> PROVE Kept
BY DEF IInv, TypeOK, Kept, JobsKept, VMsKept, OneJobPerVM, RanHere, VM, Generations

-----------------------------------------------------------------------------
(* What lasts while GitHub and the VMs go on *)

LEMMA SettledLasts ==
    ASSUME IInv, Kept, overlooked \subseteq overlooked', NEW j \in Jobs,
           job[j].status = "completed", SettledOrOverlooked(j)
    PROVE  SettledOrOverlooked(j)'
<1>1. job'[j] = job[j]
  BY DEF Kept, JobsKept
<1>2. CASE RanHere(j)
  <2>1. job[j].runner \in Jobs /\ job[j].gen \in Nat
    BY <1>2 DEF RanHere, IInv, TypeOK, Job, Generations
  <2>2. vm[job[j].runner].gen \in Nat /\ vm'[job[j].runner].gen \in Nat
    BY <2>1, Types DEF Kept, IInv, TypeOK, VM
  <2>3. job[j].gen <= vm[job[j].runner].gen
    BY <1>2 DEF IInv, OneJobPerVM
  <2>4. /\ vm[job[j].runner].gen <= vm'[job[j].runner].gen
        /\ vm'[job[j].runner].gen = vm[job[j].runner].gen =>
               (vm[job[j].runner].state = "gone" => vm'[job[j].runner].state = "gone")
    BY <2>1 DEF Kept, VMsKept
  <2>5. vm'[job[j].runner].state = "gone" \/ job[j].gen < vm'[job[j].runner].gen \/ j \in overlooked
    BY <1>2, <2>1, <2>2, <2>3, <2>4 DEF SettledOrOverlooked, Settled
  <2>6. RanHere(j)'
    BY <1>1, <1>2 DEF RanHere
  <2>. QED
    BY <1>1, <2>5, <2>6 DEF SettledOrOverlooked, Settled
<1>3. CASE ~RanHere(j)
  BY <1>1, <1>3 DEF SettledOrOverlooked, Settled, LeftIdle, Kept, VMsKept, RanHere
<1>. QED
  BY <1>2, <1>3

\* A worker that keeps its place keeps its footing.
LEMMA StandsLasts ==
    ASSUME IInv, Kept, overlooked \subseteq overlooked', NEW w \in Workers,
           handler'[w] = handler[w]
    PROVE  Stands(w)'
<1>. DEFINE j == handler[w].task
<1>0. j \in Jobs /\ handler[w].running \subseteq Jobs /\ handler[w].found \in Nat /\ Stands(w)
  BY Types DEF IInv, TypeOK, Handler, HandlersOK
<1>1. \A k \in handler[w].running : job'[k].status # "queued"
  BY <1>0 DEF Stands, Kept, JobsKept
<1>2. CASE At(w, "idle")
  BY <1>1, <1>2 DEF Stands, At
<1>3. CASE ~At(w, "idle")
  <2>1. job[j].status = "completed" /\ job'[j] = job[j]
    BY <1>3, <1>0 DEF IInv, AfterTheJob, Kept, JobsKept
  <2>2. handler[w].pc \in {"find", "delete"} /\ ~RanHere(j) => vm'[j].works \notin handler[w].running
    BY <1>0, RunnerPoolAssumption DEF Stands, Kept, VMsKept
  <2>3. At(w, "delete") =>
           /\ handler[w].found <= vm'[Target(w)].gen
           /\ ~RanHere(j) /\ handler[w].found # vm'[j].gen => ~LeftIdle(j)'
    <3>. SUFFICES ASSUME At(w, "delete")
                  PROVE  /\ handler[w].found <= vm'[Target(w)].gen
                         /\ ~RanHere(j) /\ handler[w].found # vm'[j].gen => ~LeftIdle(j)'
      OBVIOUS
    <3>1. Target(w) \in Jobs /\ (~RanHere(j) => Target(w) = j)
      BY <1>0 DEF Target, DeletionTarget, RanHere, IInv, TypeOK, Job
    <3>2. vm[Target(w)].gen \in Nat /\ vm'[Target(w)].gen \in Nat
      BY <3>1, Types DEF Kept, IInv, TypeOK, VM
    <3>3. handler[w].found <= vm'[Target(w)].gen
      BY <1>0, <3>1, <3>2 DEF Stands, Kept, VMsKept
    <3>4. ASSUME ~RanHere(j), handler[w].found # vm'[j].gen PROVE ~LeftIdle(j)'
      <4>1. CASE vm'[j].gen = vm[j].gen
        BY <1>0, <3>4, <4>1 DEF Stands, LeftIdle, Kept, VMsKept
      <4>2. CASE vm'[j].gen # vm[j].gen
        BY <1>0, <2>1, <4>2 DEF LeftIdle, Kept, VMsKept
      <4>. QED
        BY <4>1, <4>2
    <3>. QED
      BY <3>3, <3>4
  <2>4. At(w, "reply") /\ handler[w].ok => SettledOrOverlooked(j)'
    BY <1>0, <2>1, SettledLasts DEF Stands
  <2>5. RanHere(j)' = RanHere(j) /\ (At(w, "delete") => Target(w)' = Target(w))
    BY <2>1 DEF RanHere, Target, DeletionTarget
  <2>. QED
    BY <1>0, <1>1, <2>1, <2>2, <2>3, <2>4, <2>5 DEF Stands, At
<1>. QED
  BY <1>2, <1>3

\* GitHub and the VMs take a step of their own.
LEMMA GithubStep ==
    ASSUME IInv, Kept, inserting' \subseteq Jobs, UNCHANGED <<tasks, handler, overlooked>>
    PROVE  IInv'
<1>1. TypeOK'
  BY DEF IInv, TypeOK, Kept
<1>2. RequestsOK'
  BY DEF IInv, RequestsOK, At
<1>3. AfterTheJob'
  BY DEF IInv, AfterTheJob, Taken, At, Kept, JobsKept
<1>4. HandlersOK'
  BY StandsLasts DEF HandlersOK
<1>5. DoneOK'
  <2>. SUFFICES ASSUME NEW j \in Jobs, tasks[j].state = "done" PROVE SettledOrOverlooked(j)'
    BY DEF DoneOK
  <2>1. job[j].status = "completed" /\ SettledOrOverlooked(j)
    BY DEF IInv, AfterTheJob, Taken, DoneOK
  <2>2. overlooked \subseteq overlooked'
    OBVIOUS
  <2>. QED
    BY <2>1, <2>2, SettledLasts
<1>. QED
  BY <1>1, <1>2, <1>3, <1>4, <1>5 DEF IInv, Kept

-----------------------------------------------------------------------------
(* The queue and the requests *)

\* Worker w takes a step of its request, with the tasks as they are.
LEMMA RequestStep ==
    ASSUME IInv, Kept, NEW w \in Workers, UNCHANGED tasks, inserting' = inserting,
           overlooked \subseteq overlooked', overlooked' \subseteq Jobs,
           ~At(w, "idle"),
           handler' \in [Workers -> Handler],
           \A v \in Workers : v # w => handler'[v] = handler[v],
           handler'[w].live = handler[w].live, handler'[w].task = handler[w].task,
           handler'[w].pc # "idle", Stands(w)'
    PROVE  IInv'
<1>1. TypeOK'
  BY DEF IInv, TypeOK, Kept
<1>2. RequestsOK'
  BY DEF IInv, RequestsOK, At
<1>3. AfterTheJob'
  BY DEF IInv, AfterTheJob, Taken, At, Kept, JobsKept
<1>4. HandlersOK'
  BY StandsLasts DEF HandlersOK
<1>5. DoneOK'
  <2>. SUFFICES ASSUME NEW j \in Jobs, tasks[j].state = "done" PROVE SettledOrOverlooked(j)'
    BY DEF DoneOK
  <2>1. job[j].status = "completed" /\ SettledOrOverlooked(j)
    BY DEF IInv, AfterTheJob, Taken, DoneOK
  <2>. QED
    BY <2>1, SettledLasts
<1>. QED
  BY <1>1, <1>2, <1>3, <1>4, <1>5 DEF IInv, Kept

LEMMA BusyStep ==
    ASSUME IInv, NEW w \in Workers, Busy(w)
    PROVE  IInv'
<1>. DEFINE j == handler[w].task
<1>1. /\ Kept /\ handler[w] \in Handler /\ handler \in [Workers -> Handler] /\ j \in Jobs
      /\ UNCHANGED <<job, vm, inserting, tasks, overlooked>> /\ overlooked \subseteq Jobs
      /\ At(w, "busy") /\ ~RanHere(j) /\ Target(w) = j
  BY SameKeeps DEF Busy, githubVars, IInv, TypeOK, Handler, HandlersOK, Stands, Target, DeletionTarget
<1>2. CASE vm[j].works # None /\ Done(w, TRUE)
  <2>1. /\ handler' = [handler EXCEPT ![w].pc = "reply", ![w].ok = TRUE]
    BY <1>2 DEF Done
  <2>2. /\ Settled(j) /\ handler'[w].task = j
        /\ handler'[w].running = handler[w].running /\ handler'[w].pc = "reply"
    BY <1>1, <1>2, <2>1 DEF Settled, LeftIdle, IInv, OneJobPerVM, Handler
  <2>3. Stands(w)'
    BY <1>1, <2>2 DEF Stands, At, IInv, HandlersOK, SettledOrOverlooked, Settled, LeftIdle, RanHere
  <2>. QED
    BY <1>1, <2>1, <2>3, RequestStep DEF At, Handler, PCs
<1>3. CASE vm[j].works = None /\ handler' = [handler EXCEPT ![w].pc = "find", ![w].running = Running]
  <2>1. Running \subseteq Jobs /\ \A k \in Running : job[k].status = "running"
    BY DEF Running
  <2>2. Stands(w)'
    BY <1>1, <1>3, <2>1, RunnerPoolAssumption DEF Stands, At, Handler
  <2>. QED
    BY <1>1, <1>3, <2>1, <2>2, RequestStep DEF At, Handler, PCs
<1>4. CASE CallFails(w)
  <2>1. handler' = [handler EXCEPT ![w].pc = "reply", ![w].ok = FALSE]
    BY <1>4 DEF CallFails, Done
  <2>2. Stands(w)'
    BY <1>1, <2>1 DEF Stands, At, IInv, HandlersOK, Handler
  <2>. QED
    BY <1>1, <2>1, <2>2, RequestStep DEF At, Handler, PCs
<1>. QED
  BY <1>1, <1>2, <1>3, <1>4 DEF Busy

LEMMA FindStep ==
    ASSUME IInv, NEW w \in Workers, Find(w)
    PROVE  IInv'
<1>. DEFINE j == handler[w].task
            n == Target(w)
<1>1. /\ Kept /\ handler[w] \in Handler /\ handler \in [Workers -> Handler] /\ j \in Jobs
      /\ UNCHANGED <<job, vm, inserting, tasks>> /\ overlooked \subseteq Jobs
      /\ At(w, "find") /\ Stands(w)
  BY SameKeeps DEF Find, githubVars, IInv, TypeOK, Handler, HandlersOK
<1>2. n \in Jobs /\ vm[n] \in VM /\ n = IF RanHere(j) THEN job[j].runner ELSE j
  BY <1>1 DEF Target, DeletionTarget, RanHere, IInv, TypeOK, Job
<1>3. UNCHANGED n
  BY <1>1 DEF Find, CallFails, Done, Target, DeletionTarget, RanHere, Handler
<1>4. CASE handler' = [handler EXCEPT ![w].pc = "delete", ![w].found = vm[n].gen] /\ UNCHANGED overlooked
  <2>1. vm[n].gen \in Generations /\ vm[n].gen \in Nat
    BY <1>2, Types DEF VM
  <2>2. RanHere(j) => job[j].gen <= vm[n].gen
    BY <1>1, <1>2 DEF IInv, OneJobPerVM
  <2>3. Stands(w)'
    BY <1>1, <1>2, <1>3, <1>4, <2>1, <2>2 DEF Stands, At, Handler, RanHere
  <2>. QED
    BY <1>1, <1>4, <2>1, <2>3, RequestStep DEF At, Handler, PCs
<1>5. CASE Done(w, TRUE) /\ overlooked' = overlooked \cup {j}
  <2>1. handler' = [handler EXCEPT ![w].pc = "reply", ![w].ok = TRUE]
    BY <1>5 DEF Done
  <2>2. Stands(w)'
    BY <1>1, <1>5, <2>1 DEF Stands, At, SettledOrOverlooked, Handler
  <2>. QED
    BY <1>1, <1>5, <2>1, <2>2, RequestStep DEF At, Handler, PCs
<1>6. CASE vm[n].state = "gone" /\ Done(w, TRUE) /\ UNCHANGED overlooked
  <2>1. handler' = [handler EXCEPT ![w].pc = "reply", ![w].ok = TRUE]
    BY <1>6 DEF Done
  <2>2. /\ Settled(j) /\ handler'[w].task = j
        /\ handler'[w].running = handler[w].running /\ handler'[w].pc = "reply"
    BY <1>1, <1>2, <1>6, <2>1 DEF Settled, LeftIdle, Handler
  <2>3. Stands(w)'
    BY <1>1, <2>2 DEF Stands, At, SettledOrOverlooked, Settled, LeftIdle, RanHere
  <2>. QED
    BY <1>1, <1>6, <2>1, <2>3, RequestStep DEF At, Handler, PCs
<1>7. CASE CallFails(w) /\ UNCHANGED overlooked
  <2>1. handler' = [handler EXCEPT ![w].pc = "reply", ![w].ok = FALSE]
    BY <1>7 DEF CallFails, Done
  <2>2. Stands(w)'
    BY <1>1, <2>1 DEF Stands, At, Handler
  <2>. QED
    BY <1>1, <1>7, <2>1, <2>2, RequestStep DEF At, Handler, PCs
<1>. QED
  BY <1>4, <1>5, <1>6, <1>7 DEF Find

LEMMA DeleteStep ==
    ASSUME IInv, NEW w \in Workers, Delete(w)
    PROVE  IInv'
<1>. DEFINE j == handler[w].task
            n == Target(w)
<1>1. /\ handler[w] \in Handler /\ handler \in [Workers -> Handler] /\ j \in Jobs
      /\ UNCHANGED <<job, inserting, tasks, overlooked>> /\ overlooked \subseteq Jobs
      /\ At(w, "delete") /\ Stands(w) /\ handler[w].found \in Nat
  BY Types DEF Delete, IInv, TypeOK, Handler, HandlersOK
<1>2. n \in Jobs /\ vm[n] \in VM /\ n = IF RanHere(j) THEN job[j].runner ELSE j
  BY <1>1 DEF Target, DeletionTarget, RanHere, IInv, TypeOK, Job
<1>3. CASE vm' = [vm EXCEPT ![n].state = "gone"] /\ (Done(w, TRUE) \/ Done(w, FALSE))
  <2>1. Kept
    BY <1>1, <1>2, <1>3, GoneKeeps
  <2>2. PICK ok \in BOOLEAN : handler' = [handler EXCEPT ![w].pc = "reply", ![w].ok = ok]
    BY <1>3 DEF Done
  <2>3. vm'[n].state = "gone"
    BY <1>2, <1>3 DEF IInv, TypeOK
  <2>4. /\ IF RanHere(j) THEN vm'[job[j].runner].state = "gone" ELSE vm'[j].state = "gone"
        /\ handler'[w].task = j /\ handler'[w].running = handler[w].running
        /\ handler'[w].pc = "reply"
    BY <1>1, <1>2, <2>2, <2>3 DEF Handler
  <2>5. Stands(w)'
    BY <1>1, <2>4 DEF Stands, At, SettledOrOverlooked, Settled, LeftIdle, RanHere
  <2>. QED
    BY <1>1, <2>1, <2>2, <2>5, RequestStep DEF At, Handler, PCs
<1>4. CASE /\ vm[n].state = "gone" \/ vm[n].gen # handler[w].found
           /\ Done(w, TRUE) /\ UNCHANGED vm
  <2>1. Kept
    BY <1>1, <1>4, SameKeeps
  <2>2. handler' = [handler EXCEPT ![w].pc = "reply", ![w].ok = TRUE]
    BY <1>4 DEF Done
  <2>3. Settled(j)
    <3>1. CASE vm[n].state = "gone"
      BY <1>2, <3>1 DEF Settled, LeftIdle
    <3>2. CASE vm[n].gen # handler[w].found /\ RanHere(j)
      <4>1. job[j].gen \in Nat /\ vm[n].gen \in Nat
        BY <1>1, <1>2, Types DEF IInv, TypeOK, Job, VM
      <4>. QED
        BY <1>1, <1>2, <3>2, <4>1 DEF Stands, Settled
    <3>3. CASE vm[n].gen # handler[w].found /\ ~RanHere(j)
      BY <1>1, <1>2, <3>3 DEF Stands, Settled
    <3>. QED
      BY <1>4, <3>1, <3>2, <3>3
  <2>4. Stands(w)'
    BY <1>1, <1>4, <2>2, <2>3 DEF Stands, At, SettledOrOverlooked, Settled, LeftIdle, RanHere, Handler
  <2>. QED
    BY <1>1, <2>1, <2>2, <2>4, RequestStep DEF At, Handler, PCs
<1>5. CASE CallFails(w) /\ UNCHANGED vm
  <2>1. Kept
    BY <1>1, <1>5, SameKeeps
  <2>2. handler' = [handler EXCEPT ![w].pc = "reply", ![w].ok = FALSE]
    BY <1>5 DEF CallFails, Done
  <2>3. Stands(w)'
    BY <1>1, <2>2 DEF Stands, At, Handler
  <2>. QED
    BY <1>1, <2>1, <2>2, <2>3, RequestStep DEF At, Handler, PCs
<1>. QED
  BY <1>3, <1>4, <1>5 DEF Delete

-----------------------------------------------------------------------------
(* Steps of the queue *)

\* Task n changes and nobody else is concerned.
LEMMA QueueStep ==
    ASSUME IInv, UNCHANGED <<job, vm, inserting, overlooked>>, NEW n \in Jobs,
           tasks' \in [Jobs -> Task], \A m \in Jobs : m # n => tasks'[m] = tasks[m],
           handler' \in [Workers -> Handler],
           RequestsOK', Taken(tasks, n) => Taken(tasks, n)', job[n].status = "completed",
           \A w \in Workers : handler'[w].pc = "idle" \/ tasks'[handler'[w].task].state # "none",
           \A w \in Workers : Stands(w)',
           tasks'[n].state = "done" => SettledOrOverlooked(n)
    PROVE  IInv'
<1>1. TypeOK'
  BY DEF IInv, TypeOK
<1>2. AfterTheJob'
  BY DEF IInv, AfterTheJob, Taken, At
<1>3. OneJobPerVM'
  BY SameKeeps DEF Kept
<1>4. HandlersOK'
  BY DEF HandlersOK
<1>5. DoneOK'
  BY DEF IInv, DoneOK, SettledOrOverlooked, Settled, LeftIdle, RanHere
<1>. QED
  BY <1>1, <1>2, <1>3, <1>4, <1>5 DEF IInv

LEMMA IdleStands ==
    ASSUME NEW w \in Workers, handler'[w] = Idle
    PROVE  Stands(w)'
BY Types DEF Stands, At

LEMMA WebhookStep ==
    ASSUME IInv, NEW j \in Jobs, Webhook(j)
    PROVE  IInv'
<1>1. /\ job[j].status = "completed" /\ ~Taken(tasks, j) /\ tasks \in [Jobs -> Task]
      /\ tasks' = Created(tasks, j, 0)
      /\ UNCHANGED <<job, vm, inserting, handler, overlooked>>
  BY DEF Webhook, githubVars, IInv, TypeOK
<1>2. /\ tasks' \in [Jobs -> Task] /\ tasks'[j] = [state |-> "due", attempts |-> 0, count |-> 0]
      /\ \A m \in Jobs : m # j => tasks'[m] = tasks[m]
  BY <1>1, CreatedFacts
<1>3. RequestsOK'
  BY <1>1, <1>2, MaxAttemptsAssumption DEF IInv, RequestsOK, At, Taken, TypeOK, Handler
<1>4. \A w \in Workers : Stands(w)'
  BY <1>1, SameKeeps, StandsLasts
<1>5. \A w \in Workers : handler'[w].pc = "idle" \/ tasks'[handler'[w].task].state # "none"
  BY <1>1, <1>2 DEF IInv, AfterTheJob, Taken, At, TypeOK, Handler
<1>. QED
  BY <1>1, <1>2, <1>3, <1>4, <1>5, QueueStep DEF IInv, TypeOK, Taken

LEMMA DispatchStep ==
    ASSUME IInv, NEW w \in Workers, NEW j \in Jobs, Dispatch(w, j)
    PROVE  IInv'
<1>. DEFINE h == [Idle EXCEPT !.pc = IF RanHere(j) THEN "find" ELSE "busy", !.task = j, !.live = TRUE]
<1>1. /\ At(w, "idle") /\ tasks[j].state = "due" /\ tasks[j].attempts < MaxAttempts
      /\ tasks \in [Jobs -> Task] /\ tasks' = Dispatched(tasks, j)
      /\ handler' = [handler EXCEPT ![w] = h] /\ handler \in [Workers -> Handler]
      /\ UNCHANGED <<job, vm, inserting, overlooked>>
  BY DEF Dispatch, githubVars, IInv, TypeOK, RequestsOK
<1>2. /\ tasks' \in [Jobs -> Task] /\ tasks'[j].state = "running"
      /\ \A m \in Jobs : m # j => tasks'[m] = tasks[m]
  BY <1>1, DispatchedFacts
<1>3. /\ h \in Handler /\ h.live /\ h.task = j /\ h.running = {}
      /\ h.pc = IF RanHere(j) THEN "find" ELSE "busy"
  BY Types DEF Handler, PCs
<1>. HIDE DEF h
<1>4. handler'[w] = h /\ \A v \in Workers : v # w => handler'[v] = handler[v]
  BY <1>1
<1>5. job[j].status = "completed"
  BY <1>1 DEF IInv, AfterTheJob, Taken
<1>6. \A v \in Workers : v # w => Stands(v)'
  BY <1>1, <1>4, SameKeeps, StandsLasts
<1>7. Stands(w)'
  BY <1>1, <1>3, <1>4 DEF Stands, At, RanHere
<1>8. RequestsOK'
  <2>1. \A v \in Workers : handler[v].live => handler[v].task # j
    BY <1>1 DEF IInv, RequestsOK
  <2>. QED
    BY <1>1, <1>2, <1>3, <1>4, <2>1 DEF IInv, RequestsOK, At, TypeOK, Handler
<1>9. \A v \in Workers : handler'[v].pc = "idle" \/ tasks'[handler'[v].task].state # "none"
  BY <1>2, <1>3, <1>4 DEF IInv, AfterTheJob, Taken, At, TypeOK, Handler
<1>. QED
  BY <1>1, <1>2, <1>3, <1>5, <1>6, <1>7, <1>8, <1>9, QueueStep DEF Taken

\* The queue gives up on the attempt of worker w, or the worker is through with
\* its request.
LEMMA AttemptEnds ==
    ASSUME IInv, UNCHANGED <<job, vm, inserting, overlooked>>, NEW w \in Workers, ~At(w, "idle"),
           NEW h \in Handler, ~h.live, h.pc # "idle" => h.task = handler[w].task,
           handler' = [handler EXCEPT ![w] = h], Stands(w)',
           \/ tasks' = Acknowledged(tasks, handler[w].task) /\ handler[w].live
              /\ SettledOrOverlooked(handler[w].task)
           \/ tasks' = Failed(tasks, handler[w].task) /\ handler[w].live
           \/ tasks' = tasks /\ ~handler[w].live
    PROVE  IInv'
<1>. DEFINE j == handler[w].task
<1>1. /\ j \in Jobs /\ tasks \in [Jobs -> Task] /\ handler \in [Workers -> Handler]
      /\ Taken(tasks, j) /\ job[j].status = "completed"
  BY DEF IInv, TypeOK, Handler, AfterTheJob
<1>2. handler'[w] = h /\ \A v \in Workers : v # w => handler'[v] = handler[v]
  BY <1>1
<1>3. /\ tasks' \in [Jobs -> Task] /\ \A m \in Jobs : m # j => tasks'[m] = tasks[m]
      /\ tasks'[j].state # "none"
      /\ tasks'[j].state = "due" => tasks'[j].attempts < MaxAttempts
      /\ tasks'[j].state = "done" => SettledOrOverlooked(j)
      /\ ~handler[w].live => tasks' = tasks
  <2>1. CASE tasks' = Acknowledged(tasks, j) /\ handler[w].live /\ SettledOrOverlooked(j)
    BY <1>1, <2>1, AcknowledgedFacts
  <2>2. CASE tasks' = Failed(tasks, j) /\ handler[w].live
    BY <1>1, <2>2, FailedFacts
  <2>3. CASE tasks' = tasks /\ ~handler[w].live
    BY <1>1, <2>3 DEF IInv, RequestsOK, DoneOK, Taken
  <2>. QED
    BY <2>1, <2>2, <2>3
<1>4. \A v \in Workers : v # w => Stands(v)'
  BY <1>2, SameKeeps, StandsLasts
<1>5. RequestsOK'
  <2>1. \A v \in Workers : v # w /\ handler[v].live => handler'[v] = handler[v] /\ tasks'[handler[v].task] = tasks[handler[v].task]
    <3>. SUFFICES ASSUME NEW v \in Workers, v # w, handler[v].live
                  PROVE  tasks'[handler[v].task] = tasks[handler[v].task]
      BY <1>2
    <3>1. CASE handler[w].live
      BY <1>1, <1>3, <3>1 DEF IInv, RequestsOK, TypeOK, Handler
    <3>2. CASE ~handler[w].live
      BY <1>3, <3>2
    <3>. QED
      BY <3>1, <3>2
  <2>. QED
    BY <1>1, <1>2, <1>3, <2>1 DEF IInv, RequestsOK, At
<1>6. \A v \in Workers : handler'[v].pc = "idle" \/ tasks'[handler'[v].task].state # "none"
  BY <1>1, <1>2, <1>3 DEF IInv, AfterTheJob, Taken, At, TypeOK, Handler
<1>. QED
  BY <1>1, <1>2, <1>3, <1>4, <1>5, <1>6, QueueStep DEF Taken

LEMMA ReplyStep ==
    ASSUME IInv, NEW w \in Workers, Reply(w)
    PROVE  IInv'
<1>1. /\ At(w, "reply") /\ handler' = [handler EXCEPT ![w] = Idle]
      /\ UNCHANGED <<job, vm, inserting, overlooked>>
      /\ tasks' = IF ~handler[w].live THEN tasks
                  ELSE IF handler[w].ok THEN Acknowledged(tasks, handler[w].task)
                  ELSE Failed(tasks, handler[w].task)
  BY DEF Reply, githubVars
<1>2. handler'[w] = Idle /\ Stands(w)'
  BY <1>1, IdleStands DEF IInv, TypeOK
<1>3. handler[w].ok => SettledOrOverlooked(handler[w].task)
  BY <1>1 DEF IInv, HandlersOK, Stands
<1>. QED
  BY <1>1, <1>2, <1>3, Types, AttemptEnds DEF At

LEMMA CrashStep ==
    ASSUME IInv, NEW w \in Workers, Crash(w)
    PROVE  IInv'
<1>1. /\ ~At(w, "idle") /\ handler' = [handler EXCEPT ![w] = Idle]
      /\ UNCHANGED <<job, vm, inserting, overlooked>>
      /\ tasks' = IF handler[w].live THEN Failed(tasks, handler[w].task) ELSE tasks
  BY DEF Crash, githubVars
<1>2. handler'[w] = Idle /\ Stands(w)'
  BY <1>1, IdleStands DEF IInv, TypeOK
<1>. QED
  BY <1>1, <1>2, Types, AttemptEnds

LEMMA TimeoutStep ==
    ASSUME IInv, NEW w \in Workers, Timeout(w)
    PROVE  IInv'
<1>. DEFINE h == [handler[w] EXCEPT !.live = FALSE]
<1>1. /\ handler[w].live /\ ~At(w, "idle") /\ handler[w] \in Handler /\ handler \in [Workers -> Handler]
      /\ UNCHANGED <<job, vm, inserting, overlooked>>
      /\ tasks' = Failed(tasks, handler[w].task)
      /\ handler' = [handler EXCEPT ![w] = h]
  BY DEF Timeout, githubVars, IInv, RequestsOK, TypeOK
<1>2. /\ h \in Handler /\ ~h.live /\ h.pc = handler[w].pc /\ h.task = handler[w].task
      /\ h.found = handler[w].found /\ h.running = handler[w].running /\ h.ok = handler[w].ok
  BY <1>1 DEF Handler
<1>. HIDE DEF h
<1>3. handler'[w] = h /\ Stands(w)
  BY <1>1 DEF IInv, HandlersOK
<1>4. Stands(w)'
  BY <1>1, <1>2, <1>3 DEF Stands, At, Target, DeletionTarget, RanHere, LeftIdle, SettledOrOverlooked, Settled
<1>. QED
  BY <1>1, <1>2, <1>4, AttemptEnds

-----------------------------------------------------------------------------
(* The theorems *)

LEMMA StepHolds == IInv /\ [Next]_vars => IInv'
<1>. SUFFICES ASSUME IInv, [Next]_vars PROVE IInv'
  OBVIOUS
<1>1. inserting \subseteq Jobs
  BY DEF IInv, TypeOK
<1>2. ASSUME NEW j \in Jobs, Provision(j) PROVE IInv'
  BY <1>1, <1>2, SameKeeps, GithubStep DEF Provision
<1>3. ASSUME NEW j \in Jobs, Insert(j) PROVE IInv'
  BY <1>1, <1>3, InsertKeeps, GithubStep DEF Insert
<1>4. ASSUME NEW j \in Jobs, JobEnds(j) PROVE IInv'
  BY <1>1, <1>4, JobEndsKeeps, GithubStep DEF JobEnds
<1>5. ASSUME NEW j \in Jobs, Cancel(j) PROVE IInv'
  BY <1>1, <1>5, CancelKeeps, GithubStep DEF Cancel
<1>6. ASSUME NEW j \in Jobs, VMGoes(j) PROVE IInv'
  BY <1>1, <1>6, GoneKeeps, GithubStep DEF VMGoes
<1>7. ASSUME NEW n \in Jobs, NEW j \in Jobs, Assign(n, j) PROVE IInv'
  BY <1>1, <1>7, AssignKeeps, GithubStep DEF Assign
<1>8. CASE UNCHANGED vars
  BY <1>1, <1>8, SameKeeps, GithubStep DEF vars
<1>. QED
  BY <1>2, <1>3, <1>4, <1>5, <1>6, <1>7, <1>8, WebhookStep, DispatchStep, BusyStep, FindStep, DeleteStep,
     ReplyStep, CrashStep, TimeoutStep DEF Next, HandlerStep

\* Where every request, task and VM stands, in every behaviour.
THEOREM Invariance == Spec => []IInv
<1>. QED
  BY InitHolds, StepHolds, PTL DEF Spec

\* Every variable keeps its type.
THEOREM TypeCorrect == Spec => []TypeOK
<1>1. IInv => TypeOK
  BY DEF IInv
<1>. QED
  BY Invariance, <1>1, PTL

\* The VM that ran a job is gone when its completed task is acknowledged
\* (deleteRunnerVM and its repetition by the queue).
THEOREM RunnerGone == Spec => []CompletedVMGone
<1>1. IInv => CompletedVMGone
  <2>. SUFFICES ASSUME IInv, NEW j \in Jobs, tasks[j].state = "done", RanHere(j), j \notin overlooked
                PROVE  vm[job[j].runner].state = "gone" \/ vm[job[j].runner].gen # job[j].gen
    BY DEF CompletedVMGone
  <2>1. vm[job[j].runner].state = "gone" \/ job[j].gen < vm[job[j].runner].gen
    BY DEF IInv, DoneOK, SettledOrOverlooked, Settled
  <2>2. job[j].gen \in Nat
    BY Types DEF IInv, TypeOK, Job
  <2>. QED
    BY <2>1, <2>2
<1>. QED
  BY Invariance, <1>1, PTL

\* A job that never ran leaves no idle VM behind, but one that came too late
\* (runnerIsBusy, deleteRunnerVM).
THEOREM NothingIdle == Spec => []NoIdleLeftover
<1>1. IInv => NoIdleLeftover
  BY DEF IInv, DoneOK, SettledOrOverlooked, Settled, LeftIdle, NoIdleLeftover
<1>. QED
  BY Invariance, <1>1, PTL

\* The completed task hits the VM of a running job in the two windows only
\* (deletionTarget, runnerIsBusy, deleteRunnerVM).
THEOREM OnlyTwoWindows == Spec => KillsExplained
<1>. DEFINE Explained(w) ==
         LET j == handler[w].task IN
         \A n \in Jobs :
            (/\ vm[n].state # "gone" /\ vm'[n].state = "gone"
             /\ vm[n].works # None)
            => \/ ~RanHere(j) /\ vm[n].works \notin handler[w].running
               \/ RanHere(j) /\ n = job[j].runner /\ vm[n].gen # job[j].gen
<1>1. ASSUME IInv, NEW w \in Workers, Delete(w) PROVE Explained(w)
  <2>. DEFINE j == handler[w].task
  <2>1. /\ j \in Jobs /\ At(w, "delete") /\ Stands(w) /\ job[j].status = "completed"
        /\ vm' = vm \/ vm' = [vm EXCEPT ![Target(w)].state = "gone"]
    BY <1>1 DEF Delete, IInv, TypeOK, Handler, HandlersOK, AfterTheJob, At
  <2>. SUFFICES ASSUME NEW n \in Jobs, vm[n].state # "gone", vm'[n].state = "gone", vm[n].works # None
                PROVE  \/ ~RanHere(j) /\ vm[n].works \notin handler[w].running
                       \/ RanHere(j) /\ n = job[j].runner /\ vm[n].gen # job[j].gen
    OBVIOUS
  <2>2. n = Target(w)
    BY <1>1, <2>1 DEF IInv, TypeOK
  <2>3. CASE ~RanHere(j)
    BY <2>1, <2>2, <2>3 DEF Stands, At, Target, DeletionTarget
  <2>4. CASE RanHere(j)
    <3>1. n = job[j].runner
      BY <2>2, <2>4 DEF Target, DeletionTarget
    <3>2. /\ vm[n].works \in Jobs /\ job[vm[n].works].status = "running"
          /\ job[vm[n].works].runner = n /\ job[vm[n].works].gen = vm[n].gen
      BY <1>1 DEF IInv, OneJobPerVM, TypeOK, VM
    <3>3. vm[n].works # j
      BY <2>1, <3>2
    <3>4. vm[n].gen # job[j].gen
      <4>1. \A k \in Jobs : job[j].runner = job[k].runner /\ job[j].gen = job[k].gen => j = k
        BY <1>1, <2>1, <2>4 DEF IInv, OneJobPerVM
      <4>. QED
        BY <3>1, <3>2, <3>3, <4>1
    <3>. QED
      BY <2>4, <3>1, <3>4
  <2>. QED
    BY <2>3, <2>4
<1>2. IInv /\ [Next]_vars => [\A w \in Workers : Delete(w) => Explained(w)]_vars
  BY <1>1
<1>. QED
  BY Invariance, <1>2, PTL DEF Spec, KillsExplained
=============================================================================
