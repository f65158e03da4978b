---------------------------- MODULE RerunProofs ----------------------------
(***************************************************************************)
(* Proofs about Rerun, for any number of workers, attempts of the run,     *)
(* attempts at a task and open seconds, and under any of the faults.       *)
(***************************************************************************)
EXTENDS Rerun, FiniteSetTheorems, TLAPS

-----------------------------------------------------------------------------
(* The queue: what one operation on it does, for any set S of task names *)

LEMMA CreatedFacts ==
    ASSUME NEW S, NEW q \in [S -> Task], NEW n \in S, NEW c \in Nat
    PROVE  /\ Created(q, n, c) \in [S -> Task]
           /\ Created(q, n, c)[n] = [state |-> "due", attempts |-> 0, count |-> c]
           /\ \A m \in S : m # n => Created(q, n, c)[m] = q[m]
BY MaxAttemptsAssumption DEF Created, Task, TaskStates

LEMMA DispatchedFacts ==
    ASSUME NEW S, NEW q \in [S -> Task], NEW n \in S,
           q[n].attempts < MaxAttempts
    PROVE  /\ Dispatched(q, n) \in [S -> Task]
           /\ Dispatched(q, n)[n].state = "running"
           /\ \A m \in S : m # n => Dispatched(q, n)[m] = q[m]
<1>. DEFINE t == [q[n] EXCEPT !.state = "running", !.attempts = @ + 1]
<1>1. q[n].attempts + 1 \in 0..MaxAttempts
  BY MaxAttemptsAssumption DEF Task
<1>2. t \in Task /\ t.state = "running"
  <2>1. q[n] \in Task
    OBVIOUS
  <2>. QED
    BY <1>1, <2>1 DEF Task, TaskStates
<1>3. Dispatched(q, n) = [q EXCEPT ![n] = t]
  BY DEF Dispatched
<1>. HIDE DEF t
<1>. QED
  BY <1>2, <1>3

LEMMA AcknowledgedFacts ==
    ASSUME NEW S, NEW q \in [S -> Task], NEW n \in S
    PROVE  /\ Acknowledged(q, n) \in [S -> Task]
           /\ Acknowledged(q, n)[n].state = "done"
           /\ \A m \in S : m # n => Acknowledged(q, n)[m] = q[m]
<1>. DEFINE t == [q[n] EXCEPT !.state = "done", !.attempts = 0]
<1>1. t \in Task /\ t.state = "done"
  <2>1. q[n] \in Task
    OBVIOUS
  <2>2. 0 \in 0..MaxAttempts
    BY MaxAttemptsAssumption
  <2>. QED
    BY <2>1, <2>2 DEF Task, TaskStates
<1>2. Acknowledged(q, n) = [q EXCEPT ![n] = t]
  BY DEF Acknowledged
<1>. HIDE DEF t
<1>. QED
  BY <1>1, <1>2

\* A failed attempt leaves the task due, with an attempt left, or exhausted.
LEMMA FailedFacts ==
    ASSUME NEW S, NEW q \in [S -> Task], NEW n \in S
    PROVE  /\ Failed(q, n) \in [S -> Task]
           /\ \/ /\ Failed(q, n)[n].state = "due"
                 /\ Failed(q, n)[n].attempts < MaxAttempts
              \/ Failed(q, n)[n].state = "exhausted"
           /\ \A m \in S : m # n => Failed(q, n)[m] = q[m]
<1>1. CASE q[n].attempts < MaxAttempts
  <2>. DEFINE t == [q[n] EXCEPT !.state = "due"]
  <2>1. t \in Task /\ t.state = "due" /\ t.attempts < MaxAttempts
    <3>1. q[n] \in Task
      OBVIOUS
    <3>. QED
      BY <1>1, <3>1 DEF Task, TaskStates
  <2>2. Failed(q, n) = [q EXCEPT ![n] = t]
    BY <1>1 DEF Failed
  <2>. HIDE DEF t
  <2>. QED
    BY <2>1, <2>2
<1>2. CASE ~(q[n].attempts < MaxAttempts)
  <2>. DEFINE t == [q[n] EXCEPT !.state = "exhausted", !.attempts = 0]
  <2>1. t \in Task /\ t.state = "exhausted"
    <3>1. q[n] \in Task
      OBVIOUS
    <3>2. 0 \in 0..MaxAttempts
      BY MaxAttemptsAssumption
    <3>. QED
      BY <3>1, <3>2 DEF Task, TaskStates
  <2>2. Failed(q, n) = [q EXCEPT ![n] = t]
    BY <1>2 DEF Failed
  <2>. HIDE DEF t
  <2>. QED
    BY <2>1, <2>2
<1>. QED
  BY <1>1, <1>2

-----------------------------------------------------------------------------
(* The inductive invariant *)

\* Of the attempts at one task the queue waits for one, and only while it is
\* running; a task that is due has an attempt left.
RequestsOK ==
    /\ \A w \in Workers : handler[w].live =>
           tasks[handler[w].task].state = "running" /\ ~At(w, "idle")
    /\ \A v, w \in Workers :
           handler[v].live /\ handler[w].live
               /\ handler[v].task = handler[w].task => v = w
    /\ \A n \in TaskNames :
           tasks[n].state = "due" => tasks[n].attempts < MaxAttempts

RerunPCs == {"list", "fetchRun", "post", "listAgain", "defer"}

\* A rerun is on somebody's mind only if the VM was preempted.
OnlyPreempted ==
    /\ \A t \in Times : Taken(tasks, Deferred(t)) => job.preempted
    /\ \A w \in Workers : handler[w].pc \in RerunPCs \/ handler[w].deferred
           => job.preempted

\* What worker w read is still so, as long as the run is in the same attempt.
ReadsHold(w) ==
    handler[w].pc \in {"fetchRun", "post"} =>
        /\ handler[w].seen <= run.attempt
        /\ handler[w].seen < RerunAttempts
        /\ handler[w].seen = run.attempt => listed
        /\ At(w, "post") /\ handler[w].seen = run.attempt =>
               run.status = "completed" /\ ~run.cancelled

SeenOK == \A w \in Workers : ReadsHold(w)

AskedOK == asked = {} \/ (~listed /\ \E a \in RunAttempts : asked = {a})

\* There is no rerun to remember.
Over == ~job.preempted \/ ~listed \/ ended # {}

DeleteOK == \A w \in Workers :
    At(w, "delete") => handler[w].deferred \/ Over

\* Task n will be delivered, or its request has yet to decide.
Open(n) ==
    /\ Active(tasks, n)
    /\ \A w \in Workers : handler[w].live /\ handler[w].task = n =>
           ~(At(w, "reply") /\ handler[w].ok)

Remembered == Over \/ ~Taken(tasks, Completed)
                   \/ \E n \in TaskNames : Open(n)

IInv == /\ TypeOK /\ RequestsOK /\ OnlyPreempted /\ SeenOK /\ AskedOK
        /\ DeleteOK /\ Remembered

LEMMA Names ==
    /\ Completed \in TaskNames
    /\ \A t \in Times : Deferred(t) \in TaskNames /\ Deferred(t) # Completed
    /\ \A n \in TaskNames : n # Completed => \E t \in Times : n = Deferred(t)
    /\ Slots \in Nat /\ 0 \in Times
    /\ \A t \in Times : (t + 1) % Slots \in Times
BY RerunAssumption, SMT
   DEF TaskNames, Completed, Deferred, RerunNames, Times

LEMMA InitHolds == Init => IInv
<1>. SUFFICES ASSUME Init PROVE IInv
  OBVIOUS
<1>1. NoTask \in Task
  BY MaxAttemptsAssumption DEF NoTask, Task, TaskStates
<1>2. Idle \in Handler
  BY Names, RerunAssumption DEF Idle, Handler, PCs
<1>3. TypeOK
  BY <1>1, <1>2, Names DEF Init, TypeOK, Job, Run, RunAttempts
<1>. QED
  BY <1>3, Names
  DEF Init, IInv, RequestsOK, OnlyPreempted, SeenOK, ReadsHold, AskedOK,
      DeleteOK, Remembered, Taken, NoTask, Idle, At, RerunPCs

-----------------------------------------------------------------------------
(* Steps that leave the queue alone *)

\* Worker w takes a step within its request.
Moves(w) ==
    /\ handler' \in [Workers -> Handler]
    /\ \A v \in Workers : v # w => handler'[v] = handler[v]
    /\ handler'[w].live = handler[w].live
    /\ handler'[w].task = handler[w].task
    /\ handler'[w].pc # "idle"

\* A worker that keeps its place keeps what it read, unless the run went on.
LEMMA ReadsKept ==
    ASSUME IInv, NEW w \in Workers, handler'[w] = handler[w], TypeOK',
           \/ UNCHANGED <<run, listed>>
           \/ run'.attempt = run.attempt + 1
    PROVE  ReadsHold(w)'
<1>1. ReadsHold(w)
  BY DEF IInv, SeenOK
<1>2. CASE UNCHANGED <<run, listed>>
  BY <1>1, <1>2 DEF ReadsHold, At
<1>3. CASE run'.attempt = run.attempt + 1
  <2>1. run.attempt \in Nat /\ handler[w].seen \in Nat
    BY DEF IInv, TypeOK, Run, RunAttempts, Handler
  <2>. QED
    BY <1>1, <1>3, <2>1 DEF ReadsHold, At
<1>. QED
  BY <1>2, <1>3

LEMMA RequestStep ==
    ASSUME IInv, NEW w \in Workers, Moves(w), TypeOK',
           UNCHANGED <<job, tasks>>, Over => Over', AskedOK',
           \A v \in Workers : ReadsHold(v)',
           handler'[w].pc \in RerunPCs \/ handler'[w].deferred
               => job.preempted,
           handler'[w].pc = "delete" => handler'[w].deferred \/ Over',
           handler'[w].pc = "reply" /\ handler'[w].ok => Over'
    PROVE  IInv'
<1>1. RequestsOK'
  BY DEF IInv, RequestsOK, Moves, At
<1>2. OnlyPreempted'
  BY DEF IInv, OnlyPreempted, Moves, Taken
<1>3. DeleteOK'
  BY DEF IInv, DeleteOK, Moves, At
<1>4. Remembered'
  <2>. SUFFICES ASSUME ~Over', Taken(tasks, Completed)
                PROVE  \E n \in TaskNames : Open(n)'
    BY DEF Remembered, Taken
  <2>1. PICK n \in TaskNames : Open(n)
    BY DEF IInv, Remembered
  <2>2. Open(n)'
    BY <2>1 DEF Open, Moves, Active, At
  <2>. QED
    BY <2>2
<1>. QED
  BY <1>1, <1>2, <1>3, <1>4 DEF IInv, SeenOK

\* A step that changes nothing but the worker and the reasons.
LEMMA ReadingStep ==
    ASSUME IInv, NEW w \in Workers, Moves(w), ReadsHold(w)',
           UNCHANGED <<githubVars, now, tasks, asked>>,
           ended \subseteq ended', ended' \subseteq Reasons,
           handler'[w].pc \in RerunPCs \/ handler'[w].deferred
               => job.preempted,
           handler'[w].pc = "delete" => handler'[w].deferred \/ Over',
           handler'[w].pc = "reply" /\ handler'[w].ok => Over'
    PROVE  IInv'
<1>1. TypeOK'
  BY DEF IInv, TypeOK, Moves, githubVars
<1>2. Over => Over'
  BY DEF Over, githubVars
<1>3. AskedOK'
  BY DEF IInv, AskedOK, githubVars
<1>4. \A v \in Workers : ReadsHold(v)'
  BY <1>1, ReadsKept DEF Moves, githubVars
<1>. QED
  BY <1>1, <1>2, <1>3, <1>4, RequestStep DEF githubVars

\* The forms a step within a request takes.
LEMMA Moved ==
    ASSUME IInv, NEW w \in Workers
    PROVE  /\ \A pc \in PCs \ {"idle"} : Goto(w, pc) =>
                 /\ Moves(w) /\ handler'[w].pc = pc
                 /\ handler'[w].deferred = handler[w].deferred
                 /\ handler'[w].seen = handler[w].seen
           /\ \A ok \in BOOLEAN : Done(w, ok) =>
                 /\ Moves(w) /\ handler'[w].pc = "reply"
                 /\ handler'[w].ok = ok
                 /\ handler'[w].deferred = handler[w].deferred
BY DEF IInv, TypeOK, Goto, Done, Moves, Handler, PCs

LEMMA CallFailsMoves ==
    ASSUME IInv, NEW w \in Workers, CallFails(w)
    PROVE  /\ Moves(w) /\ handler'[w].pc = "reply" /\ ~handler'[w].ok
           /\ handler'[w].deferred = handler[w].deferred
BY Moved DEF CallFails

LEMMA SettledMoves ==
    ASSUME IInv, NEW w \in Workers, Settled(w)
    PROVE  /\ Moves(w) /\ handler'[w].pc \in {"delete", "reply"}
           /\ handler'[w].deferred = handler[w].deferred
BY Moved DEF Settled, PCs

LEMMA PreemptionStep ==
    ASSUME IInv, NEW w \in Workers, Preemption(w) PROVE IInv'
<1>1. UNCHANGED <<githubVars, now, tasks, asked>>
  BY DEF Preemption
<1>2. handler[w].deferred => job.preempted
  BY DEF IInv, OnlyPreempted
<1>3. CASE Goto(w, "list") /\ job.preempted /\ UNCHANGED ended
  <2>1. Moves(w) /\ handler'[w].pc = "list"
    BY <1>3, Moved DEF PCs
  <2>2. ReadsHold(w)'
    BY <2>1 DEF ReadsHold
  <2>. QED
    BY <1>1, <1>3, <2>1, <2>2, ReadingStep DEF IInv, TypeOK
<1>4. CASE /\ Goto(w, "delete") /\ ended \subseteq ended'
           /\ ended' \subseteq Reasons /\ (~job.preempted \/ ended' # {})
  <2>1. /\ Moves(w) /\ handler'[w].pc = "delete"
        /\ handler'[w].deferred = handler[w].deferred
    BY <1>4, Moved DEF PCs
  <2>2. ReadsHold(w)'
    BY <2>1 DEF ReadsHold
  <2>3. Over'
    BY <1>1, <1>4 DEF Over, githubVars
  <2>4. handler'[w].pc \notin RerunPCs
    BY <2>1 DEF RerunPCs
  <2>. QED
    BY <1>1, <1>2, <1>4, <2>1, <2>2, <2>3, <2>4, ReadingStep
<1>5. CASE CallFails(w) /\ UNCHANGED ended
  <2>1. /\ Moves(w) /\ handler'[w].pc = "reply" /\ ~handler'[w].ok
        /\ handler'[w].deferred = handler[w].deferred
    BY <1>5, CallFailsMoves
  <2>2. ReadsHold(w)' /\ handler'[w].pc \notin RerunPCs
    BY <2>1 DEF ReadsHold, RerunPCs
  <2>. QED
    BY <1>1, <1>2, <1>5, <2>1, <2>2, ReadingStep DEF IInv, TypeOK
<1>6. \/ Goto(w, "list") /\ job.preempted /\ UNCHANGED ended
      \/ /\ Goto(w, "delete") /\ ended \subseteq ended'
         /\ ended' \subseteq Reasons /\ (~job.preempted \/ ended' # {})
      \/ CallFails(w) /\ UNCHANGED ended
  BY DEF Preemption, IInv, TypeOK, Reasons
<1>. QED
  BY <1>3, <1>4, <1>5, <1>6

\* A call of the request that failed, or its end, with nothing decided.
LEMMA StopStep ==
    ASSUME IInv, NEW w \in Workers, Moves(w),
           UNCHANGED <<githubVars, now, tasks, asked>>,
           ended \subseteq ended', ended' \subseteq Reasons,
           handler'[w].pc \in {"delete", "reply"},
           handler'[w].deferred = handler[w].deferred,
           (handler'[w].pc = "reply" /\ ~handler'[w].ok) \/ Over'
    PROVE  IInv'
<1>1. handler[w].deferred => job.preempted
  BY DEF IInv, OnlyPreempted
<1>2. ReadsHold(w)' /\ handler'[w].pc \notin RerunPCs
  BY DEF ReadsHold, RerunPCs
<1>. QED
  BY <1>1, <1>2, ReadingStep

LEMMA ListStep ==
    ASSUME IInv, NEW w \in Workers, List(w) PROVE IInv'
<1>1. UNCHANGED <<githubVars, now, tasks, asked>>
  BY DEF List
<1>2. job.preempted
  BY DEF List, IInv, OnlyPreempted, At, RerunPCs
<1>3. CASE CallFails(w) /\ UNCHANGED ended
  BY <1>1, <1>3, CallFailsMoves, StopStep DEF IInv, TypeOK
<1>4. CASE /\ Settled(w) /\ ended \subseteq ended' /\ ended' \subseteq Reasons
           /\ ~listed \/ ended' # {}
  <2>1. Over'
    BY <1>1, <1>4 DEF Over, githubVars
  <2>. QED
    BY <1>1, <1>4, <2>1, SettledMoves, StopStep
<1>5. CASE /\ listed /\ run.attempt < RerunAttempts /\ UNCHANGED ended
           /\ handler' = [handler EXCEPT ![w].pc = "fetchRun",
                                         ![w].seen = run.attempt]
  <2>1. run.attempt \in 0..MaxRunAttempt
    BY RerunAssumption DEF IInv, TypeOK, Run, RunAttempts
  <2>2. Moves(w) /\ handler'[w].pc = "fetchRun" /\ handler'[w].seen = run.attempt
    BY <1>5, <2>1 DEF IInv, TypeOK, Moves, Handler, PCs
  <2>3. ReadsHold(w)'
    BY <1>1, <1>5, <2>1, <2>2 DEF ReadsHold, githubVars, At
  <2>. QED
    BY <1>1, <1>2, <1>5, <2>2, <2>3, ReadingStep DEF IInv, TypeOK
<1>6. run.attempt \in Nat /\ RerunAttempts \in Nat
  BY RerunAssumption DEF IInv, TypeOK, Run, RunAttempts
<1>7. \/ CallFails(w) /\ UNCHANGED ended
      \/ /\ Settled(w) /\ ended \subseteq ended' /\ ended' \subseteq Reasons
         /\ ~listed \/ ended' # {}
      \/ /\ listed /\ run.attempt < RerunAttempts /\ UNCHANGED ended
         /\ handler' = [handler EXCEPT ![w].pc = "fetchRun",
                                       ![w].seen = run.attempt]
  BY <1>6 DEF List, Listed, Spent, IInv, TypeOK, Reasons
<1>. QED
  BY <1>3, <1>4, <1>5, <1>7

LEMMA FetchRunStep ==
    ASSUME IInv, NEW w \in Workers, FetchRun(w) PROVE IInv'
<1>1. UNCHANGED <<githubVars, now, tasks, asked>>
  BY DEF FetchRun
<1>2. job.preempted
  BY DEF FetchRun, IInv, OnlyPreempted, At, RerunPCs
<1>3. CASE CallFails(w) /\ UNCHANGED ended
  BY <1>1, <1>3, CallFailsMoves, StopStep DEF IInv, TypeOK
<1>4. CASE Settled(w) /\ ended' = ended \cup {"cancelled"}
  <2>1. Over' /\ ended' \subseteq Reasons
    BY <1>4 DEF Over, IInv, TypeOK, Reasons
  <2>. QED
    BY <1>1, <1>4, <2>1, SettledMoves, StopStep
<1>5. CASE RunBusy(w) /\ UNCHANGED ended
  <2>1. /\ Moves(w)
        /\ \/ handler'[w].pc = "delete" /\ handler'[w].deferred
           \/ handler'[w].pc = "defer"
    BY <1>5, Moved DEF RunBusy, IInv, TypeOK, Moves, Handler, PCs
  <2>2. ReadsHold(w)'
    BY <2>1 DEF ReadsHold
  <2>. QED
    BY <1>1, <1>2, <1>5, <2>1, <2>2, ReadingStep DEF IInv, TypeOK
<1>6. CASE /\ run.status = "completed" /\ ~run.cancelled
           /\ Goto(w, "post") /\ UNCHANGED ended
  <2>1. /\ Moves(w) /\ handler'[w].pc = "post"
        /\ handler'[w].seen = handler[w].seen
    BY <1>6, Moved DEF PCs
  <2>2. ReadsHold(w)'
    BY <1>1, <1>6, <2>1 DEF FetchRun, IInv, SeenOK, ReadsHold, githubVars, At
  <2>. QED
    BY <1>1, <1>2, <1>6, <2>1, <2>2, ReadingStep DEF IInv, TypeOK
<1>. QED
  BY <1>3, <1>4, <1>5, <1>6 DEF FetchRun

\* GitHub accepts a rerun only of the attempt the worker saw the job in.
LEMMA AcceptedFacts ==
    ASSUME IInv, NEW w \in Workers, At(w, "post"), Acceptable(w)
    PROVE  /\ job.preempted /\ listed /\ asked = {}
           /\ run.status = "completed" /\ ~run.cancelled
           /\ run.attempt + 1 \in RunAttempts
           /\ run.attempt + 1 <= RerunAttempts
<1>1. ReadsHold(w)
  BY DEF IInv, SeenOK
<1>2. run.attempt < RerunAttempts /\ listed /\ ~run.cancelled
  BY <1>1 DEF ReadsHold, At, Acceptable
<1>3. run.attempt + 1 <= RerunAttempts /\ run.attempt + 1 \in RunAttempts
  BY <1>2, RerunAssumption DEF IInv, TypeOK, Run, RunAttempts
<1>4. job.preempted
  BY DEF IInv, OnlyPreempted, At, RerunPCs
<1>. QED
  BY <1>2, <1>3, <1>4 DEF IInv, AskedOK, Acceptable

LEMMA PostStep ==
    ASSUME IInv, NEW w \in Workers, Post(w) PROVE IInv'
<1>1. UNCHANGED <<job, now, tasks, ended>>
  BY DEF Post
<1>2. CASE CallFails(w) /\ UNCHANGED <<run, listed, asked>>
  BY <1>1, <1>2, CallFailsMoves, StopStep DEF IInv, TypeOK, githubVars
<1>3. CASE Goto(w, "listAgain") /\ UNCHANGED <<run, listed, asked>>
  <2>1. Moves(w) /\ handler'[w].pc = "listAgain"
    BY <1>3, Moved DEF PCs
  <2>2. ReadsHold(w)' /\ job.preempted
    BY <2>1 DEF ReadsHold, Post, IInv, OnlyPreempted, At, RerunPCs
  <2>. QED
    BY <1>1, <1>3, <2>1, <2>2, ReadingStep DEF IInv, TypeOK, githubVars
<1>4. CASE /\ Acceptable(w) /\ NextAttempt /\ listed' = FALSE
           /\ asked' = asked \cup {run.attempt + 1}
           /\ Settled(w) \/ Done(w, FALSE)
  <2>1. job.preempted /\ asked = {} /\ run.attempt + 1 \in RunAttempts
    BY <1>4, AcceptedFacts DEF Post
  <2>2. /\ Moves(w) /\ handler'[w].pc \in {"delete", "reply"}
    BY <1>4, SettledMoves, Moved
  <2>3. TypeOK' /\ run'.attempt = run.attempt + 1
    BY <1>1, <1>4, <2>1, <2>2 DEF IInv, TypeOK, NextAttempt, Run, Moves
  <2>4. AskedOK' /\ Over'
    BY <1>4, <2>1 DEF AskedOK, Over
  <2>5. \A v \in Workers : ReadsHold(v)'
    <3>1. ReadsHold(w)'
      BY <2>2 DEF ReadsHold
    <3>2. ASSUME NEW v \in Workers, v # w PROVE ReadsHold(v)'
      BY <2>2, <2>3, <3>2, ReadsKept DEF Moves
    <3>. QED
      BY <3>1, <3>2
  <2>. QED
    BY <1>1, <2>1, <2>2, <2>3, <2>4, <2>5, RequestStep
<1>. QED
  BY <1>2, <1>3, <1>4 DEF Post

LEMMA ListAgainStep ==
    ASSUME IInv, NEW w \in Workers, ListAgain(w) PROVE IInv'
<1>1. UNCHANGED <<githubVars, now, tasks, asked>> /\ UNCHANGED ended
  BY DEF ListAgain
<1>2. ended \subseteq ended' /\ ended' \subseteq Reasons
  BY <1>1 DEF IInv, TypeOK
<1>3. CASE ~listed /\ Settled(w)
  <2>1. Over'
    BY <1>1, <1>3 DEF Over, githubVars
  <2>. QED
    BY <1>1, <1>2, <1>3, <2>1, SettledMoves, StopStep
<1>4. CASE Done(w, FALSE)
  BY <1>1, <1>2, <1>4, Moved, StopStep
<1>5. CASE CallFails(w)
  BY <1>1, <1>2, <1>5, CallFailsMoves, StopStep
<1>. QED
  BY <1>3, <1>4, <1>5 DEF ListAgain, Listed

LEMMA DeleteStep ==
    ASSUME IInv, NEW w \in Workers, Delete(w) PROVE IInv'
<1>1. UNCHANGED <<githubVars, now, tasks, asked>> /\ UNCHANGED ended
  BY DEF Delete
<1>2. ended \subseteq ended' /\ ended' \subseteq Reasons
  BY <1>1 DEF IInv, TypeOK
<1>3. CASE handler[w].deferred /\ Goto(w, "defer")
  <2>1. Moves(w) /\ handler'[w].pc = "defer"
    BY <1>3, Moved DEF PCs
  <2>2. ReadsHold(w)' /\ job.preempted
    BY <1>3, <2>1 DEF ReadsHold, IInv, OnlyPreempted
  <2>. QED
    BY <1>1, <1>2, <2>1, <2>2, ReadingStep
<1>4. CASE ~handler[w].deferred /\ Done(w, TRUE)
  <2>1. Over
    BY <1>4 DEF IInv, DeleteOK, Delete
  <2>2. Over'
    BY <1>1, <2>1 DEF Over, githubVars
  <2>. QED
    BY <1>1, <1>2, <1>4, <2>2, Moved, StopStep
<1>5. CASE CallFails(w)
  BY <1>1, <1>2, <1>5, CallFailsMoves, StopStep
<1>. QED
  BY <1>3, <1>4, <1>5 DEF Delete

-----------------------------------------------------------------------------
(* Steps of the queue *)

\* Nobody is waited for under a name whose task is not running.
LEMMA NobodyAt ==
    ASSUME IInv, NEW n \in TaskNames, tasks[n].state # "running"
    PROVE  \A w \in Workers : handler[w].live => handler[w].task # n
BY DEF IInv, RequestsOK

\* What a new task does to the queue.
LEMMA NewTask ==
    ASSUME IInv, NEW n \in TaskNames, ~Taken(tasks, n),
           tasks' = Created(tasks, n, 0)
    PROVE  /\ tasks' \in [TaskNames -> Task]
           /\ tasks'[n].state = "due" /\ tasks'[n].attempts = 0
           /\ \A m \in TaskNames : m # n => tasks'[m] = tasks[m]
           /\ \A w \in Workers : handler[w].live => handler[w].task # n
<1>1. tasks \in [TaskNames -> Task]
  BY DEF IInv, TypeOK
<1>2. /\ tasks' \in [TaskNames -> Task]
      /\ tasks'[n] = [state |-> "due", attempts |-> 0, count |-> 0]
      /\ \A m \in TaskNames : m # n => tasks'[m] = tasks[m]
  BY <1>1, CreatedFacts
<1>. QED
  BY <1>2, NobodyAt DEF Taken

LEMMA WebhookStep == ASSUME IInv, Webhook PROVE IInv'
<1>1. /\ tasks' \in [TaskNames -> Task]
      /\ tasks'[Completed].state = "due" /\ tasks'[Completed].attempts = 0
      /\ \A m \in TaskNames : m # Completed => tasks'[m] = tasks[m]
      /\ \A w \in Workers : handler[w].live => handler[w].task # Completed
  BY Names, NewTask DEF Webhook
<1>2. UNCHANGED <<job, run, listed, now, handler, asked, ended>>
  BY DEF Webhook, githubVars
<1>3. TypeOK'
  BY <1>1, <1>2 DEF IInv, TypeOK
<1>4. RequestsOK'
  <2>1. \A w \in Workers : handler[w].task \in TaskNames
    BY DEF IInv, TypeOK, Handler
  <2>. QED
    BY <1>1, <1>2, <2>1, MaxAttemptsAssumption DEF IInv, RequestsOK, At
<1>5. OnlyPreempted'
  BY <1>1, <1>2, Names DEF IInv, OnlyPreempted, Taken
<1>6. SeenOK' /\ AskedOK' /\ DeleteOK'
  BY <1>2 DEF IInv, SeenOK, ReadsHold, AskedOK, DeleteOK, Over, At
<1>7. Open(Completed)'
  BY <1>1, <1>2 DEF Open, Active
<1>. QED
  BY <1>3, <1>4, <1>5, <1>6, <1>7, Names DEF IInv, Remembered

LEMMA DeferStep ==
    ASSUME IInv, NEW w \in Workers, Defer(w) PROVE IInv'
<1>. DEFINE n == Deferred(now)
<1>1. n \in TaskNames /\ now \in Times
  BY Names DEF IInv, TypeOK
<1>2. UNCHANGED <<job, run, listed, now, asked, ended>>
  BY DEF Defer, githubVars
<1>3. job.preempted
  BY DEF Defer, IInv, OnlyPreempted, At, RerunPCs
<1>4. CASE UNCHANGED tasks /\ (Done(w, FALSE) \/ CallFails(w))
  <2>1. Moves(w) /\ handler'[w].pc = "reply" /\ ~handler'[w].ok
        /\ handler'[w].deferred = handler[w].deferred
    BY <1>4, Moved, CallFailsMoves
  <2>2. ended \subseteq ended' /\ ended' \subseteq Reasons
    BY <1>2 DEF IInv, TypeOK
  <2>. QED
    BY <1>2, <1>4, <2>1, <2>2, StopStep DEF githubVars
<1>5. CASE /\ ~Taken(tasks, n) /\ tasks' = Created(tasks, n, 0)
           /\ Done(w, TRUE) \/ Done(w, FALSE)
  <2>1. /\ tasks' \in [TaskNames -> Task]
        /\ tasks'[n].state = "due" /\ tasks'[n].attempts = 0
        /\ \A m \in TaskNames : m # n => tasks'[m] = tasks[m]
        /\ \A v \in Workers : handler[v].live => handler[v].task # n
    BY <1>1, <1>5, NewTask
  <2>2. /\ Moves(w) /\ handler'[w].pc = "reply"
        /\ handler'[w].deferred = handler[w].deferred
    BY <1>5, Moved
  <2>3. TypeOK'
    BY <1>2, <2>1, <2>2 DEF IInv, TypeOK, Moves
  <2>4. RequestsOK'
    <3>1. \A v \in Workers : /\ handler[v].task \in TaskNames
                             /\ handler'[v].live = handler[v].live
                             /\ handler'[v].task = handler[v].task
                             /\ ~At(v, "idle") => ~At(v, "idle")'
      BY <2>2 DEF IInv, TypeOK, Handler, Moves, At
    <3>. QED
      BY <2>1, <3>1, MaxAttemptsAssumption DEF IInv, RequestsOK
  <2>5. OnlyPreempted'
    BY <1>2, <1>3 DEF OnlyPreempted
  <2>6. SeenOK'
    <3>1. ReadsHold(w)'
      BY <2>2 DEF ReadsHold
    <3>2. ASSUME NEW v \in Workers, v # w PROVE ReadsHold(v)'
      BY <1>2, <2>2, <2>3, <3>2, ReadsKept DEF Moves
    <3>. QED
      BY <3>1, <3>2 DEF SeenOK
  <2>7. AskedOK' /\ DeleteOK'
    BY <1>2, <2>2 DEF IInv, AskedOK, DeleteOK, Over, Moves, At
  <2>8. Open(n)'
    BY <1>2, <2>1, <2>2 DEF Open, Active, Moves
  <2>9. \E m \in TaskNames : Open(m)'
    BY <1>1, <1>2, <2>8
  <2>. QED
    BY <2>3, <2>4, <2>5, <2>6, <2>7, <2>9 DEF IInv, Remembered
<1>. QED
  BY <1>4, <1>5 DEF Defer

\* Worker w is rid of its request, or of the queue's attention.
Leaves(w) ==
    /\ handler'[w] = Idle \/ handler'[w] = [handler[w] EXCEPT !.live = FALSE]
    /\ \A v \in Workers : v # w => handler'[v] = handler[v]

LEMMA LeavesKeeps ==
    ASSUME IInv, NEW w \in Workers, Leaves(w), TypeOK', Over => Over',
           UNCHANGED <<job, run, listed, now, asked>>,
           \A t \in Times : Taken(tasks, Deferred(t))' =>
               Taken(tasks, Deferred(t))
    PROVE  /\ OnlyPreempted' /\ SeenOK' /\ AskedOK' /\ DeleteOK'
           /\ ~handler'[w].live
<1>1. /\ handler[w] \in Handler
      /\ \/ handler'[w] = Idle
         \/ /\ handler'[w].pc = handler[w].pc
            /\ handler'[w].seen = handler[w].seen
            /\ handler'[w].deferred = handler[w].deferred
            /\ ~handler'[w].live
  BY DEF IInv, TypeOK, Leaves, Handler
<1>2. OnlyPreempted'
  BY <1>1 DEF IInv, OnlyPreempted, Leaves, Idle, RerunPCs
<1>3. SeenOK'
  <2>1. ReadsHold(w)'
    BY <1>1 DEF IInv, SeenOK, ReadsHold, At, Idle
  <2>2. ASSUME NEW v \in Workers, v # w PROVE ReadsHold(v)'
    BY <2>2, ReadsKept DEF Leaves
  <2>. QED
    BY <2>1, <2>2 DEF SeenOK
<1>4. DeleteOK'
  BY <1>1 DEF IInv, DeleteOK, At, Leaves, Idle
<1>. QED
  BY <1>1, <1>2, <1>3, <1>4 DEF IInv, AskedOK, Idle

LEMMA LeavesTypes ==
    ASSUME IInv, NEW w \in Workers,
           \/ handler' = [handler EXCEPT ![w] = Idle]
           \/ handler' = [handler EXCEPT ![w].live = FALSE]
    PROVE  Leaves(w) /\ handler' \in [Workers -> Handler]
<1>1. Idle \in Handler
  BY Names, RerunAssumption DEF Idle, Handler, PCs
<1>. QED
  BY <1>1 DEF IInv, TypeOK, Leaves, Handler

\* An attempt at the task of worker w fails.
LEMMA AttemptFails ==
    ASSUME IInv, NEW w \in Workers, handler[w].live,
           Unanswered(handler[w].task), UNCHANGED <<job, run, listed, now, asked>>,
           \/ handler' = [handler EXCEPT ![w] = Idle]
           \/ handler' = [handler EXCEPT ![w].live = FALSE]
    PROVE  IInv'
<1>. DEFINE n == handler[w].task
<1>1. n \in TaskNames /\ tasks[n].state = "running" /\ tasks \in [TaskNames -> Task]
  BY DEF IInv, TypeOK, Handler, RequestsOK
<1>2. /\ tasks' \in [TaskNames -> Task]
      /\ \/ tasks'[n].state = "due" /\ tasks'[n].attempts < MaxAttempts
         \/ tasks'[n].state = "exhausted"
      /\ \A m \in TaskNames : m # n => tasks'[m] = tasks[m]
  BY <1>1, FailedFacts DEF Unanswered
<1>3. /\ ended \subseteq ended' /\ ended' \subseteq Reasons
      /\ tasks'[n].state = "exhausted" => ended' # {}
  BY <1>1 DEF Unanswered, IInv, TypeOK, Reasons
<1>4. Leaves(w) /\ handler' \in [Workers -> Handler]
  BY LeavesTypes
<1>5. TypeOK'
  BY <1>2, <1>3, <1>4 DEF IInv, TypeOK
<1>6. Over => Over'
  BY <1>3 DEF Over
<1>7. \A m \in TaskNames : Taken(tasks, m)' => Taken(tasks, m)
  BY <1>1, <1>2 DEF Taken
<1>8. OnlyPreempted' /\ SeenOK' /\ AskedOK' /\ DeleteOK' /\ ~handler'[w].live
  BY <1>4, <1>5, <1>6, <1>7, Names, LeavesKeeps
<1>9. \A v \in Workers : handler'[v].live =>
          v # w /\ handler'[v] = handler[v] /\ handler[v].task # n
  BY <1>4, <1>8 DEF Leaves, IInv, RequestsOK
<1>10. RequestsOK'
  <2>1. \A v \in Workers : handler[v].task \in TaskNames
    BY DEF IInv, TypeOK, Handler
  <2>. QED
    BY <1>2, <1>9, <2>1 DEF IInv, RequestsOK, At
<1>11. Remembered'
  BY <1>1, <1>2, <1>3, <1>9 DEF Remembered, Over, Open, Active
<1>. QED
  BY <1>5, <1>8, <1>10, <1>11 DEF IInv

\* A request ends that the queue no longer waits for.
LEMMA RequestDropped ==
    ASSUME IInv, NEW w \in Workers, ~handler[w].live,
           UNCHANGED <<job, run, listed, now, asked, tasks, ended>>,
           handler' = [handler EXCEPT ![w] = Idle]
    PROVE  IInv'
<1>1. Leaves(w) /\ handler' \in [Workers -> Handler]
  BY LeavesTypes
<1>2. TypeOK'
  BY <1>1 DEF IInv, TypeOK
<1>3. Over => Over'
  BY DEF Over
<1>4. OnlyPreempted' /\ SeenOK' /\ AskedOK' /\ DeleteOK' /\ ~handler'[w].live
  BY <1>1, <1>2, <1>3, LeavesKeeps DEF Taken
<1>5. \A v \in Workers : handler'[v].live => handler'[v] = handler[v]
  BY <1>1, <1>4 DEF Leaves
<1>6. RequestsOK'
  BY <1>5 DEF IInv, RequestsOK, At
<1>7. Remembered'
  BY <1>5 DEF IInv, Remembered, Over, Open, Active, Taken, At
<1>. QED
  BY <1>2, <1>4, <1>6, <1>7 DEF IInv

LEMMA CrashStep == ASSUME IInv, NEW w \in Workers, Crash(w) PROVE IInv'
BY AttemptFails, RequestDropped DEF Crash, githubVars

LEMMA TimeoutStep == ASSUME IInv, NEW w \in Workers, Timeout(w) PROVE IInv'
BY AttemptFails DEF Timeout, githubVars

LEMMA ReplyStep == ASSUME IInv, NEW w \in Workers, Reply(w) PROVE IInv'
<1>1. CASE handler[w].live /\ ~handler[w].ok
  BY <1>1, AttemptFails DEF Reply, githubVars
<1>2. CASE ~handler[w].live
  BY <1>2, RequestDropped DEF Reply, githubVars
<1>3. CASE handler[w].live /\ handler[w].ok
  <2>. DEFINE n == handler[w].task
  <2>1. n \in TaskNames /\ tasks[n].state = "running" /\ tasks \in [TaskNames -> Task]
    BY <1>3 DEF IInv, TypeOK, Handler, RequestsOK
  <2>2. /\ UNCHANGED <<job, run, listed, now, asked, ended>> /\ At(w, "reply")
        /\ tasks' = Acknowledged(tasks, n)
    BY <1>3 DEF Reply, githubVars
  <2>3. /\ tasks' \in [TaskNames -> Task] /\ tasks'[n].state = "done"
        /\ \A m \in TaskNames : m # n => tasks'[m] = tasks[m]
    BY <2>1, <2>2, AcknowledgedFacts
  <2>4. Leaves(w) /\ handler' \in [Workers -> Handler]
    BY LeavesTypes DEF Reply
  <2>5. TypeOK'
    BY <2>2, <2>3, <2>4 DEF IInv, TypeOK
  <2>6. Over <=> Over'
    BY <2>2 DEF Over
  <2>7. \A m \in TaskNames : Taken(tasks, m)' => Taken(tasks, m)
    BY <2>1, <2>3 DEF Taken
  <2>8. OnlyPreempted' /\ SeenOK' /\ AskedOK' /\ DeleteOK' /\ ~handler'[w].live
    BY <2>2, <2>4, <2>5, <2>6, <2>7, Names, LeavesKeeps
  <2>9. \A v \in Workers : handler'[v].live =>
            v # w /\ handler'[v] = handler[v] /\ handler[v].task # n
    BY <1>3, <2>4, <2>8 DEF Leaves, IInv, RequestsOK
  <2>10. RequestsOK'
    <3>1. \A v \in Workers : handler[v].task \in TaskNames
      BY DEF IInv, TypeOK, Handler
    <3>. QED
      BY <2>3, <2>9, <3>1 DEF IInv, RequestsOK, At
  <2>11. Remembered'
    <3>. SUFFICES ASSUME ~Over, Taken(tasks, Completed)
                  PROVE  \E m \in TaskNames : Open(m)'
      BY <2>6, <2>7, Names DEF Remembered
    <3>1. PICK m \in TaskNames : Open(m)
      BY DEF IInv, Remembered
    <3>2. m # n
      BY <1>3, <2>2, <3>1 DEF Open
    <3>3. Open(m)'
      BY <2>3, <2>9, <3>1, <3>2 DEF Open, Active, At
    <3>. QED
      BY <3>3
  <2>. QED
    BY <2>5, <2>8, <2>10, <2>11 DEF IInv
<1>. QED
  BY <1>1, <1>2, <1>3

LEMMA DispatchStep ==
    ASSUME IInv, NEW w \in Workers, NEW n \in TaskNames, Dispatch(w, n)
    PROVE  IInv'
<1>1. /\ tasks[n].state = "due" /\ tasks[n].attempts < MaxAttempts
      /\ tasks \in [TaskNames -> Task] /\ tasks' = Dispatched(tasks, n)
  BY DEF Dispatch, IInv, TypeOK, RequestsOK
<1>2. /\ tasks' \in [TaskNames -> Task] /\ tasks'[n].state = "running"
      /\ \A m \in TaskNames : m # n => tasks'[m] = tasks[m]
  BY <1>1, DispatchedFacts
<1>3. /\ handler' \in [Workers -> Handler]
      /\ \A v \in Workers : v # w => handler'[v] = handler[v]
      /\ handler'[w].pc = IF n = Completed THEN "preemption" ELSE "list"
      /\ handler'[w].task = n /\ ~handler'[w].deferred
  <2>1. Idle \in Handler
    BY Names, RerunAssumption DEF Idle, Handler, PCs
  <2>. QED
    BY <2>1 DEF Dispatch, IInv, TypeOK, Handler, PCs, Idle
<1>4. UNCHANGED <<job, run, listed, now, asked, ended>>
  BY DEF Dispatch, githubVars
<1>5. TypeOK'
  BY <1>2, <1>3, <1>4 DEF IInv, TypeOK
<1>6. \A v \in Workers : v # w /\ handler'[v].live =>
          /\ handler'[v] = handler[v] /\ handler[v].task # n
          /\ handler[v].task \in TaskNames
  BY <1>1, <1>3, NobodyAt DEF IInv, TypeOK, Handler
<1>7. RequestsOK'
  BY <1>2, <1>3, <1>6 DEF IInv, RequestsOK, At
<1>8. \A m \in TaskNames : Taken(tasks, m)' => Taken(tasks, m)
  BY <1>1, <1>2 DEF Taken
<1>9. n # Completed => job.preempted
  BY <1>1, Names DEF IInv, OnlyPreempted, Taken
<1>10. OnlyPreempted'
  BY <1>3, <1>4, <1>8, <1>9, Names DEF IInv, OnlyPreempted, RerunPCs
<1>11. SeenOK'
  <2>1. ReadsHold(w)'
    BY <1>3 DEF ReadsHold
  <2>2. ASSUME NEW v \in Workers, v # w PROVE ReadsHold(v)'
    BY <1>3, <1>4, <1>5, <2>2, ReadsKept
  <2>. QED
    BY <2>1, <2>2 DEF SeenOK
<1>12. AskedOK' /\ DeleteOK'
  BY <1>3, <1>4 DEF IInv, AskedOK, DeleteOK, Over, At
<1>13. \A m \in TaskNames : Open(m) => Open(m)'
  BY <1>2, <1>3, <1>6 DEF Open, Active, At
<1>14. Remembered'
  BY <1>4, <1>8, <1>13, Names DEF IInv, Remembered, Over
<1>. QED
  BY <1>5, <1>7, <1>10, <1>11, <1>12, <1>14 DEF IInv

-----------------------------------------------------------------------------
(* GitHub, people and time *)

\* Others move the run on within its attempt, or to the next.
LEMMA RunStep ==
    ASSUME IInv, UNCHANGED <<job, now, tasks, handler, asked, ended>>,
           run' \in Run, listed' \in BOOLEAN, listed' => listed,
           \/ run'.attempt = run.attempt + 1
           \/ run.status = "busy" /\ listed' = listed /\ run'.attempt = run.attempt
    PROVE  IInv'
<1>1. TypeOK'
  BY DEF IInv, TypeOK
<1>2. RequestsOK' /\ OnlyPreempted' /\ AskedOK'
  BY DEF IInv, RequestsOK, OnlyPreempted, AskedOK, Taken, At
<1>3. SeenOK'
  <2>. SUFFICES ASSUME NEW w \in Workers PROVE ReadsHold(w)'
    BY DEF SeenOK
  <2>1. CASE run'.attempt = run.attempt + 1
    BY <1>1, <2>1, ReadsKept
  <2>2. CASE run.status = "busy" /\ listed' = listed /\ run'.attempt = run.attempt
    BY <2>2 DEF IInv, SeenOK, ReadsHold, At
  <2>. QED
    BY <2>1, <2>2
<1>4. DeleteOK' /\ Remembered'
  BY DEF IInv, DeleteOK, Remembered, Over, Open, Taken, Active, At
<1>. QED
  BY <1>1, <1>2, <1>3, <1>4 DEF IInv

LEMMA EnvironmentStep ==
    ASSUME IInv, RunEnds \/ Cancel \/ PersonReruns PROVE IInv'
<1>. run \in Run /\ listed \in BOOLEAN
  BY DEF IInv, TypeOK
<1>1. CASE RunEnds
  BY <1>1, RunStep DEF RunEnds, Run
<1>2. CASE Cancel
  BY <1>2, RunStep DEF Cancel, Run
<1>3. CASE PersonReruns
  <2>1. run.attempt + 1 \in RunAttempts
    BY <1>3, RerunAssumption DEF PersonReruns, Run, RunAttempts
  <2>2. run' \in Run /\ run'.attempt = run.attempt + 1
    BY <1>3, <2>1 DEF PersonReruns, NextAttempt, Run
  <2>3. listed' \in BOOLEAN /\ (listed' => listed)
    <3>1. CASE listed' = listed
      BY <3>1
    <3>2. CASE listed' = FALSE
      BY <3>2
    <3>. QED
      BY <1>3, <3>1, <3>2 DEF PersonReruns
  <2>4. UNCHANGED <<job, now, tasks, handler, asked, ended>>
    BY <1>3 DEF PersonReruns
  <2>. QED
    BY <2>2, <2>3, <2>4, RunStep
<1>. QED
  BY <1>1, <1>2, <1>3

LEMMA TickStep == ASSUME IInv, Tick PROVE IInv'
<1>. DEFINE n == Deferred((now + 1) % Slots)
<1>1. n \in TaskNames /\ n # Completed /\ (now + 1) % Slots \in Times
  BY Names DEF IInv, TypeOK
<1>2. /\ ~Active(tasks, n) /\ tasks' = [tasks EXCEPT ![n] = NoTask]
      /\ now' = (now + 1) % Slots
      /\ UNCHANGED <<job, run, listed, handler, asked, ended>>
  BY DEF Tick, githubVars
<1>3. NoTask \in Task /\ NoTask.state = "none"
  BY MaxAttemptsAssumption DEF NoTask, Task, TaskStates
<1>4. /\ tasks' \in [TaskNames -> Task] /\ tasks'[n].state = "none"
      /\ \A m \in TaskNames : m # n => tasks'[m] = tasks[m]
  BY <1>1, <1>2, <1>3 DEF IInv, TypeOK
<1>5. TypeOK'
  BY <1>1, <1>2, <1>4 DEF IInv, TypeOK
<1>6. \A w \in Workers : /\ handler[w].live => handler[w].task # n
                         /\ handler[w].task \in TaskNames
  BY <1>1, <1>2, NobodyAt DEF Active, IInv, TypeOK, Handler
<1>7. RequestsOK'
  BY <1>2, <1>4, <1>6 DEF IInv, RequestsOK, At
<1>8. \A m \in TaskNames : Taken(tasks, m)' => Taken(tasks, m)
  BY <1>4 DEF Taken
<1>9. OnlyPreempted'
  BY <1>2, <1>8, Names DEF IInv, OnlyPreempted
<1>10. SeenOK' /\ AskedOK' /\ DeleteOK'
  BY <1>2 DEF IInv, SeenOK, ReadsHold, AskedOK, DeleteOK, Over, At
<1>11. \A m \in TaskNames : Open(m) => Open(m)'
  BY <1>2, <1>4 DEF Open, Active, At
<1>12. Remembered'
  BY <1>2, <1>8, <1>11, Names DEF IInv, Remembered, Over
<1>. QED
  BY <1>5, <1>7, <1>9, <1>10, <1>12 DEF IInv

-----------------------------------------------------------------------------
LEMMA StepHolds == IInv /\ [Next]_vars => IInv'
<1>. SUFFICES ASSUME IInv, [Next]_vars PROVE IInv'
  OBVIOUS
<1>1. CASE UNCHANGED vars
  BY <1>1 DEF vars, IInv, TypeOK, RequestsOK, OnlyPreempted, SeenOK, ReadsHold,
     AskedOK, DeleteOK, Remembered, Over, Open, Taken, Active, At
<1>2. CASE Webhook
  BY <1>2, WebhookStep
<1>3. ASSUME NEW w \in Workers, NEW n \in TaskNames, Dispatch(w, n) PROVE IInv'
  BY <1>3, DispatchStep
<1>4. ASSUME NEW w \in Workers, HandlerStep(w) PROVE IInv'
  BY <1>4, PreemptionStep, ListStep, FetchRunStep, PostStep, ListAgainStep,
     DeleteStep, DeferStep, ReplyStep DEF HandlerStep
<1>5. ASSUME NEW w \in Workers, Crash(w) \/ Timeout(w) PROVE IInv'
  BY <1>5, CrashStep, TimeoutStep
<1>6. CASE RunEnds \/ Cancel \/ PersonReruns
  BY <1>6, EnvironmentStep
<1>7. CASE Tick
  BY <1>7, TickStep
<1>. QED
  BY <1>1, <1>2, <1>3, <1>4, <1>5, <1>6, <1>7 DEF Next

\* The inductive invariant: what every request has read and still has to do.
THEOREM Invariance == Spec => []IInv
BY InitHolds, StepHolds, PTL DEF Spec

\* Every variable keeps its type; in particular no rerun of ours takes the run
\* past the attempts the cap allows (webhook.go:712).
THEOREM TypeCorrect == Spec => []TypeOK
<1>1. IInv => TypeOK
  BY DEF IInv
<1>. QED
  BY <1>1, Invariance, PTL

\* One execution is rerun at most once by the orchestrator, however often
\* rerunWorkflowJob (github.go:419) is called for it.
THEOREM RerunAtMostOnce == Spec => []RerunOnce
<1>1. IInv => RerunOnce
  <2>1. Cardinality({}) = 0 /\ \A a : Cardinality({a}) = 1
    BY FS_EmptySet, FS_Singleton, Zenon
  <2>. QED
    BY <2>1 DEF IInv, AskedOK, RerunOnce
<1>. QED
  BY <1>1, Invariance, PTL

\* A preempted execution has a task that looks after it, until it is rerun or
\* given up for a reason (handleCompleted and deferRerun, webhook.go:714-775).
THEOREM NeverForgotten == Spec => []PreemptionRemembered
<1>1. IInv => PreemptionRemembered
  BY DEF IInv, Remembered, Over, Open, PreemptionRemembered, Pending
<1>. QED
  BY <1>1, Invariance, PTL

LEMMA StepDeserved ==
    ASSUME IInv, [Next]_vars, asked' # asked
    PROVE  /\ job.preempted /\ listed
           /\ run.status = "completed" /\ ~run.cancelled
           /\ run'.attempt <= RerunAttempts
<1>1. PICK w \in Workers : Post(w)
  BY DEF Next, vars, Webhook, Dispatch, HandlerStep, Preemption, List, FetchRun,
     ListAgain, Delete, Defer, Reply, Crash, Timeout, RunEnds, Cancel,
     PersonReruns, Tick
<1>2. At(w, "post") /\ Acceptable(w) /\ NextAttempt
  BY <1>1 DEF Post
<1>3. run'.attempt = run.attempt + 1
  BY <1>2 DEF NextAttempt
<1>. QED
  BY <1>2, <1>3, AcceptedFacts

\* Our rerun begins only an attempt that is due: of a preempted execution that
\* is still listed, in a run that is over and not cancelled, within the cap
\* (rerunWorkflowJob's checks, each made some calls before the rerun itself).
THEOREM OnlyDeserved == Spec => RerunDeserved
<1>1. IInv /\ [Next]_vars =>
        [asked' # asked =>
          /\ job.preempted /\ listed
          /\ run.status = "completed" /\ ~run.cancelled
          /\ run'.attempt <= RerunAttempts]_vars
  BY StepDeserved
<1>. QED
  BY <1>1, Invariance, PTL DEF Spec, RerunDeserved

-----------------------------------------------------------------------------
(* The promise *)

\* Everything begins with the completed task, and a run never goes back.
Began ==
    /\ job.attempt <= run.attempt
    /\ \A n \in TaskNames : Taken(tasks, n) => Taken(tasks, Completed)
    /\ \A w \in Workers : ~At(w, "idle") => Taken(tasks, Completed)

Promised == <<job, run, listed, Pending, ended>>

LEMMA InitBegan == Init => Began
<1>. SUFFICES ASSUME Init PROVE Began
  OBVIOUS
<1>1. job.attempt \in Nat /\ run.attempt = job.attempt
  BY DEF Init, Job, RunAttempts
<1>2. \A n \in TaskNames : ~Taken(tasks, n)
  BY DEF Init, Taken, NoTask
<1>3. \A w \in Workers : At(w, "idle")
  BY DEF Init, At, Idle
<1>. QED
  BY <1>1, <1>2, <1>3 DEF Began

\* No attempt is taken back, and no worker sets out.
LEMMA SameQueue ==
    ASSUME Began, UNCHANGED <<job, tasks>>, run'.attempt >= run.attempt,
           job.attempt \in Int, run.attempt \in Int, run'.attempt \in Int,
           \A w \in Workers : At(w, "idle") => At(w, "idle")'
    PROVE  Began' /\ Pending' = Pending
<1>1. \A n \in TaskNames : Taken(tasks, n)' <=> Taken(tasks, n)
  BY DEF Taken
<1>2. Taken(tasks, Completed)' <=> Taken(tasks, Completed)
  BY DEF Taken
<1>3. Began'
  BY <1>1, <1>2 DEF Began
<1>4. Pending' = Pending
  BY DEF Pending, Active
<1>. QED
  BY <1>3, <1>4

\* A task is created, attempted or finished with.
LEMMA OneTask ==
    ASSUME IInv, Began, NEW n \in TaskNames, UNCHANGED <<job, run>>,
           \A m \in TaskNames : m # n => tasks'[m] = tasks[m],
           Taken(tasks, n)', Taken(tasks, n) \/ n = Completed \/ Taken(tasks, Completed),
           \A w \in Workers : At(w, "idle") => At(w, "idle")' \/ Taken(tasks, n)
    PROVE  Began'
<1>1. Completed \in TaskNames
  BY Names
<1>2. Taken(tasks, Completed) \/ n = Completed
  BY DEF Began
<1>3. Taken(tasks, Completed)'
  BY <1>1, <1>2 DEF Taken
<1>. QED
  BY <1>3 DEF Began

LEMMA Attempted ==
    ASSUME IInv
    PROVE  /\ job.attempt \in Nat /\ run.attempt \in Nat
           /\ run' = run => run'.attempt >= run.attempt
<1>1. job.attempt \in Nat /\ run.attempt \in Nat
  BY DEF IInv, TypeOK, Job, Run, RunAttempts
<1>. QED
  BY <1>1

\* A step of worker w that looks at the run, and may find a ground to give up.
LEMMA LooksPromised ==
    ASSUME IInv, Began, NEW w \in Workers, Moves(w), ~At(w, "idle"),
           UNCHANGED <<job, run, listed, tasks>>,
           \/ UNCHANGED ended
           \/ \E g \in {"attempts", "cancelled", "overlooked"} :
                 /\ job.preempted /\ ended' = ended \cup {g}
                 /\ g = "attempts" => run.attempt >= RerunAttempts
                 /\ g = "cancelled" => run.status = "completed" /\ run.cancelled
    PROVE  Began' /\ [Promise!Next]_Promised
<1>1. Began' /\ Pending' = Pending
  BY Attempted, SameQueue DEF Moves, At
<1>2. CASE UNCHANGED ended
  BY <1>1, <1>2 DEF Promised
<1>3. ASSUME NEW g \in {"attempts", "cancelled", "overlooked"},
             job.preempted, ended' = ended \cup {g},
             g = "attempts" => run.attempt >= RerunAttempts,
             g = "cancelled" => run.status = "completed" /\ run.cancelled
      PROVE  Promise!Next
  <2>1. Promise!GiveUp(g)
    BY <1>1, <1>3 DEF Promise!GiveUp
  <2>. QED
    BY <2>1 DEF Promise!Next
<1>. QED
  BY <1>1, <1>2, <1>3

LEMMA WorkPromised ==
    ASSUME IInv, Began, NEW w \in Workers,
           Preemption(w) \/ List(w) \/ FetchRun(w) \/ ListAgain(w) \/ Delete(w)
    PROVE  Began' /\ [Promise!Next]_Promised
<1>1. UNCHANGED <<job, run, listed, tasks>> /\ ~At(w, "idle")
  BY DEF Preemption, List, FetchRun, ListAgain, Delete, githubVars, At
<1>2. Moves(w)
  <2>1. ASSUME NEW seen \in 0..MaxRunAttempt,
               handler' = [handler EXCEPT ![w].pc = "fetchRun", ![w].seen = seen]
        PROVE  Moves(w)
    BY <2>1 DEF IInv, TypeOK, Moves, Handler, PCs
  <2>2. ASSUME RunBusy(w) PROVE Moves(w)
    BY <2>2, Moved DEF RunBusy, IInv, TypeOK, Moves, Handler, PCs
  <2>3. run.attempt \in 0..MaxRunAttempt
    BY RerunAssumption DEF IInv, TypeOK, Run, RunAttempts
  <2>4. /\ Goto(w, "list") \/ Goto(w, "delete") \/ Goto(w, "post") \/ Goto(w, "defer") => Moves(w)
        /\ Done(w, TRUE) \/ Done(w, FALSE) => Moves(w)
        /\ CallFails(w) => Moves(w)
        /\ Settled(w) => Moves(w)
    BY Moved, CallFailsMoves, SettledMoves DEF PCs
  <2>5. CASE Preemption(w)
    BY <2>4, <2>5 DEF Preemption
  <2>6. CASE List(w)
    BY <2>1, <2>3, <2>4, <2>6 DEF List
  <2>7. CASE FetchRun(w)
    BY <2>2, <2>4, <2>7 DEF FetchRun
  <2>8. CASE ListAgain(w) \/ Delete(w)
    BY <2>4, <2>8 DEF ListAgain, Delete
  <2>. QED
    BY <2>5, <2>6, <2>7, <2>8
<1>3. \/ UNCHANGED ended
      \/ \E g \in {"attempts", "cancelled", "overlooked"} :
            /\ job.preempted /\ ended' = ended \cup {g}
            /\ g = "attempts" => run.attempt >= RerunAttempts
            /\ g = "cancelled" => run.status = "completed" /\ run.cancelled
  <2>1. job.attempt <= run.attempt /\ job.attempt \in Nat /\ run.attempt \in Nat
        /\ RerunAttempts \in Nat
    BY Attempted, RerunAssumption DEF Began
  <2>2. At(w, "list") \/ At(w, "fetchRun") => job.preempted
    BY DEF IInv, OnlyPreempted, At, RerunPCs
  <2>3. CASE Preemption(w)
    BY <2>1, <2>3 DEF Preemption
  <2>4. CASE List(w)
    BY <2>2, <2>4 DEF List, Spent
  <2>5. CASE FetchRun(w)
    BY <2>2, <2>5 DEF FetchRun
  <2>6. CASE ListAgain(w) \/ Delete(w)
    BY <2>6 DEF ListAgain, Delete
  <2>. QED
    BY <2>3, <2>4, <2>5, <2>6
<1>. QED
  BY <1>1, <1>2, <1>3, LooksPromised

LEMMA PostPromised ==
    ASSUME IInv, Began, NEW w \in Workers, Post(w)
    PROVE  Began' /\ [Promise!Next]_Promised
<1>1. UNCHANGED <<job, tasks, ended>> /\ ~At(w, "idle")
  BY DEF Post, At
<1>2. Moves(w)
  BY Moved, CallFailsMoves, SettledMoves DEF Post, PCs
<1>3. CASE UNCHANGED <<run, listed>>
  BY <1>1, <1>2, <1>3, LooksPromised
<1>4. CASE Acceptable(w) /\ NextAttempt /\ listed' = FALSE
  <2>1. /\ job.preempted /\ listed
        /\ run.status = "completed" /\ ~run.cancelled
        /\ run.attempt + 1 <= RerunAttempts
    BY <1>4, AcceptedFacts DEF Post
  <2>2. run'.attempt = run.attempt + 1 /\ run.attempt \in Nat /\ job.attempt \in Nat
    BY <1>4, Attempted DEF NextAttempt
  <2>3. Began' /\ Pending' = Pending
    BY <1>1, <1>2, <2>2, SameQueue DEF Moves, At
  <2>4. run.attempt < RerunAttempts
    BY <2>1, <2>2, RerunAssumption
  <2>5. Promise!Rerun
    BY <1>1, <1>4, <2>1, <2>3, <2>4 DEF Promise!Rerun, Promise!NextAttempt, NextAttempt
  <2>. QED
    BY <2>3, <2>5 DEF Promise!Next
<1>. QED
  BY <1>3, <1>4 DEF Post

\* A new task, of the webhook or a deferral.
LEMMA TaskPromised ==
    ASSUME IInv, Began, NEW n \in TaskNames, ~Taken(tasks, n),
           tasks' = Created(tasks, n, 0), n = Completed \/ Taken(tasks, Completed),
           UNCHANGED <<job, run, listed, ended>>,
           \A w \in Workers : At(w, "idle") => At(w, "idle")'
    PROVE  Began' /\ [Promise!Next]_Promised
<1>1. /\ tasks'[n].state = "due"
      /\ \A m \in TaskNames : m # n => tasks'[m] = tasks[m]
  BY NewTask
<1>2. Began'
  BY <1>1, OneTask DEF Taken
<1>3. Pending'
  BY <1>1 DEF Pending, Active
<1>4. CASE Pending
  <2>1. Pending' = Pending
    BY <1>3, <1>4 DEF Pending
  <2>. QED
    BY <1>2, <2>1 DEF Promised
<1>5. CASE ~Pending
  <2>1. Pending' = TRUE
    BY <1>3 DEF Pending
  <2>2. Promise!TakeInHand
    BY <1>5, <2>1 DEF Promise!TakeInHand
  <2>. QED
    BY <1>2, <2>2 DEF Promise!Next
<1>. QED
  BY <1>4, <1>5

LEMMA DeferPromised ==
    ASSUME IInv, Began, NEW w \in Workers, Defer(w)
    PROVE  Began' /\ [Promise!Next]_Promised
<1>1. /\ UNCHANGED <<job, run, listed, ended>>
      /\ ~At(w, "idle") /\ Taken(tasks, Completed)
      /\ Deferred(now) \in TaskNames
  BY Names DEF Defer, githubVars, At, Began, IInv, TypeOK
<1>2. Moves(w)
  BY Moved, CallFailsMoves DEF Defer
<1>3. \A v \in Workers : At(v, "idle") => At(v, "idle")'
  BY <1>1, <1>2 DEF Moves, At
<1>4. CASE UNCHANGED tasks
  BY <1>1, <1>2, <1>4, LooksPromised
<1>5. CASE ~Taken(tasks, Deferred(now)) /\ tasks' = Created(tasks, Deferred(now), 0)
  BY <1>1, <1>3, <1>5, TaskPromised
<1>. QED
  BY <1>4, <1>5 DEF Defer

LEMMA DispatchPromised ==
    ASSUME IInv, Began, NEW w \in Workers, NEW n \in TaskNames, Dispatch(w, n)
    PROVE  Began' /\ [Promise!Next]_Promised
<1>1. /\ tasks[n].state = "due" /\ tasks[n].attempts < MaxAttempts
      /\ tasks \in [TaskNames -> Task] /\ tasks' = Dispatched(tasks, n)
      /\ UNCHANGED <<job, run, listed, ended>>
  BY DEF Dispatch, IInv, TypeOK, RequestsOK, githubVars
<1>2. /\ tasks'[n].state = "running"
      /\ \A m \in TaskNames : m # n => tasks'[m] = tasks[m]
  BY <1>1, DispatchedFacts
<1>3. Began'
  BY <1>1, <1>2, OneTask DEF Taken
<1>4. Pending /\ Pending'
  BY <1>1, <1>2 DEF Pending, Active
<1>. QED
  BY <1>1, <1>3, <1>4 DEF Promised

\* The end of an attempt at the task of worker w, one way or the other.
LEMMA EndPromised ==
    ASSUME IInv, IInv', Began, NEW w \in Workers, handler[w].live,
           UNCHANGED <<job, run, listed>>,
           \A v \in Workers : At(v, "idle") => At(v, "idle")',
           \/ Unanswered(handler[w].task)
           \/ tasks' = Acknowledged(tasks, handler[w].task) /\ UNCHANGED ended
    PROVE  Began' /\ [Promise!Next]_Promised
<1>0. PICK n \in TaskNames : n = handler[w].task
  BY DEF IInv, TypeOK, Handler
<1>1. tasks[n].state = "running" /\ tasks \in [TaskNames -> Task]
  BY <1>0 DEF IInv, TypeOK, RequestsOK
<1>2. /\ tasks'[n].state \in {"due", "done", "exhausted"}
      /\ \A m \in TaskNames : m # n => tasks'[m] = tasks[m]
  BY <1>0, <1>1, FailedFacts, AcknowledgedFacts DEF Unanswered
<1>3. Began'
  <2>1. Taken(tasks, n) /\ Taken(tasks, n)'
    BY <1>1, <1>2 DEF Taken
  <2>. QED
    BY <1>1, <1>2, <2>1, OneTask
<1>4. Pending
  BY <1>1 DEF Pending, Active
<1>5. Pending' \in BOOLEAN
  BY DEF Pending
<1>6. CASE ended' # ended
  <2>1. ended' = ended \cup {"exhausted"}
    BY <1>6 DEF Unanswered
  <2>. QED
    BY <1>3, <1>4, <1>5, <2>1 DEF Promise!Exhaust, Promise!Next
<1>7. CASE ended' = ended /\ Pending'
  BY <1>3, <1>4, <1>7 DEF Promised
<1>8. CASE ended' = ended /\ ~Pending'
  <2>1. Taken(tasks, Completed)'
    BY <1>1, <1>2, <1>3 DEF Began, Taken
  <2>2. Over'
    BY <1>8, <2>1 DEF IInv, Remembered, Open, Pending
  <2>3. ~Promise!Due
    BY <1>8, <2>2 DEF Over, Promise!Due
  <2>. QED
    BY <1>3, <1>4, <1>8, <2>3 DEF Promise!LetGo, Promise!Next
<1>. QED
  BY <1>6, <1>7, <1>8

LEMMA LeavePromised ==
    ASSUME IInv, IInv', Began, NEW w \in Workers, Reply(w) \/ Crash(w) \/ Timeout(w)
    PROVE  Began' /\ [Promise!Next]_Promised
<1>1. UNCHANGED <<job, run, listed>>
  BY DEF Reply, Crash, Timeout, githubVars
<1>2. \A v \in Workers : At(v, "idle") => At(v, "idle")'
  <2>1. Leaves(w)
    BY LeavesTypes DEF Reply, Crash, Timeout
  <2>2. handler'[w].pc \in {"idle", handler[w].pc}
    BY <2>1 DEF Leaves, Idle, IInv, TypeOK, Handler
  <2>. QED
    BY <2>1, <2>2 DEF Leaves, At
<1>3. CASE handler[w].live
  BY <1>1, <1>2, <1>3, EndPromised DEF Reply, Crash, Timeout
<1>4. CASE ~handler[w].live
  <2>1. UNCHANGED <<tasks, ended>>
    BY <1>4 DEF Reply, Crash, Timeout
  <2>2. Began' /\ Pending' = Pending
    BY <1>1, <1>2, <2>1, Attempted, SameQueue
  <2>. QED
    BY <1>1, <2>1, <2>2 DEF Promised
<1>. QED
  BY <1>3, <1>4

LEMMA OthersPromised ==
    ASSUME IInv, Began, RunEnds \/ Cancel \/ PersonReruns
    PROVE  Began' /\ [Promise!Next]_Promised
<1>1. UNCHANGED <<job, tasks, handler, ended>> /\ run \in Run
  BY DEF RunEnds, Cancel, PersonReruns, IInv, TypeOK
<1>2. run'.attempt \in Int /\ run'.attempt >= run.attempt
  <2>1. run.attempt \in Nat
    BY Attempted
  <2>2. run'.attempt \in {run.attempt, run.attempt + 1}
    <3>1. RunEnds \/ Cancel => run'.attempt = run.attempt
      BY <1>1 DEF RunEnds, Cancel, Run
    <3>2. PersonReruns => run'.attempt = run.attempt + 1
      BY DEF PersonReruns, NextAttempt
    <3>. QED
      BY <3>1, <3>2
  <2>. QED
    BY <2>1, <2>2
<1>3. Began' /\ Pending' = Pending
  BY <1>1, <1>2, Attempted, SameQueue DEF At
<1>4. CASE RunEnds \/ Cancel
  <2>1. RunEnds => run' = [run EXCEPT !.status = "completed", !.cancelled = run.cancelled]
    BY <1>1 DEF RunEnds, Run
  <2>2. Promise!RunEnds
    BY <1>1, <1>3, <1>4, <2>1 DEF RunEnds, Cancel, Promise!RunEnds
  <2>. QED
    BY <1>3, <2>2 DEF Promise!Next
<1>5. CASE PersonReruns
  <2>1. Promise!PersonReruns
    BY <1>1, <1>3, <1>5 DEF PersonReruns, NextAttempt, Promise!PersonReruns, Promise!NextAttempt
  <2>. QED
    BY <1>3, <2>1 DEF Promise!Next
<1>. QED
  BY <1>4, <1>5

LEMMA TickPromised ==
    ASSUME IInv, Began, Tick
    PROVE  Began' /\ [Promise!Next]_Promised
<1>. DEFINE n == Deferred((now + 1) % Slots)
<1>1. n \in TaskNames /\ n # Completed /\ Completed \in TaskNames
  BY Names DEF IInv, TypeOK
<1>2. /\ ~Active(tasks, n) /\ tasks' = [tasks EXCEPT ![n] = NoTask]
      /\ UNCHANGED <<job, run, listed, handler, ended>>
  BY DEF Tick, githubVars
<1>3. /\ tasks'[n].state = "none"
      /\ \A m \in TaskNames : m # n => tasks'[m] = tasks[m]
  BY <1>1, <1>2 DEF NoTask, IInv, TypeOK
<1>. HIDE DEF n
<1>4. Began'
  BY <1>1, <1>2, <1>3 DEF Began, Taken, At
<1>5. \A m \in TaskNames : Active(tasks, m)' = Active(tasks, m)
  BY <1>2, <1>3 DEF Active
<1>6. Pending' = Pending
  BY <1>5 DEF Pending
<1>. QED
  BY <1>2, <1>4, <1>6 DEF Promised

LEMMA StepPromised ==
    ASSUME IInv, IInv', Began, [Next]_vars
    PROVE  Began' /\ [Promise!Next]_Promised
<1>1. CASE UNCHANGED vars
  BY <1>1 DEF vars, Began, Promised, Pending, Active, Taken, At
<1>2. CASE Webhook
  <2>1. /\ ~Taken(tasks, Completed) /\ tasks' = Created(tasks, Completed, 0)
        /\ UNCHANGED <<job, run, listed, ended, handler>>
    BY <1>2 DEF Webhook, githubVars
  <2>. QED
    BY <2>1, Names, TaskPromised DEF At
<1>3. ASSUME NEW w \in Workers,
             HandlerStep(w) \/ Crash(w) \/ Timeout(w)
                \/ \E n \in TaskNames : Dispatch(w, n)
      PROVE  Began' /\ [Promise!Next]_Promised
  BY <1>3, WorkPromised, PostPromised, DeferPromised, LeavePromised, DispatchPromised
  DEF HandlerStep
<1>4. CASE RunEnds \/ Cancel \/ PersonReruns
  BY <1>4, OthersPromised
<1>5. CASE Tick
  BY <1>5, TickPromised
<1>. QED
  BY <1>1, <1>2, <1>3, <1>4, <1>5 DEF Next

LEMMA InitPromised == Init => Promise!Init
<1>. SUFFICES ASSUME Init PROVE Promise!Init
  OBVIOUS
<1>1. ~Pending
  BY DEF Init, Pending, Active, NoTask
<1>. QED
  BY <1>1 DEF Init, Promise!Init, Job, RunAttempts, Promise!Attempts

\* The tasks, the requests and every fault together keep the promise: an execution
\* is let go only when no rerun is due, rerun only when one is, and given up
\* only on a ground that exists (handleCompleted, rerunWorkflowJob, handleRerun).
THEOREM KeepsPromise == Spec => PromiseKept
<1>1. IInv /\ IInv' /\ Began /\ [Next]_vars => Began' /\ [Promise!Next]_Promised
  BY StepPromised
<1>2. Spec => []IInv
  BY Invariance
<1>. QED
  BY <1>1, <1>2, InitBegan, InitPromised, PTL DEF Spec, PromiseKept, Promise!Spec,
     Promise!promised, Promised
=============================================================================
