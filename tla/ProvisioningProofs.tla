------------------------- MODULE ProvisioningProofs -------------------------
(***************************************************************************)
(* Proofs about Provisioning and its history of replacements, for any      *)
(* number of workers, zones, attempts, check steps and requeue windows,    *)
(* and under any of the faults but those a theorem excludes.               *)
(***************************************************************************)
EXTENDS Replacements, FiniteSetTheorems, TLAPS

-----------------------------------------------------------------------------
(* The inductive invariant *)

\* The task that has to exist before task n may be acknowledged.
Linked(n) == IF IsCheck(n) THEN Taken(tasks, Check(Step(n) + 1))
                           ELSE Taken(tasks, Check(1))

Released == job = "left" \/ ended # {}

QueuePCs     == {"leftQueue", "resolve", "failRun", "scheduleFirst"}
CheckPCs     == {"status", "findChecked", "scheduleNext"}
ProvisionPCs == {"findVM", "findRunner", "removeRunner", "register", "insert",
                 "findFailed", "removeFailed"}

\* What a worker at each step has already done.
HandlerOK(w) ==
    /\ At(w, "idle") => ~handler[w].live
    /\ ~At(w, "idle") => /\ Taken(tasks, handler[w].task)
                         /\ handler[w].task # Check(MaxStep)
    /\ handler[w].live => tasks[handler[w].task].state = "running"
    /\ handler[w].pc \in QueuePCs => ~IsCheck(handler[w].task)
    /\ handler[w].pc \in CheckPCs => IsCheck(handler[w].task)
    /\ At(w, "scheduleNext") /\ handler[w].gone =>
           tasks[handler[w].task].count < Reprovisions
    /\ handler[w].pc \in ProvisionPCs /\ IsCheck(handler[w].task) =>
           Linked(handler[w].task)
    /\ At(w, "insert") => handler[w].out \in {"none", "error"}
    /\ handler[w].pc \in {"findFailed", "removeFailed"} =>
           handler[w].out \in {"error", "permanent", "configuration"}
    /\ At(w, "reply") =>
           /\ handler[w].out \in {"ok", "error", "permanent"}
           /\ handler[w].out = "ok" => Released \/ Linked(handler[w].task)
           /\ handler[w].out = "permanent" /\ IsCheck(handler[w].task) =>
                  Linked(handler[w].task)

HandlersOK == \A w \in Workers : HandlerOK(w)

\* Of the attempts at one task, the queue waits for one.
OneLive == \A v, w \in Workers :
    handler[v].live /\ handler[w].live /\ handler[v].task = handler[w].task
        => v = w

AttemptsLeft == \A n \in TaskNames :
    tasks[n].state = "due" => tasks[n].attempts < MaxAttempts

\* The check at the bound of the model is never delivered.
LastNotRun == tasks[Check(MaxStep)].state \in {"none", "due"}

\* A task is acknowledged with its successor in the queue, or for a reason.
DoneLinked == \A n \in TaskNames :
    tasks[n].state = "done" => Released \/ Linked(n)

\* The checks that exist are 1..k for some k.
NoGap == \A i, k \in 1..MaxStep : i < k /\ Taken(tasks, Check(k))
                                     => Taken(tasks, Check(i))
HasNewest == Taken(tasks, Check(1)) =>
    \E k \in 1..MaxStep : /\ Taken(tasks, Check(k))
                          /\ k < MaxStep => ~Taken(tasks, Check(k + 1))

IInv == /\ TypeOK /\ HandlersOK /\ OneLive /\ AttemptsLeft /\ LastNotRun
        /\ DoneLinked /\ NoGap /\ HasNewest /\ OneChain

-----------------------------------------------------------------------------
(* Names of tasks *)

LEMMA NameTypes ==
    /\ \A k \in 1..MaxStep : Check(k) \in TaskNames /\ IsCheck(Check(k))
                             /\ Step(Check(k)) = k
    /\ \A k \in 0..MaxWindow : Queued(k) \in TaskNames /\ ~IsCheck(Queued(k))
    /\ \A n \in TaskNames : IsCheck(n) =>
          Step(n) \in 1..MaxStep /\ n = Check(Step(n))
    /\ \A n \in TaskNames : IsCheck(n) <=> n \in CheckNames
    /\ \A i, k : Check(i) = Check(k) => i = k
    /\ MaxStep \in Nat \ {0} /\ MaxWindow \in Nat \ {0} /\ Reprovisions \in Nat
BY ProvisioningAssumption
   DEF Check, Queued, IsCheck, Step, TaskNames, CheckNames, QueuedNames

-----------------------------------------------------------------------------
(* What a step leaves true *)

\* The queue only grows: no name is freed and no payload rewritten.
Grows == \A n \in TaskNames : Taken(tasks, n) =>
    Taken(tasks, n)' /\ tasks'[n].count = tasks[n].count

LEMMA LinkedStays ==
    ASSUME NEW n \in TaskNames, n # Check(MaxStep), Grows, Linked(n)
    PROVE  Linked(n)'
<1>1. CASE IsCheck(n)
  <2>1. Step(n) + 1 \in 1..MaxStep
    BY <1>1, NameTypes
  <2>. QED
    BY <1>1, <2>1, NameTypes DEF Linked, Grows
<1>2. CASE ~IsCheck(n)
  BY <1>2, NameTypes DEF Linked, Grows
<1>. QED
  BY <1>1, <1>2

\* A worker that does nothing keeps its place.
LEMMA OthersOK ==
    ASSUME NEW w \in Workers, TypeOK, HandlerOK(w), Grows,
           Released => Released', handler'[w] = handler[w],
           handler[w].live => tasks'[handler[w].task].state = "running"
    PROVE  HandlerOK(w)'
<1>1. handler[w].task \in TaskNames
  BY DEF TypeOK, Handler
<1>2. ~At(w, "idle") => (/\ Taken(tasks, handler[w].task)'
                         /\ tasks'[handler[w].task].count
                               = tasks[handler[w].task].count
                         /\ handler[w].task # Check(MaxStep)
                         /\ Linked(handler[w].task) => Linked(handler[w].task)')
  BY <1>1, LinkedStays DEF HandlerOK, Grows
<1>3. \A pc : At(w, pc)' <=> At(w, pc)
  BY DEF At
<1>. QED
  BY <1>1, <1>2, <1>3
  DEF HandlerOK, At, QueuePCs, CheckPCs, ProvisionPCs, Linked

\* One worker takes a step within its request, or somebody else does.
Moves(w) == /\ handler' \in [Workers -> Handler]
            /\ \A v \in Workers : v # w => handler'[v] = handler[v]
            /\ handler'[w].live = handler[w].live
            /\ handler'[w].task = handler[w].task

LEMMA QueueFrame ==
    ASSUME IInv, UNCHANGED tasks, Released => Released'
    PROVE  /\ AttemptsLeft' /\ LastNotRun' /\ DoneLinked' /\ NoGap'
           /\ HasNewest' /\ OneChain' /\ Grows
BY DEF IInv, AttemptsLeft, LastNotRun, DoneLinked, NoGap, HasNewest, OneChain,
       Linked, Taken, Grows

LEMMA HandlerFrame ==
    ASSUME IInv, TypeOK', UNCHANGED tasks, Released => Released',
           NEW w \in Workers, Moves(w), HandlerOK(w)'
    PROVE  IInv'
<1>1. HandlersOK'
  <2>. SUFFICES ASSUME NEW v \in Workers PROVE HandlerOK(v)'
    BY DEF HandlersOK
  <2>1. CASE v = w
    BY <2>1
  <2>2. CASE v # w
    <3>1. HandlerOK(v) /\ handler'[v] = handler[v]
      BY <2>2 DEF IInv, HandlersOK, Moves
    <3>2. handler[v].live => tasks'[handler[v].task].state = "running"
      BY <3>1 DEF HandlerOK
    <3>. QED
      BY <3>1, <3>2, QueueFrame, OthersOK DEF IInv
  <2>. QED
    BY <2>1, <2>2
<1>2. OneLive'
  BY DEF IInv, OneLive, Moves
<1>. QED
  BY <1>1, <1>2, QueueFrame DEF IInv

LEMMA EnvironmentFrame ==
    ASSUME IInv, TypeOK', UNCHANGED <<tasks, handler>>, Released => Released'
    PROVE  IInv'
<1>1. HandlersOK'
  <2>. SUFFICES ASSUME NEW v \in Workers PROVE HandlerOK(v)'
    BY DEF HandlersOK
  <2>1. HandlerOK(v) /\ handler'[v] = handler[v]
    BY DEF IInv, HandlersOK
  <2>2. handler[v].live => tasks'[handler[v].task].state = "running"
    BY <2>1 DEF HandlerOK
  <2>. QED
    BY <2>1, <2>2, QueueFrame, OthersOK DEF IInv
<1>2. OneLive'
  BY DEF IInv, OneLive
<1>. QED
  BY <1>1, <1>2, QueueFrame DEF IInv

-----------------------------------------------------------------------------
(* Steps of a handler that leave the queue alone *)

LEMMA GotoMoves ==
    ASSUME TypeOK, NEW w \in Workers, NEW pc \in PCs, Goto(w, pc)
    PROVE  /\ Moves(w)
           /\ handler'[w].pc = pc /\ handler'[w].out = handler[w].out
           /\ handler'[w].gone = handler[w].gone
           /\ handler'[w].left = handler[w].left
<1>1. handler'[w] = [handler[w] EXCEPT !.pc = pc]
  BY DEF Goto, TypeOK
<1>2. handler[w] \in Handler
  BY DEF TypeOK
<1>. QED
  BY <1>1, <1>2 DEF Goto, TypeOK, Moves, Handler

LEMMA DoneMoves ==
    ASSUME TypeOK, NEW w \in Workers, NEW out \in Outcomes, Done(w, out)
    PROVE  /\ Moves(w)
           /\ handler'[w].pc = "reply" /\ handler'[w].out = out
           /\ handler'[w].gone = handler[w].gone
           /\ handler'[w].left = handler[w].left
<1>1. handler'[w] = [handler[w] EXCEPT !.pc = "reply", !.out = out]
  BY DEF Done, TypeOK
<1>2. handler[w] \in Handler
  BY DEF TypeOK
<1>. QED
  BY <1>1, <1>2 DEF Done, TypeOK, Moves, Handler, PCs

\* A worker that answers has what its answer promises.
LEMMA DoneKeeps ==
    ASSUME IInv, NEW w \in Workers, ~At(w, "idle"),
           UNCHANGED tasks, Released => Released',
           NEW out \in {"ok", "error", "permanent"}, Done(w, out),
           out = "ok" => Released' \/ Linked(handler[w].task),
           out = "permanent" /\ IsCheck(handler[w].task) =>
               Linked(handler[w].task)
    PROVE  Moves(w) /\ HandlerOK(w)'
<1>1. /\ Moves(w) /\ handler'[w].pc = "reply" /\ handler'[w].out = out
  BY DoneMoves DEF IInv, Outcomes
<1>2. HandlerOK(w)
  BY DEF IInv, HandlersOK
<1>3. handler'[w].task = handler[w].task /\ handler'[w].live = handler[w].live
  BY <1>1 DEF Moves
<1>. QED
  BY <1>1, <1>2, <1>3
  DEF HandlerOK, At, QueuePCs, CheckPCs, ProvisionPCs, Linked, Taken

\* A worker that goes on to another step of the same handler.
LEMMA GotoKeeps ==
    ASSUME IInv, NEW w \in Workers, ~At(w, "idle"),
           UNCHANGED tasks, Released => Released',
           NEW pc \in PCs \ {"idle", "reply", "scheduleNext", "insert",
                             "findFailed", "removeFailed"},
           Goto(w, pc),
           pc \in QueuePCs => ~IsCheck(handler[w].task),
           pc \in CheckPCs => IsCheck(handler[w].task),
           pc \in ProvisionPCs /\ IsCheck(handler[w].task) =>
               Linked(handler[w].task)
    PROVE  Moves(w) /\ HandlerOK(w)'
<1>1. /\ Moves(w) /\ handler'[w].pc = pc
  BY GotoMoves DEF IInv
<1>2. HandlerOK(w)
  BY DEF IInv, HandlersOK
<1>3. handler'[w].task = handler[w].task /\ handler'[w].live = handler[w].live
  BY <1>1 DEF Moves
<1>. QED
  BY <1>1, <1>2, <1>3
  DEF HandlerOK, At, QueuePCs, CheckPCs, ProvisionPCs, Linked, Taken

\* createRunnerVM returned nil.
LEMMA ProvisionedKeeps ==
    ASSUME IInv, NEW w \in Workers, handler[w].pc \in ProvisionPCs,
           UNCHANGED <<tasks, job, ended>>, Provisioned(w)
    PROVE  Moves(w) /\ HandlerOK(w)'
<1>1. HandlerOK(w) /\ ~At(w, "idle")
  BY DEF IInv, HandlersOK, At, ProvisionPCs
<1>2. Released => Released'
  BY DEF Released
<1>3. CASE IsCheck(handler[w].task)
  <2>1. Done(w, "ok") /\ Linked(handler[w].task)
    BY <1>1, <1>3 DEF Provisioned, HandlerOK
  <2>. QED
    BY <1>1, <1>2, <2>1, DoneKeeps
<1>4. CASE ~IsCheck(handler[w].task)
  <2>1. Goto(w, "scheduleFirst")
    BY <1>4 DEF Provisioned
  <2>. QED
    BY <1>1, <1>2, <1>4, <2>1, GotoKeeps DEF PCs, QueuePCs, CheckPCs, ProvisionPCs
<1>. QED
  BY <1>3, <1>4

\* createRunnerVM returned an error.
LEMMA ProvisionFailedKeeps ==
    ASSUME IInv, NEW w \in Workers, handler[w].pc \in ProvisionPCs,
           UNCHANGED <<tasks, job, ended>>,
           NEW out \in {"error", "permanent", "configuration"},
           ProvisionFailed(w, out)
    PROVE  Moves(w) /\ HandlerOK(w)'
<1>1. HandlerOK(w) /\ ~At(w, "idle")
  BY DEF IInv, HandlersOK, At, ProvisionPCs
<1>2. Released => Released'
  BY DEF Released
<1>3. CASE IsCheck(handler[w].task)
  <2>1. Done(w, "permanent") /\ Linked(handler[w].task)
    BY <1>1, <1>3 DEF ProvisionFailed, HandlerOK
  <2>. QED
    BY <1>1, <1>2, <2>1, DoneKeeps
<1>4. CASE ~IsCheck(handler[w].task) /\ out = "configuration"
  <2>1. Goto(w, "failRun")
    BY <1>4 DEF ProvisionFailed
  <2>. QED
    BY <1>1, <1>2, <1>4, <2>1, GotoKeeps DEF PCs, QueuePCs, CheckPCs, ProvisionPCs
<1>5. CASE ~IsCheck(handler[w].task) /\ out # "configuration"
  <2>1. Done(w, out) /\ out \in {"error", "permanent"}
    BY <1>5 DEF ProvisionFailed
  <2>. QED
    BY <1>1, <1>2, <1>5, <2>1, DoneKeeps
<1>. QED
  BY <1>3, <1>4, <1>5

-----------------------------------------------------------------------------
(* The steps of a request *)

LEMMA LeftQueueStep ==
    ASSUME IInv, NEW w \in Workers, LeftQueue(w)
    PROVE  IInv'
<1>. USE DEF githubVars, runnerVars
<1>1. UNCHANGED <<job, young, window, tasks, vm, registration, holders, ended>>
  BY DEF LeftQueue
<1>2. ~At(w, "idle") /\ ~IsCheck(handler[w].task) /\ (Released => Released')
  BY <1>1 DEF IInv, HandlersOK, HandlerOK, LeftQueue, At, QueuePCs, Released
<1>3. Moves(w) /\ HandlerOK(w)'
  <2>1. CASE Goto(w, "resolve")
    BY <1>1, <1>2, <2>1, GotoKeeps DEF PCs, QueuePCs, CheckPCs, ProvisionPCs
  <2>2. CASE job = "left" /\ Done(w, "ok")
    BY <1>1, <1>2, <2>2, DoneKeeps DEF Released
  <2>3. CASE CallFails(w)
    BY <1>1, <1>2, <2>3, DoneKeeps DEF CallFails
  <2>. QED
    BY <2>1, <2>2, <2>3 DEF LeftQueue
<1>4. TypeOK'
  BY <1>1, <1>3 DEF IInv, TypeOK, Moves
<1>. QED
  BY <1>1, <1>2, <1>3, <1>4, HandlerFrame

LEMMA ResolveStep ==
    ASSUME IInv, NEW w \in Workers, Resolve(w)
    PROVE  IInv'
<1>. USE DEF githubVars, runnerVars
<1>1. UNCHANGED <<job, young, window, tasks, vm, registration, holders, ended>>
  BY DEF Resolve
<1>2. ~At(w, "idle") /\ ~IsCheck(handler[w].task) /\ (Released => Released')
  BY <1>1 DEF IInv, HandlersOK, HandlerOK, Resolve, At, QueuePCs, Released
<1>3. Moves(w) /\ HandlerOK(w)'
  <2>1. CASE Goto(w, "findVM") \/ Goto(w, "failRun")
    BY <1>1, <1>2, <2>1, GotoKeeps DEF PCs, QueuePCs, CheckPCs, ProvisionPCs
  <2>2. CASE CallFails(w)
    BY <1>1, <1>2, <2>2, DoneKeeps DEF CallFails
  <2>. QED
    BY <2>1, <2>2 DEF Resolve
<1>4. TypeOK'
  BY <1>1, <1>3 DEF IInv, TypeOK, Moves
<1>. QED
  BY <1>1, <1>2, <1>3, <1>4, HandlerFrame

LEMMA FailRunStep ==
    ASSUME IInv, NEW w \in Workers, FailRun(w)
    PROVE  IInv'
<1>. USE DEF githubVars, runnerVars
<1>1. UNCHANGED <<young, window, tasks, vm, registration, holders>>
  BY DEF FailRun
<1>2. ~At(w, "idle") /\ job' \in JobStates /\ ended' \subseteq Reasons
  BY DEF IInv, TypeOK, FailRun, At, JobStates, Reasons
<1>3. Released => Released'
  BY DEF FailRun, Released, CallFails
<1>4. Moves(w) /\ HandlerOK(w)'
  <2>1. CASE Done(w, "ok") /\ ended' = ended \cup {"refused"}
    BY <1>1, <1>2, <1>3, <2>1, DoneKeeps DEF Released
  <2>2. CASE CallFails(w)
    BY <1>1, <1>2, <1>3, <2>2, DoneKeeps DEF CallFails
  <2>. QED
    BY <2>1, <2>2 DEF FailRun
<1>5. TypeOK'
  BY <1>1, <1>2, <1>4 DEF IInv, TypeOK, Moves
<1>. QED
  BY <1>1, <1>3, <1>4, <1>5, HandlerFrame

LEMMA StatusStep ==
    ASSUME IInv, NEW w \in Workers, Status(w)
    PROVE  IInv'
<1>. USE DEF githubVars, runnerVars
<1>1. UNCHANGED <<job, young, window, tasks, vm, registration, holders>>
  BY DEF Status
<1>2. /\ ~At(w, "idle") /\ IsCheck(handler[w].task)
      /\ ended' \subseteq Reasons /\ (Released => Released')
  BY DEF IInv, TypeOK, HandlersOK, HandlerOK, Status, At, CheckPCs, Reasons,
         Released
<1>3. Moves(w) /\ HandlerOK(w)'
  <2>1. CASE Goto(w, "findChecked")
    BY <1>1, <1>2, <2>1, GotoKeeps DEF PCs, QueuePCs, CheckPCs, ProvisionPCs
  <2>2. CASE /\ job # "queued" /\ Done(w, "ok")
             /\ ended' = IF job = "waiting" THEN ended \cup {"waiting"}
                                            ELSE ended
    <3>1. Released'
      BY <1>1, <2>2 DEF IInv, TypeOK, JobStates, Released
    <3>. QED
      BY <1>1, <1>2, <2>2, <3>1, DoneKeeps
  <2>3. CASE CallFails(w)
    BY <1>1, <1>2, <2>3, DoneKeeps DEF CallFails
  <2>. QED
    BY <2>1, <2>2, <2>3 DEF Status
<1>4. TypeOK'
  BY <1>1, <1>2, <1>3 DEF IInv, TypeOK, Moves
<1>. QED
  BY <1>1, <1>2, <1>3, <1>4, HandlerFrame

LEMMA FindCheckedStep ==
    ASSUME IInv, NEW w \in Workers, FindChecked(w)
    PROVE  IInv'
<1>. USE DEF githubVars, runnerVars
<1>1. UNCHANGED <<job, young, window, tasks, vm, registration, holders>>
  BY DEF FindChecked
<1>2. /\ ~At(w, "idle") /\ IsCheck(handler[w].task)
      /\ ended' \subseteq Reasons /\ (Released => Released')
  BY DEF IInv, TypeOK, HandlersOK, HandlerOK, FindChecked, At, CheckPCs,
         Reasons, Released
<1>3. Moves(w) /\ HandlerOK(w)'
  <2>1. ASSUME NEW gone \in BOOLEAN,
               gone => tasks[handler[w].task].count < Reprovisions,
               handler' = [handler EXCEPT ![w].pc = "scheduleNext",
                                          ![w].gone = gone]
        PROVE  Moves(w) /\ HandlerOK(w)'
    <3>1. handler'[w] = [handler[w] EXCEPT !.pc = "scheduleNext", !.gone = gone]
      BY <2>1 DEF IInv, TypeOK
    <3>2. handler[w] \in Handler /\ HandlerOK(w)
      BY DEF IInv, TypeOK, HandlersOK
    <3>3. /\ handler'[w] \in Handler
          /\ handler'[w].pc = "scheduleNext" /\ handler'[w].gone = gone
          /\ handler'[w].task = handler[w].task
          /\ handler'[w].live = handler[w].live
      BY <3>1, <3>2 DEF Handler, PCs
    <3>4. Moves(w)
      BY <2>1, <3>3 DEF IInv, TypeOK, Moves
    <3>. QED
      BY <1>1, <1>2, <2>1, <3>2, <3>3, <3>4
      DEF HandlerOK, At, QueuePCs, CheckPCs, ProvisionPCs, Taken
  <2>2. CASE Done(w, "ok") /\ ended' = ended \cup {"gaveUp"}
    BY <1>1, <1>2, <2>2, DoneKeeps DEF Released
  <2>3. CASE CallFails(w)
    BY <1>1, <1>2, <2>3, DoneKeeps DEF CallFails
  <2>. QED
    BY <2>1, <2>2, <2>3 DEF FindChecked, MayReplace
<1>4. TypeOK'
  BY <1>1, <1>2, <1>3 DEF IInv, TypeOK, Moves
<1>. QED
  BY <1>1, <1>2, <1>3, <1>4, HandlerFrame

LEMMA TurnMoves ==
    ASSUME TypeOK, NEW w \in Workers, NEW pc \in PCs, NEW out \in Outcomes,
           NEW rest \in SUBSET Zones, Turn(w, pc, out, rest)
    PROVE  Moves(w) /\ handler'[w].pc = pc /\ handler'[w].out = out
<1>1. handler'[w] = [handler[w] EXCEPT !.pc = pc, !.out = out, !.left = rest]
  BY DEF Turn, TypeOK
<1>2. handler[w] \in Handler
  BY DEF TypeOK
<1>3. /\ handler'[w] \in Handler /\ handler'[w].pc = pc /\ handler'[w].out = out
      /\ handler'[w].task = handler[w].task /\ handler'[w].live = handler[w].live
  BY <1>1, <1>2 DEF Handler
<1>. QED
  BY <1>3 DEF Turn, TypeOK, Moves

\* One turn of the zone loop starts it, goes on or leaves it.
LEMMA TurnKeeps ==
    ASSUME IInv, NEW w \in Workers, handler[w].pc \in ProvisionPCs,
           UNCHANGED tasks, NEW rest \in SUBSET Zones,
           NEW pc \in {"insert", "findFailed"},
           NEW out \in {"none", "error", "permanent", "configuration"},
           pc = "insert" => out \in {"none", "error"},
           pc = "findFailed" => out # "none",
           Turn(w, pc, out, rest)
    PROVE  Moves(w) /\ HandlerOK(w)'
<1>1. Moves(w) /\ handler'[w].pc = pc /\ handler'[w].out = out
  BY TurnMoves DEF IInv, PCs, Outcomes
<1>2. HandlerOK(w)
  BY DEF IInv, HandlersOK
<1>3. handler'[w].task = handler[w].task /\ handler'[w].live = handler[w].live
  BY <1>1 DEF Moves
<1>. QED
  BY <1>1, <1>2, <1>3
  DEF HandlerOK, At, QueuePCs, CheckPCs, ProvisionPCs, Linked, Taken

LEMMA FindVMStep ==
    ASSUME IInv, NEW w \in Workers, FindVM(w)
    PROVE  IInv'
<1>. USE DEF githubVars, runnerVars
<1>1. UNCHANGED <<job, young, window, tasks, vm, registration, holders, ended>>
  BY DEF FindVM
<1>2. /\ ~At(w, "idle") /\ handler[w].pc \in ProvisionPCs
      /\ IsCheck(handler[w].task) => Linked(handler[w].task)
      /\ Released => Released'
  BY <1>1 DEF IInv, HandlersOK, HandlerOK, FindVM, At, ProvisionPCs, Released
<1>3. Moves(w) /\ HandlerOK(w)'
  <2>1. CASE Provisioned(w)
    BY <1>1, <1>2, <2>1, ProvisionedKeeps
  <2>2. CASE Goto(w, "findRunner")
    BY <1>1, <1>2, <2>2, GotoKeeps DEF PCs, QueuePCs, CheckPCs, ProvisionPCs
  <2>3. CASE ProvisionFailed(w, "error")
    BY <1>1, <1>2, <2>3, ProvisionFailedKeeps
  <2>. QED
    BY <2>1, <2>2, <2>3 DEF FindVM
<1>4. TypeOK'
  BY <1>1, <1>3 DEF IInv, TypeOK, Moves
<1>. QED
  BY <1>1, <1>2, <1>3, <1>4, HandlerFrame

LEMMA FindRunnerStep ==
    ASSUME IInv, NEW w \in Workers, FindRunner(w)
    PROVE  IInv'
<1>. USE DEF githubVars
<1>1. /\ UNCHANGED <<job, young, window, tasks, vm, registration, ended>>
      /\ holders' \in {holders, holders \cup {w}}
  BY DEF FindRunner
<1>2. /\ ~At(w, "idle") /\ handler[w].pc \in ProvisionPCs
      /\ IsCheck(handler[w].task) => Linked(handler[w].task)
      /\ Released => Released'
  BY <1>1 DEF IInv, HandlersOK, HandlerOK, FindRunner, At, ProvisionPCs, Released
<1>3. Moves(w) /\ HandlerOK(w)'
  <2>1. CASE Goto(w, "register") \/ Goto(w, "removeRunner")
    BY <1>1, <1>2, <2>1, GotoKeeps DEF PCs, QueuePCs, CheckPCs, ProvisionPCs
  <2>2. CASE ProvisionFailed(w, "error")
    BY <1>1, <1>2, <2>2, ProvisionFailedKeeps
  <2>. QED
    BY <2>1, <2>2 DEF FindRunner
<1>4. TypeOK'
  BY <1>1, <1>3 DEF IInv, TypeOK, Moves
<1>. QED
  BY <1>1, <1>2, <1>3, <1>4, HandlerFrame

LEMMA RemoveRunnerStep ==
    ASSUME IInv, NEW w \in Workers, RemoveRunner(w)
    PROVE  IInv'
<1>. USE DEF githubVars
<1>1. /\ UNCHANGED <<job, young, window, tasks, vm, ended>>
      /\ registration' \in {registration, "none"}
      /\ holders' \subseteq holders
  BY DEF RemoveRunner
<1>2. /\ ~At(w, "idle") /\ handler[w].pc \in ProvisionPCs
      /\ IsCheck(handler[w].task) => Linked(handler[w].task)
      /\ Released => Released'
  BY <1>1 DEF IInv, HandlersOK, HandlerOK, RemoveRunner, At, ProvisionPCs,
              Released
<1>3. Moves(w) /\ HandlerOK(w)'
  <2>1. CASE Goto(w, "register")
    BY <1>1, <1>2, <2>1, GotoKeeps DEF PCs, QueuePCs, CheckPCs, ProvisionPCs
  <2>2. CASE ProvisionFailed(w, "error")
    BY <1>1, <1>2, <2>2, ProvisionFailedKeeps
  <2>. QED
    BY <2>1, <2>2 DEF RemoveRunner
<1>4. TypeOK'
  BY <1>1, <1>3 DEF IInv, TypeOK, Moves, RegistrationStates
<1>. QED
  BY <1>1, <1>2, <1>3, <1>4, HandlerFrame

LEMMA RegisterStep ==
    ASSUME IInv, NEW w \in Workers, Register(w)
    PROVE  IInv'
<1>. USE DEF githubVars
<1>1. /\ UNCHANGED <<job, young, window, tasks, vm, ended>>
      /\ registration' \in {registration, "idle"}
      /\ holders' \in {holders, {}, {w}}
  BY DEF Register
<1>2. /\ ~At(w, "idle") /\ handler[w].pc \in ProvisionPCs
      /\ IsCheck(handler[w].task) => Linked(handler[w].task)
      /\ Released => Released'
      /\ handler[w].out \in Outcomes
  BY <1>1 DEF IInv, TypeOK, Handler, HandlersOK, HandlerOK, Register, At,
              ProvisionPCs, Released
<1>3. Moves(w) /\ HandlerOK(w)'
  <2>1. CASE Turn(w, "insert", "none", Zones)
    BY <1>1, <1>2, <2>1, TurnKeeps
  <2>2. CASE ProvisionFailed(w, "error")
    BY <1>1, <1>2, <2>2, ProvisionFailedKeeps
  <2>. QED
    BY <2>1, <2>2 DEF Register
<1>4. TypeOK'
  BY <1>1, <1>3 DEF IInv, TypeOK, Moves, RegistrationStates
<1>. QED
  BY <1>1, <1>2, <1>3, <1>4, HandlerFrame

LEMMA InsertStep ==
    ASSUME IInv, NEW w \in Workers, NEW z \in Zones, Insert(w, z)
    PROVE  IInv'
<1>. USE DEF githubVars
<1>1. UNCHANGED <<job, young, window, tasks, registration, ended>>
  BY DEF Insert
<1>2. /\ At(w, "insert") /\ handler[w].pc \in ProvisionPCs
      /\ handler[w].out \in {"none", "error"}
      /\ handler[w].left \subseteq Zones
      /\ Released => Released'
  BY <1>1 DEF IInv, TypeOK, Handler, HandlersOK, HandlerOK, Insert, At,
              ProvisionPCs, Released
<1>3. vm' \in [Zones -> VMStates] /\ holders' \subseteq Workers \cup Zones
  BY DEF IInv, TypeOK, Insert, Boot, VMStates
<1>4. Moves(w) /\ HandlerOK(w)'
  <2>1. CASE Provisioned(w)
    BY <1>1, <1>2, <2>1, ProvisionedKeeps
  <2>2. ASSUME NEW soft \in BOOLEAN, SkipZone(w, z, soft)
        PROVE  Moves(w) /\ HandlerOK(w)'
    <3>. DEFINE left == handler[w].left \ {z}
                mid  == IF soft THEN "error" ELSE handler[w].out
                pc   == IF left = {} THEN "findFailed" ELSE "insert"
                out  == IF left = {} /\ mid = "none" THEN "configuration" ELSE mid
    <3>1. /\ left \in SUBSET Zones /\ pc \in {"insert", "findFailed"}
          /\ out \in {"none", "error", "permanent", "configuration"}
          /\ pc = "insert" => out \in {"none", "error"}
          /\ pc = "findFailed" => out # "none"
      BY <1>2
    <3>2. Turn(w, pc, out, left)
      BY <2>2 DEF SkipZone
    <3>. HIDE DEF left, mid, pc, out
    <3>. QED
      BY <1>1, <1>2, <3>1, <3>2, TurnKeeps
  <2>3. ASSUME NEW out \in {"error", "permanent"}, Turn(w, "findFailed", out, {})
        PROVE  Moves(w) /\ HandlerOK(w)'
    BY <1>1, <1>2, <2>3, TurnKeeps
  <2>. QED
    BY <2>1, <2>2, <2>3 DEF Insert
<1>5. TypeOK'
  BY <1>1, <1>3, <1>4 DEF IInv, TypeOK, Moves
<1>. QED
  BY <1>1, <1>2, <1>4, <1>5, HandlerFrame

LEMMA FindFailedStep ==
    ASSUME IInv, NEW w \in Workers, FindFailed(w)
    PROVE  IInv'
<1>. USE DEF githubVars
<1>1. /\ UNCHANGED <<job, young, window, tasks, vm, registration, ended>>
      /\ holders' \in {holders \ {w}, holders \cup {w}}
  BY DEF FindFailed
<1>2. /\ HandlerOK(w) /\ handler[w].pc \in ProvisionPCs
      /\ handler[w].out \in {"error", "permanent", "configuration"}
      /\ Released => Released'
  BY <1>1 DEF IInv, HandlersOK, HandlerOK, FindFailed, At, ProvisionPCs,
              Released
<1>3. Moves(w) /\ HandlerOK(w)'
  <2>1. CASE Goto(w, "removeFailed")
    <3>1. /\ Moves(w) /\ handler'[w].pc = "removeFailed"
          /\ handler'[w].out = handler[w].out
      BY <2>1, GotoMoves DEF IInv, PCs
    <3>2. /\ handler'[w].task = handler[w].task
          /\ handler'[w].live = handler[w].live
      BY <3>1 DEF Moves
    <3>. QED
      BY <1>1, <1>2, <3>1, <3>2
      DEF HandlerOK, At, QueuePCs, CheckPCs, ProvisionPCs, Linked, Taken
  <2>2. CASE ProvisionFailed(w, handler[w].out)
    BY <1>1, <1>2, <2>2, ProvisionFailedKeeps
  <2>. QED
    BY <2>1, <2>2 DEF FindFailed
<1>4. TypeOK'
  BY <1>1, <1>3 DEF IInv, TypeOK, Moves
<1>. QED
  BY <1>1, <1>2, <1>3, <1>4, HandlerFrame

LEMMA RemoveFailedStep ==
    ASSUME IInv, NEW w \in Workers, RemoveFailed(w)
    PROVE  IInv'
<1>. USE DEF githubVars
<1>1. /\ UNCHANGED <<job, young, window, tasks, vm, ended>>
      /\ registration' \in {registration, "none"}
      /\ holders' \subseteq holders
  BY DEF RemoveFailed
<1>2. /\ handler[w].pc \in ProvisionPCs
      /\ handler[w].out \in {"error", "permanent", "configuration"}
      /\ Released => Released'
  BY <1>1 DEF IInv, HandlersOK, HandlerOK, RemoveFailed, At, ProvisionPCs,
              Released
<1>3. Moves(w) /\ HandlerOK(w)'
  BY <1>1, <1>2, ProvisionFailedKeeps DEF RemoveFailed
<1>4. TypeOK'
  BY <1>1, <1>3 DEF IInv, TypeOK, Moves, RegistrationStates
<1>. QED
  BY <1>1, <1>2, <1>3, <1>4, HandlerFrame

-----------------------------------------------------------------------------
(* Steps of GitHub and of the VMs *)

LEMMA EnvironmentStep == ASSUME IInv, Environment PROVE IInv'
<1>. USE DEF githubVars
<1>1. UNCHANGED <<tasks, handler, ended>>
  BY DEF Environment, Assign, Finish, Stop, Vanish, RunnerLost, JobMoves, Clock
<1>2. Released => Released'
  BY <1>1 DEF Environment, Assign, Finish, Stop, Vanish, RunnerLost, JobMoves,
              Clock, Released
<1>3. TypeOK'
  <2>. USE DEF IInv, TypeOK, JobStates, VMStates, RegistrationStates, runnerVars
  <2>1. ASSUME NEW z \in Zones, Assign(z) PROVE TypeOK'
    BY <1>1, <2>1 DEF Assign
  <2>2. ASSUME NEW z \in Zones, Finish(z) PROVE TypeOK'
    BY <1>1, <2>2 DEF Finish
  <2>3. ASSUME NEW z \in Zones, Stop(z) PROVE TypeOK'
    BY <1>1, <2>3 DEF Stop
  <2>4. ASSUME NEW z \in Zones, Vanish(z) PROVE TypeOK'
    BY <1>1, <2>4 DEF Vanish
  <2>5. CASE RunnerLost
    BY <1>1, <2>5 DEF RunnerLost
  <2>6. CASE JobMoves
    BY <1>1, <2>6 DEF JobMoves
  <2>7. CASE Clock
    <3>1. young' \in BOOLEAN
      BY <2>7 DEF Clock
    <3>2. window' \in 1..MaxWindow
      BY <2>7, ProvisioningAssumption DEF Clock
    <3>. QED
      BY <1>1, <2>7, <3>1, <3>2 DEF Clock
  <2>. QED
    BY <2>1, <2>2, <2>3, <2>4, <2>5, <2>6, <2>7 DEF Environment
<1>. QED
  BY <1>1, <1>2, <1>3, EnvironmentFrame

-----------------------------------------------------------------------------
(* Steps that change the queue *)

QueueOK == AttemptsLeft /\ LastNotRun /\ DoneLinked /\ NoGap /\ HasNewest
           /\ OneChain

\* A new task under a free name, the next in the chain when it is a check.
LEMMA CreateKeeps ==
    ASSUME IInv, Released => Released', NEW n \in TaskNames, NEW c \in Nat,
           ~Taken(tasks, n), tasks' = Created(tasks, n, c),
           IsCheck(n) => /\ c <= Reprovisions
                         /\ Step(n) = 1 => c = 0
                         /\ Step(n) > 1 =>
                              /\ Taken(tasks, Check(Step(n) - 1))
                              /\ c - tasks[Check(Step(n) - 1)].count \in {0, 1}
    PROVE  /\ QueueOK' /\ Grows /\ Taken(tasks, n)'
           /\ tasks' \in [TaskNames -> Task]
           /\ \A m \in TaskNames : m # n => tasks'[m] = tasks[m]
<1>1. /\ \A m \in TaskNames : m # n => tasks'[m] = tasks[m]
      /\ tasks'[n] = [state |-> "due", attempts |-> 0, count |-> c]
      /\ tasks' \in [TaskNames -> Task]
  BY MaxAttemptsAssumption DEF IInv, TypeOK, Created, Task, TaskStates
<1>2. Grows /\ Taken(tasks, n)'
  BY <1>1 DEF Grows, Taken
<1>3. AttemptsLeft' /\ LastNotRun'
  <2>1. Check(MaxStep) \in TaskNames
    BY NameTypes
  <2>2. AttemptsLeft'
    BY <1>1, MaxAttemptsAssumption DEF IInv, AttemptsLeft
  <2>3. LastNotRun'
    BY <1>1, <2>1 DEF IInv, LastNotRun
  <2>. QED
    BY <2>2, <2>3
<1>4. DoneLinked'
  <2>. SUFFICES ASSUME NEW m \in TaskNames, tasks'[m].state = "done"
                PROVE  Released' \/ Linked(m)'
    BY DEF DoneLinked
  <2>1. m # n /\ tasks[m].state = "done"
    BY <1>1
  <2>2. m # Check(MaxStep) /\ (Released \/ Linked(m))
    BY <2>1 DEF IInv, LastNotRun, DoneLinked
  <2>. QED
    BY <1>2, <2>2, LinkedStays
<1>5. NoGap'
  <2>. SUFFICES ASSUME NEW i \in 1..MaxStep, NEW k \in 1..MaxStep, i < k,
                       Taken(tasks, Check(k))'
                PROVE  Taken(tasks, Check(i))'
    BY DEF NoGap
  <2>1. CASE Check(k) # n
    BY <1>1, <1>2, <2>1, NameTypes DEF IInv, NoGap, Taken, Grows
  <2>2. CASE Check(k) = n
    <3>1. IsCheck(n) /\ Step(n) = k /\ k > 1 /\ k - 1 \in 1..MaxStep
      BY <2>2, NameTypes
    <3>2. Taken(tasks, Check(k - 1))
      BY <3>1
    <3>3. Taken(tasks, Check(i))
      BY <3>1, <3>2 DEF IInv, NoGap
    <3>. QED
      BY <1>2, <3>3, NameTypes DEF Grows
  <2>. QED
    BY <2>1, <2>2
<1>6. HasNewest'
  <2>1. CASE ~IsCheck(n)
    <3>1. \A k \in 1..MaxStep : Taken(tasks, Check(k))' <=> Taken(tasks, Check(k))
      BY <1>1, <2>1, NameTypes DEF Taken
    <3>. QED
      BY <3>1, NameTypes DEF IInv, HasNewest
  <2>2. CASE IsCheck(n)
    <3>1. Step(n) \in 1..MaxStep /\ n = Check(Step(n))
      BY <2>2, NameTypes
    <3>2. Step(n) < MaxStep => ~Taken(tasks, Check(Step(n) + 1))'
      <4>. SUFFICES ASSUME Step(n) < MaxStep
                    PROVE  ~Taken(tasks, Check(Step(n) + 1))'
        OBVIOUS
      <4>1. Step(n) + 1 \in 1..MaxStep /\ Step(n) < Step(n) + 1
        BY <3>1, NameTypes
      <4>2. Check(Step(n) + 1) \in TaskNames /\ Check(Step(n) + 1) # n
        BY <3>1, <4>1, NameTypes
      <4>3. ~Taken(tasks, Check(Step(n) + 1))
        BY <3>1, <4>1 DEF IInv, NoGap
      <4>. QED
        BY <1>1, <4>2, <4>3 DEF Taken
    <3>. QED
      BY <1>2, <3>1, <3>2 DEF HasNewest
  <2>. QED
    BY <2>1, <2>2
<1>7. OneChain'
  <2>. SUFFICES ASSUME NEW k \in 1..MaxStep, Taken(tasks, Check(k))'
                PROVE
        /\ tasks'[Check(k)].count <= Reprovisions
        /\ k = 1 => tasks'[Check(k)].count = 0
        /\ k > 1 => /\ Taken(tasks, Check(k - 1))'
                    /\ tasks'[Check(k)].count - tasks'[Check(k - 1)].count \in {0, 1}
    BY DEF OneChain
  <2>1. CASE Check(k) # n
    <3>1. Taken(tasks, Check(k)) /\ tasks'[Check(k)] = tasks[Check(k)]
      BY <1>1, <2>1, NameTypes DEF Taken
    <3>2. k > 1 => k - 1 \in 1..MaxStep /\ Check(k - 1) \in TaskNames
      BY NameTypes
    <3>3. /\ tasks[Check(k)].count <= Reprovisions
          /\ k = 1 => tasks[Check(k)].count = 0
          /\ k > 1 => /\ Taken(tasks, Check(k - 1))
                      /\ tasks[Check(k)].count - tasks[Check(k - 1)].count \in {0, 1}
      BY <3>1 DEF IInv, OneChain
    <3>. QED
      BY <1>2, <3>1, <3>2, <3>3 DEF Grows
  <2>2. CASE Check(k) = n
    <3>1. IsCheck(n) /\ Step(n) = k /\ tasks'[n].count = c
      BY <1>1, <2>2, NameTypes
    <3>2. k > 1 => k - 1 \in 1..MaxStep /\ Check(k - 1) \in TaskNames
      BY NameTypes
    <3>. QED
      BY <1>2, <2>2, <3>1, <3>2 DEF Grows
  <2>. QED
    BY <2>1, <2>2
<1>. QED
  BY <1>1, <1>2, <1>3, <1>4, <1>5, <1>6, <1>7 DEF QueueOK

LEMMA WebhookStep == ASSUME IInv, Webhook PROVE IInv'
<1>. USE DEF githubVars, runnerVars
<1>1. PICK k \in 0..MaxWindow :
         ~Taken(tasks, Queued(k)) /\ tasks' = Created(tasks, Queued(k), 0)
  <2>1. 0 \in 0..MaxWindow /\ window \in 0..MaxWindow
    BY NameTypes DEF IInv, TypeOK
  <2>. QED
    BY <2>1 DEF Webhook
<1>2. Released => Released'
  BY DEF Webhook, Released
<1>3. Queued(k) \in TaskNames /\ ~IsCheck(Queued(k))
  BY NameTypes
<1>4. /\ QueueOK' /\ Grows /\ tasks' \in [TaskNames -> Task]
      /\ \A m \in TaskNames : m # Queued(k) => tasks'[m] = tasks[m]
  BY <1>1, <1>2, <1>3, CreateKeeps
<1>5. TypeOK'
  BY <1>4 DEF IInv, TypeOK, Webhook
<1>6. HandlersOK'
  <2>. SUFFICES ASSUME NEW v \in Workers PROVE HandlerOK(v)'
    BY DEF HandlersOK
  <2>1. HandlerOK(v) /\ handler'[v] = handler[v] /\ handler[v].task \in TaskNames
    BY DEF IInv, TypeOK, Handler, HandlersOK, Webhook
  <2>2. handler[v].live => tasks'[handler[v].task].state = "running"
    BY <1>1, <1>4, <2>1 DEF HandlerOK, Taken
  <2>. QED
    BY <1>2, <1>4, <2>1, <2>2, OthersOK DEF IInv
<1>7. OneLive'
  BY DEF IInv, OneLive, Webhook
<1>. QED
  BY <1>4, <1>5, <1>6, <1>7 DEF IInv, QueueOK

\* scheduleCheck, of the first check or of the next one.
LEMMA ScheduledKeeps ==
    ASSUME IInv, Released => Released', NEW k \in 1..MaxStep, NEW c \in Nat,
           Scheduled(k, c), c <= Reprovisions, k = 1 => c = 0,
           k > 1 => /\ Taken(tasks, Check(k - 1))
                    /\ c - tasks[Check(k - 1)].count \in {0, 1}
    PROVE  /\ QueueOK' /\ Grows /\ Taken(tasks, Check(k))'
           /\ tasks' \in [TaskNames -> Task]
           /\ \A m \in TaskNames :
                 tasks[m].state = "running" => tasks'[m] = tasks[m]
<1>1. Check(k) \in TaskNames /\ IsCheck(Check(k)) /\ Step(Check(k)) = k
  BY NameTypes
<1>2. CASE Taken(tasks, Check(k))
  <2>1. UNCHANGED tasks
    BY <1>2 DEF Scheduled
  <2>. QED
    BY <1>2, <2>1, QueueFrame DEF QueueOK, IInv, TypeOK, Taken
<1>3. CASE ~Taken(tasks, Check(k))
  <2>1. tasks' = Created(tasks, Check(k), c)
    BY <1>3 DEF Scheduled
  <2>2. /\ QueueOK' /\ Grows /\ Taken(tasks, Check(k))'
        /\ tasks' \in [TaskNames -> Task]
        /\ \A m \in TaskNames : m # Check(k) => tasks'[m] = tasks[m]
    BY <1>1, <1>3, <2>1, CreateKeeps
  <2>. QED
    BY <1>3, <2>2 DEF Taken
<1>. QED
  BY <1>2, <1>3

\* A worker that scheduled a check and moved on.
LEMMA ScheduleFrame ==
    ASSUME IInv, TypeOK', QueueOK', Grows, Released => Released',
           NEW w \in Workers, Moves(w), HandlerOK(w)',
           \A m \in TaskNames :
              tasks[m].state = "running" => tasks'[m] = tasks[m]
    PROVE  IInv'
<1>1. HandlersOK'
  <2>. SUFFICES ASSUME NEW v \in Workers, v # w PROVE HandlerOK(v)'
    BY DEF HandlersOK
  <2>1. HandlerOK(v) /\ handler'[v] = handler[v] /\ handler[v].task \in TaskNames
    BY DEF IInv, TypeOK, Handler, HandlersOK, Moves
  <2>2. handler[v].live => tasks'[handler[v].task].state = "running"
    BY <2>1 DEF HandlerOK
  <2>. QED
    BY <2>1, <2>2, OthersOK DEF IInv
<1>2. OneLive'
  BY DEF IInv, OneLive, Moves
<1>. QED
  BY <1>1, <1>2 DEF IInv, QueueOK

\* The reply or the next step of a worker that scheduled check k.
LEMMA ScheduledMoves ==
    ASSUME IInv, NEW w \in Workers, NEW n \in TaskNames, n = handler[w].task,
           At(w, "scheduleFirst") \/ At(w, "scheduleNext"),
           Grows, Released => Released',
           \A m \in TaskNames :
              tasks[m].state = "running" => tasks'[m] = tasks[m],
           \/ Done(w, "error")
           \/ Linked(n)' /\ Done(w, "ok")
           \/ /\ Linked(n)' /\ IsCheck(n)
              /\ Goto(w, "findVM")
    PROVE  Moves(w) /\ HandlerOK(w)'
<1>1. HandlerOK(w) /\ ~At(w, "idle")
  BY DEF IInv, TypeOK, Handler, HandlersOK, At
<1>2. /\ Taken(tasks, n)' /\ n # Check(MaxStep)
      /\ handler[w].live => tasks'[n].state = "running"
  BY <1>1 DEF HandlerOK, Grows
<1>3. CASE Done(w, "error")
  <2>1. Moves(w) /\ handler'[w].pc = "reply" /\ handler'[w].out = "error"
    BY <1>3, DoneMoves DEF IInv, Outcomes
  <2>. QED
    BY <1>2, <2>1 DEF Moves, HandlerOK, At, QueuePCs, CheckPCs, ProvisionPCs,
                      Linked
<1>4. CASE Linked(n)' /\ Done(w, "ok")
  <2>1. Moves(w) /\ handler'[w].pc = "reply" /\ handler'[w].out = "ok"
    BY <1>4, DoneMoves DEF IInv, Outcomes
  <2>2. handler'[w].task = handler[w].task /\ handler'[w].live = handler[w].live
    BY <2>1 DEF Moves
  <2>. QED
    BY <1>2, <1>4, <2>1, <2>2
    DEF HandlerOK, At, QueuePCs, CheckPCs, ProvisionPCs, Linked
<1>5. CASE /\ Linked(n)' /\ IsCheck(n)
           /\ Goto(w, "findVM")
  <2>1. Moves(w) /\ handler'[w].pc = "findVM"
    BY <1>5, GotoMoves DEF IInv, PCs
  <2>2. handler'[w].task = handler[w].task /\ handler'[w].live = handler[w].live
    BY <2>1 DEF Moves
  <2>. QED
    BY <1>2, <1>5, <2>1, <2>2
    DEF HandlerOK, At, QueuePCs, CheckPCs, ProvisionPCs, Linked
<1>. QED
  BY <1>3, <1>4, <1>5

LEMMA ScheduleFirstStep ==
    ASSUME IInv, NEW w \in Workers, ScheduleFirst(w)
    PROVE  IInv'
<1>. USE DEF githubVars, runnerVars
<1>1. UNCHANGED <<job, young, window, vm, registration, holders, ended>>
  BY DEF ScheduleFirst
<1>2. PICK n \in TaskNames : n = handler[w].task
  BY DEF IInv, TypeOK, Handler
<1>3. At(w, "scheduleFirst") /\ ~IsCheck(n) /\ (Released => Released')
  BY <1>1, <1>2 DEF IInv, HandlersOK, HandlerOK, ScheduleFirst, At, QueuePCs,
                    Released
<1>4. /\ QueueOK' /\ Grows /\ tasks' \in [TaskNames -> Task]
      /\ \A m \in TaskNames :
            tasks[m].state = "running" => tasks'[m] = tasks[m]
      /\ \/ Done(w, "error")
         \/ Linked(n)' /\ Done(w, "ok")
  <2>1. CASE Scheduled(1, 0) /\ (Done(w, "ok") \/ Done(w, "error"))
    <3>1. 1 \in 1..MaxStep /\ 0 \in Nat /\ 0 <= Reprovisions
      BY NameTypes
    <3>2. /\ QueueOK' /\ Grows /\ Taken(tasks, Check(1))'
          /\ tasks' \in [TaskNames -> Task]
          /\ \A m \in TaskNames :
                tasks[m].state = "running" => tasks'[m] = tasks[m]
      BY <1>3, <2>1, <3>1, ScheduledKeeps
    <3>. QED
      BY <1>3, <2>1, <3>2 DEF Linked
  <2>2. CASE CallFails(w) /\ UNCHANGED tasks
    BY <1>3, <2>2, QueueFrame DEF CallFails, QueueOK, IInv, TypeOK
  <2>. QED
    BY <2>1, <2>2 DEF ScheduleFirst
<1>5. Moves(w) /\ HandlerOK(w)'
  BY <1>2, <1>3, <1>4, ScheduledMoves
<1>6. TypeOK'
  BY <1>1, <1>4, <1>5 DEF IInv, TypeOK, Moves
<1>. QED
  BY <1>3, <1>4, <1>5, <1>6, ScheduleFrame

LEMMA ScheduleNextStep ==
    ASSUME IInv, NEW w \in Workers, ScheduleNext(w)
    PROVE  IInv'
<1>. USE DEF githubVars, runnerVars
<1>1. UNCHANGED <<job, young, window, vm, registration, holders, ended>>
  BY DEF ScheduleNext
<1>2. PICK n \in TaskNames : n = handler[w].task
  BY DEF IInv, TypeOK, Handler
<1>3. PICK c : c = NextCount(w)
  OBVIOUS
<1>4. /\ At(w, "scheduleNext") /\ IsCheck(n) /\ n # Check(MaxStep)
      /\ Taken(tasks, n)
      /\ handler[w].gone \in BOOLEAN
      /\ handler[w].gone => tasks[n].count < Reprovisions
  BY <1>1, <1>2 DEF IInv, HandlersOK, HandlerOK, ScheduleNext, At, CheckPCs,
                    TypeOK, Handler
<1>5. Released => Released'
  BY <1>1 DEF Released
<1>6. PICK k \in 1..MaxStep : k = Step(n) + 1
  BY <1>4, NameTypes
<1>7. /\ c \in Nat /\ c <= Reprovisions /\ k > 1 /\ n = Check(k - 1)
      /\ c - tasks[n].count \in {0, 1}
  <2>1. n = Check(Step(n)) /\ Step(n) \in 1..MaxStep
    BY <1>4, NameTypes
  <2>2. tasks[n].count \in Nat /\ tasks[n].count <= Reprovisions
    BY <1>4, <2>1 DEF IInv, TypeOK, Task, OneChain
  <2>3. c = tasks[n].count \/ (c = tasks[n].count + 1 /\ handler[w].gone)
    BY <1>2, <1>3, <1>4, <2>2 DEF NextCount
  <2>. QED
    BY <1>4, <1>6, <2>1, <2>2, <2>3, NameTypes
<1>8. /\ QueueOK' /\ Grows /\ tasks' \in [TaskNames -> Task]
      /\ \A m \in TaskNames :
            tasks[m].state = "running" => tasks'[m] = tasks[m]
      /\ \/ Done(w, "error")
         \/ Linked(n)' /\ Done(w, "ok")
         \/ Linked(n)' /\ IsCheck(n) /\ Goto(w, "findVM")
  <2>1. CASE /\ Scheduled(k, c)
             /\ Goto(w, "findVM") \/ Done(w, "ok") \/ Done(w, "error")
    <3>1. /\ QueueOK' /\ Grows /\ Taken(tasks, Check(k))'
          /\ tasks' \in [TaskNames -> Task]
          /\ \A m \in TaskNames :
                tasks[m].state = "running" => tasks'[m] = tasks[m]
      BY <1>4, <1>5, <1>7, <2>1, ScheduledKeeps
    <3>2. Linked(n)'
      BY <1>4, <1>6, <3>1 DEF Linked
    <3>. QED
      BY <1>4, <2>1, <3>1, <3>2
  <2>2. CASE CallFails(w) /\ UNCHANGED tasks
    BY <1>5, <2>2, QueueFrame DEF CallFails, QueueOK, IInv, TypeOK
  <2>. QED
    BY <1>2, <1>3, <1>6, <2>1, <2>2 DEF ScheduleNext
<1>9. Moves(w) /\ HandlerOK(w)'
  BY <1>2, <1>4, <1>5, <1>8, ScheduledMoves
<1>10. TypeOK'
  BY <1>1, <1>8, <1>9 DEF IInv, TypeOK, Moves
<1>. QED
  BY <1>5, <1>8, <1>9, <1>10, ScheduleFrame

-----------------------------------------------------------------------------
(* The beginning and the end of an attempt *)

\* Only the state and the attempts of task n change, and it stays taken.
Attempted(n) ==
    /\ tasks' \in [TaskNames -> Task]
    /\ \A m \in TaskNames : m # n => tasks'[m] = tasks[m]
    /\ tasks'[n].count = tasks[n].count
    /\ Taken(tasks, n) /\ Taken(tasks, n)'
    /\ tasks'[n].state = "due" => tasks'[n].attempts < MaxAttempts

LEMMA AttemptKeeps ==
    ASSUME IInv, Released => Released', NEW n \in TaskNames,
           n # Check(MaxStep), Attempted(n),
           tasks'[n].state = "done" => Released' \/ Linked(n)
    PROVE  QueueOK' /\ Grows
<1>1. /\ \A m \in TaskNames : Taken(tasks, m)' <=> Taken(tasks, m)
      /\ \A m \in TaskNames : tasks'[m].count = tasks[m].count
      /\ Grows
  BY DEF Attempted, Taken, Grows
<1>2. Check(MaxStep) \in TaskNames
  BY NameTypes
<1>3. AttemptsLeft'
  BY DEF IInv, AttemptsLeft, Attempted
<1>4. LastNotRun'
  BY <1>2 DEF IInv, LastNotRun, Attempted
<1>5. DoneLinked'
  <2>. SUFFICES ASSUME NEW m \in TaskNames, tasks'[m].state = "done"
                PROVE  Released' \/ Linked(m)'
    BY DEF DoneLinked
  <2>1. Released' \/ Linked(m)
    BY DEF IInv, DoneLinked, Attempted
  <2>2. m # Check(MaxStep)
    BY <1>4 DEF LastNotRun
  <2>. QED
    BY <1>1, <2>1, <2>2, LinkedStays
<1>6. NoGap'
  BY <1>1, NameTypes DEF IInv, NoGap
<1>7. HasNewest'
  BY <1>1, NameTypes DEF IInv, HasNewest
<1>8. OneChain'
  <2>1. \A k \in 1..MaxStep : k > 1 => k - 1 \in 1..MaxStep
    BY NameTypes
  <2>. QED
    BY <1>1, <2>1, NameTypes DEF IInv, OneChain
<1>. QED
  BY <1>1, <1>3, <1>4, <1>5, <1>6, <1>7, <1>8 DEF QueueOK

\* Worker w begins, ends or gives up an attempt at n; nobody else's attempt
\* at it is awaited.
LEMMA AttemptFrame ==
    ASSUME IInv, TypeOK', Released => Released', NEW n \in TaskNames,
           n # Check(MaxStep), Attempted(n),
           tasks'[n].state = "done" => Released' \/ Linked(n),
           NEW w \in Workers, HandlerOK(w)',
           handler'[w].live => handler'[w].task = n,
           \A v \in Workers : v # w =>
              /\ handler'[v] = handler[v]
              /\ handler[v].live => handler[v].task # n
    PROVE  IInv'
<1>1. QueueOK' /\ Grows
  BY AttemptKeeps
<1>2. HandlersOK'
  <2>. SUFFICES ASSUME NEW v \in Workers, v # w PROVE HandlerOK(v)'
    BY DEF HandlersOK
  <2>1. HandlerOK(v) /\ handler'[v] = handler[v] /\ handler[v].task \in TaskNames
    BY DEF IInv, TypeOK, Handler, HandlersOK
  <2>2. handler[v].live => tasks'[handler[v].task].state = "running"
    BY <2>1 DEF HandlerOK, Attempted
  <2>. QED
    BY <1>1, <2>1, <2>2, OthersOK DEF IInv
<1>3. OneLive'
  BY DEF IInv, OneLive
<1>. QED
  BY <1>1, <1>2, <1>3 DEF IInv, QueueOK

LEMMA FailedAttempt ==
    ASSUME TypeOK, NEW n \in TaskNames, Taken(tasks, n),
           tasks' = Failed(tasks, n)
    PROVE  Attempted(n) /\ tasks'[n].state \in {"due", "exhausted"}
<1>1. tasks[n] \in Task
  BY DEF TypeOK
<1>2. CASE tasks[n].attempts < MaxAttempts
  <2>1. tasks' = [tasks EXCEPT ![n].state = "due"]
    BY <1>2 DEF Failed
  <2>2. tasks'[n] = [tasks[n] EXCEPT !.state = "due"]
    BY <2>1 DEF TypeOK
  <2>. QED
    BY <1>1, <1>2, <2>1, <2>2 DEF TypeOK, Task, TaskStates, Attempted, Taken
<1>3. CASE ~(tasks[n].attempts < MaxAttempts)
  <2>1. tasks' = [tasks EXCEPT ![n].state = "exhausted", ![n].attempts = 0]
    BY <1>3 DEF Failed
  <2>2. tasks'[n] = [tasks[n] EXCEPT !.state = "exhausted", !.attempts = 0]
    BY <2>1 DEF TypeOK
  <2>3. tasks'[n] \in Task /\ tasks'[n].count = tasks[n].count
        /\ tasks'[n].state = "exhausted"
    <3>1. 0 \in 0..MaxAttempts /\ "exhausted" \in TaskStates
      BY MaxAttemptsAssumption DEF TaskStates
    <3>2. tasks'[n] = [state |-> "exhausted", attempts |-> 0,
                       count |-> tasks[n].count]
      BY <1>1, <2>2 DEF Task
    <3>. QED
      BY <1>1, <3>1, <3>2 DEF Task
  <2>4. tasks' \in [TaskNames -> Task]
        /\ \A m \in TaskNames : m # n => tasks'[m] = tasks[m]
    BY <2>1, <2>3 DEF TypeOK
  <2>. QED
    BY <2>3, <2>4 DEF Attempted, Taken
<1>. QED
  BY <1>2, <1>3

LEMMA AcknowledgedAttempt ==
    ASSUME TypeOK, NEW n \in TaskNames, Taken(tasks, n),
           tasks' = Acknowledged(tasks, n)
    PROVE  Attempted(n) /\ tasks'[n].state = "done"
<1>1. tasks'[n] = [tasks[n] EXCEPT !.state = "done", !.attempts = 0]
  BY DEF TypeOK, Acknowledged
<1>2. tasks[n] \in Task
  BY DEF TypeOK
<1>3. tasks'[n] \in Task /\ tasks'[n].count = tasks[n].count
      /\ tasks'[n].state = "done"
  <2>1. 0 \in 0..MaxAttempts /\ "done" \in TaskStates
    BY MaxAttemptsAssumption DEF TaskStates
  <2>2. tasks'[n] = [state |-> "done", attempts |-> 0, count |-> tasks[n].count]
    BY <1>1, <1>2 DEF Task
  <2>. QED
    BY <1>2, <2>1, <2>2 DEF Task
<1>4. tasks' \in [TaskNames -> Task]
      /\ \A m \in TaskNames : m # n => tasks'[m] = tasks[m]
  BY <1>3 DEF TypeOK, Acknowledged
<1>. QED
  BY <1>3, <1>4 DEF Attempted, Taken

LEMMA DispatchedAttempt ==
    ASSUME IInv, NEW n \in TaskNames, tasks[n].state = "due",
           tasks' = Dispatched(tasks, n)
    PROVE  Attempted(n) /\ tasks'[n].state = "running"
<1>1. tasks'[n] = [tasks[n] EXCEPT !.state = "running",
                                   !.attempts = tasks[n].attempts + 1]
  BY DEF IInv, TypeOK, Dispatched
<1>2. tasks[n] \in Task /\ tasks[n].attempts < MaxAttempts
  BY DEF IInv, TypeOK, AttemptsLeft
<1>3. tasks[n].attempts + 1 \in 0..MaxAttempts
  BY <1>2, MaxAttemptsAssumption DEF Task
<1>. QED
  BY <1>1, <1>2, <1>3
  DEF IInv, TypeOK, Task, TaskStates, Attempted, Taken, Dispatched

\* A worker is free again.
LEMMA LeaveFrame ==
    ASSUME IInv, NEW w \in Workers, ~At(w, "idle"),
           handler' = [handler EXCEPT ![w] = Idle],
           UNCHANGED <<job, young, window, vm, registration>>,
           ended \subseteq ended', ended' \subseteq Reasons,
           holders' \subseteq holders,
           NEW n \in TaskNames, n = handler[w].task,
           \/ UNCHANGED tasks
           \/ /\ handler[w].live /\ Attempted(n)
              /\ tasks'[n].state = "done" => Released' \/ Linked(n)
    PROVE  IInv'
<1>1. Released => Released'
  BY DEF Released
<1>2. HandlerOK(w) /\ n # Check(MaxStep) /\ Taken(tasks, n)
  BY DEF IInv, HandlersOK, HandlerOK
<1>3. Idle \in Handler
  BY NameTypes DEF Idle, Handler, PCs, Outcomes
<1>4. /\ handler' \in [Workers -> Handler] /\ handler'[w] = Idle
      /\ \A v \in Workers : v # w => handler'[v] = handler[v]
  BY <1>3 DEF IInv, TypeOK
<1>5. TypeOK'
  BY <1>4 DEF IInv, TypeOK, Attempted
<1>6. HandlerOK(w)'
  <2>1. handler'[w].pc = "idle" /\ handler'[w].live = FALSE
    BY <1>4 DEF Idle
  <2>. QED
    BY <2>1 DEF HandlerOK, At, QueuePCs, CheckPCs, ProvisionPCs
<1>7. CASE UNCHANGED tasks
  <2>1. HandlersOK'
    <3>. SUFFICES ASSUME NEW v \in Workers, v # w PROVE HandlerOK(v)'
      BY <1>6 DEF HandlersOK
    <3>1. HandlerOK(v) /\ handler'[v] = handler[v]
      BY <1>4 DEF IInv, HandlersOK
    <3>2. handler[v].live => tasks'[handler[v].task].state = "running"
      BY <1>7, <3>1 DEF HandlerOK
    <3>. QED
      BY <1>1, <1>7, <3>1, <3>2, QueueFrame, OthersOK DEF IInv
  <2>2. OneLive'
    BY <1>4 DEF IInv, OneLive, Idle
  <2>. QED
    BY <1>1, <1>5, <1>7, <2>1, <2>2, QueueFrame DEF IInv
<1>8. CASE /\ handler[w].live /\ Attempted(n)
           /\ tasks'[n].state = "done" => Released' \/ Linked(n)
  <2>1. \A v \in Workers : v # w /\ handler[v].live => handler[v].task # n
    BY <1>8 DEF IInv, OneLive
  <2>2. ~handler'[w].live
    BY <1>4 DEF Idle
  <2>. QED
    BY <1>1, <1>2, <1>4, <1>5, <1>6, <1>8, <2>1, <2>2, AttemptFrame
<1>. QED
  BY <1>7, <1>8

LEMMA DispatchStep ==
    ASSUME IInv, NEW w \in Workers, NEW n \in TaskNames, Dispatch(w, n)
    PROVE  IInv'
<1>. USE DEF githubVars, runnerVars
<1>1. /\ UNCHANGED <<job, young, window, vm, registration, holders, ended>>
      /\ Released => Released'
      /\ n # Check(MaxStep) /\ tasks[n].state = "due"
  BY DEF Dispatch, Released
<1>2. Attempted(n) /\ tasks'[n].state = "running"
  BY <1>1, DispatchedAttempt DEF Dispatch
<1>3. PICK pc \in {"status", "leftQueue"} :
         /\ pc = IF IsCheck(n) THEN "status" ELSE "leftQueue"
         /\ handler' = [handler EXCEPT ![w] =
               [Idle EXCEPT !.pc = pc, !.task = n, !.live = TRUE]]
  BY DEF Dispatch
<1>4. PICK h \in Handler : /\ h.pc = pc /\ h.task = n /\ h.live /\ ~h.gone
                           /\ handler' = [handler EXCEPT ![w] = h]
  BY <1>3 DEF Idle, Handler, PCs, Outcomes
<1>5. /\ handler' \in [Workers -> Handler] /\ handler'[w] = h
      /\ \A v \in Workers : v # w => handler'[v] = handler[v]
  BY <1>4 DEF IInv, TypeOK
<1>6. TypeOK'
  BY <1>1, <1>2, <1>5 DEF IInv, TypeOK, Attempted
<1>7. HandlerOK(w)'
  BY <1>1, <1>2, <1>3, <1>4, <1>5
  DEF HandlerOK, At, QueuePCs, CheckPCs, ProvisionPCs, Attempted
<1>8. \A v \in Workers : handler[v].live => handler[v].task # n
  BY <1>1 DEF IInv, HandlersOK, HandlerOK
<1>. QED
  BY <1>1, <1>2, <1>4, <1>5, <1>6, <1>7, <1>8, AttemptFrame

\* Names n, the task of a worker's request.
LEMMA RequestTask ==
    ASSUME IInv, NEW w \in Workers, ~At(w, "idle")
    PROVE  /\ handler[w].task \in TaskNames /\ Taken(tasks, handler[w].task)
           /\ handler[w].task # Check(MaxStep)
BY DEF IInv, TypeOK, Handler, HandlersOK, HandlerOK

LEMMA ReplyStep == ASSUME IInv, NEW w \in Workers, Reply(w) PROVE IInv'
<1>. USE DEF githubVars
<1>1. /\ UNCHANGED <<job, young, window, vm, registration>>
      /\ ended \subseteq ended' /\ ended' \subseteq Reasons
      /\ holders' \subseteq holders
      /\ handler' = [handler EXCEPT ![w] = Idle] /\ At(w, "reply")
  BY DEF Reply, IInv, TypeOK, Reasons
<1>2. ~At(w, "idle")
  BY <1>1 DEF At
<1>3. PICK n \in TaskNames : n = handler[w].task
  BY <1>2, RequestTask
<1>4. Taken(tasks, n) /\ TypeOK
  BY <1>2, <1>3, RequestTask DEF IInv
<1>5. CASE ~handler[w].live
  BY <1>1, <1>2, <1>3, <1>5, LeaveFrame DEF Reply
<1>6. CASE handler[w].live /\ handler[w].out = "error"
  <2>1. tasks' = Failed(tasks, n)
    BY <1>3, <1>6 DEF Reply
  <2>2. Attempted(n) /\ tasks'[n].state # "done"
    BY <1>4, <2>1, FailedAttempt
  <2>. QED
    BY <1>1, <1>2, <1>3, <1>6, <2>2, LeaveFrame
<1>7. CASE handler[w].live /\ handler[w].out # "error"
  <2>1. tasks' = Acknowledged(tasks, n)
    BY <1>3, <1>7 DEF Reply
  <2>2. Attempted(n)
    BY <1>4, <2>1, AcknowledgedAttempt
  <2>3. Released' \/ Linked(n)
    BY <1>1, <1>3, <1>7
    DEF IInv, HandlersOK, HandlerOK, Reply, Released
  <2>. QED
    BY <1>1, <1>2, <1>3, <1>7, <2>2, <2>3, LeaveFrame
<1>. QED
  BY <1>5, <1>6, <1>7

LEMMA CrashStep == ASSUME IInv, NEW w \in Workers, Crash(w) PROVE IInv'
<1>. USE DEF githubVars
<1>1. /\ UNCHANGED <<job, young, window, vm, registration, ended>>
      /\ ended' \subseteq Reasons /\ holders' \subseteq holders
      /\ handler' = [handler EXCEPT ![w] = Idle] /\ ~At(w, "idle")
  BY DEF Crash, IInv, TypeOK
<1>2. PICK n \in TaskNames : n = handler[w].task
  BY <1>1, RequestTask
<1>3. Taken(tasks, n) /\ TypeOK
  BY <1>1, <1>2, RequestTask DEF IInv
<1>4. CASE handler[w].live
  <2>1. tasks' = Failed(tasks, n)
    BY <1>2, <1>4 DEF Crash
  <2>2. Attempted(n) /\ tasks'[n].state # "done"
    BY <1>3, <2>1, FailedAttempt
  <2>. QED
    BY <1>1, <1>2, <1>4, <2>2, LeaveFrame
<1>5. CASE ~handler[w].live
  BY <1>1, <1>2, <1>5, LeaveFrame DEF Crash
<1>. QED
  BY <1>4, <1>5

LEMMA TimeoutStep == ASSUME IInv, NEW w \in Workers, Timeout(w) PROVE IInv'
<1>. USE DEF githubVars, runnerVars
<1>1. /\ UNCHANGED <<job, young, window, vm, registration, holders, ended>>
      /\ handler[w].live /\ (Released => Released')
  BY DEF Timeout, Released
<1>2. HandlerOK(w) /\ ~At(w, "idle")
  BY <1>1 DEF IInv, HandlersOK, HandlerOK
<1>3. PICK n \in TaskNames : n = handler[w].task
  BY <1>2, RequestTask
<1>4. n # Check(MaxStep) /\ Taken(tasks, n) /\ TypeOK
  BY <1>2, <1>3, RequestTask DEF IInv
<1>5. Attempted(n) /\ tasks'[n].state # "done"
  BY <1>3, <1>4, FailedAttempt DEF Timeout
<1>6. /\ handler' \in [Workers -> Handler]
      /\ handler'[w] = [handler[w] EXCEPT !.live = FALSE]
      /\ \A v \in Workers : v # w => handler'[v] = handler[v]
  BY DEF Timeout, IInv, TypeOK, Handler
<1>7. /\ handler'[w].live = FALSE /\ handler'[w].pc = handler[w].pc
      /\ handler'[w].task = handler[w].task /\ handler'[w].out = handler[w].out
      /\ handler'[w].gone = handler[w].gone
  BY <1>6 DEF IInv, TypeOK, Handler
<1>8. TypeOK'
  BY <1>1, <1>5, <1>6 DEF IInv, TypeOK, Attempted
<1>9. Linked(n) => Linked(n)'
  BY <1>1, <1>4, <1>5, AttemptKeeps, LinkedStays
<1>10. HandlerOK(w)'
  BY <1>1, <1>2, <1>3, <1>4, <1>5, <1>7, <1>9
  DEF HandlerOK, At, QueuePCs, CheckPCs, ProvisionPCs, Attempted, Linked
<1>11. \A v \in Workers : v # w /\ handler[v].live => handler[v].task # n
  BY <1>1, <1>3 DEF IInv, OneLive
<1>. QED
  BY <1>1, <1>4, <1>5, <1>6, <1>7, <1>8, <1>10, <1>11, AttemptFrame

-----------------------------------------------------------------------------
(* The invariant *)

LEMMA InitHolds == Init => IInv
<1>. SUFFICES ASSUME Init PROVE IInv
  OBVIOUS
<1>1. Idle \in Handler /\ NoTask \in Task /\ NoTask.state = "none"
  BY NameTypes, MaxAttemptsAssumption
  DEF Idle, Handler, PCs, Outcomes, NoTask, Task, TaskStates
<1>2. TypeOK
  BY <1>1, NameTypes
  DEF Init, TypeOK, JobStates, VMStates, RegistrationStates
<1>3. \A n \in TaskNames : tasks[n].state = "none"
  BY <1>1 DEF Init
<1>4. HandlersOK /\ OneLive
  BY DEF Init, HandlersOK, HandlerOK, OneLive, At, Idle, QueuePCs, CheckPCs,
         ProvisionPCs
<1>5. AttemptsLeft /\ LastNotRun /\ DoneLinked
  BY <1>3, NameTypes DEF AttemptsLeft, LastNotRun, DoneLinked
<1>6. NoGap /\ HasNewest /\ OneChain
  BY <1>3, NameTypes DEF NoGap, HasNewest, OneChain, Taken
<1>. QED
  BY <1>2, <1>4, <1>5, <1>6 DEF IInv

LEMMA HandlerStepHolds ==
    ASSUME IInv, NEW w \in Workers, HandlerStep(w)
    PROVE  IInv'
BY LeftQueueStep, ResolveStep, FailRunStep, ScheduleFirstStep, StatusStep,
   FindCheckedStep, ScheduleNextStep, FindVMStep, FindRunnerStep,
   RemoveRunnerStep, RegisterStep, InsertStep, FindFailedStep,
   RemoveFailedStep, ReplyStep
DEF HandlerStep

LEMMA StepHolds == IInv /\ [Next]_vars => IInv'
<1>. SUFFICES ASSUME IInv, [Next]_vars PROVE IInv'
  OBVIOUS
<1>1. CASE Webhook
  BY <1>1, WebhookStep
<1>2. ASSUME NEW w \in Workers,
             \/ \E n \in TaskNames : Dispatch(w, n)
             \/ HandlerStep(w) \/ Crash(w) \/ Timeout(w)
      PROVE  IInv'
  BY <1>2, DispatchStep, HandlerStepHolds, CrashStep, TimeoutStep
<1>3. CASE Environment
  BY <1>3, EnvironmentStep
<1>4. CASE UNCHANGED vars
  <2>1. UNCHANGED <<tasks, handler>> /\ TypeOK' /\ (Released => Released')
    BY <1>4 DEF vars, IInv, TypeOK, Released
  <2>. QED
    BY <2>1, EnvironmentFrame
<1>. QED
  BY <1>1, <1>2, <1>3, <1>4 DEF Next

\* The inductive invariant: where each handler stands, what every finished
\* task left behind it, and that the checks are 1..k.
THEOREM Invariance == Spec => []IInv
BY InitHolds, StepHolds, PTL DEF Spec

\* Every variable keeps its type: no handler ever asks for a task, a step or
\* a count outside the ranges the code allows.
THEOREM TypeCorrect == Spec => []TypeOK
<1>1. IInv => TypeOK
  BY DEF IInv
<1>. QED
  BY <1>1, Invariance, PTL

\* The checks of a job are one chain whose payloads never ask for more than
\* Reprovisions replacements, however many deliveries overlap, fail or repeat.
THEOREM ChainSafe == Spec => []OneChain
<1>1. IInv => OneChain
  BY DEF IInv
<1>. QED
  BY <1>1, Invariance, PTL

LEMMA WatchedFromInvariant == IInv => QueuedJobWatched
<1>. SUFFICES ASSUME IInv, Taken(tasks, Queued(0)), ~Over
              PROVE  \E n \in TaskNames : Active(tasks, n)
  BY DEF QueuedJobWatched
<1>1. /\ ~Released
      /\ \A n \in TaskNames : Taken(tasks, n) =>
            Active(tasks, n) \/ tasks[n].state = "done"
  BY DEF Over, Released, Exhausted, Taken, Active, IInv, TypeOK, Task,
         TaskStates
<1>2. \A n \in TaskNames : tasks[n].state = "done" => Linked(n)
  BY <1>1 DEF IInv, DoneLinked
<1>3. CASE ~Taken(tasks, Check(1))
  <2>1. Queued(0) \in TaskNames /\ ~IsCheck(Queued(0))
    BY NameTypes
  <2>. QED
    BY <1>1, <1>2, <1>3, <2>1 DEF Linked
<1>4. CASE Taken(tasks, Check(1))
  <2>1. PICK k \in 1..MaxStep : /\ Taken(tasks, Check(k))
                                /\ k < MaxStep => ~Taken(tasks, Check(k + 1))
    BY <1>4 DEF IInv, HasNewest
  <2>2. Check(k) \in TaskNames /\ IsCheck(Check(k)) /\ Step(Check(k)) = k
    BY NameTypes
  <2>3. CASE k = MaxStep
    BY <1>1, <2>1, <2>2, <2>3 DEF IInv, LastNotRun
  <2>4. CASE k # MaxStep
    <3>1. ~Linked(Check(k))
      BY <2>1, <2>2, <2>4, NameTypes DEF Linked
    <3>. QED
      BY <1>1, <1>2, <2>1, <2>2, <3>1
  <2>. QED
    BY <2>3, <2>4
<1>. QED
  BY <1>3, <1>4

\* A job GitHub still has queued is never silently forgotten: with any number
\* of workers and under any of the faults, a task for it is pending unless one
\* ran out of attempts or a handler let go of the job.
THEOREM JobNeverForgotten == Spec => []QueuedJobWatched
BY WatchedFromInvariant, Invariance, PTL

-----------------------------------------------------------------------------
(* The tasks implement the abstract chain *)

\* At most one name is new after a step.
OneNew == \A m, n \in TaskNames :
    ~Taken(tasks, m) /\ Taken(tasks, m)' /\ ~Taken(tasks, n) /\ Taken(tasks, n)'
        => m = n

LEMMA CreateIsOneNew ==
    ASSUME TypeOK, NEW n \in TaskNames, NEW c, ~Taken(tasks, n),
           tasks' = Created(tasks, n, c)
    PROVE  Grows /\ OneNew
<1>1. \A m \in TaskNames : m # n => tasks'[m] = tasks[m]
  BY DEF Created, TypeOK
<1>. QED
  BY <1>1 DEF Grows, OneNew, Taken

LEMMA AttemptIsOneNew ==
    ASSUME NEW n \in TaskNames, Attempted(n)
    PROVE  Grows /\ OneNew
BY DEF Attempted, Grows, OneNew, Taken

LEMMA UnchangedIsOneNew == ASSUME UNCHANGED tasks PROVE Grows /\ OneNew
BY DEF Grows, OneNew, Taken

LEMMA ScheduledIsOneNew ==
    ASSUME TypeOK, NEW k \in 1..MaxStep, NEW c, Scheduled(k, c)
    PROVE  Grows /\ OneNew
BY CreateIsOneNew, UnchangedIsOneNew, NameTypes DEF Scheduled

LEMMA StepIsOneNew == IInv /\ [Next]_vars => Grows /\ OneNew
<1>. SUFFICES ASSUME IInv, [Next]_vars PROVE Grows /\ OneNew
  OBVIOUS
<1>1. TypeOK
  BY DEF IInv
<1>2. CASE Webhook
  <2>1. 0 \in 0..MaxWindow /\ window \in 0..MaxWindow
    BY <1>1, NameTypes DEF TypeOK
  <2>2. PICK k \in 0..MaxWindow : ~Taken(tasks, Queued(k))
                                  /\ tasks' = Created(tasks, Queued(k), 0)
    BY <1>2, <2>1 DEF Webhook
  <2>. QED
    BY <1>1, <2>2, CreateIsOneNew, NameTypes
<1>3. ASSUME NEW w \in Workers, NEW n \in TaskNames, Dispatch(w, n)
      PROVE  Grows /\ OneNew
  BY <1>3, DispatchedAttempt, AttemptIsOneNew DEF Dispatch
<1>4. ASSUME NEW w \in Workers, Reply(w) \/ Crash(w) \/ Timeout(w)
      PROVE  Grows /\ OneNew
  <2>1. ~At(w, "idle")
    BY <1>4 DEF Reply, Crash, Timeout, IInv, HandlersOK, HandlerOK, At
  <2>2. PICK n \in TaskNames : n = handler[w].task
    BY <2>1, RequestTask
  <2>3. Taken(tasks, n)
    BY <2>1, <2>2, RequestTask
  <2>4. \/ UNCHANGED tasks
        \/ tasks' = Failed(tasks, n)
        \/ tasks' = Acknowledged(tasks, n)
    BY <1>4, <2>2 DEF Reply, Crash, Timeout
  <2>. QED
    BY <1>1, <2>3, <2>4, FailedAttempt, AcknowledgedAttempt, AttemptIsOneNew,
       UnchangedIsOneNew
<1>5. ASSUME NEW w \in Workers, ScheduleFirst(w) PROVE Grows /\ OneNew
  BY <1>1, <1>5, ScheduledIsOneNew, UnchangedIsOneNew, NameTypes
  DEF ScheduleFirst
<1>6. ASSUME NEW w \in Workers, ScheduleNext(w) PROVE Grows /\ OneNew
  <2>1. HandlerOK(w) /\ At(w, "scheduleNext") /\ ~At(w, "idle")
    BY <1>6 DEF ScheduleNext, IInv, HandlersOK, At
  <2>2. IsCheck(handler[w].task)
    BY <2>1 DEF HandlerOK, At, CheckPCs
  <2>3. Step(handler[w].task) + 1 \in 1..MaxStep
    BY <2>1, <2>2, RequestTask, NameTypes
  <2>4. (\E c : Scheduled(Step(handler[w].task) + 1, c)) \/ UNCHANGED tasks
    BY <1>6 DEF ScheduleNext
  <2>. QED
    BY <1>1, <2>3, <2>4, ScheduledIsOneNew, UnchangedIsOneNew
<1>7. ASSUME NEW w \in Workers, HandlerStep(w), ~ScheduleFirst(w),
             ~ScheduleNext(w), ~Reply(w)
      PROVE  UNCHANGED tasks
  BY <1>7 DEF HandlerStep, LeftQueue, Resolve, FailRun, Status, FindChecked,
     FindVM, FindRunner, RemoveRunner, Register, Insert, FindFailed,
     RemoveFailed
<1>8. CASE Environment \/ UNCHANGED vars
  <2>1. UNCHANGED tasks
    BY <1>8 DEF vars, Environment, Assign, Finish, Stop, Vanish, RunnerLost,
                JobMoves, Clock
  <2>. QED
    BY <2>1, UnchangedIsOneNew
<1>. QED
  BY <1>2, <1>3, <1>4, <1>5, <1>6, <1>7, <1>8, UnchangedIsOneNew
  DEF Next, HandlerStep

\* The newest check is the one after which none exists.
NewestRule ==
    NoGap => /\ ~Taken(tasks, Check(1)) => Newest = 0 /\ NewestCount = 0
             /\ \A k \in 1..MaxStep :
                   /\ Taken(tasks, Check(k))
                   /\ k < MaxStep => ~Taken(tasks, Check(k + 1))
                   => Newest = k /\ NewestCount = tasks[Check(k)].count

LEMMA NewestIs == NewestRule
<1>1. ASSUME NoGap, ~Taken(tasks, Check(1))
      PROVE  Newest = 0 /\ NewestCount = 0
  <2>1. StepsTaken = {}
    BY <1>1, NameTypes DEF NoGap, StepsTaken
  <2>. QED
    BY <2>1 DEF Newest, NewestCount
<1>2. ASSUME NoGap, NEW k \in 1..MaxStep, Taken(tasks, Check(k)),
             k < MaxStep => ~Taken(tasks, Check(k + 1))
      PROVE  Newest = k /\ NewestCount = tasks[Check(k)].count
  <2>1. k \in StepsTaken
    BY <1>2 DEF StepsTaken
  <2>2. \A i \in StepsTaken : i <= k
    <3>. SUFFICES ASSUME NEW i \in StepsTaken, i > k PROVE FALSE
      BY NameTypes DEF StepsTaken
    <3>1. i \in 1..MaxStep /\ Taken(tasks, Check(i)) /\ k + 1 \in 1..MaxStep
      BY NameTypes DEF StepsTaken
    <3>. QED
      BY <1>2, <3>1, NameTypes DEF NoGap
  <2>3. \A j \in StepsTaken : (\A i \in StepsTaken : i <= j) => j = k
    BY <2>1, <2>2, NameTypes DEF StepsTaken
  <2>4. Newest = k
    BY <2>1, <2>2, <2>3 DEF Newest
  <2>. QED
    BY <2>1, <2>4 DEF NewestCount
<1>. QED
  BY <1>1, <1>2 DEF NewestRule

LEMMA InitRefines == Init => Chain!Init
<1>. SUFFICES ASSUME Init PROVE Newest = 0 /\ NewestCount = 0
  BY DEF Chain!Init
<1>1. ~Taken(tasks, Check(1)) /\ NoGap
  BY NameTypes DEF Init, Taken, NoTask, NoGap
<1>. QED
  BY <1>1, NewestIs DEF NewestRule

LEMMA StepRefines ==
    IInv /\ IInv' /\ [Next]_vars => [Chain!Next]_<<Newest, NewestCount>>
<1>. SUFFICES ASSUME IInv, IInv', Grows, OneNew
              PROVE  [Chain!Next]_<<Newest, NewestCount>>
  BY StepIsOneNew
<1>1. NoGap /\ NoGap' /\ HasNewest /\ HasNewest' /\ OneChain'
  BY DEF IInv
<1>. NewestRule /\ NewestRule'
  BY NewestIs, PTL
<1>2. CASE ~Taken(tasks, Check(1))'
  <2>1. ~Taken(tasks, Check(1))
    BY <1>2, NameTypes DEF Grows
  <2>2. Newest = 0 /\ NewestCount = 0
    BY <1>1, <2>1 DEF NewestRule
  <2>3. Newest' = 0 /\ NewestCount' = 0
    BY <1>1, <1>2 DEF NewestRule
  <2>. QED
    BY <2>2, <2>3
<1>3. CASE Taken(tasks, Check(1))'
  <2>1. PICK k \in 1..MaxStep :
           /\ Taken(tasks, Check(k))'
           /\ k < MaxStep => ~Taken(tasks, Check(k + 1))'
    BY <1>1, <1>3 DEF HasNewest
  <2>2. Newest' = k /\ NewestCount' = tasks'[Check(k)].count
    BY <1>1, <2>1 DEF NewestRule
  <2>3. Check(k) \in TaskNames /\ (k > 1 => k - 1 \in 1..MaxStep)
        /\ (k > 1 => Check(k - 1) \in TaskNames /\ Check(k - 1) # Check(k))
        /\ (k < MaxStep => k + 1 \in 1..MaxStep /\ Check(k + 1) \in TaskNames)
    BY NameTypes
  <2>4. CASE Taken(tasks, Check(k))
    <3>1. k < MaxStep => ~Taken(tasks, Check(k + 1))
      BY <2>1, <2>3 DEF Grows
    <3>2. Newest = k /\ NewestCount = tasks[Check(k)].count
      BY <1>1, <2>4, <3>1 DEF NewestRule
    <3>3. tasks'[Check(k)].count = tasks[Check(k)].count
      BY <2>3, <2>4 DEF Grows
    <3>. QED
      BY <2>2, <3>2, <3>3
  <2>5. CASE ~Taken(tasks, Check(k)) /\ k = 1
    <3>1. Newest = 0 /\ NewestCount = 0
      BY <1>1, <2>5 DEF NewestRule
    <3>2. NewestCount' = 0
      BY <1>1, <2>1, <2>2, <2>5 DEF OneChain
    <3>. QED
      BY <2>2, <2>5, <3>1, <3>2 DEF Chain!Next, Chain!Start
  <2>6. CASE ~Taken(tasks, Check(k)) /\ k > 1
    <3>1. /\ Taken(tasks, Check(k - 1))'
          /\ tasks'[Check(k)].count - tasks'[Check(k - 1)].count \in {0, 1}
          /\ tasks'[Check(k)].count <= Reprovisions
      BY <1>1, <2>1, <2>6 DEF OneChain
    <3>2. Taken(tasks, Check(k - 1))
      BY <2>1, <2>3, <2>6, <3>1 DEF OneNew
    <3>3. tasks'[Check(k - 1)].count = tasks[Check(k - 1)].count
      BY <2>3, <2>6, <3>2 DEF Grows
    <3>4. PICK j \in 1..MaxStep : j = k - 1
      BY <2>3, <2>6
    <3>5. Newest = j /\ NewestCount = tasks[Check(j)].count
      <4>1. j + 1 = k
        BY <3>4
      <4>. QED
        BY <1>1, <2>6, <3>2, <3>4, <4>1 DEF NewestRule
    <3>6. /\ tasks[Check(j)].count \in Nat /\ tasks'[Check(k)].count \in Nat
          /\ Reprovisions \in Nat
      BY <2>3, <2>6, <3>4, NameTypes DEF IInv, TypeOK, Task
    <3>7. \/ NewestCount' = NewestCount
          \/ NewestCount < Reprovisions /\ NewestCount' = NewestCount + 1
      BY <2>2, <3>1, <3>3, <3>4, <3>5, <3>6
    <3>8. Newest > 0 /\ Newest' = Newest + 1
      BY <2>2, <3>4, <3>5
    <3>. QED
      BY <3>7, <3>8 DEF Chain!Next, Chain!Extend
  <2>. QED
    BY <2>4, <2>5, <2>6
<1>. QED
  BY <1>2, <1>3

\* The queue, the handlers and every fault of the environment together
\* implement the abstract chain: links are added one at a time, in order, and
\* count replacements one at a time up to Reprovisions.
THEOREM ImplementsChain == Spec => ChainSpec
<1>1. Spec => []IInv
  BY Invariance
<1>. QED
  BY <1>1, InitRefines, StepRefines, PTL DEF Spec, ChainSpec, Chain!Spec

-----------------------------------------------------------------------------
(* Every VM a check creates is counted *)

\* An attempt at n was delivered.
Begun(n) == \/ tasks[n].state \in {"running", "done", "exhausted"}
            \/ tasks[n].state = "due" /\ tasks[n].attempts > 0

BeforeInsert == CheckPCs \cup {"findVM", "findRunner", "removeRunner",
                               "register", "insert"}

\* Workers that may still create a VM for a check, and those of them whose
\* check has its successor, with the count it will keep.
Replacing == {w \in Workers : /\ IsCheck(handler[w].task)
                              /\ handler[w].pc \in BeforeInsert}
Settled   == {w \in Replacing : Linked(handler[w].task)}

\* The newest check, once it was delivered: its successor may count one more.
Open  == {k \in 1 .. (MaxStep - 1) : /\ Begun(Check(k))
                                     /\ ~Taken(tasks, Check(k + 1))}
Spare == IF Open = {} THEN 0 ELSE 1

AttemptsCount ==
    /\ \A n \in TaskNames : tasks[n].state = "running" => tasks[n].attempts > 0
    /\ \A k \in 1..MaxStep : k > 1 /\ Taken(tasks, Check(k))
                                => Begun(Check(k - 1))
    /\ \A w \in Workers : ~At(w, "idle") => Begun(handler[w].task)

Covered == /\ replaced \in Nat /\ repeats \in Nat
           /\ IsFiniteSet(Replacing)
           /\ replaced + Cardinality(Replacing) <= NewestCount + repeats + Spare
           /\ replaced + Cardinality(Settled) <= NewestCount + repeats

RInv == IInv /\ AttemptsCount /\ Covered

\* A call that took effect and was reported failed lets one attempt create a
\* VM in several zones; without that, or in one zone, it creates one at most.
OneInsertPerAttempt == "lostReply" \notin Faults \/ \A y, z \in Zones : y = z

\* An attempt that was delivered stays so.
BegunStays == \A n \in TaskNames : Begun(n) => Begun(n)'

LEMMA AttemptBegins ==
    ASSUME TypeOK, AttemptsCount, NEW n \in TaskNames,
           \/ tasks' = Dispatched(tasks, n) /\ tasks[n].attempts < MaxAttempts
           \/ /\ tasks[n].state = "running"
              /\ tasks' = Failed(tasks, n) \/ tasks' = Acknowledged(tasks, n)
    PROVE  /\ Begun(n)'
           /\ tasks'[n].state = "running" => tasks'[n].attempts > 0
<1>1. /\ tasks[n] \in Task /\ tasks[n].attempts \in Nat
      /\ tasks[n].state = "running" => tasks[n].attempts > 0
  BY MaxAttemptsAssumption DEF TypeOK, Task, AttemptsCount
<1>2. CASE tasks' = Dispatched(tasks, n)
  <2>1. tasks'[n] = [tasks[n] EXCEPT !.state = "running", !.attempts = @ + 1]
    BY <1>2 DEF Dispatched, TypeOK
  <2>2. /\ tasks'[n].attempts = tasks[n].attempts + 1
        /\ tasks'[n].state = "running"
    BY <1>1, <2>1 DEF Task
  <2>. QED
    BY <1>1, <2>2 DEF Begun
<1>3. CASE tasks' = Acknowledged(tasks, n)
  <2>1. tasks'[n] = [tasks[n] EXCEPT !.state = "done", !.attempts = 0]
    BY <1>3 DEF Acknowledged, TypeOK
  <2>2. tasks'[n].state = "done"
    BY <1>1, <2>1 DEF Task
  <2>. QED
    BY <2>2 DEF Begun
<1>4. CASE tasks' = Failed(tasks, n) /\ tasks[n].state = "running"
  <2>1. \/ tasks'[n] = [tasks[n] EXCEPT !.state = "due"]
        \/ tasks'[n] = [tasks[n] EXCEPT !.state = "exhausted", !.attempts = 0]
    BY <1>4 DEF Failed, TypeOK
  <2>2. \/ tasks'[n].state = "due" /\ tasks'[n].attempts = tasks[n].attempts
        \/ tasks'[n].state = "exhausted"
    BY <1>1, <2>1 DEF Task
  <2>. QED
    BY <1>1, <1>4, <2>2 DEF Begun
<1>. QED
  BY <1>2, <1>3, <1>4

\* The queue changes at the name n only, and there an attempt begins or ends.
LEMMA AttemptCounts ==
    ASSUME TypeOK, AttemptsCount, NEW n \in TaskNames, Attempted(n),
           Begun(n)', tasks'[n].state = "running" => tasks'[n].attempts > 0
    PROVE  /\ BegunStays
           /\ \A m \in TaskNames : tasks'[m].state = "running"
                                      => tasks'[m].attempts > 0
           /\ \A k \in 1..MaxStep : k > 1 /\ Taken(tasks, Check(k))'
                                       => Begun(Check(k - 1))'
<1>1. BegunStays
  BY DEF BegunStays, Attempted, Begun
<1>2. \A m \in TaskNames : tasks'[m].state = "running" => tasks'[m].attempts > 0
  BY DEF AttemptsCount, Attempted
<1>3. ASSUME NEW k \in 1..MaxStep, k > 1, Taken(tasks, Check(k))'
      PROVE  Begun(Check(k - 1))'
  <2>1. /\ k - 1 \in 1..MaxStep /\ Check(k) \in TaskNames
        /\ Check(k - 1) \in TaskNames
    BY <1>3, NameTypes
  <2>2. Taken(tasks, Check(k))
    BY <1>3, <2>1 DEF Attempted, Taken
  <2>. QED
    BY <1>1, <1>3, <2>1, <2>2 DEF AttemptsCount, BegunStays
<1>. QED
  BY <1>1, <1>2, <1>3

\* Task k is created, by a handler of its predecessor.
LEMMA CreationCounts ==
    ASSUME TypeOK, AttemptsCount, NEW n \in TaskNames, ~Taken(tasks, n),
           NEW c \in Nat, tasks' = Created(tasks, n, c),
           \A k \in 1..MaxStep : k > 1 /\ n = Check(k) => Begun(Check(k - 1))
    PROVE  /\ BegunStays
           /\ \A m \in TaskNames : tasks'[m].state = "running"
                                      => tasks'[m].attempts > 0
           /\ \A k \in 1..MaxStep : k > 1 /\ Taken(tasks, Check(k))'
                                       => Begun(Check(k - 1))'
<1>1. /\ tasks'[n].state = "due"
      /\ \A m \in TaskNames : m # n => tasks'[m] = tasks[m]
  BY DEF Created, TypeOK
<1>2. BegunStays
  <2>. SUFFICES ASSUME NEW m \in TaskNames, Begun(m) PROVE Begun(m)'
    BY DEF BegunStays
  <2>1. m # n
    BY DEF Begun, Taken
  <2>. QED
    BY <1>1, <2>1 DEF Begun
<1>3. \A m \in TaskNames : tasks'[m].state = "running" => tasks'[m].attempts > 0
  BY <1>1 DEF AttemptsCount
<1>4. ASSUME NEW k \in 1..MaxStep, k > 1, Taken(tasks, Check(k))'
      PROVE  Begun(Check(k - 1))'
  <2>1. /\ k - 1 \in 1..MaxStep /\ Check(k) \in TaskNames
        /\ Check(k - 1) \in TaskNames
    BY <1>4, NameTypes
  <2>2. Begun(Check(k - 1))
    BY <1>1, <1>4, <2>1 DEF AttemptsCount, Taken
  <2>. QED
    BY <1>2, <2>1, <2>2 DEF BegunStays
<1>. QED
  BY <1>2, <1>3, <1>4

\* A step of a worker within its request, as far as replacements go.
Carries(w) ==
    /\ \A v \in Workers : v # w => handler'[v] = handler[v]
    /\ handler'[w].task = handler[w].task
    /\ handler'[w].pc \in BeforeInsert =>
           handler[w].pc \in BeforeInsert \/ ~IsCheck(handler[w].task)
    /\ handler'[w].pc # "idle" /\ handler[w].pc # "idle"

\* What Goto, Done and Turn leave in the record of the worker.
LEMMA StepCarries ==
    ASSUME TypeOK, NEW w \in Workers, ~At(w, "idle"),
           NEW pc \in PCs \ {"idle"},
           pc \in BeforeInsert => \/ handler[w].pc \in BeforeInsert
                                  \/ ~IsCheck(handler[w].task),
           NEW out \in Outcomes, NEW left \in SUBSET Zones,
           \/ Goto(w, pc)
           \/ pc = "reply" /\ Done(w, out)
           \/ Turn(w, pc, out, left)
    PROVE  Carries(w)
<1>1. Moves(w) /\ handler'[w].pc = pc
  BY GotoMoves, DoneMoves, TurnMoves
<1>. QED
  BY <1>1 DEF Carries, Moves, At

LEMMA ProvisionedCarries ==
    ASSUME TypeOK, NEW w \in Workers, ~At(w, "idle"), Provisioned(w)
    PROVE  Carries(w) /\ handler'[w].pc \notin BeforeInsert
<1>1. PICK pc \in {"reply", "scheduleFirst"} :
         Goto(w, pc) \/ (pc = "reply" /\ Done(w, "ok"))
  BY DEF Provisioned
<1>2. pc \in PCs \ {"idle"} /\ "ok" \in Outcomes /\ pc \notin BeforeInsert
  BY DEF PCs, Outcomes, BeforeInsert, CheckPCs
<1>3. Moves(w) /\ handler'[w].pc = pc
  BY <1>1, <1>2, GotoMoves, DoneMoves
<1>. QED
  BY <1>2, <1>3 DEF Carries, Moves, At

LEMMA ProvisionFailedCarries ==
    ASSUME TypeOK, NEW w \in Workers, ~At(w, "idle"), NEW out \in Outcomes,
           ProvisionFailed(w, out)
    PROVE  Carries(w)
<1>1. PICK pc \in {"reply", "failRun"}, o \in Outcomes :
         Goto(w, pc) \/ (pc = "reply" /\ Done(w, o))
  BY DEF ProvisionFailed, Outcomes
<1>2. pc \in PCs \ {"idle"} /\ pc \notin BeforeInsert
  BY DEF PCs, BeforeInsert, CheckPCs
<1>. QED
  BY <1>1, <1>2, StepCarries

\* What the steps of a request leave unchanged for replacements: a worker is
\* not before its insertion unless it was, for the same check.
LEMMA RequestCarries ==
    ASSUME IInv, NEW w \in Workers, HandlerStep(w), ~Reply(w)
    PROVE  Carries(w)
<1>. USE DEF BeforeInsert, CheckPCs, PCs, Outcomes
<1>1. /\ TypeOK /\ HandlerOK(w) /\ handler[w] \in Handler
      /\ handler[w].left \subseteq Zones /\ handler[w].out \in Outcomes
  BY DEF IInv, TypeOK, HandlersOK, Handler
<1>2. ~At(w, "idle")
  BY DEF HandlerStep, LeftQueue, Resolve, FailRun, ScheduleFirst, Status,
         FindChecked, ScheduleNext, FindVM, FindRunner, RemoveRunner, Register,
         Insert, FindFailed, RemoveFailed, Reply, At
<1>3. handler[w].pc \in QueuePCs => ~IsCheck(handler[w].task)
  BY <1>1 DEF HandlerOK
<1>4. ASSUME CallFails(w) PROVE Carries(w)
  BY <1>1, <1>2, <1>4, StepCarries DEF CallFails
<1>5. ASSUME Done(w, "ok") \/ Done(w, "error") PROVE Carries(w)
  BY <1>1, <1>2, <1>5, StepCarries
<1>6. ASSUME Provisioned(w) PROVE Carries(w)
  BY <1>1, <1>2, <1>6, ProvisionedCarries
<1>7. ASSUME NEW out \in Outcomes, ProvisionFailed(w, out) PROVE Carries(w)
  BY <1>1, <1>2, <1>7, ProvisionFailedCarries
<1>8. CASE LeftQueue(w)
  <2>1. ~IsCheck(handler[w].task)
    BY <1>3, <1>8 DEF LeftQueue, At, QueuePCs
  <2>2. Goto(w, "resolve") => Carries(w)
    BY <1>1, <1>2, StepCarries
  <2>. QED
    BY <1>4, <1>5, <1>8, <2>2 DEF LeftQueue
<1>9. CASE Resolve(w)
  <2>1. ~IsCheck(handler[w].task)
    BY <1>3, <1>9 DEF Resolve, At, QueuePCs
  <2>2. Goto(w, "findVM") \/ Goto(w, "failRun") => Carries(w)
    BY <1>1, <1>2, <2>1, StepCarries
  <2>. QED
    BY <1>4, <1>9, <2>2 DEF Resolve
<1>10. CASE FailRun(w)
  BY <1>4, <1>5, <1>10 DEF FailRun
<1>11. CASE ScheduleFirst(w)
  BY <1>4, <1>5, <1>11 DEF ScheduleFirst
<1>12. CASE Status(w)
  <2>1. Goto(w, "findChecked") => Carries(w)
    BY <1>1, <1>2, <1>12, StepCarries DEF Status, At
  <2>. QED
    BY <1>4, <1>5, <1>12, <2>1 DEF Status
<1>13. CASE FindChecked(w)
  <2>1. ASSUME NEW gone \in BOOLEAN,
               handler' = [handler EXCEPT ![w].pc = "scheduleNext",
                                          ![w].gone = gone]
        PROVE  Carries(w)
    <3>1. handler'[w] = [handler[w] EXCEPT !.pc = "scheduleNext", !.gone = gone]
      BY <1>1, <2>1 DEF TypeOK
    <3>2. handler'[w].task = handler[w].task /\ handler'[w].pc = "scheduleNext"
      BY <1>1, <3>1 DEF Handler
    <3>3. \A v \in Workers : v # w => handler'[v] = handler[v]
      BY <1>1, <2>1 DEF TypeOK
    <3>. QED
      BY <1>13, <3>2, <3>3 DEF Carries, FindChecked, At
  <2>. QED
    BY <1>4, <1>5, <1>13, <2>1 DEF FindChecked
<1>14. CASE ScheduleNext(w)
  <2>1. Goto(w, "findVM") => Carries(w)
    BY <1>1, <1>2, <1>14, StepCarries DEF ScheduleNext, At
  <2>. QED
    BY <1>4, <1>5, <1>14, <2>1 DEF ScheduleNext
<1>15. CASE FindVM(w)
  <2>1. Goto(w, "findRunner") => Carries(w)
    BY <1>1, <1>2, <1>15, StepCarries DEF FindVM, At
  <2>. QED
    BY <1>6, <1>7, <1>15, <2>1 DEF FindVM
<1>16. CASE FindRunner(w)
  <2>1. Goto(w, "register") \/ Goto(w, "removeRunner") => Carries(w)
    BY <1>1, <1>2, <1>16, StepCarries DEF FindRunner, At
  <2>. QED
    BY <1>7, <1>16, <2>1 DEF FindRunner
<1>17. CASE RemoveRunner(w)
  <2>1. Goto(w, "register") => Carries(w)
    BY <1>1, <1>2, <1>17, StepCarries DEF RemoveRunner, At
  <2>. QED
    BY <1>7, <1>17, <2>1 DEF RemoveRunner
<1>18. CASE Register(w)
  <2>1. Turn(w, "insert", "none", Zones) => Carries(w)
    BY <1>1, <1>2, <1>18, StepCarries DEF Register, At
  <2>. QED
    BY <1>7, <1>18, <2>1 DEF Register
<1>19. ASSUME NEW z \in Zones, Insert(w, z) PROVE Carries(w)
  <2>1. handler[w].pc \in BeforeInsert
    BY <1>19 DEF Insert, At
  <2>2. ASSUME NEW pc \in {"insert", "findFailed"}, NEW out \in Outcomes,
               NEW left \in SUBSET Zones, Turn(w, pc, out, left)
        PROVE  Carries(w)
    BY <1>1, <1>2, <2>1, <2>2, StepCarries
  <2>3. ASSUME NEW soft \in BOOLEAN, SkipZone(w, z, soft) PROVE Carries(w)
    <3>1. \E pc \in {"insert", "findFailed"}, out \in Outcomes,
             left \in SUBSET Zones : Turn(w, pc, out, left)
      BY <1>1, <2>3 DEF SkipZone
    <3>. QED
      BY <2>2, <3>1
  <2>4. \A out \in {"error", "permanent"} :
           Turn(w, "findFailed", out, {}) => Carries(w)
    BY <2>2
  <2>. QED
    BY <1>6, <1>19, <2>3, <2>4 DEF Insert
<1>20. CASE FindFailed(w)
  <2>1. Goto(w, "removeFailed") => Carries(w)
    BY <1>1, <1>2, StepCarries
  <2>. QED
    BY <1>1, <1>7, <1>20, <2>1 DEF FindFailed
<1>21. CASE RemoveFailed(w)
  BY <1>1, <1>7, <1>21 DEF RemoveFailed
<1>. QED
  BY <1>8, <1>9, <1>10, <1>11, <1>12, <1>13, <1>14, <1>15, <1>16, <1>17, <1>18,
     <1>19, <1>20, <1>21 DEF HandlerStep

\* Nothing is created in the queue but a queued task or the first check.
NoSuccessor == \A k \in 1..MaxStep : k > 1 /\ Taken(tasks, Check(k))'
                                        => Taken(tasks, Check(k))

LEMMA SpareGrows ==
    ASSUME BegunStays, NoSuccessor
    PROVE  /\ Open \subseteq Open'
           /\ Spare \in {0, 1} /\ Spare' \in {0, 1} /\ Spare <= Spare'
<1>1. \A k \in 1 .. (MaxStep - 1) : Check(k) \in TaskNames /\ k + 1 \in 1..MaxStep
                                    /\ k + 1 > 1
  BY NameTypes
<1>2. Open \subseteq Open'
  BY <1>1 DEF Open, BegunStays, NoSuccessor
<1>. QED
  BY <1>2 DEF Spare

\* The successor of a check that is handled.
LEMMA SuccessorIndex ==
    ASSUME IInv, NEW v \in Workers, ~At(v, "idle"), IsCheck(handler[v].task)
    PROVE  \E k \in 1..MaxStep : k > 1 /\ k = Step(handler[v].task) + 1
<1>1. PICK n \in TaskNames : n = handler[v].task
  BY RequestTask
<1>2. IsCheck(n) /\ n # Check(MaxStep)
  BY <1>1, RequestTask
<1>3. Step(n) \in 1..MaxStep /\ n = Check(Step(n))
  BY <1>2, NameTypes
<1>4. Step(n) + 1 \in 1..MaxStep /\ Step(n) + 1 > 1
  BY <1>2, <1>3, NameTypes
<1>. QED
  BY <1>1, <1>4

\* A worker before its insertion is settled only if it was, unless a
\* successor was created.
LEMMA WasSettled ==
    ASSUME IInv, NoSuccessor, NEW v \in Settled', v \in Replacing,
           handler'[v].task = handler[v].task
    PROVE  v \in Settled
<1>1. /\ v \in Workers /\ Linked(handler[v].task)' /\ ~At(v, "idle")
      /\ IsCheck(handler[v].task)
  BY DEF Settled, Replacing, BeforeInsert, CheckPCs, At
<1>2. PICK k \in 1..MaxStep : k > 1 /\ k = Step(handler[v].task) + 1
  BY <1>1, SuccessorIndex
<1>3. Taken(tasks, Check(k))'
  BY <1>1, <1>2 DEF Linked
<1>4. Taken(tasks, Check(k))
  BY <1>2, <1>3 DEF NoSuccessor
<1>. QED
  BY <1>1, <1>2, <1>4 DEF Settled, Linked

\* A step of one worker that does not enter the part before its insertion.
LEMMA SettledStays ==
    ASSUME IInv, NoSuccessor, NEW w \in Workers,
           \A v \in Workers : v # w => handler'[v] = handler[v],
           w \in Replacing' =>
              w \in Replacing /\ handler'[w].task = handler[w].task
    PROVE  Replacing' \subseteq Replacing /\ Settled' \subseteq Settled
<1>1. \A v \in Replacing' : /\ v \in Replacing
                            /\ handler'[v].task = handler[v].task
  BY DEF Replacing
<1>. QED
  BY <1>1, WasSettled DEF Settled

LEMMA Smaller ==
    ASSUME NEW S, IsFiniteSet(S), NEW T \in SUBSET S
    PROVE  /\ IsFiniteSet(T) /\ Cardinality(T) \in Nat /\ Cardinality(S) \in Nat
           /\ Cardinality(T) <= Cardinality(S)
BY FS_Subset, FS_CardinalityType

LEMMA SmallerByOne ==
    ASSUME NEW S, IsFiniteSet(S), NEW x \in S, NEW T \in SUBSET (S \ {x})
    PROVE  /\ IsFiniteSet(T) /\ Cardinality(T) \in Nat /\ Cardinality(S) \in Nat
           /\ Cardinality(T) + 1 <= Cardinality(S)
<1>1. IsFiniteSet(S \ {x}) /\ Cardinality(S \ {x}) = Cardinality(S) - 1
  BY FS_RemoveElement
<1>2. /\ IsFiniteSet(T) /\ Cardinality(T) \in Nat
      /\ Cardinality(T) <= Cardinality(S \ {x})
  BY <1>1, Smaller
<1>3. Cardinality(S) \in Nat
  BY FS_CardinalityType
<1>. QED
  BY <1>1, <1>2, <1>3

LEMMA LargerByOne ==
    ASSUME NEW S, IsFiniteSet(S), NEW x, NEW T \in SUBSET (S \cup {x})
    PROVE  /\ IsFiniteSet(T) /\ Cardinality(T) \in Nat /\ Cardinality(S) \in Nat
           /\ Cardinality(T) <= Cardinality(S) + 1
<1>1. /\ IsFiniteSet(S \cup {x}) /\ Cardinality(S) \in Nat
      /\ Cardinality(S \cup {x}) \in {Cardinality(S), Cardinality(S) + 1}
  BY FS_AddElement, FS_CardinalityType
<1>2. /\ IsFiniteSet(T) /\ Cardinality(T) \in Nat
      /\ Cardinality(T) <= Cardinality(S \cup {x})
  BY <1>1, Smaller
<1>. QED
  BY <1>1, <1>2

LEMMA CountType == IInv => NewestCount \in Nat
<1>. SUFFICES ASSUME IInv PROVE NewestCount \in Nat
  OBVIOUS
<1>1. CASE Taken(tasks, Check(1))
  <2>1. PICK k \in 1..MaxStep : /\ Taken(tasks, Check(k))
                                /\ k < MaxStep => ~Taken(tasks, Check(k + 1))
    BY <1>1 DEF IInv, HasNewest
  <2>2. NewestCount = tasks[Check(k)].count
    BY <2>1, NewestIs DEF NewestRule, IInv
  <2>3. tasks[Check(k)] \in Task
    BY NameTypes DEF IInv, TypeOK
  <2>. QED
    BY <2>2, <2>3 DEF Task
<1>2. CASE ~Taken(tasks, Check(1))
  BY <1>2, NewestIs DEF NewestRule, IInv
<1>. QED
  BY <1>1, <1>2

\* The newest payload never counts less after a step than before it.
LEMMA CountGrows ==
    ASSUME IInv, IInv', [Next]_vars
    PROVE  /\ NewestCount \in Nat /\ NewestCount' \in Nat
           /\ NewestCount <= NewestCount'
<1>1. NewestCount \in Nat
  BY CountType
<1>2. NewestCount' \in {NewestCount, NewestCount + 1}
  BY <1>1, StepRefines DEF Chain!Next, Chain!Start, Chain!Extend
<1>. QED
  BY <1>1, <1>2

\* A step that neither creates a VM for a check nor schedules a successor nor
\* delivers a check.
LEMMA QuietCovered ==
    ASSUME IInv, IInv', [Next]_vars, Covered, BegunStays, NoSuccessor,
           Replacing' \subseteq Replacing, Settled' \subseteq Settled,
           replaced' = replaced, repeats' \in {repeats, repeats + 1}
    PROVE  Covered'
<1>1. /\ IsFiniteSet(Replacing) /\ replaced \in Nat /\ repeats \in Nat
      /\ Settled \subseteq Replacing
  BY DEF Covered, Settled
<1>2. /\ IsFiniteSet(Replacing') /\ Cardinality(Replacing') \in Nat
      /\ Cardinality(Replacing) \in Nat
      /\ Cardinality(Replacing') <= Cardinality(Replacing)
  BY <1>1, Smaller
<1>3. /\ Cardinality(Settled') \in Nat /\ Cardinality(Settled) \in Nat
      /\ Cardinality(Settled') <= Cardinality(Settled)
  <2>1. IsFiniteSet(Settled)
    BY <1>1, Smaller
  <2>. QED
    BY <2>1, Smaller
<1>4. /\ NewestCount \in Nat /\ NewestCount' \in Nat
      /\ NewestCount <= NewestCount'
      /\ Spare \in {0, 1} /\ Spare' \in {0, 1} /\ Spare <= Spare'
  BY CountGrows, SpareGrows
<1>5. replaced' + Cardinality(Replacing') <= NewestCount' + repeats' + Spare'
  BY <1>1, <1>2, <1>4 DEF Covered
<1>6. replaced' + Cardinality(Settled') <= NewestCount' + repeats'
  BY <1>1, <1>3, <1>4 DEF Covered
<1>7. replaced' \in Nat /\ repeats' \in Nat
  BY <1>1
<1>. QED
  BY <1>2, <1>5, <1>6, <1>7 DEF Covered

\* A VM is created for a check: the worker had its successor counted.
LEMMA InsertCovered ==
    ASSUME IInv, IInv', [Next]_vars, Covered, OneInsertPerAttempt,
           NEW w \in Workers, NEW z \in Zones,
           At(w, "insert"), IsCheck(handler[w].task),
           Insert(w, z), vm'[z] # vm[z],
           replaced' = replaced + 1, repeats' \in {repeats, repeats + 1}
    PROVE  Covered'
<1>1. /\ TypeOK /\ HandlerOK(w) /\ ~At(w, "idle") /\ handler[w] \in Handler
      /\ handler[w].out \in Outcomes /\ handler[w].left \subseteq Zones
  BY DEF IInv, TypeOK, HandlersOK, Handler, At
<1>2. Carries(w)
  BY RequestCarries DEF HandlerStep, Reply, At
<1>3. handler'[w].pc \notin BeforeInsert
  <2>1. \/ Provisioned(w)
        \/ "lostReply" \in Faults /\ SkipZone(w, z, TRUE)
    BY DEF Insert
  <2>2. CASE Provisioned(w)
    BY <1>1, <2>2, ProvisionedCarries
  <2>3. CASE "lostReply" \in Faults /\ SkipZone(w, z, TRUE)
    <3>1. handler[w].left \ {z} = {}
      BY <1>1, <2>3 DEF OneInsertPerAttempt
    <3>2. Turn(w, "findFailed", "error", {})
      BY <2>3, <3>1 DEF SkipZone
    <3>3. handler'[w].pc = "findFailed"
      BY <1>1, <3>2, TurnMoves DEF PCs, Outcomes
    <3>. QED
      BY <3>3 DEF BeforeInsert, CheckPCs
  <2>. QED
    BY <2>1, <2>2, <2>3
<1>4. /\ w \in Settled /\ w \in Replacing
      /\ w \notin Replacing' /\ w \notin Settled'
  BY <1>1, <1>3 DEF HandlerOK, Settled, Replacing, BeforeInsert, At, ProvisionPCs
<1>5. UNCHANGED tasks
  BY DEF Insert
<1>6. NoSuccessor /\ BegunStays
  BY <1>5 DEF NoSuccessor, BegunStays, Begun, Taken
<1>7. Replacing' \subseteq Replacing \ {w} /\ Settled' \subseteq Settled \ {w}
  BY <1>2, <1>4, <1>6, SettledStays DEF Carries
<1>8. /\ IsFiniteSet(Replacing) /\ replaced \in Nat /\ repeats \in Nat
      /\ Settled \subseteq Replacing
  BY DEF Covered, Settled
<1>9. /\ IsFiniteSet(Replacing') /\ Cardinality(Replacing') \in Nat
      /\ Cardinality(Replacing) \in Nat
      /\ Cardinality(Replacing') + 1 <= Cardinality(Replacing)
  BY <1>4, <1>7, <1>8, SmallerByOne
<1>10. /\ Cardinality(Settled') \in Nat /\ Cardinality(Settled) \in Nat
       /\ Cardinality(Settled') + 1 <= Cardinality(Settled)
  <2>1. IsFiniteSet(Settled)
    BY <1>8, Smaller
  <2>. QED
    BY <1>4, <1>7, <2>1, SmallerByOne
<1>11. /\ NewestCount \in Nat /\ NewestCount' \in Nat
       /\ NewestCount <= NewestCount'
       /\ Spare \in {0, 1} /\ Spare' \in {0, 1} /\ Spare <= Spare'
  BY <1>6, CountGrows, SpareGrows
<1>12. replaced' + Cardinality(Replacing') <= NewestCount' + repeats' + Spare'
  BY <1>8, <1>9, <1>11 DEF Covered
<1>13. replaced' + Cardinality(Settled') <= NewestCount' + repeats'
  BY <1>8, <1>10, <1>11 DEF Covered
<1>14. replaced' \in Nat /\ repeats' \in Nat
  BY <1>8
<1>. QED
  BY <1>9, <1>12, <1>13, <1>14 DEF Covered

\* A delivery: the first one of a check opens a spare, another is a repeat.
LEMMA DispatchCovered ==
    ASSUME IInv, IInv', AttemptsCount, Covered,
           NEW w \in Workers, NEW n \in TaskNames, Dispatch(w, n), [Next]_vars,
           BegunStays, Begun(n)', replaced' = replaced,
           repeats' = repeats
               + (IF IsCheck(n) /\ tasks[n].attempts > 0 THEN 1 ELSE 0)
    PROVE  Covered'
<1>1. /\ TypeOK /\ n # Check(MaxStep) /\ tasks[n].state = "due"
      /\ tasks[n].attempts < MaxAttempts /\ tasks' = Dispatched(tasks, n)
      /\ tasks[n].attempts \in Nat
  BY MaxAttemptsAssumption DEF Dispatch, IInv, AttemptsLeft, TypeOK, Task
<1>2. Attempted(n)
  BY <1>1, DispatchedAttempt
<1>3. NoSuccessor
  BY <1>2, NameTypes DEF NoSuccessor, Attempted, Taken
<1>4. /\ \A v \in Workers : v # w => handler'[v] = handler[v]
      /\ handler'[w].task = n
      /\ handler'[w].pc = IF IsCheck(n) THEN "status" ELSE "leftQueue"
  BY DEF Dispatch, IInv, TypeOK, Idle
<1>5. /\ IsFiniteSet(Replacing) /\ replaced \in Nat /\ repeats \in Nat
      /\ Settled \subseteq Replacing /\ IsFiniteSet(Settled)
      /\ Cardinality(Replacing) \in Nat /\ Cardinality(Settled) \in Nat
  <2>1. IsFiniteSet(Replacing) /\ Settled \subseteq Replacing
    BY DEF Covered, Settled
  <2>. QED
    BY <2>1, Smaller DEF Covered
<1>6. /\ NewestCount \in Nat /\ NewestCount' \in Nat
      /\ NewestCount <= NewestCount'
      /\ Spare \in {0, 1} /\ Spare' \in {0, 1} /\ Spare <= Spare'
  BY <1>3, CountGrows, SpareGrows
<1>7. CASE ~IsCheck(n)
  <2>1. w \notin Replacing'
    BY <1>4, <1>7 DEF Replacing
  <2>. QED
    BY <1>3, <1>4, <1>5, <1>7, <2>1, SettledStays, QuietCovered
<1>8. CASE IsCheck(n)
  <2>1. Step(n) \in 1..MaxStep /\ n = Check(Step(n))
    BY <1>8, NameTypes
  <2>2. PICK k \in 1..MaxStep : n = Check(k) /\ Step(n) = k
    BY <2>1
  <2>3. /\ k \in 1 .. (MaxStep - 1) /\ k + 1 \in 1..MaxStep /\ k + 1 > 1
        /\ Check(k + 1) \in TaskNames /\ Check(k + 1) # n
    BY <1>1, <2>2, NameTypes
  <2>4. Replacing' \subseteq Replacing \cup {w}
    BY <1>4 DEF Replacing
  <2>5. Settled' \subseteq Settled \cup {w}
    <3>. SUFFICES ASSUME NEW v \in Settled', v # w PROVE v \in Settled
      OBVIOUS
    <3>1. /\ v \in Replacing /\ handler'[v].task = handler[v].task
      BY <1>4 DEF Settled, Replacing
    <3>. QED
      BY <1>3, <3>1, WasSettled
  <2>6. /\ IsFiniteSet(Replacing') /\ Cardinality(Replacing') \in Nat
        /\ Cardinality(Replacing') <= Cardinality(Replacing) + 1
    BY <1>5, <2>4, LargerByOne
  <2>7. CASE tasks[n].attempts > 0
    <3>1. repeats' = repeats + 1
      BY <1>8, <2>7
    <3>2. /\ Cardinality(Settled') \in Nat
          /\ Cardinality(Settled') <= Cardinality(Settled) + 1
      BY <1>5, <2>5, LargerByOne
    <3>3. replaced' + Cardinality(Replacing') <= NewestCount' + repeats' + Spare'
      BY <1>5, <1>6, <2>6, <3>1 DEF Covered
    <3>4. replaced' + Cardinality(Settled') <= NewestCount' + repeats'
      BY <1>5, <1>6, <3>1, <3>2 DEF Covered
    <3>5. replaced' \in Nat /\ repeats' \in Nat
      BY <1>5, <3>1
    <3>. QED
      BY <2>6, <3>3, <3>4, <3>5 DEF Covered
  <2>8. CASE ~(tasks[n].attempts > 0)
    <3>1. repeats' = repeats
      BY <1>5, <2>8
    <3>2. ~Begun(n)
      BY <1>1, <2>8 DEF Begun
    <3>3. ~Taken(tasks, Check(k + 1))
      <4>1. (k + 1) - 1 = k
        OBVIOUS
      <4>. QED
        BY <2>2, <2>3, <3>2, <4>1 DEF AttemptsCount
    <3>4. Open = {}
      <4>. SUFFICES ASSUME NEW i \in Open PROVE FALSE
        OBVIOUS
      <4>1. /\ i \in 1..MaxStep /\ i + 1 \in 1..MaxStep /\ Begun(Check(i))
            /\ ~Taken(tasks, Check(i + 1)) /\ Taken(tasks, Check(i))
        BY NameTypes DEF Open, Begun, Taken
      <4>2. i # k
        BY <2>2, <3>2, <4>1
      <4>3. CASE i < k
        <5>1. i + 1 = k \/ i + 1 < k
          BY <4>1, <4>3
        <5>2. Taken(tasks, Check(k))
          BY <1>1, <2>2 DEF Taken
        <5>3. Taken(tasks, Check(i + 1))
          BY <4>1, <5>1, <5>2 DEF IInv, NoGap
        <5>. QED
          BY <4>1, <5>3
      <4>4. CASE i > k
        <5>1. k + 1 = i \/ k + 1 < i
          BY <4>1, <4>4
        <5>2. Taken(tasks, Check(k + 1))
          BY <2>3, <4>1, <5>1 DEF IInv, NoGap
        <5>. QED
          BY <3>3, <5>2
      <4>. QED
        BY <4>1, <4>2, <4>3, <4>4
    <3>5. Spare = 0 /\ Spare' = 1
      <4>1. Begun(Check(k))' /\ ~Taken(tasks, Check(k + 1))'
        BY <1>3, <2>2, <2>3, <3>3 DEF NoSuccessor
      <4>2. k \in Open'
        BY <2>3, <4>1 DEF Open
      <4>. QED
        BY <3>4, <4>2 DEF Spare
    <3>6. w \notin Settled'
      <4>1. ~Taken(tasks, Check(k + 1))'
        BY <1>3, <2>3, <3>3 DEF NoSuccessor
      <4>2. handler'[w].task = Check(k) /\ Step(Check(k)) = k
            /\ IsCheck(Check(k))
        BY <1>4, <1>8, <2>2
      <4>. QED
        BY <4>1, <4>2 DEF Settled, Linked
    <3>7. /\ Cardinality(Settled') \in Nat
          /\ Cardinality(Settled') <= Cardinality(Settled)
      <4>1. Settled' \in SUBSET Settled
        BY <2>5, <3>6
      <4>. QED
        BY <1>5, <4>1, Smaller
    <3>8. replaced' + Cardinality(Replacing') <= NewestCount' + repeats' + Spare'
      BY <1>5, <1>6, <2>6, <3>1, <3>5 DEF Covered
    <3>9. replaced' + Cardinality(Settled') <= NewestCount' + repeats'
      BY <1>5, <1>6, <3>1, <3>7 DEF Covered
    <3>10. replaced' \in Nat /\ repeats' \in Nat
      BY <1>5, <3>1
    <3>. QED
      BY <2>6, <3>8, <3>9, <3>10 DEF Covered
  <2>. QED
    BY <2>7, <2>8
<1>. QED
  BY <1>7, <1>8

\* A check schedules its successor: a replacement is counted, or none follows.
LEMMA SuccessorCovered ==
    ASSUME IInv, IInv', AttemptsCount, Covered, BegunStays,
           NEW w \in Workers, ScheduleNext(w), [Next]_vars,
           replaced' = replaced, repeats' \in {repeats, repeats + 1}
    PROVE  Covered'
<1>1. /\ TypeOK /\ At(w, "scheduleNext") /\ ~At(w, "idle") /\ HandlerOK(w)
  BY DEF ScheduleNext, IInv, HandlersOK, At
<1>2. /\ IsCheck(handler[w].task) /\ Carries(w) /\ handler[w].gone \in BOOLEAN
  BY <1>1, RequestCarries
  DEF HandlerOK, CheckPCs, At, HandlerStep, Reply, TypeOK, Handler
<1>3. PICK k \in 1..MaxStep : k > 1 /\ k = Step(handler[w].task) + 1
  BY <1>1, <1>2, SuccessorIndex
<1>4. PICK j \in 1..MaxStep :
         /\ k = j + 1 /\ j < MaxStep /\ handler[w].task = Check(j)
         /\ Check(j) \in TaskNames
  <2>1. PICK n \in TaskNames : n = handler[w].task
    BY <1>1, RequestTask
  <2>2. Step(n) \in 1..MaxStep /\ n = Check(Step(n))
    BY <1>2, <2>1, NameTypes
  <2>. QED
    BY <1>3, <2>1, <2>2, NameTypes
<1>5. /\ IsFiniteSet(Replacing) /\ replaced \in Nat /\ repeats \in Nat
      /\ Settled \subseteq Replacing /\ w \in Replacing
  BY <1>1, <1>2 DEF Covered, Settled, Replacing, BeforeInsert, CheckPCs, At
<1>6. Replacing' \subseteq Replacing
  BY <1>2, <1>5 DEF Carries, Replacing
<1>7. CASE UNCHANGED tasks
  <2>1. NoSuccessor
    BY <1>7 DEF NoSuccessor, Taken
  <2>. QED
    BY <1>2, <1>5, <2>1, SettledStays, QuietCovered DEF Carries
<1>8. CASE /\ ~Taken(tasks, Check(k))
           /\ tasks' = Created(tasks, Check(k), NextCount(w))
           /\ handler[w].gone \/ Done(w, "ok") \/ Done(w, "error")
  <2>1. /\ Check(k) \in TaskNames /\ Check(j) # Check(k)
        /\ k < MaxStep => /\ k + 1 \in 1..MaxStep /\ Check(k + 1) \in TaskNames
                          /\ Check(k + 1) # Check(k)
    BY <1>4, NameTypes
  <2>2. /\ Taken(tasks, Check(k))' /\ tasks'[Check(k)].count = NextCount(w)
        /\ \A m \in TaskNames : m # Check(k) => tasks'[m] = tasks[m]
    BY <1>1, <1>8, <2>1 DEF Created, TypeOK, Taken
  <2>3. Taken(tasks, Check(j)) /\ tasks[Check(j)].count \in Nat
    BY <1>1, <1>4, RequestTask DEF TypeOK, Task
  <2>4. NewestCount = tasks[Check(j)].count
    BY <1>4, <1>8, <2>3, NewestIs DEF NewestRule, IInv
  <2>5. NewestCount' = NextCount(w)
    <3>1. k < MaxStep => ~Taken(tasks, Check(k + 1))
      BY <1>8, <2>1 DEF IInv, NoGap
    <3>2. k < MaxStep => ~Taken(tasks, Check(k + 1))'
      BY <2>1, <2>2, <3>1 DEF Taken
    <3>3. NewestRule'
      BY NewestIs, PTL
    <3>. QED
      BY <2>2, <3>2, <3>3 DEF NewestRule, IInv
  <2>6. Spare \in {0, 1} /\ Spare' \in {0, 1} /\ Settled' \subseteq Replacing'
    BY DEF Spare, Settled
  <2>7. replaced' \in Nat /\ repeats' \in Nat
    BY <1>5
  <2>8. CASE handler[w].gone
    <3>1. NewestCount' = NewestCount + 1
      BY <1>4, <2>4, <2>5, <2>8 DEF NextCount
    <3>2. /\ IsFiniteSet(Replacing') /\ Cardinality(Replacing') \in Nat
          /\ Cardinality(Replacing) \in Nat
          /\ Cardinality(Replacing') <= Cardinality(Replacing)
      BY <1>5, <1>6, Smaller
    <3>3. /\ Cardinality(Settled') \in Nat
          /\ Cardinality(Settled') <= Cardinality(Replacing')
      BY <2>6, <3>2, Smaller
    <3>4. replaced' + Cardinality(Replacing') <= NewestCount' + repeats' + Spare'
      BY <1>5, <2>3, <2>4, <2>6, <3>1, <3>2 DEF Covered
    <3>5. replaced' + Cardinality(Settled') <= NewestCount' + repeats'
      BY <1>5, <2>3, <2>4, <2>6, <3>1, <3>2, <3>3 DEF Covered
    <3>. QED
      BY <2>7, <3>2, <3>4, <3>5 DEF Covered
  <2>9. CASE ~handler[w].gone
    <3>1. NewestCount' = NewestCount
      BY <1>4, <2>3, <2>4, <2>5, <2>9 DEF NextCount
    <3>2. handler'[w].pc = "reply"
      BY <1>1, <1>8, <2>9, DoneMoves DEF Outcomes
    <3>3. w \notin Replacing'
      BY <3>2 DEF Replacing, BeforeInsert, CheckPCs
    <3>4. /\ IsFiniteSet(Replacing') /\ Cardinality(Replacing') \in Nat
          /\ Cardinality(Replacing) \in Nat
          /\ Cardinality(Replacing') + 1 <= Cardinality(Replacing)
      BY <1>5, <1>6, <3>3, SmallerByOne
    <3>5. /\ Cardinality(Settled') \in Nat
          /\ Cardinality(Settled') <= Cardinality(Replacing')
      BY <2>6, <3>4, Smaller
    <3>6. replaced' + Cardinality(Replacing') <= NewestCount' + repeats' + Spare'
      BY <1>5, <2>3, <2>4, <2>6, <3>1, <3>4 DEF Covered
    <3>7. replaced' + Cardinality(Settled') <= NewestCount' + repeats'
      BY <1>5, <2>3, <2>4, <2>6, <3>1, <3>4, <3>5 DEF Covered
    <3>. QED
      BY <2>7, <3>4, <3>6, <3>7 DEF Covered
  <2>. QED
    BY <1>2, <2>8, <2>9
<1>. QED
  BY <1>2, <1>3, <1>7, <1>8 DEF ScheduleNext, Scheduled, CallFails

\* The worker of a request keeps its task until it is idle again, and a check
\* does not go back before its insertion.
LEMMA RequestKeeps ==
    ASSUME IInv, [Next]_vars, NEW v \in Workers, ~At(v, "idle")'
    PROVE  \/ /\ ~At(v, "idle") /\ handler'[v].task = handler[v].task
              /\ handler'[v].pc \in BeforeInsert =>
                     \/ handler[v].pc \in BeforeInsert
                     \/ ~IsCheck(handler[v].task)
           \/ \E n \in TaskNames : Dispatch(v, n) /\ handler'[v].task = n
<1>. USE DEF At
<1>1. TypeOK
  BY DEF IInv
<1>2. ASSUME NEW w \in Workers, NEW n \in TaskNames, Dispatch(w, n)
      PROVE  \/ handler'[v] = handler[v]
             \/ v = w /\ handler'[v].task = n
  BY <1>1, <1>2 DEF Dispatch, TypeOK, Idle
<1>3. ASSUME NEW w \in Workers, HandlerStep(w), ~Reply(w)
      PROVE  \/ handler'[v] = handler[v]
             \/ /\ ~At(v, "idle") /\ handler'[v].task = handler[v].task
                /\ handler'[v].pc \in BeforeInsert =>
                       \/ handler[v].pc \in BeforeInsert
                       \/ ~IsCheck(handler[v].task)
  <2>1. Carries(w)
    BY <1>3, RequestCarries
  <2>. QED
    BY <2>1 DEF Carries
<1>4. ASSUME NEW w \in Workers, Reply(w) \/ Crash(w)
      PROVE  handler'[v] = handler[v]
  <2>1. handler' = [handler EXCEPT ![w] = Idle]
    BY <1>4 DEF Reply, Crash
  <2>. QED
    BY <1>1, <2>1 DEF TypeOK, Idle
<1>5. ASSUME NEW w \in Workers, Timeout(w)
      PROVE  /\ handler'[v].task = handler[v].task
             /\ handler'[v].pc = handler[v].pc
  <2>1. handler' = [handler EXCEPT ![w].live = FALSE] /\ handler[v] \in Handler
    BY <1>1, <1>5 DEF Timeout, TypeOK
  <2>. QED
    BY <1>1, <2>1 DEF TypeOK, Handler
<1>6. CASE Webhook \/ Environment \/ UNCHANGED vars
  BY <1>6 DEF Webhook, vars, Environment, Assign, Finish, Stop, Vanish,
              RunnerLost, JobMoves, Clock
<1>. QED
  BY <1>2, <1>3, <1>4, <1>5, <1>6 DEF Next, HandlerStep

\* What a step does to the queue: each attempt is counted, no check is created
\* before an attempt at its predecessor, and only ScheduleNext creates one
\* that has a predecessor.
QueueCounts ==
    /\ BegunStays
    /\ \A m \in TaskNames : tasks'[m].state = "running"
                               => tasks'[m].attempts > 0
    /\ \A k \in 1..MaxStep : k > 1 /\ Taken(tasks, Check(k))'
                                => Begun(Check(k - 1))'

LEMMA UnchangedCounts ==
    ASSUME AttemptsCount, UNCHANGED tasks
    PROVE  QueueCounts /\ NoSuccessor
BY DEF AttemptsCount, QueueCounts, BegunStays, Begun, Taken, NoSuccessor

LEMMA CreatedCounts ==
    ASSUME TypeOK, AttemptsCount, NEW n \in TaskNames, ~Taken(tasks, n),
           NEW c \in Nat, tasks' = Created(tasks, n, c),
           \A k \in 1..MaxStep : k > 1 /\ n = Check(k) => Begun(Check(k - 1))
    PROVE  QueueCounts
BY CreationCounts DEF QueueCounts

\* A queued task or the first check is created.
LEMMA CreatedNoSuccessor ==
    ASSUME TypeOK, NEW n \in TaskNames, n \notin {Check(k) : k \in 2..MaxStep},
           NEW c \in Nat, tasks' = Created(tasks, n, c)
    PROVE  NoSuccessor
<1>1. \A m \in TaskNames : m # n => tasks'[m] = tasks[m]
  BY DEF Created, TypeOK
<1>2. \A k \in 1..MaxStep : k > 1 => Check(k) # n /\ Check(k) \in TaskNames
  BY NameTypes
<1>. QED
  BY <1>1, <1>2 DEF NoSuccessor, Taken

LEMMA AttemptedCounts ==
    ASSUME TypeOK, AttemptsCount, NEW n \in TaskNames, Attempted(n),
           \/ tasks' = Dispatched(tasks, n) /\ tasks[n].attempts < MaxAttempts
           \/ /\ tasks[n].state = "running"
              /\ tasks' = Failed(tasks, n) \/ tasks' = Acknowledged(tasks, n)
    PROVE  QueueCounts /\ NoSuccessor /\ Begun(n)'
<1>1. /\ Begun(n)'
      /\ tasks'[n].state = "running" => tasks'[n].attempts > 0
  BY AttemptBegins
<1>2. QueueCounts
  BY <1>1, AttemptCounts DEF QueueCounts
<1>3. NoSuccessor
  BY NameTypes DEF NoSuccessor, Attempted, Taken
<1>. QED
  BY <1>1, <1>2, <1>3

LEMMA StepCounts ==
    ASSUME IInv, AttemptsCount, [Next]_vars
    PROVE  /\ QueueCounts
           /\ NoSuccessor \/ \E w \in Workers : ScheduleNext(w)
           /\ \A w \in Workers, n \in TaskNames : Dispatch(w, n) => Begun(n)'
<1>1. TypeOK
  BY DEF IInv
<1>2. ASSUME NEW w \in Workers, NEW n \in TaskNames, Dispatch(w, n)
      PROVE  QueueCounts /\ NoSuccessor /\ Begun(n)'
  <2>1. /\ tasks' = Dispatched(tasks, n) /\ tasks[n].attempts < MaxAttempts
        /\ tasks[n].state = "due" /\ n # Check(MaxStep)
    BY <1>2 DEF Dispatch, IInv, AttemptsLeft
  <2>2. Attempted(n)
    BY <2>1, DispatchedAttempt
  <2>. QED
    BY <1>1, <2>1, <2>2, AttemptedCounts
<1>3. ASSUME Webhook PROVE QueueCounts /\ NoSuccessor
  <2>1. 0 \in 0..MaxWindow /\ window \in 0..MaxWindow
    BY <1>1, NameTypes DEF TypeOK
  <2>2. PICK k \in 0..MaxWindow : ~Taken(tasks, Queued(k))
                                  /\ tasks' = Created(tasks, Queued(k), 0)
    BY <1>3, <2>1 DEF Webhook
  <2>3. PICK n \in TaskNames : n = Queued(k) /\ ~IsCheck(n)
    BY NameTypes
  <2>4. \A i \in 1..MaxStep : Check(i) # n
    BY <2>3, NameTypes
  <2>5. n \notin {Check(i) : i \in 2..MaxStep}
    BY <2>4, NameTypes
  <2>. QED
    BY <1>1, <2>2, <2>3, <2>4, <2>5, CreatedCounts, CreatedNoSuccessor
<1>4. ASSUME NEW w \in Workers, Reply(w) \/ Crash(w) \/ Timeout(w)
      PROVE  QueueCounts /\ NoSuccessor
  <2>1. ~At(w, "idle") /\ HandlerOK(w)
    BY <1>4 DEF Reply, Crash, Timeout, IInv, HandlersOK, HandlerOK, At
  <2>2. PICK n \in TaskNames : n = handler[w].task
    BY <2>1, RequestTask
  <2>3. Taken(tasks, n)
    BY <2>1, <2>2, RequestTask
  <2>4. \/ UNCHANGED tasks
        \/ /\ tasks[n].state = "running"
           /\ tasks' = Failed(tasks, n) \/ tasks' = Acknowledged(tasks, n)
    BY <1>4, <2>1, <2>2 DEF Reply, Crash, Timeout, HandlerOK
  <2>5. CASE UNCHANGED tasks
    BY <2>5, UnchangedCounts
  <2>6. CASE /\ tasks[n].state = "running"
             /\ tasks' = Failed(tasks, n) \/ tasks' = Acknowledged(tasks, n)
    <3>1. Attempted(n)
      BY <1>1, <2>3, <2>6, FailedAttempt, AcknowledgedAttempt
    <3>. QED
      BY <1>1, <2>6, <3>1, AttemptedCounts
  <2>. QED
    BY <2>4, <2>5, <2>6
<1>5. ASSUME NEW w \in Workers, ScheduleFirst(w)
      PROVE  QueueCounts /\ NoSuccessor
  <2>1. UNCHANGED tasks \/ (~Taken(tasks, Check(1))
                            /\ tasks' = Created(tasks, Check(1), 0))
    BY <1>5 DEF ScheduleFirst, Scheduled
  <2>2. /\ Check(1) \in TaskNames
        /\ \A k \in 1..MaxStep : k > 1 => Check(k) # Check(1)
    BY NameTypes
  <2>3. Check(1) \notin {Check(k) : k \in 2..MaxStep}
    BY <2>2, NameTypes
  <2>. QED
    BY <1>1, <2>1, <2>2, <2>3, UnchangedCounts, CreatedCounts,
       CreatedNoSuccessor
<1>6. ASSUME NEW w \in Workers, ScheduleNext(w) PROVE QueueCounts
  <2>1. /\ ~At(w, "idle") /\ HandlerOK(w) /\ IsCheck(handler[w].task)
    BY <1>6 DEF ScheduleNext, IInv, HandlersOK, HandlerOK, At, CheckPCs
  <2>2. PICK n \in TaskNames : n = handler[w].task
    BY <2>1, RequestTask
  <2>3. PICK k \in 1..MaxStep : k > 1 /\ k = Step(n) + 1
    BY <2>1, <2>2, SuccessorIndex
  <2>4. n = Check(k - 1) /\ Begun(n) /\ Check(k) \in TaskNames
    <3>1. n = Check(Step(n)) /\ Step(n) \in 1..MaxStep
      BY <2>1, <2>2, NameTypes
    <3>. QED
      BY <2>1, <2>2, <2>3, <3>1, NameTypes DEF AttemptsCount
  <2>5. NextCount(w) \in Nat
    <3>1. tasks[n].count \in Nat
      BY <1>1 DEF TypeOK, Task
    <3>. QED
      BY <2>2, <3>1 DEF NextCount
  <2>6. UNCHANGED tasks \/ (~Taken(tasks, Check(k))
                            /\ tasks' = Created(tasks, Check(k), NextCount(w)))
    BY <1>6, <2>2, <2>3 DEF ScheduleNext, Scheduled
  <2>7. \A i \in 1..MaxStep : Check(k) = Check(i) => i = k
    BY NameTypes
  <2>. QED
    BY <1>1, <2>4, <2>5, <2>6, <2>7, UnchangedCounts, CreatedCounts
<1>7. ASSUME NEW w \in Workers, HandlerStep(w), ~ScheduleFirst(w),
             ~ScheduleNext(w), ~Reply(w)
      PROVE  UNCHANGED tasks
  BY <1>7 DEF HandlerStep, LeftQueue, Resolve, FailRun, Status, FindChecked,
     FindVM, FindRunner, RemoveRunner, Register, Insert, FindFailed,
     RemoveFailed
<1>8. ASSUME Environment \/ UNCHANGED vars PROVE QueueCounts /\ NoSuccessor
  <2>1. UNCHANGED tasks
    BY <1>8 DEF vars, Environment, Assign, Finish, Stop, Vanish, RunnerLost,
                JobMoves, Clock
  <2>. QED
    BY <2>1, UnchangedCounts
<1>9. QueueCounts /\ (NoSuccessor \/ \E w \in Workers : ScheduleNext(w))
  BY <1>2, <1>3, <1>4, <1>5, <1>6, <1>7, <1>8, UnchangedCounts
  DEF Next, HandlerStep
<1>. QED
  BY <1>2, <1>9

LEMMA AttemptsCountHolds ==
    ASSUME IInv, AttemptsCount, [Next]_vars
    PROVE  AttemptsCount' /\ BegunStays
<1>1. QueueCounts
  BY StepCounts
<1>2. ASSUME NEW v \in Workers, ~At(v, "idle")'
      PROVE  Begun(handler[v].task)'
  <2>1. CASE ~At(v, "idle") /\ handler'[v].task = handler[v].task
    <3>1. Begun(handler[v].task) /\ handler[v].task \in TaskNames
      BY <2>1, RequestTask DEF AttemptsCount
    <3>. QED
      BY <1>1, <2>1, <3>1 DEF QueueCounts, BegunStays, Begun
  <2>2. ASSUME NEW n \in TaskNames, Dispatch(v, n) /\ handler'[v].task = n
        PROVE  Begun(handler[v].task)'
    <3>1. Begun(n)'
      BY <2>2, StepCounts
    <3>. QED
      BY <2>2, <3>1 DEF Begun
  <2>. QED
    BY <1>2, <2>1, <2>2, RequestKeeps
<1>. QED
  BY <1>1, <1>2 DEF AttemptsCount, QueueCounts

LEMMA RInit == ReplacementsInit => RInv
<1>. SUFFICES ASSUME ReplacementsInit PROVE RInv
  OBVIOUS
<1>1. IInv /\ replaced = 0 /\ repeats = 0
  BY InitHolds DEF ReplacementsInit
<1>2. /\ \A w \in Workers : At(w, "idle")
      /\ \A n \in TaskNames : ~Taken(tasks, n) /\ tasks[n].state = "none"
  BY DEF ReplacementsInit, Init, Idle, At, NoTask, Taken
<1>3. AttemptsCount
  BY <1>2, NameTypes DEF AttemptsCount
<1>4. Replacing = {} /\ Settled = {}
  BY <1>2 DEF Replacing, Settled, At, BeforeInsert, CheckPCs
<1>5. IsFiniteSet(Replacing) /\ Cardinality(Replacing) = 0
      /\ Cardinality(Settled) = 0
  BY <1>4, FS_EmptySet
<1>6. NewestCount \in Nat /\ Spare \in Nat
  BY <1>1, CountType DEF Spare
<1>. QED
  BY <1>1, <1>3, <1>5, <1>6 DEF RInv, Covered

LEMMA RStep ==
    ASSUME RInv, [ReplacementsNext]_<<vars, replaced, repeats>>,
           OneInsertPerAttempt
    PROVE  RInv'
<1>1. IInv /\ AttemptsCount /\ Covered /\ [Next]_vars
  BY DEF RInv, ReplacementsNext
<1>2. IInv'
  BY <1>1, StepHolds
<1>3. AttemptsCount' /\ BegunStays
  BY <1>1, AttemptsCountHolds
<1>4. replaced \in Nat /\ repeats \in Nat
  BY <1>1 DEF Covered
<1>5. repeats' \in {repeats, repeats + 1} /\ replaced' \in {replaced, replaced + 1}
  BY <1>4 DEF ReplacementsNext
<1>6. CASE UNCHANGED <<vars, replaced, repeats>>
  <2>1. UNCHANGED <<tasks, handler>>
    BY <1>6 DEF vars
  <2>2. NoSuccessor /\ Replacing' = Replacing /\ Settled' = Settled
    BY <2>1 DEF NoSuccessor, Taken, Replacing, Settled, Linked
  <2>3. Covered'
    BY <1>1, <1>2, <1>3, <1>5, <1>6, <2>2, QuietCovered
  <2>. QED
    BY <1>2, <1>3, <2>3 DEF RInv
<1>7. CASE ReplacementsNext /\ CountsVM
  <2>1. PICK w \in Workers, z \in Zones :
           /\ At(w, "insert") /\ IsCheck(handler[w].task)
           /\ Insert(w, z) /\ vm'[z] # vm[z]
    BY <1>7 DEF CountsVM
  <2>2. replaced' = replaced + 1
    BY <1>7 DEF ReplacementsNext
  <2>3. Covered'
    BY <1>1, <1>2, <1>5, <2>1, <2>2, InsertCovered
  <2>. QED
    BY <1>2, <1>3, <2>3 DEF RInv
<1>8. CASE ReplacementsNext /\ ~CountsVM
  <2>1. replaced' = replaced
    BY <1>4, <1>8 DEF ReplacementsNext
  <2>2. ASSUME NEW w \in Workers, NEW n \in TaskNames, Dispatch(w, n)
        PROVE  Covered'
    <3>1. IsCheck(n) /\ tasks[n].attempts > 0 => repeats' = repeats + 1
      BY <1>8, <2>2, NameTypes DEF ReplacementsNext, CountsRepeat
    <3>2. ~(IsCheck(n) /\ tasks[n].attempts > 0) => ~CountsRepeat
      <4>. SUFFICES ASSUME CountsRepeat
                    PROVE  IsCheck(n) /\ tasks[n].attempts > 0
        OBVIOUS
      <4>1. PICK v \in Workers, m \in CheckNames :
               Dispatch(v, m) /\ tasks[m].attempts > 0
        BY DEF CountsRepeat
      <4>2. m \in TaskNames
        BY DEF TaskNames
      <4>3. m = n
        <5>1. /\ tasks[m].state = "due" /\ tasks' = Dispatched(tasks, m)
              /\ tasks' = Dispatched(tasks, n)
          BY <2>2, <4>1 DEF Dispatch
        <5>2. Dispatched(tasks, m)[m].state = "running"
          BY <1>1, <4>1, <4>2, DispatchedAttempt DEF Dispatch, IInv, AttemptsLeft
        <5>3. m # n => Dispatched(tasks, n)[m] = tasks[m]
          BY <1>1, <4>2 DEF Dispatched, IInv, TypeOK
        <5>. QED
          BY <5>1, <5>2, <5>3
      <4>. QED
        BY <4>1, <4>2, <4>3, NameTypes
    <3>3. repeats' = repeats
              + (IF IsCheck(n) /\ tasks[n].attempts > 0 THEN 1 ELSE 0)
      BY <1>4, <1>8, <3>1, <3>2 DEF ReplacementsNext
    <3>4. Begun(n)'
      BY <1>1, <2>2, StepCounts
    <3>. QED
      BY <1>1, <1>2, <1>3, <2>1, <2>2, <3>3, <3>4, DispatchCovered
  <2>3. ASSUME NEW w \in Workers, ScheduleNext(w) PROVE Covered'
    BY <1>1, <1>2, <1>3, <1>5, <2>1, <2>3, SuccessorCovered
  <2>4. ASSUME \A w \in Workers : ~ScheduleNext(w),
               \A w \in Workers, n \in TaskNames : ~Dispatch(w, n)
        PROVE  Covered'
    <3>1. NoSuccessor
      BY <1>1, <2>4, StepCounts
    <3>2. \A v \in Replacing' : /\ v \in Replacing
                                /\ handler'[v].task = handler[v].task
      BY <1>1, <2>4, RequestKeeps DEF Replacing, At, BeforeInsert, CheckPCs
    <3>3. Replacing' \subseteq Replacing /\ Settled' \subseteq Settled
      BY <1>1, <3>1, <3>2, WasSettled DEF Settled
    <3>. QED
      BY <1>1, <1>2, <1>3, <1>5, <2>1, <3>1, <3>3, QuietCovered
  <2>5. Covered'
    BY <2>2, <2>3, <2>4
  <2>. QED
    BY <1>2, <1>3, <2>5 DEF RInv
<1>. QED
  BY <1>6, <1>7, <1>8 DEF RInv

\* The VMs that the checks of a job create are at most the replacements its
\* newest payload counts and the repeated attempts at a check, for any number
\* of workers and under any of the faults -- except that a reply lost after
\* an insertion may let the zone loop create a second VM in the next zone.
THEOREM ReplacementsAreCounted ==
    ASSUME OneInsertPerAttempt
    PROVE  ReplacementsSpec => []ReplacementsCounted
<1>1. RInv /\ [ReplacementsNext]_<<vars, replaced, repeats>> => RInv'
  BY RStep
<1>2. RInv => ReplacementsCounted
  <2>. SUFFICES ASSUME RInv PROVE ReplacementsCounted
    OBVIOUS
  <2>1. NewestCount \in Nat /\ replaced \in Nat /\ repeats \in Nat
        /\ IsFiniteSet(Replacing)
    BY CountType DEF RInv, Covered
  <2>2. Cardinality(Settled) \in Nat
    BY <2>1, Smaller DEF Settled
  <2>. QED
    BY <2>1, <2>2 DEF RInv, Covered, ReplacementsCounted
<1>. QED
  BY <1>1, <1>2, RInit, PTL DEF ReplacementsSpec

-----------------------------------------------------------------------------
(* One request at a time: one VM, and nobody takes its registration *)

\* Requests are handled one at a time, every reply arrives, and a search for
\* the VM sees every zone.
OneAtATime == /\ \A v, w \in Workers : v = w
              /\ "lostReply" \notin Faults /\ "partialList" \notin Faults

\* What follows a search that found no VM.
AfterSearch == {"findRunner", "removeRunner", "register", "insert",
                "findFailed", "removeFailed"}

\* The worker that looked for a VM and found none is the only one to create
\* one, and the only one to touch the registration until the VM is up.
NoneFound  == \A w \in Workers : handler[w].pc \in AfterSearch => Held = {}
Registered == \A w \in Workers :
    At(w, "insert") => w \in holders /\ registration = "idle"
AtMostOne  == \A y, z \in Held : y = z
UpIsIdle   == \A z \in Zones :
    vm[z] = "up" => z \in holders /\ registration = "idle"

SInv == NoneFound /\ Registered /\ AtMostOne /\ UpIsIdle

\* A step of the one worker that creates no VM and leaves the registration.
LEMMA SearchKeeps ==
    ASSUME SInv, OneAtATime, NEW w \in Workers, UNCHANGED runnerVars,
           handler'[w].pc \in AfterSearch => Held = {},
           ~At(w, "insert")'
    PROVE  SInv'
<1>1. \A v \in Workers : v = w
  BY DEF OneAtATime
<1>2. Held' = Held
  BY DEF Held, runnerVars
<1>3. NoneFound' /\ Registered'
  BY <1>1, <1>2 DEF NoneFound, Registered, At
<1>4. AtMostOne' /\ UpIsIdle'
  BY <1>2 DEF SInv, AtMostOne, UpIsIdle, runnerVars
<1>. QED
  BY <1>3, <1>4 DEF SInv

\* A step that changes the registration or its holders while there is no VM.
LEMMA NoVMKeeps ==
    ASSUME SInv, OneAtATime, NEW w \in Workers, UNCHANGED vm, Held = {},
           At(w, "insert")' => w \in holders' /\ registration' = "idle"
    PROVE  SInv'
<1>1. \A v \in Workers : v = w
  BY DEF OneAtATime
<1>2. Held' = {} /\ \A z \in Zones : vm'[z] = "none"
  BY DEF Held
<1>3. NoneFound' /\ Registered'
  BY <1>1, <1>2 DEF NoneFound, Registered
<1>4. AtMostOne' /\ UpIsIdle'
  BY <1>2 DEF AtMostOne, UpIsIdle
<1>. QED
  BY <1>3, <1>4 DEF SInv

\* Where a worker is after the outcome of createRunnerVM.
LEMMA OutcomePlaces ==
    ASSUME TypeOK, NEW w \in Workers, ~At(w, "idle"),
           NEW out \in Outcomes, Provisioned(w) \/ ProvisionFailed(w, out)
    PROVE  handler'[w].pc \in {"reply", "scheduleFirst", "failRun"}
<1>1. PICK pc \in {"reply", "scheduleFirst", "failRun"}, o \in Outcomes :
         Goto(w, pc) \/ (pc = "reply" /\ Done(w, o))
  BY DEF Provisioned, ProvisionFailed, Outcomes
<1>2. pc \in PCs
  BY DEF PCs
<1>. QED
  BY <1>1, <1>2, GotoMoves, DoneMoves

LEMMA PlaceIs ==
    ASSUME TypeOK, NEW w \in Workers, NEW pc \in PCs, NEW out \in Outcomes,
           Goto(w, pc) \/ (pc = "reply" /\ Done(w, out))
    PROVE  handler'[w].pc = pc
BY GotoMoves, DoneMoves

\* Before the search and after the outcome no VM is looked for or made.
LEMMA OutsideSerial ==
    ASSUME IInv, SInv, OneAtATime, NEW w \in Workers,
           \/ LeftQueue(w) \/ Resolve(w) \/ FailRun(w) \/ ScheduleFirst(w)
           \/ Status(w) \/ FindChecked(w) \/ ScheduleNext(w)
    PROVE  SInv'
<1>1. TypeOK
  BY DEF IInv
<1>2. UNCHANGED runnerVars
  BY DEF LeftQueue, Resolve, FailRun, ScheduleFirst, Status, FindChecked,
         ScheduleNext
<1>3. handler'[w].pc \in {"resolve", "reply", "findVM", "failRun",
                           "findChecked", "scheduleNext"}
  <2>1. CASE FindChecked(w)
    <3>1. ASSUME NEW gone \in BOOLEAN,
                 handler' = [handler EXCEPT ![w].pc = "scheduleNext",
                                            ![w].gone = gone]
          PROVE  handler'[w].pc = "scheduleNext"
      <4>1. handler'[w] = [handler[w] EXCEPT !.pc = "scheduleNext",
                                             !.gone = gone]
        BY <1>1, <3>1 DEF TypeOK
      <4>2. handler[w] \in Handler
        BY <1>1 DEF TypeOK
      <4>. QED
        BY <4>1, <4>2 DEF Handler
    <3>. QED
      BY <1>1, <2>1, <3>1, PlaceIs DEF FindChecked, CallFails, PCs, Outcomes
  <2>2. CASE ~FindChecked(w)
    <3>1. PICK pc \in {"resolve", "reply", "findVM", "failRun", "findChecked"},
               out \in Outcomes : Goto(w, pc) \/ (pc = "reply" /\ Done(w, out))
      BY <2>2 DEF LeftQueue, Resolve, FailRun, ScheduleFirst, Status,
                  ScheduleNext, CallFails, Outcomes
    <3>. QED
      BY <1>1, <3>1, PlaceIs DEF PCs
  <2>. QED
    BY <2>1, <2>2
<1>. QED
  BY <1>2, <1>3, SearchKeeps DEF AfterSearch, At

LEMMA CreateSerial ==
    ASSUME IInv, SInv, OneAtATime, NEW w \in Workers,
           FindVM(w) \/ FindRunner(w) \/ RemoveRunner(w) \/ Register(w)
    PROVE  SInv'
<1>1. /\ TypeOK /\ ~At(w, "idle") /\ Zones \in SUBSET Zones
      /\ \A v \in Workers : v = w
  BY DEF IInv, FindVM, FindRunner, RemoveRunner, Register, At, OneAtATime
<1>2. CASE FindVM(w)
  <2>1. UNCHANGED runnerVars
    BY <1>2 DEF FindVM
  <2>2. CASE SearchOverlooks /\ Goto(w, "findRunner")
    <3>1. Held = {}
      BY <2>2 DEF SearchOverlooks, OneAtATime
    <3>2. handler'[w].pc = "findRunner"
      BY <1>1, <2>2, GotoMoves DEF PCs
    <3>. QED
      BY <2>1, <3>1, <3>2, SearchKeeps DEF At
  <2>3. CASE Provisioned(w) \/ ProvisionFailed(w, "error")
    <3>1. handler'[w].pc \in {"reply", "scheduleFirst", "failRun"}
      BY <1>1, <2>3, OutcomePlaces DEF Outcomes
    <3>. QED
      BY <2>1, <3>1, SearchKeeps DEF At, AfterSearch
  <2>. QED
    BY <1>2, <2>2, <2>3 DEF FindVM
<1>3. CASE ~FindVM(w)
  <2>1. Held = {} /\ UNCHANGED vm
    BY <1>3 DEF FindRunner, RemoveRunner, Register, SInv, NoneFound,
                AfterSearch, At
  <2>2. ASSUME NEW pc \in {"register", "removeRunner"}, Goto(w, pc)
        PROVE  ~At(w, "insert")'
    <3>1. handler'[w].pc = pc
      BY <1>1, <2>2, GotoMoves DEF PCs
    <3>. QED
      BY <3>1 DEF At
  <2>3. ASSUME ProvisionFailed(w, "error") PROVE ~At(w, "insert")'
    BY <1>1, <2>3, OutcomePlaces DEF Outcomes, At
  <2>4. At(w, "insert")' => w \in holders' /\ registration' = "idle"
    BY <1>3, <2>2, <2>3 DEF FindRunner, RemoveRunner, Register
  <2>. QED
    BY <2>1, <2>4, NoVMKeeps
<1>. QED
  BY <1>2, <1>3

LEMMA InsertSerial ==
    ASSUME IInv, SInv, OneAtATime, NEW w \in Workers, NEW z \in Zones,
           Insert(w, z)
    PROVE  SInv'
<1>1. /\ TypeOK /\ ~At(w, "idle") /\ handler[w].left \subseteq Zones
      /\ handler[w].out \in Outcomes /\ \A v \in Workers : v = w
  BY DEF IInv, TypeOK, Handler, Insert, At, OneAtATime
<1>2. /\ Held = {} /\ w \in holders /\ registration = "idle"
      /\ UNCHANGED registration
  BY DEF Insert, SInv, NoneFound, Registered, AfterSearch, At
<1>3. CASE Boot(w, z) /\ holders' = (holders \ {w}) \cup {z} /\ Provisioned(w)
  <2>1. /\ vm' = [vm EXCEPT ![z] = "up"]
        /\ \A y \in Zones : vm[y] = "none"
    BY <1>2, <1>3 DEF Boot, Held
  <2>2. \A y \in Zones : vm'[y] # "none" => y = z
    BY <1>1, <2>1 DEF TypeOK
  <2>3. handler'[w].pc \in {"reply", "scheduleFirst", "failRun"}
    BY <1>1, <1>3, OutcomePlaces DEF Outcomes
  <2>4. NoneFound' /\ Registered'
    BY <1>1, <2>3 DEF NoneFound, Registered, AfterSearch, At
  <2>5. AtMostOne'
    BY <2>2 DEF AtMostOne, Held
  <2>6. UpIsIdle'
    BY <1>2, <1>3, <2>2 DEF UpIsIdle
  <2>. QED
    BY <2>4, <2>5, <2>6 DEF SInv
<1>4. CASE UNCHANGED <<vm, holders>>
  BY <1>2, <1>4, NoVMKeeps
<1>. QED
  BY <1>2, <1>3, <1>4 DEF Insert, OneAtATime, Held

\* The registration of a VM that could not be created is removed, and a
\* request ends: nobody is past a search any more.
LEMMA CleanUpSerial ==
    ASSUME IInv, SInv, OneAtATime, NEW w \in Workers,
           FindFailed(w) \/ RemoveFailed(w)
    PROVE  SInv'
<1>1. /\ TypeOK /\ ~At(w, "idle") /\ handler[w].out \in Outcomes
  BY DEF IInv, TypeOK, Handler, FindFailed, RemoveFailed, At
<1>2. Held = {} /\ UNCHANGED vm
  BY DEF FindFailed, RemoveFailed, SInv, NoneFound, AfterSearch, At
<1>3. Goto(w, "removeFailed") \/ ProvisionFailed(w, handler[w].out)
  BY DEF FindFailed, RemoveFailed
<1>4. handler'[w].pc \in {"removeFailed", "reply", "scheduleFirst", "failRun"}
  BY <1>1, <1>3, GotoMoves, OutcomePlaces DEF PCs
<1>. QED
  BY <1>2, <1>4, NoVMKeeps DEF At

LEMMA EndSerial ==
    ASSUME IInv, SInv, OneAtATime, NEW w \in Workers, Reply(w) \/ Crash(w)
    PROVE  SInv'
<1>1. /\ UNCHANGED <<vm, registration>> /\ holders' = holders \ {w}
      /\ handler'[w] = Idle /\ \A v \in Workers : v = w
  BY DEF Reply, Crash, IInv, TypeOK, OneAtATime, githubVars
<1>2. NoneFound' /\ Registered'
  BY <1>1 DEF NoneFound, Registered, At, Idle, AfterSearch
<1>3. AtMostOne' /\ UpIsIdle'
  BY <1>1, ProvisioningAssumption DEF SInv, AtMostOne, UpIsIdle, Held
<1>. QED
  BY <1>2, <1>3 DEF SInv

LEMMA BeginSerial ==
    ASSUME IInv, SInv, OneAtATime, NEW w \in Workers, NEW n \in TaskNames,
           Dispatch(w, n)
    PROVE  SInv'
<1>1. UNCHANGED runnerVars /\ handler'[w].pc \in {"status", "leftQueue"}
  BY DEF Dispatch, IInv, TypeOK, Idle
<1>. QED
  BY <1>1, SearchKeeps DEF AfterSearch, At

LEMMA TimeoutSerial ==
    ASSUME IInv, SInv, OneAtATime, NEW w \in Workers, Timeout(w)
    PROVE  SInv'
<1>1. UNCHANGED runnerVars /\ \A v \in Workers : v = w
  BY DEF Timeout, OneAtATime
<1>2. handler'[w].pc = handler[w].pc
  <2>1. /\ handler'[w] = [handler[w] EXCEPT !.live = FALSE]
        /\ handler[w] \in Handler
    BY DEF Timeout, IInv, TypeOK
  <2>. QED
    BY <2>1 DEF Handler
<1>3. Held' = Held
  BY <1>1 DEF Held, runnerVars
<1>4. NoneFound' /\ Registered' /\ AtMostOne' /\ UpIsIdle'
  BY <1>1, <1>2, <1>3
  DEF SInv, NoneFound, Registered, AtMostOne, UpIsIdle, At, runnerVars
<1>. QED
  BY <1>4 DEF SInv

\* GitHub and the VMs: a VM leaves or its runner takes a job.
LEMMA EnvironmentSerial ==
    ASSUME IInv, SInv, OneAtATime, Environment
    PROVE  SInv'
<1>1. TypeOK /\ UNCHANGED handler
  BY DEF IInv, Environment, Assign, Finish, Stop, Vanish, RunnerLost, JobMoves,
         Clock, runnerVars
<1>2. Held' \subseteq Held
  BY <1>1 DEF Environment, Assign, Finish, Stop, Vanish, RunnerLost, JobMoves,
              Clock, TypeOK, Held, runnerVars
<1>3. NoneFound' /\ AtMostOne'
  BY <1>1, <1>2 DEF SInv, NoneFound, AtMostOne
<1>4. \A w \in Workers : At(w, "insert") => Held = {}
  BY DEF SInv, NoneFound, At, AfterSearch
<1>5. Registered' /\ UpIsIdle'
  <2>. USE DEF SInv, Registered, UpIsIdle, At
  <2>1. CASE JobMoves \/ Clock
    BY <1>1, <2>1 DEF JobMoves, Clock, runnerVars
  <2>2. CASE RunnerLost
    BY <1>1, <2>2 DEF RunnerLost
  <2>3. ASSUME NEW z \in Zones, Assign(z) \/ Finish(z) \/ Stop(z) \/ Vanish(z)
        PROVE  Registered' /\ UpIsIdle'
    <3>1. z \in Held
      BY <2>3 DEF Assign, Finish, Stop, Vanish, Held
    <3>2. Registered'
      BY <1>1, <1>4, <3>1
    <3>3. \A y \in Zones : y # z => vm'[y] = vm[y] /\ vm[y] = "none"
      BY <1>1, <2>3, <3>1
      DEF AtMostOne, Held, Assign, Finish, Stop, Vanish, TypeOK
    <3>4. vm'[z] # "up"
      BY <1>1, <2>3 DEF Assign, Finish, Stop, Vanish, TypeOK
    <3>. QED
      BY <3>2, <3>3, <3>4
  <2>. QED
    BY <2>1, <2>2, <2>3 DEF Environment
<1>. QED
  BY <1>3, <1>5 DEF SInv

LEMMA SerialStep ==
    ASSUME OneAtATime PROVE IInv /\ SInv /\ [Next]_vars => SInv'
<1>. SUFFICES ASSUME IInv, SInv, [Next]_vars PROVE SInv'
  OBVIOUS
<1>1. CASE Webhook \/ UNCHANGED vars
  BY <1>1 DEF Webhook, vars, runnerVars, SInv, NoneFound, Registered,
              AtMostOne, UpIsIdle, Held, At
<1>2. ASSUME NEW w \in Workers, HandlerStep(w) PROVE SInv'
  BY <1>2, OutsideSerial, CreateSerial, InsertSerial, CleanUpSerial, EndSerial
  DEF HandlerStep
<1>. QED
  BY <1>1, <1>2, BeginSerial, EndSerial, TimeoutSerial, EnvironmentSerial
  DEF Next

LEMMA SerialInit == Init => SInv
BY DEF Init, SInv, NoneFound, Registered, AtMostOne, UpIsIdle, Held, At, Idle,
       AfterSearch

LEMMA SerialInvariance == ASSUME OneAtATime PROVE Spec => []SInv
<1>1. IInv /\ SInv /\ [Next]_vars => SInv'
  BY SerialStep
<1>2. Spec => []IInv
  BY Invariance
<1>. QED
  BY <1>1, <1>2, SerialInit, PTL DEF Spec

\* A job never has two VMs, in any number of zones and however often requests
\* die, are late or are repeated, as long as one request is handled at a time,
\* no reply is lost and a search sees every zone.
THEOREM AtMostOneVM == ASSUME OneAtATime PROVE Spec => []OneVM
<1>1. SInv => OneVM
  <2>. SUFFICES ASSUME SInv PROVE Cardinality(Held) <= 1
    BY DEF OneVM
  <2>1. CASE Held = {}
    BY <2>1, FS_EmptySet
  <2>2. CASE Held # {}
    <3>1. PICK z : Held = {z}
      BY <2>2 DEF SInv, AtMostOne
    <3>. QED
      BY <3>1, FS_Singleton
  <2>. QED
    BY <2>1, <2>2
<1>. QED
  BY <1>1, SerialInvariance, PTL

\* Under the same conditions a VM that is still to come up finds its
\* registration: a late or repeated request does not remove it.
THEOREM RegistrationKept == ASSUME OneAtATime PROVE Spec => []VMKeepsRegistration
<1>1. SInv => VMKeepsRegistration
  BY DEF SInv, UpIsIdle, VMKeepsRegistration
<1>. QED
  BY <1>1, SerialInvariance, PTL
=============================================================================
