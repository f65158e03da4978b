------------------------- MODULE MetricsFlushProofs -------------------------
(***************************************************************************)
(* Nobody is released before an export carried what it recorded, and a     *)
(* drained process leaves nothing behind, for any number of requests.      *)
(***************************************************************************)
EXTENDS MetricsFlush, TLAPS

\* A request that took a channel and has not left it.
Attached(r) == request[r].pc \in {"took", "waiting"}

\* The loop closes the channel it replaced before it replaces another.
LoopChannel ==
    /\ loop.pc \in {"idle", "asked"} => pending = closed
    /\ loop.pc \in {"flush", "export"} => loop.done = closed /\ pending = closed + 1

\* A request takes a channel only after it recorded its data.
RecordedFirst ==
    \A r \in Requests :
        request[r].pc \in {"recorded", "took", "waiting", "released", "gaveUp"} => r \in recorded

\* The channels in requests' hands are among those made; for a closed one the
\* data was sent, for the one about to be closed it is on its way.
AttachedCarried ==
    \A r \in Requests : Attached(r) =>
        /\ request[r].flushed <= pending
        /\ request[r].flushed < closed => r \in exported \cup dropped
        /\ (loop.pc = "export" /\ request[r].flushed = loop.done) => r \in loop.carries

\* A drain that was not cut short ends when every request has its reply.
DrainedReplied == (server = "flushing" /\ ~cut) => \A r \in Requests : Replied(r)

\* The inductive invariant.  ReleasedCarried needs to know of the requests that
\* are not released yet, and NothingLeftBehind what holds before the last export.
IInv ==
    /\ TypeOK
    /\ LoopChannel
    /\ RecordedFirst
    /\ AttachedCarried
    /\ DrainedReplied
    /\ ReleasedCarried
    /\ NothingLeftBehind

-----------------------------------------------------------------------------
\* The initial states satisfy the invariant.
LEMMA InitInvariant == Init => IInv
  <1> SUFFICES ASSUME Init PROVE IInv
    OBVIOUS
  <1>1. TypeOK
    BY DEF Init, TypeOK
  <1>2. LoopChannel /\ RecordedFirst /\ AttachedCarried /\ DrainedReplied
    BY DEF Init, LoopChannel, RecordedFirst, AttachedCarried, Attached, DrainedReplied
  <1>3. ReleasedCarried /\ NothingLeftBehind
    BY DEF Init, ReleasedCarried, NothingLeftBehind
  <1>4. QED
    BY <1>1, <1>2, <1>3 DEF IInv

\* Requests: each moves alone, and takes its channel after its data is recorded.
LEMMA RequestInvariant ==
    ASSUME IInv, NEW q \in Requests, RequestStep(q)
    PROVE  IInv'
  <1> USE DEF IInv, TypeOK, LoopChannel, RecordedFirst, AttachedCarried, Attached, DrainedReplied, Replied,
          ReleasedCarried, NothingLeftBehind, At, Running
  <1>1. CASE Accept(q)
    BY <1>1 DEF Accept
  <1>2. CASE Record(q)
    BY <1>2 DEF Record
  <1>3. CASE TakePending(q)
    BY <1>3 DEF TakePending
  <1>4. CASE Ask(q)
    BY <1>4 DEF Ask
  <1>5. CASE Release(q)
    BY <1>5 DEF Release
  <1>6. CASE GiveUp(q)
    BY <1>6 DEF GiveUp
  <1>7. QED
    BY <1>1, <1>2, <1>3, <1>4, <1>5, <1>6 DEF RequestStep

\* The loop: what it closes it has replaced before it collected.
LEMMA LoopInvariant ==
    ASSUME IInv, LoopStep
    PROVE  IInv'
  <1> USE DEF IInv, TypeOK, LoopChannel, RecordedFirst, AttachedCarried, Attached, DrainedReplied, Replied,
          ReleasedCarried, NothingLeftBehind, LoopAt, Running
  <1>1. CASE Receive
    BY <1>1 DEF Receive
  <1>2. CASE Swap
    <2> USE <1>2 DEF Swap
    <2>1. pending = closed /\ pending \in Nat
      OBVIOUS
    <2>2. TypeOK' /\ LoopChannel'
      BY <2>1
    <2>3. RecordedFirst' /\ AttachedCarried'
      BY <2>1
    <2>4. DrainedReplied' /\ ReleasedCarried' /\ NothingLeftBehind'
      OBVIOUS
    <2>5. QED
      BY <2>2, <2>3, <2>4
  <1>3. CASE Collect
    <2> USE <1>3 DEF Collect
    <2>1. TypeOK' /\ LoopChannel' /\ RecordedFirst'
      OBVIOUS
    <2>2. AttachedCarried'
      OBVIOUS
    <2>3. DrainedReplied' /\ ReleasedCarried' /\ NothingLeftBehind'
      OBVIOUS
    <2>4. QED
      BY <2>1, <2>2, <2>3
  <1>4. CASE Close
    BY <1>4 DEF Close, Sent
  <1>5. QED
    BY <1>1, <1>2, <1>3, <1>4 DEF LoopStep

\* The process: after a full drain everything recorded is in the last export.
LEMMA ServerInvariant ==
    ASSUME IInv, ServerStep
    PROVE  IInv'
  <1> USE DEF IInv, TypeOK, LoopChannel, RecordedFirst, AttachedCarried, Attached, DrainedReplied, Replied,
          ReleasedCarried, NothingLeftBehind, Running
  <1>1. CASE Sigterm
    BY <1>1 DEF Sigterm
  <1>2. CASE Drained
    BY <1>2 DEF Drained
  <1>3. CASE ShutdownTelemetry
    BY <1>3 DEF ShutdownTelemetry, Sent
  <1>4. CASE Kill
    BY <1>4 DEF Kill
  <1>5. QED
    BY <1>1, <1>2, <1>3, <1>4 DEF ServerStep

\* A step, stuttering included, preserves the invariant.
LEMMA NextInvariant == IInv /\ [Next]_vars => IInv'
  <1> SUFFICES ASSUME IInv, [Next]_vars PROVE IInv'
    OBVIOUS
  <1>1. CASE LoopStep
    BY <1>1, LoopInvariant
  <1>2. CASE \E r \in Requests : RequestStep(r)
    BY <1>2, RequestInvariant
  <1>3. CASE ServerStep
    BY <1>3, ServerInvariant
  <1>4. CASE UNCHANGED vars
    BY <1>4 DEF vars, IInv, TypeOK, LoopChannel, RecordedFirst, AttachedCarried, Attached, DrainedReplied,
       Replied, ReleasedCarried, NothingLeftBehind
  <1>5. QED
    BY <1>1, <1>2, <1>3, <1>4 DEF Next

\* The invariant holds in every state of every behaviour.
THEOREM Invariance == Spec => []IInv
  BY InitInvariant, NextInvariant, PTL DEF Spec

\* Every variable keeps its type, and the loop closes each channel it replaces.
THEOREM TypeCorrect == Spec => []TypeOK
  <1>1. IInv => TypeOK
    BY DEF IInv
  <1>2. QED
    BY <1>1, Invariance, PTL

\* A request released by its channel had its data in an export that has ended.
THEOREM ReleasedOnlyCarried == Spec => []ReleasedCarried
  <1>1. IInv => ReleasedCarried
    BY DEF IInv
  <1>2. QED
    BY <1>1, Invariance, PTL

\* A process that drained fully leaves no data behind.
THEOREM DrainedLeavesNothing == Spec => []NothingLeftBehind
  <1>1. IInv => NothingLeftBehind
    BY DEF IInv
  <1>2. QED
    BY <1>1, Invariance, PTL
=============================================================================
