---------------------------- MODULE MetricsFlush ----------------------------
(***************************************************************************)
(* The export of metrics: requests record data and, before they reply, ask *)
(* the one export loop of the instance for an export and wait for the one  *)
(* that carries their data; on SIGTERM the server drains and exports once  *)
(* more.                                                                   *)
(*                                                                         *)
(* The channel t.pending is a number: the loop makes the channels 0, 1, .. *)
(* one after another and closes them in that order, so those below closed  *)
(* are closed.  t.dirty holds one ask or none.  An export carries what the *)
(* instruments hold when it collects, which is all that was ever recorded. *)
(***************************************************************************)
EXTENDS Naturals

CONSTANTS Requests, Faults

\* exportFails: the collector refuses an export or does not answer in time
\* giveUp:      a request's client goes away, or exportTimeout passes
\* drainEnds:   drainTimeout passes with requests still in progress
\* kill:        the instance goes away without, or before, the last export
AllFaults == {"exportFails", "giveUp", "drainEnds", "kill"}

ASSUME FlushAssumption == Faults \subseteq AllFaults

VARIABLES
    request,    \* where each request stands and the channel it took
    recorded,   \* the requests whose data the instruments hold
    dirty,      \* whether an ask waits in t.dirty
    pending,    \* the channel in t.pending
    closed,     \* the channels below this one are closed
    loop,       \* the export loop: the channel it will close, what it carries
    server,     \* the process
    cut,        \* history: drainTimeout ended the drain
    exported,   \* history: the requests whose data reached the collector
    dropped     \* history: those whose data was in an export that failed

vars == <<request, recorded, dirty, pending, closed, loop, server, cut, exported, dropped>>

Init ==
    /\ request = [r \in Requests |-> [pc |-> "none", flushed |-> 0]]
    /\ recorded = {}
    /\ dirty = FALSE
    /\ pending = 0
    /\ closed = 0
    /\ loop = [pc |-> "idle", done |-> 0, carries |-> {}]
    /\ server = "serving"
    /\ cut = FALSE
    /\ exported = {}
    /\ dropped = {}

Running == server \in {"serving", "draining", "flushing"}

At(r, pc) == Running /\ request[r].pc = pc

\* An export that carried these requests' data ends.
Sent(carried) ==
    \/ exported' = exported \cup carried /\ UNCHANGED dropped
    \/ /\ "exportFails" \in Faults
       /\ dropped' = dropped \cup carried
       /\ UNCHANGED exported

-----------------------------------------------------------------------------
(***************************************************************************)
(* Requests.                                                               *)
(***************************************************************************)

Accept(r) ==
    /\ server = "serving"
    /\ At(r, "none")
    /\ request' = [request EXCEPT ![r].pc = "accepted"]
    /\ UNCHANGED <<recorded, dirty, pending, closed, loop, server, cut, exported, dropped>>

\* recordJob or recordTask; flushMetrics is deferred and runs next.
Record(r) ==
    /\ At(r, "accepted")
    /\ request' = [request EXCEPT ![r].pc = "recorded"]
    /\ recorded' = recorded \cup {r}
    /\ UNCHANGED <<dirty, pending, closed, loop, server, cut, exported, dropped>>

TakePending(r) ==
    /\ At(r, "recorded")
    /\ request' = [request EXCEPT ![r] = [pc |-> "took", flushed |-> pending]]
    /\ UNCHANGED <<recorded, dirty, pending, closed, loop, server, cut, exported, dropped>>

\* Broken variant: no ask while an export runs, as if that one would do.
AskUnlessBusy(r) ==
    /\ At(r, "took")
    /\ request' = [request EXCEPT ![r].pc = "waiting"]
    /\ dirty' = (dirty \/ loop.pc = "idle")
    /\ UNCHANGED <<recorded, pending, closed, loop, server, cut, exported, dropped>>

\* With an ask waiting already, this one is dropped.
Ask(r) ==
    /\ At(r, "took")
    /\ request' = [request EXCEPT ![r].pc = "waiting"]
    /\ dirty' = TRUE
    /\ UNCHANGED <<recorded, pending, closed, loop, server, cut, exported, dropped>>

Release(r) ==
    /\ At(r, "waiting")
    /\ request[r].flushed < closed
    /\ request' = [request EXCEPT ![r].pc = "released"]
    /\ UNCHANGED <<recorded, dirty, pending, closed, loop, server, cut, exported, dropped>>

GiveUp(r) ==
    /\ "giveUp" \in Faults
    /\ At(r, "waiting")
    /\ request' = [request EXCEPT ![r].pc = "gaveUp"]
    /\ UNCHANGED <<recorded, dirty, pending, closed, loop, server, cut, exported, dropped>>

-----------------------------------------------------------------------------
(***************************************************************************)
(* exportLoop.                                                             *)
(***************************************************************************)

LoopAt(pc) == Running /\ loop.pc = pc

Receive ==
    /\ LoopAt("idle")
    /\ dirty
    /\ dirty' = FALSE
    /\ loop' = [loop EXCEPT !.pc = "asked"]
    /\ UNCHANGED <<request, recorded, pending, closed, server, cut, exported, dropped>>

Swap ==
    /\ LoopAt("asked")
    /\ loop' = [loop EXCEPT !.pc = "flush", !.done = pending]
    /\ pending' = pending + 1
    /\ UNCHANGED <<request, recorded, dirty, closed, server, cut, exported, dropped>>

\* ForceFlush collects.
Collect ==
    /\ LoopAt("flush")
    /\ loop' = [loop EXCEPT !.pc = "export", !.carries = recorded]
    /\ UNCHANGED <<request, recorded, dirty, pending, closed, server, cut, exported, dropped>>

\* Broken variant: after a failed export the loop goes on without closing.
CloseOnSuccess ==
    /\ LoopAt("export")
    /\ Sent(loop.carries)
    /\ closed' = IF dropped' = dropped THEN loop.done + 1 ELSE closed
    /\ loop' = [loop EXCEPT !.pc = "idle"]
    /\ UNCHANGED <<request, recorded, dirty, pending, server, cut>>

\* Broken variant: the channel is replaced when the export has ended, so that
\* a request that comes while it runs waits for it.
CloseThenSwap ==
    /\ LoopAt("export")
    /\ Sent(loop.carries)
    /\ closed' = pending + 1
    /\ pending' = pending + 1
    /\ loop' = [loop EXCEPT !.pc = "idle"]
    /\ UNCHANGED <<request, recorded, dirty, server, cut>>

\* ForceFlush returns, with an error or not, and the channel is closed.
Close ==
    /\ LoopAt("export")
    /\ Sent(loop.carries)
    /\ closed' = loop.done + 1
    /\ loop' = [loop EXCEPT !.pc = "idle"]
    /\ UNCHANGED <<request, recorded, dirty, pending, server, cut>>

-----------------------------------------------------------------------------
(***************************************************************************)
(* The process: main and ShutdownTelemetry.                                *)
(***************************************************************************)

Sigterm ==
    /\ server = "serving"
    /\ server' = "draining"
    /\ UNCHANGED <<request, recorded, dirty, pending, closed, loop, cut, exported, dropped>>

Replied(r) == request[r].pc \in {"none", "released", "gaveUp"}

\* Broken variant: main does not wait for the requests in progress.
DrainedAtOnce ==
    /\ server = "draining"
    /\ server' = "flushing"
    /\ UNCHANGED <<request, recorded, dirty, pending, closed, loop, cut, exported, dropped>>

\* server.Shutdown returns when no request is in progress, or with an error
\* when drainTimeout passes; main goes on in both cases.
Drained ==
    /\ server = "draining"
    /\ \/ (\A r \in Requests : Replied(r)) /\ UNCHANGED cut
       \/ "drainEnds" \in Faults /\ cut' = TRUE
    /\ server' = "flushing"
    /\ UNCHANGED <<request, recorded, dirty, pending, closed, loop, exported, dropped>>

\* provider.Shutdown lets an export in progress end, and exports once more.
ShutdownTelemetry ==
    /\ server = "flushing"
    /\ loop.pc # "export"
    /\ Sent(recorded)
    /\ server' = "down"
    /\ UNCHANGED <<request, recorded, dirty, pending, closed, loop, cut>>

Kill ==
    /\ "kill" \in Faults
    /\ Running
    /\ server' = "killed"
    /\ UNCHANGED <<request, recorded, dirty, pending, closed, loop, cut, exported, dropped>>

-----------------------------------------------------------------------------
LoopStep == Receive \/ Swap \/ Collect \/ Close

RequestStep(r) == Accept(r) \/ Record(r) \/ TakePending(r) \/ Ask(r) \/ Release(r) \/ GiveUp(r)

ServerStep == Sigterm \/ Drained \/ ShutdownTelemetry \/ Kill

Next ==
    \/ LoopStep
    \/ \E r \in Requests : RequestStep(r)
    \/ ServerStep

Spec == Init /\ [][Next]_vars

\* The loop's goroutine keeps running: ForceFlush has a deadline.  Nothing is
\* assumed of the timers a waiting request can give up on.
FairSpec == Spec /\ WF_vars(LoopStep) /\ \A r \in Requests : WF_vars(Release(r))

-----------------------------------------------------------------------------
(***************************************************************************)
(* Properties.                                                             *)
(***************************************************************************)

\* The types, and that at most one channel is neither pending nor closed
\* (exportLoop closes every channel it replaces).
TypeOK ==
    /\ request \in [Requests -> [pc : {"none", "accepted", "recorded", "took", "waiting", "released", "gaveUp"},
                                 flushed : Nat]]
    /\ recorded \subseteq Requests
    /\ dirty \in BOOLEAN
    /\ closed \in Nat
    /\ pending \in {closed, closed + 1}
    /\ loop \in [pc : {"idle", "asked", "flush", "export"}, done : Nat, carries : SUBSET Requests]
    /\ server \in {"serving", "draining", "flushing", "down", "killed"}
    /\ cut \in BOOLEAN
    /\ exported \subseteq Requests
    /\ dropped \subseteq Requests

\* A request that is released by its channel, and not by a timer, had its data
\* in an export that has ended: nobody waits for an export that began too early
\* to carry what it recorded (flushMetrics against exportLoop).
ReleasedCarried ==
    \A r \in Requests : request[r].pc = "released" => r \in exported \cup dropped

\* When the drain was not cut short no data stays behind in the process that
\* ends: whatever was accepted is in some export, although most requests may have
\* given up waiting for theirs (main: drain first, then ShutdownTelemetry).
NothingLeftBehind ==
    (server = "down" /\ ~cut) =>
        \A r \in Requests : request[r].pc # "none" => r \in exported \cup dropped

\* Whoever waits is answered by the loop alone: the ask that a request drops
\* because one is waiting already is not lost, whatever the loop is doing
\* (flushMetrics' default branch).
AskAnswered ==
    \A r \in Requests : request[r].pc = "waiting" ~> (request[r].pc # "waiting" \/ ~Running)
=============================================================================
