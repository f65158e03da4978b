---------------------------- MODULE SharedFetch -----------------------------
(***************************************************************************)
(* What an instance remembers of the outside, and how the requests that    *)
(* miss it fetch it.  One key of one cache, which is, by kind:             *)
(*   branch     the config file of a branch: never kept                    *)
(*   commit     the config file of a commit, and the source of a run: the  *)
(*              source never changes; kept for ttl from when it was read   *)
(*   catalogue  the zones of a region, the machine types of a zone: kept   *)
(*              for ttl from when they were asked for; no shared fetch     *)
(*   token      an installation token: kept until shortly before it expires*)
(* A fetch that is shared runs in the request that began it, its leader.   *)
(* The value of a token is the time it expires, any other value is the     *)
(* version of the source (a file that is missing is a version too).        *)
(***************************************************************************)
EXTENDS Naturals

CONSTANTS
    Requests, Faults,
    Ttl,        \* how long an entry is kept
    Life,       \* how long GitHub lets a token live
    Margin,     \* tokenRefreshMargin
    FetchTime,  \* the deadline of a fetch
    MaxTime, MaxVersion   \* bounds of the model

\* outage: the source refuses or does not answer for some time
\* cancel: the client of a request goes away
AllFaults == {"outage", "cancel"}

Kinds == {"branch", "commit", "catalogue", "token"}

ASSUME FetchAssumption ==
    /\ Faults \subseteq AllFaults
    /\ Ttl \in Nat \ {0} /\ Life \in Nat /\ Margin \in Nat /\ FetchTime \in Nat
    /\ MaxTime \in Nat /\ MaxVersion \in Nat
    /\ Margin + FetchTime < Life

VARIABLES
    kind,     \* which cache this is
    now,      \* the clock
    source,   \* the version of the source
    since,    \* history: when each version came
    up,       \* whether the source answers
    entry,    \* the cached value and its stamp, or Nothing
    request,  \* each request for the key
    fetch     \* the fetch that each request leads

vars == <<kind, now, source, since, up, entry, request, fetch>>

Nothing == [value |-> 0, stamp |-> 0, kept |-> FALSE]

\* A request before it looks, and one that is through.
Request(r, pc) == [pc |-> pc, looked |-> 0, found |-> 0, on |-> r, value |-> 0]

Got(r, v) == [Request(r, "got") EXCEPT !.value = v]

NoFetch == [pc |-> "none", begun |-> 0, from |-> 0, value |-> 0, ok |-> FALSE, outage |-> FALSE]

Init ==
    /\ kind \in Kinds
    /\ now = 0
    /\ source = 0
    /\ since = [v \in 0 .. MaxVersion |-> 0]
    /\ up = TRUE
    /\ entry = Nothing
    /\ request = [r \in Requests |-> Request(r, "new")]
    /\ fetch = [r \in Requests |-> NoFetch]

Shared == kind # "catalogue"

InFlight(l) == fetch[l].pc # "none"

-----------------------------------------------------------------------------
(***************************************************************************)
(* A request.                                                              *)
(***************************************************************************)

\* Broken variant: a token is used until it expires.
FreshToTheEnd ==
    /\ entry.kept
    /\ CASE kind = "token" -> now < entry.stamp
         [] OTHER          -> now < entry.stamp + Ttl

Fresh ==
    /\ entry.kept
    /\ CASE kind = "token" -> now + Margin < entry.stamp
         [] OTHER          -> now < entry.stamp + Ttl

Look(r) ==
    /\ request[r].pc = "new"
    /\ request' = [request EXCEPT ![r] =
           IF Fresh THEN Got(r, entry.value)
                    ELSE [@ EXCEPT !.pc = "missed", !.looked = now, !.found = source]]
    /\ UNCHANGED <<kind, now, source, since, up, entry, fetch>>

\* Broken variant: a request that missed does not see the fetch in flight.
BeginAnyway(r) ==
    /\ request[r].pc = "missed"
    /\ request' = [request EXCEPT ![r].pc = "waiting"]
    /\ fetch' = [fetch EXCEPT ![r] = [NoFetch EXCEPT !.pc = "asking", !.begun = now,
                                                          !.from = source, !.outage = ~up]]
    /\ UNCHANGED <<kind, now, source, since, up, entry>>

\* No fetch of this key is in flight, or fetches are not shared.
Begin(r) ==
    /\ request[r].pc = "missed"
    /\ Shared => \A l \in Requests : ~InFlight(l)
    /\ request' = [request EXCEPT ![r].pc = "waiting"]
    /\ fetch' = [fetch EXCEPT ![r] = [NoFetch EXCEPT !.pc = "asking", !.begun = now,
                                                          !.from = source, !.outage = ~up]]
    /\ UNCHANGED <<kind, now, source, since, up, entry>>

Join(r) ==
    /\ request[r].pc = "missed"
    /\ Shared
    /\ \E l \in Requests : InFlight(l) /\ request' = [request EXCEPT ![r] = [@ EXCEPT !.pc = "waiting", !.on = l]]
    /\ UNCHANGED <<kind, now, source, since, up, entry, fetch>>

\* Broken variant: the fetch runs under the context of the request that leads it.
LeaveAndCancel(r) ==
    /\ "cancel" \in Faults
    /\ request[r].pc = "waiting"
    /\ kind \in {"token", "catalogue"}
    /\ request' = [request EXCEPT ![r] = Request(r, "left")]
    /\ fetch' = [fetch EXCEPT ![r] = IF @.pc = "asking" THEN [@ EXCEPT !.pc = "answered"] ELSE @]
    /\ UNCHANGED <<kind, now, source, since, up, entry>>

\* Broken variant: nobody is left to hand out the result of the fetch.
LeaveAndDrop(r) ==
    /\ "cancel" \in Faults
    /\ request[r].pc = "waiting"
    /\ kind \in {"token", "catalogue"}
    /\ request' = [request EXCEPT ![r] = Request(r, "left")]
    /\ fetch' = [fetch EXCEPT ![r] = NoFetch]
    /\ UNCHANGED <<kind, now, source, since, up, entry>>

\* Only the token cache selects on the request's context; a request for a config
\* file or a run's source waits in Do, whoever has gone.  A fetch that is not
\* shared ends with its request.
Leave(r) ==
    /\ "cancel" \in Faults
    /\ request[r].pc = "waiting"
    /\ kind \in {"token", "catalogue"}
    /\ request' = [request EXCEPT ![r] = Request(r, "left")]
    /\ fetch' = IF Shared THEN fetch ELSE [fetch EXCEPT ![r] = NoFetch]
    /\ UNCHANGED <<kind, now, source, since, up, entry>>

\* The next request comes along.
Again(r) ==
    /\ request[r].pc \in {"got", "failed", "left"}
    /\ request' = [request EXCEPT ![r] = Request(r, "new")]
    /\ UNCHANGED <<kind, now, source, since, up, entry, fetch>>

-----------------------------------------------------------------------------
(***************************************************************************)
(* A fetch.                                                                *)
(***************************************************************************)

Answer(l) ==
    /\ fetch[l].pc = "asking"
    /\ fetch' = [fetch EXCEPT ![l] = [@ EXCEPT !.pc = "answered", !.ok = up,
                                               !.value = IF kind = "token" THEN now + Life ELSE source]]
    /\ UNCHANGED <<kind, now, source, since, up, entry, request>>

\* Broken variant: every cache stamps what it keeps after it was read.
StampAfter(l) == IF kind = "token" THEN fetch[l].value ELSE now

Stamp(l) ==
    CASE kind = "token"  -> fetch[l].value
      [] kind = "commit" -> now
      [] OTHER           -> request[l].looked

\* Broken variant: the file of a branch is kept as that of a commit is.
FinishKeepsBranch(l) ==
    /\ fetch[l].pc = "answered"
    /\ entry' = IF fetch[l].ok
                THEN [value |-> fetch[l].value, stamp |-> Stamp(l), kept |-> TRUE]
                ELSE entry
    /\ fetch' = [fetch EXCEPT ![l] = NoFetch]
    /\ request' = [r \in Requests |->
           IF request[r].pc = "waiting" /\ request[r].on = l
           THEN IF fetch[l].ok THEN Got(r, fetch[l].value) ELSE Request(r, "failed")
           ELSE request[r]]
    /\ UNCHANGED <<kind, now, source, since, up>>

\* A success is kept, a failure is not; everyone who waits gets the value, or the
\* error.
Finish(l) ==
    /\ fetch[l].pc = "answered"
    /\ entry' = IF fetch[l].ok /\ kind # "branch"
                THEN [value |-> fetch[l].value, stamp |-> Stamp(l), kept |-> TRUE]
                ELSE entry
    /\ fetch' = [fetch EXCEPT ![l] = NoFetch]
    /\ request' = [r \in Requests |->
           IF request[r].pc = "waiting" /\ request[r].on = l
           THEN IF fetch[l].ok THEN Got(r, fetch[l].value) ELSE Request(r, "failed")
           ELSE request[r]]
    /\ UNCHANGED <<kind, now, source, since, up>>

-----------------------------------------------------------------------------
(***************************************************************************)
(* The source and time.                                                    *)
(***************************************************************************)

\* Somebody edits the file, or the region's zones and machine types change.
Change ==
    /\ kind \in {"branch", "catalogue"}
    /\ source < MaxVersion
    /\ source' = source + 1
    /\ since' = [since EXCEPT ![source + 1] = now]
    /\ UNCHANGED <<kind, now, up, entry, request, fetch>>

Outage ==
    /\ "outage" \in Faults
    /\ up
    /\ up' = FALSE
    /\ fetch' = [l \in Requests |-> [fetch[l] EXCEPT !.outage = @ \/ InFlight(l)]]
    /\ UNCHANGED <<kind, now, source, since, entry, request>>

Recover ==
    /\ ~up
    /\ up' = TRUE
    /\ UNCHANGED <<kind, now, source, since, entry, request, fetch>>

\* A fetch ends, one way or the other, by its deadline.
Tick ==
    /\ now < MaxTime
    /\ \A l \in Requests : InFlight(l) => now < fetch[l].begun + FetchTime
    /\ now' = now + 1
    /\ UNCHANGED <<kind, source, since, up, entry, request, fetch>>

-----------------------------------------------------------------------------
FetchStep(l) == Answer(l) \/ Finish(l)

RequestStep(r) == Again(r) \/ Look(r) \/ Begin(r) \/ Join(r) \/ Leave(r)

Next ==
    \/ \E r \in Requests : RequestStep(r) \/ FetchStep(r)
    \/ Change \/ Outage \/ Recover \/ Tick

Spec == Init /\ [][Next]_vars

\* A fetch that was begun ends: every call to the outside has a deadline.
FairSpec == Spec /\ \A l \in Requests : WF_vars(FetchStep(l))

-----------------------------------------------------------------------------
(***************************************************************************)
(* Properties.                                                             *)
(***************************************************************************)

Times == 0 .. MaxTime
Versions == 0 .. MaxVersion
Values == 0 .. MaxTime + MaxVersion + Life

\* The types, and that a shared fetch is the only one of its key.
TypeOK ==
    /\ kind \in Kinds
    /\ now \in Times
    /\ source \in Versions
    /\ since \in [Versions -> Times]
    /\ up \in BOOLEAN
    /\ entry \in [value : Values, stamp : Values, kept : BOOLEAN]
    /\ request \in [Requests -> [pc : {"new", "missed", "waiting", "got", "failed", "left"},
                                 looked : Times, found : Versions, on : Requests, value : Values]]
    /\ fetch \in [Requests -> [pc : {"none", "asking", "answered"}, begun : Times, from : Versions,
                               value : Values, ok : BOOLEAN, outage : BOOLEAN]]
    /\ Shared => \A l, m \in Requests : InFlight(l) /\ InFlight(m) => l = m

\* This step answers request r.
AnsweredWith(r, pc) == request[r].pc # pc /\ request'[r].pc = pc

\* When the request that this step answers looked into the cache.
Looked(r) == IF request[r].pc = "new" THEN now ELSE request[r].looked

\* The version of the source at that time.
Found(r) == IF request[r].pc = "new" THEN source ELSE request[r].found

\* Version v was current at some time after t.
CurrentAfter(v, t) == v = source \/ t < since[v + 1]

\* A catalogue is never too old: what a request gets was current less than Ttl before
\* the request looked, however slow its fetch was and whichever of several
\* fetches was written last (ZoneCache.list, MachineTypeCache.list).
CatalogueFresh == [][\A r \in Requests :
    kind = "catalogue" /\ AnsweredWith(r, "got") =>
        Looked(r) < Ttl \/ CurrentAfter(request'[r].value, Looked(r) - Ttl)]_vars

\* An edit of a branch's file shows in the next job, unless that job shares a fetch
\* that began before it came; that fetch is no older than its own beginning
\* (ConfigCache.load).
BranchFresh == [][\A r \in Requests :
    kind = "branch" /\ AnsweredWith(r, "got") =>
        \/ request'[r].value >= Found(r)
        \/ request[r].on # r /\ request'[r].value >= fetch[request[r].on].from]_vars

\* A request fails only because the source was down during the fetch it waited
\* for: not because another request of that fetch was cancelled, nor because of
\* a failure before the fetch began (context.WithoutCancel, "failed requests are
\* not remembered").
FailureObserved == [][\A r \in Requests :
    AnsweredWith(r, "failed") => fetch[request[r].on].outage]_vars

\* A token can be used for Margin after it is handed out, by whichever way it came
\* (tokenRefreshMargin).
TokenOutlives == [][\A r \in Requests :
    kind = "token" /\ AnsweredWith(r, "got") => now + Margin < request'[r].value]_vars

\* Every request that waits is answered, also when the request that leads its
\* fetch has gone.
Answered ==
    \A r \in Requests : request[r].pc = "waiting" ~> request[r].pc # "waiting"
=============================================================================
