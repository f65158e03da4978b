------------------------- MODULE SharedFetchProofs --------------------------
(***************************************************************************)
(* What a request gets from a cache or from a fetch that others share, for *)
(* any number of requests, any lifetimes and deadlines.                    *)
(***************************************************************************)
EXTENDS SharedFetch, TLAPS

\* A request waits for the fetch of another only where fetches are shared, and it
\* looked at the cache, and at the source, some time ago.
RequestsOK ==
    \A r \in Requests :
        /\ request[r].looked <= now /\ request[r].found <= source
        /\ (request[r].pc # "waiting" \/ ~Shared) => request[r].on = r

\* A fetch is within its deadline, and its answer, while it is on its way to those
\* who wait, is of the source as it was after the fetch began.
Answers(l) ==
    fetch[l].pc = "answered" =>
        /\ ~fetch[l].ok => fetch[l].outage
        /\ kind = "token" => fetch[l].begun + Life <= fetch[l].value
        /\ kind # "token" => fetch[l].from <= fetch[l].value /\ fetch[l].value <= source

Timely(l) ==
    /\ fetch[l].begun <= now /\ now <= fetch[l].begun + FetchTime
    /\ ~up => fetch[l].outage

\* Only a token's fetch goes on without its leader.  Any other leader waits for it,
\* and found no newer version when it looked than its fetch began with.
Led(l) ==
    kind # "token" =>
        /\ request[l].pc = "waiting" /\ request[l].on = l
        /\ request[l].found <= fetch[l].from
        /\ fetch[l].from <= source

\* A version that was current at time t or later.
CurrentAt(v, t) == v = source \/ t <= since[v + 1]

FetchOK(l) ==
    InFlight(l) =>
        /\ Answers(l) /\ Timely(l) /\ Led(l)
        /\ (kind = "catalogue" /\ fetch[l].pc = "answered") =>
               CurrentAt(fetch[l].value, request[l].looked)

FetchesOK == \A l \in Requests : FetchOK(l)

\* What is kept.
EntryOK ==
    entry.kept =>
        /\ kind # "branch"
        /\ kind = "token" => entry.value = entry.stamp
        /\ kind = "catalogue" =>
               entry.stamp <= now /\ entry.value <= source /\ CurrentAt(entry.value, entry.stamp)

\* The inductive invariant.
IInv == TypeOK /\ RequestsOK /\ FetchesOK /\ EntryOK

-----------------------------------------------------------------------------
RequestType == [pc : {"new", "missed", "waiting", "got", "failed", "left"},
                looked : Times, found : Versions, on : Requests, value : Values]

FetchType == [pc : {"none", "asking", "answered"}, begun : Times, from : Versions,
              value : Values, ok : BOOLEAN, outage : BOOLEAN]

EntryType == [value : Values, stamp : Values, kept : BOOLEAN]

\* The bounds are numbers, and the sets of the types are made of them.
LEMMA Numbers ==
    /\ Ttl \in Nat \ {0} /\ Life \in Nat /\ Margin \in Nat /\ FetchTime \in Nat
    /\ MaxTime \in Nat /\ MaxVersion \in Nat
    /\ Margin + FetchTime < Life
    /\ 0 \in Times /\ 0 \in Versions /\ 0 \in Values
    /\ Times \subseteq Values /\ Versions \subseteq Values
    /\ \A t \in Times : t + Life \in Values
    /\ Times \subseteq Nat /\ Versions \subseteq Nat /\ Values \subseteq Nat
  BY FetchAssumption DEF Times, Versions, Values

\* Nothing is kept and no fetch runs in the beginning.
LEMMA Blank ==
    /\ Nothing \in EntryType /\ ~Nothing.kept
    /\ NoFetch \in FetchType /\ NoFetch.pc = "none"
  BY Numbers DEF Nothing, EntryType, NoFetch, FetchType

\* A request before it looks, and one that is through.
LEMMA BlankRequest ==
    ASSUME NEW r \in Requests, NEW pc \in {"new", "failed", "left"}
    PROVE  /\ Request(r, pc) \in RequestType /\ Request(r, pc).pc = pc
           /\ Request(r, pc).looked = 0 /\ Request(r, pc).found = 0 /\ Request(r, pc).on = r
  BY Numbers DEF Request, RequestType

\* A request that got its value.
LEMMA GotRequest ==
    ASSUME NEW r \in Requests, NEW v \in Values
    PROVE  /\ Got(r, v) \in RequestType /\ Got(r, v).pc = "got" /\ Got(r, v).value = v
           /\ Got(r, v).looked = 0 /\ Got(r, v).found = 0 /\ Got(r, v).on = r
  BY Numbers DEF Got, Request, RequestType

\* The initial states satisfy the invariant.
LEMMA InitInvariant == Init => IInv
  <1> SUFFICES ASSUME Init PROVE IInv
    OBVIOUS
  <1>1. TypeOK
    <2>1. kind \in Kinds /\ now \in Times /\ source \in Versions /\ up \in BOOLEAN
      BY Numbers DEF Init
    <2>2. since \in [Versions -> Times]
      BY Numbers DEF Init, Versions
    <2>3. entry \in EntryType /\ request \in [Requests -> RequestType] /\ fetch \in [Requests -> FetchType]
      BY Blank, BlankRequest DEF Init
    <2>4. \A l \in Requests : ~InFlight(l)
      BY Blank DEF Init, InFlight
    <2>5. QED
      BY <2>1, <2>2, <2>3, <2>4 DEF TypeOK, RequestType, FetchType, EntryType
  <1>2. RequestsOK /\ FetchesOK /\ EntryOK
    <2>1. \A r \in Requests : /\ request[r].looked = 0 /\ request[r].found = 0
                               /\ request[r].on = r
      BY BlankRequest DEF Init
    <2>2. now = 0 /\ source = 0 /\ ~entry.kept /\ \A l \in Requests : ~InFlight(l)
      BY Blank DEF Init, InFlight
    <2>3. QED
      BY <2>1, <2>2 DEF RequestsOK, FetchesOK, FetchOK, EntryOK
  <1>3. QED
    BY <1>1, <1>2 DEF IInv

\* A step of one request and the fetch it leads.
LEMMA OneChanges ==
    ASSUME IInv, NEW r \in Requests, NEW new \in RequestType, NEW f \in FetchType,
           request' = [request EXCEPT ![r] = new],
           fetch' = [fetch EXCEPT ![r] = f],
           UNCHANGED <<kind, now, source, since, up, entry>>,
           new.looked <= now /\ new.found <= source,
           (new.pc # "waiting" \/ ~Shared) => new.on = r,
           (Shared /\ f.pc # "none") => \A l \in Requests : InFlight(l) => l = r,
           FetchOK(r)'
    PROVE  IInv'
  <1>1. /\ request' \in [Requests -> RequestType] /\ fetch' \in [Requests -> FetchType]
        /\ request'[r] = new /\ fetch'[r] = f
        /\ \A q \in Requests \ {r} : request'[q] = request[q] /\ fetch'[q] = fetch[q]
    BY DEF IInv, TypeOK, RequestType, FetchType
  <1>2. TypeOK'
    BY <1>1 DEF IInv, TypeOK, RequestType, FetchType, InFlight, Shared
  <1>3. RequestsOK'
    BY <1>1 DEF IInv, RequestsOK, Shared
  <1>4. FetchesOK'
    <2> SUFFICES ASSUME NEW l \in Requests PROVE FetchOK(l)'
      BY DEF FetchesOK
    <2>1. CASE l = r
      BY <2>1
    <2>2. CASE l # r
      BY <1>1, <2>2 DEF IInv, FetchesOK, FetchOK, InFlight, Answers, Timely, Led, CurrentAt
    <2>3. QED
      BY <2>1, <2>2
  <1>5. EntryOK'
    BY DEF IInv, EntryOK, CurrentAt
  <1>6. QED
    BY <1>2, <1>3, <1>4, <1>5 DEF IInv

\* Only a token's leader is anywhere but waiting while its fetch goes on.
LEMMA NotLeading ==
    ASSUME IInv, NEW r \in Requests, request[r].pc # "waiting"
    PROVE  InFlight(r) => kind = "token"
  BY DEF IInv, FetchesOK, FetchOK, Led

\* A step of one request that leaves its fetch alone.
LEMMA RequestChanges ==
    ASSUME IInv, NEW r \in Requests, NEW new \in RequestType,
           request' = [request EXCEPT ![r] = new],
           UNCHANGED <<kind, now, source, since, up, entry, fetch>>,
           new.looked <= now /\ new.found <= source,
           (new.pc # "waiting" \/ ~Shared) => new.on = r,
           InFlight(r) => kind = "token"
    PROVE  IInv'
  <1>1. fetch[r] \in FetchType /\ fetch' = [fetch EXCEPT ![r] = fetch[r]]
    BY DEF IInv, TypeOK, FetchType
  <1>2. FetchOK(r)'
    BY DEF IInv, FetchesOK, FetchOK, InFlight, Answers, Timely, Led
  <1>3. (Shared /\ fetch[r].pc # "none") => \A l \in Requests : InFlight(l) => l = r
    BY DEF IInv, TypeOK, InFlight
  <1>4. QED
    BY <1>1, <1>2, <1>3, OneChanges

-----------------------------------------------------------------------------
(***************************************************************************)
(* Requests.                                                               *)
(***************************************************************************)

\* Whatever a request finds, it looked now.
LEMMA LookStep == ASSUME IInv, NEW r \in Requests, Look(r) PROVE IInv'
  <1> DEFINE missed == [request[r] EXCEPT !.pc = "missed", !.looked = now, !.found = source]
             new == IF Fresh THEN Got(r, entry.value) ELSE missed
  <1>1. /\ request[r] \in RequestType /\ request[r].pc = "new"
        /\ request' = [request EXCEPT ![r] = new]
        /\ UNCHANGED <<kind, now, source, since, up, entry, fetch>>
    BY DEF Look, IInv, TypeOK, RequestType
  <1>2. /\ missed \in RequestType /\ missed.pc = "missed" /\ missed.on = request[r].on
        /\ missed.looked = now /\ missed.found = source
    BY <1>1 DEF IInv, TypeOK, RequestType
  <1>3. missed.on = r
    BY <1>1, <1>2 DEF IInv, RequestsOK
  <1>4. entry.value \in Values /\ now \in Nat /\ source \in Nat
    BY Numbers DEF IInv, TypeOK
  <1>5. /\ new \in RequestType /\ new.on = r
        /\ new.looked <= now /\ new.found <= source
    BY <1>2, <1>3, <1>4, GotRequest
  <1>6. InFlight(r) => kind = "token"
    BY <1>1, NotLeading
  <1> HIDE DEF new
  <1>7. QED
    BY <1>1, <1>5, <1>6, RequestChanges

\* A new fetch of a shared key is the only one, and younger than its leader.
LEMMA BeginStep == ASSUME IInv, NEW r \in Requests, Begin(r) PROVE IInv'
  <1> DEFINE new == [request[r] EXCEPT !.pc = "waiting"]
             f == [NoFetch EXCEPT !.pc = "asking", !.begun = now, !.from = source, !.outage = ~up]
  <1>1. /\ request[r] \in RequestType /\ request[r].pc = "missed" /\ request[r].on = r
        /\ request[r].looked <= now /\ request[r].found <= source
    BY DEF Begin, IInv, TypeOK, RequestsOK, RequestType
  <1>2. /\ new \in RequestType /\ new.pc = "waiting" /\ new.on = r
        /\ new.looked = request[r].looked /\ new.found = request[r].found
    BY <1>1 DEF RequestType
  <1>3. /\ f \in FetchType /\ f.pc = "asking" /\ f.begun = now /\ f.from = source /\ f.outage = ~up
    BY Numbers DEF IInv, TypeOK, NoFetch, FetchType
  <1>4. /\ request' = [request EXCEPT ![r] = new] /\ fetch' = [fetch EXCEPT ![r] = f]
        /\ UNCHANGED <<kind, now, source, since, up, entry>>
        /\ Shared => \A l \in Requests : ~InFlight(l)
    BY DEF Begin
  <1> HIDE DEF new, f
  <1>5. request'[r] = new /\ fetch'[r] = f
    BY <1>4 DEF IInv, TypeOK
  <1>6. now \in Nat /\ source \in Nat /\ FetchTime \in Nat
    BY Numbers DEF IInv, TypeOK
  <1>7. FetchOK(r)'
    <2>1. Answers(r)' /\ fetch'[r].pc # "answered"
      BY <1>3, <1>5 DEF Answers
    <2>2. Timely(r)'
      <3>1. up' = up /\ fetch'[r].outage = ~up
        BY <1>3, <1>4, <1>5
      <3>2. ~up' => fetch'[r].outage
        BY <3>1, Zenon
      <3>3. fetch'[r].begun <= now' /\ now' <= fetch'[r].begun + FetchTime
        BY <1>3, <1>4, <1>5, <1>6
      <3>4. QED
        BY <3>2, <3>3 DEF Timely
    <2>3. Led(r)'
      BY <1>1, <1>2, <1>3, <1>4, <1>5, <1>6 DEF Led
    <2>4. QED
      BY <2>1, <2>2, <2>3 DEF FetchOK
  <1>8. QED
    BY <1>1, <1>2, <1>3, <1>4, <1>7, OneChanges

\* Who joins a fetch waits for it and changes nothing else.
LEMMA JoinStep == ASSUME IInv, NEW r \in Requests, Join(r) PROVE IInv'
  <1>1. PICK l \in Requests : request' = [request EXCEPT ![r] = [@ EXCEPT !.pc = "waiting", !.on = l]]
    BY DEF Join
  <1> DEFINE new == [request[r] EXCEPT !.pc = "waiting", !.on = l]
  <1>2. /\ request[r] \in RequestType /\ request[r].pc = "missed"
        /\ request[r].looked <= now /\ request[r].found <= source
    BY DEF Join, IInv, TypeOK, RequestsOK, RequestType
  <1>3. /\ new \in RequestType /\ new.pc = "waiting"
        /\ new.looked = request[r].looked /\ new.found = request[r].found
    BY <1>2 DEF RequestType
  <1>4. /\ request' = [request EXCEPT ![r] = new] /\ Shared
        /\ UNCHANGED <<kind, now, source, since, up, entry, fetch>>
    BY <1>1 DEF Join
  <1>5. InFlight(r) => kind = "token"
    BY <1>2, NotLeading
  <1> HIDE DEF new
  <1>6. QED
    BY <1>2, <1>3, <1>4, <1>5, RequestChanges

\* A token's fetch goes on without its leader, a catalogue's ends with it.
LEMMA LeaveStep == ASSUME IInv, NEW r \in Requests, Leave(r) PROVE IInv'
  <1> DEFINE new == Request(r, "left")
  <1>1. /\ request' = [request EXCEPT ![r] = new]
        /\ UNCHANGED <<kind, now, source, since, up, entry>>
        /\ kind \in {"token", "catalogue"}
        /\ fetch' = IF Shared THEN fetch ELSE [fetch EXCEPT ![r] = NoFetch]
    BY DEF Leave
  <1>2. /\ new \in RequestType /\ new.on = r
        /\ new.looked <= now /\ new.found <= source
    BY BlankRequest, Numbers DEF IInv, TypeOK
  <1> HIDE DEF new
  <1>3. CASE Shared
    BY <1>1, <1>2, <1>3, RequestChanges DEF Shared
  <1>4. CASE ~Shared
    <2>1. fetch' = [fetch EXCEPT ![r] = NoFetch] /\ fetch'[r] = NoFetch
      BY <1>1, <1>4 DEF IInv, TypeOK
    <2>2. FetchOK(r)'
      BY <2>1, Blank DEF FetchOK, InFlight
    <2>3. NoFetch \in FetchType
      BY Blank
    <2>4. QED
      BY <1>1, <1>2, <1>4, <2>1, <2>2, <2>3, OneChanges
  <1>5. QED
    BY <1>3, <1>4

\* The next request knows nothing of the one before.
LEMMA AgainStep == ASSUME IInv, NEW r \in Requests, Again(r) PROVE IInv'
  <1> DEFINE new == Request(r, "new")
  <1>1. /\ request' = [request EXCEPT ![r] = new]
        /\ UNCHANGED <<kind, now, source, since, up, entry, fetch>>
        /\ request[r].pc # "waiting"
    BY DEF Again
  <1>2. /\ new \in RequestType /\ new.on = r
        /\ new.looked <= now /\ new.found <= source
    BY BlankRequest, Numbers DEF IInv, TypeOK
  <1>3. InFlight(r) => kind = "token"
    BY <1>1, NotLeading
  <1> HIDE DEF new
  <1>4. QED
    BY <1>1, <1>2, <1>3, RequestChanges

-----------------------------------------------------------------------------
(***************************************************************************)
(* Fetches.                                                                *)
(***************************************************************************)

\* What the source answers is of this moment; a refusal is of an outage.
LEMMA AnswerStep == ASSUME IInv, NEW l \in Requests, Answer(l) PROVE IInv'
  <1> DEFINE v == IF kind = "token" THEN now + Life ELSE source
             f == [fetch[l] EXCEPT !.pc = "answered", !.ok = up, !.value = v]
  <1>1. /\ fetch[l] \in FetchType /\ fetch[l].pc = "asking"
        /\ fetch' = [fetch EXCEPT ![l] = f]
        /\ UNCHANGED <<kind, now, source, since, up, entry, request>>
    BY DEF Answer, IInv, TypeOK, FetchType
  <1>2. now \in Times /\ source \in Versions /\ up \in BOOLEAN /\ v \in Values
    BY Numbers DEF IInv, TypeOK
  <1>3. /\ f \in FetchType /\ f.pc = "answered" /\ f.ok = up /\ f.value = v
        /\ f.begun = fetch[l].begun /\ f.from = fetch[l].from /\ f.outage = fetch[l].outage
    BY <1>1, <1>2 DEF FetchType
  <1>4. /\ request[l] \in RequestType /\ request' = [request EXCEPT ![l] = request[l]]
        /\ request[l].looked <= now /\ request[l].found <= source
        /\ (request[l].pc # "waiting" \/ ~Shared) => request[l].on = l
    BY <1>1 DEF IInv, TypeOK, RequestType, RequestsOK
  <1>5. InFlight(l) /\ Timely(l) /\ Led(l)
    BY <1>1 DEF InFlight, IInv, FetchesOK, FetchOK
  <1> HIDE DEF f
  <1>6. fetch'[l] = f /\ request'[l] = request[l]
    BY <1>1 DEF IInv, TypeOK
  <1>7. Timely(l)' /\ Led(l)'
    BY <1>1, <1>3, <1>5, <1>6 DEF Timely, Led
  <1>8. Answers(l)'
    <2>1. ~fetch'[l].ok => fetch'[l].outage
      <3>1. fetch'[l].ok = up /\ fetch'[l].outage = fetch[l].outage /\ (~up => fetch[l].outage)
        BY <1>3, <1>5, <1>6 DEF Timely
      <3>2. QED
        BY <3>1, Zenon
    <2>2. kind = "token" => fetch[l].begun <= now
      BY <1>5 DEF Timely
    <2>3. kind' = "token" => fetch'[l].begun + Life <= fetch'[l].value
      <3>1. now \in Nat /\ Life \in Nat /\ fetch[l].begun \in Nat
        BY <1>1, <1>2, Numbers DEF FetchType
      <3>2. kind = "token" => fetch'[l].value = now + Life
        BY <1>3, <1>6
      <3>3. fetch'[l].begun = fetch[l].begun /\ kind' = kind
        BY <1>1, <1>3, <1>6
      <3>4. QED
        BY <2>2, <3>1, <3>2, <3>3
    <2>4. kind' # "token" => fetch'[l].from <= fetch'[l].value /\ fetch'[l].value <= source'
      BY <1>1, <1>2, <1>3, <1>5, <1>6, Numbers DEF Led
    <2>5. QED
      BY <2>1, <2>3, <2>4 DEF Answers
  <1>9. kind' = "catalogue" => CurrentAt(fetch[l].value, request[l].looked)'
    BY <1>1, <1>3, <1>6 DEF CurrentAt
  <1>10. FetchOK(l)'
    BY <1>7, <1>8, <1>9 DEF FetchOK
  <1>11. (Shared /\ f.pc # "none") => \A m \in Requests : InFlight(m) => m = l
    BY <1>5 DEF IInv, TypeOK
  <1>12. QED
    BY <1>1, <1>3, <1>4, <1>10, <1>11, OneChanges

\* What is kept and handed out is what the fetch answered.
LEMMA FinishStep == ASSUME IInv, NEW l \in Requests, Finish(l) PROVE IInv'
  <1> DEFINE told(r) == IF fetch[l].ok THEN Got(r, fetch[l].value) ELSE Request(r, "failed")
             waits(r) == request[r].pc = "waiting" /\ request[r].on = l
             kept == [value |-> fetch[l].value, stamp |-> Stamp(l), kept |-> TRUE]
  <1>1. /\ fetch[l] \in FetchType /\ fetch[l].pc = "answered"
        /\ request' = [r \in Requests |-> IF waits(r) THEN told(r) ELSE request[r]]
        /\ fetch' = [fetch EXCEPT ![l] = NoFetch]
        /\ entry' = IF fetch[l].ok /\ kind # "branch" THEN kept ELSE entry
        /\ UNCHANGED <<kind, now, source, since, up>>
    BY DEF Finish, IInv, TypeOK, FetchType
  <1>2. InFlight(l) /\ Answers(l) /\ Led(l)
        /\ (kind = "catalogue" => CurrentAt(fetch[l].value, request[l].looked))
    BY <1>1 DEF InFlight, IInv, FetchesOK, FetchOK
  <1>3. /\ now \in Times /\ source \in Versions /\ fetch[l].value \in Values
        /\ request[l].looked \in Times /\ request[l].looked <= now
    BY <1>1 DEF IInv, TypeOK, RequestsOK, FetchType
  <1>4. Stamp(l) \in Values
    <2>1. CASE kind = "token"
      BY <1>3, <2>1 DEF Stamp
    <2>2. CASE kind = "commit"
      BY <1>3, <2>2, Numbers DEF Stamp
    <2>3. CASE kind \notin {"token", "commit"}
      BY <1>3, <2>3, Numbers DEF Stamp
    <2>4. QED
      BY <2>1, <2>2, <2>3
  <1>5. kept \in EntryType /\ kept.value = fetch[l].value /\ kept.stamp = Stamp(l) /\ kept.kept
    BY <1>3, <1>4 DEF EntryType
  <1>6. ASSUME NEW r \in Requests
        PROVE  /\ told(r) \in RequestType /\ told(r).pc # "waiting" /\ told(r).on = r
               /\ told(r).looked = 0 /\ told(r).found = 0
    <2>1. CASE fetch[l].ok
      <3>1. told(r) = Got(r, fetch[l].value)
        BY <2>1
      <3> HIDE DEF told
      <3>2. QED
        BY <1>3, <3>1, GotRequest
    <2>2. CASE ~fetch[l].ok
      <3>1. told(r) = Request(r, "failed")
        BY <2>2
      <3> HIDE DEF told
      <3>2. QED
        BY <3>1, BlankRequest
    <2>3. QED
      BY <2>1, <2>2
  <1> HIDE DEF told, kept
  <1>7. \A r \in Requests : request'[r] = IF waits(r) THEN told(r) ELSE request[r]
    BY <1>1
  <1>8. /\ NoFetch \in FetchType /\ fetch'[l] = NoFetch /\ fetch' \in [Requests -> FetchType]
        /\ \A m \in Requests \ {l} : fetch'[m] = fetch[m]
    BY <1>1, Blank DEF IInv, TypeOK, FetchType
  <1>9. TypeOK'
    <2>1. request' \in [Requests -> RequestType]
      BY <1>1, <1>6 DEF IInv, TypeOK, RequestType
    <2>2. entry' \in EntryType
      BY <1>1, <1>5 DEF IInv, TypeOK, EntryType
    <2>3. (Shared => \A m, n \in Requests : InFlight(m) /\ InFlight(n) => m = n)'
      BY <1>1, <1>8, Blank DEF IInv, TypeOK, InFlight, Shared
    <2>4. kind' \in Kinds /\ now' \in Times /\ source' \in Versions /\ since' \in [Versions -> Times] /\ up' \in BOOLEAN
      BY <1>1 DEF IInv, TypeOK
    <2>5. QED
      BY <1>8, <2>1, <2>2, <2>3, <2>4 DEF TypeOK, RequestType, FetchType, EntryType
  <1>10. RequestsOK'
    <2> SUFFICES ASSUME NEW r \in Requests
        PROVE /\ request'[r].looked <= now' /\ request'[r].found <= source'
              /\ (request'[r].pc # "waiting" \/ ~Shared') => request'[r].on = r
      BY DEF RequestsOK
    <2>1. CASE waits(r)
      <3>1. request'[r] = told(r) /\ now' = now /\ source' = source /\ now \in Nat /\ source \in Nat
        BY <1>1, <1>3, <1>7, <2>1, Numbers
      <3>2. QED
        BY <1>6, <3>1
    <2>2. CASE ~waits(r)
      <3>1. request'[r] = request[r] /\ now' = now /\ source' = source /\ kind' = kind
        BY <1>1, <1>7, <2>2
      <3>2. QED
        BY <3>1 DEF IInv, RequestsOK, Shared
    <2>3. QED
      BY <2>1, <2>2
  <1>11. FetchesOK'
    <2> SUFFICES ASSUME NEW m \in Requests, InFlight(m)' PROVE FetchOK(m)'
      BY DEF FetchesOK, FetchOK
    <2>1. m # l /\ fetch'[m] = fetch[m] /\ InFlight(m)
      BY <1>8, Blank DEF InFlight
    <2>2. FetchOK(m)
      BY DEF IInv, FetchesOK
    <2>3. kind # "token" => request'[m] = request[m]
      BY <1>7, <2>1, <2>2 DEF FetchOK, Led
    <2>4. QED
      BY <1>1, <2>1, <2>2, <2>3 DEF FetchOK, Answers, Timely, Led, CurrentAt
  <1>12. EntryOK'
    <2>1. CASE fetch[l].ok /\ kind # "branch"
      <3>1. entry' = kept /\ kind' = kind /\ now' = now /\ source' = source /\ since' = since
        BY <1>1, <2>1
      <3>2. kind = "token" => kept.value = kept.stamp
        BY <1>5 DEF Stamp
      <3>3. kind = "catalogue" =>
               kept.stamp <= now /\ kept.value <= source /\ CurrentAt(kept.value, kept.stamp)
        BY <1>1, <1>2, <1>3, <1>5 DEF Stamp, Answers
      <3>4. QED
        BY <2>1, <3>1, <3>2, <3>3 DEF EntryOK, CurrentAt
    <2>2. CASE ~(fetch[l].ok /\ kind # "branch")
      BY <1>1, <2>2 DEF IInv, EntryOK, CurrentAt
    <2>3. QED
      BY <2>1, <2>2
  <1>13. QED
    BY <1>9, <1>10, <1>11, <1>12 DEF IInv

-----------------------------------------------------------------------------
(***************************************************************************)
(* The source and time.                                                    *)
(***************************************************************************)

\* What was current at a time that is not to come stays so.
LEMMA ChangeStep == ASSUME IInv, Change PROVE IInv'
  <1>1. /\ kind \in {"branch", "catalogue"} /\ source < MaxVersion /\ source' = source + 1
        /\ since' = [since EXCEPT ![source + 1] = now]
        /\ UNCHANGED <<kind, now, up, entry, request, fetch>>
    BY DEF Change
  <1>2. /\ now \in Times /\ source \in Versions /\ source + 1 \in Versions /\ source \in Nat
        /\ since \in [Versions -> Times]
    BY <1>1, Numbers DEF IInv, TypeOK, Versions
  <1>3. TypeOK'
    BY <1>1, <1>2 DEF IInv, TypeOK, InFlight, Shared
  <1>4. RequestsOK'
    <2>1. \A r \in Requests : request[r].found \in Nat
      BY Numbers DEF IInv, TypeOK
    <2>2. QED
      BY <1>1, <1>2, <2>1 DEF IInv, RequestsOK, Shared
  <1>5. ASSUME NEW v \in Nat, NEW t \in Nat, v <= source, t <= now, CurrentAt(v, t)
        PROVE  v <= source' /\ v # source' /\ t <= since'[v + 1]
    <2>1. v <= source' /\ v # source' /\ v + 1 \in Versions
      BY <1>1, <1>2, <1>5, Numbers DEF Versions
    <2>2. CASE v = source
      BY <1>1, <1>2, <1>5, <2>2
    <2>3. CASE v # source
      BY <1>1, <1>2, <1>5, <2>1, <2>3 DEF CurrentAt
    <2>4. QED
      BY <2>1, <2>2, <2>3
  <1>6. FetchesOK'
    <2> SUFFICES ASSUME NEW l \in Requests, InFlight(l)' PROVE FetchOK(l)'
      BY DEF FetchesOK, FetchOK
    <2>1. InFlight(l) /\ FetchOK(l)
      BY <1>1 DEF IInv, FetchesOK, InFlight
    <2>2. /\ fetch[l].value \in Nat /\ fetch[l].from \in Nat
          /\ request[l].looked \in Nat /\ request[l].looked <= now
      BY Numbers DEF IInv, TypeOK, RequestsOK
    <2>3. Timely(l)' /\ Led(l)' /\ Answers(l)'
      BY <1>1, <1>2, <2>1, <2>2 DEF FetchOK, Timely, Led, Answers
    <2>4. (kind = "catalogue" /\ fetch[l].pc = "answered") => request[l].looked <= since'[fetch[l].value + 1]
      BY <1>5, <2>1, <2>2 DEF FetchOK, Answers
    <2>5. QED
      BY <1>1, <2>3, <2>4 DEF FetchOK, CurrentAt
  <1>7. EntryOK'
    <2>1. entry.value \in Nat /\ entry.stamp \in Nat
      BY Numbers DEF IInv, TypeOK
    <2>2. (entry.kept /\ kind = "catalogue") =>
              entry.value <= source' /\ entry.stamp <= since'[entry.value + 1]
      BY <1>5, <2>1 DEF IInv, EntryOK
    <2>3. QED
      BY <1>1, <2>2 DEF IInv, EntryOK, CurrentAt
  <1>8. QED
    BY <1>3, <1>4, <1>6, <1>7 DEF IInv

\* An outage is seen by every fetch that is on its way.
LEMMA OutageStep == ASSUME IInv, Outage PROVE IInv'
  <1>1. /\ fetch' = [l \in Requests |-> [fetch[l] EXCEPT !.outage = @ \/ InFlight(l)]]
        /\ UNCHANGED <<kind, now, source, since, entry, request>>
        /\ up' = FALSE
    BY DEF Outage
  <1>2. ASSUME NEW l \in Requests
        PROVE  /\ fetch'[l] \in FetchType
               /\ fetch'[l].pc = fetch[l].pc /\ fetch'[l].begun = fetch[l].begun
               /\ fetch'[l].from = fetch[l].from /\ fetch'[l].value = fetch[l].value
               /\ fetch'[l].ok = fetch[l].ok
               /\ InFlight(l) => fetch'[l].outage
    <2>1. fetch[l] \in FetchType /\ fetch'[l] = [fetch[l] EXCEPT !.outage = @ \/ InFlight(l)]
      BY <1>1 DEF IInv, TypeOK, FetchType
    <2>2. (fetch[l].outage \/ InFlight(l)) \in BOOLEAN
      OBVIOUS
    <2>3. QED
      BY <2>1, <2>2 DEF FetchType
  <1>3. fetch' \in [Requests -> FetchType]
    BY <1>1, <1>2
  <1>4. TypeOK'
    BY <1>1, <1>2, <1>3 DEF IInv, TypeOK, FetchType, InFlight, Shared
  <1>5. RequestsOK' /\ EntryOK'
    BY <1>1 DEF IInv, RequestsOK, EntryOK, Shared, CurrentAt
  <1>6. FetchesOK'
    <2> SUFFICES ASSUME NEW l \in Requests, InFlight(l)' PROVE FetchOK(l)'
      BY DEF FetchesOK, FetchOK
    <2>1. InFlight(l) /\ FetchOK(l)
      BY <1>2 DEF IInv, FetchesOK, InFlight
    <2>2. QED
      BY <1>1, <1>2, <2>1 DEF FetchOK, Answers, Timely, Led, CurrentAt
  <1>7. QED
    BY <1>4, <1>5, <1>6 DEF IInv

\* The end of an outage changes nothing that was read.
LEMMA RecoverStep == ASSUME IInv, Recover PROVE IInv'
  <1>1. UNCHANGED <<kind, now, source, since, entry, request, fetch>> /\ up' = TRUE
    BY DEF Recover
  <1>2. TypeOK' /\ RequestsOK' /\ EntryOK'
    BY <1>1 DEF IInv, TypeOK, RequestsOK, EntryOK, Shared, InFlight, CurrentAt
  <1>3. FetchesOK'
    BY <1>1 DEF IInv, FetchesOK, FetchOK, InFlight, Answers, Timely, Led, CurrentAt
  <1>4. QED
    BY <1>2, <1>3 DEF IInv

\* No fetch outlives its deadline.
LEMMA TickStep == ASSUME IInv, Tick PROVE IInv'
  <1>1. /\ now < MaxTime /\ now' = now + 1
        /\ \A l \in Requests : InFlight(l) => now < fetch[l].begun + FetchTime
        /\ UNCHANGED <<kind, source, since, up, entry, request, fetch>>
    BY DEF Tick
  <1>2. now \in Nat /\ now' \in Times /\ FetchTime \in Nat
    BY <1>1, Numbers DEF IInv, TypeOK, Times
  <1>3. TypeOK'
    BY <1>1, <1>2 DEF IInv, TypeOK, InFlight, Shared
  <1>4. RequestsOK' /\ EntryOK'
    <2>1. entry.stamp \in Nat /\ \A r \in Requests : request[r].looked \in Nat
      BY Numbers DEF IInv, TypeOK
    <2>2. QED
      BY <1>1, <1>2, <2>1 DEF IInv, RequestsOK, EntryOK, Shared, CurrentAt
  <1>5. FetchesOK'
    <2> SUFFICES ASSUME NEW l \in Requests, InFlight(l)' PROVE FetchOK(l)'
      BY DEF FetchesOK, FetchOK
    <2>1. InFlight(l) /\ FetchOK(l) /\ fetch[l].begun \in Nat
      BY <1>1, Numbers DEF IInv, FetchesOK, InFlight, TypeOK
    <2>2. Timely(l)'
      BY <1>1, <1>2, <2>1 DEF FetchOK, Timely
    <2>3. QED
      BY <1>1, <2>1, <2>2 DEF FetchOK, Answers, Led, CurrentAt
  <1>6. QED
    BY <1>3, <1>4, <1>5 DEF IInv

\* Every step preserves the invariant.
LEMMA StepInvariant == IInv /\ [Next]_vars => IInv'
  <1> SUFFICES ASSUME IInv, [Next]_vars PROVE IInv'
    OBVIOUS
  <1>1. ASSUME NEW r \in Requests, RequestStep(r) PROVE IInv'
    BY <1>1, LookStep, BeginStep, JoinStep, LeaveStep, AgainStep DEF RequestStep
  <1>2. ASSUME NEW l \in Requests, FetchStep(l) PROVE IInv'
    BY <1>2, AnswerStep, FinishStep DEF FetchStep
  <1>3. CASE Change \/ Outage \/ Recover \/ Tick
    BY <1>3, ChangeStep, OutageStep, RecoverStep, TickStep
  <1>4. CASE UNCHANGED vars
    BY <1>4 DEF vars, IInv, TypeOK, RequestsOK, FetchesOK, FetchOK, EntryOK, Answers, Timely, Led,
                CurrentAt, InFlight, Shared
  <1>5. QED
    BY <1>1, <1>2, <1>3, <1>4 DEF Next

-----------------------------------------------------------------------------
(***************************************************************************)
(* What a request gets.                                                    *)
(***************************************************************************)

\* A request that one step changes, and does not answer.
LEMMA Unanswered ==
    ASSUME IInv, NEW q \in Requests, Begin(q) \/ Join(q) \/ Leave(q) \/ Again(q),
           NEW r \in Requests, NEW pc \in {"got", "failed"}
    PROVE  ~AnsweredWith(r, pc)
  <1>0. request[q] \in RequestType
    BY DEF IInv, TypeOK, RequestType
  <1>1. PICK new \in RequestType :
            request' = [request EXCEPT ![q] = new] /\ new.pc \in {"waiting", "left", "new"}
    <2>1. CASE Begin(q)
      <3>1. [request[q] EXCEPT !.pc = "waiting"] \in RequestType
        BY <1>0 DEF RequestType
      <3>2. QED
        BY <2>1, <3>1 DEF Begin, RequestType
    <2>2. CASE Join(q)
      <3>1. PICK l \in Requests : request' = [request EXCEPT ![q] = [@ EXCEPT !.pc = "waiting", !.on = l]]
        BY <2>2 DEF Join
      <3>2. [request[q] EXCEPT !.pc = "waiting", !.on = l] \in RequestType
        BY <1>0 DEF RequestType
      <3>3. QED
        BY <3>1, <3>2 DEF RequestType
    <2>3. CASE Leave(q)
      BY <2>3, BlankRequest DEF Leave
    <2>4. CASE Again(q)
      <3>1. Request(q, "new") \in RequestType /\ Request(q, "new").pc = "new"
        BY BlankRequest
      <3>2. request' = [request EXCEPT ![q] = Request(q, "new")]
        BY <2>4 DEF Again
      <3>3. QED
        BY <3>1, <3>2
    <2>5. QED
      BY <2>1, <2>2, <2>3, <2>4
  <1>2. request'[r] = IF r = q THEN new ELSE request[r]
    BY <1>1 DEF IInv, TypeOK
  <1>3. QED
    BY <1>1, <1>2 DEF AnsweredWith

\* A request is answered from the cache, or by the fetch it waits for.
LEMMA AnsweredBy ==
    ASSUME IInv, [Next]_vars, NEW r \in Requests, NEW pc \in {"got", "failed"}, AnsweredWith(r, pc)
    PROVE  \/ /\ pc = "got" /\ request[r].pc = "new" /\ Fresh
              /\ request'[r].value = entry.value
           \/ /\ Finish(request[r].on) /\ request[r].pc = "waiting"
              /\ fetch[request[r].on].ok = (pc = "got")
              /\ pc = "got" => request'[r].value = fetch[request[r].on].value
  <1>1. PICK q \in Requests : Look(q) \/ Begin(q) \/ Join(q) \/ Leave(q) \/ Again(q) \/ Answer(q) \/ Finish(q)
    <2>1. request' # request
      BY DEF AnsweredWith
    <2>2. QED
      BY <2>1 DEF Next, RequestStep, FetchStep, Change, Outage, Recover, Tick, vars
  <1>2. ~(Begin(q) \/ Join(q) \/ Leave(q) \/ Again(q))
    BY Unanswered
  <1>3. ~Answer(q)
    BY DEF Answer, AnsweredWith
  <1>4. CASE Look(q)
    <2>1. r = q
      BY <1>4 DEF Look, AnsweredWith, IInv, TypeOK
    <2>2. request[r].pc = "new" /\ request[r] \in RequestType
      BY <1>4, <2>1 DEF Look, IInv, TypeOK, RequestType
    <2>3. CASE Fresh
      <3>1. request'[r] = Got(r, entry.value) /\ entry.value \in Values
        BY <1>4, <2>1, <2>3 DEF Look, IInv, TypeOK
      <3>2. request'[r].pc = "got" /\ request'[r].value = entry.value
        BY <3>1, GotRequest
      <3>3. QED
        BY <2>2, <2>3, <3>2 DEF AnsweredWith
    <2>4. CASE ~Fresh
      <3>1. request'[r].pc = "missed"
        BY <1>4, <2>1, <2>2, <2>4 DEF Look, IInv, TypeOK, RequestType
      <3>2. QED
        BY <3>1 DEF AnsweredWith
    <2>5. QED
      BY <2>3, <2>4
  <1>5. CASE Finish(q)
    <2>1. request'[r] = IF request[r].pc = "waiting" /\ request[r].on = q
                        THEN IF fetch[q].ok THEN Got(r, fetch[q].value) ELSE Request(r, "failed")
                        ELSE request[r]
      BY <1>5 DEF Finish
    <2>2. request[r].pc = "waiting" /\ request[r].on = q
      BY <2>1 DEF AnsweredWith
    <2>3. fetch[q].ok \in BOOLEAN /\ fetch[q].value \in Values
      BY DEF IInv, TypeOK
    <2>4. CASE fetch[q].ok
      <3>1. request'[r].pc = "got" /\ request'[r].value = fetch[q].value
        BY <2>1, <2>2, <2>3, <2>4, GotRequest
      <3>2. QED
        BY <1>5, <2>2, <2>4, <3>1 DEF AnsweredWith
    <2>5. CASE ~fetch[q].ok
      <3>1. request'[r].pc = "failed"
        BY <2>1, <2>2, <2>5, BlankRequest
      <3>2. QED
        BY <1>5, <2>2, <2>3, <2>5, <3>1 DEF AnsweredWith
    <2>6. QED
      BY <2>4, <2>5
  <1>6. QED
    BY <1>1, <1>2, <1>3, <1>4, <1>5

\* The inductive invariant holds throughout (ConfigCache.load, installationTokens,
\* runSources, ZoneCache.list, MachineTypeCache.list).
THEOREM Invariance == Spec => []IInv
  <1>1. QED
    BY InitInvariant, StepInvariant, PTL DEF Spec

\* Every variable keeps its type, and a shared fetch is the only one of its key,
\* for any number of requests and any lifetimes.
THEOREM TypeCorrect == Spec => []TypeOK
  <1>1. IInv => TypeOK
    BY DEF IInv
  <1>2. QED
    BY <1>1, Invariance, PTL

\* A token is good for Margin more when it is handed out, for every lifetime that is
\* longer than the margin and the deadline of the fetch (tokenRefreshMargin).
THEOREM TokenLasts == Spec => TokenOutlives
  <1> DEFINE body == \A r \in Requests :
          kind = "token" /\ AnsweredWith(r, "got") => now + Margin < request'[r].value
  <1>1. IInv /\ [Next]_vars => body
    <2> SUFFICES ASSUME IInv, [Next]_vars, NEW r \in Requests, kind = "token", AnsweredWith(r, "got")
                 PROVE  now + Margin < request'[r].value
      OBVIOUS
    <2> DEFINE l == request[r].on
    <2>1. CASE Fresh /\ request'[r].value = entry.value
      BY <2>1 DEF Fresh, IInv, EntryOK
    <2>2. CASE Finish(l) /\ request'[r].value = fetch[l].value
      <3>1. l \in Requests /\ fetch[l].pc = "answered" /\ InFlight(l)
        BY <2>2 DEF Finish, InFlight, IInv, TypeOK
      <3>2. fetch[l].begun + Life <= fetch[l].value /\ now <= fetch[l].begun + FetchTime
        BY <3>1 DEF IInv, FetchesOK, FetchOK, Answers, Timely
      <3>3. /\ now \in Nat /\ fetch[l].begun \in Nat /\ fetch[l].value \in Nat
            /\ Life \in Nat /\ Margin \in Nat /\ FetchTime \in Nat /\ Margin + FetchTime < Life
        BY <3>1, Numbers DEF IInv, TypeOK
      <3> HIDE DEF l
      <3>4. QED
        BY <2>2, <3>2, <3>3
    <2>3. QED
      BY <2>1, <2>2, AnsweredBy
  <1>2. IInv /\ [Next]_vars => [body]_vars
    BY <1>1
  <1>3. QED
    BY <1>2, Invariance, PTL DEF Spec, TokenOutlives

\* A request fails only for an outage during the fetch it waited for: a failure is
\* never kept, and a client that goes away fails nobody (context.WithoutCancel).
THEOREM FailsOnlyInOutage == Spec => FailureObserved
  <1> DEFINE body == \A r \in Requests : AnsweredWith(r, "failed") => fetch[request[r].on].outage
  <1>1. IInv /\ [Next]_vars => body
    <2> SUFFICES ASSUME IInv, [Next]_vars, NEW r \in Requests, AnsweredWith(r, "failed")
                 PROVE  fetch[request[r].on].outage
      OBVIOUS
    <2> DEFINE l == request[r].on
    <2>1. Finish(l) /\ ~fetch[l].ok
      BY AnsweredBy
    <2>2. l \in Requests /\ fetch[l].pc = "answered" /\ InFlight(l)
      BY <2>1 DEF Finish, InFlight, IInv, TypeOK
    <2>3. QED
      BY <2>1, <2>2 DEF IInv, FetchesOK, FetchOK, Answers
  <1>2. IInv /\ [Next]_vars => [body]_vars
    BY <1>1
  <1>3. QED
    BY <1>2, Invariance, PTL DEF Spec, FailureObserved

\* The next job sees an edit of a branch's file, unless it shares a fetch that began
\* before the edit (ConfigCache.load).
THEOREM EditsShow == Spec => BranchFresh
  <1> DEFINE body == \A r \in Requests : kind = "branch" /\ AnsweredWith(r, "got") =>
          \/ request'[r].value >= Found(r)
          \/ request[r].on # r /\ request'[r].value >= fetch[request[r].on].from
  <1>1. IInv /\ [Next]_vars => body
    <2> SUFFICES ASSUME IInv, [Next]_vars, NEW r \in Requests, kind = "branch", AnsweredWith(r, "got")
                 PROVE  \/ request'[r].value >= Found(r)
                        \/ request[r].on # r /\ request'[r].value >= fetch[request[r].on].from
      OBVIOUS
    <2> DEFINE l == request[r].on
    <2>1. ~Fresh
      BY DEF Fresh, IInv, EntryOK
    <2>2. Finish(l) /\ request[r].pc = "waiting" /\ request'[r].value = fetch[l].value
      BY <2>1, AnsweredBy
    <2>3. l \in Requests /\ fetch[l].pc = "answered" /\ InFlight(l)
      BY <2>2 DEF Finish, InFlight, IInv, TypeOK
    <2>4. fetch[l].from <= fetch[l].value /\ (l = r => request[r].found <= fetch[l].from)
      BY <2>3 DEF IInv, FetchesOK, FetchOK, Answers, Led
    <2>5. fetch[l].from \in Nat /\ fetch[l].value \in Nat /\ request[r].found \in Nat
      BY <2>3, Numbers DEF IInv, TypeOK
    <2>6. Found(r) = request[r].found
      BY <2>2 DEF Found
    <2>7. QED
      BY <2>2, <2>4, <2>5, <2>6
  <1>2. IInv /\ [Next]_vars => [body]_vars
    BY <1>1
  <1>3. QED
    BY <1>2, Invariance, PTL DEF Spec, BranchFresh

\* Zones and machine types are never older than Ttl when a request looks, although
\* several fetches of one key may run and the last to end is the one that is kept
\* (ZoneCache.list, MachineTypeCache.list).
THEOREM CatalogueCurrent == Spec => CatalogueFresh
  <1> DEFINE body == \A r \in Requests :
          kind = "catalogue" /\ AnsweredWith(r, "got") =>
              Looked(r) < Ttl \/ CurrentAfter(request'[r].value, Looked(r) - Ttl)
  <1>1. IInv /\ [Next]_vars => body
    <2> SUFFICES ASSUME IInv, [Next]_vars, NEW r \in Requests, kind = "catalogue", AnsweredWith(r, "got"),
                        ~(Looked(r) < Ttl)
                 PROVE  CurrentAfter(request'[r].value, Looked(r) - Ttl)
      OBVIOUS
    <2> DEFINE l == request[r].on
    <2>1. CASE request[r].pc = "new" /\ Fresh /\ request'[r].value = entry.value
      <3>1. now < entry.stamp + Ttl /\ entry.value <= source /\ CurrentAt(entry.value, entry.stamp)
        BY <2>1 DEF Fresh, IInv, EntryOK
      <3>2. /\ entry.value \in Nat /\ entry.stamp \in Nat /\ now \in Nat /\ Ttl \in Nat \ {0}
            /\ source \in 0 .. MaxVersion /\ since \in [0 .. MaxVersion -> Nat] /\ MaxVersion \in Nat
        BY Numbers DEF IInv, TypeOK, Versions
      <3>3. Looked(r) = now
        BY <2>1 DEF Looked
      <3>4. now - Ttl < entry.stamp
        BY <3>1, <3>2
      <3>5. entry.value = source \/ now - Ttl < since[entry.value + 1]
        <4> SUFFICES ASSUME entry.value # source PROVE now - Ttl < since[entry.value + 1]
          OBVIOUS
        <4>1. entry.value + 1 \in 0 .. MaxVersion
          BY <3>1, <3>2
        <4>2. since[entry.value + 1] \in Nat
          BY <3>2, <4>1
        <4>3. entry.stamp <= since[entry.value + 1]
          BY <3>1 DEF CurrentAt
        <4>4. QED
          BY <3>2, <3>4, <4>2, <4>3
      <3>6. QED
        BY <2>1, <3>3, <3>5 DEF CurrentAfter
    <2>2. CASE Finish(l) /\ request[r].pc = "waiting" /\ request'[r].value = fetch[l].value
      <3>1. l \in Requests /\ fetch[l].pc = "answered" /\ InFlight(l)
        BY <2>2 DEF Finish, InFlight, IInv, TypeOK
      <3>2. l = r
        BY DEF IInv, RequestsOK, Shared
      <3>3. CurrentAt(fetch[l].value, request[r].looked) /\ fetch[l].value <= source
        BY <3>1, <3>2 DEF IInv, FetchesOK, FetchOK, Answers
      <3>4. /\ fetch[l].value \in Nat /\ request[r].looked \in Nat /\ Ttl \in Nat \ {0}
            /\ source \in 0 .. MaxVersion /\ since \in [0 .. MaxVersion -> Nat] /\ MaxVersion \in Nat
        BY <3>1, Numbers DEF IInv, TypeOK, Versions
      <3>5. Looked(r) = request[r].looked
        BY <2>2 DEF Looked
      <3> HIDE DEF l
      <3>6. QED
        BY <2>2, <3>3, <3>4, <3>5 DEF CurrentAt, CurrentAfter
    <2>3. QED
      BY <2>1, <2>2, AnsweredBy
  <1>2. IInv /\ [Next]_vars => [body]_vars
    BY <1>1
  <1>3. QED
    BY <1>2, Invariance, PTL DEF Spec, CatalogueFresh
=============================================================================
