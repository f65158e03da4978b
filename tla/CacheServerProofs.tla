------------------------- MODULE CacheServerProofs -------------------------
(***************************************************************************)
(* Proofs about CacheServer, for any number of entries, blocks, blocks on  *)
(* the way at a time and repeated requests, and under any of the faults.   *)
(***************************************************************************)
EXTENDS CacheServer, FiniteSetTheorems, TLAPS

-----------------------------------------------------------------------------
(* The inductive invariant *)

Elements(s)  == {s[n] : n \in DOMAIN s}
NoneTwice(s) == \A m, n \in DOMAIN s : s[m] = s[n] => m = n
InOrder(s)   == \A n \in DOMAIN s : s[n] = n

\* A commit goes out when every block was acknowledged, takes its list in one
\* step, and has one from then on.
Protocol(e) ==
    /\ \A b \in BlockIDs : staging[e][b] <= client[e].sent[b]
    /\ \A i \in Sends :
          /\ commits[e][i].pc # "none" =>
                /\ client[e].acked = BlockIDs
                /\ Phase(e) \in {"commit", "saved", "failed"}
          /\ commits[e][i].pc \in {"none", "sent"} => commits[e][i].taken = <<>>
          /\ commits[e][i].pc = "writing" => commits[e][i].taken # <<>>

\* Before a commit takes the list, what was acknowledged is in it and what is
\* on the way is not.
Gathering(e) ==
    /\ \A i \in Sends : commits[e][i].taken = <<>>
    /\ NoneTwice(blocks[e])
    /\ \A b \in BlockIDs : staging[e][b] > 0 => b \notin Elements(blocks[e])
    /\ \A b \in Elements(blocks[e]) : client[e].sent[b] > 0
    /\ client[e].acked \subseteq Elements(blocks[e])

\* Afterwards one commit has all of it and nothing is left behind.
HandedTo(e, i) ==
    /\ EveryBlockOnce(commits[e][i].taken)
    /\ \A j \in Sends \ {i} : commits[e][j].taken = <<>>
    /\ blocks[e] = <<>>
    /\ \A b \in BlockIDs : staging[e][b] = 0

Handed(e) == \E i \in Sends : HandedTo(e, i)

Collected(e) ==
    "resent" \notin mishaps[e] =>
       /\ \A b \in BlockIDs : client[e].sent[b] <= 1
       /\ Gathering(e) \/ Handed(e)

\* After its 201 nothing is left that could change the object of an entry, if no
\* block was sent twice and no repeated upload broke off.
Answered(e) ==
    Phase(e) = "saved" /\ "resent" \notin mishaps[e] =>
       /\ Stored(e) /\ EveryBlockOnce(bucket[e])
       /\ \A i \in Sends : commits[e][i].pc # "writing"
       /\ (\A i \in Sends : commits[e][i].pc = "none") \/ Handed(e)

Complete(e) ==
    Stored(e) /\ mishaps[e] \subseteq {"overlap"} => EveryBlockOnce(bucket[e])

\* A block that failed and was not sent again: no commit will go out.
Lost(e, b) ==
    /\ client[e].sent[b] > 0
    /\ staging[e][b] = 0
    /\ b \notin client[e].acked
    /\ b \notin Elements(blocks[e])

\* One block at a time: the list is 1, 2, ... and the block on the way is the
\* next one.
Ordered(e) ==
    mishaps[e] = {} =>
       /\ \/ \E b \in BlockIDs : Lost(e, b)
          \/ /\ InOrder(blocks[e])
             /\ \A b \in BlockIDs :
                   staging[e][b] > 0 => b = Len(blocks[e]) + 1
       /\ \A i \in Sends : InOrder(commits[e][i].taken)
       /\ Stored(e) => bucket[e] = Whole

EntryOK(e) == Protocol(e) /\ Collected(e) /\ Answered(e) /\ Complete(e)
                  /\ Ordered(e)

\* An entry sent in one piece has no commit, and its client was told 201 by a
\* request that had ended and had written all of it.
Apart(e) ==
    /\ \A i \in Sends : puts[e][i] # "none" =>
          /\ Phase(e) \in {"direct", "saved", "failed"}
          /\ \A j \in Sends : commits[e][j].pc = "none"
    /\ Phase(e) = "saved" /\ (\E i \in Sends : puts[e][i] # "none") =>
          /\ \E i \in Sends : puts[e][i] = "done"
          /\ "resent" \notin mishaps[e] => bucket[e] = Whole

IInv == TypeOK /\ \A e \in Entries : EntryOK(e) /\ Apart(e)

-----------------------------------------------------------------------------
(* Lists of blocks *)

LEMMA WholeIsWhole == Whole \in Seq(BlockIDs) /\ EveryBlockOnce(Whole)
<1>1. Blocks \in Nat
  BY CacheServerAssumption
<1>. QED
  BY <1>1 DEF Whole, EveryBlockOnce, BlockIDs

\* A list of all the blocks with none twice is as long as there are blocks.
LEMMA EachOnce ==
    ASSUME NEW s \in Seq(BlockIDs), NoneTwice(s), BlockIDs \subseteq Elements(s)
    PROVE  EveryBlockOnce(s)
<1>1. Blocks \in Nat /\ Len(s) \in Nat /\ DOMAIN s = 1..Len(s)
  BY CacheServerAssumption
<1>2. Elements(s) = BlockIDs
  BY DEF Elements
<1>3. s \in Bijection(1..Len(s), BlockIDs)
  BY <1>1, <1>2 DEF Bijection, Injection, Surjection, IsInjective, NoneTwice,
     Elements
<1>4. Whole \in Bijection(1..Blocks, BlockIDs)
  BY <1>1 DEF Bijection, Injection, Surjection, IsInjective, Whole, BlockIDs
<1>5. Cardinality(BlockIDs) = Len(s) /\ Cardinality(BlockIDs) = Blocks
  BY <1>1, <1>3, <1>4, FS_CountingElements, Zenon DEF ExistsBijection
<1>. QED
  BY <1>2, <1>5 DEF EveryBlockOnce, Elements

LEMMA OrderedIsWhole ==
    ASSUME NEW s \in Seq(BlockIDs), EveryBlockOnce(s), InOrder(s)
    PROVE  s = Whole
BY CacheServerAssumption DEF EveryBlockOnce, InOrder, Whole, BlockIDs

LEMMA AppendElements ==
    ASSUME NEW s \in Seq(BlockIDs), NEW b \in BlockIDs
    PROVE  /\ Append(s, b) \in Seq(BlockIDs)
           /\ Elements(Append(s, b)) = Elements(s) \cup {b}
           /\ NoneTwice(s) /\ b \notin Elements(s) => NoneTwice(Append(s, b))
           /\ InOrder(s) /\ b = Len(s) + 1 => InOrder(Append(s, b))
<1>1. Append(s, b) \in Seq(BlockIDs) /\ Len(Append(s, b)) = Len(s) + 1
      /\ Len(s) \in Nat /\ DOMAIN s = 1..Len(s)
      /\ DOMAIN Append(s, b) = 1..(Len(s) + 1)
      /\ Append(s, b)[Len(s) + 1] = b
      /\ \A n \in 1..Len(s) : Append(s, b)[n] = s[n]
  OBVIOUS
<1>. DEFINE t == Append(s, b)
<1>. HIDE DEF t
<1>2. t \in Seq(BlockIDs) /\ Len(s) \in Nat /\ DOMAIN s = 1..Len(s)
      /\ DOMAIN t = 1..(Len(s) + 1)
      /\ t[Len(s) + 1] = b /\ \A n \in 1..Len(s) : t[n] = s[n]
  BY <1>1 DEF t
<1>3. Elements(t) = Elements(s) \cup {b}
  BY <1>2 DEF Elements
<1>4. NoneTwice(s) /\ b \notin Elements(s) => NoneTwice(t)
  BY <1>2 DEF NoneTwice, Elements
<1>5. InOrder(s) /\ b = Len(s) + 1 => InOrder(t)
  BY <1>2 DEF InOrder
<1>. QED
  BY <1>2, <1>3, <1>4, <1>5 DEF t

LEMMA PartOf ==
    ASSUME NEW s \in Seq(BlockIDs), NEW k \in 0 .. (Len(s) - 1)
    PROVE  SubSeq(s, 1, k) \in Seq(BlockIDs)
<1>1. Len(s) \in Nat
  OBVIOUS
<1>2. \A n \in 1..k : s[n] \in BlockIDs
  BY <1>1
<1>. QED
  BY <1>1, <1>2
-----------------------------------------------------------------------------
(* What a step changes *)

Untouched(f) ==
    /\ client'[f] = client[f]
    /\ staging'[f] = staging[f]
    /\ blocks'[f] = blocks[f]
    /\ commits'[f] = commits[f]
    /\ mishaps'[f] = mishaps[f]
    /\ Stored(f)' <=> Stored(f)
    /\ Stored(f) => bucket'[f] = bucket[f]

\* The other entries are left alone.
OthersKept(e) == \A f \in Entries \ {e} : Untouched(f)

LEMMA UntouchedStaysOK ==
    ASSUME NEW f, EntryOK(f), Untouched(f)
    PROVE  EntryOK(f)'
<1>1. /\ client'[f] = client[f]
      /\ staging'[f] = staging[f]
      /\ blocks'[f] = blocks[f]
      /\ commits'[f] = commits[f]
      /\ mishaps'[f] = mishaps[f]
      /\ Stored(f)' <=> Stored(f)
      /\ Stored(f) => bucket'[f] = bucket[f]
  BY DEF Untouched
<1>2. Protocol(f)'
  BY <1>1 DEF EntryOK, Protocol, Phase
<1>3. \A i \in Sends : HandedTo(f, i) => HandedTo(f, i)'
  BY <1>1 DEF HandedTo
<1>4. Collected(f)'
  BY <1>1, <1>3 DEF EntryOK, Collected, Gathering, Handed
<1>5. Answered(f)'
  BY <1>1, <1>3 DEF EntryOK, Answered, Handed, Phase
<1>6. Complete(f)'
  BY <1>1 DEF EntryOK, Complete
<1>7. Ordered(f)'
  BY <1>1 DEF EntryOK, Ordered, Lost
<1>. QED
  BY <1>2, <1>4, <1>5, <1>6, <1>7 DEF EntryOK

LEMMA ClientFacts ==
    ASSUME TypeOK, NEW e \in Entries
    PROVE  /\ client[e] \in Client
           /\ Phase(e) \in Phases
           /\ client[e].acked \subseteq BlockIDs
           /\ client[e].sent \in [BlockIDs -> 0..MaxSends]
           /\ staging[e] \in [BlockIDs -> 0..MaxSends]
           /\ blocks[e] \in Seq(BlockIDs)
           /\ commits[e] \in [Sends -> Commit]
           /\ mishaps[e] \subseteq Mishaps
           /\ Stored(e) => bucket[e] \in Seq(BlockIDs)
BY DEF TypeOK, Client, Phase, Stored

LEMMA WrittenFacts ==
    ASSUME TypeOK, NEW e \in Entries, NEW s \in Seq(BlockIDs), Written(e, s)
    PROVE  /\ DOMAIN bucket' \subseteq Entries
           /\ \A f \in DOMAIN bucket' : bucket'[f] \in Seq(BlockIDs)
           /\ Stored(e)' /\ bucket'[e] = s
           /\ \A f \in Entries \ {e} : /\ Stored(f)' <=> Stored(f)
                                       /\ Stored(f) => bucket'[f] = bucket[f]
BY DEF Written, TypeOK, Stored

LEMMA WrittenInPartFacts ==
    ASSUME TypeOK, NEW e \in Entries, NEW s \in Seq(BlockIDs),
           WrittenInPart(e, s)
    PROVE  /\ DOMAIN bucket' \subseteq Entries
           /\ \A f \in DOMAIN bucket' : bucket'[f] \in Seq(BlockIDs)
           /\ Stored(e)'
           /\ \A f \in Entries \ {e} : /\ Stored(f)' <=> Stored(f)
                                       /\ Stored(f) => bucket'[f] = bucket[f]
<1>1. PICK k \in 0 .. (Len(s) - 1) : Written(e, SubSeq(s, 1, k))
  BY DEF WrittenInPart
<1>2. SubSeq(s, 1, k) \in Seq(BlockIDs)
  BY PartOf
<1>. QED
  BY <1>1, <1>2, WrittenFacts

\* A reply, or none, changes the phase at most.
LEMMA ReplyFacts ==
    ASSUME TypeOK, NEW e \in Entries, NEW from \in Phases, NEW to \in Phases,
           Told(e, from, to) \/ NotTold
    PROVE  /\ client' \in [Entries -> Client]
           /\ client'[e].acked = client[e].acked
           /\ client'[e].sent = client[e].sent
           /\ Phase(e)' = Phase(e) \/ (Phase(e) = from /\ Phase(e)' = to)
           /\ \A f \in Entries \ {e} : client'[f] = client[f]
<1>1. CASE NotTold
  BY <1>1 DEF NotTold, Phase, TypeOK
<1>2. CASE Told(e, from, to)
  <2>1. client[e] \in Client /\ client \in [Entries -> Client]
    BY DEF TypeOK
  <2>. DEFINE p == IF client[e].phase = from THEN to ELSE client[e].phase
  <2>2. client' = [client EXCEPT ![e] = [client[e] EXCEPT !.phase = p]]
    BY <1>2, <2>1 DEF Told
  <2>3. p \in Phases
    BY <2>1 DEF Client
  <2>4. (Phase(e) = from /\ p = to) \/ p = Phase(e)
    BY DEF Phase
  <2>. HIDE DEF p
  <2>5. client'[e] = [client[e] EXCEPT !.phase = p]
    BY <2>1, <2>2
  <2>6. client'[e] \in Client /\ client'[e].acked = client[e].acked
        /\ client'[e].sent = client[e].sent /\ client'[e].phase = p
    BY <2>1, <2>3, <2>5 DEF Client
  <2>7. client' \in [Entries -> Client]
    BY <2>1, <2>2, <2>5, <2>6
  <2>8. \A f \in Entries \ {e} : client'[f] = client[f]
    BY <2>1, <2>2
  <2>. QED
    BY <2>4, <2>6, <2>7, <2>8 DEF Phase
<1>. QED
  BY <1>1, <1>2
LEMMA PhaseSet ==
    ASSUME TypeOK, NEW e \in Entries, NEW to \in Phases,
           client' = [client EXCEPT ![e].phase = to]
    PROVE  /\ client' \in [Entries -> Client]
           /\ client'[e].acked = client[e].acked
           /\ client'[e].sent = client[e].sent
           /\ Phase(e)' = to
           /\ \A f \in Entries \ {e} : client'[f] = client[f]
<1>1. client[e] \in Client /\ client \in [Entries -> Client]
  BY DEF TypeOK
<1>2. client'[e] = [client[e] EXCEPT !.phase = to]
  BY <1>1
<1>3. client'[e] \in Client /\ client'[e].acked = client[e].acked
      /\ client'[e].sent = client[e].sent /\ client'[e].phase = to
  BY <1>1, <1>2 DEF Client
<1>4. client' \in [Entries -> Client]
  BY <1>1, <1>2, <1>3
<1>. QED
  BY <1>1, <1>3, <1>4 DEF Phase

LEMMA AckedAdded ==
    ASSUME TypeOK, NEW e \in Entries, NEW b \in BlockIDs,
           client' = [client EXCEPT ![e].acked = @ \cup {b}]
    PROVE  /\ client' \in [Entries -> Client]
           /\ client'[e].acked = client[e].acked \cup {b}
           /\ client'[e].sent = client[e].sent
           /\ Phase(e)' = Phase(e)
           /\ \A f \in Entries \ {e} : client'[f] = client[f]
<1>1. client[e] \in Client /\ client \in [Entries -> Client]
  BY DEF TypeOK
<1>. DEFINE a == client[e].acked \cup {b}
<1>2. a \in SUBSET BlockIDs
  BY <1>1 DEF Client
<1>3. client' = [client EXCEPT ![e].acked = a]
  OBVIOUS
<1>. HIDE DEF a
<1>4. client'[e] = [client[e] EXCEPT !.acked = a]
  BY <1>1, <1>3
<1>5. client'[e] \in Client /\ client'[e].acked = a
      /\ client'[e].sent = client[e].sent /\ client'[e].phase = client[e].phase
  BY <1>1, <1>2, <1>4 DEF Client
<1>6. client' \in [Entries -> Client]
  BY <1>1, <1>3, <1>4, <1>5
<1>. QED
  BY <1>1, <1>3, <1>5, <1>6 DEF Phase, a

LEMMA SentAgain ==
    ASSUME TypeOK, NEW e \in Entries, NEW b \in BlockIDs,
           client[e].sent[b] < MaxSends,
           client' = [client EXCEPT ![e].sent[b] = @ + 1]
    PROVE  /\ client' \in [Entries -> Client]
           /\ client'[e].acked = client[e].acked
           /\ client'[e].sent[b] = client[e].sent[b] + 1
           /\ \A c \in BlockIDs \ {b} : client'[e].sent[c] = client[e].sent[c]
           /\ Phase(e)' = Phase(e)
           /\ \A f \in Entries \ {e} : client'[f] = client[f]
<1>1. client[e] \in Client /\ client \in [Entries -> Client]
  BY DEF TypeOK
<1>2. client[e].sent \in [BlockIDs -> 0..MaxSends] /\ MaxSends \in Nat
  BY <1>1, CacheServerAssumption DEF Client
<1>. DEFINE n == [client[e].sent EXCEPT ![b] = @ + 1]
<1>3. n \in [BlockIDs -> 0..MaxSends] /\ n[b] = client[e].sent[b] + 1
      /\ \A c \in BlockIDs \ {b} : n[c] = client[e].sent[c]
  BY <1>2
<1>4. client' = [client EXCEPT ![e].sent = n]
  OBVIOUS
<1>. HIDE DEF n
<1>5. client'[e] = [client[e] EXCEPT !.sent = n]
  BY <1>1, <1>4
<1>6. client'[e] \in Client /\ client'[e].acked = client[e].acked
      /\ client'[e].sent = n /\ client'[e].phase = client[e].phase
  BY <1>1, <1>3, <1>5 DEF Client
<1>7. client' \in [Entries -> Client]
  BY <1>1, <1>4, <1>5, <1>6
<1>. QED
  BY <1>1, <1>3, <1>4, <1>6, <1>7 DEF Phase

\* One request of a block more, or one less, on its way to AddBlock.
LEMMA StagingSet ==
    ASSUME TypeOK, NEW e \in Entries, NEW b \in BlockIDs, NEW n \in 0..MaxSends,
           staging' = [staging EXCEPT ![e][b] = n]
    PROVE  /\ staging' \in [Entries -> [BlockIDs -> 0..MaxSends]]
           /\ staging'[e][b] = n
           /\ \A c \in BlockIDs \ {b} : staging'[e][c] = staging[e][c]
           /\ \A f \in Entries \ {e} : staging'[f] = staging[f]
BY DEF TypeOK

LEMMA CommitSet ==
    ASSUME TypeOK, NEW e \in Entries, NEW i \in Sends, NEW c \in Commit,
           commits' = [commits EXCEPT ![e][i] = c]
    PROVE  /\ commits' \in [Entries -> [Sends -> Commit]]
           /\ commits'[e][i] = c
           /\ \A j \in Sends \ {i} : commits'[e][j] = commits[e][j]
           /\ \A f \in Entries \ {e} : commits'[f] = commits[f]
BY DEF TypeOK

LEMMA CommitMoved ==
    ASSUME TypeOK, NEW e \in Entries, NEW i \in Sends,
           NEW to \in {"none", "sent", "writing", "done"},
           commits' = [commits EXCEPT ![e][i].pc = to]
    PROVE  /\ commits' \in [Entries -> [Sends -> Commit]]
           /\ commits'[e][i].pc = to
           /\ commits'[e][i].taken = commits[e][i].taken
           /\ \A j \in Sends \ {i} : commits'[e][j] = commits[e][j]
           /\ \A f \in Entries \ {e} : commits'[f] = commits[f]
<1>1. commits[e] \in [Sends -> Commit] /\ commits[e][i] \in Commit
      /\ commits \in [Entries -> [Sends -> Commit]]
  BY DEF TypeOK
<1>. DEFINE c == [commits[e][i] EXCEPT !.pc = to]
            l == [commits[e] EXCEPT ![i] = c]
<1>2. c \in Commit /\ c.pc = to /\ c.taken = commits[e][i].taken
  BY <1>1 DEF Commit
<1>3. commits' = [commits EXCEPT ![e] = l]
  OBVIOUS
<1>. HIDE DEF c
<1>4. l \in [Sends -> Commit] /\ l[i] = c
      /\ \A j \in Sends \ {i} : l[j] = commits[e][j]
  BY <1>1, <1>2
<1>. HIDE DEF l
<1>5. /\ commits' \in [Entries -> [Sends -> Commit]]
      /\ commits'[e] = l
      /\ \A f \in Entries \ {e} : commits'[f] = commits[f]
  BY <1>1, <1>3, <1>4
<1>. QED
  BY <1>2, <1>4, <1>5

LEMMA ListSet ==
    ASSUME TypeOK, NEW e \in Entries, NEW s \in Seq(BlockIDs),
           blocks' = [blocks EXCEPT ![e] = s]
    PROVE  /\ blocks' \in [Entries -> Seq(BlockIDs)]
           /\ blocks'[e] = s
           /\ \A f \in Entries \ {e} : blocks'[f] = blocks[f]
BY DEF TypeOK

LEMMA HappenedFacts ==
    ASSUME TypeOK, NEW e \in Entries, NEW what \in SUBSET Mishaps,
           Happened(e, what)
    PROVE  /\ mishaps' \in [Entries -> SUBSET Mishaps]
           /\ mishaps'[e] = mishaps[e] \cup what
           /\ \A f \in Entries \ {e} : mishaps'[f] = mishaps[f]
BY DEF TypeOK, Happened

LEMMA InitOK == Init => IInv
<1>. SUFFICES ASSUME Init PROVE IInv
  OBVIOUS
<1>1. MaxSends \in Nat /\ Blocks \in Nat
  BY CacheServerAssumption
<1>2. TypeOK
  BY <1>1 DEF Init, TypeOK, Client, Phases, Commit, NoCommit
<1>3. ASSUME NEW e \in Entries PROVE EntryOK(e)
  <2>1. /\ client[e] = [phase |-> "none", acked |-> {},
                        sent |-> [b \in BlockIDs |-> 0]]
        /\ staging[e] = [b \in BlockIDs |-> 0]
        /\ blocks[e] = <<>>
        /\ commits[e] = [i \in Sends |-> [pc |-> "none", taken |-> <<>>]]
        /\ ~Stored(e)
        /\ mishaps[e] = {}
    BY DEF Init, NoCommit, Stored
  <2>2. Protocol(e)
    BY <2>1 DEF Protocol
  <2>3. Gathering(e)
    BY <2>1 DEF Gathering, NoneTwice, Elements
  <2>4. Collected(e)
    BY <2>1, <2>3 DEF Collected
  <2>5. Answered(e) /\ Complete(e)
    BY <2>1 DEF Answered, Complete, Phase
  <2>6. Ordered(e)
    BY <2>1 DEF Ordered, InOrder
  <2>. QED
    BY <2>2, <2>4, <2>5, <2>6 DEF EntryOK
<1>4. \A e \in Entries : Apart(e)
  BY DEF Init, Apart, Phase
<1>. QED
  BY <1>2, <1>3, <1>4 DEF IInv
-----------------------------------------------------------------------------
(* Every action keeps the invariant *)

\* The steps on the entry e.
OneStep(e) ==
    \/ CreateCacheEntry(e)
    \/ \E b \in BlockIDs :
          SendBlock(e, b) \/ StageBlock(e, b) \/ StageFails(e, b)
    \/ \E i \in Sends : SendCommit(e, i) \/ TakeBlocks(e, i)
                           \/ WriteCommit(e, i) \/ WriteCommitFails(e, i)
    \/ \E i \in Sends : SendDirect(e, i) \/ DirectUpload(e, i)
                           \/ DirectUploadFails(e, i)
    \/ GiveUp(e)

\* What a step on the entry e has to show.
Kept(e) == TypeOK' /\ OthersKept(e) /\ EntryOK(e)'

LEMMA CreateCacheEntryOK ==
    ASSUME IInv, NEW e \in Entries, CreateCacheEntry(e)
    PROVE  Kept(e)
<1>. USE DEF IInv
<1>1. PICK to \in {"blocks", "direct"} :
         client' = [client EXCEPT ![e].phase = to]
  BY DEF CreateCacheEntry
<1>2. to \in Phases /\ Phase(e) = "none"
      /\ UNCHANGED <<staging, blocks, commits, puts, bucket, mishaps>>
  BY DEF CreateCacheEntry, Phases
<1>3. /\ client' \in [Entries -> Client]
      /\ client'[e].acked = client[e].acked
      /\ client'[e].sent = client[e].sent
      /\ Phase(e)' = to
      /\ \A f \in Entries \ {e} : client'[f] = client[f]
  BY <1>1, <1>2, PhaseSet
<1>4. TypeOK'
  BY <1>2, <1>3 DEF TypeOK
<1>5. OthersKept(e)
  BY <1>2, <1>3 DEF OthersKept, Untouched, Stored
<1>6. EntryOK(e)
  OBVIOUS
<1>7. Protocol(e)'
  BY <1>2, <1>3, <1>6 DEF EntryOK, Protocol, Phase
<1>8. Collected(e)'
  BY <1>2, <1>3, <1>6 DEF EntryOK, Collected, Gathering, Handed, HandedTo
<1>9. Answered(e)' /\ Complete(e)'
  BY <1>2, <1>3, <1>6 DEF EntryOK, Answered, Complete, Stored
<1>10. Ordered(e)'
  BY <1>2, <1>3, <1>6 DEF EntryOK, Ordered, Lost, Stored
<1>. QED
  BY <1>4, <1>5, <1>7, <1>8, <1>9, <1>10 DEF EntryOK, Kept

LEMMA GiveUpOK ==
    ASSUME IInv, NEW e \in Entries, GiveUp(e)
    PROVE  Kept(e)
<1>. USE DEF IInv
<1>1. /\ client' = [client EXCEPT ![e].phase = "failed"]
      /\ UNCHANGED <<staging, blocks, commits, puts, bucket, mishaps>>
      /\ "failed" \in Phases
  BY DEF GiveUp, Phases
<1>3. /\ client' \in [Entries -> Client]
      /\ client'[e].acked = client[e].acked
      /\ client'[e].sent = client[e].sent
      /\ Phase(e)' = "failed"
      /\ \A f \in Entries \ {e} : client'[f] = client[f]
  BY <1>1, PhaseSet
<1>4. TypeOK'
  BY <1>1, <1>3 DEF TypeOK
<1>5. OthersKept(e)
  BY <1>1, <1>3 DEF OthersKept, Untouched, Stored
<1>6. EntryOK(e)
  OBVIOUS
<1>7. Protocol(e)'
  BY <1>1, <1>3, <1>6 DEF EntryOK, Protocol
<1>8. Collected(e)'
  BY <1>1, <1>3, <1>6 DEF EntryOK, Collected, Gathering, Handed, HandedTo
<1>9. Answered(e)' /\ Complete(e)'
  BY <1>1, <1>3, <1>6 DEF EntryOK, Answered, Complete, Stored
<1>10. Ordered(e)'
  BY <1>1, <1>3, <1>6 DEF EntryOK, Ordered, Lost, Stored
<1>. QED
  BY <1>4, <1>5, <1>7, <1>8, <1>9, <1>10 DEF EntryOK, Kept

LEMMA SendBlockOK ==
    ASSUME IInv, NEW e \in Entries, NEW b \in BlockIDs, SendBlock(e, b)
    PROVE  Kept(e)
<1>. USE DEF IInv
<1>. DEFINE what == (IF OnTheWay(e) # {} THEN {"overlap"} ELSE {}) \cup
                    (IF client[e].sent[b] > 0 THEN {"resent"} ELSE {})
<1>1. /\ Phase(e) = "blocks" /\ b \notin client[e].acked
      /\ \A c \in 1 .. (b - 1) : client[e].sent[c] > 0
      /\ client[e].sent[b] < MaxSends
      /\ client' = [client EXCEPT ![e].sent[b] = @ + 1]
      /\ staging' = [staging EXCEPT ![e][b] = @ + 1]
      /\ Happened(e, what)
      /\ UNCHANGED <<blocks, commits, puts, bucket>>
  BY DEF SendBlock
<1>2. /\ client' \in [Entries -> Client]
      /\ client'[e].acked = client[e].acked
      /\ client'[e].sent[b] = client[e].sent[b] + 1
      /\ \A c \in BlockIDs \ {b} : client'[e].sent[c] = client[e].sent[c]
      /\ Phase(e)' = Phase(e)
      /\ \A f \in Entries \ {e} : client'[f] = client[f]
  BY <1>1, SentAgain
<1>3. EntryOK(e) /\ MaxSends \in Nat
  BY CacheServerAssumption
<1>4. /\ client[e].sent \in [BlockIDs -> 0..MaxSends]
      /\ staging[e] \in [BlockIDs -> 0..MaxSends]
      /\ client[e].acked \subseteq BlockIDs
      /\ blocks[e] \in Seq(BlockIDs)
      /\ mishaps[e] \subseteq Mishaps
  BY ClientFacts
<1>5. staging[e][b] <= client[e].sent[b]
  BY <1>3 DEF EntryOK, Protocol
<1>6. staging[e][b] + 1 \in 0..MaxSends
      /\ staging' = [staging EXCEPT ![e][b] = staging[e][b] + 1]
  BY <1>1, <1>3, <1>4, <1>5
<1>7. /\ staging' \in [Entries -> [BlockIDs -> 0..MaxSends]]
      /\ staging'[e][b] = staging[e][b] + 1
      /\ \A c \in BlockIDs \ {b} : staging'[e][c] = staging[e][c]
      /\ \A f \in Entries \ {e} : staging'[f] = staging[f]
  BY <1>6, StagingSet
<1>8. /\ mishaps' \in [Entries -> SUBSET Mishaps]
      /\ mishaps'[e] = mishaps[e] \cup what
      /\ \A f \in Entries \ {e} : mishaps'[f] = mishaps[f]
  <2>1. what \in SUBSET Mishaps
    BY DEF Mishaps
  <2>. HIDE DEF what
  <2>. QED
    BY <1>1, <2>1, HappenedFacts
<1>9. TypeOK'
  BY <1>1, <1>2, <1>7, <1>8 DEF TypeOK
<1>10. OthersKept(e)
  BY <1>1, <1>2, <1>7, <1>8 DEF OthersKept, Untouched, Stored
<1>11. \A i \in Sends : commits[e][i].pc = "none" /\ commits[e][i].taken = <<>>
  BY <1>1, <1>3 DEF EntryOK, Protocol
<1>12. Protocol(e)'
  BY <1>1, <1>2, <1>3, <1>4, <1>7, <1>11 DEF EntryOK, Protocol
<1>13. ASSUME "resent" \notin mishaps'[e]
       PROVE  /\ "resent" \notin mishaps[e]
              /\ client[e].sent[b] = 0 /\ staging[e][b] = 0
              /\ Gathering(e)
  <2>1. "resent" \notin mishaps[e] /\ ~(client[e].sent[b] > 0)
    BY <1>8, <1>13
  <2>2. ~Handed(e)
    <3>1. SUFFICES ASSUME NEW i \in Sends, HandedTo(e, i) PROVE FALSE
      BY DEF Handed
    <3>2. Len(<<>>) = Blocks
      BY <1>11, <3>1 DEF HandedTo, EveryBlockOnce
    <3>. QED
      BY <3>2, CacheServerAssumption
  <2>. QED
    BY <1>3, <1>4, <1>5, <2>1, <2>2 DEF EntryOK, Collected
<1>14. Collected(e)'
  <2>1. SUFFICES ASSUME "resent" \notin mishaps'[e]
                 PROVE  /\ \A c \in BlockIDs : client'[e].sent[c] <= 1
                        /\ Gathering(e)'
    BY DEF Collected
  <2>2. /\ "resent" \notin mishaps[e]
        /\ client[e].sent[b] = 0 /\ staging[e][b] = 0
        /\ Gathering(e)
    BY <1>13, <2>1
  <2>3. \A c \in BlockIDs : client'[e].sent[c] <= 1
    BY <1>2, <1>3, <2>2 DEF EntryOK, Collected
  <2>4. b \notin Elements(blocks[e])
    BY <2>2 DEF Gathering
  <2>5. Gathering(e)'
    <3>1. \A c \in Elements(blocks[e]) : c \in BlockIDs
      BY <1>4 DEF Elements
    <3>. QED
      BY <1>1, <1>2, <1>7, <2>2, <2>4, <3>1 DEF Gathering
  <2>. QED
    BY <2>3, <2>5
<1>15. Answered(e)'
  BY <1>1, <1>2 DEF Answered
<1>16. Complete(e)'
  BY <1>1, <1>3, <1>8 DEF EntryOK, Complete, Stored
<1>17. Ordered(e)'
  <2>1. SUFFICES ASSUME mishaps'[e] = {} PROVE Ordered(e)'
    BY DEF Ordered
  <2>2. mishaps[e] = {} /\ OnTheWay(e) = {}
    BY <1>8, <2>1
  <2>3. /\ client[e].sent[b] = 0 /\ staging[e][b] = 0 /\ Gathering(e)
    BY <1>13, <2>1
  <2>4. \A c \in BlockIDs : staging[e][c] = 0
    BY <1>4, <2>2 DEF OnTheWay
  <2>5. (\E c \in BlockIDs : Lost(e, c)) => \E c \in BlockIDs : Lost(e, c)'
    BY <1>1, <1>2, <1>7, <2>3 DEF Lost
  <2>6. CASE ~\E c \in BlockIDs : Lost(e, c)
    <3>1. InOrder(blocks[e]) /\ Len(blocks[e]) \in Nat
          /\ DOMAIN blocks[e] = 1..Len(blocks[e])
      BY <1>3, <1>4, <2>2, <2>6 DEF EntryOK, Ordered
    <3>2. \A c \in BlockIDs : c < b => c <= Len(blocks[e])
      <4>1. SUFFICES ASSUME NEW c \in BlockIDs, c < b
                     PROVE  c <= Len(blocks[e])
        OBVIOUS
      <4>2. client[e].sent[c] > 0
        BY <1>1, <4>1 DEF BlockIDs
      <4>3. c \in Elements(blocks[e])
        BY <2>3, <2>4, <2>6, <4>1, <4>2 DEF Lost, Gathering
      <4>. QED
        BY <3>1, <4>3 DEF InOrder, Elements
    <3>3. ~(b <= Len(blocks[e]))
      <4>1. SUFFICES ASSUME b <= Len(blocks[e]) PROVE FALSE
        OBVIOUS
      <4>2. b \in Elements(blocks[e])
        BY <3>1, <4>1 DEF InOrder, Elements, BlockIDs
      <4>. QED
        BY <2>3, <4>2 DEF Gathering
    <3>4. b = Len(blocks[e]) + 1
      <4>1. b \in Nat /\ Blocks \in Nat /\ b >= 1 /\ b <= Blocks
        BY CacheServerAssumption DEF BlockIDs
      <4>2. CASE b > Len(blocks[e]) + 1
        <5>1. b - 1 \in BlockIDs /\ b - 1 < b /\ ~(b - 1 <= Len(blocks[e]))
          BY <3>1, <4>1, <4>2 DEF BlockIDs
        <5>. QED
          BY <3>2, <5>1
      <4>. QED
        BY <3>1, <3>3, <4>1, <4>2
    <3>5. ASSUME NEW c \in BlockIDs, staging'[e][c] > 0
          PROVE  c = Len(blocks[e]) + 1
      <4>1. c # b => staging'[e][c] = 0
        BY <1>7, <2>4
      <4>. QED
        BY <3>4, <3>5, <4>1
    <3>. QED
      BY <1>1, <1>3, <2>2, <3>1, <3>5 DEF EntryOK, Ordered, Stored
  <2>7. CASE \E c \in BlockIDs : Lost(e, c)
    BY <1>1, <1>3, <2>2, <2>5, <2>7 DEF EntryOK, Ordered, Stored
  <2>. QED
    BY <2>6, <2>7
<1>. QED
  BY <1>9, <1>10, <1>12, <1>14, <1>15, <1>16, <1>17 DEF EntryOK, Kept

\* A commit that is out stays out of the way of the blocks.
LEMMA StagingHandled ==
    ASSUME IInv, NEW e \in Entries, NEW b \in BlockIDs, staging[e][b] > 0,
           "resent" \notin mishaps[e]
    PROVE  /\ Gathering(e)
           /\ b \notin Elements(blocks[e])
           /\ client[e].sent[b] = 1 /\ staging[e][b] = 1
           /\ b \notin client[e].acked
           /\ \A i \in Sends :
                 commits[e][i].pc = "none" /\ commits[e][i].taken = <<>>
<1>1. EntryOK(e) /\ TypeOK
  BY DEF IInv
<1>2. /\ client[e].sent \in [BlockIDs -> 0..MaxSends] /\ MaxSends \in Nat
      /\ staging[e] \in [BlockIDs -> 0..MaxSends]
  BY <1>1, ClientFacts, CacheServerAssumption
<1>3. Gathering(e) /\ client[e].sent[b] <= 1
  BY <1>1 DEF EntryOK, Collected, Handed, HandedTo
<1>4. client[e].sent[b] = 1 /\ staging[e][b] = 1
  BY <1>1, <1>2, <1>3 DEF EntryOK, Protocol
<1>5. b \notin Elements(blocks[e]) /\ b \notin client[e].acked
  BY <1>3 DEF Gathering
<1>6. \A i \in Sends : commits[e][i].pc = "none" /\ commits[e][i].taken = <<>>
  BY <1>1, <1>5 DEF EntryOK, Protocol
<1>. QED
  BY <1>3, <1>4, <1>5, <1>6

LEMMA StageBlockOK ==
    ASSUME IInv, NEW e \in Entries, NEW b \in BlockIDs, StageBlock(e, b)
    PROVE  Kept(e)
<1>. USE DEF IInv
<1>1. /\ staging[e][b] > 0
      /\ staging' = [staging EXCEPT ![e][b] = @ - 1]
      /\ blocks' = [blocks EXCEPT ![e] = Append(@, b)]
      /\ UNCHANGED <<commits, puts, bucket, mishaps>>
  BY DEF StageBlock
<1>2. /\ client' \in [Entries -> Client]
      /\ client'[e].acked \in {client[e].acked, client[e].acked \cup {b}}
      /\ client'[e].sent = client[e].sent
      /\ Phase(e)' = Phase(e)
      /\ \A f \in Entries \ {e} : client'[f] = client[f]
  <2>1. CASE client' = [client EXCEPT ![e].acked = @ \cup {b}]
    BY <2>1, AckedAdded
  <2>2. CASE UNCHANGED client
    BY <2>2 DEF TypeOK, Phase
  <2>. QED
    BY <2>1, <2>2 DEF StageBlock, NotTold
<1>3. EntryOK(e) /\ MaxSends \in Nat
  BY CacheServerAssumption
<1>4. /\ client[e].sent \in [BlockIDs -> 0..MaxSends]
      /\ staging[e] \in [BlockIDs -> 0..MaxSends]
      /\ client[e].acked \subseteq BlockIDs
      /\ blocks[e] \in Seq(BlockIDs)
  BY ClientFacts
<1>5. staging[e][b] - 1 \in 0..MaxSends
      /\ staging' = [staging EXCEPT ![e][b] = staging[e][b] - 1]
  BY <1>1, <1>3, <1>4
<1>6. /\ staging' \in [Entries -> [BlockIDs -> 0..MaxSends]]
      /\ staging'[e][b] = staging[e][b] - 1
      /\ \A c \in BlockIDs \ {b} : staging'[e][c] = staging[e][c]
      /\ \A f \in Entries \ {e} : staging'[f] = staging[f]
  BY <1>5, StagingSet
<1>7. /\ Append(blocks[e], b) \in Seq(BlockIDs)
      /\ Elements(Append(blocks[e], b)) = Elements(blocks[e]) \cup {b}
      /\ NoneTwice(blocks[e]) /\ b \notin Elements(blocks[e]) =>
            NoneTwice(Append(blocks[e], b))
      /\ InOrder(blocks[e]) /\ b = Len(blocks[e]) + 1 =>
            InOrder(Append(blocks[e], b))
  BY <1>4, AppendElements
<1>8. /\ blocks' \in [Entries -> Seq(BlockIDs)]
      /\ blocks'[e] = Append(blocks[e], b)
      /\ \A f \in Entries \ {e} : blocks'[f] = blocks[f]
  <2>1. blocks' = [blocks EXCEPT ![e] = Append(blocks[e], b)]
    BY <1>1
  <2>. QED
    BY <1>7, <2>1, ListSet
<1>9. TypeOK'
  BY <1>1, <1>2, <1>6, <1>8 DEF TypeOK
<1>10. OthersKept(e)
  BY <1>1, <1>2, <1>6, <1>8 DEF OthersKept, Untouched, Stored
<1>11. Protocol(e)'
  <2>1. \A c \in BlockIDs : staging'[e][c] <= client'[e].sent[c]
    <3>1. SUFFICES ASSUME NEW c \in BlockIDs
                   PROVE  staging'[e][c] <= client[e].sent[c]
      BY <1>2
    <3>2. staging[e][c] <= client[e].sent[c]
      BY <1>3 DEF EntryOK, Protocol
    <3>3. staging'[e][c] <= staging[e][c] /\ staging'[e][c] \in Nat
          /\ staging[e][c] \in Nat /\ client[e].sent[c] \in Nat
      BY <1>4, <1>5, <1>6
    <3>. QED
      BY <3>2, <3>3
  <2>2. client[e].acked = BlockIDs => client'[e].acked = BlockIDs
    BY <1>2
  <2>. QED
    BY <1>1, <1>2, <1>3, <2>1, <2>2 DEF EntryOK, Protocol
<1>12. ASSUME "resent" \notin mishaps[e]
       PROVE  /\ Gathering(e)
              /\ b \notin Elements(blocks[e])
              /\ client[e].sent[b] = 1 /\ staging[e][b] = 1
              /\ b \notin client[e].acked
              /\ \A i \in Sends :
                    commits[e][i].pc = "none" /\ commits[e][i].taken = <<>>
  BY <1>1, <1>12, StagingHandled
<1>13. Collected(e)'
  <2>1. SUFFICES ASSUME "resent" \notin mishaps[e]
                 PROVE  (\A c \in BlockIDs : client[e].sent[c] <= 1) /\ Gathering(e)'
    BY <1>1, <1>2 DEF Collected
  <2>2. \A c \in BlockIDs : staging'[e][c] > 0 =>
           c \notin Elements(blocks[e]) \cup {b}
    <3>1. SUFFICES ASSUME NEW c \in BlockIDs, staging'[e][c] > 0
                   PROVE  c \notin Elements(blocks[e]) /\ c # b
      OBVIOUS
    <3>2. staging'[e][b] = 0
      BY <1>6, <1>12, <2>1
    <3>3. c # b
      BY <3>1, <3>2
    <3>. QED
      BY <1>6, <1>12, <2>1, <3>1, <3>3 DEF Gathering
  <2>3. \A c \in Elements(blocks[e]) \cup {b} : client[e].sent[c] > 0
    BY <1>12, <2>1 DEF Gathering
  <2>4. NoneTwice(Append(blocks[e], b))
    BY <1>7, <1>12, <2>1 DEF Gathering
  <2>5. client'[e].acked \subseteq Elements(blocks[e]) \cup {b}
    BY <1>2, <1>12, <2>1 DEF Gathering
  <2>6. \A i \in Sends : commits'[e][i].taken = <<>>
    BY <1>1, <1>12, <2>1
  <2>7. Gathering(e)'
    BY <1>2, <1>7, <1>8, <2>2, <2>3, <2>4, <2>5, <2>6 DEF Gathering
  <2>. QED
    BY <1>3, <2>1, <2>7 DEF EntryOK, Collected
<1>14. Answered(e)'
  <2>1. SUFFICES ASSUME Phase(e) = "saved", "resent" \notin mishaps[e]
                 PROVE  Answered(e)'
    BY <1>1, <1>2 DEF Answered
  <2>2. \A i \in Sends : commits[e][i].pc = "none"
    BY <1>12, <2>1
  <2>. QED
    BY <1>1, <1>3, <2>1, <2>2 DEF EntryOK, Answered, Stored
<1>15. Complete(e)'
  BY <1>1, <1>3 DEF EntryOK, Complete, Stored
<1>16. Ordered(e)'
  <2>1. SUFFICES ASSUME mishaps[e] = {} PROVE Ordered(e)'
    BY <1>1 DEF Ordered
  <2>2. /\ Gathering(e) /\ client[e].sent[b] = 1 /\ staging[e][b] = 1
        /\ b \notin Elements(blocks[e])
    BY <1>12, <2>1
  <2>3. ASSUME NEW c \in BlockIDs, Lost(e, c) PROVE Lost(e, c)'
    <3>1. c # b
      BY <2>2, <2>3 DEF Lost
    <3>. QED
      BY <1>2, <1>6, <1>7, <1>8, <2>3, <3>1 DEF Lost
  <2>4. CASE /\ InOrder(blocks[e])
             /\ \A c \in BlockIDs : staging[e][c] > 0 => c = Len(blocks[e]) + 1
    <3>1. b = Len(blocks[e]) + 1
      BY <2>2, <2>4
    <3>2. InOrder(blocks'[e])
      BY <1>7, <1>8, <2>4, <3>1
    <3>3. \A c \in BlockIDs : ~(staging'[e][c] > 0)
      <4>1. staging'[e][b] = 0
        BY <1>6, <2>2
      <4>2. SUFFICES ASSUME NEW c \in BlockIDs \ {b}, staging'[e][c] > 0
                     PROVE  FALSE
        BY <4>1
      <4>. QED
        BY <1>6, <2>4, <3>1, <4>2
    <3>. QED
      BY <1>1, <1>3, <2>1, <3>2, <3>3 DEF EntryOK, Ordered, Stored
  <2>5. CASE \E c \in BlockIDs : Lost(e, c)
    BY <1>1, <1>3, <2>1, <2>3, <2>5 DEF EntryOK, Ordered, Stored
  <2>. QED
    BY <1>3, <2>1, <2>4, <2>5 DEF EntryOK, Ordered
<1>. QED
  BY <1>9, <1>10, <1>11, <1>13, <1>14, <1>15, <1>16 DEF EntryOK, Kept

LEMMA StageFailsOK ==
    ASSUME IInv, NEW e \in Entries, NEW b \in BlockIDs, StageFails(e, b)
    PROVE  Kept(e)
<1>. USE DEF IInv
<1>1. /\ staging[e][b] > 0
      /\ staging' = [staging EXCEPT ![e][b] = @ - 1]
      /\ UNCHANGED <<client, blocks, commits, puts, bucket, mishaps>>
  BY DEF StageFails
<1>3. EntryOK(e) /\ MaxSends \in Nat
  BY CacheServerAssumption
<1>4. /\ client[e].sent \in [BlockIDs -> 0..MaxSends]
      /\ staging[e] \in [BlockIDs -> 0..MaxSends]
  BY ClientFacts
<1>5. staging[e][b] - 1 \in 0..MaxSends
      /\ staging' = [staging EXCEPT ![e][b] = staging[e][b] - 1]
  BY <1>1, <1>3, <1>4
<1>6. /\ staging' \in [Entries -> [BlockIDs -> 0..MaxSends]]
      /\ staging'[e][b] = staging[e][b] - 1
      /\ \A c \in BlockIDs \ {b} : staging'[e][c] = staging[e][c]
      /\ \A f \in Entries \ {e} : staging'[f] = staging[f]
  BY <1>5, StagingSet
<1>7. \A c \in BlockIDs : staging'[e][c] <= staging[e][c] /\ staging'[e][c] \in Nat
                              /\ staging[e][c] \in Nat /\ client[e].sent[c] \in Nat
  BY <1>4, <1>5, <1>6
<1>9. TypeOK'
  BY <1>1, <1>6 DEF TypeOK
<1>10. OthersKept(e)
  BY <1>1, <1>6 DEF OthersKept, Untouched, Stored
<1>11. Protocol(e)'
  <2>1. ASSUME NEW c \in BlockIDs PROVE staging'[e][c] <= client[e].sent[c]
    <3>1. staging[e][c] <= client[e].sent[c]
      BY <1>3 DEF EntryOK, Protocol
    <3>. QED
      BY <1>7, <3>1
  <2>. QED
    BY <1>1, <1>3, <2>1 DEF EntryOK, Protocol, Phase
<1>12. Gathering(e) => Gathering(e)'
  <2>1. ASSUME NEW c \in BlockIDs, staging'[e][c] > 0 PROVE staging[e][c] > 0
    BY <1>7, <2>1
  <2>. QED
    BY <1>1, <2>1 DEF Gathering
<1>13. ~Handed(e)
  BY <1>1 DEF Handed, HandedTo
<1>14. Collected(e)'
  BY <1>1, <1>3, <1>12, <1>13 DEF EntryOK, Collected
<1>15. Answered(e)'
  BY <1>1, <1>3, <1>13 DEF EntryOK, Answered, Stored, Phase
<1>16. Complete(e)'
  BY <1>1, <1>3 DEF EntryOK, Complete, Stored
<1>17. Ordered(e)'
  <2>1. SUFFICES ASSUME mishaps[e] = {} PROVE Ordered(e)'
    BY <1>1 DEF Ordered
  <2>2. /\ client[e].sent[b] = 1 /\ staging[e][b] = 1
        /\ b \notin Elements(blocks[e]) /\ b \notin client[e].acked
    BY <1>1, <2>1, StagingHandled
  <2>3. Lost(e, b)'
    BY <1>1, <1>6, <2>2 DEF Lost
  <2>. QED
    BY <1>1, <1>3, <2>1, <2>3 DEF EntryOK, Ordered, Stored
<1>. QED
  BY <1>9, <1>10, <1>11, <1>14, <1>15, <1>16, <1>17 DEF EntryOK, Kept

LEMMA SendCommitOK ==
    ASSUME IInv, NEW e \in Entries, NEW i \in Sends, SendCommit(e, i)
    PROVE  Kept(e)
<1>. USE DEF IInv
<1>1. /\ commits[e][i].pc = "none"
      /\ client' = [client EXCEPT ![e].phase = "commit"]
      /\ commits' = [commits EXCEPT ![e][i].pc = "sent"]
      /\ UNCHANGED <<staging, blocks, puts, bucket, mishaps>>
  BY DEF SendCommit
<1>2. /\ client' \in [Entries -> Client]
      /\ client'[e].acked = client[e].acked
      /\ client'[e].sent = client[e].sent
      /\ Phase(e)' = "commit"
      /\ \A f \in Entries \ {e} : client'[f] = client[f]
  BY <1>1, PhaseSet DEF Phases
<1>3. /\ commits' \in [Entries -> [Sends -> Commit]]
      /\ commits'[e][i].pc = "sent"
      /\ commits'[e][i].taken = commits[e][i].taken
      /\ \A j \in Sends \ {i} : commits'[e][j] = commits[e][j]
      /\ \A f \in Entries \ {e} : commits'[f] = commits[f]
  BY <1>1, CommitMoved
<1>4. EntryOK(e)
  OBVIOUS
<1>5. client[e].acked = BlockIDs
  <2>1. CASE client[e].acked = BlockIDs
    BY <2>1
  <2>2. CASE i > 1 /\ commits[e][i - 1].pc # "none"
    <3>1. i - 1 \in Sends
      BY <2>2, CacheServerAssumption DEF Sends
    <3>. QED
      BY <1>4, <2>2, <3>1 DEF EntryOK, Protocol
  <2>. QED
    BY <2>1, <2>2 DEF SendCommit
<1>6. TypeOK'
  BY <1>1, <1>2, <1>3 DEF TypeOK
<1>7. OthersKept(e)
  BY <1>1, <1>2, <1>3 DEF OthersKept, Untouched, Stored
<1>8. \A j \in Sends : commits'[e][j].taken = commits[e][j].taken
  BY <1>3
<1>9. Protocol(e)'
  <2>1. ASSUME NEW j \in Sends
        PROVE  /\ commits'[e][j].pc # "none" =>
                     /\ client'[e].acked = BlockIDs
                     /\ Phase(e)' \in {"commit", "saved", "failed"}
               /\ commits'[e][j].pc \in {"none", "sent"} =>
                     commits'[e][j].taken = <<>>
               /\ commits'[e][j].pc = "writing" => commits'[e][j].taken # <<>>
    <3>1. CASE j = i
      BY <1>1, <1>2, <1>3, <1>4, <1>5, <3>1 DEF EntryOK, Protocol
    <3>2. CASE j # i
      BY <1>2, <1>3, <1>4, <1>5, <3>2 DEF EntryOK, Protocol
    <3>. QED
      BY <3>1, <3>2
  <2>. QED
    BY <1>1, <1>2, <1>4, <2>1 DEF EntryOK, Protocol
<1>10. Gathering(e) => Gathering(e)'
  BY <1>1, <1>2, <1>8 DEF Gathering
<1>11. ASSUME NEW j \in Sends, HandedTo(e, j) PROVE HandedTo(e, j)'
  BY <1>1, <1>8, <1>11 DEF HandedTo
<1>12. Collected(e)'
  BY <1>1, <1>2, <1>4, <1>10, <1>11 DEF EntryOK, Collected, Handed
<1>13. Answered(e)' /\ Complete(e)'
  BY <1>1, <1>2, <1>4 DEF EntryOK, Answered, Complete, Stored
<1>14. Ordered(e)'
  <2>1. ASSUME NEW b \in BlockIDs, Lost(e, b) PROVE Lost(e, b)'
    BY <1>1, <1>2, <2>1 DEF Lost
  <2>. QED
    BY <1>1, <1>4, <1>8, <2>1 DEF EntryOK, Ordered, Stored
<1>. QED
  BY <1>6, <1>7, <1>9, <1>12, <1>13, <1>14 DEF EntryOK, Kept

\* The list a commit takes has every block once, when none was sent twice.
LEMMA ListIsComplete ==
    ASSUME IInv, NEW e \in Entries, NEW i \in Sends, commits[e][i].pc = "sent",
           "resent" \notin mishaps[e], blocks[e] # <<>>
    PROVE  /\ Gathering(e)
           /\ EveryBlockOnce(blocks[e])
           /\ \A b \in BlockIDs : staging[e][b] = 0
<1>. USE DEF IInv
<1>1. EntryOK(e)
  OBVIOUS
<1>2. Gathering(e) /\ client[e].acked = BlockIDs
  BY <1>1 DEF EntryOK, Collected, Handed, HandedTo, Protocol
<1>3. blocks[e] \in Seq(BlockIDs) /\ staging[e] \in [BlockIDs -> 0..MaxSends]
      /\ MaxSends \in Nat
  BY ClientFacts, CacheServerAssumption
<1>4. EveryBlockOnce(blocks[e])
  BY <1>2, <1>3, EachOnce DEF Gathering
<1>5. ASSUME NEW b \in BlockIDs PROVE staging[e][b] = 0
  <2>1. ~(staging[e][b] > 0)
    BY <1>2 DEF Gathering
  <2>. QED
    BY <1>3, <2>1
<1>. QED
  BY <1>2, <1>4, <1>5

\* The commit finds nothing to take.
LEMMA TakeNothingOK ==
    ASSUME IInv, NEW e \in Entries, NEW i \in Sends, commits[e][i].pc = "sent",
           blocks[e] = <<>>,
           commits' = [commits EXCEPT ![e][i].pc = "done"],
           Told(e, "commit", "failed") \/ NotTold,
           UNCHANGED <<staging, blocks, puts, bucket, mishaps>>
    PROVE  Kept(e)
<1>. USE DEF IInv
<1>1. UNCHANGED <<staging, blocks, puts, bucket, mishaps>>
  OBVIOUS
<1>2. /\ client' \in [Entries -> Client]
      /\ client'[e].acked = client[e].acked
      /\ client'[e].sent = client[e].sent
      /\ Phase(e)' = Phase(e) \/ (Phase(e) = "commit" /\ Phase(e)' = "failed")
      /\ \A f \in Entries \ {e} : client'[f] = client[f]
  <2>1. "commit" \in Phases /\ "failed" \in Phases
    BY DEF Phases
  <2>. QED
    BY <2>1, ReplyFacts
<1>3. /\ commits' \in [Entries -> [Sends -> Commit]]
      /\ commits'[e][i].pc = "done"
      /\ commits'[e][i].taken = commits[e][i].taken
      /\ \A j \in Sends \ {i} : commits'[e][j] = commits[e][j]
      /\ \A f \in Entries \ {e} : commits'[f] = commits[f]
  BY CommitMoved
<1>4. EntryOK(e)
  OBVIOUS
<1>6. TypeOK'
  BY <1>1, <1>2, <1>3 DEF TypeOK
<1>7. OthersKept(e)
  BY <1>1, <1>2, <1>3 DEF OthersKept, Untouched, Stored
<1>8. \A j \in Sends : commits'[e][j].taken = commits[e][j].taken
                           /\ (commits[e][j].pc # "writing" => commits'[e][j].pc # "writing")
  BY <1>3
<1>9. Protocol(e)'
  <2>1. ASSUME NEW j \in Sends
        PROVE  /\ commits'[e][j].pc # "none" =>
                     /\ client'[e].acked = BlockIDs
                     /\ Phase(e)' \in {"commit", "saved", "failed"}
               /\ commits'[e][j].pc \in {"none", "sent"} =>
                     commits'[e][j].taken = <<>>
               /\ commits'[e][j].pc = "writing" => commits'[e][j].taken # <<>>
    <3>1. CASE j = i
      BY <1>2, <1>3, <1>4, <3>1 DEF EntryOK, Protocol
    <3>2. CASE j # i
      BY <1>2, <1>3, <1>4, <3>2 DEF EntryOK, Protocol
    <3>. QED
      BY <3>1, <3>2
  <2>. QED
    BY <1>1, <1>2, <1>4, <2>1 DEF EntryOK, Protocol
<1>10. Gathering(e) => Gathering(e)'
  BY <1>1, <1>2, <1>8 DEF Gathering
<1>11. ASSUME NEW j \in Sends, HandedTo(e, j) PROVE HandedTo(e, j)'
  BY <1>1, <1>8, <1>11 DEF HandedTo
<1>12. Collected(e)'
  BY <1>1, <1>2, <1>4, <1>10, <1>11 DEF EntryOK, Collected, Handed
<1>13. Answered(e)'
  BY <1>1, <1>2, <1>4, <1>8, <1>11 DEF EntryOK, Answered, Handed, Stored
<1>14. Complete(e)'
  BY <1>1, <1>4 DEF EntryOK, Complete, Stored
<1>15. Ordered(e)'
  <2>1. ASSUME NEW b \in BlockIDs, Lost(e, b) PROVE Lost(e, b)'
    BY <1>1, <1>2, <2>1 DEF Lost
  <2>. QED
    BY <1>1, <1>4, <1>8, <2>1 DEF EntryOK, Ordered, Stored
<1>. QED
  BY <1>6, <1>7, <1>9, <1>12, <1>13, <1>14, <1>15 DEF EntryOK, Kept

LEMMA TakeSomeOK ==
    ASSUME IInv, NEW e \in Entries, NEW i \in Sends, commits[e][i].pc = "sent",
           blocks[e] # <<>>,
           commits' = [commits EXCEPT ![e][i] =
                          [pc |-> "writing", taken |-> blocks[e]]],
           blocks' = [blocks EXCEPT ![e] = <<>>],
           UNCHANGED <<client, staging, puts, bucket, mishaps>>
    PROVE  Kept(e)
<1>. USE DEF IInv
<1>1. UNCHANGED <<client, staging, puts, bucket, mishaps>>
  OBVIOUS
<1>2. EntryOK(e) /\ blocks[e] \in Seq(BlockIDs)
  BY ClientFacts
<1>3. /\ commits' \in [Entries -> [Sends -> Commit]]
      /\ commits'[e][i] = [pc |-> "writing", taken |-> blocks[e]]
      /\ \A j \in Sends \ {i} : commits'[e][j] = commits[e][j]
      /\ \A f \in Entries \ {e} : commits'[f] = commits[f]
  <2>1. [pc |-> "writing", taken |-> blocks[e]] \in Commit
    BY <1>2 DEF Commit
  <2>. QED
    BY <2>1, CommitSet
<1>4. /\ blocks' \in [Entries -> Seq(BlockIDs)]
      /\ blocks'[e] = <<>>
      /\ \A f \in Entries \ {e} : blocks'[f] = blocks[f]
  <2>1. <<>> \in Seq(BlockIDs)
    OBVIOUS
  <2>. QED
    BY <2>1, ListSet
<1>5. TypeOK'
  BY <1>1, <1>3, <1>4 DEF TypeOK
<1>6. OthersKept(e)
  BY <1>1, <1>3, <1>4 DEF OthersKept, Untouched, Stored
<1>7. Protocol(e)'
  <2>1. ASSUME NEW j \in Sends
        PROVE  /\ commits'[e][j].pc # "none" =>
                     /\ client[e].acked = BlockIDs
                     /\ Phase(e) \in {"commit", "saved", "failed"}
               /\ commits'[e][j].pc \in {"none", "sent"} =>
                     commits'[e][j].taken = <<>>
               /\ commits'[e][j].pc = "writing" => commits'[e][j].taken # <<>>
    <3>1. CASE j = i
      BY <1>2, <1>3, <3>1 DEF EntryOK, Protocol
    <3>2. CASE j # i
      BY <1>2, <1>3, <3>2 DEF EntryOK, Protocol
    <3>. QED
      BY <3>1, <3>2
  <2>. QED
    BY <1>1, <1>2, <2>1 DEF EntryOK, Protocol, Phase
<1>8. ASSUME "resent" \notin mishaps[e] PROVE HandedTo(e, i)'
  <2>1. /\ Gathering(e)
        /\ EveryBlockOnce(blocks[e])
        /\ \A b \in BlockIDs : staging[e][b] = 0
    BY <1>8, ListIsComplete
  <2>. QED
    BY <1>1, <1>3, <1>4, <2>1 DEF HandedTo, Gathering
<1>9. Collected(e)'
  BY <1>1, <1>2, <1>8 DEF EntryOK, Collected, Handed
<1>10. Answered(e)'
  <2>1. SUFFICES ASSUME Phase(e) = "saved", "resent" \notin mishaps[e]
                 PROVE  FALSE
    BY <1>1 DEF Answered, Phase
  <2>2. Handed(e)
    BY <1>2, <2>1 DEF EntryOK, Answered
  <2>. QED
    BY <2>2 DEF Handed, HandedTo
<1>11. Complete(e)'
  BY <1>1, <1>2 DEF EntryOK, Complete, Stored
<1>12. Ordered(e)'
  <2>1. SUFFICES ASSUME mishaps[e] = {} PROVE Ordered(e)'
    BY <1>1 DEF Ordered
  <2>2. /\ \A b \in BlockIDs : staging[e][b] = 0
        /\ client[e].acked = BlockIDs
    BY <1>2, <2>1, ListIsComplete DEF EntryOK, Protocol
  <2>3. InOrder(blocks[e]) /\ \A j \in Sends : InOrder(commits[e][j].taken)
    BY <1>2, <2>1, <2>2 DEF EntryOK, Ordered, Lost
  <2>4. \A j \in Sends : InOrder(commits'[e][j].taken)
    BY <1>3, <2>3
  <2>5. InOrder(<<>>) /\ \A b \in BlockIDs : ~(staging'[e][b] > 0)
    BY <1>1, <2>2 DEF InOrder
  <2>. QED
    BY <1>1, <1>2, <1>4, <2>1, <2>4, <2>5 DEF EntryOK, Ordered, Stored
<1>. QED
  BY <1>5, <1>6, <1>7, <1>9, <1>10, <1>11, <1>12 DEF EntryOK, Kept

LEMMA TakeBlocksOK ==
    ASSUME IInv, NEW e \in Entries, NEW i \in Sends, TakeBlocks(e, i)
    PROVE  Kept(e)
<1>1. CASE blocks[e] = <<>>
  BY <1>1, TakeNothingOK DEF TakeBlocks
<1>2. CASE blocks[e] # <<>>
  BY <1>2, TakeSomeOK DEF TakeBlocks
<1>. QED
  BY <1>1, <1>2

\* A commit that is being written has the whole list, and is the only one.
LEMMA WriterHasAll ==
    ASSUME IInv, NEW e \in Entries, NEW i \in Sends,
           commits[e][i].pc = "writing", "resent" \notin mishaps[e]
    PROVE  /\ HandedTo(e, i)
           /\ \A j \in Sends \ {i} : commits[e][j].pc # "writing"
<1>1. EntryOK(e)
  BY DEF IInv
<1>2. \A j \in Sends : commits[e][j].pc = "writing" => commits[e][j].taken # <<>>
  BY <1>1 DEF EntryOK, Protocol
<1>3. Handed(e)
  BY <1>1, <1>2 DEF EntryOK, Collected, Gathering
<1>4. PICK k \in Sends : HandedTo(e, k)
  BY <1>3 DEF Handed
<1>5. k = i
  BY <1>2, <1>4 DEF HandedTo
<1>. QED
  BY <1>2, <1>4, <1>5 DEF HandedTo

\* The end of a commit's Write, of which the client hears or not.
LEMMA CommitDone ==
    ASSUME IInv, NEW e \in Entries, NEW i \in Sends,
           commits[e][i].pc = "writing",
           commits' = [commits EXCEPT ![e][i].pc = "done"],
           UNCHANGED <<staging, blocks>>,
           client'[e].acked = client[e].acked,
           client'[e].sent = client[e].sent,
           Phase(e)' = Phase(e) \/ (Phase(e) = "commit" /\ Phase(e)' = "saved")
    PROVE  /\ commits' \in [Entries -> [Sends -> Commit]]
           /\ \A f \in Entries \ {e} : commits'[f] = commits[f]
           /\ Protocol(e)'
           /\ \A j \in Sends : commits'[e][j].taken = commits[e][j].taken
           /\ Gathering(e) => Gathering(e)'
           /\ \A j \in Sends : HandedTo(e, j) => HandedTo(e, j)'
           /\ \A b \in BlockIDs : Lost(e, b) => Lost(e, b)'
           /\ commits'[e][i].pc = "done"
           /\ \A j \in Sends \ {i} : commits'[e][j] = commits[e][j]
<1>. USE DEF IInv
<1>1. EntryOK(e) /\ UNCHANGED <<staging, blocks>>
  OBVIOUS
<1>2. client'[e].acked = client[e].acked /\ client'[e].sent = client[e].sent
      /\ (Phase(e)' = Phase(e) \/ (Phase(e) = "commit" /\ Phase(e)' = "saved"))
  OBVIOUS
<1>3. /\ commits' \in [Entries -> [Sends -> Commit]]
      /\ commits'[e][i].pc = "done"
      /\ commits'[e][i].taken = commits[e][i].taken
      /\ \A j \in Sends \ {i} : commits'[e][j] = commits[e][j]
      /\ \A f \in Entries \ {e} : commits'[f] = commits[f]
  BY CommitMoved
<1>4. \A j \in Sends : commits'[e][j].taken = commits[e][j].taken
  BY <1>3
<1>5. Protocol(e)'
  <2>1. ASSUME NEW j \in Sends
        PROVE  /\ commits'[e][j].pc # "none" =>
                     /\ client'[e].acked = BlockIDs
                     /\ Phase(e)' \in {"commit", "saved", "failed"}
               /\ commits'[e][j].pc \in {"none", "sent"} =>
                     commits'[e][j].taken = <<>>
               /\ commits'[e][j].pc = "writing" => commits'[e][j].taken # <<>>
    <3>1. CASE j = i
      BY <1>1, <1>2, <1>3, <3>1 DEF EntryOK, Protocol
    <3>2. CASE j # i
      BY <1>1, <1>2, <1>3, <3>2 DEF EntryOK, Protocol
    <3>. QED
      BY <3>1, <3>2
  <2>. QED
    BY <1>1, <1>2, <2>1 DEF EntryOK, Protocol
<1>6. Gathering(e) => Gathering(e)'
  BY <1>1, <1>2, <1>4 DEF Gathering
<1>7. \A j \in Sends : HandedTo(e, j) => HandedTo(e, j)'
  BY <1>1, <1>4 DEF HandedTo
<1>8. \A b \in BlockIDs : Lost(e, b) => Lost(e, b)'
  BY <1>1, <1>2 DEF Lost
<1>. QED
  BY <1>3, <1>4, <1>5, <1>6, <1>7, <1>8

LEMMA WriteCommitOK ==
    ASSUME IInv, NEW e \in Entries, NEW i \in Sends, WriteCommit(e, i)
    PROVE  Kept(e)
<1>. USE DEF IInv
<1>1. /\ commits[e][i].pc = "writing"
      /\ Written(e, commits[e][i].taken)
      /\ commits' = [commits EXCEPT ![e][i].pc = "done"]
      /\ UNCHANGED <<staging, blocks, puts, mishaps>>
  BY DEF WriteCommit
<1>2. /\ client' \in [Entries -> Client]
      /\ client'[e].acked = client[e].acked
      /\ client'[e].sent = client[e].sent
      /\ Phase(e)' = Phase(e) \/ (Phase(e) = "commit" /\ Phase(e)' = "saved")
      /\ \A f \in Entries \ {e} : client'[f] = client[f]
  <2>1. "commit" \in Phases /\ "saved" \in Phases
    BY DEF Phases
  <2>. QED
    BY <2>1, ReplyFacts DEF WriteCommit
<1>3. /\ commits' \in [Entries -> [Sends -> Commit]]
      /\ \A f \in Entries \ {e} : commits'[f] = commits[f]
      /\ Protocol(e)'
      /\ \A j \in Sends : commits'[e][j].taken = commits[e][j].taken
      /\ Gathering(e) => Gathering(e)'
      /\ \A j \in Sends : HandedTo(e, j) => HandedTo(e, j)'
      /\ \A b \in BlockIDs : Lost(e, b) => Lost(e, b)'
      /\ commits'[e][i].pc = "done"
      /\ \A j \in Sends \ {i} : commits'[e][j] = commits[e][j]
  BY <1>1, <1>2, CommitDone
<1>4. EntryOK(e) /\ commits[e][i].taken \in Seq(BlockIDs)
  BY ClientFacts DEF Commit
<1>5. /\ DOMAIN bucket' \subseteq Entries
      /\ \A f \in DOMAIN bucket' : bucket'[f] \in Seq(BlockIDs)
      /\ Stored(e)' /\ bucket'[e] = commits[e][i].taken
      /\ \A f \in Entries \ {e} : /\ Stored(f)' <=> Stored(f)
                                  /\ Stored(f) => bucket'[f] = bucket[f]
  BY <1>1, <1>4, WrittenFacts
<1>6. TypeOK'
  BY <1>1, <1>2, <1>3, <1>5 DEF TypeOK
<1>7. OthersKept(e)
  BY <1>1, <1>2, <1>3, <1>5 DEF OthersKept, Untouched
<1>8. ASSUME "resent" \notin mishaps[e]
      PROVE  /\ HandedTo(e, i) /\ HandedTo(e, i)'
             /\ EveryBlockOnce(commits[e][i].taken)
             /\ \A j \in Sends : commits'[e][j].pc # "writing"
  <2>1. /\ HandedTo(e, i)
        /\ \A j \in Sends \ {i} : commits[e][j].pc # "writing"
    BY <1>1, <1>8, WriterHasAll
  <2>2. \A j \in Sends : commits'[e][j].pc # "writing"
    BY <1>3, <2>1
  <2>. QED
    BY <1>3, <2>1, <2>2 DEF HandedTo
<1>9. Collected(e)'
  BY <1>1, <1>2, <1>4, <1>8 DEF EntryOK, Collected, Handed
<1>10. Answered(e)'
  BY <1>1, <1>5, <1>8 DEF Answered, Handed
<1>11. Complete(e)'
  BY <1>1, <1>5, <1>8 DEF Complete
<1>12. Ordered(e)'
  <2>1. SUFFICES ASSUME mishaps[e] = {} PROVE Ordered(e)'
    BY <1>1 DEF Ordered
  <2>2. InOrder(commits[e][i].taken)
    BY <1>4, <2>1 DEF EntryOK, Ordered
  <2>3. bucket'[e] = Whole
    BY <1>4, <1>5, <1>8, <2>1, <2>2, OrderedIsWhole
  <2>. QED
    BY <1>1, <1>3, <1>4, <2>1, <2>3 DEF EntryOK, Ordered
<1>. QED
  BY <1>3, <1>6, <1>7, <1>9, <1>10, <1>11, <1>12 DEF EntryOK, Kept

LEMMA WriteCommitFailsOK ==
    ASSUME IInv, NEW e \in Entries, NEW i \in Sends, WriteCommitFails(e, i)
    PROVE  Kept(e)
<1>. USE DEF IInv
<1>1. /\ commits[e][i].pc = "writing"
      /\ commits' = [commits EXCEPT ![e][i].pc = "done"]
      /\ UNCHANGED <<staging, blocks, puts>>
  BY DEF WriteCommitFails
<1>2. UNCHANGED client
  BY DEF WriteCommitFails
<1>3. EntryOK(e) /\ commits[e][i].taken \in Seq(BlockIDs) /\ Phase(e)' = Phase(e)
  BY <1>1, <1>2, ClientFacts DEF Commit, Phase
<1>4. /\ commits' \in [Entries -> [Sends -> Commit]]
      /\ \A f \in Entries \ {e} : commits'[f] = commits[f]
      /\ Protocol(e)'
      /\ \A j \in Sends : commits'[e][j].taken = commits[e][j].taken
      /\ Gathering(e) => Gathering(e)'
      /\ \A j \in Sends : HandedTo(e, j) => HandedTo(e, j)'
      /\ \A b \in BlockIDs : Lost(e, b) => Lost(e, b)'
      /\ commits'[e][i].pc = "done"
      /\ \A j \in Sends \ {i} : commits'[e][j] = commits[e][j]
  <2>1. /\ client'[e].acked = client[e].acked
        /\ client'[e].sent = client[e].sent
        /\ Phase(e)' = Phase(e) \/ (Phase(e) = "commit" /\ Phase(e)' = "saved")
    BY <1>2, <1>3
  <2>. QED
    BY <1>1, <2>1, CommitDone
\* The bucket and the mishaps stay, or a part is written and it is noted.
<1>5. /\ DOMAIN bucket' \subseteq Entries
      /\ \A f \in DOMAIN bucket' : bucket'[f] \in Seq(BlockIDs)
      /\ mishaps' \in [Entries -> SUBSET Mishaps]
      /\ mishaps[e] \subseteq mishaps'[e]
      /\ \/ UNCHANGED <<bucket, mishaps>>
         \/ "break" \in mishaps'[e]
      /\ \A f \in Entries \ {e} : /\ mishaps'[f] = mishaps[f]
                                  /\ Stored(f)' <=> Stored(f)
                                  /\ Stored(f) => bucket'[f] = bucket[f]
  <2>1. CASE UNCHANGED <<bucket, mishaps>>
    BY <2>1 DEF TypeOK, Stored
  <2>2. CASE WrittenInPart(e, commits[e][i].taken) /\ Happened(e, {"break"})
    <3>1. {"break"} \in SUBSET Mishaps
      BY DEF Mishaps
    <3>2. /\ mishaps' \in [Entries -> SUBSET Mishaps]
          /\ mishaps'[e] = mishaps[e] \cup {"break"}
          /\ \A f \in Entries \ {e} : mishaps'[f] = mishaps[f]
      BY <2>2, <3>1, HappenedFacts
    <3>. QED
      BY <1>3, <2>2, <3>2, WrittenInPartFacts
  <2>. QED
    BY <2>1, <2>2 DEF WriteCommitFails
<1>6. TypeOK'
  BY <1>1, <1>2, <1>4, <1>5 DEF TypeOK
<1>7. OthersKept(e)
  BY <1>1, <1>2, <1>4, <1>5 DEF OthersKept, Untouched
<1>8. Collected(e)'
  BY <1>1, <1>2, <1>3, <1>4, <1>5 DEF EntryOK, Collected, Handed
<1>9. Answered(e)'
  <2>1. SUFFICES ASSUME Phase(e) = "saved", "resent" \notin mishaps[e]
                 PROVE  FALSE
    BY <1>3, <1>5 DEF Answered
  <2>. QED
    BY <1>1, <1>3, <2>1 DEF EntryOK, Answered
<1>10. Complete(e)'
  BY <1>3, <1>5 DEF EntryOK, Complete, Stored
<1>11. Ordered(e)'
  <2>1. SUFFICES ASSUME mishaps'[e] = {} PROVE Ordered(e)'
    BY DEF Ordered
  <2>2. UNCHANGED <<bucket, mishaps>>
    BY <1>5, <2>1
  <2>. QED
    BY <1>1, <1>3, <1>4, <2>1, <2>2 DEF EntryOK, Ordered, Stored
<1>. QED
  BY <1>4, <1>6, <1>7, <1>8, <1>9, <1>10, <1>11 DEF EntryOK, Kept

\* A request with an entry in one piece goes out, or ends.
LEMMA PutSet ==
    ASSUME TypeOK, NEW e \in Entries, NEW i \in Sends,
           NEW to \in {"none", "sent", "done"},
           puts' = [puts EXCEPT ![e][i] = to]
    PROVE  /\ puts' \in [Entries -> [Sends -> {"none", "sent", "done"}]]
           /\ puts'[e][i] = to
           /\ \A j \in Sends \ {i} : puts'[e][j] = puts[e][j]
           /\ \A f \in Entries \ {e} : puts'[f] = puts[f]
BY DEF TypeOK

LEMMA SendDirectOK ==
    ASSUME IInv, NEW e \in Entries, NEW i \in Sends, SendDirect(e, i)
    PROVE  Kept(e)
<1>. USE DEF IInv
<1>1. /\ puts' = [puts EXCEPT ![e][i] = "sent"]
      /\ UNCHANGED <<client, staging, blocks, commits, bucket, mishaps>>
  BY DEF SendDirect
<1>2. TypeOK'
  BY <1>1, PutSet DEF TypeOK
<1>3. OthersKept(e)
  BY <1>1 DEF OthersKept, Untouched, Stored
<1>4. EntryOK(e) /\ Untouched(e)
  BY <1>1 DEF Untouched, Stored
<1>5. EntryOK(e)'
  BY <1>4, UntouchedStaysOK
<1>. QED
  BY <1>2, <1>3, <1>5 DEF Kept

LEMMA DirectUploadOK ==
    ASSUME IInv, NEW e \in Entries, NEW i \in Sends, DirectUpload(e, i)
    PROVE  Kept(e)
<1>. USE DEF IInv
<1>1. /\ puts[e][i] = "sent"
      /\ puts' = [puts EXCEPT ![e][i] = "done"]
      /\ Written(e, Whole)
      /\ UNCHANGED <<staging, blocks, commits, mishaps>>
  BY DEF DirectUpload
<1>2. /\ client' \in [Entries -> Client]
      /\ client'[e].acked = client[e].acked
      /\ client'[e].sent = client[e].sent
      /\ Phase(e)' = Phase(e) \/ (Phase(e) = "direct" /\ Phase(e)' = "saved")
      /\ \A f \in Entries \ {e} : client'[f] = client[f]
  <2>1. "direct" \in Phases /\ "saved" \in Phases
    BY DEF Phases
  <2>. QED
    BY <2>1, ReplyFacts DEF DirectUpload
<1>3. /\ DOMAIN bucket' \subseteq Entries
      /\ \A f \in DOMAIN bucket' : bucket'[f] \in Seq(BlockIDs)
      /\ Stored(e)' /\ bucket'[e] = Whole
      /\ \A f \in Entries \ {e} : /\ Stored(f)' <=> Stored(f)
                                  /\ Stored(f) => bucket'[f] = bucket[f]
  BY <1>1, WholeIsWhole, WrittenFacts
<1>4. EntryOK(e) /\ Apart(e)
  OBVIOUS
<1>5. TypeOK'
  <2>1. puts' \in [Entries -> [Sends -> {"none", "sent", "done"}]]
    BY <1>1, PutSet
  <2>. QED
    BY <1>1, <1>2, <1>3, <2>1 DEF TypeOK
<1>6. OthersKept(e)
  BY <1>1, <1>2, <1>3 DEF OthersKept, Untouched
<1>7. \A j \in Sends : commits[e][j].pc = "none"
  BY <1>1, <1>4 DEF Apart
<1>8. Protocol(e)'
  BY <1>1, <1>2, <1>4, <1>7 DEF EntryOK, Protocol
<1>9. Collected(e)'
  BY <1>1, <1>2, <1>4 DEF EntryOK, Collected, Gathering, Handed, HandedTo
<1>10. Answered(e)' /\ Complete(e)'
  BY <1>1, <1>3, <1>7, WholeIsWhole DEF Answered, Complete
<1>11. Ordered(e)'
  BY <1>1, <1>2, <1>3, <1>4 DEF EntryOK, Ordered, Lost
<1>. QED
  BY <1>5, <1>6, <1>8, <1>9, <1>10, <1>11 DEF EntryOK, Kept

\* After a 201 a body that ends early is one of several, which is noted.
LEMMA DirectUploadFailsOK ==
    ASSUME IInv, NEW e \in Entries, NEW i \in Sends, DirectUploadFails(e, i)
    PROVE  Kept(e)
<1>. USE DEF IInv
<1>. DEFINE others == IF \E j \in Sends \ {i} : puts[e][j] # "none"
                      THEN {"resent"} ELSE {}
<1>1. /\ puts[e][i] = "sent"
      /\ puts' = [puts EXCEPT ![e][i] = "done"]
      /\ UNCHANGED <<client, staging, blocks, commits>>
      /\ EntryOK(e) /\ Apart(e)
  BY DEF DirectUploadFails
<1>2. puts' \in [Entries -> [Sends -> {"none", "sent", "done"}]]
  BY <1>1, PutSet
<1>3. CASE UNCHANGED <<bucket, mishaps>>
  <2>1. TypeOK'
    BY <1>1, <1>2, <1>3 DEF TypeOK
  <2>2. OthersKept(e) /\ Untouched(e)
    BY <1>1, <1>3 DEF OthersKept, Untouched, Stored
  <2>3. EntryOK(e)'
    BY <1>1, <2>2, UntouchedStaysOK
  <2>. QED
    BY <2>1, <2>2, <2>3 DEF Kept
<1>4. CASE WrittenInPart(e, Whole) /\ Happened(e, {"break"} \cup others)
  <2>1. /\ DOMAIN bucket' \subseteq Entries
        /\ \A f \in DOMAIN bucket' : bucket'[f] \in Seq(BlockIDs)
        /\ Stored(e)'
        /\ \A f \in Entries \ {e} : /\ Stored(f)' <=> Stored(f)
                                    /\ Stored(f) => bucket'[f] = bucket[f]
    BY <1>4, WholeIsWhole, WrittenInPartFacts
  <2>2. /\ mishaps' \in [Entries -> SUBSET Mishaps]
        /\ mishaps'[e] = mishaps[e] \cup ({"break"} \cup others)
        /\ \A f \in Entries \ {e} : mishaps'[f] = mishaps[f]
    <3>1. {"break"} \cup others \in SUBSET Mishaps
      BY DEF Mishaps
    <3>. HIDE DEF others
    <3>. QED
      BY <1>4, <3>1, HappenedFacts
  <2>3. "break" \in mishaps'[e] /\ mishaps[e] \subseteq mishaps'[e]
    BY <2>2
  <2>4. TypeOK'
    BY <1>1, <1>2, <2>1, <2>2 DEF TypeOK
  <2>5. OthersKept(e)
    BY <1>1, <2>1, <2>2 DEF OthersKept, Untouched
  <2>6. Protocol(e)'
    BY <1>1 DEF EntryOK, Protocol, Phase
  <2>7. Collected(e)'
    BY <1>1, <2>3 DEF EntryOK, Collected, Gathering, Handed, HandedTo
  <2>8. Answered(e)'
    <3>1. SUFFICES ASSUME Phase(e) = "saved", "resent" \notin mishaps'[e]
                   PROVE  FALSE
      BY <1>1 DEF Answered, Phase
    <3>2. PICK j \in Sends : puts[e][j] = "done"
      BY <1>1, <3>1 DEF Apart
    <3>3. j \in Sends \ {i} /\ puts[e][j] # "none"
      BY <1>1, <3>2
    <3>. QED
      BY <2>2, <3>1, <3>3
  <2>9. Complete(e)' /\ Ordered(e)'
    BY <2>3 DEF Complete, Ordered
  <2>. QED
    BY <2>4, <2>5, <2>6, <2>7, <2>8, <2>9 DEF EntryOK, Kept
<1>. QED
  BY <1>3, <1>4 DEF DirectUploadFails

\* Nothing changes for an entry sent in one piece unless its requests do.
LEMMA ApartStays ==
    ASSUME NEW f, Apart(f), puts'[f] = puts[f],
           \/ \A i \in Sends : puts[f][i] = "none"
           \/ /\ Phase(f)' \in {Phase(f), "failed"}
              /\ \A j \in Sends :
                    commits[f][j].pc = "none" => commits'[f][j].pc = "none"
              /\ mishaps[f] \subseteq mishaps'[f]
              /\ Phase(f)' = "saved" => bucket'[f] = bucket[f]
    PROVE  Apart(f)'
BY DEF Apart

\* One step of a request with an entry in one piece.
LEMMA PutStep ==
    ASSUME IInv, NEW e \in Entries, NEW i \in Sends,
           SendDirect(e, i) \/ DirectUpload(e, i) \/ DirectUploadFails(e, i)
    PROVE  /\ Apart(e)'
           /\ \A f \in Entries \ {e} : puts'[f] = puts[f]
<1>. USE DEF IInv
<1>1. EntryOK(e) /\ Apart(e)
  OBVIOUS
<1>2. CASE SendDirect(e, i)
  <2>1. /\ Phase(e) = "direct" /\ Phase(e)' = Phase(e)
        /\ puts' = [puts EXCEPT ![e][i] = "sent"] /\ UNCHANGED commits
    BY <1>2 DEF SendDirect, Phase
  <2>2. \A j \in Sends : commits[e][j].pc = "none"
    BY <1>1, <2>1 DEF EntryOK, Protocol
  <2>3. \A f \in Entries \ {e} : puts'[f] = puts[f]
    BY <2>1, PutSet
  <2>. QED
    BY <2>1, <2>2, <2>3 DEF Apart
<1>3. CASE DirectUpload(e, i) \/ DirectUploadFails(e, i)
  <2>1. puts[e][i] = "sent" /\ puts' = [puts EXCEPT ![e][i] = "done"]
        /\ UNCHANGED commits
    BY <1>3 DEF DirectUpload, DirectUploadFails
  <2>2. puts'[e][i] = "done" /\ \A f \in Entries \ {e} : puts'[f] = puts[f]
    BY <2>1, PutSet
  <2>3. /\ Phase(e) \in {"direct", "saved", "failed"}
        /\ \A j \in Sends : commits[e][j].pc = "none"
    BY <1>1, <2>1 DEF Apart
  <2>4. /\ Phase(e)' \in {"direct", "saved", "failed"}
        /\ Phase(e)' = "saved" /\ "resent" \notin mishaps'[e] =>
              bucket'[e] = Whole
    <3>1. CASE DirectUpload(e, i)
      <4>1. Phase(e)' = Phase(e) \/ (Phase(e) = "direct" /\ Phase(e)' = "saved")
        BY <3>1, ReplyFacts DEF DirectUpload, Phases
      <4>2. bucket'[e] = Whole
        BY <3>1, WholeIsWhole, WrittenFacts DEF DirectUpload
      <4>. QED
        BY <2>3, <4>1, <4>2
    <3>2. CASE DirectUploadFails(e, i)
      <4>1. Phase(e)' = Phase(e)
        BY <3>2 DEF DirectUploadFails, Phase
      <4>2. SUFFICES ASSUME Phase(e) = "saved", "resent" \notin mishaps'[e]
                     PROVE  bucket'[e] = Whole
        BY <2>3, <4>1
      <4>3. \E j \in Sends \ {i} : puts[e][j] # "none"
        BY <1>1, <2>1, <4>2 DEF Apart
      <4>4. UNCHANGED <<bucket, mishaps>>
        BY <3>2, <4>2, <4>3 DEF DirectUploadFails, Happened, TypeOK
      <4>. QED
        BY <1>1, <2>1, <4>2, <4>4 DEF Apart
    <3>. QED
      BY <1>3, <3>1, <3>2
  <2>. QED
    BY <2>1, <2>2, <2>3, <2>4 DEF Apart
<1>. QED
  BY <1>2, <1>3

\* Only a commit that is out already goes on, so no step brings a commit and
\* an entry in one piece together.
LEMMA ApartOK ==
    ASSUME IInv, NEW e \in Entries, OthersKept(e), OneStep(e)
    PROVE  \A f \in Entries : Apart(f)'
<1>. USE DEF IInv
<1>1. Apart(e)
  OBVIOUS
<1>2. Apart(e)' /\ \A f \in Entries \ {e} : puts'[f] = puts[f]
  <2>1. CASE CreateCacheEntry(e)
    <3>1. UNCHANGED puts /\ \A i \in Sends : puts[e][i] = "none"
      BY <1>1, <2>1 DEF CreateCacheEntry, Apart
    <3>. QED
      BY <1>1, <3>1, ApartStays
  <2>2. ASSUME NEW b \in BlockIDs,
               SendBlock(e, b) \/ StageBlock(e, b) \/ StageFails(e, b)
        PROVE  Apart(e)' /\ UNCHANGED puts
    <3>1. UNCHANGED <<commits, puts, bucket>> /\ mishaps[e] \subseteq mishaps'[e]
      BY <2>2 DEF SendBlock, StageBlock, StageFails, Happened, TypeOK
    <3>2. Phase(e)' = Phase(e)
      <4>1. CASE SendBlock(e, b)
        BY <4>1, SentAgain DEF SendBlock
      <4>2. CASE StageBlock(e, b)
        <5>1. CASE client' = [client EXCEPT ![e].acked = @ \cup {b}]
          BY <5>1, AckedAdded
        <5>2. CASE UNCHANGED client
          BY <5>2 DEF Phase
        <5>. QED
          BY <4>2, <5>1, <5>2 DEF StageBlock, NotTold
      <4>3. CASE StageFails(e, b)
        BY <4>3 DEF StageFails, Phase
      <4>. QED
        BY <2>2, <4>1, <4>2, <4>3
    <3>. QED
      BY <1>1, <3>1, <3>2, ApartStays
  <2>3. ASSUME NEW i \in Sends,
               SendCommit(e, i) \/ TakeBlocks(e, i)
                  \/ WriteCommit(e, i) \/ WriteCommitFails(e, i)
        PROVE  Apart(e)' /\ UNCHANGED puts
    <3>1. UNCHANGED puts
      BY <2>3 DEF SendCommit, TakeBlocks, WriteCommit, WriteCommitFails
    <3>2. Phase(e) \in {"blocks", "commit"} \/ commits[e][i].pc # "none"
      BY <2>3 DEF SendCommit, TakeBlocks, WriteCommit, WriteCommitFails
    <3>3. \A j \in Sends : puts[e][j] = "none"
      BY <1>1, <3>2 DEF Apart
    <3>. QED
      BY <1>1, <3>1, <3>3, ApartStays
  <2>4. ASSUME NEW i \in Sends,
               SendDirect(e, i) \/ DirectUpload(e, i) \/ DirectUploadFails(e, i)
        PROVE  Apart(e)' /\ \A f \in Entries \ {e} : puts'[f] = puts[f]
    BY <2>4, PutStep
  <2>5. CASE GiveUp(e)
    <3>1. UNCHANGED <<commits, puts, mishaps>> /\ Phase(e)' = "failed"
      BY <2>5, PhaseSet DEF GiveUp, Phases
    <3>. QED
      BY <1>1, <3>1, ApartStays
  <2>. QED
    BY <2>1, <2>2, <2>3, <2>4, <2>5 DEF OneStep, CreateCacheEntry, GiveUp
<1>3. ASSUME NEW f \in Entries \ {e} PROVE Apart(f)'
  <2>1. /\ client'[f] = client[f] /\ commits'[f] = commits[f]
        /\ puts'[f] = puts[f] /\ mishaps'[f] = mishaps[f]
        /\ Stored(f) => bucket'[f] = bucket[f]
        /\ Apart(f) /\ Answered(f)
    BY <1>2 DEF OthersKept, Untouched, EntryOK
  <2>. QED
    BY <2>1 DEF Apart, Answered, Phase
<1>. QED
  BY <1>2, <1>3

LEMMA StepOK ==
    ASSUME IInv, NEW e \in Entries, OneStep(e)
    PROVE  Kept(e)
<1>1. CASE CreateCacheEntry(e)
  BY <1>1, CreateCacheEntryOK
<1>2. ASSUME NEW b \in BlockIDs,
             SendBlock(e, b) \/ StageBlock(e, b) \/ StageFails(e, b)
      PROVE  Kept(e)
  BY <1>2, SendBlockOK, StageBlockOK, StageFailsOK
<1>3. ASSUME NEW i \in Sends,
             SendCommit(e, i) \/ TakeBlocks(e, i)
                \/ WriteCommit(e, i) \/ WriteCommitFails(e, i)
      PROVE  Kept(e)
  BY <1>3, SendCommitOK, TakeBlocksOK, WriteCommitOK, WriteCommitFailsOK
<1>4. CASE GiveUp(e)
  BY <1>4, GiveUpOK
<1>5. ASSUME NEW i \in Sends,
             SendDirect(e, i) \/ DirectUpload(e, i) \/ DirectUploadFails(e, i)
      PROVE  Kept(e)
  BY <1>5, SendDirectOK, DirectUploadOK, DirectUploadFailsOK
<1>. QED
  BY <1>1, <1>2, <1>3, <1>4, <1>5 DEF OneStep

LEMMA NextOK ==
    ASSUME IInv, Next
    PROVE  IInv'
<1>1. PICK e \in Entries : OneStep(e)
  BY DEF Next, OneStep
<1>2. Kept(e)
  BY <1>1, StepOK
<1>3. ASSUME NEW f \in Entries PROVE EntryOK(f)'
  <2>1. CASE f = e
    BY <1>2, <2>1 DEF Kept
  <2>2. CASE f # e
    <3>1. EntryOK(f) /\ Untouched(f)
      BY <1>2, <2>2 DEF IInv, Kept, OthersKept
    <3>. QED
      BY <3>1, UntouchedStaysOK
  <2>. QED
    BY <2>1, <2>2
<1>4. \A f \in Entries : Apart(f)'
  <2>1. OthersKept(e)
    BY <1>2 DEF Kept
  <2>. QED
    BY <1>1, <2>1, ApartOK
<1>. QED
  BY <1>2, <1>3, <1>4 DEF IInv, Kept

LEMMA Stutter ==
    ASSUME IInv, UNCHANGED vars
    PROVE  IInv'
<1>1. TypeOK'
  BY DEF IInv, TypeOK, vars
<1>2. ASSUME NEW f \in Entries PROVE EntryOK(f)'
  <2>1. EntryOK(f) /\ Untouched(f)
    BY DEF IInv, vars, Untouched, Stored
  <2>. QED
    BY <2>1, UntouchedStaysOK
<1>3. \A f \in Entries : Apart(f)'
  BY DEF IInv, vars, Apart, Phase
<1>. QED
  BY <1>1, <1>2, <1>3 DEF IInv

-----------------------------------------------------------------------------
(* The theorems *)

\* The invariant holds in every reachable state.
THEOREM Invariance == Spec => []IInv
<1>1. IInv /\ [Next]_vars => IInv'
  BY NextOK, Stutter
<1>. QED
  BY InitOK, <1>1, PTL DEF Spec

\* Every value has its type; no block has more requests on the way than the
\* client sent.
THEOREM TypeCorrect == Spec => []TypeOK
<1>1. IInv => TypeOK
  BY DEF IInv
<1>. QED
  BY Invariance, <1>1, PTL

\* Sent one block at a time, once each, and to its end, an entry is stored
\* block after block.
THEOREM StoresWhole == Spec => []StoredWhole
<1>1. IInv => StoredWhole
  BY DEF IInv, EntryOK, Ordered, StoredWhole, Stored, TypeOK
<1>. QED
  BY Invariance, <1>1, PTL

\* With any number of blocks in parallel an object has each block once.
THEOREM StoresComplete == Spec => []StoredComplete
<1>1. IInv => StoredComplete
  BY DEF IInv, EntryOK, Complete, StoredComplete, Stored, TypeOK
<1>. QED
  BY Invariance, <1>1, PTL

\* A client that was told 201, and sent no block twice, has its whole entry in
\* the bucket from then on, whatever failed, was lost or broke before.
THEOREM SavesComplete == Spec => []SavedIsComplete
<1>1. IInv => SavedIsComplete
  BY DEF IInv, EntryOK, Answered, SavedIsComplete
<1>. QED
  BY Invariance, <1>1, PTL

\* A write over the object of an entry whose client was told 201 puts the same
\* content there, or is one the mishaps tell of.
LEMMA SavedStays ==
    ASSUME IInv, [Next]_vars, NEW f \in Entries,
           Phase(f) = "saved", "resent" \notin mishaps'[f]
    PROVE  Stored(f) /\ Stored(f)' /\ bucket'[f] = bucket[f]
<1>. USE DEF IInv
<1>1. EntryOK(f) /\ Apart(f)
  OBVIOUS
<1>2. CASE UNCHANGED <<bucket, mishaps>>
  BY <1>1, <1>2 DEF EntryOK, Answered, Stored
<1>3. ASSUME NEW e \in Entries, e # f, Kept(e)
      PROVE  Stored(f) /\ Stored(f)' /\ bucket'[f] = bucket[f]
  <2>1. Untouched(f)
    BY <1>3 DEF Kept, OthersKept
  <2>. QED
    BY <1>1, <2>1 DEF Untouched, EntryOK, Answered
<1>4. ASSUME NEW i \in Sends, WriteCommit(f, i) \/ WriteCommitFails(f, i)
      PROVE  FALSE
  <2>1. commits[f][i].pc = "writing"
    BY <1>4 DEF WriteCommit, WriteCommitFails
  <2>2. mishaps[f] \subseteq mishaps'[f]
    BY <1>4 DEF WriteCommit, WriteCommitFails, Happened, TypeOK
  <2>. QED
    BY <1>1, <2>1, <2>2 DEF EntryOK, Answered
<1>5. ASSUME NEW i \in Sends, DirectUpload(f, i)
      PROVE  Stored(f) /\ Stored(f)' /\ bucket'[f] = bucket[f]
  <2>1. puts[f][i] = "sent" /\ Written(f, Whole) /\ UNCHANGED mishaps
    BY <1>5 DEF DirectUpload
  <2>2. Stored(f)' /\ bucket'[f] = Whole
    BY <2>1, WholeIsWhole, WrittenFacts
  <2>3. Stored(f) /\ bucket[f] = Whole
    BY <1>1, <2>1 DEF EntryOK, Answered, Apart
  <2>. QED
    BY <2>2, <2>3
<1>6. ASSUME NEW i \in Sends, DirectUploadFails(f, i)
      PROVE  Stored(f) /\ Stored(f)' /\ bucket'[f] = bucket[f]
  <2>1. puts[f][i] = "sent"
    BY <1>6 DEF DirectUploadFails
  <2>2. \E j \in Sends \ {i} : puts[f][j] # "none"
    BY <1>1, <2>1 DEF Apart, DirectUploadFails
  <2>3. UNCHANGED <<bucket, mishaps>>
    BY <1>6, <2>2 DEF DirectUploadFails, Happened, TypeOK
  <2>. QED
    BY <1>2, <2>3
<1>7. CASE Next
  <2>1. PICK e \in Entries : OneStep(e)
    BY <1>7 DEF Next, OneStep
  <2>2. CASE e # f
    <3>1. Kept(e)
      BY <2>1, StepOK
    <3>. QED
      BY <1>3, <2>2, <3>1
  <2>3. CASE e = f
    BY <2>1, <2>3, <1>2, <1>4, <1>5, <1>6
       DEF OneStep, CreateCacheEntry, SendBlock, StageBlock, StageFails,
           SendCommit, TakeBlocks, SendDirect, GiveUp
  <2>. QED
    BY <2>2, <2>3
<1>. QED
  BY <1>2, <1>7 DEF vars

\* The object of an entry does not change once its client was told 201, unless a
\* block was sent twice or a body of an entry sent twice in one piece ended early.
THEOREM SavedForGood == Spec => SavedIsFinal
<1>1. IInv /\ [Next]_vars =>
         \A e \in Entries :
            Phase(e) = "saved" /\ "resent" \notin mishaps'[e] =>
                Stored(e) /\ Stored(e)' /\ bucket'[e] = bucket[e]
  BY SavedStays
<1>. QED
  BY Invariance, <1>1, PTL DEF Spec, SavedIsFinal

=============================================================================
