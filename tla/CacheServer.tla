---------------------------- MODULE CacheServer ----------------------------
(***************************************************************************)
(* Saving cache entries through the cache server of one VM: the client     *)
(* sends an entry whole or block by block, in parallel and with retries,   *)
(* and then commits the blocks; the server keeps staged blocks in memory   *)
(* and writes the object to the bucket.  A request is a goroutine of its   *)
(* own; UploadState's mutex makes AddBlock and GetBlocks steps.            *)
(***************************************************************************)
EXTENDS Naturals, FiniteSets, Sequences

CONSTANTS
    Entries,        \* cache keys, each with its version
    Blocks,         \* an entry has the blocks 1..Blocks
    Parallel,       \* blocks the client has on the way at a time
    MaxSends,       \* bound: how often the client sends one request
    Faults          \* see AllFaults

AllFaults == {"retry",      \* a reply is lost or late and the client resends
              "fails",      \* a request fails and leaves nothing
              "breaks"}     \* a body ends early: the client dies, a bad disk

ASSUME CacheServerAssumption ==
    /\ Blocks \in Nat \ {0}
    /\ Parallel \in Nat \ {0}
    /\ MaxSends \in Nat \ {0}
    /\ Faults \subseteq AllFaults

VARIABLES
    client,     \* how far the client is with each entry
    staging,    \* requests of each block that have not reached AddBlock
    blocks,     \* UploadState.blocks
    commits,    \* the commit requests of each entry
    puts,       \* the requests with an entry in one piece
    bucket,     \* contents of the objects written, by entry
    mishaps     \* history: what happened to the save of each entry

vars == <<client, staging, blocks, commits, puts, bucket, mishaps>>

BlockIDs == 1..Blocks
Sends    == 1..MaxSends
Whole    == [b \in BlockIDs |-> b]

Mishaps == {"overlap",  \* two blocks were on the way at a time
            "resent",   \* a block was sent again, or an entry in one piece
                        \* of which one body ended early
            "break"}    \* a body ended early

Phases == {"none", "blocks", "commit", "direct", "saved", "failed"}
Client == [phase : Phases, acked : SUBSET BlockIDs,
           sent : [BlockIDs -> 0..MaxSends]]
Commit == [pc : {"none", "sent", "writing", "done"}, taken : Seq(BlockIDs)]

TypeOK ==
    /\ client \in [Entries -> Client]
    /\ staging \in [Entries -> [BlockIDs -> 0..MaxSends]]
    /\ blocks \in [Entries -> Seq(BlockIDs)]
    /\ commits \in [Entries -> [Sends -> Commit]]
    /\ puts \in [Entries -> [Sends -> {"none", "sent", "done"}]]
    /\ DOMAIN bucket \subseteq Entries
    /\ \A e \in DOMAIN bucket : bucket[e] \in Seq(BlockIDs)
    /\ mishaps \in [Entries -> SUBSET Mishaps]

NoCommit == [pc |-> "none", taken |-> <<>>]

Init ==
    /\ client = [e \in Entries |-> [phase |-> "none", acked |-> {},
                                    sent |-> [b \in BlockIDs |-> 0]]]
    /\ staging = [e \in Entries |-> [b \in BlockIDs |-> 0]]
    /\ blocks = [e \in Entries |-> <<>>]
    /\ commits = [e \in Entries |-> [i \in Sends |-> NoCommit]]
    /\ puts = [e \in Entries |-> [i \in Sends |-> "none"]]
    /\ bucket = [e \in {} |-> <<>>]
    /\ mishaps = [e \in Entries |-> {}]

-----------------------------------------------------------------------------
(* Helpers *)

Phase(e) == client[e].phase

Happened(e, what) == mishaps' = [mishaps EXCEPT ![e] = @ \cup what]

\* Storage.Write to its end: a new object, or another generation of the old.
Written(e, content) ==
    bucket' = [f \in DOMAIN bucket \cup {e} |->
                  IF f = e THEN content ELSE bucket[f]]

\* Storage.Write whose reader breaks: Close still makes an object of what had
\* been copied.
WrittenInPart(e, content) ==
    \E k \in 0 .. (Len(content) - 1) : Written(e, SubSeq(content, 1, k))

\* A reply that reaches the client, if it still waits for one.
Told(e, from, to) ==
    client' = [client EXCEPT ![e].phase = IF @ = from THEN to ELSE @]

\* A reply that is lost, or comes after the client stopped waiting.
NotTold == "retry" \in Faults /\ UNCHANGED client

-----------------------------------------------------------------------------
(* The client *)

\* CreateCacheEntry only makes up a URL; small entries are sent whole.
CreateCacheEntry(e) ==
    /\ Phase(e) = "none"
    /\ \E phase \in {"blocks", "direct"} :
          client' = [client EXCEPT ![e].phase = phase]
    /\ UNCHANGED <<staging, blocks, commits, puts, bucket, mishaps>>

OnTheWay(e) == {b \in BlockIDs : staging[e][b] > 0}

SendBlock(e, b) ==
    /\ Phase(e) = "blocks"
    /\ b \notin client[e].acked
    /\ Cardinality(OnTheWay(e)) < Parallel
    /\ \A c \in 1 .. (b - 1) : client[e].sent[c] > 0
    /\ client[e].sent[b] < MaxSends
    /\ client[e].sent[b] > 0 => "retry" \in Faults
    /\ client' = [client EXCEPT ![e].sent[b] = @ + 1]
    /\ staging' = [staging EXCEPT ![e][b] = @ + 1]
    /\ Happened(e, (IF OnTheWay(e) # {} THEN {"overlap"} ELSE {}) \cup
                   (IF client[e].sent[b] > 0 THEN {"resent"} ELSE {}))
    /\ UNCHANGED <<blocks, commits, puts, bucket>>

\* The client commits when every block was acknowledged.
SendCommit(e, i) ==
    /\ commits[e][i].pc = "none"
    /\ \/ /\ i = 1 /\ Phase(e) = "blocks"
          /\ client[e].acked = BlockIDs
       \/ /\ i > 1 /\ Phase(e) = "commit"
          /\ "retry" \in Faults
          /\ commits[e][i - 1].pc # "none"
    /\ client' = [client EXCEPT ![e].phase = "commit"]
    /\ commits' = [commits EXCEPT ![e][i].pc = "sent"]
    /\ UNCHANGED <<staging, blocks, puts, bucket, mishaps>>

\* The whole entry at once; a repetition may overtake the first request.
SendDirect(e, i) ==
    /\ Phase(e) = "direct"
    /\ puts[e][i] = "none"
    /\ i > 1 => "retry" \in Faults /\ puts[e][i - 1] # "none"
    /\ puts' = [puts EXCEPT ![e][i] = "sent"]
    /\ UNCHANGED <<client, staging, blocks, commits, bucket, mishaps>>

GiveUp(e) ==
    /\ "fails" \in Faults
    /\ Phase(e) \in {"blocks", "commit", "direct"}
    /\ client' = [client EXCEPT ![e].phase = "failed"]
    /\ UNCHANGED <<staging, blocks, commits, puts, bucket, mishaps>>

-----------------------------------------------------------------------------
(* The server *)

\* Broken variant: AddBlock without its mutex loses an append that races.
StageBlockUnlocked(e, b) ==
    /\ staging[e][b] > 0
    /\ staging' = [staging EXCEPT ![e][b] = @ - 1]
    /\ \/ blocks' = [blocks EXCEPT ![e] = Append(@, b)]
       \/ OnTheWay(e) # {b} /\ UNCHANGED blocks
    /\ client' = [client EXCEPT ![e].acked = @ \cup {b}]
    /\ UNCHANGED <<commits, puts, bucket, mishaps>>

\* Broken variant: AddBlock puts the block before the others.
StageBlockFirst(e, b) ==
    /\ staging[e][b] > 0
    /\ staging' = [staging EXCEPT ![e][b] = @ - 1]
    /\ blocks' = [blocks EXCEPT ![e] = <<b>> \o @]
    /\ \/ client' = [client EXCEPT ![e].acked = @ \cup {b}]
       \/ NotTold
    /\ UNCHANGED <<commits, puts, bucket, mishaps>>

\* handleStageBlock: the body is on disk, AddBlock appends whatever its id.
StageBlock(e, b) ==
    /\ staging[e][b] > 0
    /\ staging' = [staging EXCEPT ![e][b] = @ - 1]
    /\ blocks' = [blocks EXCEPT ![e] = Append(@, b)]
    /\ \/ client' = [client EXCEPT ![e].acked = @ \cup {b}]
       \/ NotTold
    /\ UNCHANGED <<commits, puts, bucket, mishaps>>

\* The temporary file or the copy fails; what was copied is removed.
StageFails(e, b) ==
    /\ "fails" \in Faults
    /\ staging[e][b] > 0
    /\ staging' = [staging EXCEPT ![e][b] = @ - 1]
    /\ UNCHANGED <<client, blocks, commits, puts, bucket, mishaps>>

\* Broken variant: GetBlocks returns the list and keeps it.
TakeBlocksKept(e, i) ==
    /\ commits[e][i].pc = "sent"
    /\ blocks[e] # <<>>
    /\ commits' = [commits EXCEPT ![e][i] =
                      [pc |-> "writing", taken |-> blocks[e]]]
    /\ UNCHANGED <<client, staging, blocks, puts, bucket, mishaps>>

\* handleCommitBlockList up to Write: GetBlocks takes the list and forgets it.
TakeBlocks(e, i) ==
    /\ commits[e][i].pc = "sent"
    /\ \/ /\ blocks[e] = <<>>
          /\ commits' = [commits EXCEPT ![e][i].pc = "done"]
          /\ Told(e, "commit", "failed") \/ NotTold
          /\ UNCHANGED blocks
       \/ /\ blocks[e] # <<>>
          /\ commits' = [commits EXCEPT ![e][i] =
                            [pc |-> "writing", taken |-> blocks[e]]]
          /\ blocks' = [blocks EXCEPT ![e] = <<>>]
          /\ UNCHANGED client
    /\ UNCHANGED <<staging, puts, bucket, mishaps>>

WriteCommit(e, i) ==
    /\ commits[e][i].pc = "writing"
    /\ Written(e, commits[e][i].taken)
    /\ commits' = [commits EXCEPT ![e][i].pc = "done"]
    /\ Told(e, "commit", "saved") \/ NotTold
    /\ UNCHANGED <<staging, blocks, puts, mishaps>>

\* Broken variant: no return after the error of Write, so 201 is answered.
WriteCommitFailsUnnoticed(e, i) ==
    /\ commits[e][i].pc = "writing"
    /\ \/ "fails" \in Faults /\ UNCHANGED <<bucket, mishaps>>
       \/ /\ "breaks" \in Faults
          /\ WrittenInPart(e, commits[e][i].taken)
          /\ Happened(e, {"break"})
    /\ commits' = [commits EXCEPT ![e][i].pc = "done"]
    /\ Told(e, "commit", "saved")
    /\ UNCHANGED <<staging, blocks, puts>>

\* The client retries, gives up, or has gone; the taken blocks are removed.
WriteCommitFails(e, i) ==
    /\ commits[e][i].pc = "writing"
    /\ \/ /\ "fails" \in Faults
          /\ UNCHANGED <<bucket, mishaps>>
       \/ /\ "breaks" \in Faults
          /\ WrittenInPart(e, commits[e][i].taken)
          /\ Happened(e, {"break"})
    /\ commits' = [commits EXCEPT ![e][i].pc = "done"]
    /\ UNCHANGED <<client, staging, blocks, puts>>

\* handleDirectUpload.
DirectUpload(e, i) ==
    /\ puts[e][i] = "sent"
    /\ Written(e, Whole)
    /\ puts' = [puts EXCEPT ![e][i] = "done"]
    /\ Told(e, "direct", "saved") \/ NotTold
    /\ UNCHANGED <<staging, blocks, commits, mishaps>>

\* The write fails, or the body ends early, perhaps when the client has sent
\* the entry again.
DirectUploadFails(e, i) ==
    /\ puts[e][i] = "sent"
    /\ \/ "fails" \in Faults /\ UNCHANGED <<bucket, mishaps>>
       \/ /\ "breaks" \in Faults
          /\ WrittenInPart(e, Whole)
          /\ Happened(e, {"break"} \cup
                (IF \E j \in Sends \ {i} : puts[e][j] # "none" THEN {"resent"} ELSE {}))
    /\ puts' = [puts EXCEPT ![e][i] = "done"]
    /\ UNCHANGED <<client, staging, blocks, commits>>

Next == \E e \in Entries :
    \/ CreateCacheEntry(e)
    \/ \E b \in BlockIDs : SendBlock(e, b) \/ StageBlock(e, b) \/ StageFails(e, b)
    \/ \E i \in Sends : SendCommit(e, i) \/ TakeBlocks(e, i)
                           \/ WriteCommit(e, i) \/ WriteCommitFails(e, i)
    \/ \E i \in Sends : SendDirect(e, i) \/ DirectUpload(e, i)
                           \/ DirectUploadFails(e, i)
    \/ GiveUp(e)

Spec == Init /\ [][Next]_vars

-----------------------------------------------------------------------------
(* Properties *)

Stored(e) == e \in DOMAIN bucket

EveryBlockOnce(content) ==
    /\ Len(content) = Blocks
    /\ {content[n] : n \in DOMAIN content} = BlockIDs

\* An object in the bucket is the entry the client had, block after block,
\* when no two blocks were on the way together, none was sent twice and no
\* body ended early -- however often the commit was sent, and whoever died
\* between two blocks (AddBlock keeps arrival order, GetBlocks hands a block
\* to one commit only, a commit is sent when every block was acknowledged).
StoredWhole ==
    \A e \in DOMAIN bucket : mishaps[e] = {} => bucket[e] = Whole

\* With blocks in parallel an object still holds each block exactly once:
\* UploadState's mutex loses none of them and a repeated commit takes none.
StoredComplete ==
    \A e \in DOMAIN bucket :
       mishaps[e] \subseteq {"overlap"} => EveryBlockOnce(bucket[e])

\* A client that was told 201 has every block of its entry in the bucket,
\* also after lost replies, failed writes and repeated requests, as long as
\* it sent no block twice and no body of an entry that it sent twice in one
\* piece ended early: handleCommitBlockList answers 201 only for a list it
\* took in full and wrote to the end.
SavedIsComplete ==
    \A e \in Entries :
       Phase(e) = "saved" /\ "resent" \notin mishaps[e] =>
           Stored(e) /\ EveryBlockOnce(bucket[e])

\* From the 201 on the object stays as it is, as long as no block was sent
\* twice and no body of an entry that was sent twice in one piece ended early:
\* GetBlocks leaves nothing that a repeated commit could write, or break off,
\* over it.  Without the condition it is not so.  A block that comes late is a
\* list of its own, and a repeated commit writes it over the object; a repeated
\* upload in one piece that breaks off leaves a part there (DirectUploadFails).
SavedIsFinal ==
    [][\A e \in Entries :
          Phase(e) = "saved" /\ "resent" \notin mishaps'[e] =>
              Stored(e) /\ Stored(e)' /\ bucket'[e] = bucket[e]]_vars
=============================================================================
