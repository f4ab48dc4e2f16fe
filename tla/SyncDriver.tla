----------------------------- MODULE SyncDriver -----------------------------
(***************************************************************************)
(* Block download during synchronisation: the sync thread                  *)
(* (Blockchain.Synchronize and fillQueue), the download queue it shares    *)
(* with the chain engine, and what AddBlock does to that queue and to the  *)
(* SyncHeight watermark when a requested block arrives.                    *)
(*                                                                         *)
(* There is one peer; its chain has the blocks 1..PeerTop above genesis    *)
(* and every block is valid, so a block is its height and its hash.  The   *)
(* node starts at genesis.  The peer may lose an answer, answer late       *)
(* (after the request timed out and was sent again), gossip its top block  *)
(* unasked, and announce its height in a stats packet.                     *)
(*                                                                         *)
(* The BlockQueue type is not in this source tree; it follows spec.md      *)
(* 4.7.  An entry is identified by the block it asks for: SetBlock is a    *)
(* no-op for a block already queued, RemoveBlock and BlockDownloaded act   *)
(* on the arriving block's entry, and an entry keeps the height it was     *)
(* queued with (0 for a request by hash, from addOrphanBlock).  An entry   *)
(* is pending until RequestableBlock hands it out, in flight until its     *)
(* request times out, and downloaded once its block is stored as orphan.  *)
(***************************************************************************)
EXTENDS Integers, FiniteSets, FiniteSetsExt

CONSTANTS
    P,          \* config.PARALLEL_BLOCKS_DOWNLOAD
    PeerTop,    \* height of the peer's chain
    NoSnap      \* the sync thread holds no stats snapshot

Blocks == 1..PeerTop
Status == {"pending", "inflight", "downloaded"}

VARIABLES
    top,        \* stats.TopHeight: blocks 0..top are the main chain
    orphans,    \* stats.Orphans: blocks stored whose parent is missing
    syncHeight, \* bc.SyncHeight
    queue,      \* BlockQueue: block -> [st, h], h the entry's Height field
    snap,       \* stats.TopHeight as Synchronize read it, or NoSnap
    net         \* blocks requested or gossiped whose answer is on its way
vars == <<top, orphans, syncHeight, queue, snap, net>>

Stored == (0..top) \cup orphans

-----------------------------------------------------------------------------
(* QueueTx operations (spec.md 4.7).                                       *)

SetBlock(q, b, h) ==
    IF b \in DOMAIN q THEN q ELSE [x \in DOMAIN q \cup {b} |->
                                      IF x = b THEN [st |-> "pending", h |-> h] ELSE q[x]]

Without(q, S) == [x \in DOMAIN q \ S |-> q[x]]

BlockDownloaded(q, b) ==
    IF b \in DOMAIN q THEN [q EXCEPT ![b].st = "downloaded"] ELSE q

-----------------------------------------------------------------------------
Init ==
    /\ top = 0
    /\ orphans = {}
    /\ syncHeight = 0          \* New(): bc.SyncHeight = stats.TopHeight
    /\ queue = <<>>
    /\ snap = NoSnap
    /\ net = {}

\* Synchronize: stats are read in their own DB.View, before the queue lock.
Snapshot ==
    /\ snap = NoSnap
    /\ snap' = top
    /\ UNCHANGED <<top, orphans, syncHeight, queue, net>>

\* fillQueue whose loop stops only once n > P + 1.
fillQueuePastLimit(q, t) ==
    IF Cardinality(DOMAIN q) < P /\ syncHeight > t
    THEN LET k == Min({syncHeight - t, P + 2 - Cardinality(DOMAIN q)})
         IN [x \in DOMAIN q \cup (t + 1)..(t + k) |->
                IF x \in DOMAIN q THEN q[x] ELSE [st |-> "pending", h |-> x]]
    ELSE q

\* fillQueue whose loop starts at topHeight instead of topHeight + 1.
fillQueueFromTop(q, t) ==
    IF Cardinality(DOMAIN q) < P /\ syncHeight > t
    THEN LET k == Min({syncHeight - t, P + 1 - Cardinality(DOMAIN q)})
         IN [x \in DOMAIN q \cup t..(t + k - 1) |->
                IF x \in DOMAIN q THEN q[x] ELSE [st |-> "pending", h |-> x]]
    ELSE q

\* fillQueue: only below PARALLEL_BLOCKS_DOWNLOAD entries, and only when
\* the watermark is above the snapshot; n counts every height visited,
\* queued or already there, and the loop stops once n > P.
fillQueue(q, t) ==
    IF Cardinality(DOMAIN q) < P /\ syncHeight > t
    THEN LET k == Min({syncHeight - t, P + 1 - Cardinality(DOMAIN q)})
             Add == (t + 1)..(t + k)
         IN [x \in DOMAIN q \cup Add |->
                IF x \in DOMAIN q THEN q[x] ELSE [st |-> "pending", h |-> x]]
    ELSE q

\* A request goes to the first peer whose height is at least the block's,
\* or to any peer for a request by hash.
CanServe(h) == h = 0 \/ PeerTop >= h

\* Synchronize under the queue lock: fillQueue, then RequestableBlock until
\* nil; an entry below the snapshot (and not by hash) is dropped, every
\* other one is requested.
SyncRound ==
    /\ snap # NoSnap
    /\ LET q1 == fillQueue(queue, snap)
           Req == {b \in DOMAIN q1 : q1[b].st = "pending"}
           Obsolete == {b \in Req : q1[b].h # 0 /\ q1[b].h < snap}
           Sent == {b \in Req \ Obsolete : CanServe(q1[b].h)}
       IN /\ queue' = [b \in DOMAIN q1 \ Obsolete |->
                         IF b \in Req THEN [q1[b] EXCEPT !.st = "inflight"] ELSE q1[b]]
          /\ net' = net \cup Sent
    /\ snap' = NoSnap
    /\ UNCHANGED <<top, orphans, syncHeight>>

\* RequestableBlock hands out again an entry whose request timed out.
Timeout(b) ==
    /\ b \in DOMAIN queue /\ queue[b].st = "inflight"
    /\ queue' = [queue EXCEPT ![b].st = "pending"]
    /\ UNCHANGED <<top, orphans, syncHeight, snap, net>>

\* A stats packet from the peer raises the watermark (P2P layer).
PeerStats ==
    /\ syncHeight < PeerTop
    /\ syncHeight' = PeerTop
    /\ UNCHANGED <<top, orphans, queue, snap, net>>

\* The peer broadcasts its top block unasked.
Gossip ==
    /\ PeerTop \notin Stored \cup net
    /\ net' = net \cup {PeerTop}
    /\ UNCHANGED <<top, orphans, syncHeight, queue, snap>>

Lose(b) ==
    /\ b \in net
    /\ net' = net \ {b}
    /\ UNCHANGED <<top, orphans, syncHeight, queue, snap>>

-----------------------------------------------------------------------------
(* Blockchain.AddBlock of block b, for the chain engine's effects on the   *)
(* queue and the watermark.  All blocks pass checkBlock, and a block whose *)
(* parent is main chain extends the top, so the alt-chain branch is never  *)
(* taken here.                                                             *)

\* deorphanBlock without its recursive call: only b's own child.
DeorphanedChildOnly(b) == {c \in orphans : c = b + 1}

\* The orphans that deorphanBlock and CheckReorgs then put on the main
\* chain above b: the longest run b+1, b+2, ... of stored orphans.
Deorphaned(b) ==
    LET Run(c) == (b + 1)..c \subseteq orphans
    IN (b + 1)..Max({c \in b..PeerTop : Run(c)})

\* ApplyBlockToState raises SyncHeight when the block is heavier than the
\* watermark; on one chain that is when it is higher.
Raised(h) == IF syncHeight < h THEN h ELSE syncHeight

\* addOrphanBlock without the request for an unknown parent.
AddOrphanNoRequest(b, parentKnown) ==
    /\ orphans' = orphans \cup {b}
    /\ queue' = BlockDownloaded(queue, b)
    /\ UNCHANGED <<top, syncHeight>>

AddOrphan(b, parentKnown) ==
    /\ orphans' = orphans \cup {b}
    /\ queue' = BlockDownloaded(IF parentKnown THEN queue ELSE SetBlock(queue, b - 1, 0), b)
    /\ UNCHANGED <<top, syncHeight>>

\* The replay that removes only the arriving block from the queue.
AddMainchainKeepsReplayed(b) ==
    LET D == Deorphaned(b)
        newTop == Max({b} \cup D)
    IN /\ top' = newTop
       /\ orphans' = orphans \ D
       /\ queue' = Without(queue, {b})
       /\ syncHeight' = Raised(newTop)

\* removeFromQueue, addMainchainBlock, then checkDeorphanage: the replay
\* applies each deorphaned block and removes its height from the queue.
AddMainchain(b) ==
    LET D == Deorphaned(b)
        newTop == Max({b} \cup D)
    IN /\ top' = newTop
       /\ orphans' = orphans \ D
       /\ queue' = Without(queue, {b} \cup D)
       /\ syncHeight' = Raised(newTop)

AddBlock(b) ==
    \/ b \in Stored /\ UNCHANGED <<top, orphans, syncHeight, queue>>
    \/ b \notin Stored /\ b - 1 \notin Stored /\ AddOrphan(b, FALSE)
    \/ b \notin Stored /\ b - 1 \in orphans /\ AddOrphan(b, TRUE)
    \/ b \notin Stored /\ b - 1 = top /\ AddMainchain(b)

\* The P2P handler passes an arriving block to AddBlock.
Deliver(b) ==
    /\ b \in net
    /\ net' = net \ {b}
    /\ AddBlock(b)
    /\ UNCHANGED snap

Next ==
    \/ Snapshot \/ SyncRound \/ PeerStats \/ Gossip
    \/ \E b \in Blocks : Timeout(b) \/ Lose(b) \/ Deliver(b)

Spec == Init /\ [][Next]_vars

\* The sync thread loops every 250 ms and timeouts fire as time passes;
\* the peer answers a block that is asked for again and again (strong
\* fairness, since Lose can take the answer away each time).
FairSpec ==
    /\ Spec
    /\ WF_vars(Snapshot) /\ WF_vars(SyncRound) /\ WF_vars(PeerStats)
    /\ \A b \in Blocks : WF_vars(Timeout(b)) /\ SF_vars(Deliver(b))

-----------------------------------------------------------------------------
\* The queue asks only for blocks above genesis, each entry with its own
\* height or 0.
TypeOK ==
    /\ top \in 0..PeerTop /\ orphans \subseteq Blocks /\ syncHeight \in 0..PeerTop
    /\ DOMAIN queue \subseteq Blocks
    /\ \A b \in DOMAIN queue : queue[b].st \in Status /\ queue[b].h \in {0, b}
    /\ snap \in 0..PeerTop \cup {NoSnap} /\ net \subseteq Blocks

\* An entry marked downloaded stands for a block stored as orphan and still
\* waiting for its parent.  fillQueue counts such entries against
\* PARALLEL_BLOCKS_DOWNLOAD, so one that outlived its orphan would take a
\* download slot for good; the checkDeorphanage replay must remove the
\* heights of every block it moves to the main chain, at any depth.
DownloadedAreOrphans ==
    \A b \in DOMAIN queue : queue[b].st = "downloaded" => b \in orphans

\* The parent of every stored orphan is on the main chain, an orphan too, or
\* in the download queue: addOrphanBlock's request by hash, fillQueue's
\* ranges and Synchronize's dropping of obsolete entries never leave an
\* orphan waiting for a parent nobody will fetch.
MissingParentTracked == \A o \in orphans : o - 1 \in Stored \cup DOMAIN queue

\* Synchronisation completes: with answers lost, late or duplicated and
\* blocks arriving out of order, the node's top eventually reaches the
\* peer's height through fillQueue, timeouts and deorphanage.
CatchesUp == <>(top = PeerTop)
=============================================================================
