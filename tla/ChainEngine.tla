----------------------------- MODULE ChainEngine -----------------------------
(***************************************************************************)
(* The chain state machine of the STILL node (package blockchain):         *)
(* Blockchain.AddBlock and everything it calls inside one bbolt write      *)
(* transaction: orphan insertion, main-chain and alt-chain insertion,      *)
(* deorphanage, reorganisation (CheckReorgs) and tip cleanup.              *)
(*                                                                         *)
(* A block is a hash from the constant set Blocks; its header is reduced   *)
(* to what fork choice reads: its parent (Ancestors[0]) and its weight,    *)
(* the difficulty plus the 2/3 side-block credit that checkBlock adds to  *)
(* the parent's cumulative difficulty.  The STATE bucket is reduced to how *)
(* many times each block's state transition is applied; which blocks fail  *)
(* checkBlock or ApplyBlockToState, and which carry transactions, are      *)
(* constants.                                                              *)
(*                                                                         *)
(* The whole database is one variable, db, because AddBlock runs in one    *)
(* bbolt transaction: when any step returns an error the caller's          *)
(* DB.Update rolls back every write, so AddBlock either commits the state  *)
(* its sub-operations computed or leaves db unchanged.                     *)
(***************************************************************************)
EXTENDS Integers, Sequences, FiniteSets, FiniteSetsExt, Functions, TLC

CONSTANTS
    Blocks,     \* hashes of the blocks peers can deliver, genesis included
    Genesis,    \* the genesis block built by addGenesis
    Parent,     \* Parent[b] = b.PrevHash() = b.Ancestors[0], for b # Genesis
    Weight,     \* Weight[b] = b.Difficulty + b.Difficulty*2*len(SideBlocks)/3
    Invalid,    \* blocks that checkBlock rejects against their parent
    BadTx,      \* blocks whose transactions ApplyBlockToState rejects
    TxBlocks,   \* blocks that carry at least one transaction
    NoBlock     \* no hash: a missing TOPO entry

ASSUME /\ Genesis \in Blocks /\ NoBlock \notin Blocks
       /\ Parent \in [Blocks \ {Genesis} -> Blocks]
       /\ Weight \in [Blocks -> Nat \ {0}]
       /\ Invalid \cup BadTx \cup TxBlocks \subseteq Blocks \ {Genesis}
       /\ BadTx \subseteq TxBlocks

-----------------------------------------------------------------------------
(* The block tree the constants describe.  Parent must be acyclic.         *)

RECURSIVE HeightOf(_), CumDiffOf(_), AncestryOf(_)
HeightOf(b)   == IF b = Genesis THEN 0 ELSE HeightOf(Parent[b]) + 1
\* Block.CumulativeDiff as checkBlock and deorphanBlock recompute it;
\* genesis has Difficulty = CumulativeDiff = 1.
CumDiffOf(b)  == IF b = Genesis THEN Weight[Genesis]
                 ELSE CumDiffOf(Parent[b]) + Weight[b]
AncestryOf(b) == IF b = Genesis THEN {Genesis} ELSE {b} \cup AncestryOf(Parent[b])

Height   == [b \in Blocks |-> HeightOf(b)]
CumDiff  == [b \in Blocks |-> CumDiffOf(b)]
Ancestry == [b \in Blocks |-> AncestryOf(b)]      \* b and all its ancestors

Heights == 0..Max({Height[b] : b \in Blocks})

\* AltchainTip{Hash, Height, CumulativeDiff}
TipRec(h, ht, c) == [hash |-> h, height |-> ht, cum |-> c]

-----------------------------------------------------------------------------
VARIABLE db
(* The bbolt database:                                                     *)
(*   blocks   keys of the BLOCK bucket                                     *)
(*   topo     the TOPO bucket, height -> main-chain hash                   *)
(*   applied  STATE bucket: times each block's transition is applied       *)
(*   top, topHeight, cum, tips, orphans: the Stats record in INFO "stats"  *)
(*   (Stats.Orphans[h].PrevHash is Parent[h], so orphans is a key set).    *)

vars == <<db>>

\* The result of a step that can fail: the database it leaves, and whether
\* it returned nil.  A failed step's database is what it wrote before the
\* error, which matters where a caller ignores the error.
Ok(s)   == [ok |-> TRUE,  db |-> s]
Fail(s) == [ok |-> FALSE, db |-> s]

TopoAt(s, h) == IF h \in Heights THEN s.topo[h] ELSE NoBlock

-----------------------------------------------------------------------------
(* State engine and consensus checks, as seen by the chain engine.         *)

\* checkBlock: difficulty, height, timestamp, side blocks, cumulative diff.
checkBlock(b) == b \notin Invalid

\* ApplyBlockToState: fails on a spending or nonce error in b's transactions.
ApplyBlockToState(s, b) ==
    IF b \in BadTx THEN Fail(s)
    ELSE Ok([s EXCEPT !.applied[b] = @ + 1])

\* Mutant: the undo leaves the block's state transition in place.
RemoveBlockFromStateNoUndo(s, b) ==
    IF b \in TxBlocks THEN Fail(s) ELSE Ok(s)

\* RemoveBlockFromState builds txs with make(len(bl.Transactions)) and then
\* appends the real entries; the reverse loop undoes the real ones and then
\* dereferences a nil *Transaction (or fails before on the recipient check
\* Balance < Amount+Fee).  It never succeeds for a block with transactions;
\* the panic rolls the bbolt transaction back like an error does.
RemoveBlockFromState(s, b) ==
    IF b \in TxBlocks THEN Fail(s)
    ELSE Ok([s EXCEPT !.applied[b] = @ - 1])

-----------------------------------------------------------------------------
(* Block insertion.                                                        *)

insertBlock(s, b) == [s EXCEPT !.blocks = @ \cup {b}]

insertBlockMain(s, b) == [s EXCEPT !.blocks = @ \cup {b}, !.topo[Height[b]] = b]

\* Mutant: the orphan is listed in the stats but not stored.
addOrphanBlockUnstored(s, b) == [s EXCEPT !.orphans = @ \cup {b}]

\* Orphan{Hash, PrevHash}; the block is stored, the stats are not broadcast.
addOrphanBlock(s, b) == [s EXCEPT !.orphans = @ \cup {b}, !.blocks = @ \cup {b}]

addMainchainBlock(s, b) ==
    LET r == ApplyBlockToState(s, b) IN
    IF ~r.ok THEN r
    ELSE Ok(insertBlockMain([r.db EXCEPT !.top = b, !.topHeight = Height[b],
                                         !.cum = CumDiff[b]], b))

-----------------------------------------------------------------------------
(* CheckReorgs.                                                            *)

\* Mutant: CheckReorgs takes any tip heavier than the main chain, not the
\* heaviest one.
BestTipsAnyHeavier(s) == {k \in DOMAIN s.tips : s.tips[k].cum > s.cum}

\* The tips CheckReorgs may pick: it scans the Go map in random order and
\* keeps a tip only when strictly heavier than the best so far, so it picks
\* some heaviest tip, and only one heavier than the main chain.
BestTips(s) ==
    {k \in DOMAIN s.tips :
        /\ s.tips[k].cum > s.cum
        /\ \A j \in DOMAIN s.tips : s.tips[j].cum <= s.tips[k].cum}

\* Step 1: walk back from the alt tip through PrevHash until a block whose
\* TOPO entry is itself; height 0 is checked first and is an error.  The
\* result's hashes run from the oldest alt block to the tip.
RECURSIVE FindCommon(_, _, _)
FindCommon(s, c, hs) ==
    LET p == Parent[c] IN
    IF Height[p] = 0 THEN [ok |-> FALSE, common |-> p, hashes |-> hs]
    ELSE IF s.topo[Height[p]] = p THEN [ok |-> TRUE, common |-> p, hashes |-> hs]
    ELSE FindCommon(s, p, <<p>> \o hs)

\* Mutant: reorg step 2 undoes the state but leaves the TOPO entries.
RECURSIVE UnwindKeepingTopo(_, _, _)
UnwindKeepingTopo(s, n, common) ==
    IF n = common THEN Ok(s)
    ELSE LET r == RemoveBlockFromState(s, n)
         IN IF ~r.ok \/ n = Genesis THEN Fail(r.db)
            ELSE UnwindKeepingTopo(r.db, Parent[n], common)

\* Step 2: from the top back to the common block, delete each TOPO entry and
\* undo the block's state.  Walking past genesis without meeting the common
\* block is an error.
RECURSIVE Unwind(_, _, _)
Unwind(s, n, common) ==
    IF n = common THEN Ok(s)
    ELSE LET r == RemoveBlockFromState([s EXCEPT !.topo[Height[n]] = NoBlock], n)
         IN IF ~r.ok \/ n = Genesis THEN Fail(r.db)
            ELSE Unwind(r.db, Parent[n], common)

\* Step 3: for each alt block, oldest first: write its TOPO entry, then
\* checkBlock against its parent, then apply its state.
RECURSIVE Replay(_, _)
Replay(s, hs) ==
    IF hs = <<>> THEN Ok(s)
    ELSE LET bl == Head(hs)
             s1 == [s EXCEPT !.topo[Height[bl]] = bl]
         IN IF ~checkBlock(bl) THEN Fail(s1)
            ELSE LET r == ApplyBlockToState(s1, bl) IN
                 IF r.ok THEN Replay(r.db, Tail(hs)) ELSE r

\* Mutant: the reorg commits the new top without checking the replay.
ReorgIgnoringReplay(s, t) ==
    LET f  == FindCommon(s, t.hash, <<t.hash>>)
        r2 == IF s.top # f.common THEN Unwind(s, s.top, f.common) ELSE Ok(s)
        r3 == IF r2.ok THEN Replay(r2.db, f.hashes) ELSE r2
    IN IF ~f.ok THEN Fail(s)
       ELSE Ok([r3.db EXCEPT
                  !.tips = (s.top :> TipRec(s.top, s.topHeight, s.cum))
                              @@ Restrict(@, DOMAIN @ \ {t.hash}),
                  !.top = t.hash, !.topHeight = t.height, !.cum = t.cum])

\* Steps 1-4 towards tip t; step 4 deletes the tip keyed by t's hash and
\* keys the old top as a tip.
Reorg(s, t) ==
    LET f  == FindCommon(s, t.hash, <<t.hash>>)
        r2 == IF s.top # f.common THEN Unwind(s, s.top, f.common) ELSE Ok(s)
        r3 == IF r2.ok THEN Replay(r2.db, f.hashes) ELSE r2
    IN IF ~f.ok THEN Fail(s)
       ELSE IF ~r3.ok THEN r3
       ELSE Ok([r3.db EXCEPT
                  !.tips = (s.top :> TipRec(s.top, s.topHeight, s.cum))
                              @@ Restrict(@, DOMAIN @ \ {t.hash}),
                  !.top = t.hash, !.topHeight = t.height, !.cum = t.cum])

\* Mutant: no reorganisation ever happens.
CheckReorgsNever(s) == {Ok(s)}

\* The possible outcomes of CheckReorgs(s); a reorg happened iff top changed.
CheckReorgs(s) ==
    IF BestTips(s) = {} THEN {Ok(s)}
    ELSE {IF s.tips[k].hash = s.top THEN Ok(s) ELSE Reorg(s, s.tips[k]) :
            k \in BestTips(s)}

-----------------------------------------------------------------------------
(* Alt-chain insertion, deorphanage, tip cleanup.                          *)

\* addAltchainBlock: a tip keyed by the parent's hash is advanced in place,
\* keeping its key and adding 1 to its height; otherwise a new tip keyed by
\* the block's hash.  The error CheckReorgs returns is ignored.
addAltchainBlock(s, b) ==
    LET p    == Parent[b]
        tips == IF p \in DOMAIN s.tips
                THEN [s.tips EXCEPT ![p] = TipRec(b, @.height + 1, CumDiff[b])]
                ELSE (b :> TipRec(b, Height[b], CumDiff[b])) @@ s.tips
    IN {Ok(r.db) : r \in CheckReorgs(insertBlock([s EXCEPT !.tips = tips], b))}

\* Mutant: deorphanBlock does not recurse into the promoted orphans.
OrphanChildrenOnly(orphans, b) == {o \in orphans : Parent[o] = b}

\* The orphans deorphanBlock(b) reaches: b's orphan children, recursively.
RECURSIVE OrphanDescendants(_, _)
OrphanDescendants(orphans, b) ==
    LET children == {o \in orphans : Parent[o] = b}
    IN children \cup UNION {OrphanDescendants(orphans, c) : c \in children}

\* deorphanBlock: each reached orphan d leaves the orphans, the tip keyed by
\* its parent is deleted and d becomes a tip with its recomputed cumulative
\* difficulty; a tip survives only for the reached orphans that have no
\* reached child.
deorphanBlock(s, b) ==
    LET D        == OrphanDescendants(s.orphans, b)
        parents  == {Parent[d] : d \in D}
        kept     == Restrict(s.tips, DOMAIN s.tips \ parents)
        promoted == [d \in D \ parents |-> TipRec(d, Height[d], CumDiff[d])]
    IN [s EXCEPT !.orphans = @ \ D, !.tips = promoted @@ kept]

\* cleanupTips: drop the tips whose TOPO entry at their height is their hash.
cleanupTips(s) ==
    [s EXCEPT !.tips = Restrict(@, {k \in DOMAIN @ : TopoAt(s, @[k].height) # @[k].hash})]

\* checkDeorphanage: deorphan, save stats, CheckReorgs, and clean up the
\* tips after a reorg.
checkDeorphanage(s, b) ==
    LET s1 == deorphanBlock(s, b) IN
    {IF r.ok /\ r.db.top # s1.top THEN Ok(cleanupTips(r.db)) ELSE r :
        r \in CheckReorgs(s1)}

-----------------------------------------------------------------------------
(* AddBlock, one bbolt transaction.                                        *)

Commit(r) == db' = IF r.ok THEN r.db ELSE db

AddBlock(b) ==
    \/ /\ b \in db.blocks                          \* duplicate: rejected
       /\ UNCHANGED db
    \/ /\ b \notin db.blocks
       /\ \/ Parent[b] \notin db.blocks            \* parent unknown
          \/ Parent[b] \in db.orphans              \* parent is an orphan
       /\ db' = addOrphanBlock(db, b)
    \/ /\ b \notin db.blocks
       /\ Parent[b] \in db.blocks \ db.orphans
       /\ ~checkBlock(b)                           \* invalid: rejected
       /\ UNCHANGED db
    \/ /\ b \notin db.blocks
       /\ Parent[b] \in db.blocks \ db.orphans
       /\ checkBlock(b)
       /\ \E r1 \in IF Parent[b] = db.top THEN {addMainchainBlock(db, b)}
                                            ELSE addAltchainBlock(db, b) :
            IF r1.ok THEN \E r2 \in checkDeorphanage(r1.db, b) : Commit(r2)
            ELSE UNCHANGED db

\* addGenesis on an empty database.
Init ==
    db = [blocks    |-> {Genesis},
          topo      |-> [h \in Heights |-> IF h = 0 THEN Genesis ELSE NoBlock],
          applied   |-> [b \in Blocks |-> IF b = Genesis THEN 1 ELSE 0],
          top       |-> Genesis,
          topHeight |-> 0,
          cum       |-> CumDiff[Genesis],
          tips      |-> <<>>,
          orphans   |-> {}]

Next == \E b \in Blocks \ {Genesis} : AddBlock(b)

Spec == Init /\ [][Next]_vars

\* Peers keep offering every block (the download queue re-requests missing
\* ones), so an AddBlock that would change the database eventually runs.
FairSpec == Spec /\ \A b \in Blocks \ {Genesis} : WF_vars(AddBlock(b))

-----------------------------------------------------------------------------
(* Properties.                                                             *)

TypeOK ==
    /\ db.blocks \subseteq Blocks
    /\ db.topo \in [Heights -> Blocks \cup {NoBlock}]
    /\ db.applied \in [Blocks -> Int]
    /\ db.top \in db.blocks /\ db.topHeight \in Nat /\ db.cum \in Nat
    /\ DOMAIN db.tips \subseteq Blocks
    /\ \A k \in DOMAIN db.tips : db.tips[k] \in [hash: Blocks, height: Nat, cum: Nat]
    /\ db.orphans \subseteq db.blocks

\* The main chain ending at b, as height -> hash.
ChainIndex(b) == [h \in Heights |-> IF h > Height[b] THEN NoBlock
                                    ELSE CHOOSE a \in Ancestry[b] : Height[a] = h]

\* TOPO names exactly the chain from Stats.TopHash back to genesis: reorg
\* step 2 deletes every entry it unwinds and step 3 writes every entry it
\* replays, and insertBlockMain writes the new top's.
MainChainIndexed == db.topo = ChainIndex(db.top)

\* The STATE bucket holds exactly the transitions of the main-chain blocks,
\* each once: a reorg undoes every unwound block and applies every replayed
\* one, and AddBlock commits nothing of a reorg that failed half-way.
StateIsMainChain ==
    \A b \in Blocks : db.applied[b] = IF b \in Ancestry[db.top] THEN 1 ELSE 0

\* Fork choice: Stats.CumulativeDiff is the top's cumulative difficulty and
\* no stored non-orphan block is heavier, whatever order blocks, orphans
\* and their parents arrived in (the tips, deorphanage and CheckReorgs
\* together must not lose a heavier branch).
HeaviestChainSelected ==
    /\ db.cum = CumDiff[db.top]
    /\ \A b \in db.blocks \ db.orphans : CumDiff[b] <= db.cum

\* A block stays an orphan only while its parent is unknown or itself an
\* orphan: when a parent connects, deorphanBlock promotes its whole orphan
\* subtree.
OrphansAwaitParent ==
    \A o \in db.orphans : Parent[o] \notin db.blocks \/ Parent[o] \in db.orphans

\* Stats.TopHeight is the height of Stats.TopHash (CheckSupply compares the
\* supply with GetSupplyAtHeight(TopHeight)), and every AltchainTip records
\* the height of the block it names.
HeightsRecorded ==
    /\ db.topHeight = Height[db.top]
    /\ \A k \in DOMAIN db.tips : db.tips[k].height = Height[db.tips[k].hash]

\* The blocks every check accepts: no ancestor fails checkBlock or
\* ApplyBlockToState.
ValidBlocks == {b \in Blocks : Ancestry[b] \cap (Invalid \cup BadTx) = {}}

\* Once peers have offered every block, the node follows the heaviest chain
\* of valid blocks.
AdoptsHeaviestChain ==
    <>[](db.cum = Max({CumDiff[b] : b \in ValidBlocks}))

\* Refinement: with the BLOCK bucket as the stored blocks and Stats.TopHash
\* as the head, every AddBlock is a ChainSpec step: it stores at most the
\* block it was given, and moves the top only to a stored, fully valid
\* chain that is strictly heavier, whatever the path (main-chain insert,
\* alt-chain reorg, or deorphanage followed by a reorg) and whichever
\* step of a reorg fails.
Abstract == INSTANCE ChainSpec WITH
                stored <- db.blocks, head <- db.top,
                CumDiff <- CumDiff, Valid <- ValidBlocks

ImplementsChainSpec == Abstract!Spec
=============================================================================
