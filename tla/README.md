# TLA+ models of the STILL blockchain node

This directory holds TLA+ models of the STILL node: its consensus core
(`src/unnamed/part_001`, package `blockchain`), the binary codec
(`src/binary`, `src/block`, `src/transaction`), merge mining (`src/block`) and
the block download driver (`src/unnamed/part_001`) and the start-up of the
wallet CLI (`src/cmd/still-wallet-cli`).
Each one is checked with TLC. Every definition that models code is listed in
`PROJECT.json` under `map`, with the source lines it translates.

## 1. The system: components, state and interactions

| Component | Source | State | Operations |
|---|---|---|---|
| Chain engine | part_001 `AddBlock` 467-534 and its callees | BLOCK bucket, TOPO bucket (height → main-chain hash), `Stats` (TopHash, TopHeight, CumulativeDiff, Tips, Orphans) | `addOrphanBlock`, `addMainchainBlock`, `addAltchainBlock`, `CheckReorgs` (4 steps), `checkDeorphanage`/`deorphanBlock`, `cleanupTips` |
| State engine | part_001 `ApplyBlockToState` 865-1017, `RemoveBlockFromState` 1020-1175, `GetSupply`/`CheckSupply` 1487-1513 | STATE bucket: per address `Balance`, `LastNonce`, `LastIncoming`; INTX/OUTTX indices | apply and undo a block's transactions and coinbase |
| Block admission | part_001 `checkBlock` 370-461 | none | difficulty, height, timestamp, side-block and cumulative-difficulty checks |
| Mempool | part_001 1345-1378 | INFO "mempool" | entries removed on apply |
| Sync driver | part_001 `Synchronize`, `fillQueue` 201-281, `removeFromQueue`, `queuedBlockDownloaded` 536-545 | `BlockQueue`, `SyncHeight`, `SyncDiff` | snapshot the top, fill the download queue, request blocks, drop obsolete entries; remove or mark blocks as they arrive |
| Binary codec | `src/binary/manualdes.go`, `Serialize`/`Deserialize` in `block.go` and `transaction.go` | the reader's remaining data and first error | fixed, little-endian, varint and length-prefixed reads |
| Merge mining | `block.go` `setMiningBlob`, `Prevalidate` 398-409 | a block's `OtherChains` | build from a mining blob; check on arrival |
| Transactions | `src/transaction/transaction.go` | none | `Prevalidate`, `Serialize`, `Deserialize` |
| Wallet CLI | `src/cmd/still-wallet-cli/wallet.go` `main`, `initialPrompt` | wallet files on disk, the loaded wallet | `-open-wallet`, open/create/restore prompts, RPC start |

How the parts interact:
- Every `AddBlock` runs inside one bbolt write transaction. When any step
  returns an error, or panics, the caller's `DB.Update` rolls back all of its
  writes. Both modules therefore model a failed step as leaving the database
  unchanged.
- The chain engine calls the state engine: `addMainchainBlock` and reorg
  step 3 apply a block, and reorg step 2 removes one. The state engine's
  failures decide whether a reorg succeeds.
- `checkDeorphanage` runs after every accepted block. It promotes the
  block's orphan subtree to alt tips and then calls `CheckReorgs`.
- `AddBlock` updates the download queue (`removeFromQueue`,
  `queuedBlockDownloaded`) before the transaction can still abort.
  `ApplyBlockToState` updates `SyncHeight`/`SyncDiff` the same way. Neither
  update is rolled back on abort.
- The sync thread and the chain engine share the download queue and meet
  under its lock only. `Synchronize` reads `TopHeight` in its own
  `DB.View` and fills the queue later, so an `AddBlock` can run in between.

The hard behaviours:
- blocks delivered in any order, including children before parents
  (orphans), duplicates and invalid blocks;
- reorgs that fail half-way;
- ties between equally heavy tips, broken by Go's random map order;
- uint64 wrap-around in balances and fees;
- the undo of a block being the inverse of its apply.

## 2. Modules

### `ChainEngine.tla` (with `MCChainEngine.tla`)

**State.** The bbolt database is one variable, `db`, a record with these
fields:
- `blocks` is the BLOCK bucket.
- `topo` is the TOPO bucket.
- `applied` is the STATE bucket, reduced to how many times each block's
  transition is applied.
- `top`, `topHeight`, `cum`, `tips` and `orphans` are the `Stats` record.

**Constants.** The block tree is given by constants: `Parent`, `Weight`
(difficulty plus side-block credit), `Invalid` (fails `checkBlock`),
`BadTx` (fails `ApplyBlockToState`) and `TxBlocks` (carries transactions).

**Operators.** Each sub-operation is an operator that returns `[ok, db]`:
- `addOrphanBlock`, `addMainchainBlock`, `addAltchainBlock`;
- `FindCommon`, `Unwind`, `Replay` and `Reorg`, which are the four steps of
  `CheckReorgs`;
- `deorphanBlock`, `cleanupTips`, `checkDeorphanage`.

`CheckReorgs` returns a *set* of outcomes, one per heaviest tip, because
the Go map scan picks among ties at random.

**Action.** `AddBlock(b)` is the one action, with four disjuncts for the
code's branches: duplicate, orphan, invalid, and valid. The valid branch goes
to the main chain or an alt chain, then runs deorphanage. `Commit` writes the
result only when the whole call succeeded.

### `AccountState.tla` (with `MCAccountState.tla`)

**State.** `state` is the STATE bucket as a partial function from address to
`[balance, lastNonce, lastIncoming]`. `history` is the main chain as a stack
of `[block, before]`.

**Operators.**
- `ApplyTx`/`ApplyTxs`/`ApplyCoinbase` translate `ApplyBlockToState`.
- `UndoCoinbase`/`UndoTx`/`UndoTxs` translate `RemoveBlockFromState`,
  including the `make`+`append` padding that makes it panic.

**Arithmetic.** All arithmetic is uint64, written `Plus`/`Minus`/`Times`
modulo `2^W`. The MC configurations pick `W` so that honest values never wrap
and an attacker's value does.

**Actions.**
- `ApplyBlock` models `addMainchainBlock` and reorg step 3. It picks any
  block at the next height: a recipient and up to `MaxTxs` prevalidated
  transactions.
- `RemoveTop` models reorg step 2.

### `Codec.tla` (with `MCCodec.tla`)

Bytes are the integers 0..255 and data are sequences of them. The reader
`binary.Des` is a record `[data, err]`; every read returns `[rd, v]`, and a
read after an error returns a zero value and consumes nothing, as the code's
early returns do. `UvarintFrom` is Go's `encoding/binary.Uvarint` with its
two failure results: `n = 0` when the buffer ends inside the varint and
`n < 0` past `MaxVarintLen` bytes. The writer `binary.Ser` is not in this
tree, so `PutUvarint`, `ByteSlice` and `LEBytes` follow spec.md 4.1.
`SerializeTx`/`DeserializeTx` and `SerializeHeader`/`SerializeBlock`/
`DeserializeHeader`/`DeserializeBlock` are the Go functions field by field,
including the bounds on OtherChains, SideBlocks and Transactions and the
trimming of difficulties to their significant bytes. `BlockHeader.Deserialize`
is split into `HeaderFixed` (the fixed fields up to the first error check)
and `HeaderCounted` (the counted OtherChains and SideBlocks), and
`Block.Deserialize` into the header call and `BlockAfterHeader`; each stage
takes the previous one's result as a parameter. This keeps TLC's coverage
profiling from expanding the long chain of reads exponentially.

The module is a set of pure operators. `MCCodec` picks one input per initial
state, tagged with its kind: a transaction, a block, raw data or a mining
blob. `Next` leaves the input unchanged. Each property is an invariant about
the inputs of its own kind.

### `MergeMining.tla`

`SetMiningBlobFrom` is the loop of `setMiningBlob`, with the code's early
`return nil` after the first other chain and its `lastNetworkId` that is
never assigned. `PrevalidateOtherChains` is the OtherChains check of
`Block.Prevalidate`.
`ValidBlob` and `Others` are the rule of spec.md section 3, used only as the
reference. Each initial state is one mining blob of up to `MaxBlobLen` ids.
`MCCodec` composes the two modules: it instantiates `MergeMining` (`MM ==
INSTANCE MergeMining WITH ...`, hashes as one-byte sequences) and sends the
block a miner builds from each blob through the codec to a peer's checks.

### `ChainSpec.tla`: the abstract chain

`ChainSpec` states what the chain engine promises without tips, orphans,
TOPO or state: `stored` grows by the block received, and `head` either stays
or moves to a strictly heavier block whose whole chain is stored and valid.
`ChainEngine` instantiates it with the refinement mapping
`stored <- db.blocks`, `head <- db.top`, `Valid <- ValidBlocks`, and the run
chain_safety checks `ImplementsChainSpec == Abstract!Spec` as a property.

### `SyncDriver.tla`

The sync thread, the download queue and the peer. There is one peer, whose
chain is blocks 1..`PeerTop`, and the node starts at genesis. All blocks are
valid, so a block is identified by its height.
- **Sync thread.** It has two steps, matching the code's two locks.
  `Snapshot` is `Synchronize`'s `DB.View` of the stats (`snap`). `SyncRound`
  is the `BlockQueue.Update` closure: `fillQueue` with the code's counter
  `n`, then the `RequestableBlock` loop, which drops entries below the
  snapshot (except requests by hash) and sends the rest (`net`).
- **Chain engine.** `Deliver(b)` is the P2P handler running `AddBlock`. It
  has four outcomes:
  - duplicate: nothing changes;
  - orphan with an unknown parent: `addOrphanBlock` queues the parent by
    hash, with height 0;
  - orphan of an orphan;
  - main chain: `removeFromQueue`, then `addMainchainBlock`, then
    deorphanage, which replays the run of stored orphans above it and
    removes their heights from the queue.
  `Raised` is `ApplyBlockToState`'s update of the watermark.
- **Queue and peer.** `BlockQueue` is not in this source tree, so its
  operations follow spec.md 4.7: an entry per block, pending, in flight or
  downloaded, with the height it was queued with. `Timeout`, `Lose`,
  `Gossip` (the peer pushes its top block) and `PeerStats` (a stats packet
  raises `SyncHeight`) are the P2P side.

### `WalletCli.tla` (with `MCWalletCli.tla`)

`pc` is where `main`/`initialPrompt` are; `files` maps a wallet file name to
its password; `created` records the two passwords typed for each file the
prompt created. Each `ReadLine` is an action whose input is any line of up to
`MaxLine` symbols, or a read error. A command line is parsed as the code does
it: `ReplaceAll("  ", " ")`, `ToLower`, `Split(" ")`, so a trailing or tripled
space yields an empty name. The wallet package is not in this tree:
`OpenWalletFile` succeeds when the file exists with that password, and
creating fails when the file exists.

## 3. Runs

| Run | Config | Expect | What it shows |
|---|---|---|---|
| chain_safety | `MCChainEngine.cfg` | pass | 8 blocks (fork at a1 and a2, heavier b2/c3, invalid d3, bad-tx b3, tx block b2) in every delivery order. `MainChainIndexed`: TOPO is the top's chain. `StateIsMainChain`: the state holds the main chain's blocks, each once. `HeaviestChainSelected`: no stored block is heavier than the top. `OrphansAwaitParent`: orphans exist only while the parent is missing. `ImplementsChainSpec`: every step refines `ChainSpec` (the top moves only to a stored, valid, strictly heavier chain). |
| chain_liveness | `MCChainEngineLive.cfg` | pass | `AdoptsHeaviestChain` under weak fairness of every `AddBlock(b)`, with no transactions or bad blocks. |
| tip_height | `MCChainEngineTipHeight.cfg` | violation | `HeightsRecorded` fails. The trace adds m1, m2, x2, y3, z3: a tip advanced in place keeps its old key, and a later reorg sets a wrong `TopHeight`. |
| orphan_poison | `MCChainEnginePoison.cfg` | violation | `AdoptsHeaviestChain` fails. Orphan b3 has a bad transaction, so every `AddBlock` of its ancestors aborts (the trace delivers b3, then b2 twice), and the node stays at genesis G. |
| state_safety | `MCAccountState.cfg` | pass | `SupplyMatchesSchedule`: the coins (an integer sum) equal the scheduled supply. `IndexCountsMatchChain`: `LastNonce`/`LastIncoming` equal the chain's sent and received counts. Both hold over applies of blocks with up to 2 transactions and the undos that succeed. Those are only undos of coinbase-only blocks, because the undo of a transaction block always fails (undo_state). |
| supply_overflow | `MCAccountStateOverflow.cfg` | violation | Amount = 2^W − Fee wraps `Amount+Fee` to 0, which mints coins. |
| undo_state | `MCAccountStateUndo.cfg` | violation | `UndoRestoresState` fails: the top block cannot be removed once it has a transaction. |
| codec_roundtrip | `MCCodec.cfg` | pass | `TxRoundTrip`, `BlockRoundTrip`: `Deserialize(Serialize(x)) = x` for transactions with 1-3 byte varints and blocks with 0-2 other chains (one with an id above 2^24), 0-2 side blocks, 0-2 transactions and difficulties of 1-3 significant bytes. `MinedBlockAccepted`: a block built by `setMiningBlob` from any blob of up to 3 ids it accepts round-trips and passes `Prevalidate`'s OtherChains check. |
| codec_truncation | `MCCodecTruncated.cfg` | violation | `ParsedTxIsEncoded` fails: data cut inside the last varint deserializes without error to a transaction whose encoding is not a prefix of the data. |
| mining_blob | `MCMergeMiningBlob.cfg` | violation | `SetMiningBlobMatchesSpec` fails on the blob `<<[1, h1]>>`, which has no entry for this network and is accepted. |
| sync_liveness | `MCSyncDriver.cfg` | pass | One peer 6 blocks ahead, `P = 2`, under `FairSpec`, with lost, late and repeated answers, gossip and out-of-order arrival. `DownloadedAreOrphans`: an entry marked downloaded always stands for a stored orphan. The deorphanage replay frees the slot of every block it moves to the main chain, at any depth. `MissingParentTracked`: every orphan's parent is stored or queued. `CatchesUp`: the top eventually reaches the peer's height. |
| wallet_password | `MCWalletCli.cfg` | violation | `CreatedWithConfirmedPassword` fails. In state 3, `ReadCommand` splits the line `create ` (trailing space) into `<<create, empty>>`, so the name prompt is skipped. Password "" and repeat "p1" then create `.keys`: the empty name `<<>>` in `files`, with the empty password. |

Every property of a passing run has a mutant in `PROJECT.json`: a plausible
bug in the mapped code that TLC catches.

**Bounds.**
- The chain trees have 4 to 8 blocks. That is enough for:
  - a fork at depth 1 and at depth 2;
  - a reorg that must unwind 1 and 2 blocks;
  - an orphan of an orphan;
  - a tip that is advanced in place and then replaced.
- The state engine uses 3 addresses (one of them the genesis address), a
  height of 2 and 2 transactions per block. That is enough for:
  - a miner spending its coinbase;
  - two transactions of one sender in one block (nonce sequence);
  - a new recipient;
  - coinbase-only undo.
- The reward is 10 with `BLOCK_REWARD_FEE_PERCENT = 10`, the network
  constant of spec.md. So the governance share is nonzero and the integer
  division rounds.

- The codec uses field sizes of 1 byte (hashes, keys, signatures) and a
  3-byte Uint128, and `MaxVarintLen = 3` (the last byte may be 0 or 1, so a 15-bit varint). The layout and
  the reads do not depend on the sizes, and 3-byte varints reach every
  branch of `Uvarint` (one byte, continuation, last-byte overflow, past the
  limit, truncation). TLC integers are 32-bit, which is why the sizes are
  scaled rather than the 16-byte values kept.
- Merge mining: 3 network ids (this one in the middle), 2 hashes and blobs of
  up to 3 entries, which covers own-first, own-last, unsorted and duplicate
  entries, and a blob one over the OtherChains limit.
- Sync driver: a peer 6 blocks ahead with `P = 2`. One fill round queues 3
  blocks, so blocks arrive out of order and orphans of orphans occur. A
  gossiped top block lies beyond the first fill, so its parent is requested
  by hash and fetched backwards, and the replay of a later arrival moves a
  run of up to 5 orphans at once. With 4 blocks, the gossiped block's parent
  is always already queued.
- Wallet CLI: lines of up to 3 symbols over the command words, `Open`, a name
  `x`, `/` and the space; one wallet `x` on disk; passwords "", p1, p2.

**Fairness.** `FairSpec` assumes weak fairness of `AddBlock(b)` for each
block. The sync driver keeps re-requesting queued blocks and peers keep
serving them, so a block that would change the database is offered again.
No fairness is assumed for the state-engine module. In `SyncDriver`'s
`FairSpec`:
- the sync loop (`Snapshot`, `SyncRound`) and stats packets are weakly fair,
  because the loop runs every 250 ms;
- `Timeout(b)` is weakly fair, because time passes;
- `Deliver(b)` is strongly fair, because `Lose` can disable it again and
  again, and the peer answers a block that is asked for infinitely often.
`Lose` and `Gossip` have no fairness.

## 4. Findings

1. **Wrong tip height after an in-place tip advance** (`addAltchainBlock`,
   part_001:593). Run: tip_height.
2. **Reorgs over transaction blocks never succeed.** `RemoveBlockFromState`
   pads `txs` with nil entries (1030, 1041) and also checks the recipient for
   `Amount+Fee` (1121). The loop undoes the real transactions first, because
   they are appended after the padding, so the check at 1121 fails first
   when the recipient holds less than `Amount+Fee` (as in the trace). When it
   passes, the nil entries panic next. Run: undo_state. In the chain engine's terms a
   heavier fork is never adopted once the reorg unwinds a transaction block.
3. **An orphan poisons its parent.** The `CheckReorgs` error in
   `checkDeorphanage` (1231) aborts `AddBlock`, and orphans never expire
   (TODO at 572). Run: orphan_poison.
4. **`Amount+Fee` overflows and creates money** (899). `CheckSupply`'s own
   uint64 sum wraps too, so it cannot see the extra coins. Run:
   supply_overflow.

5. **A truncated varint reads as 0** (manualdes.go:83). `binary.Uvarint`
   returns `n = 0` at the end of the buffer and `ReadUvarint` only rejects
   `n < 0`. Run: codec_truncation.
6. **`setMiningBlob` returns after the first other chain** (block.go:113),
   so a blob without this network's id is accepted and later chains are
   dropped. Run: mining_blob.
7. **The wallet is created with an unconfirmed password** (wallet.go:101);
   a trailing space in the command gives the empty wallet name. Run:
   wallet_password.
Other observations:
- **A fork from genesis is never adopted** (679). Reorg step 1 fails on
  reaching height 0 before checking TOPO. spec.md 4.6.4 says the same,
  which contradicts its fork choice and E2. `AdoptsHeaviestChain` fails
  under `MCChainEngineGenesisFork.cfg`: after a1 and a2, the heavier b1, a
  child of genesis, is rejected on every delivery. That config is not one
  of the listed runs.
- **An aborted `AddBlock` can stop synchronisation for good** (515). Add
  to `SyncDriver` an `AddBlock` that aborts after `removeFromQueue` (and
  after `SyncHeight` was raised, 1009), and TLC finds this behaviour:
  1. blocks 2 and 3 arrive first and are stored as orphans;
  2. block 1's commit fails;
  3. the queue now holds P downloaded entries, so `fillQueue` never
     re-adds block 1, and the node stays at genesis.
  `sync_liveness` models no aborts.
- **A block applied between `Synchronize`'s snapshot and its queue update
  is queued again** (209). Only heights strictly below the snapshot are
  dropped, so after the node has caught up, that entry is re-requested
  forever (`<>[](DOMAIN queue = {})` fails). `CatchesUp` still holds.
- Equal timestamps are accepted although the comment says "strictly
  greater" (388).
- `Prevalidate` accepts unsorted OtherChains, which spec.md 3 forbids
  (block.go:399). This was confirmed with `MergeMining` while modelling.
- The wallet RPC server starts with an empty `-rpc-auth` (wallet.go:167).
- Transactions of unwound blocks are not returned to the mempool (1024).
  This cannot happen in this code, because no reorg over a transaction block
  succeeds (finding 2).
- The spec's orphan invariant ("every orphan's parent is unknown") is false
  for an orphan of an orphan. The model states the refined version
  `OrphansAwaitParent`.

## 5. Plan and what is not modelled

Planned modules, in order:
1. **BlockRules**: `checkBlock`'s timestamp and side-block alignment rules as
   pure operators, checked against the spec's reference over bounded inputs.
2. **Mempool**: composed with `AccountState`.
3. A composition of `ChainEngine` with `AccountState`, replacing the
   `applied` abstraction.

Not modelled:
- In the sync driver: `Close`'s shutdown flag and queue `Save`, peers other
  than one honest peer, and aborted `AddBlock` commits (see the observation
  above).
- P2P, stratum and checkpoints. Their code is not in this source extract.
- `Block.DeserializeFull`, hashing and proof of work.
- Signatures and difficulty computation, which appear only as the constants
  `Invalid` and `Fees`.
- The wallet CLI's command loop after start-up (`prompts`) and the wallet
  package, which is not in this source tree.
