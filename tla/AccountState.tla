---------------------------- MODULE AccountState ----------------------------
(***************************************************************************)
(* The state engine of the STILL node: Blockchain.ApplyBlockToState and    *)
(* Blockchain.RemoveBlockFromState on the STATE bucket (per address:       *)
(* Balance, LastNonce, LastIncoming), with the coinbase split between the  *)
(* block's recipient and the governance (genesis) address.                 *)
(*                                                                         *)
(* The main chain is a stack: ApplyBlock applies a new block on top, as    *)
(* addMainchainBlock and reorg step 3 do; RemoveTop undoes the top block,  *)
(* as reorg step 2 does.  Each runs inside AddBlock's bbolt transaction,   *)
(* so a step that fails (error or panic) leaves the bucket unchanged.      *)
(*                                                                         *)
(* Integers are uint64 in the code; the model keeps their wrap-around with *)
(* a smaller width W (all arithmetic is modulo 2^W).                       *)
(***************************************************************************)
EXTENDS Integers, Sequences, FiniteSets, SequencesExt, TLC

CONSTANTS
    Addresses,      \* addresses (address.FromPubKey of senders, recipients)
    GenesisAddress, \* address.GenesisAddress, receives the governance share
    Amounts,        \* Transaction.Amount values peers may send
    Fees,           \* Transaction.Fee values (at least FEE_PER_BYTE*vsize)
    MaxNonce,       \* Transaction.Nonce ranges over 1..MaxNonce
    MaxTxs,         \* transactions per block (MAX_TX_PER_BLOCK, scaled down)
    MaxHeight,      \* bound on the main-chain height
    Reward,         \* Reward[h]: block.Reward() at height h
    FeePercent,     \* config.BLOCK_REWARD_FEE_PERCENT
    W               \* integer width standing for 64

ASSUME /\ GenesisAddress \in Addresses
       /\ Amounts \subseteq Nat \ {0} /\ Fees \subseteq Nat
       /\ Reward \in [0..MaxHeight -> Nat] /\ FeePercent \in 0..100

Word == 2^W                         \* 2^64 in the code
Plus(a, b)  == (a + b) % Word       \* uint64 +
Minus(a, b) == (a - b) % Word       \* uint64 -
Times(a, b) == (a * b) % Word       \* uint64 *

\* Transactions that pass Transaction.Prevalidate: non-zero amount, sender
\* different from recipient, fee at or above the minimum (Fees).
Txs == {t \in [sender: Addresses, recipient: Addresses, amount: Amounts,
               fee: Fees, nonce: 1..MaxNonce] : t.sender # t.recipient}

\* A main-chain block as the state engine reads it.
BlockRecs(h) == [height: {h}, recipient: Addresses,
                 txs: UNION {[1..n -> Txs] : n \in 0..MaxTxs}]

EmptyState == [balance |-> 0, lastNonce |-> 0, lastIncoming |-> 0]

VARIABLES
    state,      \* the STATE bucket: address -> State, for the stored addresses
    history     \* main chain above genesis: <<[block, before]>>, oldest first

vars == <<state, history>>

Ok(s)   == [ok |-> TRUE,  st |-> s]
Fail(s) == [ok |-> FALSE, st |-> s]

\* buckGetState's value: the stored State, or a zero State with an error.
Get(s, a) == IF a \in DOMAIN s THEN s[a] ELSE EmptyState
\* buckSetState
Set(s, a, v) == (a :> v) @@ s

\* The coinbase of a block: totalReward = Reward + fees, governanceReward =
\* totalReward * BLOCK_REWARD_FEE_PERCENT / 100, the miner gets the rest.
TotalFee(blk) == FoldSeq(LAMBDA t, acc : Plus(acc, t.fee), 0, blk.txs)
TotalReward(blk) == Plus(Reward[blk.height], TotalFee(blk))
GovernanceReward(blk) == Times(TotalReward(blk), FeePercent) \div 100
\* A miner share computed on its own, rounding down like the governance share.
MinerRewardRoundedDown(blk) == Times(TotalReward(blk), 100 - FeePercent) \div 100
MinerReward(blk) == Minus(TotalReward(blk), GovernanceReward(blk))

-----------------------------------------------------------------------------
(* ApplyBlockToState.                                                      *)

\* One transaction: the sender must be stored, hold Amount+Fee (a uint64
\* sum) and use nonce LastNonce+1; the recipient may be new.
ApplyTx(s, t) ==
    LET snd == s[t.sender]
        spend == Plus(t.amount, t.fee)
        s1 == Set(s, t.sender, [snd EXCEPT !.balance = Minus(@, spend),
                                           !.lastNonce = @ + 1])
        rec == Get(s1, t.recipient)
    IN IF t.sender \notin DOMAIN s \/ snd.balance < spend
          \/ t.nonce # snd.lastNonce + 1
       THEN Fail(s)
       ELSE Ok(Set(s1, t.recipient, [rec EXCEPT !.balance = Plus(@, t.amount),
                                                !.lastIncoming = @ + 1]))

RECURSIVE ApplyTxs(_, _)
ApplyTxs(s, ts) ==
    IF ts = <<>> THEN Ok(s)
    ELSE LET r == ApplyTx(s, Head(ts)) IN
         IF r.ok THEN ApplyTxs(r.st, Tail(ts)) ELSE r

\* A coinbase that also counts the governance credit as an incoming entry.
ApplyCoinbaseCountingGovernance(s, blk) ==
    LET m  == Get(s, blk.recipient)
        s1 == Set(s, blk.recipient, [m EXCEPT !.balance = Plus(@, MinerReward(blk)),
                                              !.lastIncoming = @ + 1])
        g  == Get(s1, GenesisAddress)
    IN Set(s1, GenesisAddress, [g EXCEPT !.balance = Plus(@, GovernanceReward(blk)),
                                         !.lastIncoming = @ + 1])

\* Credit the miner (a missing account reads as zero) and the governance
\* address; only the miner's LastIncoming advances.
ApplyCoinbase(s, blk) ==
    LET m  == Get(s, blk.recipient)
        s1 == Set(s, blk.recipient, [m EXCEPT !.balance = Plus(@, MinerReward(blk)),
                                              !.lastIncoming = @ + 1])
        g  == Get(s1, GenesisAddress)
    IN Set(s1, GenesisAddress, [g EXCEPT !.balance = Plus(@, GovernanceReward(blk))])

ApplyBlockToState(s, blk) ==
    LET r == ApplyTxs(s, blk.txs) IN
    IF r.ok THEN Ok(ApplyCoinbase(r.st, blk)) ELSE r

-----------------------------------------------------------------------------
(* RemoveBlockFromState.                                                   *)

\* Undo the coinbase: the miner must be stored, hold the miner reward and
\* have LastIncoming > 0; the governance address must hold its share.
UndoCoinbase(s, blk) ==
    LET m  == s[blk.recipient]
        s1 == Set(s, blk.recipient, [m EXCEPT !.balance = Minus(@, MinerReward(blk)),
                                              !.lastIncoming = @ - 1])
        g  == s1[GenesisAddress]
    IN IF blk.recipient \notin DOMAIN s \/ m.balance < MinerReward(blk)
          \/ m.lastIncoming = 0
       THEN Fail(s)
       ELSE IF GenesisAddress \notin DOMAIN s1 \/ g.balance < GovernanceReward(blk)
       THEN Fail(s1)
       ELSE Ok(Set(s1, GenesisAddress,
                   [g EXCEPT !.balance = Minus(@, GovernanceReward(blk))]))

\* Undo one transaction: the recipient must hold Amount+Fee (although it
\* only received Amount) and have LastIncoming > 0; the sender gets Amount
\* and Fee back and must have LastNonce > 0.
UndoTx(s, t) ==
    LET rec == s[t.recipient]
        s1  == Set(s, t.recipient, [rec EXCEPT !.balance = Minus(@, t.amount),
                                               !.lastIncoming = @ - 1])
        snd == s1[t.sender]
    IN IF t.recipient \notin DOMAIN s \/ rec.balance < Plus(t.amount, t.fee)
          \/ rec.lastIncoming = 0
       THEN Fail(s)
       ELSE IF t.sender \notin DOMAIN s1 \/ snd.lastNonce = 0
       THEN Fail(s1)
       ELSE Ok(Set(s1, t.sender, [snd EXCEPT !.balance = Plus(Plus(@, t.amount), t.fee),
                                             !.lastNonce = @ - 1]))

RECURSIVE UndoTxs(_, _)
\* The transactions in reverse order.
UndoTxs(s, ts) ==
    IF ts = <<>> THEN Ok(s)
    ELSE LET r == UndoTx(s, Last(ts)) IN
         IF r.ok THEN UndoTxs(r.st, Front(ts)) ELSE r

\* txs := make([]txCache, len(bl.Transactions)) followed by append: the
\* reverse loop undoes the real entries, then reaches the zero entries,
\* whose nil Tx it dereferences (a panic, which rolls the transaction back).
RemoveBlockFromState(s, blk) ==
    LET r1 == UndoCoinbase(s, blk)
        r2 == IF r1.ok THEN UndoTxs(r1.st, blk.txs) ELSE r1
    IN IF r2.ok /\ blk.txs # <<>> THEN Fail(r2.st) ELSE r2

-----------------------------------------------------------------------------
(* The main chain as a stack of blocks.                                    *)

\* Mutant: the height check compares with the parent's height itself.
SameHeight(h) == h

\* checkBlock: bl.Height must be prevBl.Height+1.
NextHeight(h) == h + 1

GenesisBlock == [height |-> 0, recipient |-> GenesisAddress, txs |-> <<>>]

\* addGenesis applies the genesis block to an empty STATE bucket.
Init == /\ state = ApplyBlockToState(<<>>, GenesisBlock).st
        /\ history = <<>>

\* addMainchainBlock / reorg step 3: apply a block on top of the chain; a
\* failure aborts the bbolt transaction.
ApplyBlock ==
    /\ Len(history) < MaxHeight
    /\ \E blk \in BlockRecs(NextHeight(Len(history))) :
         LET r == ApplyBlockToState(state, blk) IN
         IF r.ok THEN /\ state' = r.st
                      /\ history' = Append(history, [block |-> blk, before |-> state])
         ELSE UNCHANGED vars

\* reorg step 2: undo the top block; a failure aborts the bbolt transaction.
RemoveTop ==
    /\ history # <<>>
    /\ LET r == RemoveBlockFromState(state, Last(history).block) IN
       IF r.ok THEN /\ state' = r.st
                    /\ history' = Front(history)
       ELSE UNCHANGED vars

Next == ApplyBlock \/ RemoveTop

Spec == Init /\ [][Next]_vars

-----------------------------------------------------------------------------
(* Properties.                                                             *)

IsStateBucket(s) ==
    /\ DOMAIN s \subseteq Addresses
    /\ \A a \in DOMAIN s :
         s[a] \in [balance: 0..Word - 1, lastNonce: 0..MaxTxs * MaxHeight,
                  lastIncoming: 0..(MaxTxs + 1) * MaxHeight + 1]

TypeOK ==
    /\ IsStateBucket(state)
    /\ Len(history) <= MaxHeight
    /\ \A i \in DOMAIN history :
         /\ history[i].block \in BlockRecs(i)
         /\ IsStateBucket(history[i].before)

\* GetSupply: the uint64 sum of all balances in the STATE bucket.
GetSupply(s) == FoldFunction(Plus, 0, [a \in DOMAIN s |-> s[a].balance])
\* The same sum over the integers: the coins that exist.
Coins(s) == FoldFunction(+, 0, [a \in DOMAIN s |-> s[a].balance])

\* The scheduled supply at the top height: every block's reward, genesis's
\* included (block.GetSupplyAtHeight).
SupplyAtHeight(h) == FoldFunction(Plus, 0, [i \in 0..h |-> Reward[i]])

\* CheckSupply: after any sequence of applied and removed blocks, the sum of
\* balances equals the scheduled supply at the current height.  Transfers
\* move Amount+Fee out of the sender, Amount into the recipient and the fee
\* into the coinbase, whose split must not lose or create a unit.  The
\* coins are summed over the integers: CheckSupply's uint64 sum would hide
\* a balance that wrapped by exactly 2^64.
SupplyMatchesSchedule == Coins(state) = SupplyAtHeight(Len(history))

\* The per-address counters are the INTX/OUTTX index keys: LastNonce is the
\* number of main-chain transactions the address sent, and LastIncoming the
\* number of transactions and coinbases it received (genesis's included),
\* whatever blocks were applied and removed before.
IndexCountsMatchChain ==
    \A a \in DOMAIN state :
      LET txs == [i \in 1..Len(history) |-> history[i].block.txs]
          Count(P(_)) == FoldSeq(LAMBDA ts, acc :
                             acc + Cardinality({j \in DOMAIN ts : P(ts[j])}), 0, txs)
          mined == Cardinality({i \in 1..Len(history) : history[i].block.recipient = a})
      IN /\ state[a].lastNonce = Count(LAMBDA t : t.sender = a)
         /\ state[a].lastIncoming = Count(LAMBDA t : t.recipient = a) + mined
                                    + (IF a = GenesisAddress THEN 1 ELSE 0)

\* RemoveBlockFromState is the inverse of ApplyBlockToState: the top block
\* of the main chain can always be removed, and removing it gives back the
\* STATE bucket from before it was applied (what a reorg's unwind needs);
\* an address the block created may stay behind as a zero State.
UndoRestoresState ==
    history # <<>> =>
        LET r == RemoveBlockFromState(state, Last(history).block)
            before == Last(history).before
        IN /\ r.ok
           /\ \A a \in DOMAIN r.st \cup DOMAIN before : Get(r.st, a) = Get(before, a)

=============================================================================
