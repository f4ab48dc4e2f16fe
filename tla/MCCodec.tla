------------------------------ MODULE MCCodec ------------------------------
(***************************************************************************)
(* The codec checked over bounded inputs, one per state: a transaction, a  *)
(* block, a byte string a peer may send, or a mining blob; each property   *)
(* is about the inputs of its kind.  Sizes are shrunk to one               *)
(* byte per key or hash and three bytes per Uint128; varints keep their    *)
(* exact encoding, with MaxVarintLen = 3 bounding a 15-bit width.          *)
(* MinedBlockAccepted composes the codec with merge mining: the blocks a   *)
(* miner builds with setMiningBlob go through the codec to a peer.         *)
(***************************************************************************)
EXTENDS Codec, FiniteSets

VARIABLE input     \* [kind, v]: the input of this state
vars == <<input>>

\* Merge mining with network ids 1..3, this network 2, and hashes of one
\* byte as the codec's HashSize gives them.
MM == INSTANCE MergeMining WITH
        NetworkID <- 2, NetIds <- {1, 2, 3}, Hashes <- {<<4>>, <<5>>},
        MaxMergeMined <- MaxMergeMined, MaxBlobLen <- 3, blob <- <<>>

\* Values around every varint length boundary of the 15-bit width.
VarintValues == {0, 127, 128, 16384, 32767}

TxInputs ==
    [sender: {<<0>>, <<255>>}, recipient: {<<7>>}, signature: {<<0>>, <<1>>},
     subaddr: {0, 300}, nonce: {1, 128}, amount: VarintValues \ {0}, fee: {0, 1}]

Chains == {[netId |-> 1, hash |-> <<4>>], [netId |-> 2^24 + 5, hash |-> <<5>>]}
SeqsUpTo(S, n) == UNION {[1..k -> S] : k \in 0..n}

\* Valid blocks: non-zero difficulty, at most MAX_MERGE_MINED_CHAINS-1 other
\* chains, MAX_SIDE_BLOCKS side blocks and MAX_TX_PER_BLOCK transactions.
BlockInputs ==
    [version: {0}, height: {0, 200}, timestamp: {5}, nonce: {0, 65793},
     nonceExtra: {<<9>>}, recipient: {<<3>>}, ancestors: {<<<<1>>, <<2>>>>},
     otherChains: SeqsUpTo(Chains, MaxMergeMined - 1),
     sideBlocks: SeqsUpTo({<<6>>}, MaxSideBlocks),
     diff: {1, 256, 65536}, cumDiff: {1, 2^24 - 1},
     txs: SeqsUpTo({<<8>>}, MaxTxPerBlock)]

\* Byte strings as long as the shortest transaction, over bytes that end a
\* varint (0, 1) or continue it (128).
DataInputs == [1..PubkeySize + AddrSize + SigSize + 4 -> {0, 1, 128}]

\* The block a miner fills in with the other chains of its mining blob.
Blk0 ==
    [version |-> 0, height |-> 200, timestamp |-> 5, nonce |-> 65793,
     nonceExtra |-> <<9>>, recipient |-> <<3>>, ancestors |-> <<<<1>>, <<2>>>>,
     otherChains |-> <<>>, sideBlocks |-> <<<<6>>>>, diff |-> 256,
     cumDiff |-> 2^24 - 1, txs |-> <<<<8>>>>]

Inputs(k, S) == {[kind |-> k, v |-> x] : x \in S}

Init == input \in Inputs("tx", TxInputs) \cup Inputs("blk", BlockInputs)
                  \cup Inputs("data", DataInputs) \cup Inputs("blob", MM!Blobs)

Next == UNCHANGED vars

Spec == Init /\ [][Next]_vars

\* spec.md 8, round trip 1: Transaction.Deserialize(Transaction.Serialize(t))
\* gives back t, for every varint length of every numeric field.
TxRoundTrip ==
    input.kind = "tx" =>
        DeserializeTx(SerializeTx(input.v)) = [ok |-> TRUE, tx |-> input.v]

\* spec.md 8, round trip 2: Block.Deserialize(Block.Serialize(b)) gives back
\* b for every valid block, up to the limits on chains, side blocks and
\* transactions, with the difficulties' trailing zero bytes trimmed.
BlockRoundTrip ==
    input.kind = "blk" =>
        DeserializeBlock(SerializeBlock(input.v)) = [ok |-> TRUE, blk |-> input.v]

\* A block the miner builds from a mining blob that setMiningBlob accepts
\* reaches a peer intact and passes the peer's checks: Block.Deserialize
\* of its serialization gives it back (so the OtherChains count is within
\* the header's bound) and Block.Prevalidate accepts its OtherChains.
MinedBlockAccepted ==
    LET r == MM!setMiningBlob(input.v)
        b == [Blk0 EXCEPT !.otherChains = r.otherChains]
    IN input.kind = "blob" /\ r.ok => /\ DeserializeBlock(SerializeBlock(b)) = [ok |-> TRUE, blk |-> b]
               /\ MM!PrevalidateOtherChains(r.otherChains)

\* spec.md 4.1: the reader fails with ShortBuffer on truncation, so a
\* transaction it accepts is one whose serialization the data begins with.
ParsedTxIsEncoded ==
    LET r == DeserializeTx(input.v)
    IN input.kind = "data" /\ r.ok => IsPrefix(SerializeTx(r.tx), input.v)
=============================================================================
