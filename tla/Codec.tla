------------------------------- MODULE Codec -------------------------------
(***************************************************************************)
(* The binary codec of the STILL node: the reader binary.Des               *)
(* (src/binary/manualdes.go), and the serialization of transactions        *)
(* (src/transaction) and blocks (src/block) built on it.                   *)
(*                                                                         *)
(* Bytes are the integers 0..255 and data are sequences of them.  Fixed    *)
(* sizes (hashes, keys, signatures, the 16-byte Uint128) are constants so  *)
(* that a model can shrink them; unsigned varints are encoded exactly.     *)
(* The writer binary.Ser is not in this source tree; its encoding is the   *)
(* one spec.md section 4.1 gives (LEB128 varints, little-endian integers,  *)
(* uvarint-length-prefixed slices).                                        *)
(***************************************************************************)
EXTENDS Integers, Sequences, SequencesExt

CONSTANTS
    PubkeySize, AddrSize, SigSize, HashSize, NonceExtraSize,
    NumAncestors,   \* len(block.Ancestors)
    CommitSize,     \* bytes of a serialized side-block Commitment
    U128Size,       \* bytes of a Uint128 (16)
    MaxVarintLen,   \* binary.MaxVarintLen64 (10) for the modelled width
    MaxMergeMined,  \* config.MAX_MERGE_MINED_CHAINS
    MaxSideBlocks,  \* config.MAX_SIDE_BLOCKS
    MaxTxPerBlock   \* config.MAX_TX_PER_BLOCK

Zeros(n) == [i \in 1..n |-> 0]
Drop(s, n) == SubSeq(s, n + 1, Len(s))

\* Little-endian value of a byte sequence, and the n bytes of a value.
LEValue(bs) == FoldRight(LAMBDA b, acc : acc * 256 + b, bs, 0)
RECURSIVE LEBytes(_, _)
LEBytes(x, n) == IF n = 0 THEN <<>> ELSE <<x % 256>> \o LEBytes(x \div 256, n - 1)

-----------------------------------------------------------------------------
(* The writer (binary.Ser, spec.md 4.1).                                   *)

RECURSIVE PutUvarint(_)
PutUvarint(x) == IF x < 128 THEN <<x>>
                 ELSE <<(x % 128) + 128>> \o PutUvarint(x \div 128)

ByteSlice(bs) == PutUvarint(Len(bs)) \o bs

-----------------------------------------------------------------------------
(* The reader binary.Des: the remaining data and the first error.  Every   *)
(* read after an error returns a zero value and consumes nothing.          *)

Reader(d) == [data |-> d, err |-> FALSE]
Res(rd, v) == [rd |-> rd, v |-> v]
Failed(rd, v) == Res([rd EXCEPT !.err = TRUE], v)

\* encoding/binary.Uvarint(buf): the value and the bytes read; n = 0 when
\* buf ends inside the varint, n < 0 when it runs past MaxVarintLen bytes.
RECURSIVE UvarintFrom(_, _, _, _)
UvarintFrom(buf, i, x, s) ==
    IF i >= Len(buf) THEN [v |-> 0, n |-> 0]
    ELSE IF i = MaxVarintLen THEN [v |-> 0, n |-> -(i + 1)]
    ELSE LET b == buf[i + 1] IN
         IF b < 128
         THEN IF i = MaxVarintLen - 1 /\ b > 1 THEN [v |-> 0, n |-> -(i + 1)]
              ELSE [v |-> x + b * 2^s, n |-> i + 1]
         ELSE UvarintFrom(buf, i + 1, x + (b - 128) * 2^s, s + 7)
Uvarint(buf) == UvarintFrom(buf, 0, 0, 0)

ReadFixedByteArray(rd, n) ==
    IF rd.err THEN Res(rd, Zeros(n))
    ELSE IF Len(rd.data) < n THEN Failed(rd, Zeros(n))
    ELSE Res([rd EXCEPT !.data = Drop(@, n)], SubSeq(rd.data, 1, n))

\* ReadUint8/16/32/64: n bytes, little-endian (0 after an error).
ReadUint(rd, n) == LET r == ReadFixedByteArray(rd, n) IN Res(r.rd, LEValue(r.v))

\* Mutant: the reader always advances by one byte.
ReadUvarintOneByte(rd) ==
    LET u == Uvarint(rd.data) IN
    IF rd.err THEN Res(rd, 0)
    ELSE IF Len(rd.data) < 1 \/ u.n < 0 THEN Failed(rd, 0)
    ELSE Res([rd EXCEPT !.data = Drop(@, 1)], u.v)

\* A truncated varint (u.n = 0) is read as 0 without an error.
ReadUvarint(rd) ==
    LET u == Uvarint(rd.data) IN
    IF rd.err THEN Res(rd, 0)
    ELSE IF Len(rd.data) < 1 \/ u.n < 0 THEN Failed(rd, 0)
    ELSE Res([rd EXCEPT !.data = Drop(@, u.n)], u.v)

ReadByteSlice(rd) ==
    LET u    == Uvarint(rd.data)
        rest == Drop(rd.data, u.n)
    IN IF rd.err THEN Res(rd, <<>>)
       ELSE IF Len(rd.data) < 1 \/ u.n < 0 THEN Failed(rd, <<>>)
       ELSE IF Len(rest) < u.v THEN Failed([rd EXCEPT !.data = rest], <<>>)
       ELSE Res([rd EXCEPT !.data = Drop(rest, u.v)], SubSeq(rest, 1, u.v))

\* n consecutive reads of `size` bytes each, collected in order.
RECURSIVE ReadArrays(_, _, _)
ReadArrays(rd, n, size) ==
    IF n = 0 THEN Res(rd, <<>>)
    ELSE LET r1 == ReadFixedByteArray(rd, size)
             r2 == ReadArrays(r1.rd, n - 1, size)
         IN Res(r2.rd, <<r1.v>> \o r2.v)

-----------------------------------------------------------------------------
(* Transaction.Serialize / Deserialize.                                    *)

SerializeTx(t) ==
    t.sender \o t.recipient \o t.signature
      \o PutUvarint(t.subaddr) \o PutUvarint(t.nonce)
      \o PutUvarint(t.amount) \o PutUvarint(t.fee)

\* The fields are read in order; the error is checked once, at the end, and
\* data left after the fee is ignored.
DeserializeTx(data) ==
    LET r1 == ReadFixedByteArray(Reader(data), PubkeySize)
        r2 == ReadFixedByteArray(r1.rd, AddrSize)
        r3 == ReadFixedByteArray(r2.rd, SigSize)
        r4 == ReadUvarint(r3.rd)
        r5 == ReadUvarint(r4.rd)
        r6 == ReadUvarint(r5.rd)
        r7 == ReadUvarint(r6.rd)
    IN [ok |-> ~r7.rd.err,
        tx |-> [sender |-> r1.v, recipient |-> r2.v, signature |-> r3.v,
                subaddr |-> r4.v, nonce |-> r5.v, amount |-> r6.v, fee |-> r7.v]]

-----------------------------------------------------------------------------
(* BlockHeader and Block Serialize / Deserialize.  A block record carries  *)
(* the header's fields and diff, cumDiff and txs (transaction ids).        *)

HashingIDBytes(c) == LEBytes(c.netId, 8) \o c.hash

SerializeHeader(b) ==
    <<b.version>> \o PutUvarint(b.height) \o PutUvarint(b.timestamp)
      \o LEBytes(b.nonce, 4) \o b.nonceExtra \o b.recipient
      \o FlattenSeq(b.ancestors)
      \o PutUvarint(Len(b.otherChains))
      \o FlattenSeq([i \in DOMAIN b.otherChains |-> HashingIDBytes(b.otherChains[i])])
      \o PutUvarint(Len(b.sideBlocks)) \o FlattenSeq(b.sideBlocks)

\* A Uint128 as little-endian bytes with the trailing zero bytes removed.
TrimmedLE(x) ==
    LET bs == LEBytes(x, U128Size)
        nz == {i \in 1..U128Size : bs[i] # 0}
    IN SubSeq(bs, 1, IF nz = {} THEN 0 ELSE Max(nz))

\* Block.Serialize returns nil for a zero difficulty.
SerializeBlock(b) ==
    IF b.diff = 0 THEN <<>>
    ELSE SerializeHeader(b) \o ByteSlice(TrimmedLE(b.diff))
           \o ByteSlice(TrimmedLE(b.cumDiff))
           \o PutUvarint(Len(b.txs)) \o FlattenSeq(b.txs)

\* The header's bound on OtherChains: numChains <= MAX_MERGE_MINED_CHAINS-1.
ChainsBelowLimit(n) == n < MaxMergeMined - 1
ChainsWithinLimit(n) == n <= MaxMergeMined - 1

RECURSIVE ReadChains(_, _)
ReadChains(rd, n) ==
    IF n = 0 THEN Res(rd, <<>>)
    ELSE LET r1 == ReadUint(rd, 8)
             r2 == ReadFixedByteArray(r1.rd, HashSize)
             r3 == ReadChains(r2.rd, n - 1)
         IN Res(r3.rd, <<[netId |-> r1.v, hash |-> r2.v]>> \o r3.v)

\* BlockHeader.Deserialize, in two stages: the fixed part, read up to the
\* first error check, ...
HeaderFixed(data) ==
    LET r1 == ReadUint(Reader(data), 1)
        r2 == ReadUvarint(r1.rd)
        r3 == ReadUvarint(r2.rd)
        r4 == ReadUint(r3.rd, 4)
        r5 == ReadFixedByteArray(r4.rd, NonceExtraSize)
        r6 == ReadFixedByteArray(r5.rd, AddrSize)
        r7 == ReadArrays(r6.rd, NumAncestors, HashSize)
    IN Res(r7.rd, [version |-> r1.v, height |-> r2.v, timestamp |-> r3.v,
                   nonce |-> r4.v, nonceExtra |-> r5.v, recipient |-> r6.v,
                   ancestors |-> r7.v])

\* ... then the counted OtherChains and SideBlocks, each count bounded.  The
\* loops' early returns on an error give the same result as the final
\* check, since a read after an error changes nothing.
HeaderCounted(f) ==
    LET r8 == ReadUvarint(f.rd)
        r9 == ReadChains(r8.rd, r8.v)
        r10 == ReadUvarint(r9.rd)
        r11 == ReadArrays(r10.rd, r10.v, CommitSize)
    IN IF f.rd.err \/ ~ChainsWithinLimit(r8.v) THEN [ok |-> FALSE]
       ELSE IF r10.v > MaxSideBlocks THEN [ok |-> FALSE]
       ELSE [ok |-> ~r11.rd.err, rest |-> r11.rd.data,
             hdr |-> f.v @@ [otherChains |-> r9.v, sideBlocks |-> r11.v]]

DeserializeHeader(data) == HeaderCounted(HeaderFixed(data))

\* copy() of a byte slice into 16 zero bytes: zero-extended, or cut.
Uint128Of(bs) == LEValue([i \in 1..U128Size |-> IF i <= Len(bs) THEN bs[i] ELSE 0])

\* Block.Deserialize: the header, then the difficulties and transactions.
BlockAfterHeader(h) ==
    LET r1 == ReadByteSlice(Reader(h.rest))
        r2 == ReadByteSlice(r1.rd)
        r3 == ReadUvarint(r2.rd)
        r4 == ReadArrays(r3.rd, r3.v, HashSize)
    IN IF ~h.ok THEN [ok |-> FALSE]
       ELSE IF r2.rd.err \/ r3.rd.err \/ r3.v > MaxTxPerBlock THEN [ok |-> FALSE]
       ELSE [ok |-> ~r4.rd.err,
             blk |-> h.hdr @@
                     [diff |-> Uint128Of(r1.v), cumDiff |-> Uint128Of(r2.v), txs |-> r4.v]]

DeserializeBlock(data) == BlockAfterHeader(DeserializeHeader(data))

=============================================================================
