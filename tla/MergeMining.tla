---------------------------- MODULE MergeMining ----------------------------
(***************************************************************************)
(* Merge mining in src/block/block.go: a block's OtherChains are the peer  *)
(* chains of the MiningBlob a miner solved, filled in by setMiningBlob,    *)
(* and Block.Prevalidate checks them when a block arrives.  A HashingID is *)
(* a record [netId, hash]; a mining blob is the sequence of HashingIDs the *)
(* miner committed to, this network's among them.                          *)
(***************************************************************************)
EXTENDS Integers, Sequences, SequencesExt, FiniteSets

CONSTANTS
    NetworkID,      \* config.NETWORK_ID
    NetIds,         \* network ids of the chains a blob may name
    Hashes,         \* chain hashes
    MaxMergeMined,  \* config.MAX_MERGE_MINED_CHAINS
    MaxBlobLen      \* bound on the length of the mining blobs checked

ASSUME NetworkID \in NetIds /\ NetIds \subseteq Nat \ {0}

HashingIDs == [netId: NetIds, hash: Hashes]

Ok(oc) == [ok |-> TRUE, otherChains |-> oc]
Fail   == [ok |-> FALSE, otherChains |-> <<>>]

\* Mutant: the loop keeps this network's own entry among the other chains.
RECURSIVE SetMiningBlobKeepingOwn(_, _, _, _, _)
SetMiningBlobKeepingOwn(cs, i, oc, contains, last) ==
    IF i > Len(cs) THEN IF contains THEN Ok(oc) ELSE Fail
    ELSE LET v == cs[i] IN
         IF v.netId <= last THEN Fail
         ELSE IF \E j \in DOMAIN oc : oc[j].hash = v.hash \/ oc[j].netId = v.netId
         THEN Fail
         ELSE Ok(Append(oc, v))

\* setMiningBlob's loop over m.Chains from index i: oc is b.OtherChains so
\* far, contains the containsNetworkID flag, last is lastNetworkId, which
\* the code never assigns after its initial 0.  An entry of another chain
\* must have a larger id than last and differ from the chains kept in id
\* and hash; it is appended and the function returns nil at once.  This
\* network's id may appear once; the end of the loop requires it.
RECURSIVE SetMiningBlobFrom(_, _, _, _, _)
SetMiningBlobFrom(cs, i, oc, contains, last) ==
    IF i > Len(cs) THEN IF contains THEN Ok(oc) ELSE Fail
    ELSE LET v == cs[i] IN
         IF v.netId # NetworkID
         THEN IF v.netId <= last THEN Fail
              ELSE IF \E j \in DOMAIN oc : oc[j].hash = v.hash \/ oc[j].netId = v.netId
              THEN Fail
              ELSE Ok(Append(oc, v))
         ELSE IF contains THEN Fail
              ELSE SetMiningBlobFrom(cs, i + 1, oc, TRUE, last)

setMiningBlob(cs) == SetMiningBlobFrom(cs, 1, <<>>, FALSE, 0)

\* Block.Prevalidate's OtherChains check: no entry names this network, and
\* no two entries share an id or a hash.
PrevalidateOtherChains(oc) ==
    \A i \in DOMAIN oc :
        /\ oc[i].netId # NetworkID
        /\ \A i2 \in DOMAIN oc :
              i # i2 => oc[i].hash # oc[i2].hash /\ oc[i].netId # oc[i2].netId

-----------------------------------------------------------------------------
(* The rule spec.md section 3 gives for a block's merge-mining data.       *)

Others(cs) == SelectSeq(cs, LAMBDA c : c.netId # NetworkID)

StrictlySortedById(s) == \A i \in 1..Len(s) - 1 : s[i].netId < s[i + 1].netId

\* A well-formed mining blob: this network's id exactly once, the other
\* chains strictly sorted by id, no two entries with one hash, fewer than
\* MAX_MERGE_MINED_CHAINS other chains.
ValidBlob(cs) ==
    /\ Cardinality({i \in DOMAIN cs : cs[i].netId = NetworkID}) = 1
    /\ StrictlySortedById(Others(cs))
    /\ \A i, j \in DOMAIN cs : i # j => cs[i].hash # cs[j].hash
    /\ Len(Others(cs)) < MaxMergeMined

-----------------------------------------------------------------------------
(* Every bounded mining blob, one per state.                              *)

VARIABLE blob
vars == <<blob>>

Blobs == UNION {[1..n -> HashingIDs] : n \in 0..MaxBlobLen}

Init == blob \in Blobs
Next == UNCHANGED vars
Spec == Init /\ [][Next]_vars

\* spec.md 3 and 5: setMiningBlob accepts exactly the well-formed blobs and
\* sets OtherChains to all of the blob's other chains, in order.
SetMiningBlobMatchesSpec ==
    setMiningBlob(blob) = IF ValidBlob(blob) THEN Ok(Others(blob)) ELSE Fail

=============================================================================
