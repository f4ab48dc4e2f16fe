------------------------------ MODULE ChainSpec ------------------------------
(***************************************************************************)
(* What the chain engine promises, with no tips, orphans, TOPO or state:   *)
(* the node stores the blocks it receives, and its head is a block whose   *)
(* whole chain it has stored and is valid.  The head moves only when a     *)
(* block is received, and only to a strictly heavier chain (spec.md 4.6:   *)
(* a tie keeps the current top).                                           *)
(***************************************************************************)
EXTENDS Naturals, FiniteSets

CONSTANTS
    Blocks,     \* block hashes
    Genesis,    \* the genesis block
    Parent,     \* parent of each non-genesis block
    CumDiff,    \* cumulative difficulty of each block
    Valid       \* blocks whose chain passes every consensus check

VARIABLES stored, head
vars == <<stored, head>>

RECURSIVE ChainOf(_)
ChainOf(b) == IF b = Genesis THEN {Genesis} ELSE {b} \cup ChainOf(Parent[b])

\* Heads the node may switch to once it has stored S.
Candidates(S) == {c \in Valid : ChainOf(c) \subseteq S}

Init == stored = {Genesis} /\ head = Genesis

\* A block arrives and is stored; the head stays or moves to a heavier one.
Receive(b) ==
    /\ b \notin stored
    /\ stored' = stored \cup {b}
    /\ head' \in {head} \cup {c \in Candidates(stored') : CumDiff[c] > CumDiff[head]}

Next == \E b \in Blocks \ stored : Receive(b)

Spec == Init /\ [][Next]_vars
=============================================================================
