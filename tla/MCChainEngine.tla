---------------------------- MODULE MCChainEngine ----------------------------
(* Block trees for ChainEngine.  Weights differ so that a shorter branch  *)
(* can be heavier (more side blocks): reorgs then unwind more blocks than  *)
(* they replay, and sibling tips can tie.                                  *)
EXTENDS ChainEngine

\*  G - a1 - a2 - a3          cumulative difficulty 2, 3, 4
\*        |    |- c3          weight 3, cumulative 6
\*        |    \- d3          fails checkBlock
\*        \- b2 - b3          b2: weight 3, cumulative 5, carries a transaction
\*                            b3: cumulative 6, its transaction fails to apply
MCBlocks   == {"G", "a1", "a2", "a3", "b2", "b3", "c3", "d3"}
MCParent   == [b \in MCBlocks \ {"G"} |->
                 CASE b = "a1" -> "G"  [] b = "a2" -> "a1" [] b = "a3" -> "a2"
                   [] b = "b2" -> "a1" [] b = "b3" -> "b2" [] b = "c3" -> "a2"
                   [] b = "d3" -> "a2"]
MCWeight   == [b \in MCBlocks |-> IF b \in {"b2", "c3"} THEN 3 ELSE 1]
MCInvalid  == {"d3"}
MCBadTx    == {"b3"}
MCTxBlocks == {"b2", "b3"}
\* Liveness: no failing block, no transaction, no fork at genesis.
\*  G - a1 - a2 - a3 - a4
\*        \- b2 - b3      b2 weight 2
\*             \- c3      weight 2
LiveBlocks == {"G", "a1", "a2", "a3", "a4", "b2", "b3", "c3"}
LiveParent == [b \in LiveBlocks \ {"G"} |->
                 CASE b = "a1" -> "G"  [] b = "a2" -> "a1" [] b = "a3" -> "a2"
                   [] b = "a4" -> "a3" [] b = "b2" -> "a1" [] b = "b3" -> "b2"
                   [] b = "c3" -> "b2"]
LiveWeight == [b \in LiveBlocks |-> IF b \in {"b2", "c3"} THEN 2 ELSE 1]

\* An alt tip advanced in place keeps its parent's key:
\*  G - m1 - m2
\*        \- x2 - y3      y3 overtakes m2
\*              \- z3     weight 2, extends the stale tip keyed x2
TipBlocks == {"G", "m1", "m2", "x2", "y3", "z3"}
TipParent == [b \in TipBlocks \ {"G"} |->
                CASE b = "m1" -> "G"  [] b = "m2" -> "m1" [] b = "x2" -> "m1"
                  [] b = "y3" -> "x2" [] b = "z3" -> "x2"]
TipWeight == [b \in TipBlocks |-> IF b = "z3" THEN 2 ELSE 1]

\* A valid block whose orphan child fails to apply:
\*  G - a1 - b2 - b3      b3's transaction fails; b3 may arrive first
PoisonBlocks == {"G", "a1", "b2", "b3"}
PoisonParent == [b \in PoisonBlocks \ {"G"} |->
                   CASE b = "a1" -> "G" [] b = "b2" -> "a1" [] b = "b3" -> "b2"]
PoisonWeight == [b \in PoisonBlocks |-> 1]

\* Two branches that fork at genesis:
\*  G - a1 - a2
\*   \- b1               weight 3, heavier than a2
ForkBlocks == {"G", "a1", "a2", "b1"}
ForkParent == [b \in ForkBlocks \ {"G"} |-> IF b = "a2" THEN "a1" ELSE "G"]
ForkWeight == [b \in ForkBlocks |-> IF b = "b1" THEN 3 ELSE 1]
=============================================================================
