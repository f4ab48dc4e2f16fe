--------------------------- MODULE MCAccountState ---------------------------
(* Instances of the state engine for TLC: three addresses, the genesis     *)
(* (governance) address among them, BLOCK_REWARD_FEE_PERCENT = 10 as in    *)
(* the network constants, and a reward of 10 per block.                    *)
EXTENDS AccountState

MCReward == [h \in 0..MaxHeight |-> 10]

\* Honest amounts: far below 2^W, so no sum wraps.
MCHonestAmounts == {1, 2}
\* An attacker's amount: Amount + Fee wraps to 0 modulo 2^W.
MCWrapAmounts == {1, 2^W - 1}
=============================================================================
