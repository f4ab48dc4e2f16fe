----------------------------- MODULE MCWalletCli -----------------------------
(* Lines of up to three symbols over the command words, a wallet name "x", *)
(* the rejected character "/" and the space; one wallet file "x" on disk.  *)
EXTENDS WalletCli

MCWords == {"open", "Open", "create", "restore", "x", "/"}
MCLower == [w \in MCWords |-> IF w = "Open" THEN "open" ELSE w]
MCFiles0 == <<"x">> :> "p1"
=============================================================================
