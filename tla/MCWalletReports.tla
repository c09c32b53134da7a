-------------------------- MODULE MCWalletReports --------------------------
(***************************************************************************)
(* An instance of WalletReports for TLC: more wallets than queries that    *)
(* run at a time, and blocks before and after the one a list reads.        *)
(***************************************************************************)
EXTENDS WalletReports, TLC

ASSUME QueuesUp == Cardinality(Wallets) > RPCConcurrency

ASSUME ChainGoesOn == BLOCK_DRIFT > 0 /\ MaxBlocks > BLOCK_DRIFT + 1

(* Wallets differ in what happens to them only. *)
WalletSymmetry == Permutations(Wallets)
=============================================================================
