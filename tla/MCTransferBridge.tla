------------------------- MODULE MCTransferBridge -------------------------
EXTENDS TransferBridge, MCLock, TLC

CONSTANTS w1, w2

(* Two tokens in two periods of a second each. *)
Short == MakeSchedule(2, 1, 3, 2, 0, 0, "Disabled")

ShortForAll == [w \in L1Wallets |-> Short]

(* Neither the accounts nor the managers on L2 are told apart by anything. *)
Symmetry == Permutations(L2Accounts) \cup Permutations(L2Managers)
=============================================================================
