---------------------------- MODULE MCLockTasks ----------------------------
(***************************************************************************)
(* An instance of LockTasks for TLC: the deployer and the beneficiary at a *)
(* terminal each.                                                          *)
(***************************************************************************)
EXTENDS LockTasks

CONSTANTS t1, t2

MCAccountOf == (t1 :> Deployer) @@ (t2 :> Beneficiary)

(* Locks are told apart by nothing but their addresses. *)
LockSymmetry == Permutations(Locks)
=============================================================================
