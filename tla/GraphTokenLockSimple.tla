----------------------- MODULE GraphTokenLockSimple -----------------------
(***************************************************************************)
(* GraphTokenLockSimple.sol: a lock that its deployer owns from the        *)
(* constructor on and initializes in a later transaction.                  *)
(***************************************************************************)
EXTENDS GraphTokenLock

(* The constructor: any account may be the deployer. *)
SimpleInit ==
  /\ LockInit
  /\ owner \in Address

SimpleInitialize(caller) ==
  /\ OnlyOwner(caller)
  /\ \E newOwner, newBeneficiary \in AnyAddress, newSchedule \in Schedules :
       Initialize(newOwner, newBeneficiary, newSchedule)

SimpleRelease(caller) ==
  /\ OnlyBeneficiary(caller)
  /\ ~ReleasableReverts
  /\ Release(caller, ReleasableAmount)

SimpleNext ==
  \/ \E caller \in Address :
       \/ SimpleInitialize(caller)
       \/ SimpleRelease(caller)
       \/ InheritedCall(caller)
  \/ Environment

SimpleSpec == SimpleInit /\ [][SimpleNext]_lockVars

(* Time passes, and a beneficiary who can have tokens calls release() in   *)
(* the end.  Nothing else is assumed: nobody has to fund, accept, revoke   *)
(* or withdraw a surplus.                                                  *)
SimpleFairness ==
  /\ WF_lockVars(Tick)
  /\ WF_lockVars(\E caller \in Address : SimpleRelease(caller))

SimpleFairSpec == SimpleSpec /\ SimpleFairness

-----------------------------------------------------------------------------
(* Every variable keeps its type; an initialized lock has a schedule that  *)
(* passed validation and a beneficiary, and no balance is overdrawn.       *)
SimpleTypeOK == LockTypeOK

SimpleEscrow == INSTANCE TokenEscrow WITH
  promised <- schedule.managedAmount, committed <- EscrowCommitted,
  limit <- EscrowLimit, accepted <- isAccepted, terminated <- isRevoked,
  held <- balance, received <- received, released <- releasedAmount,
  extra <- withdrawn, cancelled <- cancelled, revoked <- revokedAmount

(* The lock keeps the promise of TokenEscrow.tla: whatever the order of    *)
(* calls, tokens leave on four ways only, each within its limit, and what  *)
(* the owner can take back is bounded by what is not committed.            *)
SimpleImplementsEscrow == SimpleEscrow!Spec
=============================================================================
