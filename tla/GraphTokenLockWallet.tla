----------------------- MODULE GraphTokenLockWallet -----------------------
(***************************************************************************)
(* GraphTokenLockWallet.sol together with what it depends on: the lists of *)
(* the managers it may be attached to, and the protocol contracts that     *)
(* hold the tokens it has staked.  The beneficiary may use locked tokens   *)
(* in the protocol through the fallback function; a revocable wallet       *)
(* tracks them in usedAmount.                                              *)
(***************************************************************************)
EXTENDS GraphTokenLock, ManagerAllowList

CONSTANTS Managers,     \* deployed GraphTokenLockManager contracts
          OutflowSigs,  \* calls that pull tokens from the wallet (stake)
          InflowSigs    \* calls that return tokens (withdraw)

ASSUME SigsAssumption ==
  /\ OutflowSigs \cup InflowSigs \subseteq Sigs
  /\ OutflowSigs \cap InflowSigs = {}
ASSUME ManagersAssumption == Managers \cap (Address \cup {ZeroAddress}) = {}

VARIABLES
  allowList,   \* the lists of each manager
  manager,
  usedAmount,
  approved,    \* spenders with the maximum allowance over the wallet's tokens
  held,        \* tokens of the wallet that the protocol contracts hold
  rewards      \* history: sum of what third parties staked for the wallet

walletVars == <<manager, usedAmount, approved, held, rewards>>

vars == <<lockVars, walletVars, allowList>>

Enabled == schedule.revocable = "Enabled"

-----------------------------------------------------------------------------
(* A wallet is created without an owner; tokens may already have been sent *)
(* to its address.                                                         *)
Init ==
  /\ LockInit
  /\ owner = ZeroAddress
  /\ allowList = [m \in Managers |-> EmptyAllowList]
  /\ manager = ZeroAddress
  /\ usedAmount = 0
  /\ approved = {}
  /\ held = 0
  /\ rewards = 0

(* _setManager(): accounts in Address have no code. *)
IsManagerContract(newManager) ==
  newManager # ZeroAddress /\ newManager \in Managers

WalletInitialize ==
  \E newManager \in Managers \cup AnyAddress,
     newOwner, newBeneficiary \in AnyAddress,
     newSchedule \in Schedules :
    /\ Initialize(newOwner, newBeneficiary, newSchedule)
    /\ IsManagerContract(newManager)
    /\ manager' = newManager
    /\ UNCHANGED <<usedAmount, approved, held, rewards, allowList>>

SetManager(caller, newManager) ==
  /\ OnlyOwner(caller)
  /\ IsManagerContract(newManager)
  /\ manager' = newManager
  /\ UNCHANGED <<lockVars, usedAmount, approved, held, rewards, allowList>>

(* One approve() per destination that the manager lists now; the loop is   *)
(* part of one transaction.                                                *)
ApproveProtocol(caller) ==
  /\ OnlyBeneficiary(caller)
  /\ approved' = approved \cup allowList[manager].tokenDestinations
  /\ UNCHANGED <<lockVars, manager, usedAmount, held, rewards, allowList>>

RevokeProtocol(caller) ==
  /\ OnlyBeneficiary(caller)
  /\ approved' = approved \ allowList[manager].tokenDestinations
  /\ UNCHANGED <<lockVars, manager, usedAmount, held, rewards, allowList>>

(* Mutation: once the cliff has passed the schedule is not consulted. *)
WalletReleasableUnscheduled ==
  IF ReleaseBlocked(schedule, now) THEN 0
  ELSE min(balance, schedule.managedAmount - releasedAmount - usedAmount)

(* releasableAmount() of the wallet; as in the base contract, a reverting  *)
(* subtraction shows as a negative result.                                 *)
WalletReleasableAmount ==
  IF ~Enabled THEN ReleasableAmount
  ELSE IF ReleaseBlocked(schedule, now) THEN 0
  ELSE min(balance, AvailableAmount(schedule, now) - releasedAmount - usedAmount)

WalletRelease(caller) ==
  /\ OnlyBeneficiary(caller)
  /\ ~ReleasableReverts
  /\ Release(caller, WalletReleasableAmount)
  /\ UNCHANGED <<walletVars, allowList>>

-----------------------------------------------------------------------------
(* What one forwarded call does to the token balances, depending on the    *)
(* protocol function it reaches.  The target pulls tokens from the wallet  *)
(* with transferFrom(), which needs an allowance, or sends some of them    *)
(* back, profits included.                                                 *)
ProtocolCall(sig, target) ==
  \/ /\ sig \in OutflowSigs
     /\ target \in approved
     /\ \E amount \in 1 .. balance :
          balance' = balance - amount /\ held' = held + amount
  \/ /\ sig \in InflowSigs
     /\ \E amount \in 1 .. held :
          balance' = balance + amount /\ held' = held - amount
  \/ /\ sig \in Sigs \ (OutflowSigs \cup InflowSigs)
     /\ UNCHANGED <<balance, held>>

(* Mutation: whatever comes back settles all that was used. *)
UsedAmountReset(newBalance) ==
  IF newBalance < balance THEN usedAmount + (balance - newBalance) ELSE 0

(* usedAmount after a call that leaves the wallet with newBalance tokens. *)
UsedAmountAfter(newBalance) ==
  IF newBalance < balance THEN usedAmount + (balance - newBalance)
  ELSE IF newBalance - balance >= usedAmount THEN 0
  ELSE usedAmount - (newBalance - balance)

(* Mutation: the limit is the managed amount instead of the vested one. *)
MayUseManaged(newUsed) == newUsed <= schedule.managedAmount

MayUse(newUsed) ==
  ~VestedReverts(schedule, now) /\ newUsed <= VestedAmount(schedule, now)

(* The fallback function. *)
ForwardCall(caller, sig) ==
  LET target == AuthFunctionCallTarget(allowList[manager], sig) IN
  /\ OnlyBeneficiary(caller)
  /\ target # NoTarget
  /\ ProtocolCall(sig, target)
  /\ IF Enabled
     THEN usedAmount' = UsedAmountAfter(balance') /\ MayUse(usedAmount')
     ELSE UNCHANGED usedAmount
  /\ UNCHANGED <<now, roles, config, status, paid, received, manager, approved,
                 rewards, allowList>>

-----------------------------------------------------------------------------
(* Anybody may stake tokens of their own for the wallet: a profit that the *)
(* wallet's beneficiary can later withdraw into the wallet.                *)
StakeTo(amount) ==
  /\ received + amount <= Supply
  /\ held' = held + amount
  /\ rewards' = rewards + amount
  /\ received' = received + amount
  /\ UNCHANGED <<now, roles, config, status, paid, balance, manager,
                 usedAmount, approved, allowList>>

(* The owner of a manager changes its lists, between any two calls of the  *)
(* wallet's beneficiary.                                                   *)
SetList(m, list) == allowList' = [allowList EXCEPT ![m] = list]

ManagerCall(m) ==
  LET list == allowList[m] IN
  /\ \/ \E sig \in Sigs, target \in ProtocolContracts :
          SetList(m, WithAuthFunctionCall(list, sig, target))
     \/ \E sigs \in SUBSET Sigs :
          \E targets \in [sigs -> ProtocolContracts] :
            SetList(m, WithAuthFunctionCalls(list, targets))
     \/ \E sig \in Sigs : SetList(m, WithoutAuthFunctionCall(list, sig))
     \/ \E dst \in ProtocolContracts :
          /\ CanAddTokenDestination(list, dst)
          /\ SetList(m, WithTokenDestination(list, dst))
     \/ \E dst \in ProtocolContracts :
          /\ CanRemoveTokenDestination(list, dst)
          /\ SetList(m, WithoutTokenDestination(list, dst))
  /\ UNCHANGED <<lockVars, walletVars>>

Next ==
  \/ WalletInitialize
  \/ \E caller \in Address :
       \/ WalletRelease(caller)
       \/ InheritedCall(caller) /\ UNCHANGED <<walletVars, allowList>>
       \/ \E newManager \in Managers \cup AnyAddress :
            SetManager(caller, newManager)
       \/ ApproveProtocol(caller)
       \/ RevokeProtocol(caller)
       \/ \E sig \in Sigs : ForwardCall(caller, sig)
  \/ Environment /\ UNCHANGED <<walletVars, allowList>>
  \/ \E amount \in 1 .. Supply : StakeTo(amount)
  \/ \E m \in Managers : ManagerCall(m)

Spec == Init /\ [][Next]_vars

-----------------------------------------------------------------------------
(* Every variable keeps its type, and an initialized wallet is attached to *)
(* a manager contract.                                                     *)
TypeOK ==
  /\ LockTypeOK
  /\ allowList \in [Managers -> AllowList]
  /\ manager \in Managers \cup {ZeroAddress}
  /\ isInitialized <=> manager \in Managers
  /\ approved \in SUBSET ProtocolContracts
  /\ usedAmount \in Nat
  /\ held \in Nat
  /\ rewards \in Nat

(* Counting what the protocol holds, a funded wallet has what it still     *)
(* owes: neither a surplus withdrawal nor a revocation touches it, however *)
(* the beneficiary moves tokens in and out of the protocol.                *)
WalletOutstandingCovered ==
  Funded => balance + held >= TotalOutstandingAmount

(* Whenever the owner takes tokens out of a funded wallet that was         *)
(* accepted, the tokens left, in the wallet and in the protocol, and those *)
(* released before still cover what is vested.                             *)
WalletVestedKept ==
  [][ isAccepted /\ Funded
        /\ revokedAmount' + cancelled' > revokedAmount + cancelled
      => balance' + held' + releasedAmount'
           >= VestedAmount(schedule, now) ]_vars

(* The beneficiary of a revocable wallet is never using more tokens in the *)
(* protocol than are vested, at any time and not only when the fallback    *)
(* checks it.                                                              *)
UsedWithinVested ==
  isInitialized /\ Enabled /\ Proportioned(schedule)
    => usedAmount <= VestedAmount(schedule, now)

(* usedAmount, computed from balance differences and clipped at zero,      *)
(* stays a sound account of the tokens in the protocol: never more than    *)
(* there are, and short of them by no more than the profits.               *)
UsedTracksHeld ==
  Enabled => usedAmount <= held /\ held <= usedAmount + rewards

Escrow == INSTANCE TokenEscrow WITH
  promised <- schedule.managedAmount, committed <- EscrowCommitted,
  limit <- EscrowLimit, accepted <- isAccepted, terminated <- isRevoked,
  held <- balance + held, received <- received, released <- releasedAmount,
  extra <- withdrawn, cancelled <- cancelled, revoked <- revokedAmount

(* So does the wallet, the tokens in the protocol counted in: staking      *)
(* moves them out of its balance without breaking the promise.             *)
ImplementsEscrow == Escrow!Spec

(***************************************************************************)
(* A statement of the documentation and the tests that the code does not   *)
(* keep, the subject of a run that must find a violation.                  *)
(***************************************************************************)

(* "Cannot use more tokens than vested amount": whatever was released and  *)
(* is used, a wallet that was sent its managed amount still holds the      *)
(* unvested tokens for the owner to revoke.                                *)
UnvestedRevocable ==
  Funded /\ received - rewards >= schedule.managedAmount
      /\ Enabled /\ ~isRevoked /\ Proportioned(schedule)
    => balance >= UnvestedAmount
=============================================================================
