------------------- MODULE L1GraphTokenLockTransferTool -------------------
(***************************************************************************)
(* L1GraphTokenLockTransferTool.sol: the L1 end of the bridge for locked   *)
(* tokens.  Its callers are token lock wallets; what it asks of them is    *)
(* the parameter wallet, a record of their owner, manager, schedule and    *)
(* token balance.  Times and the wallets themselves are TransferBridge.tla.*)
(***************************************************************************)
EXTENDS LockSchedule, MinimalProxyFactory, FiniteSets

CONSTANTS L1Wallets,         \* token lock wallets on L1, all initialized
          L1Managers,        \* GraphTokenLockManager contracts on L1
          L1Owners,          \* accounts that own wallets on L1
          L2Managers,        \* L2GraphTokenLockManager contracts
          L2Accounts,        \* accounts without code that own or benefit on L2
          Implementations,   \* master copies on L2
          l2Implementation,  \* the one the tool was deployed with
          ZeroAddress,
          MaxETH             \* bound on the tool's ETH

(* Who a wallet on L1 may belong to: its owner may have renounced it. *)
WalletOwners == L1Owners \cup {ZeroAddress}

ASSUME L1WalletsAssumption == IsFiniteSet(L1Wallets)
ASSUME L2ImplementationAssumption == l2Implementation \in Implementations
ASSUME MaxETHAssumption == MaxETH \in Nat

(* The message to L2: TransferredWalletData. *)
WalletData == [l1Address     : L1Wallets,
               owner         : L2Accounts,
               beneficiary   : L2Accounts,
               managedAmount : Nat,
               startTime     : Nat,
               endTime       : Nat]

L2WalletAddresses ==
  [salt : WalletData, implementation : Implementations, deployer : L2Managers]

ASSUME AddressesAssumption ==
  /\ ZeroAddress \notin L1Wallets \cup L1Managers \cup L1Owners
                          \cup L2Managers \cup L2Accounts \cup L2WalletAddresses
  /\ L1Wallets \cap L2Accounts = {}
  /\ L2Accounts \cap L2WalletAddresses = {}

VARIABLES
  l2LockManager,
  l2WalletOwner,
  l2WalletAddress,
  l2WalletAddressSetManually,
  l2Beneficiary,
  tokenLockETHBalances,
  ethBalance      \* ETH that the tool holds

configuration == <<l2LockManager, l2WalletOwner>>
addresses     == <<l2WalletAddress, l2WalletAddressSetManually, l2Beneficiary>>
eth           == <<tokenLockETHBalances, ethBalance>>

toolVars == <<configuration, addresses, eth>>

(* A tool that is just deployed. *)
Unconfigured ==
  /\ l2LockManager = [m \in L1Managers |-> ZeroAddress]
  /\ l2WalletOwner = [o \in WalletOwners |-> ZeroAddress]

ToolInit ==
  /\ l2WalletAddress = [w \in L1Wallets |-> ZeroAddress]
  /\ l2WalletAddressSetManually = [w \in L1Wallets |-> FALSE]
  /\ l2Beneficiary = [w \in L1Wallets |-> ZeroAddress]
  /\ tokenLockETHBalances = [w \in L1Wallets |-> 0]
  /\ ethBalance = 0

-----------------------------------------------------------------------------
(* The owner of the tool may set either mapping at any time. *)
SetL2LockManager(l1Manager, l2Manager) ==
  /\ l2LockManager' = [l2LockManager EXCEPT ![l1Manager] = l2Manager]
  /\ UNCHANGED <<l2WalletOwner, addresses, eth>>

SetL2WalletOwner(l1Owner, l2Owner) ==
  /\ l2WalletOwner' = [l2WalletOwner EXCEPT ![l1Owner] = l2Owner]
  /\ UNCHANGED <<l2LockManager, addresses, eth>>

-----------------------------------------------------------------------------
DepositETH(tokenLock, amount) ==
  /\ ethBalance + amount <= MaxETH
  /\ tokenLockETHBalances' =
       [tokenLockETHBalances EXCEPT ![tokenLock] = @ + amount]
  /\ ethBalance' = ethBalance + amount
  /\ UNCHANGED <<configuration, addresses>>

(* Mutation: the account of the token lock is not asked whether it has the *)
(* ETH; the tool has it, from whichever token lock.                        *)
DebitETHUnchecked(tokenLock, amount) ==
  /\ tokenLockETHBalances' =
       [tokenLockETHBalances EXCEPT ![tokenLock] = @ - amount]
  /\ amount <= ethBalance
  /\ ethBalance' = ethBalance - amount

(* ETH leaves the tool on the account of a token lock. *)
DebitETH(tokenLock, amount) ==
  /\ tokenLockETHBalances[tokenLock] >= amount
  /\ tokenLockETHBalances' =
       [tokenLockETHBalances EXCEPT ![tokenLock] = @ - amount]
  /\ amount <= ethBalance
  /\ ethBalance' = ethBalance - amount

(* Called by the token lock, for a destination other than itself. *)
WithdrawETH(tokenLock, amount) ==
  /\ amount > 0
  /\ DebitETH(tokenLock, amount)
  /\ UNCHANGED <<configuration, addresses>>

(* Called by the Staking contract for its own L2 tickets. *)
PullETH(tokenLock, amount) ==
  /\ DebitETH(tokenLock, amount)
  /\ UNCHANGED <<configuration, addresses>>

-----------------------------------------------------------------------------
L2ManagerOf(wallet) == l2LockManager[wallet.manager]

(* The first transfer chooses the L2 beneficiary, an account without code  *)
(* on L1; later ones have to repeat it.                                    *)
BeneficiaryAccepted(w, newBeneficiary) ==
  IF l2Beneficiary[w] = ZeroAddress
  THEN newBeneficiary # ZeroAddress /\ newBeneficiary \notin L1Wallets
  ELSE newBeneficiary = l2Beneficiary[w]

(* Mutation: the managed amount is taken to be what the wallet still holds. *)
EncodedDataOfBalance(w, wallet, newBeneficiary) ==
  [l1Address     |-> w,
   owner         |-> l2WalletOwner[wallet.owner],
   beneficiary   |-> newBeneficiary,
   managedAmount |-> wallet.balance,
   startTime     |-> wallet.schedule.startTime,
   endTime       |-> wallet.schedule.endTime]

EncodedData(w, wallet, newBeneficiary) ==
  [l1Address     |-> w,
   owner         |-> l2WalletOwner[wallet.owner],
   beneficiary   |-> newBeneficiary,
   managedAmount |-> wallet.schedule.managedAmount,
   startTime     |-> wallet.schedule.startTime,
   endTime       |-> wallet.schedule.endTime]

(* Mutation: an address that was set by hand does not prevent a transfer. *)
RecordAddressAnyTime(w, data, wallet, now) ==
  IF l2WalletAddress[w] = ZeroAddress
  THEN /\ wallet.schedule.endTime >= now
       /\ l2WalletAddress' = [l2WalletAddress EXCEPT ![w] =
            DeploymentAddress(data, l2Implementation, L2ManagerOf(wallet))]
  ELSE UNCHANGED l2WalletAddress

(* The first transfer computes and records the address of the L2 wallet. *)
RecordAddress(w, data, wallet, now) ==
  IF l2WalletAddress[w] = ZeroAddress
  THEN /\ wallet.schedule.endTime >= now
       /\ l2WalletAddress' = [l2WalletAddress EXCEPT ![w] =
            DeploymentAddress(data, l2Implementation, L2ManagerOf(wallet))]
  ELSE ~l2WalletAddressSetManually[w] /\ UNCHANGED l2WalletAddress

(* depositToL2Locked() up to the transfer of the tokens and the message,   *)
(* which the L1 gateway takes over.                                        *)
DepositToL2Locked(w, wallet, amount, newBeneficiary, expectedEth, now) ==
  /\ L2ManagerOf(wallet) # ZeroAddress
  /\ wallet.schedule.revocable # "Enabled"
  /\ 0 < amount /\ amount <= wallet.balance
  /\ BeneficiaryAccepted(w, newBeneficiary)
  /\ l2Beneficiary' = [l2Beneficiary EXCEPT ![w] = newBeneficiary]
  /\ DebitETH(w, expectedEth)
  /\ l2WalletOwner[wallet.owner] # ZeroAddress
  /\ RecordAddress(w, EncodedData(w, wallet, newBeneficiary), wallet, now)
  /\ UNCHANGED <<configuration, l2WalletAddressSetManually>>

(* Mutation: an address that was recorded before is replaced. *)
SetL2WalletAddressAgain(w, wallet, l2Wallet, now) ==
  /\ L2ManagerOf(wallet) # ZeroAddress
  /\ wallet.schedule.endTime < now
  /\ l2Wallet # ZeroAddress
  /\ l2WalletAddress' = [l2WalletAddress EXCEPT ![w] = l2Wallet]
  /\ l2WalletAddressSetManually' =
       [l2WalletAddressSetManually EXCEPT ![w] = TRUE]
  /\ UNCHANGED <<configuration, l2Beneficiary, eth>>

SetL2WalletAddressManually(w, wallet, l2Wallet, now) ==
  /\ L2ManagerOf(wallet) # ZeroAddress
  /\ wallet.schedule.endTime < now
  /\ l2WalletAddress[w] = ZeroAddress
  /\ l2Wallet # ZeroAddress
  /\ l2WalletAddress' = [l2WalletAddress EXCEPT ![w] = l2Wallet]
  /\ l2WalletAddressSetManually' =
       [l2WalletAddressSetManually EXCEPT ![w] = TRUE]
  /\ UNCHANGED <<configuration, l2Beneficiary, eth>>

-----------------------------------------------------------------------------
ToolTypeOK ==
  /\ l2LockManager \in [L1Managers -> L2Managers \cup {ZeroAddress}]
  /\ l2WalletOwner \in [WalletOwners -> L2Accounts \cup {ZeroAddress}]
  /\ l2WalletAddress \in
       [L1Wallets -> L2WalletAddresses \cup L2Accounts \cup {ZeroAddress}]
  /\ l2WalletAddressSetManually \in [L1Wallets -> BOOLEAN]
  /\ l2Beneficiary \in [L1Wallets -> L2Accounts \cup {ZeroAddress}]
  /\ tokenLockETHBalances \in [L1Wallets -> Nat]
  /\ ethBalance \in Nat
=============================================================================
