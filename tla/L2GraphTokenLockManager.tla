---------------------- MODULE L2GraphTokenLockManager ----------------------
(***************************************************************************)
(* The L2 end of the bridge: the L2 managers that receive locked tokens    *)
(* (L2GraphTokenLockManager.sol), the wallets they create for them         *)
(* (L2GraphTokenLockWallet.sol) and the tool that sends tokens back        *)
(* (L2GraphTokenLockTransferTool.sol).  An L2 wallet is its address, which *)
(* holds the data that it was initialized from, and what it stores since.  *)
(***************************************************************************)
EXTENDS L1GraphTokenLockTransferTool

VARIABLES
  masterCopy,          \* of each L2 manager
  l1WalletToL2Wallet,  \* by L2 manager, then by L1 wallet
  l2WalletToL1Wallet,  \* by L2 manager, then by L2 wallet
  l2Wallets            \* the wallets created by the L2 managers

l2Vars == <<masterCopy, l1WalletToL2Wallet, l2WalletToL1Wallet, l2Wallets>>

NoWallets == [a \in {} |-> ZeroAddress]

L2Init ==
  /\ masterCopy = [m \in L2Managers |-> l2Implementation]
  /\ l1WalletToL2Wallet = [m \in L2Managers |-> [w \in L1Wallets |-> ZeroAddress]]
  /\ l2WalletToL1Wallet = [m \in L2Managers |-> NoWallets]
  /\ l2Wallets = NoWallets

SetMasterCopy(m, implementation) ==
  /\ masterCopy' = [masterCopy EXCEPT ![m] = implementation]
  /\ UNCHANGED <<l1WalletToL2Wallet, l2WalletToL1Wallet, l2Wallets>>

-----------------------------------------------------------------------------
(* Mutation: the schedule of the L1 wallet is kept in the message, with    *)
(* its periods and without a later start of the releases.                  *)
L2ScheduleWithPeriods(data) ==
  [managedAmount |-> data.managedAmount,
   startTime |-> data.startTime, endTime |-> data.endTime,
   periods |-> 2, releaseStartTime |-> 0, vestingCliffTime |-> 0,
   revocable |-> "Disabled"]

(* initializeFromL1(): one period, nothing released before its end. *)
L2Schedule(data) ==
  [managedAmount    |-> data.managedAmount,
   startTime        |-> data.startTime,
   endTime          |-> data.endTime,
   periods          |-> 1,
   releaseStartTime |-> data.endTime,
   vestingCliffTime |-> 0,
   revocable        |-> "Disabled"]

(* A Solidity mapping, of which only the entries that were written are     *)
(* kept, after one more write.                                             *)
WithEntry(map, key, value) ==
  [k \in DOMAIN map \cup {key} |-> IF k = key THEN value ELSE map[k]]

NewL2Wallet(m, amount) == [manager |-> m, balance |-> amount, released |-> 0]

(* Mutation: the new wallet is not recorded for its L1 wallet. *)
CreateL2WalletUnrecorded(m, data, amount) ==
  LET address == DeploymentAddress(data, masterCopy[m], m) IN
  /\ CanDeploy(address, DOMAIN l2Wallets)
  /\ l2Wallets' = WithEntry(l2Wallets, address, NewL2Wallet(m, amount))
  /\ l2WalletToL1Wallet' =
       [l2WalletToL1Wallet EXCEPT ![m] = WithEntry(@, address, data.l1Address)]
  /\ UNCHANGED <<masterCopy, l1WalletToL2Wallet>>

CreateL2Wallet(m, data, amount) ==
  LET address == DeploymentAddress(data, masterCopy[m], m) IN
  /\ CanDeploy(address, DOMAIN l2Wallets)
  /\ l2Wallets' = WithEntry(l2Wallets, address, NewL2Wallet(m, amount))
  /\ l1WalletToL2Wallet' =
       [l1WalletToL2Wallet EXCEPT ![m][data.l1Address] = address]
  /\ l2WalletToL1Wallet' =
       [l2WalletToL1Wallet EXCEPT ![m] = WithEntry(@, address, data.l1Address)]
  /\ UNCHANGED masterCopy

(* Mutation: tokens for a wallet that exists already stay with the manager. *)
OnTokenTransferKept(m, data, amount) ==
  IF l1WalletToL2Wallet[m][data.l1Address] # ZeroAddress
  THEN UNCHANGED l2Vars
  ELSE CreateL2Wallet(m, data, amount)

(* onTokenTransfer(), which only the L2 gateway calls, and only for        *)
(* messages that the L1 transfer tool sent.                                *)
OnTokenTransfer(m, data, amount) ==
  LET known == l1WalletToL2Wallet[m][data.l1Address] IN
  IF known # ZeroAddress
  THEN /\ l2Wallets' = [l2Wallets EXCEPT ![known].balance = @ + amount]
       /\ UNCHANGED <<masterCopy, l1WalletToL2Wallet, l2WalletToL1Wallet>>
  ELSE CreateL2Wallet(m, data, amount)

-----------------------------------------------------------------------------
(* The operations of an L2 wallet that move tokens or change its manager,  *)
(* for the caller they accept.  They are those of GraphTokenLockWallet.    *)
L2ReleasableAmount(a, now) ==
  IF ReleaseBlocked(L2Schedule(a.salt), now) THEN 0
  ELSE min(l2Wallets[a].balance,
           AvailableAmount(L2Schedule(a.salt), now) - l2Wallets[a].released)

L2Release(a, now) ==
  LET amount == L2ReleasableAmount(a, now) IN
  /\ amount > 0
  /\ l2Wallets' = [l2Wallets EXCEPT ![a].balance = @ - amount,
                                    ![a].released = @ + amount]
  /\ UNCHANGED <<masterCopy, l1WalletToL2Wallet, l2WalletToL1Wallet>>

(* Mutation: the managed amount of the L1 wallet is not outstanding here. *)
L2OutstandingUnmanaged(a) == 0 - l2Wallets[a].released

L2Outstanding(a) == a.salt.managedAmount - l2Wallets[a].released

L2WithdrawSurplus(a, amount) ==
  /\ amount > 0
  /\ L2Outstanding(a) + amount <= l2Wallets[a].balance
  /\ l2Wallets' = [l2Wallets EXCEPT ![a].balance = @ - amount]
  /\ UNCHANGED <<masterCopy, l1WalletToL2Wallet, l2WalletToL1Wallet>>

L2SetManager(a, m) ==
  /\ l2Wallets' = [l2Wallets EXCEPT ![a].manager = m]
  /\ UNCHANGED <<masterCopy, l1WalletToL2Wallet, l2WalletToL1Wallet>>

(* The L1 wallet that the manager of L2 wallet a has on record for it. *)
L1WalletOf(a) ==
  LET known == l2WalletToL1Wallet[l2Wallets[a].manager] IN
  IF a \in DOMAIN known THEN known[a] ELSE ZeroAddress

(* Mutation: the balance is not compared, as if the gateway did it. *)
WithdrawToL1Unchecked(a, amount) ==
  /\ L1WalletOf(a) # ZeroAddress
  /\ 0 < amount
  /\ l2Wallets' = [l2Wallets EXCEPT ![a].balance = @ - amount]
  /\ UNCHANGED <<masterCopy, l1WalletToL2Wallet, l2WalletToL1Wallet>>

(* withdrawToL1Locked(): the gateway burns the tokens. *)
WithdrawToL1Locked(a, amount) ==
  /\ L1WalletOf(a) # ZeroAddress
  /\ 0 < amount /\ amount <= l2Wallets[a].balance
  /\ l2Wallets' = [l2Wallets EXCEPT ![a].balance = @ - amount]
  /\ UNCHANGED <<masterCopy, l1WalletToL2Wallet, l2WalletToL1Wallet>>

-----------------------------------------------------------------------------
L2TypeOK ==
  /\ masterCopy \in [L2Managers -> Implementations]
  /\ l1WalletToL2Wallet \in
       [L2Managers -> [L1Wallets -> L2WalletAddresses \cup {ZeroAddress}]]
  /\ DOMAIN l2WalletToL1Wallet = L2Managers
  /\ \A m \in L2Managers :
       /\ DOMAIN l2WalletToL1Wallet[m] \subseteq L2WalletAddresses
       /\ \A a \in DOMAIN l2WalletToL1Wallet[m] :
            l2WalletToL1Wallet[m][a] \in L1Wallets
  /\ DOMAIN l2Wallets \subseteq L2WalletAddresses
  /\ \A a \in DOMAIN l2Wallets :
       l2Wallets[a] \in [manager : L2Managers, balance : Nat, released : Nat]
=============================================================================
