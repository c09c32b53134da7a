---------------------- MODULE TransferBridgeTheorems ----------------------
(***************************************************************************)
(* Theorems about TransferBridge, for any wallets with any non-revocable   *)
(* schedules, any owners and managers on both chains, and any number of    *)
(* messages in any order.                                                  *)
(***************************************************************************)
EXTENDS TransferBridge, ArithmeticTheorems

(* What goes to L2 with the tokens is the schedule of the wallet. *)
FaithfulData(data) ==
  LET s == ScheduleOf[data.l1Address]
  IN  /\ data.managedAmount = s.managedAmount
      /\ data.startTime = s.startTime
      /\ data.endTime = s.endTime

DataInv ==
  /\ IsFiniteSet(toL2) /\ IsFiniteSet(toL1) /\ IsFiniteSet(DOMAIN l2Wallets)
  /\ \A ticket \in toL2 : FaithfulData(ticket.data)
  /\ \A a \in DOMAIN l2Wallets : FaithfulData(a.salt)

(* The maps of the L2 managers agree with each other and with the wallets  *)
(* that exist.                                                             *)
RecordsInv ==
  /\ \A m \in L2Managers, w \in L1Wallets :
       l1WalletToL2Wallet[m][w] # ZeroAddress
         => /\ l1WalletToL2Wallet[m][w] \in DOMAIN l2Wallets
            /\ l1WalletToL2Wallet[m][w].salt.l1Address = w
  /\ \A a \in DOMAIN l2Wallets :
       l1WalletToL2Wallet[a.deployer][a.salt.l1Address] # ZeroAddress
  /\ \A m \in L2Managers : \A a \in DOMAIN l2WalletToL1Wallet[m] :
       l2WalletToL1Wallet[m][a] = a.salt.l1Address

(* A wallet that has anything on L2 or on the way there, or whose address  *)
(* was set by hand, has an address on record.                              *)
AddressInv ==
  \A w \in L1Wallets :
    /\ TicketsOf(w) # {} \/ L2WalletsOf(w) # {} => l2WalletAddress[w] # ZeroAddress
    /\ l2WalletAddressSetManually[w] => l2WalletAddress[w] # ZeroAddress

(* Each chain alone keeps to the schedule. *)
SchedulesInv ==
  /\ \A w \in L1Wallets :
       Proportioned(ScheduleOf[w]) /\ now < ScheduleOf[w].endTime
         => released[w] <= UnlockedAmount(ScheduleOf[w], now)
  /\ \A a \in DOMAIN l2Wallets :
       /\ now < a.salt.endTime => l2Wallets[a].released = 0
       /\ l2Wallets[a].released <= a.salt.managedAmount

BridgeInv ==
  /\ TypeOK
  /\ DataInv
  /\ RecordsInv
  /\ AddressInv
  /\ ManualExcludesTransfer
  /\ SchedulesInv
  /\ TokensStayWithTheirLock
  /\ SurplusOnlyFromExtra
  /\ ETHKeptApart

-----------------------------------------------------------------------------
(* The columns of the accounts of a lock: what is under way in either      *)
(* direction, and what its L2 wallets hold.                                *)
InTickets(w) == SumFunction(Amounts(TicketsOf(w)))
InReturns(w) == SumFunction(Amounts(ReturnsTo(w)))
OnL2(w)      == SumFunction([a \in L2WalletsOf(w) |-> l2Wallets[a].balance])

Natural(messages) == \A x \in messages : x.amount \in Nat

(* Amounts are added up message by message. *)
LEMMA AmountsAdd ==
  ASSUME NEW S, IsFiniteSet(S), Natural(S), NEW x, x \notin S, x.amount \in Nat
  PROVE  SumFunction(Amounts(S \cup {x})) = SumFunction(Amounts(S)) + x.amount
<1> DEFINE f == Amounts(S)
           h == Amounts(S \cup {x})
<1>1. /\ DOMAIN f = S /\ DOMAIN h = S \cup {x} /\ h[x] = x.amount
      /\ \A y \in S : f[y] \in Int /\ h[y] = f[y]
  BY DEF Amounts, Natural
<1> HIDE DEF f, h
<1>2. SumFunction(h) = SumFunction(f) + h[x]
  BY <1>1, SumAdd
<1> QED
  BY <1>1, <1>2 DEF f, h

(* Taking a message out takes its amount out. *)
LEMMA AmountsRemove ==
  ASSUME NEW S, IsFiniteSet(S), Natural(S), NEW x \in S
  PROVE  SumFunction(Amounts(S)) = SumFunction(Amounts(S \ {x})) + x.amount
<1>1. IsFiniteSet(S \ {x}) /\ Natural(S \ {x}) /\ (S \ {x}) \cup {x} = S
  BY FS_RemoveElement DEF Natural
<1>2. x.amount \in Nat /\ x \notin S \ {x}
  BY DEF Natural
<1> QED
  BY <1>1, <1>2, AmountsAdd

(* The amounts of finitely many messages add up to a natural number. *)
LEMMA AmountsType ==
  ASSUME NEW S, IsFiniteSet(S), Natural(S)
  PROVE  SumFunction(Amounts(S)) \in Nat
<1> DEFINE f == Amounts(S)
<1>1. DOMAIN f = S /\ \A y \in S : f[y] \in Nat
  BY DEF Amounts, Natural
<1> HIDE DEF f
<1>2. SumFunction(f) \in Nat
  BY <1>1, SumNat
<1> QED
  BY <1>2 DEF f

(* The messages of one lock are finitely many, with natural amounts, and   *)
(* so are its wallets.                                                     *)
LEMMA Parts ==
  ASSUME TypeOK, DataInv, NEW w
  PROVE  /\ IsFiniteSet(TicketsOf(w)) /\ Natural(TicketsOf(w))
         /\ IsFiniteSet(ReturnsTo(w)) /\ Natural(ReturnsTo(w))
         /\ IsFiniteSet(L2WalletsOf(w))
         /\ \A a \in L2WalletsOf(w) :
              l2Wallets[a].balance \in Nat /\ l2Wallets[a].released \in Nat
<1>1. /\ TicketsOf(w) \subseteq toL2 /\ ReturnsTo(w) \subseteq toL1
      /\ L2WalletsOf(w) \subseteq DOMAIN l2Wallets
  BY DEF TicketsOf, ReturnsTo, L2WalletsOf
<1>2. /\ IsFiniteSet(TicketsOf(w)) /\ IsFiniteSet(ReturnsTo(w))
      /\ IsFiniteSet(L2WalletsOf(w))
  BY <1>1, FS_Subset DEF DataInv
<1>3. Natural(TicketsOf(w)) /\ Natural(ReturnsTo(w))
  BY <1>1 DEF TypeOK, MessageTypeOK, Natural
<1>4. \A a \in L2WalletsOf(w) :
              l2Wallets[a].balance \in Nat /\ l2Wallets[a].released \in Nat
  BY <1>1 DEF TypeOK, L2TypeOK
<1> QED
  BY <1>2, <1>3, <1>4

(* Every column of the accounts of a lock is a natural number. *)
LEMMA ColumnTypes ==
  ASSUME TypeOK, DataInv, NEW w \in L1Wallets
  PROVE  /\ InTickets(w) \in Nat /\ InReturns(w) \in Nat
         /\ OnL2(w) \in Nat /\ ReleasedOnL2(w) \in Nat
         /\ balance[w] \in Nat /\ released[w] \in Nat
         /\ received[w] \in Nat /\ withdrawn[w] \in Nat
<1>1. InTickets(w) \in Nat /\ InReturns(w) \in Nat
  BY Parts, AmountsType DEF InTickets, InReturns
<1>2. OnL2(w) \in Nat
  <2> DEFINE f == [a \in L2WalletsOf(w) |-> l2Wallets[a].balance]
  <2>1. IsFiniteSet(DOMAIN f) /\ \A a \in DOMAIN f : f[a] \in Nat
    BY Parts
  <2> HIDE DEF f
  <2>2. SumFunction(f) \in Nat
    BY <2>1, SumNat
  <2> QED
    BY <2>2 DEF f, OnL2
<1>3. ReleasedOnL2(w) \in Nat
  <2> DEFINE f == [a \in L2WalletsOf(w) |-> l2Wallets[a].released]
  <2>1. IsFiniteSet(DOMAIN f) /\ \A a \in DOMAIN f : f[a] \in Nat
    BY Parts
  <2> HIDE DEF f
  <2>2. SumFunction(f) \in Nat
    BY <2>1, SumNat
  <2> QED
    BY <2>2 DEF f, ReleasedOnL2
<1> QED
  BY <1>1, <1>2, <1>3 DEF TypeOK, WalletTypeOK

(* A new ticket, a redeemed one, a new withdrawal and an executed one. *)
LEMMA TicketSent ==
  ASSUME TypeOK, DataInv, NEW x, x \notin toL2, x.amount \in Nat,
         toL2' = toL2 \cup {x}, NEW w
  PROVE  InTickets(w)' = InTickets(w) + (IF x.data.l1Address = w THEN x.amount ELSE 0)
<1>1. CASE x.data.l1Address = w
  <2>1. TicketsOf(w)' = TicketsOf(w) \cup {x} /\ x \notin TicketsOf(w)
    BY <1>1 DEF TicketsOf
  <2> QED
    BY <1>1, <2>1, Parts, AmountsAdd DEF InTickets, Amounts
<1>2. CASE x.data.l1Address # w
  <2>1. TicketsOf(w)' = TicketsOf(w)
    BY <1>2 DEF TicketsOf
  <2>2. InTickets(w)' = InTickets(w) /\ InTickets(w) \in Nat
    BY <2>1, Parts, AmountsType DEF InTickets, Amounts
  <2> QED
    BY <1>2, <2>2
<1> QED
  BY <1>1, <1>2

(* A ticket that is redeemed leaves the column of its lock. *)
LEMMA TicketRedeemed ==
  ASSUME TypeOK, DataInv, NEW x \in toL2, toL2' = toL2 \ {x}, NEW w
  PROVE  /\ InTickets(w)' \in Nat
         /\ InTickets(w) = InTickets(w)' + (IF x.data.l1Address = w THEN x.amount ELSE 0)
<1>1. CASE x.data.l1Address = w
  <2>1. TicketsOf(w)' = TicketsOf(w) \ {x} /\ x \in TicketsOf(w)
    BY <1>1 DEF TicketsOf
  <2>2. IsFiniteSet(TicketsOf(w)') /\ Natural(TicketsOf(w)')
    BY <2>1, Parts, FS_RemoveElement DEF Natural
  <2>3. InTickets(w)' = SumFunction(Amounts(TicketsOf(w)'))
    BY DEF InTickets, Amounts
  <2> QED
    BY <1>1, <2>1, <2>2, <2>3, Parts, AmountsRemove, AmountsType DEF InTickets
<1>2. CASE x.data.l1Address # w
  <2>1. TicketsOf(w)' = TicketsOf(w)
    BY <1>2 DEF TicketsOf
  <2>2. InTickets(w)' = InTickets(w) /\ InTickets(w) \in Nat
    BY <2>1, Parts, AmountsType DEF InTickets, Amounts
  <2> QED
    BY <1>2, <2>2
<1> QED
  BY <1>1, <1>2

(* A message home enters the column of the lock that it names. *)
LEMMA ReturnSent ==
  ASSUME TypeOK, DataInv, NEW x, x \notin toL1, x.amount \in Nat,
         toL1' = toL1 \cup {x}, NEW w
  PROVE  InReturns(w)' = InReturns(w) + (IF x.to = w THEN x.amount ELSE 0)
<1>1. CASE x.to = w
  <2>1. ReturnsTo(w)' = ReturnsTo(w) \cup {x} /\ x \notin ReturnsTo(w)
    BY <1>1 DEF ReturnsTo
  <2> QED
    BY <1>1, <2>1, Parts, AmountsAdd DEF InReturns, Amounts
<1>2. CASE x.to # w
  <2>1. ReturnsTo(w)' = ReturnsTo(w)
    BY <1>2 DEF ReturnsTo
  <2>2. InReturns(w)' = InReturns(w) /\ InReturns(w) \in Nat
    BY <2>1, Parts, AmountsType DEF InReturns, Amounts
  <2> QED
    BY <1>2, <2>2
<1> QED
  BY <1>1, <1>2

(* A message home that is executed leaves the column of its lock. *)
LEMMA ReturnExecuted ==
  ASSUME TypeOK, DataInv, NEW x \in toL1, toL1' = toL1 \ {x}, NEW w
  PROVE  /\ InReturns(w)' \in Nat
         /\ InReturns(w) = InReturns(w)' + (IF x.to = w THEN x.amount ELSE 0)
<1>1. CASE x.to = w
  <2>1. ReturnsTo(w)' = ReturnsTo(w) \ {x} /\ x \in ReturnsTo(w)
    BY <1>1 DEF ReturnsTo
  <2>2. IsFiniteSet(ReturnsTo(w)') /\ Natural(ReturnsTo(w)')
    BY <2>1, Parts, FS_RemoveElement DEF Natural
  <2>3. InReturns(w)' = SumFunction(Amounts(ReturnsTo(w)'))
    BY DEF InReturns, Amounts
  <2> QED
    BY <1>1, <2>1, <2>2, <2>3, Parts, AmountsRemove, AmountsType DEF InReturns
<1>2. CASE x.to # w
  <2>1. ReturnsTo(w)' = ReturnsTo(w)
    BY <1>2 DEF ReturnsTo
  <2>2. InReturns(w)' = InReturns(w) /\ InReturns(w) \in Nat
    BY <2>1, Parts, AmountsType DEF InReturns, Amounts
  <2> QED
    BY <1>2, <2>2
<1> QED
  BY <1>1, <1>2

(* A wallet on L2 that changes, or is created, without touching the others. *)
LEMMA L2WalletChanged ==
  ASSUME TypeOK, DataInv, NEW a \in DOMAIN l2Wallets,
         DOMAIN l2Wallets' = DOMAIN l2Wallets,
         l2Wallets'[a].balance \in Nat, l2Wallets'[a].released \in Nat,
         \A b \in DOMAIN l2Wallets \ {a} : l2Wallets'[b] = l2Wallets[b],
         NEW w
  PROVE  /\ OnL2(w)' = OnL2(w) + (IF a.salt.l1Address = w
                                  THEN l2Wallets'[a].balance - l2Wallets[a].balance
                                  ELSE 0)
         /\ ReleasedOnL2(w)' = ReleasedOnL2(w)
                                + (IF a.salt.l1Address = w
                                   THEN l2Wallets'[a].released - l2Wallets[a].released
                                   ELSE 0)
<1> DEFINE b1 == [c \in L2WalletsOf(w) |-> l2Wallets[c].balance]
           b2 == [c \in L2WalletsOf(w) |-> l2Wallets'[c].balance]
           r1 == [c \in L2WalletsOf(w) |-> l2Wallets[c].released]
           r2 == [c \in L2WalletsOf(w) |-> l2Wallets'[c].released]
<1>1. L2WalletsOf(w)' = L2WalletsOf(w) /\ L2WalletsOf(w) \subseteq DOMAIN l2Wallets
  BY DEF L2WalletsOf
<1>2. /\ OnL2(w) = SumFunction(b1) /\ OnL2(w)' = SumFunction(b2)
      /\ ReleasedOnL2(w) = SumFunction(r1) /\ ReleasedOnL2(w)' = SumFunction(r2)
  BY <1>1 DEF OnL2, ReleasedOnL2
<1>3. /\ IsFiniteSet(L2WalletsOf(w))
      /\ \A c \in L2WalletsOf(w) : b1[c] \in Nat /\ r1[c] \in Nat
      /\ \A c \in L2WalletsOf(w) \ {a} : b2[c] = b1[c] /\ r2[c] = r1[c]
  BY <1>1, Parts
<1>4. /\ DOMAIN b1 = L2WalletsOf(w) /\ DOMAIN b2 = L2WalletsOf(w)
      /\ DOMAIN r1 = L2WalletsOf(w) /\ DOMAIN r2 = L2WalletsOf(w)
  OBVIOUS
<1>5. CASE a.salt.l1Address = w
  <2>1. a \in L2WalletsOf(w)
    BY <1>5 DEF L2WalletsOf
  <2>2. /\ b1[a] = l2Wallets[a].balance /\ b2[a] = l2Wallets'[a].balance
        /\ r1[a] = l2Wallets[a].released /\ r2[a] = l2Wallets'[a].released
    BY <2>1
  <2> HIDE DEF b1, b2, r1, r2
  <2>3. /\ SumFunction(b2) = SumFunction(b1) - b1[a] + b2[a]
        /\ SumFunction(r2) = SumFunction(r1) - r1[a] + r2[a]
    BY <1>3, <1>4, <2>1, <2>2, SumUpdate
  <2>4. SumFunction(b1) \in Int /\ SumFunction(r1) \in Int
    BY <1>3, <1>4, SumType
  <2>5. b1[a] \in Nat /\ r1[a] \in Nat
    BY <1>3, <2>1
  <2> QED
    BY <1>2, <1>5, <2>2, <2>3, <2>4, <2>5
<1>6. CASE a.salt.l1Address # w
  <2>1. a \notin L2WalletsOf(w)
    BY <1>6 DEF L2WalletsOf
  <2>2. b2 = b1 /\ r2 = r1
    BY <1>1, <2>1
  <2> HIDE DEF b1, b2, r1, r2
  <2>3. SumFunction(b1) \in Int /\ SumFunction(r1) \in Int
    BY <1>3, <1>4, SumType
  <2> QED
    BY <1>2, <1>6, <2>2, <2>3
<1> QED
  BY <1>5, <1>6

(* A wallet created on L2 brings its first balance, and has released       *)
(* nothing.                                                                *)
LEMMA L2WalletCreated ==
  ASSUME TypeOK, DataInv, NEW a, a \notin DOMAIN l2Wallets,
         DOMAIN l2Wallets' = DOMAIN l2Wallets \cup {a},
         l2Wallets'[a].balance \in Nat, l2Wallets'[a].released = 0,
         \A b \in DOMAIN l2Wallets : l2Wallets'[b] = l2Wallets[b],
         NEW w
  PROVE  /\ OnL2(w)' = OnL2(w) + (IF a.salt.l1Address = w
                                  THEN l2Wallets'[a].balance ELSE 0)
         /\ ReleasedOnL2(w)' = ReleasedOnL2(w)
<1> DEFINE b1 == [c \in L2WalletsOf(w) |-> l2Wallets[c].balance]
           b2 == [c \in L2WalletsOf(w)' |-> l2Wallets'[c].balance]
           r1 == [c \in L2WalletsOf(w) |-> l2Wallets[c].released]
           r2 == [c \in L2WalletsOf(w)' |-> l2Wallets'[c].released]
<1>1. L2WalletsOf(w) \subseteq DOMAIN l2Wallets
  BY DEF L2WalletsOf
<1>2. /\ OnL2(w) = SumFunction(b1) /\ OnL2(w)' = SumFunction(b2)
      /\ ReleasedOnL2(w) = SumFunction(r1) /\ ReleasedOnL2(w)' = SumFunction(r2)
  BY DEF OnL2, ReleasedOnL2
<1>3. /\ IsFiniteSet(L2WalletsOf(w))
      /\ \A c \in L2WalletsOf(w) : b1[c] \in Nat /\ r1[c] \in Nat
  BY Parts
<1>4. /\ DOMAIN b1 = L2WalletsOf(w) /\ DOMAIN b2 = L2WalletsOf(w)'
      /\ DOMAIN r1 = L2WalletsOf(w) /\ DOMAIN r2 = L2WalletsOf(w)'
  OBVIOUS
<1>5. CASE a.salt.l1Address = w
  <2>1. L2WalletsOf(w)' = L2WalletsOf(w) \cup {a} /\ a \notin L2WalletsOf(w)
    BY <1>5 DEF L2WalletsOf
  <2>2. /\ b2[a] = l2Wallets'[a].balance /\ r2[a] = 0
        /\ \A c \in L2WalletsOf(w) : b2[c] = b1[c] /\ r2[c] = r1[c]
    BY <1>1, <2>1
  <2> HIDE DEF b1, b2, r1, r2
  <2>3. /\ SumFunction(b2) = SumFunction(b1) + b2[a]
        /\ SumFunction(r2) = SumFunction(r1) + r2[a]
    BY <1>3, <1>4, <2>1, <2>2, SumAdd
  <2>4. SumFunction(b1) \in Int /\ SumFunction(r1) \in Int
    BY <1>3, <1>4, SumType
  <2> QED
    BY <1>2, <1>5, <2>2, <2>3, <2>4
<1>6. CASE a.salt.l1Address # w
  <2>1. L2WalletsOf(w)' = L2WalletsOf(w)
    BY <1>6 DEF L2WalletsOf
  <2>2. b2 = b1 /\ r2 = r1
    BY <1>1, <2>1
  <2> HIDE DEF b1, b2, r1, r2
  <2>3. SumFunction(b1) \in Int /\ SumFunction(r1) \in Int
    BY <1>3, <1>4, SumType
  <2> QED
    BY <1>2, <1>6, <2>2, <2>3
<1> QED
  BY <1>5, <1>6

(* Columns whose messages or wallets are left alone. *)
LEMMA SameColumns ==
  ASSUME NEW w
  PROVE  /\ UNCHANGED toL2 => InTickets(w)' = InTickets(w)
         /\ UNCHANGED toL1 => InReturns(w)' = InReturns(w)
         /\ UNCHANGED l2Wallets => /\ OnL2(w)' = OnL2(w)
                                   /\ ReleasedOnL2(w)' = ReleasedOnL2(w)
  BY DEF InTickets, InReturns, OnL2, ReleasedOnL2, Amounts, TicketsOf, ReturnsTo,
         L2WalletsOf

-----------------------------------------------------------------------------
(* The initial states, with any configuration. *)
LEMMA InitBridgeInv ==
  ASSUME BridgeInit,
         l2LockManager \in [L1Managers -> L2Managers \cup {ZeroAddress}],
         l2WalletOwner \in [WalletOwners -> L2Accounts \cup {ZeroAddress}]
  PROVE  BridgeInv
<1> USE DEF BridgeInit, ToolInit, L2Init
<1>1. DOMAIN l2Wallets = {} /\ \A m \in L2Managers : DOMAIN l2WalletToL1Wallet[m] = {}
  BY DEF NoWallets
<1>2. TypeOK
  <2>1. ToolTypeOK
    BY DEF ToolTypeOK
  <2>2. L2TypeOK
    BY <1>1, L2ImplementationAssumption DEF L2TypeOK
  <2>3. WalletTypeOK /\ MessageTypeOK /\ now \in Nat
    BY DEF WalletTypeOK, MessageTypeOK, WalletOwners
  <2> QED
    BY <2>1, <2>2, <2>3 DEF TypeOK
<1>3. DataInv
  BY <1>1, FS_EmptySet DEF DataInv
<1>4. RecordsInv
  BY <1>1 DEF RecordsInv
<1>5. \A w \in L1Wallets : TicketsOf(w) = {} /\ ReturnsTo(w) = {} /\ L2WalletsOf(w) = {}
  BY <1>1 DEF TicketsOf, ReturnsTo, L2WalletsOf
<1>6. AddressInv /\ ManualExcludesTransfer
  BY <1>5 DEF AddressInv, ManualExcludesTransfer
<1>7. SchedulesInv
  <2>1. ASSUME NEW w \in L1Wallets, Proportioned(ScheduleOf[w])
        PROVE  0 <= UnlockedAmount(ScheduleOf[w], 0)
    BY <2>1, ScheduleAssumption, UnlockedMonotone
  <2> QED
    BY <1>1, <2>1 DEF SchedulesInv
<1>8. TokensStayWithTheirLock
  <2> SUFFICES ASSUME NEW w \in L1Wallets
               PROVE HeldFor(w) + released[w] + ReleasedOnL2(w) + withdrawn[w] = received[w]
    BY DEF TokensStayWithTheirLock
  <2>1. DOMAIN Amounts(TicketsOf(w)) = {} /\ DOMAIN Amounts(ReturnsTo(w)) = {}
    BY <1>5 DEF Amounts
  <2>2. /\ SumFunction(Amounts(TicketsOf(w))) = 0 /\ SumFunction(Amounts(ReturnsTo(w))) = 0
        /\ SumFunction([a \in L2WalletsOf(w) |-> l2Wallets[a].balance]) = 0
        /\ SumFunction([a \in L2WalletsOf(w) |-> l2Wallets[a].released]) = 0
    BY <1>5, <2>1, SumEmpty
  <2> QED
    BY <2>2 DEF HeldFor, ReleasedOnL2
<1>9. SurplusOnlyFromExtra
  BY DEF SurplusOnlyFromExtra
<1>10. ETHKeptApart
  BY L1WalletsAssumption, SumOfZeros DEF ETHKeptApart
<1> QED
  BY <1>2, <1>3, <1>4, <1>6, <1>7, <1>8, <1>9, <1>10 DEF BridgeInv

-----------------------------------------------------------------------------
(* The steps.  What the tokens of a lock are worth in all its columns.     *)
Column(w) ==
  balance[w] + InTickets(w) + OnL2(w) + InReturns(w) + released[w]
    + ReleasedOnL2(w) + withdrawn[w]

(* The conservation of tokens, column by column, now and in the next state. *)
LEMMA Columns == TokensStayWithTheirLock <=> \A w \in L1Wallets : Column(w) = received[w]
  BY DEF TokensStayWithTheirLock, Column, HeldFor, InTickets, OnL2, InReturns

LEMMA ColumnsNext ==
  TokensStayWithTheirLock' <=> \A w \in L1Wallets : Column(w)' = received[w]'
  BY DEF TokensStayWithTheirLock, Column, HeldFor, InTickets, OnL2, InReturns

(* A step that leaves the configuration's consequences on L2 alone. *)
LEMMA SameL2 ==
  ASSUME BridgeInv, UNCHANGED l2Vars
  PROVE  L2TypeOK' /\ RecordsInv'
  BY DEF BridgeInv, TypeOK, L2TypeOK, RecordsInv, l2Vars

(* A step that leaves the storage of the transfer tool alone. *)
LEMMA SameTool ==
  ASSUME BridgeInv, UNCHANGED toolVars, UNCHANGED netETH
  PROVE  ToolTypeOK' /\ ETHKeptApart'
  BY DEF BridgeInv, TypeOK, ToolTypeOK, ETHKeptApart, toolVars, configuration, addresses, eth

(* A step that leaves the messages alone. *)
LEMMA SameMessages ==
  ASSUME BridgeInv, UNCHANGED messageVars
  PROVE  MessageTypeOK'
  BY DEF BridgeInv, TypeOK, MessageTypeOK, messageVars

(* A step that leaves alone who is named by messages and L2 wallets. *)
LEMMA SameData ==
  ASSUME BridgeInv, UNCHANGED <<toL2, toL1>>, DOMAIN l2Wallets' = DOMAIN l2Wallets
  PROVE  DataInv'
  BY DEF BridgeInv, DataInv, FaithfulData

(* A step that adds no ticket and no L2 wallet, and records no address. *)
LEMMA SameAddresses ==
  ASSUME BridgeInv, UNCHANGED addresses,
         toL2' \subseteq toL2, DOMAIN l2Wallets' = DOMAIN l2Wallets
  PROVE  AddressInv' /\ ManualExcludesTransfer'
<1>1. \A w : TicketsOf(w)' \subseteq TicketsOf(w) /\ L2WalletsOf(w)' = L2WalletsOf(w)
  BY DEF TicketsOf, L2WalletsOf
<1> QED
  BY <1>1 DEF BridgeInv, AddressInv, ManualExcludesTransfer, addresses

(* A step that releases nothing. *)
LEMMA SameSchedules ==
  ASSUME BridgeInv, UNCHANGED <<now, released>>, DOMAIN l2Wallets' = DOMAIN l2Wallets,
         \A a \in DOMAIN l2Wallets : l2Wallets'[a].released = l2Wallets[a].released
  PROVE  SchedulesInv'
  BY DEF BridgeInv, SchedulesInv

(* A step that moves no token. *)
LEMMA SameAccounts ==
  ASSUME BridgeInv, UNCHANGED <<balance, released, received, withdrawn, toL2, toL1>>,
         \A w \in L1Wallets : /\ OnL2(w)' = OnL2(w)
                              /\ ReleasedOnL2(w)' = ReleasedOnL2(w)
  PROVE  TokensStayWithTheirLock' /\ SurplusOnlyFromExtra'
<1>1. \A w \in L1Wallets : Column(w)' = Column(w)
  BY SameColumns DEF Column
<1>2. TokensStayWithTheirLock'
  BY <1>1, Columns, ColumnsNext DEF BridgeInv
<1> QED
  BY <1>2 DEF BridgeInv, SurplusOnlyFromExtra

(* Tokens sent to a lock on L1. *)
LEMMA FundInv ==
  ASSUME BridgeInv, NEW w \in L1Wallets, NEW amount \in 1 .. Supply, Fund(w, amount)
  PROVE  BridgeInv'
<1>1. /\ UNCHANGED <<toolVars, l2Vars, messageVars, owner, manager, released,
                     withdrawn, netETH, now>>
      /\ balance' = [balance EXCEPT ![w] = @ + amount]
      /\ received' = [received EXCEPT ![w] = @ + amount]
  BY DEF Fund
<1>2. amount \in Nat
  BY BridgeBoundsAssumption
<1>3. UNCHANGED l2Wallets /\ UNCHANGED <<toL2, toL1>> /\ UNCHANGED addresses
  BY <1>1 DEF l2Vars, messageVars, toolVars
<1>4. WalletTypeOK'
  BY <1>1, <1>2 DEF BridgeInv, TypeOK, WalletTypeOK
<1>5. TypeOK'
  BY <1>1, <1>4, SameTool, SameL2, SameMessages DEF BridgeInv, TypeOK
<1>6. TokensStayWithTheirLock'
  <2>1. ASSUME NEW v \in L1Wallets PROVE Column(v)' = received[v]'
    <3>1. /\ InTickets(v)' = InTickets(v) /\ InReturns(v)' = InReturns(v)
          /\ OnL2(v)' = OnL2(v) /\ ReleasedOnL2(v)' = ReleasedOnL2(v)
      BY <1>3, SameColumns
    <3>2. Column(v) = received[v]
      BY Columns DEF BridgeInv
    <3>3. balance \in [L1Wallets -> Nat] /\ received \in [L1Wallets -> Nat]
      BY DEF BridgeInv, TypeOK, WalletTypeOK
    <3>4. /\ balance'[v] = balance[v] + (IF v = w THEN amount ELSE 0)
          /\ received'[v] = received[v] + (IF v = w THEN amount ELSE 0)
      BY <1>1, <1>2, <3>3
    <3> QED
      BY <1>1, <1>2, <3>1, <3>2, <3>4, ColumnTypes DEF BridgeInv, Column
  <2> QED
    BY <2>1, ColumnsNext
<1>7. SurplusOnlyFromExtra'
  <2> SUFFICES ASSUME NEW v \in L1Wallets, withdrawn'[v] > 0
               PROVE  withdrawn'[v] + ScheduleOf[v].managedAmount <= received'[v]
    BY DEF SurplusOnlyFromExtra
  <2>1. received[v] \in Nat /\ received'[v] \in Nat /\ received[v] <= received'[v]
    BY <1>1, <1>2 DEF BridgeInv, TypeOK, WalletTypeOK
  <2>2. withdrawn'[v] = withdrawn[v] /\ withdrawn[v] \in Nat
    BY <1>1 DEF BridgeInv, TypeOK, WalletTypeOK
  <2>3. ScheduleOf[v].managedAmount \in Nat
    BY ScheduleAssumption DEF Schedule
  <2>4. withdrawn[v] + ScheduleOf[v].managedAmount <= received[v]
    BY <2>2 DEF BridgeInv, SurplusOnlyFromExtra
  <2> QED
    BY <2>1, <2>2, <2>3, <2>4
<1> QED
  BY <1>1, <1>3, <1>5, <1>6, <1>7, SameL2, SameTool, SameData, SameAddresses,
     SameSchedules DEF BridgeInv

(* What the assumption on the schedules of L1 says of one lock. *)
LEMMA Schedules ==
  ASSUME NEW w \in L1Wallets
  PROVE  /\ ScheduleOf[w] \in Schedule /\ ValidSchedule(ScheduleOf[w])
         /\ ScheduleOf[w].managedAmount \in Nat
         /\ ScheduleOf[w].startTime \in Nat /\ ScheduleOf[w].endTime \in Nat
  BY ScheduleAssumption DEF Schedule

(* The types of the accounts on L1. *)
LEMMA L1Types ==
  ASSUME BridgeInv
  PROVE  /\ balance \in [L1Wallets -> Nat] /\ released \in [L1Wallets -> Nat]
         /\ received \in [L1Wallets -> Nat] /\ withdrawn \in [L1Wallets -> Nat]
         /\ now \in Nat
  BY DEF BridgeInv, TypeOK, WalletTypeOK

(* release() on L1 pays what is left of the unlocked amount. *)
LEMMA L1ReleasableBounds ==
  ASSUME BridgeInv, NEW w \in L1Wallets,
         ~AvailableReverts(ScheduleOf[w], now), L1Releasable(w) > 0
  PROVE  /\ L1Releasable(w) \in Nat /\ L1Releasable(w) <= balance[w]
         /\ released[w] + L1Releasable(w) <= UnlockedAmount(ScheduleOf[w], now)
<1> DEFINE available == AvailableAmount(ScheduleOf[w], now)
<1>1. ~ReleaseBlocked(ScheduleOf[w], now)
  BY DEF L1Releasable
<1>2. available \in Nat
  BY L1Types, Schedules, AvailableType
<1>3. UnlockedAmount(ScheduleOf[w], now) = available
  BY <1>1 DEF UnlockedAmount
<1>4. balance[w] \in Nat /\ released[w] \in Nat
  BY L1Types
<1>5. L1Releasable(w) = min(balance[w], available - released[w])
  BY <1>1 DEF L1Releasable
<1> HIDE DEF available
<1> QED
  BY <1>2, <1>3, <1>4, <1>5 DEF min

(* release() on an L1 wallet. *)
LEMMA L1ReleaseInv ==
  ASSUME BridgeInv, NEW w \in L1Wallets, L1Release(w)
  PROVE  BridgeInv'
<1> DEFINE amount == L1Releasable(w)
<1>1. /\ UNCHANGED <<toolVars, l2Vars, messageVars, owner, manager, history, now>>
      /\ balance' = [balance EXCEPT ![w] = @ - amount]
      /\ released' = [released EXCEPT ![w] = @ + amount]
  BY DEF L1Release
<1>2. /\ amount \in Nat /\ amount <= balance[w]
      /\ released[w] + amount <= UnlockedAmount(ScheduleOf[w], now)
  BY L1ReleasableBounds DEF L1Release
<1> HIDE DEF amount
<1>3. /\ UNCHANGED l2Wallets /\ UNCHANGED <<toL2, toL1>> /\ UNCHANGED addresses
      /\ UNCHANGED <<received, withdrawn>>
      /\ UNCHANGED netETH
  BY <1>1 DEF l2Vars, messageVars, toolVars, history
<1>4. /\ \A v \in L1Wallets : /\ balance'[v] = balance[v] - (IF v = w THEN amount ELSE 0)
                              /\ released'[v] = released[v] + (IF v = w THEN amount ELSE 0)
  BY <1>1, <1>2, L1Types
<1>5. WalletTypeOK'
  <2>1. balance[w] - amount \in Nat /\ released[w] + amount \in Nat
    BY <1>2, L1Types
  <2> QED
    BY <1>1, <1>3, <2>1 DEF BridgeInv, TypeOK, WalletTypeOK
<1>6. TypeOK'
  BY <1>1, <1>3, <1>5, SameTool, SameL2, SameMessages DEF BridgeInv, TypeOK
<1>7. SchedulesInv'
  <2>1. ASSUME NEW v \in L1Wallets, Proportioned(ScheduleOf[v]), now < ScheduleOf[v].endTime
        PROVE  released'[v] <= UnlockedAmount(ScheduleOf[v], now)
    <3>1. CASE v = w
      BY <1>2, <1>4, <3>1
    <3>2. CASE v # w
      BY <1>4, <2>1, <3>2, L1Types DEF BridgeInv, SchedulesInv
    <3> QED
      BY <3>1, <3>2
  <2> QED
    BY <1>1, <1>3, <2>1 DEF BridgeInv, SchedulesInv
<1>8. TokensStayWithTheirLock'
  <2>1. ASSUME NEW v \in L1Wallets PROVE Column(v)' = received[v]'
    <3>1. /\ InTickets(v)' = InTickets(v) /\ InReturns(v)' = InReturns(v)
          /\ OnL2(v)' = OnL2(v) /\ ReleasedOnL2(v)' = ReleasedOnL2(v)
      BY <1>3, SameColumns
    <3>2. Column(v) = received[v]
      BY Columns DEF BridgeInv
    <3> QED
      BY <1>2, <1>3, <1>4, <3>1, <3>2, ColumnTypes DEF BridgeInv, Column
  <2> QED
    BY <2>1, ColumnsNext
<1>9. SurplusOnlyFromExtra'
  BY <1>3 DEF BridgeInv, SurplusOnlyFromExtra
<1> QED
  BY <1>1, <1>3, <1>6, <1>7, <1>8, <1>9, SameL2, SameTool, SameData, SameAddresses
  DEF BridgeInv

(* What withdrawSurplus() leaves in the wallet covers what is managed. *)
LEMMA L1WithdrawSurplusInv ==
  ASSUME BridgeInv, NEW w \in L1Wallets, NEW amount \in 1 .. Supply,
         L1WithdrawSurplus(w, amount)
  PROVE  BridgeInv'
<1>1. /\ UNCHANGED <<toolVars, l2Vars, messageVars, owner, manager, released,
                     received, netETH, now>>
      /\ balance' = [balance EXCEPT ![w] = @ - amount]
      /\ withdrawn' = [withdrawn EXCEPT ![w] = @ + amount]
  BY DEF L1WithdrawSurplus
<1>2. /\ amount \in Nat
      /\ 0 <= ScheduleOf[w].managedAmount - released[w]
      /\ ScheduleOf[w].managedAmount - released[w] + amount <= balance[w]
  BY BridgeBoundsAssumption DEF L1WithdrawSurplus, L1Outstanding
<1>3. UNCHANGED l2Wallets /\ UNCHANGED <<toL2, toL1>> /\ UNCHANGED addresses
  BY <1>1 DEF l2Vars, messageVars, toolVars
<1>4. /\ \A v \in L1Wallets : /\ balance'[v] = balance[v] - (IF v = w THEN amount ELSE 0)
                              /\ withdrawn'[v] = withdrawn[v] + (IF v = w THEN amount ELSE 0)
  BY <1>1, <1>2, L1Types
<1>5. WalletTypeOK'
  <2>1. balance[w] - amount \in Nat /\ withdrawn[w] + amount \in Nat
    BY <1>2, L1Types, Schedules
  <2> QED
    BY <1>1, <2>1 DEF BridgeInv, TypeOK, WalletTypeOK
<1>6. TypeOK'
  BY <1>1, <1>5, SameTool, SameL2, SameMessages DEF BridgeInv, TypeOK
<1>7. ASSUME NEW v \in L1Wallets
      PROVE  /\ Column(v)' = received[v]'
             /\ withdrawn'[v] > 0
                  => withdrawn'[v] + ScheduleOf[v].managedAmount <= received'[v]
  <2>1. /\ InTickets(v)' = InTickets(v) /\ InReturns(v)' = InReturns(v)
        /\ OnL2(v)' = OnL2(v) /\ ReleasedOnL2(v)' = ReleasedOnL2(v)
    BY <1>3, SameColumns
  <2>2. Column(v) = received[v]
    BY Columns DEF BridgeInv
  <2>3. Column(v)' = received[v]'
    BY <1>1, <1>2, <1>4, <2>1, <2>2, ColumnTypes DEF BridgeInv, Column
  <2>4. CASE v # w
    <3>1. withdrawn'[v] = withdrawn[v] /\ received'[v] = received[v]
      BY <1>1, <1>4, <2>4, L1Types
    <3> QED
      BY <2>3, <3>1 DEF BridgeInv, SurplusOnlyFromExtra
  <2>5. CASE v = w
    <3>1. /\ received'[v] = received[v] /\ withdrawn'[v] = withdrawn[v] + amount
          /\ ScheduleOf[v].managedAmount - released[v] + amount <= balance[v]
      BY <1>1, <1>2, <1>4, <2>5
    <3>2. balance[v] + released[v] + withdrawn[v] <= received[v]
      BY <2>2, ColumnTypes DEF BridgeInv, Column
    <3> QED
      BY <1>2, <2>3, <3>1, <3>2, L1Types, Schedules
  <2> QED
    BY <2>3, <2>4, <2>5
<1>8. TokensStayWithTheirLock' /\ SurplusOnlyFromExtra'
  BY <1>7, ColumnsNext DEF SurplusOnlyFromExtra
<1> QED
  BY <1>1, <1>3, <1>6, <1>8, SameL2, SameTool, SameData, SameAddresses, SameSchedules
  DEF BridgeInv

(* Time only unlocks. *)
LEMMA TickInv ==
  ASSUME BridgeInv, Tick
  PROVE  BridgeInv'
<1>1. UNCHANGED <<toolVars, l2Vars, walletVars, messageVars, history>> /\ now' = now + 1
  BY DEF Tick
<1>2. /\ UNCHANGED l2Wallets /\ UNCHANGED <<toL2, toL1>> /\ UNCHANGED addresses
      /\ UNCHANGED <<owner, manager, balance, released, received, withdrawn>>
      /\ UNCHANGED netETH
  BY <1>1 DEF l2Vars, messageVars, toolVars, history, walletVars
<1>3. now \in Nat /\ now' \in Nat
  BY <1>1, L1Types
<1>4. TypeOK'
  BY <1>1, <1>2, <1>3, SameTool, SameL2, SameMessages DEF BridgeInv, TypeOK, WalletTypeOK
<1>5. SchedulesInv'
  <2>1. ASSUME NEW w \in L1Wallets, Proportioned(ScheduleOf[w]), now' < ScheduleOf[w].endTime
        PROVE  released'[w] <= UnlockedAmount(ScheduleOf[w], now')
    <3>1. now < ScheduleOf[w].endTime
      BY <1>1, <1>3, <2>1, Schedules
    <3>2. released[w] <= UnlockedAmount(ScheduleOf[w], now)
      BY <2>1, <3>1 DEF BridgeInv, SchedulesInv
    <3>3. /\ UnlockedAmount(ScheduleOf[w], now) \in Nat
          /\ UnlockedAmount(ScheduleOf[w], now') \in Nat
          /\ UnlockedAmount(ScheduleOf[w], now) <= UnlockedAmount(ScheduleOf[w], now')
      BY <1>1, <1>3, <2>1, Schedules, UnlockedMonotone
    <3> QED
      BY <1>2, <3>2, <3>3, L1Types
  <2>2. ASSUME NEW a \in DOMAIN l2Wallets, now' < a.salt.endTime
        PROVE  l2Wallets[a].released = 0
    <3>1. a.salt.endTime \in Nat
      BY DEF BridgeInv, TypeOK, L2TypeOK, L2WalletAddresses, WalletData
    <3> QED
      BY <1>1, <1>3, <2>2, <3>1 DEF BridgeInv, SchedulesInv
  <2> QED
    BY <1>2, <2>1, <2>2 DEF BridgeInv, SchedulesInv
<1>6. TokensStayWithTheirLock' /\ SurplusOnlyFromExtra'
  BY <1>2, SameAccounts, SameColumns
<1> QED
  BY <1>1, <1>2, <1>4, <1>5, <1>6, SameL2, SameTool, SameData, SameAddresses DEF BridgeInv

(* Owners and managers are configuration: nothing that the invariant says  *)
(* depends on who they are.                                                *)
LEMMA WalletReconfigurationInv ==
  ASSUME BridgeInv, WalletReconfiguration
  PROVE  BridgeInv'
<1>1. CASE \E w \in L1Wallets :
             \/ \E newOwner \in WalletOwners : L1TransferOwnership(w, newOwner)
             \/ \E newManager \in L1Managers : L1SetManager(w, newManager)
  <2>1. /\ UNCHANGED <<toolVars, l2Vars, messageVars, history, balance, released, now>>
        /\ owner' \in [L1Wallets -> WalletOwners]
        /\ manager' \in [L1Wallets -> L1Managers]
    BY <1>1 DEF L1TransferOwnership, L1SetManager, BridgeInv, TypeOK, WalletTypeOK
  <2>2. /\ UNCHANGED l2Wallets /\ UNCHANGED <<toL2, toL1>> /\ UNCHANGED addresses
        /\ UNCHANGED <<received, withdrawn>>
        /\ UNCHANGED netETH
    BY <2>1 DEF l2Vars, messageVars, toolVars, history
  <2>3. TypeOK'
    BY <2>1, <2>2, SameTool, SameL2, SameMessages DEF BridgeInv, TypeOK, WalletTypeOK
  <2>4. TokensStayWithTheirLock' /\ SurplusOnlyFromExtra'
    BY <2>1, <2>2, SameAccounts, SameColumns
  <2> QED
    BY <2>1, <2>2, <2>3, <2>4, SameL2, SameTool, SameData, SameAddresses, SameSchedules
    DEF BridgeInv
<1>2. CASE /\ \E a \in DOMAIN l2Wallets, m \in L2Managers : L2SetManager(a, m)
           /\ UNCHANGED <<toolVars, walletVars, messageVars, history, now>>
  <2>1. PICK a \in DOMAIN l2Wallets, m \in L2Managers : L2SetManager(a, m)
    BY <1>2
  <2>2. /\ UNCHANGED <<toL2, toL1>> /\ UNCHANGED addresses /\ UNCHANGED now
        /\ UNCHANGED <<owner, manager, balance, released, received, withdrawn>>
        /\ UNCHANGED netETH
    BY <1>2 DEF messageVars, toolVars, history, walletVars
  <2>3. /\ l2Wallets' = [l2Wallets EXCEPT ![a].manager = m]
        /\ UNCHANGED <<masterCopy, l1WalletToL2Wallet, l2WalletToL1Wallet>>
    BY <2>1 DEF L2SetManager
  <2>4. /\ DOMAIN l2Wallets' = DOMAIN l2Wallets
        /\ \A b \in DOMAIN l2Wallets :
             /\ l2Wallets'[b] \in [manager : L2Managers, balance : Nat, released : Nat]
             /\ l2Wallets'[b].balance = l2Wallets[b].balance
             /\ l2Wallets'[b].released = l2Wallets[b].released
             /\ b # a => l2Wallets'[b] = l2Wallets[b]
    BY <2>3 DEF BridgeInv, TypeOK, L2TypeOK
  <2>5. L2TypeOK' /\ RecordsInv'
    BY <2>3, <2>4 DEF BridgeInv, TypeOK, L2TypeOK, RecordsInv
  <2>6. TypeOK'
    BY <1>2, <2>2, <2>5, SameTool, SameMessages DEF BridgeInv, TypeOK, WalletTypeOK
  <2>7. \A w \in L1Wallets : OnL2(w)' = OnL2(w) /\ ReleasedOnL2(w)' = ReleasedOnL2(w)
    BY <2>4 DEF OnL2, ReleasedOnL2, L2WalletsOf
  <2>8. TokensStayWithTheirLock' /\ SurplusOnlyFromExtra'
    BY <2>2, <2>7, SameAccounts
  <2> QED
    BY <1>2, <2>2, <2>4, <2>5, <2>6, <2>8, SameTool, SameData, SameAddresses, SameSchedules
    DEF BridgeInv
<1> QED
  BY <1>1, <1>2 DEF WalletReconfiguration

(* What the owner of the tool and of the L2 manager changes. *)
LEMMA BridgeReconfigurationInv ==
  ASSUME BridgeInv, BridgeReconfiguration
  PROVE  BridgeInv'
<1>1. /\ UNCHANGED <<walletVars, messageVars, history, now>>
      /\ UNCHANGED <<addresses, eth, l1WalletToL2Wallet, l2WalletToL1Wallet, l2Wallets>>
  BY DEF BridgeReconfiguration, SetL2LockManager, SetL2WalletOwner, SetMasterCopy,
         l2Vars, toolVars
<1>2. /\ UNCHANGED l2Wallets /\ UNCHANGED <<toL2, toL1>> /\ UNCHANGED addresses
      /\ UNCHANGED <<owner, manager, balance, released, received, withdrawn>>
      /\ UNCHANGED netETH
  BY <1>1 DEF messageVars, walletVars, history
<1>3. /\ l2LockManager' \in [L1Managers -> L2Managers \cup {ZeroAddress}]
      /\ l2WalletOwner' \in [WalletOwners -> L2Accounts \cup {ZeroAddress}]
      /\ masterCopy' \in [L2Managers -> Implementations]
  <2>1. /\ l2LockManager \in [L1Managers -> L2Managers \cup {ZeroAddress}]
        /\ l2WalletOwner \in [WalletOwners -> L2Accounts \cup {ZeroAddress}]
        /\ masterCopy \in [L2Managers -> Implementations]
    BY DEF BridgeInv, TypeOK, ToolTypeOK, L2TypeOK
  <2> QED
    BY <2>1 DEF BridgeReconfiguration, SetL2LockManager, SetL2WalletOwner, SetMasterCopy,
                l2Vars, toolVars, configuration
<1>4. ToolTypeOK' /\ ETHKeptApart' /\ L2TypeOK' /\ RecordsInv'
  BY <1>1, <1>2, <1>3 DEF addresses, eth, BridgeInv, TypeOK, ToolTypeOK, L2TypeOK, ETHKeptApart,
                    RecordsInv
<1>5. TypeOK'
  BY <1>1, <1>2, <1>4, SameMessages DEF BridgeInv, TypeOK, WalletTypeOK
<1>6. TokensStayWithTheirLock' /\ SurplusOnlyFromExtra'
  BY <1>1, <1>2, SameAccounts, SameColumns
<1> QED
  BY <1>1, <1>2, <1>4, <1>5, <1>6, SameData, SameAddresses, SameSchedules DEF BridgeInv

(* The tool's accounts in ETH: deposits and debits keep their sum. *)
LEMMA EthTypes ==
  ASSUME BridgeInv
  PROVE  /\ tokenLockETHBalances \in [L1Wallets -> Nat] /\ ethBalance \in Nat
         /\ SumFunction(tokenLockETHBalances) = ethBalance
         /\ netETH \in [L1Wallets -> Int]
         /\ \A w \in L1Wallets : tokenLockETHBalances[w] = netETH[w]
  BY DEF BridgeInv, TypeOK, ToolTypeOK, WalletTypeOK, ETHKeptApart

(* ETH deposited for a lock: its entry and the balance of the tool grow    *)
(* alike.                                                                  *)
LEMMA DepositEthInv ==
  ASSUME BridgeInv, NEW w \in L1Wallets, NEW amount \in 1 .. MaxETH,
         DepositETH(w, amount), netETH' = [netETH EXCEPT ![w] = @ + amount]
  PROVE  /\ tokenLockETHBalances' \in [L1Wallets -> Nat] /\ ethBalance' \in Nat
         /\ netETH' \in [L1Wallets -> Int]
         /\ ETHKeptApart'
<1>1. amount \in Nat
  BY MaxETHAssumption
<1> DEFINE f == tokenLockETHBalances
           h == [tokenLockETHBalances EXCEPT ![w] = @ + amount]
<1>2. tokenLockETHBalances' = h /\ ethBalance' = ethBalance + amount
  BY DEF DepositETH
<1>3. /\ f \in [L1Wallets -> Nat] /\ h \in [L1Wallets -> Nat] /\ h[w] = f[w] + amount
      /\ \A v \in L1Wallets \ {w} : h[v] = f[v]
  BY <1>1, EthTypes
<1> HIDE DEF f, h
<1>4. SumFunction(h) = SumFunction(f) - f[w] + h[w]
  BY <1>3, L1WalletsAssumption, SumUpdate
<1>5. SumFunction(f) = ethBalance /\ ethBalance \in Nat
  BY EthTypes DEF f
<1>6. /\ netETH' \in [L1Wallets -> Int]
      /\ \A v \in L1Wallets : h[v] = netETH'[v]
  BY <1>1, <1>3, EthTypes DEF f
<1> QED
  BY <1>1, <1>2, <1>3, <1>4, <1>5, <1>6 DEF ETHKeptApart

(* ETH taken from a lock: its entry and the balance of the tool shrink     *)
(* alike.                                                                  *)
LEMMA DebitEthInv ==
  ASSUME BridgeInv, NEW w \in L1Wallets, NEW amount \in Nat, DebitETH(w, amount),
         netETH' = [netETH EXCEPT ![w] = @ - amount]
  PROVE  /\ tokenLockETHBalances' \in [L1Wallets -> Nat] /\ ethBalance' \in Nat
         /\ netETH' \in [L1Wallets -> Int]
         /\ ETHKeptApart'
<1> DEFINE f == tokenLockETHBalances
           h == [tokenLockETHBalances EXCEPT ![w] = @ - amount]
<1>1. /\ tokenLockETHBalances' = h /\ ethBalance' = ethBalance - amount
      /\ f[w] >= amount /\ amount <= ethBalance
  BY DEF DebitETH
<1>2. /\ f \in [L1Wallets -> Nat] /\ h \in [L1Wallets -> Nat] /\ h[w] = f[w] - amount
      /\ \A v \in L1Wallets \ {w} : h[v] = f[v]
  BY <1>1, EthTypes
<1>3. SumFunction(f) = ethBalance /\ ethBalance \in Nat
  BY EthTypes
<1> HIDE DEF f, h
<1>4. SumFunction(h) = SumFunction(f) - f[w] + h[w]
  BY <1>2, L1WalletsAssumption, SumUpdate
<1>5. /\ netETH' \in [L1Wallets -> Int]
      /\ \A v \in L1Wallets : h[v] = netETH'[v]
  BY <1>2, EthTypes DEF f
<1> QED
  BY <1>1, <1>2, <1>3, <1>4, <1>5 DEF ETHKeptApart

(* An address can only be set by hand where no transfer has set one. *)
LEMMA SetManuallyInv ==
  ASSUME BridgeInv, NEW w \in L1Wallets, NEW l2Wallet \in L2Accounts \cup {ZeroAddress},
         SetL2WalletAddressManually(w, WalletOf(w), l2Wallet, now),
         UNCHANGED <<toL2, l2Wallets, netETH>>
  PROVE  ToolTypeOK' /\ AddressInv' /\ ManualExcludesTransfer' /\ ETHKeptApart'
<1>1. /\ l2WalletAddress[w] = ZeroAddress /\ l2Wallet # ZeroAddress
      /\ l2WalletAddress' = [l2WalletAddress EXCEPT ![w] = l2Wallet]
      /\ l2WalletAddressSetManually' = [l2WalletAddressSetManually EXCEPT ![w] = TRUE]
      /\ UNCHANGED <<l2LockManager, l2WalletOwner, l2Beneficiary>>
      /\ UNCHANGED <<tokenLockETHBalances, ethBalance>>
  BY DEF SetL2WalletAddressManually, configuration, eth
<1>2. ToolTypeOK'
  BY <1>1 DEF BridgeInv, TypeOK, ToolTypeOK
<1>3. TicketsOf(w) = {} /\ L2WalletsOf(w) = {}
  BY <1>1 DEF BridgeInv, AddressInv
<1>4. \A v : TicketsOf(v)' = TicketsOf(v) /\ L2WalletsOf(v)' = L2WalletsOf(v)
  BY DEF TicketsOf, L2WalletsOf
<1>5. /\ l2WalletAddress'[w] = l2Wallet
      /\ \A v \in L1Wallets \ {w} :
           /\ l2WalletAddress'[v] = l2WalletAddress[v]
           /\ l2WalletAddressSetManually'[v] = l2WalletAddressSetManually[v]
  BY <1>1 DEF BridgeInv, TypeOK, ToolTypeOK
<1>6. AddressInv'
  BY <1>1, <1>4, <1>5 DEF BridgeInv, AddressInv
<1>7. ManualExcludesTransfer'
  BY <1>3, <1>4, <1>5 DEF BridgeInv, ManualExcludesTransfer
<1> QED
  BY <1>1, <1>2, <1>6, <1>7 DEF BridgeInv, ETHKeptApart

(* The calls of the tool that move no token. *)
LEMMA ToolCallInv ==
  ASSUME BridgeInv, NEW w \in L1Wallets, ToolCall(w)
  PROVE  BridgeInv'
<1>1. UNCHANGED <<l2Vars, walletVars, messageVars, received, withdrawn, now>>
  BY DEF ToolCall
<1>2. /\ UNCHANGED l2Wallets /\ UNCHANGED <<toL2, toL1>> /\ UNCHANGED <<toL2, l2Wallets>>
      /\ UNCHANGED <<owner, manager, balance, released, received, withdrawn>>
  BY <1>1 DEF l2Vars, messageVars, walletVars
<1>3. /\ ToolTypeOK' /\ AddressInv' /\ ManualExcludesTransfer' /\ ETHKeptApart'
      /\ netETH' \in [L1Wallets -> Int]
  <2>1. ASSUME UNCHANGED <<configuration, addresses>>,
               tokenLockETHBalances' \in [L1Wallets -> Nat], ethBalance' \in Nat
        PROVE  ToolTypeOK' /\ AddressInv' /\ ManualExcludesTransfer'
    BY <1>2, <2>1, SameAddresses DEF BridgeInv, TypeOK, ToolTypeOK, configuration, addresses
  <2>2. ASSUME NEW amount \in 1 .. MaxETH, DepositETH(w, amount),
               netETH' = [netETH EXCEPT ![w] = @ + amount]
        PROVE  /\ ToolTypeOK' /\ AddressInv' /\ ManualExcludesTransfer' /\ ETHKeptApart'
               /\ netETH' \in [L1Wallets -> Int]
    BY <2>1, <2>2, DepositEthInv DEF DepositETH
  <2>3. ASSUME NEW amount \in 1 .. MaxETH, WithdrawETH(w, amount) \/ PullETH(w, amount),
               netETH' = [netETH EXCEPT ![w] = @ - amount]
        PROVE  /\ ToolTypeOK' /\ AddressInv' /\ ManualExcludesTransfer' /\ ETHKeptApart'
               /\ netETH' \in [L1Wallets -> Int]
    <3>1. amount \in Nat
      BY MaxETHAssumption
    <3>2. DebitETH(w, amount) /\ UNCHANGED <<configuration, addresses>>
      BY <2>3 DEF WithdrawETH, PullETH
    <3> QED
      BY <2>1, <2>3, <3>1, <3>2, DebitEthInv
  <2>4. ASSUME NEW l2Wallet \in L2Accounts \cup {ZeroAddress},
               SetL2WalletAddressManually(w, WalletOf(w), l2Wallet, now),
               UNCHANGED netETH
        PROVE  /\ ToolTypeOK' /\ AddressInv' /\ ManualExcludesTransfer' /\ ETHKeptApart'
               /\ netETH' \in [L1Wallets -> Int]
    BY <1>2, <2>4, SetManuallyInv, EthTypes
  <2> QED
    BY <2>2, <2>3, <2>4 DEF ToolCall
<1>4. TypeOK'
  BY <1>1, <1>2, <1>3, SameL2, SameMessages DEF BridgeInv, TypeOK, WalletTypeOK
<1>5. TokensStayWithTheirLock' /\ SurplusOnlyFromExtra'
  BY <1>2, SameAccounts, SameColumns
<1> QED
  BY <1>1, <1>2, <1>3, <1>4, <1>5, SameL2, SameData, SameSchedules DEF BridgeInv

(* A deposit sends the wallet's schedule under its own name, and records   *)
(* an address before anything is on the way.                               *)
Ticket(w, amount, newBeneficiary) ==
  [seqNum |-> nextSeqNum, to |-> L2ManagerOf(WalletOf(w)), amount |-> amount,
   data |-> EncodedData(w, WalletOf(w), newBeneficiary)]

(* The arguments of a deposit that is accepted, and the data it carries. *)
LEMMA DepositTypes ==
  ASSUME BridgeInv, NEW w \in L1Wallets, NEW amount \in 1 .. Supply,
         NEW expectedEth \in 0 .. MaxETH,
         NEW newBeneficiary \in L2Accounts \cup L1Wallets \cup {ZeroAddress},
         SendToL2(w, amount, newBeneficiary, expectedEth)
  PROVE  /\ amount \in Nat \ {0} /\ amount <= balance[w]
         /\ newBeneficiary \in L2Accounts
         /\ EncodedData(w, WalletOf(w), newBeneficiary) \in WalletData
         /\ FaithfulData(EncodedData(w, WalletOf(w), newBeneficiary))
         /\ L2ManagerOf(WalletOf(w)) \in L2Managers
<1>1. DepositToL2Locked(w, WalletOf(w), amount, newBeneficiary, expectedEth, now)
  BY DEF SendToL2
<1>2. amount \in Nat \ {0} /\ amount <= balance[w]
  BY <1>1, BridgeBoundsAssumption DEF DepositToL2Locked, WalletOf
<1>3. newBeneficiary \in L2Accounts
  <2>1. BeneficiaryAccepted(w, newBeneficiary)
    BY <1>1 DEF DepositToL2Locked
  <2> QED
    BY <2>1 DEF BeneficiaryAccepted, BridgeInv, TypeOK, ToolTypeOK
<1>4. L2ManagerOf(WalletOf(w)) \in L2Managers
  <2>1. L2ManagerOf(WalletOf(w)) = l2LockManager[manager[w]] /\ manager[w] \in L1Managers
    BY DEF L2ManagerOf, WalletOf, BridgeInv, TypeOK, WalletTypeOK
  <2> QED
    BY <1>1, <2>1 DEF DepositToL2Locked, BridgeInv, TypeOK, ToolTypeOK
<1>5. l2WalletOwner[owner[w]] \in L2Accounts
  <2>1. owner[w] \in WalletOwners /\ l2WalletOwner[owner[w]] # ZeroAddress
    BY <1>1 DEF DepositToL2Locked, WalletOf, BridgeInv, TypeOK, WalletTypeOK
  <2> QED
    BY <2>1 DEF BridgeInv, TypeOK, ToolTypeOK
<1>6. EncodedData(w, WalletOf(w), newBeneficiary) \in WalletData
  BY <1>3, <1>5, Schedules DEF EncodedData, WalletOf, WalletData
<1>7. FaithfulData(EncodedData(w, WalletOf(w), newBeneficiary))
  BY DEF FaithfulData, EncodedData, WalletOf
<1> QED
  BY <1>2, <1>3, <1>4, <1>6, <1>7

(* A deposit writes the L2 address of its own lock only, and never over    *)
(* another.                                                                *)
LEMMA AddressRecorded ==
  ASSUME BridgeInv, NEW w \in L1Wallets, NEW newBeneficiary \in L2Accounts,
         EncodedData(w, WalletOf(w), newBeneficiary) \in WalletData,
         L2ManagerOf(WalletOf(w)) \in L2Managers,
         RecordAddress(w, EncodedData(w, WalletOf(w), newBeneficiary), WalletOf(w), now)
  PROVE  /\ l2WalletAddress' \in
              [L1Wallets -> L2WalletAddresses \cup L2Accounts \cup {ZeroAddress}]
         /\ l2WalletAddress'[w] # ZeroAddress
         /\ ~l2WalletAddressSetManually[w]
         /\ \A v \in L1Wallets : l2WalletAddress[v] # ZeroAddress
                                   => l2WalletAddress'[v] = l2WalletAddress[v]
<1> DEFINE address == DeploymentAddress(EncodedData(w, WalletOf(w), newBeneficiary),
                                        l2Implementation, L2ManagerOf(WalletOf(w)))
<1>1. address \in L2WalletAddresses
  BY L2ImplementationAssumption DEF DeploymentAddress, L2WalletAddresses
<1>2. address # ZeroAddress
  BY <1>1, AddressesAssumption
<1>3. l2WalletAddress \in [L1Wallets -> L2WalletAddresses \cup L2Accounts \cup {ZeroAddress}]
  BY DEF BridgeInv, TypeOK, ToolTypeOK
<1>4. CASE l2WalletAddress[w] = ZeroAddress
  <2>1. l2WalletAddress' = [l2WalletAddress EXCEPT ![w] = address]
    BY <1>4 DEF RecordAddress
  <2>2. ~l2WalletAddressSetManually[w]
    BY <1>4 DEF BridgeInv, AddressInv
  <2> HIDE DEF address
  <2> QED
    BY <1>1, <1>2, <1>3, <1>4, <2>1, <2>2
<1>5. CASE l2WalletAddress[w] # ZeroAddress
  BY <1>3, <1>5 DEF RecordAddress
<1> QED
  BY <1>4, <1>5

(* depositToL2Locked(): the tokens leave the lock and the ticket carries   *)
(* them.                                                                   *)
LEMMA SendToL2Inv ==
  ASSUME BridgeInv, NEW w \in L1Wallets, NEW amount \in 1 .. Supply,
         NEW expectedEth \in 0 .. MaxETH,
         NEW newBeneficiary \in L2Accounts \cup L1Wallets \cup {ZeroAddress},
         SendToL2(w, amount, newBeneficiary, expectedEth)
  PROVE  BridgeInv'
<1> DEFINE ticket == Ticket(w, amount, newBeneficiary)
<1>1. /\ DepositToL2Locked(w, WalletOf(w), amount, newBeneficiary, expectedEth, now)
      /\ balance' = [balance EXCEPT ![w] = @ - amount]
      /\ toL2' = toL2 \cup {ticket}
      /\ nextSeqNum' = nextSeqNum + 1
      /\ netETH' = [netETH EXCEPT ![w] = @ - expectedEth]
      /\ UNCHANGED <<l2Vars, owner, manager, released, toL1, received, withdrawn, now>>
  BY DEF SendToL2, Ticket
<1>2. /\ amount \in Nat \ {0} /\ amount <= balance[w]
      /\ newBeneficiary \in L2Accounts
      /\ EncodedData(w, WalletOf(w), newBeneficiary) \in WalletData
      /\ FaithfulData(EncodedData(w, WalletOf(w), newBeneficiary))
      /\ L2ManagerOf(WalletOf(w)) \in L2Managers
  BY DepositTypes
<1>3. /\ ticket.seqNum = nextSeqNum /\ ticket.to \in L2Managers /\ ticket.amount = amount
      /\ ticket.data \in WalletData /\ FaithfulData(ticket.data)
      /\ ticket.data.l1Address = w
      /\ ticket \in [seqNum : {nextSeqNum}, to : L2Managers,
                     amount : Nat \ {0}, data : WalletData]
  BY <1>2 DEF Ticket, EncodedData
<1> HIDE DEF ticket
<1>4. UNCHANGED l2Wallets /\ UNCHANGED <<received, withdrawn>>
  BY <1>1 DEF l2Vars
<1>5. nextSeqNum \in Nat
  BY DEF BridgeInv, TypeOK, MessageTypeOK
<1>6. MessageTypeOK' /\ ticket \notin toL2
  <2>1. \A t \in toL2 : /\ t \in [seqNum : 0 .. nextSeqNum - 1, to : L2Managers,
                                  amount : Nat \ {0}, data : WalletData]
                        /\ t.seqNum # nextSeqNum
    BY <1>5 DEF BridgeInv, TypeOK, MessageTypeOK
  <2>2. \A t \in toL2 : t \in [seqNum : 0 .. nextSeqNum, to : L2Managers,
                               amount : Nat \ {0}, data : WalletData]
    BY <1>5, <2>1
  <2>3. ticket \in [seqNum : 0 .. nextSeqNum, to : L2Managers,
                    amount : Nat \ {0}, data : WalletData]
    BY <1>3, <1>5
  <2>4. \A m \in toL1 : m \in [seqNum : 0 .. nextSeqNum, to : L1Wallets, amount : Nat \ {0}]
    BY <1>5 DEF BridgeInv, TypeOK, MessageTypeOK
  <2>5. nextSeqNum' \in Nat /\ nextSeqNum' - 1 = nextSeqNum
    BY <1>1, <1>5
  <2> QED
    BY <1>1, <1>3, <2>1, <2>2, <2>3, <2>4, <2>5 DEF MessageTypeOK
<1>7. WalletTypeOK'
  <2>1. balance[w] - amount \in Nat
    BY <1>2, L1Types
  <2>2. netETH' \in [L1Wallets -> Int]
    BY <1>1, EthTypes, MaxETHAssumption
  <2> QED
    BY <1>1, <1>4, <2>1, <2>2 DEF BridgeInv, TypeOK, WalletTypeOK
<1>8. /\ RecordAddress(w, EncodedData(w, WalletOf(w), newBeneficiary), WalletOf(w), now)
      /\ l2Beneficiary' = [l2Beneficiary EXCEPT ![w] = newBeneficiary]
      /\ DebitETH(w, expectedEth)
      /\ UNCHANGED <<configuration, l2WalletAddressSetManually>>
  BY <1>1 DEF DepositToL2Locked
<1>9. /\ l2WalletAddress' \in
           [L1Wallets -> L2WalletAddresses \cup L2Accounts \cup {ZeroAddress}]
      /\ l2WalletAddress'[w] # ZeroAddress
      /\ ~l2WalletAddressSetManually[w]
      /\ \A v \in L1Wallets : l2WalletAddress[v] # ZeroAddress
                                => l2WalletAddress'[v] = l2WalletAddress[v]
  BY <1>2, <1>8, AddressRecorded
<1>10. ToolTypeOK' /\ ETHKeptApart'
  <2>1. expectedEth \in Nat
    BY MaxETHAssumption
  <2>2. /\ tokenLockETHBalances' \in [L1Wallets -> Nat] /\ ethBalance' \in Nat
        /\ ETHKeptApart'
    BY <1>1, <1>8, <2>1, DebitEthInv
  <2> QED
    BY <1>2, <1>8, <1>9, <2>2 DEF BridgeInv, TypeOK, ToolTypeOK, configuration
<1>11. TypeOK'
  BY <1>1, <1>6, <1>7, <1>10, SameL2 DEF BridgeInv, TypeOK
<1>12. DataInv'
  BY <1>1, <1>3, <1>4, FS_AddElement DEF BridgeInv, DataInv, FaithfulData
<1>13. AddressInv' /\ ManualExcludesTransfer'
  <2>1. \A v \in L1Wallets : /\ v # w => TicketsOf(v)' = TicketsOf(v)
                             /\ L2WalletsOf(v)' = L2WalletsOf(v)
    BY <1>1, <1>3, <1>4 DEF TicketsOf, L2WalletsOf
  <2>2. UNCHANGED l2WalletAddressSetManually
    BY <1>8
  <2>3. AddressInv'
    BY <1>9, <2>1, <2>2 DEF BridgeInv, AddressInv
  <2>4. ManualExcludesTransfer'
    BY <1>9, <2>1, <2>2 DEF BridgeInv, ManualExcludesTransfer
  <2> QED
    BY <2>3, <2>4
<1>14. TokensStayWithTheirLock'
  <2>1. ASSUME NEW v \in L1Wallets PROVE Column(v)' = received[v]'
    <3>1. /\ InReturns(v)' = InReturns(v)
          /\ OnL2(v)' = OnL2(v) /\ ReleasedOnL2(v)' = ReleasedOnL2(v)
      BY <1>1, <1>4, SameColumns
    <3>2. InTickets(v)' = InTickets(v) + (IF v = w THEN amount ELSE 0)
      BY <1>1, <1>2, <1>3, <1>6, TicketSent DEF BridgeInv
    <3>3. balance'[v] = balance[v] - (IF v = w THEN amount ELSE 0)
      BY <1>1, <1>2, L1Types
    <3>4. Column(v) = received[v]
      BY Columns DEF BridgeInv
    <3> QED
      BY <1>1, <1>2, <1>4, <3>1, <3>2, <3>3, <3>4, ColumnTypes DEF BridgeInv, Column
  <2> QED
    BY <2>1, ColumnsNext
<1>15. SurplusOnlyFromExtra'
  BY <1>4 DEF BridgeInv, SurplusOnlyFromExtra
<1> QED
  BY <1>1, <1>4, <1>10, <1>11, <1>12, <1>13, <1>14, <1>15, SameL2, SameSchedules
  DEF BridgeInv

(* What happens to the wallets on L2 when a ticket is redeemed: a wallet   *)
(* that is on record gets the tokens, or one is created at a free address. *)
LEMMA RedeemRecords ==
  ASSUME BridgeInv, NEW ticket \in toL2, Redeem(ticket)
  PROVE  /\ L2TypeOK' /\ RecordsInv' /\ IsFiniteSet(DOMAIN l2Wallets')
         /\ \A a \in DOMAIN l2Wallets' :
              \/ /\ a \in DOMAIN l2Wallets
                 /\ l2Wallets'[a].released = l2Wallets[a].released
              \/ /\ a \notin DOMAIN l2Wallets
                 /\ a.salt = ticket.data /\ l2Wallets'[a].released = 0
         /\ \A w : /\ OnL2(w)' = OnL2(w) + (IF ticket.data.l1Address = w
                                            THEN ticket.amount ELSE 0)
                   /\ ReleasedOnL2(w)' = ReleasedOnL2(w)
<1> DEFINE m == ticket.to
           l1 == ticket.data.l1Address
           amount == ticket.amount
           known == l1WalletToL2Wallet[m][l1]
<1>1. /\ m \in L2Managers /\ l1 \in L1Wallets /\ amount \in Nat
      /\ ticket.data \in WalletData
  BY DEF BridgeInv, TypeOK, MessageTypeOK, WalletData
<1>2. OnTokenTransfer(m, ticket.data, amount)
  BY DEF Redeem
<1>3. \A a \in DOMAIN l2Wallets :
        /\ a \in L2WalletAddresses
        /\ l2Wallets[a] \in [manager : L2Managers, balance : Nat, released : Nat]
  BY DEF BridgeInv, TypeOK, L2TypeOK
<1>4. CASE known # ZeroAddress
  <2>1. known \in DOMAIN l2Wallets /\ known.salt.l1Address = l1
    BY <1>1, <1>4 DEF BridgeInv, RecordsInv
  <2>2. /\ l2Wallets' = [l2Wallets EXCEPT ![known].balance = @ + amount]
        /\ UNCHANGED <<masterCopy, l1WalletToL2Wallet, l2WalletToL1Wallet>>
    BY <1>2, <1>4 DEF OnTokenTransfer
  <2> HIDE DEF known, l1, m, amount
  <2>3. /\ DOMAIN l2Wallets' = DOMAIN l2Wallets
        /\ l2Wallets'[known].balance = l2Wallets[known].balance + amount
        /\ l2Wallets'[known].balance \in Nat /\ l2Wallets'[known].released \in Nat
        /\ \A b \in DOMAIN l2Wallets \ {known} : l2Wallets'[b] = l2Wallets[b]
        /\ \A b \in DOMAIN l2Wallets :
             /\ l2Wallets'[b] \in [manager : L2Managers, balance : Nat, released : Nat]
             /\ l2Wallets'[b].released = l2Wallets[b].released
    BY <1>1, <1>3, <2>1, <2>2
  <2>4. L2TypeOK' /\ RecordsInv'
    <3>1. L2TypeOK'
      BY <1>3, <2>2, <2>3 DEF BridgeInv, TypeOK, L2TypeOK
    <3>2. RecordsInv'
      BY <2>2, <2>3 DEF BridgeInv, RecordsInv
    <3> QED
      BY <3>1, <3>2
  <2>5. ASSUME NEW w
        PROVE  /\ OnL2(w)' = OnL2(w) + (IF l1 = w THEN amount ELSE 0)
               /\ ReleasedOnL2(w)' = ReleasedOnL2(w)
    <3>1. /\ OnL2(w)' = OnL2(w) + (IF known.salt.l1Address = w
                            THEN l2Wallets'[known].balance - l2Wallets[known].balance
                            ELSE 0)
          /\ ReleasedOnL2(w)' = ReleasedOnL2(w)
                            + (IF known.salt.l1Address = w
                               THEN l2Wallets'[known].released - l2Wallets[known].released
                               ELSE 0)
      BY <2>1, <2>3, L2WalletChanged DEF BridgeInv
    <3>2. /\ l2Wallets[known].balance \in Nat /\ l2Wallets[known].released \in Nat
          /\ l2Wallets'[known].released = l2Wallets[known].released
      BY <1>3, <2>1, <2>3
    <3>3. ReleasedOnL2(w) \in Int
      <4>1. IsFiniteSet(L2WalletsOf(w)) /\ \A a \in L2WalletsOf(w) : l2Wallets[a].released \in Nat
        BY Parts DEF BridgeInv
      <4> DEFINE f == [a \in L2WalletsOf(w) |-> l2Wallets[a].released]
      <4>2. IsFiniteSet(DOMAIN f) /\ \A a \in DOMAIN f : f[a] \in Int
        BY <4>1
      <4> HIDE DEF f
      <4>3. SumFunction(f) \in Int
        BY <4>2, SumType
      <4> QED
        BY <4>3 DEF f, ReleasedOnL2
    <3> QED
      BY <1>1, <2>1, <2>3, <3>1, <3>2, <3>3
  <2>6. IsFiniteSet(DOMAIN l2Wallets')
    BY <2>3 DEF BridgeInv, DataInv
  <2> QED
    BY <2>3, <2>4, <2>5, <2>6 DEF l1, amount
<1>5. CASE known = ZeroAddress
  <2> DEFINE address == DeploymentAddress(ticket.data, masterCopy[m], m)
  <2>1. CreateL2Wallet(m, ticket.data, amount)
    BY <1>2, <1>5 DEF OnTokenTransfer
  <2>2. /\ address \notin DOMAIN l2Wallets
        /\ l2Wallets' = WithEntry(l2Wallets, address, NewL2Wallet(m, amount))
        /\ l1WalletToL2Wallet' = [l1WalletToL2Wallet EXCEPT ![m][l1] = address]
        /\ l2WalletToL1Wallet' =
             [l2WalletToL1Wallet EXCEPT ![m] = WithEntry(@, address, l1)]
        /\ UNCHANGED masterCopy
    BY <2>1 DEF CreateL2Wallet, CanDeploy
  <2>3. /\ address \in L2WalletAddresses /\ address # ZeroAddress
        /\ address.salt = ticket.data /\ address.salt.l1Address = l1
        /\ address.deployer = m
    <3>1. masterCopy[m] \in Implementations
      BY <1>1 DEF BridgeInv, TypeOK, L2TypeOK
    <3>2. address \in L2WalletAddresses
      BY <1>1, <3>1 DEF DeploymentAddress, L2WalletAddresses
    <3> QED
      BY <3>2, AddressesAssumption DEF DeploymentAddress
  <2> HIDE DEF address, known, l1, m, amount
  <2>4. /\ DOMAIN l2Wallets' = DOMAIN l2Wallets \cup {address}
        /\ l2Wallets'[address] = [manager |-> m, balance |-> amount, released |-> 0]
        /\ \A b \in DOMAIN l2Wallets : l2Wallets'[b] = l2Wallets[b]
    BY <2>2 DEF WithEntry, NewL2Wallet
  <2>5. /\ \A b \in DOMAIN l2Wallets' :
             l2Wallets'[b] \in [manager : L2Managers, balance : Nat, released : Nat]
        /\ DOMAIN l2Wallets' \subseteq L2WalletAddresses
        /\ IsFiniteSet(DOMAIN l2Wallets')
    BY <1>1, <1>3, <2>3, <2>4, FS_AddElement DEF BridgeInv, DataInv
  <2>6. /\ l1WalletToL2Wallet \in
             [L2Managers -> [L1Wallets -> L2WalletAddresses \cup {ZeroAddress}]]
        /\ l1WalletToL2Wallet' \in
             [L2Managers -> [L1Wallets -> L2WalletAddresses \cup {ZeroAddress}]]
        /\ l1WalletToL2Wallet'[m][l1] = address
        /\ \A n \in L2Managers, w \in L1Wallets :
             n # m \/ w # l1 => l1WalletToL2Wallet'[n][w] = l1WalletToL2Wallet[n][w]
    BY <1>1, <2>2, <2>3 DEF BridgeInv, TypeOK, L2TypeOK
  <2>7. \A n \in L2Managers : \A a \in DOMAIN l2WalletToL1Wallet'[n] :
          /\ a \in L2WalletAddresses
          /\ l2WalletToL1Wallet'[n][a] \in L1Wallets
          /\ l2WalletToL1Wallet'[n][a] = a.salt.l1Address
    <3> SUFFICES ASSUME NEW n \in L2Managers, NEW a \in DOMAIN l2WalletToL1Wallet'[n]
                 PROVE  /\ a \in L2WalletAddresses
                        /\ l2WalletToL1Wallet'[n][a] \in L1Wallets
                        /\ l2WalletToL1Wallet'[n][a] = a.salt.l1Address
      OBVIOUS
    <3>1. \A b \in DOMAIN l2WalletToL1Wallet[n] :
            /\ b \in L2WalletAddresses
            /\ l2WalletToL1Wallet[n][b] \in L1Wallets
            /\ l2WalletToL1Wallet[n][b] = b.salt.l1Address
      BY DEF BridgeInv, TypeOK, L2TypeOK, RecordsInv
    <3>2. CASE l2WalletToL1Wallet'[n] = l2WalletToL1Wallet[n]
      BY <3>1, <3>2
    <3>3. CASE l2WalletToL1Wallet'[n] = WithEntry(l2WalletToL1Wallet[n], address, l1)
      BY <1>1, <2>3, <3>1, <3>3 DEF WithEntry
    <3>4. DOMAIN l2WalletToL1Wallet = L2Managers
      BY DEF BridgeInv, TypeOK, L2TypeOK
    <3> QED
      BY <2>2, <3>2, <3>3, <3>4
  <2>8. L2TypeOK'
    <3>1. DOMAIN l2WalletToL1Wallet = L2Managers
      BY DEF BridgeInv, TypeOK, L2TypeOK
    <3>2. DOMAIN l2WalletToL1Wallet' = L2Managers
      BY <2>2, <3>1
    <3>3. masterCopy' \in [L2Managers -> Implementations]
      BY <2>2 DEF BridgeInv, TypeOK, L2TypeOK
    <3> QED
      BY <2>5, <2>6, <2>7, <3>2, <3>3 DEF L2TypeOK
  <2>9. RecordsInv'
    <3>1. ASSUME NEW n \in L2Managers, NEW w \in L1Wallets,
                 l1WalletToL2Wallet'[n][w] # ZeroAddress
          PROVE  /\ l1WalletToL2Wallet'[n][w] \in DOMAIN l2Wallets'
                 /\ l1WalletToL2Wallet'[n][w].salt.l1Address = w
      BY <2>3, <2>4, <2>6, <3>1 DEF BridgeInv, RecordsInv
    <3>2. ASSUME NEW a \in DOMAIN l2Wallets'
          PROVE  l1WalletToL2Wallet'[a.deployer][a.salt.l1Address] # ZeroAddress
      <4>1. CASE a = address
        BY <2>3, <2>6, <4>1
      <4>2. CASE a \in DOMAIN l2Wallets
        <5>1. /\ a.deployer \in L2Managers /\ a.salt.l1Address \in L1Wallets
              /\ l1WalletToL2Wallet[a.deployer][a.salt.l1Address] # ZeroAddress
          BY <1>3, <4>2 DEF BridgeInv, RecordsInv, L2WalletAddresses, WalletData
        <5> QED
          BY <2>3, <2>6, <5>1
      <4> QED
        BY <2>4, <4>1, <4>2
    <3> QED
      BY <2>7, <3>1, <3>2 DEF RecordsInv
  <2>10. ASSUME NEW w
         PROVE  /\ OnL2(w)' = OnL2(w) + (IF l1 = w THEN amount ELSE 0)
                /\ ReleasedOnL2(w)' = ReleasedOnL2(w)
    <3>1. l2Wallets'[address].balance = amount /\ l2Wallets'[address].released = 0
      BY <2>4
    <3> QED
      BY <1>1, <2>2, <2>3, <2>4, <3>1, L2WalletCreated DEF BridgeInv
  <2>11. \A a \in DOMAIN l2Wallets' :
            \/ /\ a \in DOMAIN l2Wallets
               /\ l2Wallets'[a].released = l2Wallets[a].released
            \/ /\ a \notin DOMAIN l2Wallets
               /\ a.salt = ticket.data /\ l2Wallets'[a].released = 0
    BY <2>2, <2>3, <2>4
  <2> QED
    BY <2>5, <2>8, <2>9, <2>10, <2>11 DEF l1, amount
<1> QED
  BY <1>4, <1>5

(* onTokenTransfer(): a ticket creates the L2 wallet of its lock or adds to*)
(* it.                                                                     *)
LEMMA RedeemInv ==
  ASSUME BridgeInv, NEW ticket \in toL2, Redeem(ticket)
  PROVE  BridgeInv'
<1>1. /\ toL2' = toL2 \ {ticket}
      /\ UNCHANGED <<toolVars, walletVars, toL1, nextSeqNum, history, now>>
  BY DEF Redeem
<1>2. /\ UNCHANGED addresses /\ UNCHANGED l2WalletAddress
      /\ UNCHANGED l2WalletAddressSetManually
      /\ UNCHANGED <<owner, manager, balance, released, received, withdrawn>>
      /\ UNCHANGED netETH
  BY <1>1 DEF toolVars, addresses, walletVars, history
<1>3. /\ L2TypeOK' /\ RecordsInv' /\ IsFiniteSet(DOMAIN l2Wallets')
      /\ \A a \in DOMAIN l2Wallets' :
           \/ /\ a \in DOMAIN l2Wallets
              /\ l2Wallets'[a].released = l2Wallets[a].released
           \/ /\ a \notin DOMAIN l2Wallets
              /\ a.salt = ticket.data /\ l2Wallets'[a].released = 0
      /\ \A w : /\ OnL2(w)' = OnL2(w) + (IF ticket.data.l1Address = w
                                         THEN ticket.amount ELSE 0)
                /\ ReleasedOnL2(w)' = ReleasedOnL2(w)
  BY RedeemRecords
<1>4. TypeOK'
  <2>1. MessageTypeOK'
    BY <1>1 DEF BridgeInv, TypeOK, MessageTypeOK
  <2> QED
    BY <1>1, <1>2, <1>3, <2>1, SameTool DEF BridgeInv, TypeOK, WalletTypeOK
<1>5. DataInv'
  BY <1>1, <1>3, FS_RemoveElement DEF BridgeInv, DataInv, FaithfulData
<1>6. AddressInv' /\ ManualExcludesTransfer'
  <2>1. ASSUME NEW w, TicketsOf(w)' # {} \/ L2WalletsOf(w)' # {}
        PROVE  TicketsOf(w) # {} \/ L2WalletsOf(w) # {}
    <3>1. CASE TicketsOf(w)' # {}
      BY <1>1, <3>1 DEF TicketsOf
    <3>2. CASE L2WalletsOf(w)' # {}
      <4>1. PICK a \in DOMAIN l2Wallets' : a.salt.l1Address = w
        BY <3>2 DEF L2WalletsOf
      <4> QED
        BY <1>3, <4>1 DEF TicketsOf, L2WalletsOf
    <3> QED
      BY <2>1, <3>1, <3>2
  <2> QED
    BY <1>2, <2>1 DEF BridgeInv, AddressInv, ManualExcludesTransfer
<1>7. SchedulesInv'
  <2>1. 0 <= ticket.data.managedAmount
    BY DEF BridgeInv, TypeOK, MessageTypeOK, WalletData
  <2> QED
    BY <1>1, <1>2, <1>3, <2>1 DEF BridgeInv, SchedulesInv
<1>8. TokensStayWithTheirLock'
  <2>1. ASSUME NEW v \in L1Wallets PROVE Column(v)' = received[v]'
    <3>1. InReturns(v)' = InReturns(v)
      BY <1>1, SameColumns
    <3>2. InTickets(v) = InTickets(v)' + (IF ticket.data.l1Address = v
                                          THEN ticket.amount ELSE 0)
      BY <1>1, TicketRedeemed DEF BridgeInv
    <3>3. Column(v) = received[v]
      BY Columns DEF BridgeInv
    <3>4. ticket.amount \in Nat /\ InTickets(v)' \in Nat
      BY <1>1, TicketRedeemed DEF BridgeInv, TypeOK, MessageTypeOK
    <3> QED
      BY <1>2, <1>3, <3>1, <3>2, <3>3, <3>4, ColumnTypes DEF BridgeInv, Column
  <2> QED
    BY <2>1, ColumnsNext
<1>9. SurplusOnlyFromExtra'
  BY <1>2 DEF BridgeInv, SurplusOnlyFromExtra
<1> QED
  BY <1>1, <1>2, <1>3, <1>4, <1>5, <1>6, <1>7, <1>8, <1>9, SameTool DEF BridgeInv

(* The schedule of an L2 wallet: nothing before the end, then everything.  *)
LEMMA L2ScheduleUnlocks ==
  ASSUME NEW data \in WalletData, FaithfulData(data), NEW t \in Nat
  PROVE  /\ t < data.endTime => ReleaseBlocked(L2Schedule(data), t)
         /\ t >= data.endTime
              => AvailableAmount(L2Schedule(data), t) = data.managedAmount
<1> DEFINE s == L2Schedule(data)
           d == data.endTime - data.startTime
<1>1. /\ data.managedAmount \in Nat /\ data.startTime \in Nat /\ data.endTime \in Nat
      /\ data.startTime < data.endTime /\ data.l1Address \in L1Wallets
  BY Schedules DEF WalletData, FaithfulData, ValidSchedule
<1>2. /\ s.managedAmount = data.managedAmount /\ s.startTime = data.startTime
      /\ s.endTime = data.endTime /\ s.periods = 1
      /\ s.releaseStartTime = data.endTime
  BY DEF L2Schedule
<1>3. t < data.endTime => ReleaseBlocked(s, t)
  BY <1>1, <1>2 DEF ReleaseBlocked, BeforeRelease
<1>4. ASSUME t = data.endTime PROVE AvailableAmount(s, t) = data.managedAmount
  <2>1. \A n \in Nat : n \div 1 = n
    BY DivBounds
  <2>2. d \in Nat /\ d > 0
    BY <1>1
  <2>3. d \div d = 1
    BY <2>2, DivBounds
  <2>4. PeriodDuration(s) = d
    BY <1>2, <2>1, <2>2 DEF PeriodDuration, Duration
  <2>5. SinceStartTime(s, t) = d
    BY <1>1, <1>2, <1>4 DEF SinceStartTime
  <2>6. AmountPerPeriod(s) = data.managedAmount
    BY <1>1, <1>2, <2>1 DEF AmountPerPeriod
  <2>7. PassedPeriods(s, t) = 1
    BY <2>3, <2>4, <2>5 DEF PassedPeriods
  <2>8. ~(t < s.startTime) /\ ~(t > s.endTime)
    BY <1>1, <1>2, <1>4
  <2> HIDE DEF s
  <2> QED
    BY <1>1, <2>6, <2>7, <2>8 DEF AvailableAmount
<1>5. ASSUME t > data.endTime PROVE AvailableAmount(s, t) = data.managedAmount
  BY <1>1, <1>2, <1>5 DEF AvailableAmount
<1> HIDE DEF s
<1> QED
  BY <1>1, <1>3, <1>4, <1>5 DEF s

(* A step that changes the balance of one wallet on L2, and perhaps what   *)
(* it has released.                                                        *)
LEMMA L2WalletUpdated ==
  ASSUME BridgeInv, NEW a \in DOMAIN l2Wallets, NEW paid \in Nat, NEW more \in Nat,
         paid <= l2Wallets[a].balance,
         \/ more = 0 /\ l2Wallets' = [l2Wallets EXCEPT ![a].balance = @ - paid]
         \/ l2Wallets' = [l2Wallets EXCEPT ![a].balance = @ - paid,
                                           ![a].released = @ + more],
         UNCHANGED <<masterCopy, l1WalletToL2Wallet, l2WalletToL1Wallet>>
  PROVE  /\ DOMAIN l2Wallets' = DOMAIN l2Wallets
         /\ \A b \in DOMAIN l2Wallets :
              l2Wallets'[b].released = l2Wallets[b].released + (IF b = a THEN more ELSE 0)
         /\ L2TypeOK' /\ RecordsInv'
         /\ \A w : /\ OnL2(w)' = OnL2(w) - (IF a.salt.l1Address = w THEN paid ELSE 0)
                   /\ ReleasedOnL2(w)' = ReleasedOnL2(w)
                                        + (IF a.salt.l1Address = w THEN more ELSE 0)
<1>1. \A b \in DOMAIN l2Wallets :
        /\ b \in L2WalletAddresses
        /\ l2Wallets[b] \in [manager : L2Managers, balance : Nat, released : Nat]
  BY DEF BridgeInv, TypeOK, L2TypeOK
<1>2. /\ DOMAIN l2Wallets' = DOMAIN l2Wallets
      /\ \A b \in DOMAIN l2Wallets \ {a} : l2Wallets'[b] = l2Wallets[b]
      /\ l2Wallets'[a].manager = l2Wallets[a].manager
      /\ l2Wallets'[a].balance = l2Wallets[a].balance - paid
      /\ l2Wallets'[a].released = l2Wallets[a].released + more
      /\ l2Wallets'[a] \in [manager : L2Managers, balance : Nat, released : Nat]
  <2>1. CASE l2Wallets' = [l2Wallets EXCEPT ![a].balance = @ - paid] /\ more = 0
    BY <1>1, <2>1
  <2>2. CASE l2Wallets' = [l2Wallets EXCEPT ![a].balance = @ - paid,
                                            ![a].released = @ + more]
    <3> DEFINE W == [l2Wallets EXCEPT ![a].balance = @ - paid]
    <3>1. /\ DOMAIN W = DOMAIN l2Wallets
          /\ \A b \in DOMAIN l2Wallets \ {a} : W[b] = l2Wallets[b]
          /\ W[a] = [l2Wallets[a] EXCEPT !.balance = @ - paid]
      OBVIOUS
    <3>2. /\ W[a] \in [manager : L2Managers, balance : Nat, released : Nat]
          /\ W[a].manager = l2Wallets[a].manager /\ W[a].released = l2Wallets[a].released
          /\ W[a].balance = l2Wallets[a].balance - paid
      BY <1>1, <3>1
    <3>3. l2Wallets' = [W EXCEPT ![a].released = @ + more]
      BY <2>2
    <3> HIDE DEF W
    <3>4. /\ DOMAIN l2Wallets' = DOMAIN W
          /\ \A b \in DOMAIN W \ {a} : l2Wallets'[b] = W[b]
          /\ l2Wallets'[a] = [W[a] EXCEPT !.released = @ + more]
      BY <3>1, <3>3
    <3>5. /\ l2Wallets'[a] \in [manager : L2Managers, balance : Nat, released : Nat]
          /\ l2Wallets'[a].manager = W[a].manager
          /\ l2Wallets'[a].balance = W[a].balance
          /\ l2Wallets'[a].released = W[a].released + more
      BY <3>2, <3>4
    <3> QED
      BY <3>1, <3>2, <3>4, <3>5
  <2> QED
    BY <2>1, <2>2
<1>3. \A b \in DOMAIN l2Wallets :
        l2Wallets'[b].released = l2Wallets[b].released + (IF b = a THEN more ELSE 0)
  BY <1>1, <1>2
<1>4. L2TypeOK'
  BY <1>1, <1>2 DEF BridgeInv, TypeOK, L2TypeOK
<1>5. RecordsInv'
  BY <1>2 DEF BridgeInv, RecordsInv
<1>6. ASSUME NEW w
      PROVE  /\ OnL2(w)' = OnL2(w) - (IF a.salt.l1Address = w THEN paid ELSE 0)
             /\ ReleasedOnL2(w)' = ReleasedOnL2(w)
                                  + (IF a.salt.l1Address = w THEN more ELSE 0)
  <2>1. l2Wallets'[a].balance \in Nat /\ l2Wallets'[a].released \in Nat
    BY <1>2
  <2>2. /\ OnL2(w)' = OnL2(w) + (IF a.salt.l1Address = w
                                 THEN l2Wallets'[a].balance - l2Wallets[a].balance ELSE 0)
        /\ ReleasedOnL2(w)' = ReleasedOnL2(w)
                          + (IF a.salt.l1Address = w
                             THEN l2Wallets'[a].released - l2Wallets[a].released ELSE 0)
    BY <1>2, <2>1, L2WalletChanged DEF BridgeInv
  <2>3. OnL2(w) \in Int
    <3> DEFINE f == [b \in L2WalletsOf(w) |-> l2Wallets[b].balance]
    <3>1. IsFiniteSet(DOMAIN f) /\ \A b \in DOMAIN f : f[b] \in Int
      BY Parts DEF BridgeInv
    <3> HIDE DEF f
    <3>2. SumFunction(f) \in Int
      BY <3>1, SumType
    <3> QED
      BY <3>2 DEF f, OnL2
  <2>4. l2Wallets[a].balance \in Nat /\ l2Wallets[a].released \in Nat
    BY <1>1
  <2> QED
    BY <1>2, <2>2, <2>3, <2>4
<1> QED
  BY <1>2, <1>3, <1>4, <1>5, <1>6

(* An L2 wallet pays nothing before the end of the schedule. *)
LEMMA L2ReleaseInv ==
  ASSUME BridgeInv, NEW a \in DOMAIN l2Wallets, L2Release(a, now),
         UNCHANGED <<toolVars, walletVars, messageVars, history, now>>
  PROVE  BridgeInv'
<1> DEFINE amount == L2ReleasableAmount(a, now)
<1>1. /\ amount > 0
      /\ l2Wallets' = [l2Wallets EXCEPT ![a].balance = @ - amount,
                                        ![a].released = @ + amount]
      /\ UNCHANGED <<masterCopy, l1WalletToL2Wallet, l2WalletToL1Wallet>>
  BY DEF L2Release
<1>2. /\ a \in L2WalletAddresses /\ a.salt \in WalletData /\ FaithfulData(a.salt)
      /\ a.salt.l1Address \in L1Wallets
      /\ a.salt.endTime \in Nat /\ a.salt.managedAmount \in Nat
      /\ l2Wallets[a].balance \in Nat /\ l2Wallets[a].released \in Nat
  BY DEF BridgeInv, TypeOK, L2TypeOK, DataInv, L2WalletAddresses, WalletData
<1>3. /\ amount \in Nat /\ amount <= l2Wallets[a].balance /\ now >= a.salt.endTime
      /\ l2Wallets[a].released + amount <= a.salt.managedAmount
  <2>1. now >= a.salt.endTime
    BY <1>1, <1>2, L1Types, L2ScheduleUnlocks DEF L2ReleasableAmount
  <2>2. AvailableAmount(L2Schedule(a.salt), now) = a.salt.managedAmount
    BY <1>2, <2>1, L1Types, L2ScheduleUnlocks
  <2>3. amount = min(l2Wallets[a].balance, a.salt.managedAmount - l2Wallets[a].released)
    BY <1>1, <2>2 DEF L2ReleasableAmount
  <2> HIDE DEF amount
  <2> QED
    BY <1>1, <1>2, <2>1, <2>3 DEF min
<1> HIDE DEF amount
<1>4. /\ DOMAIN l2Wallets' = DOMAIN l2Wallets
      /\ \A b \in DOMAIN l2Wallets :
           l2Wallets'[b].released = l2Wallets[b].released + (IF b = a THEN amount ELSE 0)
      /\ L2TypeOK' /\ RecordsInv'
      /\ \A w : /\ OnL2(w)' = OnL2(w) - (IF a.salt.l1Address = w THEN amount ELSE 0)
                /\ ReleasedOnL2(w)' = ReleasedOnL2(w)
                                     + (IF a.salt.l1Address = w THEN amount ELSE 0)
  BY <1>1, <1>3, L2WalletUpdated
<1>5. /\ UNCHANGED <<toL2, toL1>> /\ UNCHANGED addresses /\ UNCHANGED toolVars
      /\ UNCHANGED <<owner, manager, balance, released, received, withdrawn>>
      /\ UNCHANGED netETH
      /\ UNCHANGED messageVars /\ UNCHANGED now
  BY DEF messageVars, toolVars, walletVars, history
<1>6. TypeOK'
  BY <1>4, <1>5, SameTool, SameMessages DEF BridgeInv, TypeOK, WalletTypeOK
<1>7. SchedulesInv'
  <2>1. ASSUME NEW b \in DOMAIN l2Wallets, now < b.salt.endTime
        PROVE  l2Wallets'[b].released = 0
    <3>1. b # a
      BY <1>2, <1>3, <2>1, L1Types
    <3>2. l2Wallets[b].released = 0
      BY <2>1 DEF BridgeInv, SchedulesInv
    <3> QED
      BY <1>4, <3>1, <3>2
  <2>2. ASSUME NEW b \in DOMAIN l2Wallets
        PROVE  l2Wallets'[b].released <= b.salt.managedAmount
    <3>1. CASE b = a
      BY <1>3, <1>4, <3>1
    <3>2. CASE b # a
      <4>1. l2Wallets[b].released \in Nat /\ l2Wallets[b].released <= b.salt.managedAmount
        BY DEF BridgeInv, TypeOK, L2TypeOK, SchedulesInv
      <4> QED
        BY <1>4, <3>2, <4>1
    <3> QED
      BY <3>1, <3>2
  <2> QED
    BY <1>4, <1>5, <2>1, <2>2 DEF BridgeInv, SchedulesInv
<1>8. TokensStayWithTheirLock'
  <2>1. ASSUME NEW v \in L1Wallets PROVE Column(v)' = received[v]'
    <3>1. InTickets(v)' = InTickets(v) /\ InReturns(v)' = InReturns(v)
      BY <1>5, SameColumns
    <3>2. Column(v) = received[v]
      BY Columns DEF BridgeInv
    <3> QED
      BY <1>3, <1>4, <1>5, <3>1, <3>2, ColumnTypes DEF BridgeInv, Column
  <2> QED
    BY <2>1, ColumnsNext
<1>9. SurplusOnlyFromExtra'
  BY <1>5 DEF BridgeInv, SurplusOnlyFromExtra
<1> QED
  BY <1>4, <1>5, <1>6, <1>7, <1>8, <1>9, SameTool, SameData, SameAddresses DEF BridgeInv

(* A summand of what a lock holds or has released on L2. *)
LEMMA PartOnL2 ==
  ASSUME TypeOK, DataInv, NEW a \in DOMAIN l2Wallets
  PROVE  /\ l2Wallets[a].balance <= OnL2(a.salt.l1Address)
         /\ l2Wallets[a].released <= ReleasedOnL2(a.salt.l1Address)
<1> DEFINE S == L2WalletsOf(a.salt.l1Address)
           f == [b \in S |-> l2Wallets[b].balance]
           g == [b \in S |-> l2Wallets[b].released]
<1>1. a \in S /\ IsFiniteSet(S)
  BY Parts DEF L2WalletsOf
<1>2. /\ DOMAIN f = S /\ DOMAIN g = S /\ \A b \in S : f[b] \in Nat /\ g[b] \in Nat
      /\ f[a] = l2Wallets[a].balance /\ g[a] = l2Wallets[a].released
  BY <1>1, Parts
<1> HIDE DEF f, g
<1>3. f[a] <= SumFunction(f) /\ g[a] <= SumFunction(g)
  BY <1>1, <1>2, SumAtLeast
<1> QED
  BY <1>2, <1>3 DEF f, g, OnL2, ReleasedOnL2

(* What a surplus on L2 leaves in the wallet, together with what the       *)
(* wallet has released, covers the whole managed amount.                   *)
LEMMA L2WithdrawSurplusInv ==
  ASSUME BridgeInv, NEW a \in DOMAIN l2Wallets, NEW amount \in 1 .. Supply,
         L2WithdrawSurplus(a, amount),
         withdrawn' = [withdrawn EXCEPT ![a.salt.l1Address] = @ + amount],
         UNCHANGED <<toolVars, walletVars, messageVars, received, netETH, now>>
  PROVE  BridgeInv'
<1> DEFINE l1 == a.salt.l1Address
<1>1. /\ a.salt.managedAmount - l2Wallets[a].released + amount <= l2Wallets[a].balance
      /\ l2Wallets' = [l2Wallets EXCEPT ![a].balance = @ - amount]
      /\ UNCHANGED <<masterCopy, l1WalletToL2Wallet, l2WalletToL1Wallet>>
  BY DEF L2WithdrawSurplus, L2Outstanding
<1>2. /\ a \in L2WalletAddresses /\ l1 \in L1Wallets
      /\ a.salt.managedAmount = ScheduleOf[l1].managedAmount
      /\ a.salt.managedAmount \in Nat
      /\ l2Wallets[a].balance \in Nat /\ l2Wallets[a].released \in Nat
  BY DEF BridgeInv, TypeOK, L2TypeOK, DataInv, FaithfulData, L2WalletAddresses, WalletData
<1>3. amount \in Nat
  BY BridgeBoundsAssumption
<1>4. amount <= l2Wallets[a].balance
  BY <1>1, <1>2, <1>3 DEF BridgeInv, SchedulesInv
<1>5. /\ DOMAIN l2Wallets' = DOMAIN l2Wallets
      /\ \A b \in DOMAIN l2Wallets :
           l2Wallets'[b].released = l2Wallets[b].released + (IF b = a THEN 0 ELSE 0)
      /\ L2TypeOK' /\ RecordsInv'
      /\ \A w : /\ OnL2(w)' = OnL2(w) - (IF l1 = w THEN amount ELSE 0)
                /\ ReleasedOnL2(w)' = ReleasedOnL2(w) + (IF l1 = w THEN 0 ELSE 0)
  BY <1>1, <1>3, <1>4, L2WalletUpdated
<1>6. \A b \in DOMAIN l2Wallets : l2Wallets'[b].released = l2Wallets[b].released
  BY <1>5 DEF BridgeInv, TypeOK, L2TypeOK
<1>7. /\ UNCHANGED <<toL2, toL1>> /\ UNCHANGED addresses /\ UNCHANGED toolVars
      /\ UNCHANGED <<owner, manager, balance, released, received>>
      /\ UNCHANGED netETH
      /\ UNCHANGED messageVars /\ UNCHANGED now
  BY DEF messageVars, toolVars, walletVars
<1>8. \A v \in L1Wallets : withdrawn'[v] = withdrawn[v] + (IF v = l1 THEN amount ELSE 0)
  BY <1>2, <1>3, L1Types
<1>9. TypeOK'
  <2>1. WalletTypeOK'
    BY <1>2, <1>3, <1>7, L1Types DEF BridgeInv, TypeOK, WalletTypeOK
  <2> QED
    BY <1>5, <1>7, <2>1, SameTool, SameMessages DEF BridgeInv, TypeOK
<1>10. ASSUME NEW v \in L1Wallets
       PROVE  /\ Column(v)' = received[v]'
              /\ withdrawn'[v] > 0
                   => withdrawn'[v] + ScheduleOf[v].managedAmount <= received'[v]
  <2> HIDE DEF l1
  <2>1. InTickets(v)' = InTickets(v) /\ InReturns(v)' = InReturns(v)
    BY <1>7, SameColumns
  <2>2. Column(v) = received[v]
    BY Columns DEF BridgeInv
  <2>3. Column(v)' = received[v]'
    BY <1>3, <1>5, <1>7, <1>8, <2>1, <2>2, ColumnTypes DEF BridgeInv, Column
  <2>4. CASE v # l1
    <3>1. withdrawn'[v] = withdrawn[v] /\ received'[v] = received[v]
      BY <1>7, <1>8, <2>4, L1Types
    <3> QED
      BY <2>3, <3>1 DEF BridgeInv, SurplusOnlyFromExtra
  <2>5. CASE v = l1
    <3>1. received'[v] = received[v] /\ withdrawn'[v] = withdrawn[v] + amount
      BY <1>7, <1>8, <2>5
    <3>2. l2Wallets[a].balance <= OnL2(v) /\ l2Wallets[a].released <= ReleasedOnL2(v)
      BY <2>5, PartOnL2 DEF BridgeInv, l1
    <3>3. OnL2(v) + ReleasedOnL2(v) + withdrawn[v] <= received[v]
      BY <2>2, ColumnTypes DEF BridgeInv, Column
    <3>4. /\ OnL2(v) \in Nat /\ ReleasedOnL2(v) \in Nat
          /\ withdrawn[v] \in Nat /\ received[v] \in Nat
      BY ColumnTypes DEF BridgeInv
    <3>5. withdrawn'[v] + ScheduleOf[v].managedAmount <= received'[v]
      BY <1>1, <1>2, <1>3, <2>5, <3>1, <3>2, <3>3, <3>4
    <3> QED
      BY <2>3, <3>5
  <2> QED
    BY <2>4, <2>5
<1>11. TokensStayWithTheirLock' /\ SurplusOnlyFromExtra'
  BY <1>10, ColumnsNext DEF SurplusOnlyFromExtra
<1> QED
  BY <1>5, <1>6, <1>7, <1>9, <1>11, SameTool, SameData, SameAddresses, SameSchedules
  DEF BridgeInv

(* A withdrawal from L2 goes to the L1 wallet that the address was made    *)
(* for, whichever manager keeps the record.                                *)
LEMMA SendToL1Inv ==
  ASSUME BridgeInv, NEW a \in DOMAIN l2Wallets, NEW amount \in 1 .. Supply,
         SendToL1(a, amount)
  PROVE  BridgeInv'
<1> DEFINE l1 == a.salt.l1Address
           message == [seqNum |-> nextSeqNum, to |-> L1WalletOf(a), amount |-> amount]
<1>1. /\ L1WalletOf(a) # ZeroAddress /\ amount <= l2Wallets[a].balance
      /\ l2Wallets' = [l2Wallets EXCEPT ![a].balance = @ - amount]
      /\ UNCHANGED <<masterCopy, l1WalletToL2Wallet, l2WalletToL1Wallet>>
      /\ toL1' = toL1 \cup {message} /\ nextSeqNum' = nextSeqNum + 1
      /\ UNCHANGED <<toolVars, walletVars, toL2, history, now>>
  BY DEF SendToL1, WithdrawToL1Locked
<1>2. amount \in Nat \ {0} /\ nextSeqNum \in Nat
  BY BridgeBoundsAssumption DEF BridgeInv, TypeOK, MessageTypeOK
<1>3. L1WalletOf(a) = l1 /\ l1 \in L1Wallets
  <2>1. l2Wallets[a].manager \in L2Managers /\ l1 \in L1Wallets
    BY DEF BridgeInv, TypeOK, L2TypeOK, L2WalletAddresses, WalletData
  <2> QED
    BY <1>1, <2>1 DEF L1WalletOf, BridgeInv, RecordsInv
<1>4. /\ message.seqNum = nextSeqNum /\ message.to = l1 /\ message.amount = amount
      /\ message \in [seqNum : {nextSeqNum}, to : L1Wallets, amount : Nat \ {0}]
  BY <1>2, <1>3
<1> HIDE DEF message
<1>5. /\ DOMAIN l2Wallets' = DOMAIN l2Wallets
      /\ \A b \in DOMAIN l2Wallets :
           l2Wallets'[b].released = l2Wallets[b].released + (IF b = a THEN 0 ELSE 0)
      /\ L2TypeOK' /\ RecordsInv'
      /\ \A w : /\ OnL2(w)' = OnL2(w) - (IF l1 = w THEN amount ELSE 0)
                /\ ReleasedOnL2(w)' = ReleasedOnL2(w) + (IF l1 = w THEN 0 ELSE 0)
  BY <1>1, <1>2, L2WalletUpdated
<1>6. \A b \in DOMAIN l2Wallets : l2Wallets'[b].released = l2Wallets[b].released
  BY <1>5 DEF BridgeInv, TypeOK, L2TypeOK
<1>7. /\ UNCHANGED addresses /\ UNCHANGED <<now, released>>
      /\ UNCHANGED <<owner, manager, balance, released, received, withdrawn>>
      /\ UNCHANGED netETH
  BY <1>1 DEF toolVars, walletVars, history
<1>8. MessageTypeOK' /\ message \notin toL1
  <2>1. \A x \in toL1 : /\ x \in [seqNum : 0 .. nextSeqNum - 1, to : L1Wallets,
                                  amount : Nat \ {0}]
                        /\ x.seqNum # nextSeqNum
    BY <1>2 DEF BridgeInv, TypeOK, MessageTypeOK
  <2>2. \A x \in toL1 : x \in [seqNum : 0 .. nextSeqNum, to : L1Wallets, amount : Nat \ {0}]
    BY <1>2, <2>1
  <2>3. message \in [seqNum : 0 .. nextSeqNum, to : L1Wallets, amount : Nat \ {0}]
    BY <1>2, <1>4
  <2>4. \A t \in toL2 : t \in [seqNum : 0 .. nextSeqNum, to : L2Managers,
                               amount : Nat \ {0}, data : WalletData]
    BY <1>2 DEF BridgeInv, TypeOK, MessageTypeOK
  <2>5. nextSeqNum' \in Nat /\ nextSeqNum' - 1 = nextSeqNum
    BY <1>1, <1>2
  <2> QED
    BY <1>1, <1>4, <2>1, <2>2, <2>3, <2>4, <2>5 DEF MessageTypeOK
<1>9. TypeOK'
  BY <1>1, <1>5, <1>7, <1>8, SameTool DEF BridgeInv, TypeOK, WalletTypeOK
<1>10. DataInv'
  BY <1>1, <1>5, FS_AddElement DEF BridgeInv, DataInv, FaithfulData
<1>11. TokensStayWithTheirLock'
  <2> HIDE DEF l1
  <2>1. ASSUME NEW v \in L1Wallets PROVE Column(v)' = received[v]'
    <3>1. InTickets(v)' = InTickets(v)
      BY <1>1, SameColumns
    <3>2. InReturns(v)' = InReturns(v) + (IF l1 = v THEN amount ELSE 0)
      BY <1>1, <1>2, <1>4, <1>8, ReturnSent DEF BridgeInv
    <3>3. Column(v) = received[v]
      BY Columns DEF BridgeInv
    <3> QED
      BY <1>2, <1>5, <1>7, <3>1, <3>2, <3>3, ColumnTypes DEF BridgeInv, Column
  <2> QED
    BY <2>1, ColumnsNext
<1>12. SurplusOnlyFromExtra'
  BY <1>7 DEF BridgeInv, SurplusOnlyFromExtra
<1> QED
  BY <1>1, <1>5, <1>6, <1>7, <1>9, <1>10, <1>11, <1>12, SameTool, SameAddresses,
     SameSchedules DEF BridgeInv

(* The tokens of a message home reach the lock that it names. *)
LEMMA ExecuteWithdrawalInv ==
  ASSUME BridgeInv, NEW message \in toL1, ExecuteWithdrawal(message)
  PROVE  BridgeInv'
<1>1. /\ toL1' = toL1 \ {message}
      /\ balance' = [balance EXCEPT ![message.to] = @ + message.amount]
      /\ UNCHANGED <<toolVars, l2Vars, owner, manager, released, toL2, nextSeqNum, history, now>>
  BY DEF ExecuteWithdrawal
<1>2. /\ UNCHANGED l2Wallets /\ UNCHANGED addresses /\ UNCHANGED <<now, released>>
      /\ UNCHANGED <<received, withdrawn>>
      /\ UNCHANGED netETH
  BY <1>1 DEF l2Vars, toolVars, history
<1>3. message.to \in L1Wallets /\ message.amount \in Nat
  BY DEF BridgeInv, TypeOK, MessageTypeOK
<1>4. MessageTypeOK'
  BY <1>1 DEF BridgeInv, TypeOK, MessageTypeOK
<1>5. WalletTypeOK'
  BY <1>1, <1>2, <1>3 DEF BridgeInv, TypeOK, WalletTypeOK
<1>6. TypeOK'
  BY <1>1, <1>2, <1>4, <1>5, SameTool, SameL2 DEF BridgeInv, TypeOK
<1>7. DataInv'
  BY <1>1, <1>2, FS_RemoveElement DEF BridgeInv, DataInv, FaithfulData
<1>8. TokensStayWithTheirLock'
  <2>1. ASSUME NEW v \in L1Wallets PROVE Column(v)' = received[v]'
    <3>1. /\ InTickets(v)' = InTickets(v)
          /\ OnL2(v)' = OnL2(v) /\ ReleasedOnL2(v)' = ReleasedOnL2(v)
      BY <1>1, <1>2, SameColumns
    <3>2. /\ InReturns(v)' \in Nat
          /\ InReturns(v) = InReturns(v)' + (IF message.to = v THEN message.amount ELSE 0)
      BY <1>1, ReturnExecuted DEF BridgeInv
    <3>3. balance'[v] = balance[v] + (IF message.to = v THEN message.amount ELSE 0)
      BY <1>1, <1>3, L1Types
    <3>4. Column(v) = received[v]
      BY Columns DEF BridgeInv
    <3> QED
      BY <1>2, <1>3, <3>1, <3>2, <3>3, <3>4, ColumnTypes DEF BridgeInv, Column
  <2> QED
    BY <2>1, ColumnsNext
<1>9. SurplusOnlyFromExtra'
  BY <1>2 DEF BridgeInv, SurplusOnlyFromExtra
<1> QED
  BY <1>1, <1>2, <1>6, <1>7, <1>8, <1>9, SameTool, SameL2, SameAddresses, SameSchedules
  DEF BridgeInv

-----------------------------------------------------------------------------
(* Every step of the usage of the bridge preserves the invariant. *)
LEMMA UsageInv ==
  ASSUME BridgeInv, Usage
  PROVE  BridgeInv'
<1>1. ASSUME NEW w \in L1Wallets, NEW amount \in 1 .. Supply, Fund(w, amount)
      PROVE  BridgeInv'
  BY <1>1, FundInv
<1>2. ASSUME NEW w \in L1Wallets, L1Release(w)
      PROVE  BridgeInv'
  BY <1>2, L1ReleaseInv
<1>3. ASSUME NEW w \in L1Wallets, NEW amount \in 1 .. Supply, L1WithdrawSurplus(w, amount)
      PROVE  BridgeInv'
  BY <1>3, L1WithdrawSurplusInv
<1>4. ASSUME NEW w \in L1Wallets, NEW amount \in 1 .. Supply,
             NEW expectedEth \in 0 .. MaxETH,
             NEW newBeneficiary \in L2Accounts \cup L1Wallets \cup {ZeroAddress},
             SendToL2(w, amount, newBeneficiary, expectedEth)
      PROVE  BridgeInv'
  BY <1>4, SendToL2Inv
<1>5. ASSUME NEW w \in L1Wallets, ToolCall(w)
      PROVE  BridgeInv'
  BY <1>5, ToolCallInv
<1>6. ASSUME NEW ticket \in toL2, Redeem(ticket)
      PROVE  BridgeInv'
  BY <1>6, RedeemInv
<1>7. ASSUME NEW a \in DOMAIN l2Wallets, L2WalletCall(a)
      PROVE  BridgeInv'
  BY <1>7, L2ReleaseInv, L2WithdrawSurplusInv DEF L2WalletCall
<1>8. ASSUME NEW a \in DOMAIN l2Wallets, NEW amount \in 1 .. Supply, SendToL1(a, amount)
      PROVE  BridgeInv'
  BY <1>8, SendToL1Inv
<1>9. ASSUME NEW message \in toL1, ExecuteWithdrawal(message)
      PROVE  BridgeInv'
  BY <1>9, ExecuteWithdrawalInv
<1> QED
  BY <1>1, <1>2, <1>3, <1>4, <1>5, <1>6, <1>7, <1>8, <1>9, TickInv DEF Usage

(* So does a step that changes nothing. *)
LEMMA StutterInv ==
  ASSUME BridgeInv, UNCHANGED vars
  PROVE  BridgeInv'
<1>1. /\ UNCHANGED toolVars /\ UNCHANGED l2Vars /\ UNCHANGED messageVars
      /\ UNCHANGED walletVars /\ UNCHANGED history /\ UNCHANGED now
  BY DEF vars
<1>2. /\ UNCHANGED l2Wallets /\ UNCHANGED <<toL2, toL1>> /\ UNCHANGED addresses
      /\ UNCHANGED <<owner, manager, balance, released, received, withdrawn>>
      /\ UNCHANGED netETH
  BY <1>1 DEF l2Vars, messageVars, toolVars, history, walletVars
<1>3. TypeOK'
  BY <1>1, <1>2, SameTool, SameL2, SameMessages DEF BridgeInv, TypeOK, WalletTypeOK
<1>4. TokensStayWithTheirLock' /\ SurplusOnlyFromExtra'
  BY <1>2, SameAccounts, SameColumns
<1> QED
  BY <1>1, <1>2, <1>3, <1>4, SameL2, SameTool, SameData, SameAddresses, SameSchedules
  DEF BridgeInv

(* The invariant is inductive. *)
LEMMA BridgeInvPreserved == BridgeInv /\ [Next]_vars => BridgeInv'
  BY UsageInv, WalletReconfigurationInv, BridgeReconfigurationInv, StutterInv DEF Next

(* The invariant holds whatever is reconfigured at whatever time. *)
THEOREM BridgeInvariant == Spec => []BridgeInv
<1>1. Init => BridgeInv
  BY InitBridgeInv DEF Init, Unconfigured
<1> QED
  BY <1>1, BridgeInvPreserved, PTL DEF Spec

(* Every variable of the bridge keeps its type. *)
THEOREM BridgeTypeCorrectness == Spec => []TypeOK
<1>1. BridgeInv => TypeOK
  BY DEF BridgeInv
<1> QED
  BY <1>1, BridgeInvariant, PTL

(* No token of a lock is lost, duplicated or given to another lock.        *)
THEOREM ConservationSafety == Spec => []TokensStayWithTheirLock
<1>1. BridgeInv => TokensStayWithTheirLock
  BY DEF BridgeInv
<1> QED
  BY <1>1, BridgeInvariant, PTL

(* Moving tokens between the chains unlocks none of them before the end of *)
(* the schedule.                                                           *)
LEMMA LockedByInv == BridgeInv => LockedAcrossChains
<1> SUFFICES ASSUME BridgeInv, NEW w \in L1Wallets,
                    Proportioned(ScheduleOf[w]), now < ScheduleOf[w].endTime
             PROVE  released[w] + ReleasedOnL2(w) <= UnlockedAmount(ScheduleOf[w], now)
  BY DEF LockedAcrossChains
<1>1. released[w] <= UnlockedAmount(ScheduleOf[w], now)
  BY DEF BridgeInv, SchedulesInv
<1>2. \A a \in L2WalletsOf(w) : l2Wallets[a].released = 0
  BY DEF BridgeInv, SchedulesInv, DataInv, FaithfulData, L2WalletsOf
<1>3. [a \in L2WalletsOf(w) |-> l2Wallets[a].released] = [a \in L2WalletsOf(w) |-> 0]
  BY <1>2
<1>4. SumFunction([a \in L2WalletsOf(w) |-> 0]) = 0
  BY Parts, SumOfZeros DEF BridgeInv
<1>5. ReleasedOnL2(w) = 0
  BY <1>3, <1>4 DEF ReleasedOnL2
<1> QED
  BY <1>1, <1>5, L1Types

(* On L1 and L2 together, a lock never pays out more than its schedule has *)
(* unlocked.                                                               *)
THEOREM LockedAcrossSafety == Spec => []LockedAcrossChains
  BY LockedByInv, BridgeInvariant, PTL

(* A wallet whose address was set by hand never has tokens on L2 that the  *)
(* tool sent.                                                              *)
THEOREM ManualSafety == Spec => []ManualExcludesTransfer
<1>1. BridgeInv => ManualExcludesTransfer
  BY DEF BridgeInv
<1> QED
  BY <1>1, BridgeInvariant, PTL

(* No ticket is stuck because the address of its wallet is taken. *)
LEMMA RedeemableByInv == BridgeInv => TicketsRedeemable
<1> SUFFICES ASSUME BridgeInv, NEW ticket \in toL2,
                    l1WalletToL2Wallet[ticket.to][ticket.data.l1Address] = ZeroAddress
             PROVE  CanDeploy(DeploymentAddress(ticket.data, masterCopy[ticket.to], ticket.to),
                              DOMAIN l2Wallets)
  BY DEF TicketsRedeemable
<1> QED
  BY DEF BridgeInv, RecordsInv, CanDeploy, DeploymentAddress

(* Whatever is reconfigured, the L2 manager can execute every ticket under *)
(* way.                                                                    *)
THEOREM RedeemableSafety == Spec => []TicketsRedeemable
  BY RedeemableByInv, BridgeInvariant, PTL

(* An L2 address, once recorded, is never replaced: only two operations    *)
(* write it, and both only where there is none.                            *)
LEMMA AddressStep ==
  ASSUME BridgeInv, [Next]_vars, NEW w \in L1Wallets, l2WalletAddress[w] # ZeroAddress
  PROVE  l2WalletAddress'[w] = l2WalletAddress[w]
<1>1. l2WalletAddress \in [L1Wallets -> L2WalletAddresses \cup L2Accounts \cup {ZeroAddress}]
  BY DEF BridgeInv, TypeOK, ToolTypeOK
<1>2. ASSUME UNCHANGED toolVars \/ UNCHANGED addresses
      PROVE  l2WalletAddress'[w] = l2WalletAddress[w]
  BY <1>2 DEF toolVars, addresses
<1>3. ASSUME NEW v \in L1Wallets, NEW amount \in 1 .. Supply,
             NEW expectedEth \in 0 .. MaxETH,
             NEW newBeneficiary \in L2Accounts \cup L1Wallets \cup {ZeroAddress},
             SendToL2(v, amount, newBeneficiary, expectedEth)
      PROVE  l2WalletAddress'[w] = l2WalletAddress[w]
  <2>1. RecordAddress(v, EncodedData(v, WalletOf(v), newBeneficiary), WalletOf(v), now)
    BY <1>3 DEF SendToL2, DepositToL2Locked
  <2> QED
    BY <1>1, <2>1 DEF RecordAddress
<1>4. ASSUME NEW v \in L1Wallets, ToolCall(v)
      PROVE  l2WalletAddress'[w] = l2WalletAddress[w]
  BY <1>1, <1>2, <1>4
  DEF ToolCall, DepositETH, WithdrawETH, PullETH, SetL2WalletAddressManually
<1>5. CASE Usage
  BY <1>2, <1>3, <1>4, <1>5
  DEF Usage, Fund, L1Release, L1WithdrawSurplus, Redeem, L2WalletCall, SendToL1,
      ExecuteWithdrawal, Tick
<1>6. CASE WalletReconfiguration \/ BridgeReconfiguration
  BY <1>2, <1>6 DEF WalletReconfiguration, L1TransferOwnership, L1SetManager,
                    BridgeReconfiguration, SetL2LockManager, SetL2WalletOwner
<1> QED
  BY <1>2, <1>5, <1>6 DEF Next, vars

(* The L2 address of a lock, once recorded, stays: no operation replaces   *)
(* it.                                                                     *)
THEOREM AddressSafety == Spec => L2AddressFixed
<1>1. BridgeInv /\ [Next]_vars
        => [ \A w \in L1Wallets : l2WalletAddress[w] # ZeroAddress
               => l2WalletAddress'[w] = l2WalletAddress[w] ]_vars
  BY AddressStep
<1> QED
  BY <1>1, BridgeInvariant, PTL DEF Spec, L2AddressFixed

-----------------------------------------------------------------------------
(* While nothing is reconfigured, the address on record is computed from   *)
(* what every later transfer of the wallet sends again, the tickets on the *)
(* way will create a wallet at that address, and the managers have no      *)
(* other one on record.                                                    *)
Computed(w) ==
  DeploymentAddress(EncodedData(w, WalletOf(w), l2Beneficiary[w]),
                    l2Implementation, L2ManagerOf(WalletOf(w)))

AddressesComputed ==
  \A w \in L1Wallets :
    l2WalletAddress[w] # ZeroAddress /\ ~l2WalletAddressSetManually[w]
      => l2Beneficiary[w] # ZeroAddress /\ l2WalletAddress[w] = Computed(w)

TicketsForAddresses ==
  \A ticket \in toL2 :
    l2WalletAddress[ticket.data.l1Address]
      = DeploymentAddress(ticket.data, l2Implementation, ticket.to)

StableInv ==
  /\ BridgeInv
  /\ masterCopy = [m \in L2Managers |-> l2Implementation]
  /\ AddressesComputed
  /\ TicketsForAddresses
  /\ RecordedAddressIsTheWallet

(* A bridge that is configured and not yet used satisfies it. *)
LEMMA InitStableInv == ConfiguredInit => StableInv
<1> SUFFICES ASSUME ConfiguredInit PROVE StableInv
  OBVIOUS
<1>1. BridgeInv
  BY InitBridgeInv DEF ConfiguredInit
<1> QED
  BY <1>1 DEF ConfiguredInit, BridgeInit, ToolInit, L2Init, StableInv, AddressesComputed,
              TicketsForAddresses, RecordedAddressIsTheWallet

(* What Usage leaves as it was configured. *)
LEMMA UsageKeepsConfiguration ==
  ASSUME Usage
  PROVE  /\ UNCHANGED <<l2LockManager, l2WalletOwner>> /\ UNCHANGED <<owner, manager>>
         /\ UNCHANGED masterCopy
<1>1. ASSUME NEW w \in L1Wallets, ToolCall(w)
      PROVE  /\ UNCHANGED <<l2LockManager, l2WalletOwner>> /\ UNCHANGED <<owner, manager>>
             /\ UNCHANGED masterCopy
  BY <1>1 DEF ToolCall, DepositETH, WithdrawETH, PullETH, SetL2WalletAddressManually,
              configuration, walletVars, l2Vars
<1>2. ASSUME NEW ticket \in toL2, Redeem(ticket)
      PROVE  /\ UNCHANGED <<l2LockManager, l2WalletOwner>> /\ UNCHANGED <<owner, manager>>
             /\ UNCHANGED masterCopy
  BY <1>2 DEF Redeem, OnTokenTransfer, CreateL2Wallet, toolVars, configuration, walletVars
<1>3. ASSUME NEW a \in DOMAIN l2Wallets, NEW amount,
             L2WalletCall(a) \/ SendToL1(a, amount)
      PROVE  /\ UNCHANGED <<l2LockManager, l2WalletOwner>> /\ UNCHANGED <<owner, manager>>
             /\ UNCHANGED masterCopy
  BY <1>3 DEF L2WalletCall, L2Release, L2WithdrawSurplus, SendToL1, WithdrawToL1Locked,
              toolVars, configuration, walletVars
<1>4. ASSUME NEW w \in L1Wallets, NEW amount, NEW newBeneficiary, NEW expectedEth,
             SendToL2(w, amount, newBeneficiary, expectedEth)
      PROVE  /\ UNCHANGED <<l2LockManager, l2WalletOwner>> /\ UNCHANGED <<owner, manager>>
             /\ UNCHANGED masterCopy
  BY <1>4 DEF SendToL2, DepositToL2Locked, configuration, l2Vars
<1>5. ASSUME NEW w \in L1Wallets, NEW amount,
             Fund(w, amount) \/ L1Release(w) \/ L1WithdrawSurplus(w, amount)
      PROVE  /\ UNCHANGED <<l2LockManager, l2WalletOwner>> /\ UNCHANGED <<owner, manager>>
             /\ UNCHANGED masterCopy
  BY <1>5 DEF Fund, L1Release, L1WithdrawSurplus, toolVars, configuration,
              walletVars, l2Vars
<1>6. ASSUME NEW message \in toL1, ExecuteWithdrawal(message)
      PROVE  /\ UNCHANGED <<l2LockManager, l2WalletOwner>> /\ UNCHANGED <<owner, manager>>
             /\ UNCHANGED masterCopy
  BY <1>6 DEF ExecuteWithdrawal, toolVars, configuration, walletVars, l2Vars
<1>7. ASSUME Tick
      PROVE  /\ UNCHANGED <<l2LockManager, l2WalletOwner>> /\ UNCHANGED <<owner, manager>>
             /\ UNCHANGED masterCopy
  BY <1>7 DEF Tick, toolVars, configuration, walletVars, l2Vars
<1> QED
  BY <1>1, <1>2, <1>3, <1>4, <1>5, <1>6, <1>7 DEF Usage

(* The address computed for a lock stays while its beneficiary does. *)
LEMMA ComputedKept ==
  ASSUME Usage, NEW w \in L1Wallets, l2Beneficiary'[w] = l2Beneficiary[w]
  PROVE  Computed(w)' = Computed(w)
  BY UsageKeepsConfiguration
  DEF Computed, EncodedData, WalletOf, L2ManagerOf, DeploymentAddress

(* Steps that do not write addresses, beneficiaries or the managers' maps. *)
LEMMA SameComputed ==
  ASSUME StableInv, Usage, BridgeInv', UNCHANGED addresses,
         toL2' \subseteq toL2, UNCHANGED l1WalletToL2Wallet
  PROVE  StableInv'
<1>1. masterCopy' = [m \in L2Managers |-> l2Implementation]
  BY UsageKeepsConfiguration DEF StableInv
<1>2. AddressesComputed'
  BY ComputedKept DEF StableInv, AddressesComputed, addresses
<1>3. TicketsForAddresses' /\ RecordedAddressIsTheWallet'
  BY DEF StableInv, TicketsForAddresses, RecordedAddressIsTheWallet, addresses
<1> QED
  BY <1>1, <1>2, <1>3 DEF StableInv

(* An address in use stays, so the records that name it stay true. *)
LEMMA RecordsKept ==
  ASSUME StableInv, Usage, UNCHANGED l1WalletToL2Wallet
  PROVE  RecordedAddressIsTheWallet'
  BY AddressStep DEF StableInv, RecordedAddressIsTheWallet, Next

(* A ticket under way stays bound for the address on record. *)
LEMMA TicketsKept ==
  ASSUME StableInv, Usage, NEW ticket \in toL2
  PROVE  l2WalletAddress'[ticket.data.l1Address]
           = DeploymentAddress(ticket.data, l2Implementation, ticket.to)
<1> DEFINE w == ticket.data.l1Address
<1>1. w \in L1Wallets /\ TicketsOf(w) # {}
  BY DEF StableInv, BridgeInv, TypeOK, MessageTypeOK, WalletData, TicketsOf
<1>2. l2WalletAddress[w] # ZeroAddress
  BY <1>1 DEF StableInv, BridgeInv, AddressInv
<1>3. l2WalletAddress'[w] = l2WalletAddress[w]
  BY <1>1, <1>2, AddressStep DEF StableInv, Next
<1> QED
  BY <1>3 DEF StableInv, TicketsForAddresses

(* The first deposit records what it computed; a later one computes the    *)
(* same again, since it has to name the same beneficiary.                  *)
LEMMA SendToL2Stable ==
  ASSUME StableInv, Usage, BridgeInv', NEW w \in L1Wallets, NEW amount \in 1 .. Supply,
         NEW expectedEth \in 0 .. MaxETH,
         NEW newBeneficiary \in L2Accounts \cup L1Wallets \cup {ZeroAddress},
         SendToL2(w, amount, newBeneficiary, expectedEth)
  PROVE  StableInv'
<1> DEFINE ticket == Ticket(w, amount, newBeneficiary)
           address == DeploymentAddress(EncodedData(w, WalletOf(w), newBeneficiary),
                                        l2Implementation, L2ManagerOf(WalletOf(w)))
<1>1. /\ toL2' = toL2 \cup {ticket}
      /\ BeneficiaryAccepted(w, newBeneficiary)
      /\ l2Beneficiary' = [l2Beneficiary EXCEPT ![w] = newBeneficiary]
      /\ RecordAddress(w, EncodedData(w, WalletOf(w), newBeneficiary), WalletOf(w), now)
      /\ UNCHANGED l2WalletAddressSetManually
      /\ UNCHANGED l1WalletToL2Wallet
  BY DEF SendToL2, DepositToL2Locked, Ticket, l2Vars
<1>2. /\ ticket.to = L2ManagerOf(WalletOf(w)) /\ ticket.data.l1Address = w
      /\ ticket.data = EncodedData(w, WalletOf(w), newBeneficiary)
  BY DEF Ticket, EncodedData
<1>3. newBeneficiary \in L2Accounts /\ newBeneficiary # ZeroAddress
  BY DepositTypes, AddressesAssumption DEF StableInv
<1>4. /\ l2WalletAddress \in [L1Wallets -> L2WalletAddresses \cup L2Accounts \cup {ZeroAddress}]
      /\ l2Beneficiary \in [L1Wallets -> L2Accounts \cup {ZeroAddress}]
  BY DEF StableInv, BridgeInv, TypeOK, ToolTypeOK
<1>5. l2WalletAddress'[w] = address
  <2>1. CASE l2WalletAddress[w] = ZeroAddress
    BY <1>1, <1>4, <2>1 DEF RecordAddress
  <2>2. CASE l2WalletAddress[w] # ZeroAddress
    <3>1. ~l2WalletAddressSetManually[w] /\ UNCHANGED l2WalletAddress
      BY <1>1, <2>2 DEF RecordAddress
    <3>2. l2Beneficiary[w] # ZeroAddress /\ l2WalletAddress[w] = Computed(w)
      BY <2>2, <3>1 DEF StableInv, AddressesComputed
    <3>3. newBeneficiary = l2Beneficiary[w]
      BY <1>1, <3>2 DEF BeneficiaryAccepted
    <3> QED
      BY <3>1, <3>2, <3>3 DEF Computed
  <2> QED
    BY <2>1, <2>2
<1>6. Computed(w)' = address
  <2>1. l2Beneficiary'[w] = newBeneficiary
    BY <1>1, <1>4
  <2> QED
    BY <2>1, UsageKeepsConfiguration
    DEF Computed, EncodedData, WalletOf, L2ManagerOf, DeploymentAddress
<1> HIDE DEF ticket
<1>7. AddressesComputed'
  <2>1. ASSUME NEW v \in L1Wallets, l2WalletAddress'[v] # ZeroAddress,
               ~l2WalletAddressSetManually'[v]
        PROVE  l2Beneficiary'[v] # ZeroAddress /\ l2WalletAddress'[v] = Computed(v)'
    <3>1. CASE v = w
      BY <1>1, <1>3, <1>4, <1>5, <1>6, <3>1
    <3>2. CASE v # w
      <4>1. l2WalletAddress'[v] = l2WalletAddress[v] /\ l2Beneficiary'[v] = l2Beneficiary[v]
        BY <1>1, <1>4, <3>2 DEF RecordAddress
      <4> QED
        BY <1>1, <2>1, <4>1, ComputedKept DEF StableInv, AddressesComputed
    <3> QED
      BY <3>1, <3>2
  <2> QED
    BY <2>1 DEF AddressesComputed
<1>8. TicketsForAddresses'
  BY <1>1, <1>2, <1>5, TicketsKept DEF TicketsForAddresses
<1>9. masterCopy' = [m \in L2Managers |-> l2Implementation]
  BY UsageKeepsConfiguration DEF StableInv
<1>10. RecordedAddressIsTheWallet'
  BY <1>1, RecordsKept
<1> QED
  BY <1>7, <1>8, <1>9, <1>10 DEF StableInv

(* The calls of the tool that move no token keep addresses as computed. *)
LEMMA ToolCallStable ==
  ASSUME StableInv, Usage, BridgeInv', NEW w \in L1Wallets, ToolCall(w)
  PROVE  StableInv'
<1>1. UNCHANGED toL2 /\ UNCHANGED l1WalletToL2Wallet /\ UNCHANGED l2Beneficiary
  BY DEF ToolCall, messageVars, l2Vars, DepositETH, WithdrawETH, PullETH,
         SetL2WalletAddressManually, addresses
<1>2. AddressesComputed'
  <2>1. CASE UNCHANGED addresses
    BY <2>1, ComputedKept DEF StableInv, AddressesComputed, addresses
  <2>2. CASE \E l2Wallet : SetL2WalletAddressManually(w, WalletOf(w), l2Wallet, now)
    <3>1. /\ l2WalletAddressSetManually'[w]
          /\ \A v \in L1Wallets \ {w} :
               /\ l2WalletAddress'[v] = l2WalletAddress[v]
               /\ l2WalletAddressSetManually'[v] = l2WalletAddressSetManually[v]
      BY <2>2 DEF SetL2WalletAddressManually, StableInv, BridgeInv, TypeOK, ToolTypeOK
    <3> QED
      BY <1>1, <3>1, ComputedKept DEF StableInv, AddressesComputed
  <2> QED
    BY <2>1, <2>2 DEF ToolCall, DepositETH, WithdrawETH, PullETH
<1>3. TicketsForAddresses'
  BY <1>1, TicketsKept DEF TicketsForAddresses
<1>4. masterCopy' = [m \in L2Managers |-> l2Implementation]
  BY UsageKeepsConfiguration DEF StableInv
<1>5. RecordedAddressIsTheWallet'
  BY <1>1, RecordsKept
<1> QED
  BY <1>2, <1>3, <1>4, <1>5 DEF StableInv

(* The wallet that a ticket creates is the one on record on L1. *)
LEMMA RedeemStable ==
  ASSUME StableInv, Usage, BridgeInv', NEW ticket \in toL2, Redeem(ticket)
  PROVE  StableInv'
<1>1. /\ UNCHANGED addresses /\ toL2' \subseteq toL2
      /\ OnTokenTransfer(ticket.to, ticket.data, ticket.amount)
  BY DEF Redeem, toolVars
<1>2. CASE UNCHANGED l1WalletToL2Wallet
  BY <1>1, <1>2, SameComputed
<1>3. CASE CreateL2Wallet(ticket.to, ticket.data, ticket.amount)
  <2>1. /\ ticket.to \in L2Managers
        /\ l1WalletToL2Wallet \in
             [L2Managers -> [L1Wallets -> L2WalletAddresses \cup {ZeroAddress}]]
    BY DEF StableInv, BridgeInv, TypeOK, MessageTypeOK, L2TypeOK
  <2>2. l1WalletToL2Wallet' =
          [l1WalletToL2Wallet EXCEPT ![ticket.to][ticket.data.l1Address]
             = DeploymentAddress(ticket.data, l2Implementation, ticket.to)]
    BY <1>3, <2>1 DEF CreateL2Wallet, StableInv
  <2>3. l2WalletAddress[ticket.data.l1Address]
          = DeploymentAddress(ticket.data, l2Implementation, ticket.to)
    BY DEF StableInv, TicketsForAddresses
  <2>4. UNCHANGED l2WalletAddress
    BY <1>1 DEF addresses
  <2>5. RecordedAddressIsTheWallet'
    <3> SUFFICES ASSUME NEW w \in L1Wallets, NEW m \in L2Managers,
                        l1WalletToL2Wallet'[m][w] # ZeroAddress
                 PROVE  l1WalletToL2Wallet'[m][w] = l2WalletAddress'[w]
      BY DEF RecordedAddressIsTheWallet
    <3>1. \/ l1WalletToL2Wallet'[m][w] = l1WalletToL2Wallet[m][w]
          \/ /\ w = ticket.data.l1Address
             /\ l1WalletToL2Wallet'[m][w]
                  = DeploymentAddress(ticket.data, l2Implementation, ticket.to)
      BY <2>1, <2>2
    <3> QED
      BY <2>3, <2>4, <3>1 DEF StableInv, RecordedAddressIsTheWallet
  <2>6. AddressesComputed'
    BY <1>1, ComputedKept DEF StableInv, AddressesComputed, addresses
  <2>7. TicketsForAddresses'
    BY <1>1, TicketsKept DEF TicketsForAddresses
  <2>8. masterCopy' = [m \in L2Managers |-> l2Implementation]
    BY UsageKeepsConfiguration DEF StableInv
  <2> QED
    BY <2>5, <2>6, <2>7, <2>8 DEF StableInv
<1> QED
  BY <1>1, <1>2, <1>3 DEF OnTokenTransfer

(* The steps that touch neither addresses nor the maps of the managers. *)
LEMMA OtherUsageStable ==
  ASSUME StableInv, Usage, BridgeInv',
         \/ \E w \in L1Wallets, amount \in 1 .. Supply :
              Fund(w, amount) \/ L1Release(w) \/ L1WithdrawSurplus(w, amount)
         \/ \E w \in L1Wallets : L1Release(w)
         \/ \E a \in DOMAIN l2Wallets, amount \in 1 .. Supply :
              L2WalletCall(a) \/ SendToL1(a, amount)
         \/ \E a \in DOMAIN l2Wallets : L2WalletCall(a)
         \/ \E message \in toL1 : ExecuteWithdrawal(message)
         \/ Tick
  PROVE  StableInv'
<1>1. /\ UNCHANGED toolVars
      /\ UNCHANGED toL2 /\ UNCHANGED l1WalletToL2Wallet
  BY DEF Fund, L1Release, L1WithdrawSurplus, L2WalletCall, L2Release, L2WithdrawSurplus,
         SendToL1, WithdrawToL1Locked, ExecuteWithdrawal, Tick, messageVars, l2Vars
<1> QED
  BY <1>1, SameComputed DEF toolVars

(* The invariant is inductive as long as the configuration stays. *)
LEMMA StableInvPreserved == StableInv /\ [Usage]_vars => StableInv'
<1> SUFFICES ASSUME StableInv, [Usage]_vars PROVE StableInv'
  OBVIOUS
<1>1. BridgeInv'
  BY BridgeInvPreserved DEF StableInv, Next
<1>2. CASE Usage
  <2>1. ASSUME NEW w \in L1Wallets, NEW amount \in 1 .. Supply,
               NEW expectedEth \in 0 .. MaxETH,
               NEW newBeneficiary \in L2Accounts \cup L1Wallets \cup {ZeroAddress},
               SendToL2(w, amount, newBeneficiary, expectedEth)
        PROVE  StableInv'
    BY <1>1, <1>2, <2>1, SendToL2Stable
  <2> QED
    BY <1>1, <1>2, <2>1, ToolCallStable, RedeemStable, OtherUsageStable DEF Usage
<1>3. CASE UNCHANGED vars
  <2>1. /\ UNCHANGED <<l2LockManager, l2WalletOwner>> /\ UNCHANGED <<owner, manager>>
        /\ UNCHANGED addresses /\ UNCHANGED toL2
        /\ UNCHANGED masterCopy /\ UNCHANGED l1WalletToL2Wallet
    BY <1>3 DEF vars, toolVars, l2Vars, walletVars, messageVars, configuration
  <2>2. AddressesComputed'
    BY <2>1 DEF StableInv, AddressesComputed, addresses, Computed, EncodedData, WalletOf,
                L2ManagerOf
  <2>3. TicketsForAddresses' /\ RecordedAddressIsTheWallet'
    BY <2>1 DEF StableInv, TicketsForAddresses, RecordedAddressIsTheWallet, addresses
  <2> QED
    BY <1>1, <2>1, <2>2, <2>3 DEF StableInv
<1> QED
  BY <1>2, <1>3

(* While nothing is reconfigured, every address on record is the computed  *)
(* one.                                                                    *)
THEOREM StableInvariant == StableSpec => []StableInv
  BY InitStableInv, StableInvPreserved, PTL DEF StableSpec

(* While the two ends stay as configured, the address on record on L1 is   *)
(* that of the wallet that the tokens reach.                               *)
THEOREM RecordedAddressSafety == StableSpec => []RecordedAddressIsTheWallet
<1>1. StableInv => RecordedAddressIsTheWallet
  BY DEF StableInv
<1> QED
  BY <1>1, StableInvariant, PTL

(* A surplus is only ever taken of what was sent on top of the managed     *)
(* amount; reconfiguration does not change that.                           *)
THEOREM BridgeSurplusIsExtra ==
  /\ Spec => []SurplusOnlyFromExtra
  /\ StableSpec => []SurplusOnlyFromExtra
<1>1. BridgeInv => SurplusOnlyFromExtra
  BY DEF BridgeInv
<1>2. StableInv => SurplusOnlyFromExtra
  BY DEF StableInv, BridgeInv
<1> QED
  BY <1>1, <1>2, BridgeInvariant, StableInvariant, PTL

(* The ETH of each token lock pays for its own calls and tickets only, and *)
(* the tool holds the ETH of all of them.                                  *)
THEOREM EthSafety ==
  /\ Spec => []ETHKeptApart
  /\ StableSpec => []ETHKeptApart
<1>1. BridgeInv => ETHKeptApart
  BY DEF BridgeInv
<1>2. StableInv => ETHKeptApart
  BY DEF StableInv, BridgeInv
<1> QED
  BY <1>1, <1>2, BridgeInvariant, StableInvariant, PTL
=============================================================================
