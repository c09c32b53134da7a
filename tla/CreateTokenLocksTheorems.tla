---------------------- MODULE CreateTokenLocksTheorems ----------------------
(***************************************************************************)
(* What the manager funded and what the result file says, for any deploy   *)
(* files, any number of lines, and any number of transactions under way.   *)
(***************************************************************************)
EXTENDS CreateTokenLocks, ArithmeticTheorems

(* The result file is true because what it says was true of the            *)
(* transaction: a transaction that succeeded has created the wallet of its *)
(* line, and a line in work awaits a transaction of its own.               *)
SentTrue ==
  /\ sent \in Seq(Transactions)
  /\ \A n \in DOMAIN sent :
       sent[n].status = "succeeded" =>
         /\ sent[n].address.salt = Salt(sent[n].line)
         /\ sent[n].address \in DOMAIN wallets

WaitingTrue ==
  /\ todo \subseteq Lines
  /\ DOMAIN waiting \subseteq Lines
  /\ \A l \in DOMAIN waiting :
       waiting[l] \in DOMAIN sent /\ sent[waiting[l]].line = l

RecordedTrue ==
  \A result \in results :
    result.address.salt = result.entry /\ result.address \in DOMAIN wallets

CreateInv ==
  /\ masterCopy \in Implementations
  /\ FundedOnce
  /\ DOMAIN wallets \subseteq WalletAddresses
  /\ SentTrue
  /\ WaitingTrue
  /\ RecordedTrue
  /\ batch.lines \in SUBSET Lines

(* The address of an entry remembers the entry. *)
LEMMA AddressOfSalt ==
  ASSUME NEW e PROVE AddressOf(e).salt = e
  BY DEF AddressOf, DeploymentAddress

(* Wallets only get added, with their amounts. *)
WalletsOnlyAdded ==
  /\ DOMAIN wallets \subseteq DOMAIN wallets'
  /\ \A a \in DOMAIN wallets : wallets'[a] = wallets[a]
  /\ \A a \in DOMAIN wallets' \ DOMAIN wallets :
       a.salt \notin RefusedEntries /\ wallets'[a] = AmountOf[a.salt]

LEMMA FundedPreserved ==
  FundedOnce /\ WalletsOnlyAdded => FundedOnce'
  BY DEF FundedOnce, WalletsOnlyAdded

(* What is transferred is added to what is there: nothing, for an address  *)
(* that had no code.                                                       *)
LEMMA CreationSends ==
  ASSUME FundedOnce, NEW caller, NEW e \in Entries, CreateTokenLockWallet(caller, e),
         DOMAIN wallets \subseteq WalletAddresses
  PROVE  /\ e \notin RefusedEntries /\ AddressOf(e) \notin DOMAIN wallets
         /\ DOMAIN wallets' = DOMAIN wallets \cup {AddressOf(e)}
         /\ wallets'[AddressOf(e)] = AmountOf[e]
         /\ \A a \in DOMAIN wallets : wallets'[a] = wallets[a] /\ wallets[a] \in Nat
<1> DEFINE x == AddressOf(e)
           more(a) == SentTo(a) + (IF a = x THEN AmountOf[e] ELSE 0)
<1>1. wallets' = [a \in DOMAIN wallets \cup {x} |-> more(a)]
  BY DEF CreateTokenLockWallet
<1>2. x \notin DOMAIN wallets /\ e \notin RefusedEntries
  BY DEF CreateTokenLockWallet, CanCreate, CanDeploy
<1>3. AmountOf[e] \in Nat /\ \A a \in DOMAIN wallets : wallets[a] \in Nat
  <2>1. \A a \in DOMAIN wallets : a.salt \in Entries
    BY DEF WalletAddresses
  <2> QED
    BY <2>1, EntriesAssumption DEF FundedOnce
<1>4. \A a \in DOMAIN wallets : more(a) = wallets[a]
  BY <1>2, <1>3 DEF SentTo
<1>5. more(x) = AmountOf[e]
  BY <1>2, <1>3 DEF SentTo
<1> HIDE DEF more, x
<1>6. /\ DOMAIN wallets' = DOMAIN wallets \cup {x} /\ wallets'[x] = AmountOf[e]
      /\ \A a \in DOMAIN wallets : wallets'[a] = wallets[a]
  BY <1>1, <1>4, <1>5
<1> QED
  BY <1>2, <1>3, <1>6 DEF x

(* A creation adds one wallet. *)
LEMMA CreationAdds ==
  ASSUME FundedOnce, NEW caller, NEW e \in Entries, CreateTokenLockWallet(caller, e),
         DOMAIN wallets \subseteq WalletAddresses
  PROVE  WalletsOnlyAdded /\ AddressOf(e) \in DOMAIN wallets'
  BY CreationSends, AddressOfSalt DEF WalletsOnlyAdded

(* The lines of a batch name different wallets that do not exist, so each  *)
(* of them gets the amount of one line.                                    *)
LEMMA BatchSends ==
  ASSUME FundedOnce, ExecuteBatch, batch.lines \in SUBSET Lines,
         DOMAIN wallets \subseteq WalletAddresses
  PROVE  /\ \A l \in batch.lines :
              /\ Salt(l) \notin RefusedEntries /\ AddressOf(Salt(l)) \notin DOMAIN wallets
              /\ wallets'[AddressOf(Salt(l))] = AmountOf[Salt(l)]
         /\ \A l, k \in batch.lines : AddressOf(Salt(l)) = AddressOf(Salt(k)) => l = k
         /\ DOMAIN wallets'
              = DOMAIN wallets \cup {AddressOf(Salt(l)) : l \in batch.lines}
         /\ \A a \in DOMAIN wallets : wallets'[a] = wallets[a] /\ wallets[a] \in Nat
<1> DEFINE added == {AddressOf(Salt(l)) : l \in batch.lines}
           Naming(a) == {l \in batch.lines : AddressOf(Salt(l)) = a}
           more(a) == SentTo(a) + TotalAmount(Naming(a))
<1>1. wallets' = [a \in DOMAIN wallets \cup added |-> more(a)]
  BY DEF ExecuteBatch
<1>2. /\ \A l \in batch.lines : /\ Salt(l) \notin RefusedEntries
                                /\ AddressOf(Salt(l)) \notin DOMAIN wallets
      /\ \A l, k \in batch.lines : AddressOf(Salt(l)) = AddressOf(Salt(k)) => l = k
  BY DEF ExecuteBatch, CanExecuteBatch, CanDeploy
<1>3. /\ \A a \in DOMAIN wallets : wallets[a] \in Nat
      /\ \A l \in batch.lines : AmountOf[Salt(l)] \in Nat
  <2>1. \A a \in DOMAIN wallets : a.salt \in Entries
    BY DEF WalletAddresses
  <2> QED
    BY <2>1, EntriesAssumption, TaskAssumption DEF FundedOnce, Salt
<1>4. ASSUME NEW a \in DOMAIN wallets PROVE more(a) = wallets[a]
  <2>1. Naming(a) = {}
    BY <1>2
  <2>2. TotalAmount({}) = 0
    <3>1. DOMAIN [l \in {} |-> AmountOf[Salt(l)]] = {}
      OBVIOUS
    <3> QED
      BY <3>1, SumEmpty DEF TotalAmount
  <2> QED
    BY <1>3, <2>1, <2>2 DEF SentTo
<1>5. ASSUME NEW l \in batch.lines PROVE more(AddressOf(Salt(l))) = AmountOf[Salt(l)]
  <2>1. Naming(AddressOf(Salt(l))) = {l}
    BY <1>2
  <2>2. TotalAmount({l}) = AmountOf[Salt(l)]
    <3> DEFINE h == [k \in {l} |-> AmountOf[Salt(k)]]
               f == [k \in {} |-> 0]
    <3>1. DOMAIN f = {} /\ DOMAIN h = {} \cup {l} /\ h[l] = AmountOf[Salt(l)]
      OBVIOUS
    <3> HIDE DEF f, h
    <3>2. SumFunction(f) = 0 /\ SumFunction(h) = SumFunction(f) + h[l]
      BY <1>3, <3>1, SumEmpty, SumAdd, FS_EmptySet
    <3> QED
      BY <1>3, <3>1, <3>2 DEF TotalAmount, h
  <2>3. SentTo(AddressOf(Salt(l))) = 0
    BY <1>2 DEF SentTo
  <2> QED
    BY <1>3, <2>1, <2>2, <2>3
<1> HIDE DEF more, Naming
<1>6. /\ DOMAIN wallets' = DOMAIN wallets \cup added
      /\ \A a \in DOMAIN wallets : wallets'[a] = wallets[a]
  BY <1>1, <1>4
<1>7. \A l \in batch.lines : wallets'[AddressOf(Salt(l))] = AmountOf[Salt(l)]
  BY <1>1, <1>5
<1> QED
  BY <1>2, <1>3, <1>6, <1>7

(* A batch adds the wallets of its lines. *)
LEMMA BatchAdds ==
  ASSUME FundedOnce, ExecuteBatch, batch.lines \in SUBSET Lines,
         DOMAIN wallets \subseteq WalletAddresses
  PROVE  WalletsOnlyAdded
<1> DEFINE added == {AddressOf(Salt(l)) : l \in batch.lines}
<1>1. /\ DOMAIN wallets' = DOMAIN wallets \cup added
      /\ \A a \in DOMAIN wallets : wallets'[a] = wallets[a]
  BY BatchSends
<1>2. \A a \in added : a.salt \notin RefusedEntries /\ wallets'[a] = AmountOf[a.salt]
  BY BatchSends, AddressOfSalt
<1> QED
  BY <1>1, <1>2 DEF WalletsOnlyAdded

-----------------------------------------------------------------------------
LEMMA InitCreateInv == Init => CreateInv
  BY DEF Init, ManagerInit, CreateInv, FundedOnce, SentTrue, WaitingTrue,
         RecordedTrue, NoBatch

(* What is true of transactions, lines in work and recorded lines stays    *)
(* true when wallets are added.                                            *)
LEMMA StillTrue ==
  ASSUME CreateInv, WalletsOnlyAdded \/ UNCHANGED wallets,
         DOMAIN wallets' \subseteq WalletAddresses,
         UNCHANGED <<sent, todo, waiting, results>>,
         masterCopy' \in Implementations, batch'.lines \in SUBSET Lines
  PROVE  CreateInv'
<1>1. DOMAIN wallets \subseteq DOMAIN wallets' /\ FundedOnce'
  BY FundedPreserved DEF CreateInv, WalletsOnlyAdded, FundedOnce
<1> QED
  BY <1>1 DEF CreateInv, SentTrue, WaitingTrue, RecordedTrue, Salt

LEMMA SendInv ==
  ASSUME CreateInv, NEW l \in todo, Send(l) PROVE CreateInv'
<1> DEFINE tx == [line |-> l, status |-> "pending", address |-> ZeroAddress]
<1>1. /\ sent \in Seq(Transactions) /\ l \in Lines
      /\ sent' = Append(sent, tx)
  BY DEF CreateInv, SentTrue, WaitingTrue, Send
<1>2. tx \in Transactions
  BY <1>1 DEF Transactions
<1>3. /\ sent' \in Seq(Transactions) /\ Len(sent') = Len(sent) + 1
      /\ Len(sent) \in Nat
      /\ DOMAIN sent' = 1 .. Len(sent') /\ DOMAIN sent = 1 .. Len(sent)
      /\ \A n \in DOMAIN sent : sent'[n] = sent[n]
      /\ sent'[Len(sent')] = tx
  BY <1>1, <1>2
<1>4. SentTrue'
  <2> SUFFICES ASSUME NEW n \in DOMAIN sent', sent'[n].status = "succeeded"
               PROVE  /\ sent'[n].address.salt = Salt(sent'[n].line)
                      /\ sent'[n].address \in DOMAIN wallets'
    BY <1>3 DEF SentTrue, Salt
  <2>1. tx.status # "succeeded"
    OBVIOUS
  <2>2. n \in DOMAIN sent
    BY <1>3, <2>1
  <2> QED
    BY <1>3, <2>2 DEF CreateInv, SentTrue, Salt, Send, managerVars
<1>5. WaitingTrue'
  <2>1. waiting' = [k \in DOMAIN waiting \cup {l} |->
                      IF k = l THEN Len(sent') ELSE waiting[k]]
          /\ todo' = todo \ {l}
    BY DEF Send
  <2>2. \A k \in DOMAIN waiting :
          waiting[k] \in DOMAIN sent /\ sent[waiting[k]].line = k
    BY DEF CreateInv, WaitingTrue
  <2>3. tx.line = l /\ Len(sent') \in DOMAIN sent'
    BY <1>3
  <2>4. DOMAIN sent \subseteq DOMAIN sent'
    BY <1>3
  <2> HIDE DEF tx
  <2> QED
    BY <1>1, <1>3, <2>1, <2>2, <2>3, <2>4 DEF CreateInv, WaitingTrue
<1> QED
  BY <1>4, <1>5 DEF Send, CreateInv, FundedOnce, RecordedTrue, managerVars

(* A transaction is decided: it has failed, or it has created the wallet   *)
(* of its line.                                                            *)
LEMMA MinedInv ==
  ASSUME CreateInv, NEW n \in DOMAIN sent, Mine(n), NEW tx \in Transactions,
         tx.line = sent[n].line, sent' = [sent EXCEPT ![n] = tx],
         masterCopy' \in Implementations, DOMAIN wallets' \subseteq WalletAddresses,
         \/ UNCHANGED wallets /\ tx.status = "failed"
         \/ /\ WalletsOnlyAdded
            /\ tx.address \in DOMAIN wallets' /\ tx.address.salt = Salt(tx.line)
  PROVE  CreateInv'
<1>1. /\ sent \in Seq(Transactions)
      /\ DOMAIN sent' = DOMAIN sent /\ sent'[n] = tx
      /\ \A k \in DOMAIN sent \ {n} : sent'[k] = sent[k]
  BY DEF CreateInv, SentTrue
<1>2. sent' \in Seq(Transactions)
  BY <1>1
<1>3. DOMAIN wallets \subseteq DOMAIN wallets' /\ FundedOnce'
  BY FundedPreserved DEF CreateInv, WalletsOnlyAdded, FundedOnce
<1>4. SentTrue'
  <2> SUFFICES ASSUME NEW k \in DOMAIN sent', sent'[k].status = "succeeded"
               PROVE  /\ sent'[k].address.salt = Salt(sent'[k].line)
                      /\ sent'[k].address \in DOMAIN wallets'
    BY <1>2 DEF SentTrue, Salt
  <2>1. CASE k = n
    BY <1>1, <2>1
  <2>2. CASE k # n
    BY <1>1, <1>3, <2>2 DEF CreateInv, SentTrue
  <2> QED
    BY <2>1, <2>2
<1>5. WaitingTrue'
  BY <1>1 DEF CreateInv, WaitingTrue, Mine
<1>6. RecordedTrue'
  BY <1>3 DEF CreateInv, RecordedTrue, Mine
<1> QED
  BY <1>3, <1>4, <1>5, <1>6 DEF CreateInv, Mine

LEMMA MineInv ==
  ASSUME CreateInv, NEW n \in DOMAIN sent, Mine(n) PROVE CreateInv'
<1> DEFINE e == Salt(sent[n].line)
<1>1. /\ sent \in Seq(Transactions) /\ sent[n] \in Transactions
      /\ sent[n].line \in Lines
  <2>1. sent \in Seq(Transactions)
    BY DEF CreateInv, SentTrue
  <2>2. sent[n] \in Transactions
    BY <2>1
  <2> QED
    BY <2>1, <2>2 DEF Transactions
<1>2. /\ e \in Entries /\ AddressOf(e) \in WalletAddresses
      /\ masterCopy' \in Implementations
  <2>1. e \in Entries
    BY <1>1, TaskAssumption DEF Salt
  <2>2. masterCopy \in Implementations /\ masterCopy' = masterCopy
    BY DEF CreateInv, Mine, CreateTokenLockWallet, managerVars
  <2> QED
    BY <2>1, <2>2 DEF AddressOf, DeploymentAddress, WalletAddresses
<1>3. CASE /\ CreateTokenLockWallet(Deployer, e)
           /\ sent' = [sent EXCEPT ![n].status = "succeeded",
                                   ![n].address = AddressOf(e)]
  <2> DEFINE tx == [sent[n] EXCEPT !.status = "succeeded",
                                   !.address = AddressOf(e)]
  <2>1. tx \in Transactions /\ tx.line = sent[n].line /\ tx.address = AddressOf(e)
    BY <1>1, <1>2 DEF Transactions
  <2>2. sent' = [sent EXCEPT ![n] = tx]
    BY <1>3
  <2>3. WalletsOnlyAdded /\ AddressOf(e) \in DOMAIN wallets'
    BY <1>2, <1>3, CreationAdds DEF CreateInv
  <2>4. DOMAIN wallets' \subseteq WalletAddresses
    BY <1>2, <1>3, CreationSends DEF CreateInv
  <2> QED
    BY <1>1, <1>2, <2>1, <2>2, <2>3, <2>4, MinedInv, AddressOfSalt
<1>4. CASE /\ sent' = [sent EXCEPT ![n].status = "failed"]
           /\ UNCHANGED wallets
  <2> DEFINE tx == [sent[n] EXCEPT !.status = "failed"]
  <2>1. tx \in Transactions /\ tx.line = sent[n].line /\ tx.status = "failed"
    BY <1>1 DEF Transactions
  <2>2. sent' = [sent EXCEPT ![n] = tx]
    BY <1>4
  <2> QED
    BY <1>1, <1>2, <1>4, <2>1, <2>2, MinedInv DEF CreateInv
<1> QED
  BY <1>3, <1>4 DEF Mine, managerVars

(* The line that is recorded is that of the transaction that was awaited.  *)
LEMMA SaveDeployResultInv ==
  ASSUME CreateInv, NEW l \in DOMAIN waiting, SaveDeployResult(l)
  PROVE  CreateInv'
<1>1. /\ waiting[l] \in DOMAIN sent /\ sent[waiting[l]].line = l
      /\ sent[waiting[l]].status = "succeeded"
  BY DEF CreateInv, WaitingTrue, SaveDeployResult
<1>2. /\ sent[waiting[l]].address.salt = Salt(l)
      /\ sent[waiting[l]].address \in DOMAIN wallets
  BY <1>1 DEF CreateInv, SentTrue
<1>3. RecordedTrue'
  BY <1>2 DEF CreateInv, RecordedTrue, SaveDeployResult, managerVars
<1>4. UNCHANGED <<managerVars, sent, todo>>
        /\ waiting' = [k \in DOMAIN waiting \ {l} |-> waiting[k]]
  BY DEF SaveDeployResult, Done
<1> QED
  BY <1>3, <1>4
     DEF SaveDeployResult, CreateInv, FundedOnce, SentTrue, WaitingTrue, managerVars, Salt

LEMMA GiveUpInv ==
  ASSUME CreateInv, NEW l \in DOMAIN waiting, GiveUp(l) PROVE CreateInv'
<1>1. UNCHANGED <<managerVars, sent, todo, results>>
        /\ waiting' = [k \in DOMAIN waiting \ {l} |-> waiting[k]]
  BY DEF GiveUp, Done
<1> QED
  BY <1>1 DEF GiveUp, CreateInv, FundedOnce, SentTrue, WaitingTrue, RecordedTrue,
              managerVars, Salt

(* The rest leaves transactions and results alone. *)
LEMMA RunInv ==
  ASSUME CreateInv,
         \/ \E lines \in Files : StartRun(lines) \/ BuildBatch(lines)
         \/ \E l \in todo : SendFails(l)
         \/ FinishRun
         \/ KillRun
  PROVE  CreateInv'
<1>1. /\ UNCHANGED <<managerVars, sent, results>>
      /\ todo' \subseteq Lines
      /\ waiting' = waiting \/ waiting' = [l \in {} |-> 0]
  BY TaskAssumption DEF CreateInv, WaitingTrue, StartRun, BuildBatch, SendFails,
     FinishRun, KillRun, NewLines, managerVars
<1>2. batch'.lines \in SUBSET Lines
  <2>1. ASSUME NEW lines \in Files, BuildBatch(lines) PROVE batch'.lines \in SUBSET Lines
    <3>1. batch'.lines = NewLines(lines)
      BY <2>1 DEF BuildBatch
    <3> QED
      BY <3>1, TaskAssumption DEF NewLines
  <2> QED
    BY <2>1 DEF CreateInv, StartRun, SendFails, FinishRun, KillRun
<1> QED
  BY <1>1, <1>2 DEF CreateInv, FundedOnce, SentTrue, WaitingTrue, RecordedTrue,
                    managerVars, Salt

LEMMA ManagerCallInv ==
  ASSUME CreateInv, ManagerCall /\ UNCHANGED taskVars PROVE CreateInv'
<1>1. UNCHANGED wallets /\ masterCopy' \in Implementations
  BY DEF CreateInv, ManagerCall, Deposit, Withdraw, SetMasterCopy, ChangeOwner
<1> QED
  BY <1>1, StillTrue DEF taskVars, CreateInv

LEMMA ExecuteBatchInv ==
  ASSUME CreateInv, ExecuteBatch PROVE CreateInv'
<1>1. WalletsOnlyAdded
  BY BatchAdds DEF CreateInv
<1>2. UNCHANGED <<sent, todo, waiting, results, masterCopy>> /\ batch'.lines = {}
  BY DEF ExecuteBatch, NoBatch
<1>3. DOMAIN wallets' \subseteq WalletAddresses
  <2>1. \A l \in batch.lines : AddressOf(Salt(l)) \in WalletAddresses
    BY TaskAssumption DEF CreateInv, Salt, AddressOf, DeploymentAddress, WalletAddresses
  <2>2. DOMAIN wallets' = DOMAIN wallets \cup {AddressOf(Salt(l)) : l \in batch.lines}
    BY BatchSends DEF CreateInv
  <2> QED
    BY <2>1, <2>2 DEF CreateInv
<1> QED
  BY <1>1, <1>2, <1>3, StillTrue DEF CreateInv

LEMMA CreateInvariant == Spec => []CreateInv
<1>1. CreateInv /\ [Next]_vars => CreateInv'
  <2> SUFFICES ASSUME CreateInv, [Next]_vars PROVE CreateInv'
    OBVIOUS
  <2>1. CASE \E l \in todo : Send(l)
    BY <2>1, SendInv
  <2>2. CASE \E n \in DOMAIN sent : Mine(n)
    BY <2>2, MineInv
  <2>3. CASE \E l \in DOMAIN waiting : SaveDeployResult(l)
    BY <2>3, SaveDeployResultInv
  <2>4. CASE \E l \in DOMAIN waiting : GiveUp(l)
    BY <2>4, GiveUpInv
  <2>5. CASE ExecuteBatch
    BY <2>5, ExecuteBatchInv
  <2>6. CASE ManagerCall /\ UNCHANGED taskVars
    BY <2>6, ManagerCallInv
  <2>7. CASE UNCHANGED vars
    BY <2>7, StillTrue DEF vars, managerVars, taskVars, CreateInv
  <2> QED
    BY <2>1, <2>2, <2>3, <2>4, <2>5, <2>6, <2>7, RunInv DEF Next
<1> QED
  BY <1>1, InitCreateInv, PTL DEF Spec

(* Every line of the result file is true for ever. *)
THEOREM ResultsTrueAlways == Spec => []ResultsTrue
<1>1. CreateInv => ResultsTrue
  BY DEF CreateInv, RecordedTrue, FundedOnce, ResultsTrue
<1> QED
  BY <1>1, CreateInvariant, PTL

-----------------------------------------------------------------------------
(* The funds.  What has left the pool never comes back into it, so a batch *)
(* needs no more than what was deposited beyond that, and its own deposit; *)
(* and the pool covers the entries of a file that has been checked, under  *)
(* any master copy that can have created all wallets.                      *)
AccountsTrue ==
  /\ pool \in Nat /\ deposited \in Nat /\ withdrawn \in Nat
  /\ IsFiniteSet(DOMAIN wallets)
  /\ (pool + SumFunction(wallets)) + withdrawn = deposited

RunTrue ==
  /\ file \in Files \cup {{}}
  /\ checked.wallets \subseteq DOMAIN wallets
  /\ checked.withdrawn \in Nat /\ checked.withdrawn <= withdrawn

BatchTrue ==
  batch # NoBatch =>
    /\ batch.lines \in SUBSET Lines /\ batch.lines # {} /\ IsFiniteSet(batch.lines)
    /\ batch.deposit \in Nat /\ batch.drawn \in Int
    /\ TotalAmount(batch.lines) <= (deposited - batch.drawn) + batch.deposit

CheckedBy(implementation) ==
  /\ file # {}
  /\ withdrawn = checked.withdrawn
  /\ \A a \in DOMAIN wallets \ checked.wallets : a.salt \in ImageOf(EntryOf, file)
  /\ \A a \in DOMAIN wallets : a.implementation = implementation

UnfundedBy(implementation) ==
  {e \in ImageOf(EntryOf, file) :
     /\ e \notin RefusedEntries
     /\ DeploymentAddress(e, implementation, Manager) \notin DOMAIN wallets}

AmountOfAll(entries) == SumFunction([e \in entries |-> AmountOf[e]])

FundsTrue ==
  \A i \in Implementations : CheckedBy(i) => AmountOfAll(UnfundedBy(i)) <= pool

FundsInv == AccountsTrue /\ RunTrue /\ BatchTrue /\ FundsTrue

(* The lines of a file are finitely many, and amounts are natural numbers. *)
LEMMA FileLines ==
  ASSUME RunTrue
  PROVE  /\ file \in SUBSET Lines /\ IsFiniteSet(file)
         /\ ImageOf(EntryOf, file) \subseteq Entries
<1>1. file \in SUBSET Lines /\ IsFiniteSet(file)
  BY TaskAssumption, FS_EmptySet DEF RunTrue
<1> QED
  BY <1>1, TaskAssumption DEF ImageOf

LEMMA Amounts ==
  /\ \A l \in Lines : EntryOf[l] \in Entries /\ AmountOf[EntryOf[l]] \in Nat
  /\ \A e \in Entries : AmountOf[e] \in Nat
  BY TaskAssumption, EntriesAssumption

LEMMA TotalType ==
  ASSUME NEW lines \in SUBSET Lines, IsFiniteSet(lines)
  PROVE  TotalAmount(lines) \in Nat
<1> DEFINE f == [l \in lines |-> AmountOf[Salt(l)]]
<1>1. DOMAIN f = lines /\ \A l \in lines : f[l] \in Nat
  BY Amounts DEF Salt
<1> HIDE DEF f
<1>2. SumFunction(f) \in Nat
  BY <1>1, SumNat
<1> QED
  BY <1>2 DEF TotalAmount, f

(* Entries of a file are finitely many. *)
LEMMA FileEntries ==
  ASSUME RunTrue, NEW S \in SUBSET ImageOf(EntryOf, file)
  PROVE  /\ IsFiniteSet(S) /\ AmountOfAll(S) \in Nat
         /\ \A e \in S : AmountOf[e] \in Nat
<1>1. IsFiniteSet(ImageOf(EntryOf, file))
  <2> DEFINE h == [l \in file |-> EntryOf[l]]
  <2>1. h \in Surjection(file, ImageOf(EntryOf, file))
    BY DEF Surjection, ImageOf
  <2> QED
    BY <2>1, FileLines, FS_Surjection
<1>2. IsFiniteSet(S)
  BY <1>1, FS_Subset
<1> DEFINE f == [e \in S |-> AmountOf[e]]
<1>3. DOMAIN f = S /\ \A e \in S : f[e] \in Nat /\ AmountOf[e] \in Nat
  BY FileLines, Amounts
<1>4. SumFunction(f) \in Nat
  <2> HIDE DEF f
  <2> QED
    BY <1>2, <1>3, SumNat
<1> QED
  BY <1>2, <1>3, <1>4 DEF AmountOfAll

(* What all wallets got is a number. *)
LEMMA WalletsSum ==
  ASSUME CreateInv, FundsInv PROVE SumFunction(wallets) \in Int
<1>1. \A a \in DOMAIN wallets : wallets[a] \in Int
  BY Amounts DEF CreateInv, FundedOnce, WalletAddresses
<1> QED
  BY <1>1, SumType DEF FundsInv, AccountsTrue

LEMMA InitFundsInv == Init => FundsInv
<1> SUFFICES ASSUME Init PROVE FundsInv
  OBVIOUS
<1>1. BatchTrue /\ FundsTrue
  BY DEF Init, ManagerInit, BatchTrue, FundsTrue, CheckedBy
<1>2. RunTrue
  BY DEF Init, ManagerInit, RunTrue, NoCheck
<1>3. AccountsTrue
  <2>1. DOMAIN wallets = {} /\ pool = 0 /\ deposited = 0 /\ withdrawn = 0
    BY DEF Init, ManagerInit
  <2>2. SumFunction(wallets) = 0
    BY <2>1, SumEmpty
  <2> QED
    BY <2>1, <2>2, FS_EmptySet DEF AccountsTrue
<1> QED
  BY <1>1, <1>2, <1>3 DEF FundsInv

(* While a run goes on, what it knew at the check only becomes outdated. *)
LEMMA CheckedBefore ==
  ASSUME AccountsTrue, RunTrue, UNCHANGED <<file, checked>>,
         withdrawn' \in Nat, withdrawn <= withdrawn',
         DOMAIN wallets \subseteq DOMAIN wallets', NEW i, CheckedBy(i)'
  PROVE  CheckedBy(i)
<1>1. withdrawn = checked.withdrawn
  BY DEF AccountsTrue, RunTrue, CheckedBy
<1> QED
  BY <1>1 DEF CheckedBy

(* Steps that create nothing and do not take from the pool unseen. *)
LEMMA NothingCreated ==
  ASSUME CreateInv, FundsInv, UNCHANGED <<file, checked, batch, wallets>>,
         pool' \in Nat, deposited' \in Nat, withdrawn' \in Nat,
         deposited <= deposited', withdrawn <= withdrawn',
         withdrawn' = withdrawn => pool <= pool',
         (pool' + withdrawn') - deposited' = (pool + withdrawn) - deposited
  PROVE  FundsInv'
<1>1. AccountsTrue' /\ RunTrue'
  <2>1. SumFunction(wallets) \in Int
    BY WalletsSum DEF FundsInv
  <2>2. UNCHANGED wallets /\ SumFunction(wallets') = SumFunction(wallets)
    OBVIOUS
  <2>3. (pool' + SumFunction(wallets')) + withdrawn' = deposited'
    <3>1. PICK sum \in Int : sum = SumFunction(wallets)
      BY <2>1
    <3>2. /\ (pool + sum) + withdrawn = deposited
          /\ pool \in Nat /\ deposited \in Nat /\ withdrawn \in Nat
      BY <3>1 DEF FundsInv, AccountsTrue
    <3>3. PICK q \in Nat, v \in Nat, e \in Nat :
            q = pool' /\ v = withdrawn' /\ e = deposited'
      OBVIOUS
    <3>4. (q + v) - e = (pool + withdrawn) - deposited
      BY <3>3
    <3>5. (q + sum) + v = e
      BY <3>2, <3>4
    <3> QED
      BY <2>2, <3>1, <3>3, <3>5
  <2>4. AccountsTrue'
    BY <2>2, <2>3 DEF FundsInv, AccountsTrue
  <2>5. RunTrue'
    BY <2>2 DEF FundsInv, AccountsTrue, RunTrue
  <2> QED
    BY <2>4, <2>5
<1>2. BatchTrue'
  <2> SUFFICES ASSUME batch # NoBatch
               PROVE  TotalAmount(batch.lines)
                        <= (deposited' - batch.drawn) + batch.deposit
    BY DEF BatchTrue, FundsInv, TotalAmount, Salt
  <2>1. /\ batch.deposit \in Nat /\ batch.drawn \in Int
        /\ TotalAmount(batch.lines) <= (deposited - batch.drawn) + batch.deposit
        /\ TotalAmount(batch.lines) \in Nat
    BY TotalType DEF FundsInv, BatchTrue
  <2> QED
    BY <2>1 DEF FundsInv, AccountsTrue
<1>3. FundsTrue'
  <2> SUFFICES ASSUME NEW i \in Implementations, CheckedBy(i)'
               PROVE  AmountOfAll(UnfundedBy(i)') <= pool'
    BY DEF FundsTrue, AmountOfAll
  <2>1. CheckedBy(i) /\ withdrawn' = withdrawn
    BY CheckedBefore DEF FundsInv, AccountsTrue, RunTrue, CheckedBy
  <2>2. UnfundedBy(i)' = UnfundedBy(i)
    BY DEF UnfundedBy
  <2>3. AmountOfAll(UnfundedBy(i)) <= pool /\ pool <= pool'
    BY <2>1 DEF FundsInv, FundsTrue
  <2>4. AmountOfAll(UnfundedBy(i)) \in Nat
    BY FileEntries DEF FundsInv, UnfundedBy
  <2> QED
    BY <2>2, <2>3, <2>4 DEF FundsInv, AccountsTrue
<1> QED
  BY <1>1, <1>2, <1>3 DEF FundsInv

(* A creation takes the amount of its entry from the pool, and the entry   *)
(* from those that have no wallet.                                         *)
LEMMA CreationFunds ==
  ASSUME CreateInv, FundsInv, NEW caller, NEW e \in Entries,
         CreateTokenLockWallet(caller, e), UNCHANGED <<file, checked, batch>>
  PROVE  FundsInv'
<1>1. /\ pool' = pool - AmountOf[e] /\ AmountOf[e] <= pool
      /\ UNCHANGED <<deposited, withdrawn>>
      /\ DOMAIN wallets' = DOMAIN wallets \cup {AddressOf(e)}
      /\ AddressOf(e) \notin DOMAIN wallets /\ e \notin RefusedEntries
      /\ AmountOf[e] \in Nat
      /\ wallets'[AddressOf(e)] = AmountOf[e]
      /\ \A a \in DOMAIN wallets : wallets'[a] = wallets[a] /\ wallets[a] \in Nat
      /\ masterCopy \in Implementations
  <2>1. DOMAIN wallets \subseteq WalletAddresses /\ FundedOnce /\ masterCopy \in Implementations
    BY DEF CreateInv
  <2> QED
    BY <2>1, Amounts, CreationSends DEF CreateTokenLockWallet, CanCreate
<1>2. /\ AddressOf(e) \in WalletAddresses
      /\ AddressOf(e) = DeploymentAddress(e, masterCopy, Manager)
      /\ AddressOf(e).salt = e /\ AddressOf(e).implementation = masterCopy
  BY DEF AddressOf, DeploymentAddress, WalletAddresses, CreateInv
<1>3. AccountsTrue' /\ RunTrue'
  <2>1. SumFunction(wallets') = SumFunction(wallets) + AmountOf[e]
    <3> DEFINE a == AddressOf(e)
    <3>1. \A b \in DOMAIN wallets : wallets[b] \in Int
      BY <1>1
    <3> HIDE DEF a
    <3> QED
      BY <1>1, <3>1, SumAdd DEF FundsInv, AccountsTrue, a
  <2>2. SumFunction(wallets) \in Int
    BY WalletsSum
  <2>3. IsFiniteSet(DOMAIN wallets')
    BY <1>1, FS_AddElement DEF FundsInv, AccountsTrue
  <2>4. AccountsTrue'
    BY <1>1, <2>1, <2>2, <2>3 DEF FundsInv, AccountsTrue
  <2> QED
    BY <1>1, <2>4 DEF FundsInv, RunTrue
<1>4. BatchTrue'
  BY <1>1 DEF FundsInv, BatchTrue, TotalAmount, Salt
<1>5. FundsTrue'
  <2> SUFFICES ASSUME NEW i \in Implementations, CheckedBy(i)'
               PROVE  AmountOfAll(UnfundedBy(i)') <= pool'
    BY DEF FundsTrue, AmountOfAll
  <2>1. CheckedBy(i)
    BY <1>1, CheckedBefore DEF FundsInv, AccountsTrue
  <2>2. masterCopy = i /\ e \in ImageOf(EntryOf, file)
    BY <1>1, <1>2 DEF CheckedBy, FundsInv, RunTrue
  <2> DEFINE U == UnfundedBy(i)
             f == [x \in U \ {e} |-> AmountOf[x]]
             h == [x \in U |-> AmountOf[x]]
  <2>3. e \in U
    BY <1>1, <1>2, <2>2 DEF UnfundedBy
  <2>4. UnfundedBy(i)' = U \ {e}
    <3>1. \A x : DeploymentAddress(x, i, Manager) = AddressOf(e) <=> x = e
      BY <1>2, <2>2 DEF DeploymentAddress
    <3> QED
      BY <1>1, <3>1 DEF UnfundedBy
  <2>5. /\ IsFiniteSet(U) /\ IsFiniteSet(U \ {e})
        /\ \A x \in U : AmountOf[x] \in Nat
    BY FileEntries, FS_RemoveElement DEF FundsInv, UnfundedBy
  <2>6. SumFunction(h) = SumFunction(f) + h[e]
    <3>1. /\ DOMAIN f = U \ {e} /\ DOMAIN h = (U \ {e}) \cup {e}
          /\ h[e] \in Int
          /\ \A x \in U \ {e} : f[x] \in Int /\ h[x] = f[x]
      BY <2>3, <2>5
    <3> HIDE DEF f, h, U
    <3> QED
      BY <2>5, <3>1, SumAdd
  <2>7. h[e] = AmountOf[e]
    BY <2>3
  <2>8. SumFunction(f) \in Nat /\ SumFunction(h) \in Nat
    BY FileEntries DEF FundsInv, AmountOfAll, UnfundedBy
  <2>9. SumFunction(h) <= pool
    BY <2>1 DEF FundsInv, FundsTrue, AmountOfAll
  <2>10. AmountOfAll(UnfundedBy(i)') = SumFunction(f)
    BY <2>4 DEF AmountOfAll
  <2> HIDE DEF f, h, U
  <2> QED
    BY <1>1, <2>6, <2>7, <2>8, <2>9, <2>10 DEF FundsInv, AccountsTrue
<1> QED
  BY <1>3, <1>4, <1>5 DEF FundsInv

(* A batch brings a deposit and takes the amounts of its lines, which name *)
(* different entries without a wallet.                                     *)
LEMMA BatchFunds ==
  ASSUME CreateInv, FundsInv, ExecuteBatch
  PROVE  FundsInv'
<1> DEFINE lines == batch.lines
           taken == ImageOf(EntryOf, lines)
           added == {AddressOf(Salt(l)) : l \in lines}
<1>1. /\ lines \in SUBSET Lines /\ lines # {} /\ IsFiniteSet(lines)
      /\ batch.deposit \in Nat /\ TotalAmount(lines) \in Nat
  BY TotalType DEF ExecuteBatch, FundsInv, BatchTrue
<1>2. /\ deposited' = deposited + batch.deposit
      /\ pool' = (pool + batch.deposit) - TotalAmount(lines)
      /\ TotalAmount(lines) <= pool + batch.deposit
      /\ batch' = NoBatch
      /\ UNCHANGED <<withdrawn, file, checked>>
      /\ DOMAIN wallets' = DOMAIN wallets \cup added
  <2>2. DOMAIN wallets' = DOMAIN wallets \cup added
    BY BatchSends DEF CreateInv
  <2>3. /\ deposited' = deposited + batch.deposit
        /\ pool' = (pool + batch.deposit) - TotalAmount(lines)
        /\ TotalAmount(lines) <= pool + batch.deposit
    BY <1>1 DEF ExecuteBatch, CanExecuteBatch, FundsInv, AccountsTrue
  <2>4. batch' = NoBatch /\ UNCHANGED <<withdrawn, file, checked>>
    BY DEF ExecuteBatch
  <2> QED
    BY <2>2, <2>3, <2>4
<1>3. /\ \A l \in lines : /\ EntryOf[l] \in Entries
                          /\ EntryOf[l] \notin RefusedEntries
                          /\ AddressOf(EntryOf[l]) \notin DOMAIN wallets
      /\ \A l, k \in lines : EntryOf[l] = EntryOf[k] => l = k
  BY <1>1, Amounts DEF ExecuteBatch, CanExecuteBatch, CanDeploy, Salt
<1>4. \A e : /\ AddressOf(e) = DeploymentAddress(e, masterCopy, Manager)
             /\ AddressOf(e).salt = e /\ AddressOf(e).implementation = masterCopy
             /\ e \in Entries => AddressOf(e) \in WalletAddresses
  BY DEF AddressOf, DeploymentAddress, WalletAddresses, CreateInv
<1>5. AccountsTrue' /\ RunTrue'
  <2>1. IsFiniteSet(DOMAIN wallets') /\ IsFiniteSet(DOMAIN wallets)
    <3>1. IsFiniteSet(added)
      <4> DEFINE h == [l \in lines |-> AddressOf(Salt(l))]
      <4>1. h \in Surjection(lines, added)
        BY DEF Surjection
      <4> QED
        BY <1>1, <4>1, FS_Surjection
    <3> QED
      BY <1>2, <3>1, FS_Union DEF FundsInv, AccountsTrue
  <2>2. pool' \in Nat /\ deposited' \in Nat /\ withdrawn' \in Nat
    BY <1>1, <1>2 DEF FundsInv, AccountsTrue
  <2>3. SumFunction(wallets') = SumFunction(wallets) + TotalAmount(lines)
    <3> DEFINE g == [l \in lines |-> AddressOf(Salt(l))]
               f == [l \in lines |-> AmountOf[Salt(l)]]
    <3>1. FundedOnce /\ DOMAIN wallets \subseteq WalletAddresses
      BY DEF CreateInv
    <3>2. /\ \A l \in lines : /\ AddressOf(Salt(l)) \notin DOMAIN wallets
                             /\ wallets'[AddressOf(Salt(l))] = AmountOf[Salt(l)]
          /\ \A l, k \in lines : AddressOf(Salt(l)) = AddressOf(Salt(k)) => l = k
          /\ \A a \in DOMAIN wallets : wallets'[a] = wallets[a] /\ wallets[a] \in Nat
      BY <1>1, <3>1, BatchSends
    <3>3. \A l \in lines : AmountOf[Salt(l)] \in Nat
      BY <1>1, Amounts DEF Salt
    <3>4. ImageOf(g, lines) = added
      BY DEF ImageOf
    <3>5. /\ DOMAIN f = lines
          /\ \A l \in lines : f[l] = AmountOf[Salt(l)] /\ g[l] = AddressOf(Salt(l))
      OBVIOUS
    <3>6. DOMAIN wallets = DOMAIN wallets' \ added
      BY <1>2, <3>2
    <3>7. \A a \in DOMAIN wallets' : wallets'[a] \in Int
      BY <1>2, <3>2, <3>3
    <3> HIDE DEF f, g, lines, added
    <3>8. \A l \in lines : g[l] \in DOMAIN wallets' /\ f[l] = wallets'[g[l]]
      BY <1>2, <3>2, <3>4, <3>5 DEF ImageOf
    <3>9. Takes(g, f, wallets', wallets)
      BY <3>2, <3>4, <3>5, <3>6, <3>7, <3>8 DEF Takes
    <3>10. SumFunction(wallets') = SumFunction(wallets) + SumFunction(f)
      BY <1>1, <2>1, <3>5, <3>9, SumTaken
    <3> QED
      BY <3>10 DEF TotalAmount, f
  <2>4. SumFunction(wallets) \in Int
    BY WalletsSum
  <2>5. AccountsTrue'
    <3> HIDE DEF lines
    <3> QED
      BY <1>1, <1>2, <2>1, <2>2, <2>3, <2>4 DEF FundsInv, AccountsTrue
  <2> QED
    BY <1>2, <2>5 DEF FundsInv, RunTrue
<1>6. BatchTrue'
  BY <1>2 DEF BatchTrue
<1>7. FundsTrue'
  <2> SUFFICES ASSUME NEW i \in Implementations, CheckedBy(i)'
               PROVE  AmountOfAll(UnfundedBy(i)') <= pool'
    BY DEF FundsTrue, AmountOfAll
  <2>1. CheckedBy(i)
    BY <1>2, CheckedBefore DEF FundsInv, AccountsTrue
  <2>2. \A l \in lines : AddressOf(EntryOf[l]) \in DOMAIN wallets'
    BY <1>2 DEF Salt
  <2>3. masterCopy = i /\ \A l \in lines : EntryOf[l] \in ImageOf(EntryOf, file)
    <3>1. \A l \in lines : /\ EntryOf[l] \in ImageOf(EntryOf, file')
                           /\ masterCopy = i
      <4> SUFFICES ASSUME NEW l \in lines
                   PROVE  EntryOf[l] \in ImageOf(EntryOf, file') /\ masterCopy = i
        OBVIOUS
      <4> DEFINE a == AddressOf(EntryOf[l])
      <4>1. a \in DOMAIN wallets' \ checked'.wallets
        BY <1>2, <1>3, <2>2 DEF FundsInv, RunTrue
      <4>2. a.salt = EntryOf[l] /\ a.implementation = masterCopy
        BY <1>4
      <4> HIDE DEF a
      <4> QED
        BY <4>1, <4>2 DEF CheckedBy
    <3> QED
      BY <1>1, <1>2, <3>1
  <2> DEFINE U == UnfundedBy(i)
  <2>4. \A l \in lines : EntryOf[l] \in U
    BY <1>3, <1>4, <2>3 DEF UnfundedBy
  <2>5. UnfundedBy(i)' = U \ taken
    <3>1. \A e : DeploymentAddress(e, i, Manager) \in added <=> e \in taken
      BY <1>4, <2>3 DEF DeploymentAddress, ImageOf, Salt
    <3> HIDE DEF added, taken
    <3> QED
      BY <1>2, <3>1 DEF UnfundedBy
  <2>6. /\ IsFiniteSet(U) /\ (\A e \in U : AmountOf[e] \in Int)
        /\ AmountOfAll(U) \in Nat /\ AmountOfAll(U \ taken) \in Nat
    BY FileEntries DEF FundsInv, UnfundedBy
  <2>7. AmountOfAll(U)
          = AmountOfAll(U \ taken) + SumFunction([l \in lines |-> AmountOf[EntryOf[l]]])
    <3> DEFINE all == [e \in U |-> AmountOf[e]]
               left == [e \in U \ taken |-> AmountOf[e]]
               f == [l \in lines |-> AmountOf[EntryOf[l]]]
    <3>1. /\ DOMAIN all = U /\ DOMAIN left = U \ taken /\ DOMAIN f = lines
          /\ \A e \in U : all[e] \in Int
          /\ \A l \in lines : EntryOf[l] \in U /\ f[l] = all[EntryOf[l]]
          /\ \A e \in U \ taken : left[e] = all[e]
      BY <2>4, <2>6
    <3> HIDE DEF all, left, f, U, lines
    <3>2. SumFunction(all) = SumFunction(left) + SumFunction(f)
      <4>1. IsFiniteSet(DOMAIN all) /\ IsFiniteSet(DOMAIN f)
        BY <1>1, <2>6, <3>1
      <4>2. Takes(EntryOf, f, all, left)
        BY <1>3, <3>1 DEF Takes
      <4> QED
        BY <4>1, <4>2, SumTaken
    <3> QED
      BY <3>2 DEF AmountOfAll, all, left, f
  <2>8. AmountOfAll(U) = AmountOfAll(U \ taken) + TotalAmount(lines)
    BY <2>7 DEF TotalAmount, Salt
  <2>9. AmountOfAll(U) <= pool
    BY <2>1 DEF FundsInv, FundsTrue
  <2> HIDE DEF U, taken, lines
  <2> QED
    BY <1>1, <1>2, <2>5, <2>6, <2>8, <2>9 DEF FundsInv, AccountsTrue
<1> QED
  BY <1>5, <1>6, <1>7 DEF FundsInv

(* A run begins: the total of its new lines is in the pool, and every entry*)
(* without a wallet is on a new line, because the result file is true.     *)
LEMMA StartRunFunds ==
  ASSUME CreateInv, FundsInv, NEW lines \in Files, StartRun(lines)
  PROVE  FundsInv'
<1> DEFINE new == NewLines(lines)
<1>1. /\ UNCHANGED <<pool, deposited, withdrawn, wallets, batch>>
      /\ file' = lines
      /\ checked' = [wallets |-> DOMAIN wallets, withdrawn |-> withdrawn]
      /\ TotalAmount(new) <= pool
  BY DEF StartRun, Funded, managerVars
<1>2. AccountsTrue' /\ BatchTrue'
  BY <1>1 DEF FundsInv, AccountsTrue, BatchTrue, TotalAmount, Salt
<1>3. RunTrue'
  BY <1>1 DEF FundsInv, AccountsTrue, RunTrue
<1>4. FundsTrue'
  <2> SUFFICES ASSUME NEW i \in Implementations, CheckedBy(i)'
               PROVE  AmountOfAll(UnfundedBy(i)') <= pool'
    BY DEF FundsTrue, AmountOfAll
  <2> DEFINE U == {e \in ImageOf(EntryOf, lines) :
                     /\ e \notin RefusedEntries
                     /\ DeploymentAddress(e, i, Manager) \notin DOMAIN wallets}
  <2>1. UnfundedBy(i)' = U
    BY <1>1 DEF UnfundedBy
  <2>2. new \in SUBSET Lines /\ IsFiniteSet(new)
    BY TaskAssumption, FS_Subset DEF NewLines
  <2>3. U \in SUBSET ImageOf(EntryOf, new)
    <3> SUFFICES ASSUME NEW l \in lines, EntryOf[l] \in U, l \notin new
                 PROVE  FALSE
      BY DEF ImageOf
    <3>1. PICK result \in results : result.entry = EntryOf[l]
      BY DEF NewLines, DeployedEntries, Salt
    <3>2. /\ result.address.salt = EntryOf[l] /\ result.address \in DOMAIN wallets
          /\ result.address \in WalletAddresses
      BY <3>1 DEF CreateInv, RecordedTrue
    <3>3. result.address.implementation = i /\ result.address.deployer = Manager
      BY <1>1, <3>2 DEF CheckedBy, WalletAddresses
    <3>4. result.address = DeploymentAddress(EntryOf[l], i, Manager)
      BY <3>2, <3>3 DEF DeploymentAddress, WalletAddresses
    <3> QED
      BY <3>2, <3>4
  <2>4. \A l \in new : AmountOf[EntryOf[l]] \in Nat
    BY <2>2, Amounts
  <2>5. AmountOfAll(U) <= SumFunction([l \in new |-> AmountOf[EntryOf[l]]])
    <3> HIDE DEF U, new
    <3> QED
      BY <2>2, <2>3, <2>4, SumCovered DEF AmountOfAll
  <2>6. AmountOfAll(U) <= TotalAmount(new)
    BY <2>5 DEF TotalAmount, Salt
  <2>7. AmountOfAll(U) \in Nat /\ TotalAmount(new) \in Nat
    <3>1. U \in SUBSET ImageOf(EntryOf, file')
      BY <1>1
    <3>2. IsFiniteSet(lines) /\ lines \in SUBSET Lines
      BY TaskAssumption
    <3>3. IsFiniteSet(U) /\ \A e \in U : AmountOf[e] \in Nat
      <4> DEFINE h == [l \in lines |-> EntryOf[l]]
      <4>1. h \in Surjection(lines, ImageOf(EntryOf, lines))
        BY DEF Surjection, ImageOf
      <4>2. IsFiniteSet(ImageOf(EntryOf, lines))
        BY <3>2, <4>1, FS_Surjection
      <4> QED
        BY <3>2, <4>2, FS_Subset, Amounts DEF ImageOf
    <3> DEFINE f == [e \in U |-> AmountOf[e]]
    <3>4. DOMAIN f = U /\ \A e \in U : f[e] \in Nat
      BY <3>3
    <3>5. SumFunction(f) \in Nat
      <4> HIDE DEF f, U
      <4> QED
        BY <3>3, <3>4, SumNat
    <3> QED
      BY <2>2, <3>5, TotalType DEF AmountOfAll
  <2> HIDE DEF U, new
  <2> QED
    BY <1>1, <2>1, <2>6, <2>7 DEF FundsInv, AccountsTrue
<1> QED
  BY <1>2, <1>3, <1>4 DEF FundsInv

(* A batch is saved with what the pool lacks. *)
LEMMA BuildBatchFunds ==
  ASSUME FundsInv, NEW lines \in Files, BuildBatch(lines)
  PROVE  FundsInv'
<1> DEFINE new == NewLines(lines)
<1>1. /\ UNCHANGED <<pool, deposited, withdrawn, wallets, file, checked>>
      /\ new # {}
      /\ batch'.lines = new /\ batch'.deposit = DepositMissing(new)
      /\ batch'.drawn = deposited - pool
  BY DEF BuildBatch, managerVars, Drawn
<1>2. new \in SUBSET Lines /\ IsFiniteSet(new) /\ TotalAmount(new) \in Nat
  <2>1. new \in SUBSET Lines /\ IsFiniteSet(new)
    BY TaskAssumption, FS_Subset DEF NewLines
  <2> QED
    BY <2>1, TotalType
<1>3. AccountsTrue' /\ RunTrue' /\ FundsTrue'
  BY <1>1 DEF FundsInv, AccountsTrue, RunTrue, FundsTrue, CheckedBy, UnfundedBy, AmountOfAll
<1>4. BatchTrue'
  <2> DEFINE deposit == DepositMissing(new)
  <2>1. deposit \in Nat /\ TotalAmount(new) <= pool + deposit
    BY <1>2 DEF DepositMissing, FundsInv, AccountsTrue
  <2>2. TotalAmount(batch'.lines) = TotalAmount(new)
    BY <1>1 DEF TotalAmount
  <2>3. TotalAmount(new) <= (deposited - (deposited - pool)) + deposit
    <3> HIDE DEF deposit, new
    <3> QED
      BY <1>2, <2>1 DEF FundsInv, AccountsTrue
  <2>4. deposited - pool \in Int
    BY DEF FundsInv, AccountsTrue
  <2> HIDE DEF deposit, new
  <2>5. batch'.deposit = deposit
    BY <1>1 DEF deposit
  <2>6. TotalAmount(batch'.lines) <= (deposited' - batch'.drawn) + batch'.deposit
    BY <1>1, <2>2, <2>3, <2>5
  <2> QED
    BY <1>1, <1>2, <2>1, <2>4, <2>5, <2>6 DEF BatchTrue, TotalAmount, Salt
<1> QED
  BY <1>3, <1>4 DEF FundsInv

(* The calls of the manager besides creations. *)
LEMMA ManagerCallFunds ==
  ASSUME CreateInv, FundsInv, ManagerCall /\ UNCHANGED taskVars
  PROVE  FundsInv'
<1>1. UNCHANGED <<file, checked, batch, wallets>>
  BY DEF taskVars, ManagerCall, Deposit, Withdraw, SetMasterCopy, ChangeOwner
<1>2. pool \in Nat /\ deposited \in Nat /\ withdrawn \in Nat
  BY DEF FundsInv, AccountsTrue
<1>3. /\ pool' \in Nat /\ deposited' \in Nat /\ withdrawn' \in Nat
      /\ deposited <= deposited' /\ withdrawn <= withdrawn'
      /\ withdrawn' = withdrawn => pool <= pool'
      /\ (pool' + withdrawn') - deposited' = (pool + withdrawn) - deposited
  BY <1>2, SupplyAssumption DEF ManagerCall, Deposit, Withdraw, SetMasterCopy, ChangeOwner
<1> QED
  BY <1>1, <1>3, NothingCreated

(* The queue, the receipts and the end of a run. *)
LEMMA QueueFunds ==
  ASSUME CreateInv, FundsInv, UNCHANGED <<managerVars, batch>>,
         \/ UNCHANGED <<file, checked>>
         \/ file' = {} /\ checked' = NoCheck
  PROVE  FundsInv'
<1>1. UNCHANGED <<pool, deposited, withdrawn, wallets>>
  BY DEF managerVars
<1>2. CASE UNCHANGED <<file, checked>>
  BY <1>1, <1>2, NothingCreated DEF FundsInv, AccountsTrue
<1>3. CASE file' = {} /\ checked' = NoCheck
  <2>1. AccountsTrue' /\ BatchTrue' /\ FundsTrue'
    BY <1>1, <1>3 DEF FundsInv, AccountsTrue, BatchTrue, FundsTrue, CheckedBy,
                      TotalAmount, Salt
  <2>2. RunTrue'
    BY <1>1, <1>3 DEF FundsInv, AccountsTrue, RunTrue, NoCheck
  <2> QED
    BY <2>1, <2>2 DEF FundsInv
<1> QED
  BY <1>2, <1>3

LEMMA FundsInvariant == Spec => [](CreateInv /\ FundsInv)
<1>1. CreateInv /\ FundsInv /\ [Next]_vars => FundsInv'
  <2> SUFFICES ASSUME CreateInv, FundsInv, [Next]_vars PROVE FundsInv'
    OBVIOUS
  <2>1. masterCopy \in Implementations
    BY DEF CreateInv
  <2>2. CASE \E lines \in Files : StartRun(lines)
    BY <2>2, StartRunFunds
  <2>3. CASE \E lines \in Files : BuildBatch(lines)
    BY <2>3, BuildBatchFunds
  <2>4. CASE \E n \in DOMAIN sent : Mine(n)
    <3>1. PICK n \in DOMAIN sent : Mine(n)
      BY <2>4
    <3>2. UNCHANGED <<file, checked, batch>>
      BY <3>1 DEF Mine
    <3>3. CASE CreateTokenLockWallet(Deployer, Salt(sent[n].line))
      <4>1. sent[n] \in Transactions
        BY <3>1 DEF CreateInv, SentTrue
      <4>2. Salt(sent[n].line) \in Entries
        BY <4>1, Amounts DEF Transactions, Salt
      <4> QED
        BY <2>1, <3>2, <3>3, <4>2, CreationFunds
    <3>4. CASE UNCHANGED managerVars
      BY <3>2, <3>4, QueueFunds
    <3> QED
      BY <3>1, <3>3, <3>4 DEF Mine
  <2>5. CASE \/ \E l \in todo : Send(l) \/ SendFails(l)
             \/ \E l \in DOMAIN waiting : SaveDeployResult(l) \/ GiveUp(l)
             \/ FinishRun \/ KillRun
    BY <2>5, QueueFunds DEF Send, SendFails, SaveDeployResult, GiveUp, FinishRun, KillRun
  <2>6. CASE ExecuteBatch
    BY <2>1, <2>6, BatchFunds
  <2>7. CASE ManagerCall /\ UNCHANGED taskVars
    BY <2>7, ManagerCallFunds
  <2>8. CASE UNCHANGED vars
    BY <2>8, QueueFunds DEF vars, taskVars
  <2> QED
    BY <2>2, <2>3, <2>4, <2>5, <2>6, <2>7, <2>8 DEF Next
<1> QED
  BY <1>1, InitFundsInv, CreateInvariant, PTL DEF Spec

(* No wallet is ever funded twice or with another amount, and the pool pays*)
(* for all of them, whatever runs are killed and repeated, batches executed*)
(* and calls made in between.                                              *)
THEOREM FundedExactlyAlways == Spec => []FundedExactly
<1>1. CreateInv /\ FundsInv => FundedExactly
  BY DEF CreateInv, FundsInv, AccountsTrue, FundedExactly, PoolCovers
<1> QED
  BY <1>1, FundsInvariant, PTL

(* The balance that the task has checked is enough for its file, however   *)
(* its creations, those of a killed run and batches are interleaved, as    *)
(* long as the manager pays for nothing else.                              *)
THEOREM CheckedFundsSafety == Spec => []CheckedFundsSuffice
<1>1. CreateInv /\ FundsInv => CheckedFundsSuffice
  <2> SUFFICES ASSUME CreateInv, FundsInv, file # {},
                      withdrawn = checked.withdrawn,
                      \A a \in DOMAIN wallets \ checked.wallets :
                        a.salt \in {Salt(l) : l \in file},
                      \A a \in DOMAIN wallets : a.implementation = masterCopy
               PROVE  SumFunction([e \in UnfundedEntries |-> AmountOf[e]]) <= pool
    BY DEF CheckedFundsSuffice
  <2>1. CheckedBy(masterCopy) /\ UnfundedEntries = UnfundedBy(masterCopy)
    BY DEF CheckedBy, UnfundedBy, UnfundedEntries, ImageOf, Salt, AddressOf
  <2> QED
    BY <2>1 DEF CreateInv, FundsInv, FundsTrue, AmountOfAll
<1> QED
  BY <1>1, FundsInvariant, PTL

(* A batch never fails for want of funds if nothing has left the pool since*)
(* it was built.                                                           *)
THEOREM BatchFundsSafety == Spec => []BatchFundsItself
<1>1. FundsInv => BatchFundsItself
  <2> SUFFICES ASSUME FundsInv, batch # NoBatch, Drawn = batch.drawn
               PROVE  TotalAmount(batch.lines) <= pool + batch.deposit
    BY DEF BatchFundsItself
  <2>1. deposited - batch.drawn = pool
    BY DEF FundsInv, AccountsTrue, BatchTrue, Drawn
  <2> QED
    BY <2>1 DEF FundsInv, BatchTrue
<1> QED
  BY <1>1, FundsInvariant, PTL
=============================================================================
