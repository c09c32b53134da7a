----------------------- MODULE DeployScriptsTheorems -----------------------
(***************************************************************************)
(* Theorems about DeployScripts and ManagerTasks: scripts and manager tasks*)
(* from one terminal, in any number, under any names, with any signatures, *)
(* targets and amounts.                                                    *)
(***************************************************************************)
EXTENDS DeployScripts, TLAPS

(* What is true of a sequence of transactions when one is executed or sent.*)
LEMMA TailIndex ==
  ASSUME NEW S, NEW q \in Seq(S), q # << >>
  PROVE  /\ Tail(q) \in Seq(S) /\ Len(Tail(q)) = Len(q) - 1
         /\ Head(q) = q[1] /\ Head(q) \in S /\ Len(q) \in Nat \ {0}
         /\ \A i \in 1 .. Len(q) - 1 : Tail(q)[i] = q[i + 1]
         /\ Tail(q) = << >> <=> Len(q) = 1
<1>1. Len(q) \in Nat /\ q \in [1 .. Len(q) -> S] /\ Len(q) # 0
  OBVIOUS
<1>2. Tail(q) \in Seq(S) /\ Len(Tail(q)) = Len(q) - 1
  OBVIOUS
<1>3. Head(q) = q[1] /\ Head(q) \in S
  BY <1>1
<1>4. \A i \in 1 .. Len(q) - 1 : Tail(q)[i] = q[i + 1]
  BY <1>1
<1>5. Tail(q) = << >> <=> Len(q) = 1
  BY <1>1, <1>2
<1> QED
  BY <1>1, <1>2, <1>3, <1>4, <1>5

LEMMA AppendIndex ==
  ASSUME NEW S, NEW q \in Seq(S), NEW x \in S
  PROVE  /\ Append(q, x) \in Seq(S) /\ Len(Append(q, x)) = Len(q) + 1
         /\ Append(q, x)[Len(q) + 1] = x
         /\ \A i \in 1 .. Len(q) : Append(q, x)[i] = q[i]
         /\ Append(q, x) # << >>
OBVIOUS

-----------------------------------------------------------------------------
Manager ==
  [network : Networks, owner : Owners, pool : Int, allowance : Nat,
   list : AllowList]

SameTarget == {[s \in Sigs |-> target] : target \in ProtocolContracts}

Txs ==
  [do : {"approve", "deposit", "withdraw"}, to : Nat, arg : Nat]
    \cup [do : {"auth"}, to : Nat, arg : SameTarget]
    \cup [do : {"destination"}, to : Nat, arg : ProtocolContracts]
    \cup [do : {"transfer"}, to : Nat, arg : Owners]

(* What a transaction that succeeds does to its manager. *)
LEMMA AfterTx ==
  ASSUME NEW m \in Manager, NEW tx \in Txs, NEW r,
         tx.do = "deposit" => tx.arg <= m.allowance,
         r = After(tx.do, m, tx.arg)
  PROVE  /\ r \in Manager /\ r.network = m.network
         /\ tx.do = "approve" => r.allowance = tx.arg
         /\ tx.do # "auth" => r.list.authFnCalls = m.list.authFnCalls
         /\ tx.do = "auth" => r.list.authFnCalls = tx.arg
         /\ tx.do = "destination" => tx.arg \in r.list.tokenDestinations
<1>0. /\ m.owner \in Owners /\ m.pool \in Int /\ m.allowance \in Nat /\ m.list \in AllowList
      /\ m.network \in Networks
      /\ m = [network |-> m.network, owner |-> m.owner, pool |-> m.pool,
              allowance |-> m.allowance, list |-> m.list]
  BY DEF Manager
<1>1. CASE tx.do = "approve"
  <2>1. r = [m EXCEPT !.allowance = tx.arg] /\ tx.arg \in Nat
    BY <1>1 DEF After, Txs
  <2> QED
    BY <1>0, <1>1, <2>1 DEF Manager
<1>2. CASE tx.do = "deposit"
  <2>1. /\ r = [m EXCEPT !.allowance = m.allowance - tx.arg, !.pool = m.pool + tx.arg]
        /\ tx.arg \in Nat /\ tx.arg <= m.allowance
    BY <1>2 DEF After, Txs
  <2>2. PICK left \in Nat, pool \in Int : left = m.allowance - tx.arg /\ pool = m.pool + tx.arg
    <3>1. m.allowance - tx.arg \in Nat /\ m.pool + tx.arg \in Int
      BY <1>0, <2>1
    <3> QED
      BY <3>1
  <2>3. r = [network |-> m.network, owner |-> m.owner, pool |-> pool, allowance |-> left,
             list |-> m.list]
    BY <1>0, <2>1, <2>2
  <2> QED
    BY <1>0, <1>2, <2>2, <2>3 DEF Manager
<1>3. CASE tx.do = "withdraw"
  <2>1. r = [m EXCEPT !.pool = m.pool - tx.arg] /\ tx.arg \in Nat
    BY <1>3 DEF After, Txs
  <2> QED
    BY <1>0, <1>3, <2>1 DEF Manager
<1>4. CASE tx.do = "auth"
  <2>1. r = [m EXCEPT !.list = WithAuthFunctionCalls(m.list, tx.arg)] /\ tx.arg \in SameTarget
    BY <1>4 DEF After, Txs
  <2>2. PICK target \in ProtocolContracts : tx.arg = [s \in Sigs |-> target]
    BY <2>1 DEF SameTarget
  <2>3. WithAuthFunctionCalls(m.list, tx.arg) = [m.list EXCEPT !.authFnCalls = tx.arg]
    <3>1. [sig \in Sigs |-> IF sig \in DOMAIN tx.arg THEN tx.arg[sig]
                            ELSE m.list.authFnCalls[sig]] = tx.arg
      BY <2>2
    <3> QED
      BY <3>1 DEF WithAuthFunctionCalls
  <2>4. PICK l : l = [m.list EXCEPT !.authFnCalls = tx.arg]
    OBVIOUS
  <2>5. l \in AllowList /\ l.authFnCalls = tx.arg
    BY <1>0, <2>2, <2>4 DEF AllowList
  <2>6. r = [m EXCEPT !.list = l]
    BY <2>1, <2>3, <2>4
  <2> QED
    BY <1>0, <1>4, <2>5, <2>6 DEF Manager
<1>5. CASE tx.do = "destination"
  <2>1. r = [m EXCEPT !.list = WithTokenDestination(m.list, tx.arg)]
        /\ tx.arg \in ProtocolContracts
    BY <1>5 DEF After, Txs
  <2>2. PICK l : l = WithTokenDestination(m.list, tx.arg)
    OBVIOUS
  <2>3. /\ l \in AllowList /\ l.authFnCalls = m.list.authFnCalls
        /\ tx.arg \in l.tokenDestinations
    BY <1>0, <2>1, <2>2 DEF AllowList, WithTokenDestination
  <2>4. r = [m EXCEPT !.list = l]
    BY <2>1, <2>2
  <2> QED
    BY <1>0, <1>5, <2>3, <2>4 DEF Manager
<1>6. CASE tx.do = "transfer"
  <2>1. r = [m EXCEPT !.owner = tx.arg] /\ tx.arg \in Owners
    BY <1>6 DEF After, Txs
  <2> QED
    BY <1>0, <1>6, <2>1 DEF Manager
<1> QED
  BY <1>1, <1>2, <1>3, <1>4, <1>5, <1>6 DEF Txs

-----------------------------------------------------------------------------
(* The steps of a command, by what it must have been given. *)
AnyName == AllManagerNames

SentCalls ==
  [do : {"approve", "deposit", "withdraw"}, name : AnyName, arg : Nat]
    \cup [do : {"auth"}, name : AnyName, arg : SameTarget]
    \cup [do : {"destination"}, name : AnyName, arg : ProtocolContracts]
    \cup [do : {"transfer"}, name : AnyName, arg : Owners]

DeploySteps ==
  [do : {"deployCopy"}, name : Names("L1Copy") \cup Names("L2Copy")]
    \cup [do : {"deployManager"}, name : Names("L1Manager"), copyAt : Names("L1Copy")]
    \cup [do : {"deployManager"}, name : Names("L2Manager"), copyAt : {Default("L2Copy")}]
    \cup [do : {"deployProxy"}, copy : Nat]
    \cup [do : {"save"}, name : Names("L1Tool") \cup Names("L2Tool")]

Steps == SentCalls \cup DeploySteps

Contracts ==
  [kind : {"L1Copy", "L2Copy", "L1Manager", "L2Manager", "L1Tool", "L2Tool"}, copy : Nat]

Terminals ==
  [network : Networks \cup {"none"}, calls : Seq(Steps), waits : BOOLEAN, waiting : BOOLEAN]

DeployTypeOK ==
  /\ contracts \in Seq(Contracts)
  /\ DOMAIN managers \subseteq 1 .. Len(contracts)
  /\ managers \in [DOMAIN managers -> Manager]
  /\ records \in [DOMAIN records -> Nat]
  /\ pending \in [Networks -> Seq(Txs)]
  /\ terminal \in Terminals

(* What is recorded as the copy of L2 is one, and no script replaces it.   *)
CopyRecorded ==
  Default("L2Copy") \in DOMAIN records =>
    /\ records[Default("L2Copy")] \in 1 .. Len(contracts)
    /\ contracts[records[Default("L2Copy")]] = [kind |-> "L2Copy", copy |-> NoCopy]

Tx(do, to, arg) == [do |-> do, to |-> to, arg |-> arg]

Allowed(to, amount) == managers[to].allowance >= amount

SetUpFor(to, target) == \A s \in Sigs : managers[to].list.authFnCalls[s] = target

(* What is recorded as a manager of a network is one. *)
RecordsTrue ==
  \A name \in DOMAIN records :
    name \in AllManagerNames =>
      /\ records[name] \in DOMAIN managers
      /\ managers[records[name]].network = name.network

(* On each network, a deposit on its way comes right after its approval; a *)
(* destination is on its way alone, to a manager that is set up for it.    *)
QueueTrue(n, queue) ==
  \A i \in 1 .. Len(queue) :
    /\ queue[i].to \in DOMAIN managers
    /\ managers[queue[i].to].network = n
    /\ queue[i].do = "deposit" =>
         IF i = 1 THEN Allowed(queue[1].to, queue[1].arg)
         ELSE queue[i - 1] = Tx("approve", queue[i].to, queue[i].arg)
    /\ queue[i].do = "destination" =>
         i = 1 /\ SetUpFor(queue[1].to, queue[1].arg)

PendingTrue == \A n \in Networks : QueueTrue(n, pending[n])

(* The calls of a command are in order, ... *)
CallsOrdered(calls, waits) ==
  \A i \in 2 .. Len(calls) :
    /\ calls[i].do = "deposit" =>
         calls[i - 1] = Call("approve", calls[i].name, calls[i].arg)
    /\ calls[i].do = "destination" =>
         /\ waits
         /\ calls[i - 1] = Call("auth", calls[i].name, [s \in Sigs |-> calls[i].arg])

(* ... for managers of the network that it runs on, ... *)
CallsOn(network, calls) ==
  \A i \in 1 .. Len(calls) :
    /\ network \in Networks
    /\ calls[i].do \in Calls => calls[i].name.network = network

(* ... and what the next one relies on was executed, or was the last one   *)
(* sent.                                                                   *)
NextReady(call, to, network, queue, waiting) ==
  /\ call.do \in {"deposit", "destination"} =>
       to \in DOMAIN managers /\ managers[to].network = network
  /\ call.do = "deposit" =>
       IF queue = << >> THEN Allowed(to, call.arg)
       ELSE queue[Len(queue)] = Tx("approve", to, call.arg)
  /\ call.do = "destination" =>
       IF waiting
       THEN queue # << >> /\ queue[Len(queue)] = Tx("auth", to, [s \in Sigs |-> call.arg])
       ELSE queue = << >> /\ SetUpFor(to, call.arg)

NextCallTrue ==
  terminal.calls # << >> =>
    NextReady(terminal.calls[1], records[terminal.calls[1].name], terminal.network,
              pending[terminal.network], terminal.waiting)

CommandTrue ==
  /\ CallsOrdered(terminal.calls, terminal.waits)
  /\ CallsOn(terminal.network, terminal.calls)
  /\ NextCallTrue

(* The inductive invariant. *)
DeployInv ==
  /\ DeployTypeOK
  /\ CopyRecorded
  /\ OneMasterCopyOnL2
  /\ OneTarget
  /\ RecordsTrue
  /\ PendingTrue
  /\ CommandTrue

LEMMA IdleType == Idle \in Terminals
<1>1. << >> \in Seq(Steps)
  OBVIOUS
<1> QED
  BY <1>1 DEF Idle, Terminals

LEMMA IdleTrue == terminal = Idle => CommandTrue
  BY DEF Idle, CommandTrue, CallsOrdered, CallsOn, NextCallTrue

LEMMA IdleTrueNext == terminal' = Idle => CommandTrue'
  BY DEF Idle, CommandTrue, CallsOrdered, CallsOn, NextCallTrue

LEMMA DeployInvInitially == Init => DeployInv
<1> SUFFICES ASSUME Init PROVE DeployInv
  OBVIOUS
<1>1. /\ contracts = << >> /\ DOMAIN managers = {} /\ DOMAIN records = {}
      /\ pending = [n \in Networks |-> << >>] /\ terminal = Idle
  BY DEF Init
<1>2. DeployTypeOK
  <2>1. << >> \in Seq(Contracts) /\ << >> \in Seq(Txs)
    OBVIOUS
  <2>2. records \in [DOMAIN records -> Nat] /\ managers \in [DOMAIN managers -> Manager]
    BY <1>1 DEF Init
  <2> QED
    BY <1>1, <2>1, <2>2, IdleType DEF DeployTypeOK
<1>3. CopyRecorded /\ OneMasterCopyOnL2 /\ OneTarget /\ RecordsTrue
  BY <1>1 DEF CopyRecorded, OneMasterCopyOnL2, OneTarget, RecordsTrue
<1>4. PendingTrue
  BY <1>1 DEF PendingTrue, QueueTrue
<1> QED
  BY <1>1, <1>2, <1>3, <1>4, IdleTrue DEF DeployInv

-----------------------------------------------------------------------------
(* A command starts with a list of calls that are in order. *)
GoodCalls(network, calls, waits) ==
  /\ calls \in Seq(Steps)
  /\ CallsOrdered(calls, waits)
  /\ CallsOn(network, calls)
  /\ calls # << >> => calls[1].do \notin {"deposit", "destination"}

LEMMA StartInv ==
  ASSUME DeployInv, NEW network \in Networks, NEW calls, NEW waits \in BOOLEAN,
         GoodCalls(network, calls, waits), Start(network, calls, waits), UNCHANGED contracts
  PROVE  DeployInv'
<1>1. /\ terminal' = [network |-> network, calls |-> calls, waits |-> waits, waiting |-> FALSE]
      /\ UNCHANGED <<managers, records, pending, contracts>>
  BY DEF Start, chainVars
<1>2. DeployTypeOK'
  BY <1>1 DEF DeployInv, DeployTypeOK, GoodCalls, Terminals
<1>3. CopyRecorded' /\ OneMasterCopyOnL2' /\ OneTarget' /\ RecordsTrue'
  BY <1>1 DEF DeployInv, CopyRecorded, OneMasterCopyOnL2, OneTarget, RecordsTrue
<1>4. PendingTrue'
  BY <1>1 DEF DeployInv, PendingTrue, QueueTrue, Allowed, SetUpFor
<1>5. CommandTrue'
  BY <1>1 DEF GoodCalls, CommandTrue, NextCallTrue, NextReady, CallsOrdered, CallsOn
<1> QED
  BY <1>2, <1>3, <1>4, <1>5 DEF DeployInv

LEMMA StopInv ==
  ASSUME DeployInv, terminal' = Idle,
         UNCHANGED <<managers, records, pending, contracts>>
  PROVE  DeployInv'
<1>1. DeployTypeOK'
  BY IdleType DEF DeployInv, DeployTypeOK
<1>2. CopyRecorded' /\ OneMasterCopyOnL2' /\ OneTarget' /\ RecordsTrue'
  BY DEF DeployInv, CopyRecorded, OneMasterCopyOnL2, OneTarget, RecordsTrue
<1>3. PendingTrue'
  BY DEF DeployInv, PendingTrue, QueueTrue, Allowed, SetUpFor
<1> QED
  BY <1>1, <1>2, <1>3, IdleTrueNext DEF DeployInv

(* The network of a name is one of the two. *)
LEMMA NameNetwork ==
  ASSUME NEW name \in AnyName PROVE name.network \in Networks
BY DEF AnyName, AllManagerNames, ManagerKinds, Names, Name, NetworkOf, Networks

(* The calls of each command are in order. *)
LEMMA SetupGood ==
  ASSUME NEW name \in AnyName, NEW target \in ProtocolContracts
  PROVE  GoodCalls(name.network, SetupAuthCalls(name, target), TRUE)
<1> DEFINE a == Call("auth", name, [s \in Sigs |-> target])
           b == Call("destination", name, target)
<1>1. a \in Steps /\ b \in Steps
  BY DEF Steps, SentCalls, SameTarget, Call
<1>2. /\ a.name = name /\ name.network \in Networks
      /\ a.do = "auth" /\ b.do = "destination" /\ b.name = name /\ b.arg = target
      /\ SetupAuthCalls(name, target) = <<a, b>>
  BY NameNetwork DEF Call, SetupAuthCalls
<1>3. a = Call("auth", b.name, [s \in Sigs |-> b.arg])
  BY <1>2
<1> HIDE DEF a, b
<1> DEFINE calls == <<a, b>>
<1>4. calls \in Seq(Steps) /\ Len(calls) = 2 /\ calls[1] = a /\ calls[2] = b
  BY <1>1
<1> HIDE DEF calls
<1>5. calls[2 - 1] = Call("auth", calls[2].name, [s \in Sigs |-> calls[2].arg])
  BY <1>3, <1>4
<1>6. CallsOrdered(calls, TRUE)
  BY <1>2, <1>4, <1>5 DEF CallsOrdered
<1>7. CallsOn(name.network, calls)
  BY <1>2, <1>4 DEF CallsOn
<1> QED
  BY <1>2, <1>4, <1>6, <1>7 DEF GoodCalls, calls

LEMMA DepositGood ==
  ASSUME NEW name \in AnyName, NEW amount \in Nat, NEW waits \in BOOLEAN
  PROVE  GoodCalls(name.network, DepositCalls(name, amount), waits)
<1> DEFINE a == Call("approve", name, amount)
           b == Call("deposit", name, amount)
<1>1. a \in Steps /\ b \in Steps
  BY DEF Steps, SentCalls, Call
<1>2. /\ a.do = "approve" /\ b.do = "deposit" /\ a.name = name /\ b.name = name
      /\ a = Call("approve", b.name, b.arg) /\ name.network \in Networks
      /\ DepositCalls(name, amount) = <<a, b>>
  BY NameNetwork DEF Call, DepositCalls
<1> HIDE DEF a, b
<1> QED
  BY <1>1, <1>2 DEF GoodCalls, CallsOrdered, CallsOn

LEMMA OneCallGood ==
  ASSUME NEW network \in Networks, NEW call \in Steps,
         call.do \notin {"deposit", "destination"},
         call.do \in Calls => call.name.network = network, NEW waits \in BOOLEAN
  PROVE  GoodCalls(network, <<call>>, waits)
BY DEF GoodCalls, CallsOrdered, CallsOn

LEMMA TaskInv ==
  ASSUME DeployInv, StartManagerTask, UNCHANGED contracts
  PROVE  DeployInv'
<1>1. PICK name \in ManagerNames :
        \/ \E target \in ProtocolContracts : Start(name.network, SetupAuthCalls(name, target), TRUE)
        \/ \E amount \in Amounts : Start(name.network, DepositCalls(name, amount), TRUE)
        \/ \E amount \in Amounts : Start(name.network, WithdrawCalls(name, amount), TRUE)
        \/ \E newOwner \in Owners : Start(name.network, TransferCalls(name, newOwner), FALSE)
  BY DEF StartManagerTask
<1>2. name \in AnyName /\ name.network \in Networks
  BY NameNetwork, DeployScriptsAssumption DEF AnyName
<1>3. ASSUME NEW target \in ProtocolContracts, Start(name.network, SetupAuthCalls(name, target), TRUE)
      PROVE  DeployInv'
  BY <1>2, <1>3, SetupGood, StartInv
<1>4. ASSUME NEW amount \in Amounts, Start(name.network, DepositCalls(name, amount), TRUE)
      PROVE  DeployInv'
  <2>1. amount \in Nat
    BY ManagerTasksAssumption
  <2> QED
    BY <1>2, <1>4, <2>1, DepositGood, StartInv
<1>5. ASSUME NEW amount \in Amounts, Start(name.network, WithdrawCalls(name, amount), TRUE)
      PROVE  DeployInv'
  <2>1. amount \in Nat
    BY ManagerTasksAssumption
  <2>2. /\ Call("withdraw", name, amount) \in Steps
        /\ Call("withdraw", name, amount).do = "withdraw"
        /\ Call("withdraw", name, amount).name = name
    BY <1>2, <2>1 DEF Call, Steps, SentCalls
  <2>3. GoodCalls(name.network, WithdrawCalls(name, amount), TRUE)
    BY <1>2, <2>2, OneCallGood DEF WithdrawCalls
  <2> QED
    BY <1>2, <1>5, <2>3, StartInv
<1>6. ASSUME NEW newOwner \in Owners, Start(name.network, TransferCalls(name, newOwner), FALSE)
      PROVE  DeployInv'
  <2>1. /\ Call("transfer", name, newOwner) \in Steps
        /\ Call("transfer", name, newOwner).do = "transfer"
        /\ Call("transfer", name, newOwner).name = name
    BY <1>2 DEF Call, Steps, SentCalls
  <2>2. GoodCalls(name.network, TransferCalls(name, newOwner), FALSE)
    BY <1>2, <2>1, OneCallGood DEF TransferCalls
  <2> QED
    BY <1>2, <1>6, <2>2, StartInv
<1> QED
  BY <1>1, <1>3, <1>4, <1>5, <1>6

LEMMA DeployStepsNotCalls ==
  ASSUME NEW step \in DeploySteps PROVE step.do \notin Calls
BY DEF DeploySteps, Calls

(* A list of deployments may be followed by the calls that fund a manager. *)
LEMMA FundedGood ==
  ASSUME NEW deploys \in Seq(DeploySteps), NEW name \in AnyName, NEW funds \in BOOLEAN,
         deploys # << >>
  PROVE  GoodCalls(name.network, deploys \o IF funds THEN Fund(name) ELSE << >>, FALSE)
<1> DEFINE fund == IF funds THEN Fund(name) ELSE << >>
           calls == deploys \o fund
<1>1. FundAmount \in Nat
  BY DeployScriptsAssumption
<1>2. GoodCalls(name.network, Fund(name), FALSE) /\ GoodCalls(name.network, << >>, FALSE)
  <2>1. GoodCalls(name.network, Fund(name), FALSE)
    BY <1>1, DepositGood DEF Fund
  <2>2. << >> \in Seq(Steps) /\ Len(<< >>) = 0
    OBVIOUS
  <2>3. GoodCalls(name.network, << >>, FALSE)
    BY <2>2 DEF GoodCalls, CallsOrdered, CallsOn
  <2> QED
    BY <2>1, <2>3
<1>3. GoodCalls(name.network, fund, FALSE)
  BY <1>2
<1> HIDE DEF fund
<1>4. deploys \in Seq(Steps)
  BY DEF Steps
<1>5. calls \in Seq(Steps) /\ Len(calls) = Len(deploys) + Len(fund)
  BY <1>3, <1>4 DEF GoodCalls
<1>6. /\ \A i \in 1 .. Len(deploys) : calls[i] = deploys[i]
      /\ \A i \in 1 .. Len(fund) : calls[Len(deploys) + i] = fund[i]
  BY <1>3, <1>4 DEF GoodCalls
<1>7. \A i \in 1 .. Len(deploys) : calls[i].do \notin {"deposit", "destination"}
  <2>1. \A step \in DeploySteps : step.do \notin {"deposit", "destination"}
    BY DEF DeploySteps
  <2> QED
    BY <1>6, <2>1
<1>8. CallsOrdered(calls, FALSE)
  <2> SUFFICES ASSUME NEW i \in 2 .. Len(calls)
               PROVE  /\ calls[i].do = "deposit" =>
                           calls[i - 1] = Call("approve", calls[i].name, calls[i].arg)
                      /\ calls[i].do # "destination"
    BY DEF CallsOrdered
  <2>1. CASE i <= Len(deploys)
    BY <1>7, <2>1
  <2>2. CASE i = Len(deploys) + 1
    <3>1. calls[i] = fund[1] /\ fund # << >>
      BY <1>3, <1>5, <1>6, <2>2 DEF GoodCalls
    <3> QED
      BY <1>3, <3>1 DEF GoodCalls
  <2>3. CASE i > Len(deploys) + 1
    <3>1. PICK j \in 2 .. Len(fund) : i = Len(deploys) + j
      <4>1. Len(fund) \in Nat /\ Len(deploys) \in Nat
        BY <1>3 DEF GoodCalls
      <4>2. i - Len(deploys) \in 2 .. Len(fund) /\ i = Len(deploys) + (i - Len(deploys))
        BY <1>5, <2>3, <4>1
      <4> QED
        BY <4>2
    <3>2. calls[i] = fund[j] /\ calls[i - 1] = fund[j - 1]
      BY <1>3, <1>6, <3>1 DEF GoodCalls
    <3> QED
      BY <1>3, <3>2 DEF GoodCalls, CallsOrdered
  <2> QED
    BY <1>5, <2>1, <2>2, <2>3 DEF GoodCalls
<1>9. Len(deploys) \in Nat /\ Len(deploys) >= 1
  OBVIOUS
<1>10. calls[1].do \notin {"deposit", "destination"}
  BY <1>7, <1>9
<1>11. GoodCalls(name.network, calls, FALSE)
  <2>1. CallsOn(name.network, calls)
    <3> SUFFICES ASSUME NEW i \in 1 .. Len(calls), calls[i].do \in Calls
                 PROVE  calls[i].name.network = name.network
      BY NameNetwork DEF CallsOn
    <3>1. CASE i <= Len(deploys)
      <4>1. calls[i] \in DeploySteps
        BY <1>6, <3>1
      <4> QED
        BY <4>1, DeployStepsNotCalls
    <3>2. CASE i > Len(deploys)
      <4>1. PICK j \in 1 .. Len(fund) : i = Len(deploys) + j
        <5>1. i - Len(deploys) \in 1 .. Len(fund) /\ i = Len(deploys) + (i - Len(deploys))
          BY <1>3, <1>5, <3>2 DEF GoodCalls
        <5> QED
          BY <5>1
      <4>2. calls[i] = fund[j]
        BY <1>6, <4>1
      <4> QED
        BY <1>3, <4>2 DEF GoodCalls, CallsOn
    <3> QED
      BY <1>5, <3>1, <3>2 DEF GoodCalls
  <2> HIDE DEF calls
  <2> QED
    BY <1>5, <1>8, <1>10, <2>1 DEF GoodCalls
<1> QED
  BY <1>11 DEF fund

LEMMA ScriptInv ==
  ASSUME DeployInv, StartScript, UNCHANGED contracts
  PROVE  DeployInv'
<1>1. ASSUME NEW copyName \in Names("L1Copy"), NEW name \in Names("L1Manager"),
             NEW funds \in BOOLEAN, Start("L1", L1ManagerScript(copyName, name, funds), FALSE)
      PROVE  DeployInv'
  <2>1. DeployCopy(copyName) \in DeploySteps /\ DeployManager(name, copyName) \in DeploySteps
    BY DEF DeployCopy, DeployManager, DeploySteps
  <2>2. <<DeployCopy(copyName), DeployManager(name, copyName)>> \in Seq(DeploySteps)
    BY <2>1
  <2>3. name \in AnyName /\ name.network = "L1" /\ "L1" \in Networks
    BY DEF AnyName, AllManagerNames, ManagerKinds, Names, Name, NetworkOf, Networks
  <2>4. GoodCalls("L1", L1ManagerScript(copyName, name, funds), FALSE)
    BY <2>2, <2>3, FundedGood DEF L1ManagerScript
  <2> QED
    BY <1>1, <2>3, <2>4, StartInv
<1>2. ASSUME NEW name \in Names("L2Manager"), NEW funds \in BOOLEAN,
             Start("L2", L2ManagerScript(name, funds), FALSE)
      PROVE  DeployInv'
  <2>1. DeployManager(name, Default("L2Copy")) \in DeploySteps
    BY DEF DeployManager, DeploySteps
  <2>2. <<DeployManager(name, Default("L2Copy"))>> \in Seq(DeploySteps)
    BY <2>1
  <2>3. name \in AnyName /\ name.network = "L2" /\ "L2" \in Networks
    BY DEF AnyName, AllManagerNames, ManagerKinds, Names, Name, NetworkOf, Networks
  <2>4. GoodCalls("L2", L2ManagerScript(name, funds), FALSE)
    BY <2>2, <2>3, FundedGood DEF L2ManagerScript
  <2> QED
    BY <1>2, <2>3, <2>4, StartInv
<1>3. ASSUME NEW copyName \in Names("L2Copy"), Start("L2", L2WalletScript(copyName), FALSE)
      PROVE  DeployInv'
  <2>1. DeployCopy(copyName) \in Steps /\ DeployCopy(copyName).do = "deployCopy"
    BY DEF DeployCopy, DeploySteps, Steps
  <2>2. GoodCalls("L2", L2WalletScript(copyName), FALSE)
    BY <2>1, OneCallGood DEF L2WalletScript, Calls, Networks
  <2> QED
    BY <1>3, <2>2, StartInv DEF Networks
<1>4. ASSUME NEW copy \in Nat, NEW name \in Names("L1Tool") \cup Names("L2Tool"),
             NEW network \in Networks
      PROVE  GoodCalls(network, <<DeployProxy(copy), Save(name)>>, FALSE)
  <2> DEFINE a == DeployProxy(copy)
             b == Save(name)
  <2>1. a \in Steps /\ b \in Steps /\ a.do = "deployProxy" /\ b.do = "save"
    BY DEF DeployProxy, Save, DeploySteps, Steps
  <2> HIDE DEF a, b
  <2> QED
    BY <2>1 DEF GoodCalls, CallsOrdered, CallsOn, Calls, a, b
<1>5. ASSUME NEW a \in DOMAIN contracts, NEW name \in Names("L1Tool"),
             Start("L1", L1ToolScript(a, name), FALSE)
      PROVE  DeployInv'
  <2>1. a \in Nat
    BY DEF DeployInv, DeployTypeOK
  <2>2. GoodCalls("L1", L1ToolScript(a, name), FALSE)
    BY <1>4, <2>1 DEF L1ToolScript, Networks
  <2> QED
    BY <1>5, <2>2, StartInv DEF Networks
<1>6. ASSUME NEW name \in Names("L2Tool"), Start("L2", L2ToolScript(name), FALSE)
      PROVE  DeployInv'
  <2>1. GoodCalls("L2", L2ToolScript(name), FALSE)
    BY <1>4 DEF L2ToolScript, NoCopy, Networks
  <2> QED
    BY <1>6, <2>1, StartInv DEF Networks
<1> QED
  BY <1>1, <1>2, <1>3, <1>5, <1>6 DEF StartScript

(* What remains of calls that are in order is in order. *)
LEMMA RestOrdered ==
  ASSUME NEW network, NEW calls \in Seq(Steps), NEW rest \in Seq(Steps), NEW waits,
         Len(rest) = Len(calls) - 1, Len(calls) \in Nat \ {0},
         \A i \in 1 .. Len(calls) - 1 : rest[i] = calls[i + 1],
         CallsOrdered(calls, waits), CallsOn(network, calls)
  PROVE  CallsOrdered(rest, waits) /\ CallsOn(network, rest)
<1>1. CallsOrdered(rest, waits)
  <2> SUFFICES ASSUME NEW i \in 2 .. Len(rest)
               PROVE  /\ rest[i].do = "deposit" =>
                           rest[i - 1] = Call("approve", rest[i].name, rest[i].arg)
                      /\ rest[i].do = "destination" =>
                           /\ waits
                           /\ rest[i - 1] = Call("auth", rest[i].name,
                                                 [s \in Sigs |-> rest[i].arg])
    BY DEF CallsOrdered
  <2>1. /\ i + 1 \in 2 .. Len(calls) /\ i \in 1 .. Len(calls) - 1
        /\ i - 1 \in 1 .. Len(calls) - 1 /\ (i - 1) + 1 = i /\ (i + 1) - 1 = i
    OBVIOUS
  <2>2. PICK j \in 2 .. Len(calls) :
          rest[i] = calls[j] /\ rest[i - 1] = calls[j - 1]
    BY <2>1
  <2> QED
    BY <2>2 DEF CallsOrdered
<1>2. CallsOn(network, rest)
  <2> SUFFICES ASSUME NEW i \in 1 .. Len(rest)
               PROVE  /\ network \in Networks
                      /\ rest[i].do \in Calls => rest[i].name.network = network
    BY DEF CallsOn
  <2>1. PICK j \in 1 .. Len(calls) : rest[i] = calls[j]
    OBVIOUS
  <2> QED
    BY <2>1 DEF CallsOn
<1> QED
  BY <1>1, <1>2

-----------------------------------------------------------------------------
(* A call is sent. *)
LEMMA SendInv ==
  ASSUME DeployInv, SendCall, UNCHANGED contracts
  PROVE  DeployInv'
<1> DEFINE calls == terminal.calls
           call == Head(calls)
           rest == Tail(calls)
           net == terminal.network
           queue == pending[net]
<1>1. /\ calls \in Seq(Steps) /\ calls # << >> /\ terminal.waits \in BOOLEAN
      /\ pending \in [Networks -> Seq(Txs)]
      /\ terminal = [network |-> net, calls |-> calls, waits |-> terminal.waits,
                     waiting |-> FALSE]
  BY DEF SendCall, DeployInv, DeployTypeOK, Terminals
<1>2. /\ call = calls[1] /\ call \in Steps /\ rest \in Seq(Steps)
      /\ Len(rest) = Len(calls) - 1 /\ Len(calls) \in Nat \ {0}
      /\ \A i \in 1 .. Len(calls) - 1 : rest[i] = calls[i + 1]
  <2> HIDE DEF calls
  <2> QED
    BY <1>1, TailIndex
<1>3. call \in SentCalls /\ records[call.name] \in DOMAIN managers
      /\ call.do \in Calls /\ call.name \in DOMAIN records
  <2>1. call.do \in Calls /\ HasManager(call.name)
    BY DEF SendCall
  <2>2. call \notin DeploySteps
    <3> HIDE DEF call
    <3> QED
      BY <2>1, DeployStepsNotCalls
  <2> QED
    BY <1>2, <2>1, <2>2 DEF Steps, HasManager
<1>4. /\ net \in Networks /\ queue \in Seq(Txs)
      /\ managers[records[call.name]].network = net
  <2>1. net \in Networks /\ call.name.network = net
    BY <1>2, <1>3 DEF DeployInv, CommandTrue, CallsOn
  <2>2. call.name \in AllManagerNames
    <3> HIDE DEF call
    <3> QED
      BY <1>3 DEF SentCalls, AnyName
  <2> QED
    BY <1>1, <1>3, <2>1, <2>2 DEF DeployInv, RecordsTrue
<1>5. PICK tx : tx = Tx(call.do, records[call.name], call.arg)
  OBVIOUS
<1>6. tx \in Txs /\ tx.to \in DOMAIN managers /\ managers[tx.to].network = net
  <2>1. records[call.name] \in Nat
    BY <1>3 DEF DeployInv, DeployTypeOK
  <2> HIDE DEF call
  <2> QED
    BY <1>3, <1>4, <1>5, <2>1 DEF SentCalls, Txs, Tx
<1>7. /\ pending' = [pending EXCEPT ![net] = Append(queue, tx)]
      /\ UNCHANGED <<managers, records, contracts>>
  BY <1>5 DEF SendCall, chainVars, Tx
<1>8. PICK q : q = Append(queue, tx)
  OBVIOUS
<1>9. \/ terminal' = [network |-> net, calls |-> rest, waits |-> terminal.waits,
                      waiting |-> terminal.waits]
      \/ terminal' = Idle
  BY <1>1 DEF SendCall
<1> HIDE DEF call, rest, calls, queue
<1>10. /\ q \in Seq(Txs) /\ Len(q) = Len(queue) + 1
       /\ q[Len(queue) + 1] = tx /\ Len(queue) \in Nat
       /\ \A i \in 1 .. Len(queue) : q[i] = queue[i]
       /\ q # << >>
  BY <1>4, <1>6, <1>8, AppendIndex
<1>11. /\ pending' \in [Networks -> Seq(Txs)] /\ pending'[net] = q
       /\ \A n \in Networks \ {net} : pending'[n] = pending[n]
  BY <1>1, <1>4, <1>7, <1>8, <1>10
<1>12. DeployTypeOK'
  <2>1. terminal' \in Terminals
    <3>1. CASE terminal' = [network |-> net, calls |-> rest, waits |-> terminal.waits,
                            waiting |-> terminal.waits]
      BY <1>1, <1>2, <1>4, <3>1 DEF Terminals
    <3> QED
      BY <1>9, <3>1, IdleType
  <2> QED
    BY <1>7, <1>11, <2>1 DEF DeployInv, DeployTypeOK
<1>13. CopyRecorded' /\ OneMasterCopyOnL2' /\ OneTarget' /\ RecordsTrue'
  BY <1>7 DEF DeployInv, CopyRecorded, OneMasterCopyOnL2, OneTarget, RecordsTrue
<1>14. /\ call.do = "deposit" =>
            IF queue = << >> THEN Allowed(tx.to, tx.arg)
            ELSE queue[Len(queue)] = Tx("approve", tx.to, tx.arg)
       /\ call.do = "destination" => queue = << >> /\ SetUpFor(tx.to, tx.arg)
  <2>1. tx.to = records[call.name] /\ tx.arg = call.arg
    BY <1>5 DEF Tx
  <2>2. NextReady(call, records[call.name], net, queue, FALSE)
    <3>1. terminal.calls # << >> /\ terminal.waiting = FALSE /\ call = terminal.calls[1]
      BY <1>1, <1>2 DEF calls
    <3>2. NextCallTrue
      BY DEF DeployInv, CommandTrue
    <3> QED
      BY <3>1, <3>2 DEF NextCallTrue, queue
  <2> QED
    BY <2>1, <2>2 DEF NextReady
<1>15. QueueTrue(net, q)
  <2> SUFFICES ASSUME NEW i \in 1 .. Len(q)
               PROVE  /\ q[i].to \in DOMAIN managers
                      /\ managers[q[i].to].network = net
                      /\ q[i].do = "deposit" =>
                           IF i = 1 THEN Allowed(q[1].to, q[1].arg)
                           ELSE q[i - 1] = Tx("approve", q[i].to, q[i].arg)
                      /\ q[i].do = "destination" =>
                           i = 1 /\ SetUpFor(q[1].to, q[1].arg)
    BY DEF QueueTrue
  <2>1. CASE i <= Len(queue)
    <3>1. /\ i \in 1 .. Len(queue) /\ q[i] = queue[i] /\ q[1] = queue[1]
          /\ i # 1 => q[i - 1] = queue[i - 1]
      BY <1>10, <2>1
    <3>2. QueueTrue(net, queue)
      BY <1>4 DEF DeployInv, PendingTrue, queue
    <3> QED
      BY <3>1, <3>2 DEF QueueTrue
  <2>2. CASE i = Len(queue) + 1
    <3>1. q[i] = tx /\ tx.do = call.do
      BY <1>5, <1>10, <2>2 DEF Tx
    <3>2. queue = << >> <=> i = 1
      BY <1>4, <2>2
    <3>3. i # 1 => q[i - 1] = queue[Len(queue)]
      BY <1>10, <2>2
    <3> QED
      BY <1>6, <1>14, <3>1, <3>2, <3>3
  <2> QED
    BY <1>10, <2>1, <2>2
<1>16. PendingTrue'
  <2>1. \A n \in Networks : QueueTrue(n, pending'[n])
    BY <1>11, <1>15 DEF DeployInv, PendingTrue
  <2> QED
    BY <1>7, <2>1 DEF PendingTrue, QueueTrue, Allowed, SetUpFor
<1>17. CommandTrue'
  <2>1. CASE terminal' = [network |-> net, calls |-> rest, waits |-> terminal.waits,
                          waiting |-> terminal.waits]
    <3>1. CallsOrdered(calls, terminal.waits) /\ CallsOn(net, calls)
      BY DEF DeployInv, CommandTrue, calls
    <3>2. CallsOrdered(rest, terminal.waits) /\ CallsOn(net, rest)
      BY <1>1, <1>2, <3>1, RestOrdered
    <3>3. ASSUME rest # << >>
          PROVE  NextReady(rest[1], records[rest[1].name], net, q, terminal.waits)
      <4>1. PICK j \in 2 .. Len(calls) : calls[j] = rest[1] /\ calls[j - 1] = call
        BY <1>2, <3>3
      <4>2. /\ rest[1].do = "deposit" => call = Call("approve", rest[1].name, rest[1].arg)
            /\ rest[1].do = "destination" =>
                 /\ terminal.waits
                 /\ call = Call("auth", rest[1].name, [s \in Sigs |-> rest[1].arg])
        BY <3>1, <4>1 DEF CallsOrdered
      <4>3. q[Len(q)] = tx
        BY <1>10
      <4>4. rest[1].do \in {"deposit", "destination"} => rest[1].name = call.name
        BY <4>2 DEF Call
      <4> QED
        BY <1>3, <1>4, <1>5, <1>10, <4>2, <4>3, <4>4 DEF NextReady, Call, Tx
    <3>4. /\ terminal'.calls = rest /\ terminal'.waiting = terminal.waits
          /\ terminal'.waits = terminal.waits /\ terminal'.network = net
      BY <2>1
    <3>5. NextCallTrue'
      BY <1>7, <1>11, <3>3, <3>4 DEF NextCallTrue, NextReady, Allowed, SetUpFor
    <3> QED
      BY <3>2, <3>4, <3>5 DEF CommandTrue, CallsOrdered, CallsOn
  <2> QED
    BY <1>9, <2>1, IdleTrueNext
<1> QED
  BY <1>12, <1>13, <1>16, <1>17 DEF DeployInv

-----------------------------------------------------------------------------
(* A chain executes the next transaction. *)
LEMMA MineInv ==
  ASSUME DeployInv, NEW net \in Networks, Mine(net), UNCHANGED contracts
  PROVE  DeployInv'
<1> DEFINE queue == pending[net]
           tx == Head(queue)
           ok == Succeeds(tx.do, managers[tx.to], tx.arg, purse[net])
<1>1. /\ pending \in [Networks -> Seq(Txs)] /\ queue # << >> /\ queue \in Seq(Txs)
      /\ managers \in [DOMAIN managers -> Manager]
      /\ UNCHANGED <<records, contracts>> /\ pending' = [pending EXCEPT ![net] = Tail(queue)]
  BY DEF Mine, DeployInv, DeployTypeOK
<1>2. PICK q : q = Tail(queue)
  OBVIOUS
<1>3. /\ q \in Seq(Txs) /\ Len(q) = Len(queue) - 1
      /\ tx = queue[1] /\ tx \in Txs /\ Len(queue) \in Nat \ {0}
      /\ \A i \in 1 .. Len(queue) - 1 : q[i] = queue[i + 1]
      /\ q = << >> <=> Len(queue) = 1
  <2> HIDE DEF queue
  <2> QED
    BY <1>1, <1>2, TailIndex
<1>4. /\ pending' \in [Networks -> Seq(Txs)] /\ pending'[net] = q
      /\ \A n \in Networks \ {net} : pending'[n] = pending[n]
  BY <1>1, <1>2, <1>3
<1>5. tx.to \in DOMAIN managers /\ managers[tx.to].network = net
  BY <1>3 DEF DeployInv, PendingTrue, QueueTrue
<1>6. /\ ok => managers' = [managers EXCEPT
                   ![tx.to] = After(tx.do, managers[tx.to], tx.arg)]
      /\ ~ok => managers' = managers
  BY DEF Mine, chainVars
<1>7. \/ terminal' = terminal /\ ~(terminal.waiting /\ terminal.network = net /\ q = << >>)
      \/ /\ terminal.waiting /\ terminal.network = net /\ q = << >>
         /\ \/ ok /\ terminal' = [terminal EXCEPT !.waiting = FALSE]
            \/ terminal' = Idle
  BY <1>4 DEF Mine, Confirms
<1>8. tx.do = "approve" => ok
  BY DEF Succeeds
<1> HIDE DEF ok, tx, queue
<1>9. /\ DOMAIN managers' = DOMAIN managers
      /\ managers' \in [DOMAIN managers -> Manager]
      /\ \A a \in DOMAIN managers :
           /\ managers'[a].network = managers[a].network
           /\ a # tx.to => managers'[a] = managers[a]
      /\ ok /\ tx.do = "approve" => managers'[tx.to].allowance = tx.arg
      /\ ok /\ tx.do = "auth" => managers'[tx.to].list.authFnCalls = tx.arg
      /\ ~ok \/ tx.do # "auth" =>
           managers'[tx.to].list.authFnCalls = managers[tx.to].list.authFnCalls
  <2>1. CASE ~ok
    BY <1>1, <1>6, <2>1
  <2>2. CASE ok
    <3>1. PICK r : r = After(tx.do, managers[tx.to], tx.arg)
      OBVIOUS
    <3>2. managers[tx.to] \in Manager
      BY <1>1, <1>5
    <3>3. /\ r \in Manager /\ r.network = managers[tx.to].network
          /\ tx.do = "approve" => r.allowance = tx.arg
          /\ tx.do # "auth" => r.list.authFnCalls = managers[tx.to].list.authFnCalls
          /\ tx.do = "auth" => r.list.authFnCalls = tx.arg
      <4>1. tx.do = "deposit" => tx.arg <= managers[tx.to].allowance
        BY <2>2 DEF ok, Succeeds
      <4> QED
        BY <1>3, <3>1, <3>2, <4>1, AfterTx
    <3>4. managers' = [managers EXCEPT ![tx.to] = r]
      BY <1>6, <2>2, <3>1
    <3> QED
      BY <1>1, <1>5, <2>2, <3>3, <3>4
  <2> QED
    BY <2>1, <2>2
<1>10. DeployTypeOK'
  <2>1. terminal' \in Terminals
    <3>1. terminal \in Terminals
      BY DEF DeployInv, DeployTypeOK
    <3>2. [terminal EXCEPT !.waiting = FALSE] \in Terminals
      BY <3>1 DEF Terminals
    <3> QED
      BY <1>7, <3>1, <3>2, IdleType
  <2> QED
    BY <1>1, <1>4, <1>9, <2>1 DEF DeployInv, DeployTypeOK
<1>11. CopyRecorded' /\ OneMasterCopyOnL2' /\ RecordsTrue'
  BY <1>1, <1>9 DEF DeployInv, CopyRecorded, OneMasterCopyOnL2, RecordsTrue
<1>12. tx.do = "auth" => \E target : \A s \in Sigs : tx.arg[s] = target
  <2>1. tx.do = "auth" => tx.arg \in SameTarget
    BY <1>3 DEF Txs
  <2> QED
    BY <2>1 DEF SameTarget
<1>13. OneTarget'
  <2> SUFFICES ASSUME NEW a \in DOMAIN managers, NEW s1 \in Sigs, NEW s2 \in Sigs
               PROVE  managers'[a].list.authFnCalls[s1] = managers'[a].list.authFnCalls[s2]
    BY <1>9 DEF OneTarget, AuthFunctionCallTarget
  <2>1. managers[a].list.authFnCalls[s1] = managers[a].list.authFnCalls[s2]
    BY DEF DeployInv, OneTarget, AuthFunctionCallTarget
  <2>2. CASE a # tx.to
    BY <1>9, <2>1, <2>2
  <2>3. CASE a = tx.to /\ ok /\ tx.do = "auth"
    BY <1>9, <1>12, <2>3
  <2>4. CASE a = tx.to /\ (~ok \/ tx.do # "auth")
    BY <1>9, <2>1, <2>4
  <2> QED
    BY <2>2, <2>3, <2>4
<1>14. QueueTrue(net, q)'
  <2> SUFFICES ASSUME NEW i \in 1 .. Len(q)
               PROVE  /\ q[i].to \in DOMAIN managers
                      /\ managers'[q[i].to].network = net
                      /\ q[i].do = "deposit" =>
                           IF i = 1 THEN managers'[q[1].to].allowance >= q[1].arg
                           ELSE q[i - 1] = Tx("approve", q[i].to, q[i].arg)
                      /\ q[i].do # "destination"
    BY <1>9 DEF QueueTrue, Allowed
  <2>1. PICK j \in 2 .. Len(queue) : j = i + 1 /\ q[i] = queue[j]
    BY <1>3
  <2>2. /\ queue[j].to \in DOMAIN managers /\ managers[queue[j].to].network = net
        /\ queue[j].do = "deposit" =>
             queue[j - 1] = Tx("approve", queue[j].to, queue[j].arg)
        /\ queue[j].do # "destination"
    BY <2>1 DEF DeployInv, PendingTrue, QueueTrue, queue
  <2>3. i # 1 => q[i - 1] = queue[j - 1]
    BY <1>3, <2>1
  <2>4. ASSUME i = 1, queue[j].do = "deposit"
        PROVE  managers'[queue[j].to].allowance >= queue[j].arg
    <3>1. tx = Tx("approve", queue[j].to, queue[j].arg)
      BY <1>3, <2>1, <2>2, <2>4
    <3>2. tx.do = "approve" /\ tx.to = queue[j].to /\ tx.arg = queue[j].arg
      BY <3>1 DEF Tx
    <3>3. tx.arg \in Nat
      BY <1>3, <3>2 DEF Txs
    <3> QED
      BY <1>8, <1>9, <3>2, <3>3
  <2> QED
    BY <1>9, <2>1, <2>2, <2>3, <2>4
<1>15. PendingTrue'
  <2>1. ASSUME NEW n \in Networks, n # net PROVE QueueTrue(n, pending[n])'
    <3>1. QueueTrue(n, pending[n])
      BY DEF DeployInv, PendingTrue
    <3>2. \A i \in 1 .. Len(pending[n]) :
            /\ pending[n][i].to \in DOMAIN managers
            /\ managers[pending[n][i].to].network = n
            /\ managers'[pending[n][i].to] = managers[pending[n][i].to]
      BY <1>5, <1>9, <2>1, <3>1 DEF QueueTrue
    <3>3. pending'[n] = pending[n]
      BY <1>4, <2>1
    <3>4. \A i \in 1 .. Len(pending[n]) : 1 \in 1 .. Len(pending[n])
      BY <1>1
    <3> QED
      BY <1>9, <3>1, <3>2, <3>3, <3>4 DEF QueueTrue, Allowed, SetUpFor
  <2>2. QueueTrue(net, pending[net])'
    BY <1>4, <1>14 DEF QueueTrue
  <2> QED
    BY <2>1, <2>2 DEF PendingTrue
<1>16. CommandTrue'
  <2>1. /\ CallsOrdered(terminal.calls, terminal.waits)
        /\ CallsOn(terminal.network, terminal.calls) /\ NextCallTrue
    BY DEF DeployInv, CommandTrue
  <2>2. CASE /\ terminal'.calls = terminal.calls /\ terminal'.waits = terminal.waits
             /\ terminal'.network = terminal.network
             /\ \/ /\ terminal'.waiting = terminal.waiting
                   /\ ~(terminal.waiting /\ terminal.network = net /\ q = << >>)
                \/ /\ terminal.waiting /\ ~terminal'.waiting
                   /\ terminal.network = net /\ q = << >> /\ ok
    <3>1. NextCallTrue'
      <4> SUFFICES ASSUME terminal.calls # << >> PROVE NextCallTrue'
        BY <2>2 DEF NextCallTrue
      <4> DEFINE call == terminal.calls[1]
                 to == records[call.name]
      <4>1. NextReady(call, to, terminal.network, pending[terminal.network],
                      terminal.waiting)
        BY <2>1 DEF NextCallTrue
      <4>2. terminal.network \in Networks
        <5>1. 1 \in 1 .. Len(terminal.calls)
          BY DEF DeployInv, DeployTypeOK, Terminals
        <5> QED
          BY <2>1, <5>1 DEF CallsOn
      <4> HIDE DEF call
      <4>3. CASE terminal.network # net
        <5>1. /\ pending'[terminal.network] = pending[terminal.network]
              /\ terminal'.waiting = terminal.waiting
          BY <1>4, <2>2, <4>2, <4>3
        <5>2. call.do \in {"deposit", "destination"} =>
                to \in DOMAIN managers /\ managers'[to] = managers[to]
          BY <1>5, <1>9, <4>1, <4>3 DEF NextReady
        <5>3. PICK n, sent : n = terminal.network /\ sent = pending[n]
          OBVIOUS
        <5>4. /\ call.do \in {"deposit", "destination"} =>
                   to \in DOMAIN managers' /\ managers'[to].network = n
              /\ call.do = "deposit" =>
                   IF sent = << >> THEN managers'[to].allowance >= call.arg
                   ELSE sent[Len(sent)] = Tx("approve", to, call.arg)
              /\ call.do = "destination" =>
                   IF terminal.waiting
                   THEN sent # << >> /\ sent[Len(sent)] = Tx("auth", to, [s \in Sigs |-> call.arg])
                   ELSE /\ sent = << >>
                        /\ \A s \in Sigs : managers'[to].list.authFnCalls[s] = call.arg
          BY <1>9, <4>1, <5>2, <5>3 DEF NextReady, Allowed, SetUpFor
        <5>5. /\ terminal'.calls[1] = call /\ records'[call.name] = to
              /\ terminal'.network = n /\ pending'[n] = sent
          BY <1>1, <2>2, <5>1, <5>3 DEF call
        <5> QED
          BY <5>1, <5>4, <5>5 DEF NextCallTrue, NextReady, Allowed, SetUpFor
      <4>4. CASE terminal.network = net
        <5>1. /\ q # << >> => q[Len(q)] = queue[Len(queue)]
              /\ q = << >> => tx = queue[Len(queue)]
          BY <1>3
        <5>2. NextReady(call, to, net, queue, terminal.waiting)
          BY <4>1, <4>4 DEF queue
        <5>3. ASSUME call.do = "deposit"
              PROVE  IF q = << >> THEN managers'[to].allowance >= call.arg
                     ELSE q[Len(q)] = Tx("approve", to, call.arg)
          <6>1. queue[Len(queue)] = Tx("approve", to, call.arg)
            BY <1>1, <5>2, <5>3 DEF NextReady
          <6>2. ASSUME q = << >> PROVE managers'[to].allowance >= call.arg
            <7>1. tx.do = "approve" /\ tx.to = to /\ tx.arg = call.arg
              BY <5>1, <6>1, <6>2 DEF Tx
            <7>2. tx.arg \in Nat
              BY <1>3, <7>1 DEF Txs
            <7> QED
              BY <1>8, <1>9, <7>1, <7>2
          <6> QED
            BY <5>1, <6>1, <6>2
        <5>4. ASSUME call.do = "destination"
              PROVE  IF terminal'.waiting
                     THEN q # << >> /\ q[Len(q)] = Tx("auth", to, [s \in Sigs |-> call.arg])
                     ELSE /\ q = << >>
                          /\ \A s \in Sigs : managers'[to].list.authFnCalls[s] = call.arg
          <6>1. /\ terminal.waiting
                /\ queue[Len(queue)] = Tx("auth", to, [s \in Sigs |-> call.arg])
            BY <1>1, <5>2, <5>4 DEF NextReady
          <6>2. CASE terminal'.waiting
            BY <2>2, <4>4, <5>1, <6>1, <6>2
          <6>3. CASE ~terminal'.waiting
            <7>1. q = << >> /\ ok
              BY <2>2, <6>1, <6>3
            <7>2. /\ tx.do = "auth" /\ tx.to = to
                  /\ tx.arg = [s \in Sigs |-> call.arg]
              BY <5>1, <6>1, <7>1 DEF Tx
            <7>3. managers'[to].list.authFnCalls = [s \in Sigs |-> call.arg]
              BY <1>9, <7>1, <7>2
            <7>4. \A s \in Sigs : managers'[to].list.authFnCalls[s] = call.arg
              BY <7>3, Zenon
            <7> QED
              BY <6>3, <7>1, <7>4
          <6> QED
            BY <6>2, <6>3
        <5>5. call.do \in {"deposit", "destination"} =>
                to \in DOMAIN managers /\ managers'[to].network = net
          BY <1>9, <5>2 DEF NextReady
        <5>6. /\ terminal'.calls[1] = call /\ records'[call.name] = to
              /\ terminal'.network = net /\ pending'[net] = q
          BY <1>1, <1>4, <2>2, <4>4 DEF call
        <5> QED
          BY <1>9, <5>3, <5>4, <5>5, <5>6 DEF NextCallTrue, NextReady, Allowed, SetUpFor
      <4> QED
        BY <4>3, <4>4
    <3> QED
      BY <2>1, <2>2, <3>1 DEF CommandTrue, CallsOrdered, CallsOn
  <2>3. terminal \in Terminals
    BY DEF DeployInv, DeployTypeOK
  <2>4. CASE terminal' = Idle
    BY <2>4, IdleTrueNext
  <2> QED
    BY <1>7, <2>2, <2>3, <2>4 DEF Terminals
<1> QED
  BY <1>10, <1>11, <1>13, <1>15, <1>16 DEF DeployInv

-----------------------------------------------------------------------------
(* A step of a script adds to what is there.  What it adds of interest is  *)
(* a manager, which on L2 has the recorded copy, and that record.          *)
OnlyAdds ==
  /\ contracts' \in Seq(Contracts)
  /\ Len(contracts) <= Len(contracts')
  /\ \A i \in 1 .. Len(contracts) : contracts'[i] = contracts[i]
  /\ managers' \in [DOMAIN managers' -> Manager]
  /\ DOMAIN managers \subseteq DOMAIN managers'
  /\ \A a \in DOMAIN managers : managers'[a] = managers[a]
  /\ \A a \in DOMAIN managers' \ DOMAIN managers :
       /\ a \in 1 .. Len(contracts')
       /\ \E network \in Networks : managers'[a] = NewManager(network)
       /\ contracts'[a].kind = "L2Manager" =>
            /\ Default("L2Copy") \in DOMAIN records
            /\ contracts'[a].copy = records[Default("L2Copy")]
  /\ records' \in [DOMAIN records' -> Nat]
  /\ \A name \in DOMAIN records' :
       \/ name \in DOMAIN records /\ records'[name] = records[name]
       \/ name \in AllManagerNames =>
            /\ records'[name] \in DOMAIN managers'
            /\ managers'[records'[name]].network = name.network
  /\ Default("L2Copy") \in DOMAIN records =>
       /\ Default("L2Copy") \in DOMAIN records'
       /\ records'[Default("L2Copy")] = records[Default("L2Copy")]
  /\ Default("L2Copy") \in DOMAIN records' \ DOMAIN records =>
       /\ records'[Default("L2Copy")] \in 1 .. Len(contracts')
       /\ contracts'[records'[Default("L2Copy")]] = [kind |-> "L2Copy", copy |-> NoCopy]

LEMMA NewManagerType ==
  ASSUME NEW network \in Networks PROVE NewManager(network) \in Manager
<1>1. EmptyAllowList \in AllowList
  BY DEF EmptyAllowList, AllowList
<1> QED
  BY <1>1, ManagerTasksAssumption DEF NewManager, Manager

LEMMA NothingAdded ==
  ASSUME DeployInv, UNCHANGED <<contracts, records, managers>>
  PROVE  OnlyAdds
BY DEF OnlyAdds, DeployInv, DeployTypeOK, RecordsTrue

LEMMA DeployAdds ==
  ASSUME DeployInv, NEW name, NEW copy \in Nat, Deploy(name, copy),
         name \in Names(name.kind),
         \/ name.kind \in {"L1Copy", "L2Copy"} /\ copy = NoCopy
         \/ name.kind = "L1Manager"
         \/ /\ name.kind = "L2Manager"
            /\ Default("L2Copy") \in DOMAIN records /\ copy = records[Default("L2Copy")]
  PROVE  OnlyAdds
<1> DEFINE new == [kind |-> name.kind, copy |-> copy]
           address == Len(contracts) + 1
           default == Default("L2Copy")
           net == name.network
<1>0. /\ contracts \in Seq(Contracts) /\ Len(contracts) \in Nat
      /\ managers \in [DOMAIN managers -> Manager] /\ DOMAIN managers \subseteq 1 .. Len(contracts)
      /\ records \in [DOMAIN records -> Nat]
  BY DEF DeployInv, DeployTypeOK
<1>1. CASE UNCHANGED <<contracts, records, managers>>
  BY <1>1, NothingAdded
<1>2. CASE /\ ~(name \in DOMAIN records /\ contracts[records[name]] = new)
           /\ contracts' = Append(contracts, new)
           /\ records' = With(records, name, address)
           /\ managers' = IF name.kind \in ManagerKinds
                          THEN With(managers, address, NewManager(net)) ELSE managers
  <2>1. new \in Contracts
    BY DEF Contracts
  <2>2. /\ contracts' \in Seq(Contracts) /\ Len(contracts') = address
        /\ contracts'[address] = new
        /\ \A i \in 1 .. Len(contracts) : contracts'[i] = contracts[i]
    BY <1>0, <1>2, <2>1, AppendIndex
  <2>3. /\ managers' \in [DOMAIN managers' -> Manager]
        /\ DOMAIN managers \subseteq DOMAIN managers'
        /\ \A a \in DOMAIN managers : managers'[a] = managers[a]
        /\ \A a \in DOMAIN managers' \ DOMAIN managers :
             a = address /\ managers'[a] = NewManager(net)
        /\ name.kind \in ManagerKinds =>
             net \in Networks /\ address \in DOMAIN managers' /\ managers'[address].network = net
    <3>1. CASE name.kind \in ManagerKinds
      <4>1. managers' = [y \in DOMAIN managers \cup {address} |->
                           IF y = address THEN NewManager(net) ELSE managers[y]]
        BY <1>2, <3>1 DEF With
      <4>2. address \notin DOMAIN managers
        BY <1>0
      <4>3. net \in Networks
        BY <3>1 DEF Names, Name, NetworkOf, Networks
      <4>4. PICK added : added = NewManager(net)
        OBVIOUS
      <4>5. added \in Manager /\ added.network = net
        BY <4>3, <4>4, NewManagerType DEF NewManager
      <4> HIDE DEF address, net
      <4> QED
        BY <1>0, <4>1, <4>2, <4>3, <4>4, <4>5
    <3>2. CASE name.kind \notin ManagerKinds
      BY <1>0, <1>2, <3>2
    <3> QED
      BY <3>1, <3>2
  <2>4. /\ records' = [n \in DOMAIN records \cup {name} |->
                         IF n = name THEN address ELSE records[n]]
        /\ address \in Nat
    BY <1>0, <1>2 DEF With
  <2>5. name = default => new = [kind |-> "L2Copy", copy |-> NoCopy]
    BY DEF Default, Name
  <2>6. default \in DOMAIN records => name # default
    BY <1>2, <2>5 DEF DeployInv, CopyRecorded
  <2>7. records' \in [DOMAIN records' -> Nat]
    BY <1>0, <2>4
  <2>8. default \in DOMAIN records =>
          default \in DOMAIN records' /\ records'[default] = records[default]
    BY <2>4, <2>6
  <2>9. default \in DOMAIN records' \ DOMAIN records =>
          records'[default] = address /\ new = [kind |-> "L2Copy", copy |-> NoCopy]
    BY <2>4, <2>5
  <2>10. new.kind = "L2Manager" => default \in DOMAIN records /\ new.copy = records[default]
    OBVIOUS
  <2>11. address \in 1 .. address /\ Len(contracts) <= address
    BY <1>0
  <2>12. \A n \in DOMAIN records' :
           \/ n \in DOMAIN records /\ records'[n] = records[n]
           \/ n \in AllManagerNames =>
                /\ records'[n] \in DOMAIN managers'
                /\ managers'[records'[n]].network = n.network
    <3>1. name \in AllManagerNames => name.kind \in ManagerKinds
      BY DEF AllManagerNames, ManagerKinds, Names, Name
    <3> HIDE DEF address
    <3> QED
      BY <2>3, <2>4, <3>1
  <2>13. \A a \in DOMAIN managers' \ DOMAIN managers :
           \E network \in Networks : managers'[a] = NewManager(network)
    <3>1. name.kind \notin ManagerKinds => managers' = managers
      BY <1>2
    <3> HIDE DEF address, net
    <3> QED
      BY <2>3, <3>1
  <2> HIDE DEF new, address, default, net
  <2> QED
    BY <2>2, <2>3, <2>7, <2>8, <2>9, <2>10, <2>11, <2>12, <2>13 DEF OnlyAdds, default
<1> QED
  BY <1>1, <1>2 DEF Deploy

LEMMA StepAdds ==
  ASSUME DeployInv, NEW step \in Steps, DeployStep(step)
  PROVE  OnlyAdds /\ step \in DeploySteps
<1>0. /\ contracts \in Seq(Contracts) /\ Len(contracts) \in Nat
      /\ managers \in [DOMAIN managers -> Manager]
      /\ records \in [DOMAIN records -> Nat]
  BY DEF DeployInv, DeployTypeOK
<1>1. step \in DeploySteps
  BY DEF DeployStep, Steps, SentCalls
<1>2. ASSUME step.do = "deployCopy", Deploy(step.name, NoCopy)
      PROVE  OnlyAdds
  <2>1. step.name \in Names("L1Copy") \cup Names("L2Copy")
    BY <1>1, <1>2 DEF DeploySteps
  <2>2. step.name \in Names(step.name.kind) /\ step.name.kind \in {"L1Copy", "L2Copy"}
    BY <2>1 DEF Names, Name
  <2>3. NoCopy \in Nat
    BY DEF NoCopy
  <2> QED
    BY <1>2, <2>2, <2>3, DeployAdds
<1>3. ASSUME step.do = "deployManager", step.copyAt \in DOMAIN records,
             Deploy(step.name, records[step.copyAt])
      PROVE  OnlyAdds
  <2>1. \/ step.name \in Names("L1Manager")
        \/ step.name \in Names("L2Manager") /\ step.copyAt = Default("L2Copy")
    BY <1>1, <1>3 DEF DeploySteps
  <2>2. /\ step.name \in Names(step.name.kind)
        /\ \/ step.name.kind = "L1Manager"
           \/ step.name.kind = "L2Manager" /\ step.copyAt = Default("L2Copy")
    BY <2>1 DEF Names, Name
  <2>3. records[step.copyAt] \in Nat
    BY <1>0, <1>3
  <2> QED
    BY <1>3, <2>2, <2>3, DeployAdds
<1>4. ASSUME step.do = "deployProxy",
             contracts' = Append(contracts,
                                 [kind |-> IF step.copy = NoCopy THEN "L2Tool" ELSE "L1Tool",
                                  copy |-> step.copy]),
             UNCHANGED <<records, managers>>
      PROVE  OnlyAdds
  <2>1. PICK new \in Contracts : contracts' = Append(contracts, new)
    <3>1. step.copy \in Nat
      BY <1>1, <1>4 DEF DeploySteps
    <3> QED
      BY <1>4, <3>1 DEF Contracts
  <2>2. /\ contracts' \in Seq(Contracts) /\ Len(contracts') = Len(contracts) + 1
        /\ \A i \in 1 .. Len(contracts) : contracts'[i] = contracts[i]
    BY <1>0, <2>1, AppendIndex
  <2> QED
    BY <1>0, <1>4, <2>2 DEF OnlyAdds
<1>5. ASSUME step.do = "save", records' = With(records, step.name, Len(contracts)),
             UNCHANGED <<contracts, managers>>
      PROVE  OnlyAdds
  <2>1. step.name \in Names("L1Tool") \cup Names("L2Tool")
    BY <1>1, <1>5 DEF DeploySteps
  <2>2. step.name # Default("L2Copy")
    BY <2>1 DEF Names, Name, Default
  <2>3. records' = [n \in DOMAIN records \cup {step.name} |->
                      IF n = step.name THEN Len(contracts) ELSE records[n]]
    BY <1>5 DEF With
  <2>4. /\ records' \in [DOMAIN records' -> Nat]
        /\ Default("L2Copy") \in DOMAIN records' <=> Default("L2Copy") \in DOMAIN records
        /\ Default("L2Copy") \in DOMAIN records =>
             records'[Default("L2Copy")] = records[Default("L2Copy")]
    BY <1>0, <2>2, <2>3
  <2>5. \A n \in DOMAIN records' :
          n \in AllManagerNames => n \in DOMAIN records /\ records'[n] = records[n]
    <3>1. step.name \notin AllManagerNames
      BY <2>1 DEF AllManagerNames, ManagerKinds, Names, Name
    <3> QED
      BY <2>3, <3>1
  <2> QED
    BY <1>0, <1>5, <2>4, <2>5 DEF OnlyAdds
<1> QED
  BY <1>1, <1>2, <1>3, <1>4, <1>5 DEF DeployStep

LEMMA RunStepInv ==
  ASSUME DeployInv, RunDeployStep
  PROVE  DeployInv'
<1> DEFINE calls == terminal.calls
           step == Head(calls)
           rest == Tail(calls)
<1>1. /\ calls \in Seq(Steps) /\ calls # << >>
      /\ terminal \in Terminals /\ terminal.waiting = FALSE
      /\ UNCHANGED pending
  BY DEF RunDeployStep, DeployInv, DeployTypeOK, Terminals
<1>2. /\ step = calls[1] /\ step \in Steps /\ rest \in Seq(Steps)
      /\ Len(rest) = Len(calls) - 1 /\ Len(calls) \in Nat \ {0}
      /\ \A i \in 1 .. Len(calls) - 1 : rest[i] = calls[i + 1]
  <2> HIDE DEF calls
  <2> QED
    BY <1>1, TailIndex
<1>3. OnlyAdds /\ step \in DeploySteps
  BY <1>2, StepAdds DEF RunDeployStep
<1>4. \/ terminal' = [terminal EXCEPT !.calls = rest]
      \/ terminal' = Idle
  BY DEF RunDeployStep
<1> HIDE DEF calls, step, rest
<1>5. DeployTypeOK'
  <2>1. [terminal EXCEPT !.calls = rest] \in Terminals
    BY <1>1, <1>2 DEF Terminals
  <2>3. terminal' \in Terminals
    BY <1>4, <2>1, IdleType
  <2>4. DOMAIN managers' \subseteq 1 .. Len(contracts')
    BY <1>3 DEF OnlyAdds, DeployInv, DeployTypeOK
  <2> QED
    BY <1>1, <1>3, <2>3, <2>4 DEF OnlyAdds, DeployInv, DeployTypeOK
<1>6. CopyRecorded'
  <2> SUFFICES ASSUME Default("L2Copy") \in DOMAIN records'
               PROVE  /\ records'[Default("L2Copy")] \in 1 .. Len(contracts')
                      /\ contracts'[records'[Default("L2Copy")]]
                           = [kind |-> "L2Copy", copy |-> NoCopy]
    BY DEF CopyRecorded
  <2>1. CASE Default("L2Copy") \in DOMAIN records
    BY <1>3, <2>1 DEF OnlyAdds, DeployInv, CopyRecorded, DeployTypeOK
  <2>2. CASE Default("L2Copy") \notin DOMAIN records
    BY <1>3, <2>2 DEF OnlyAdds
  <2> QED
    BY <2>1, <2>2
<1>7. OneMasterCopyOnL2'
  <2> SUFFICES ASSUME NEW a \in DOMAIN managers', contracts'[a].kind = "L2Manager"
               PROVE  /\ Default("L2Copy") \in DOMAIN records'
                      /\ contracts'[a].copy = records'[Default("L2Copy")]
    BY DEF OneMasterCopyOnL2
  <2>1. CASE a \in DOMAIN managers
    <3>1. contracts'[a] = contracts[a]
      BY <1>3, <2>1 DEF OnlyAdds, DeployInv, DeployTypeOK
    <3> QED
      BY <1>3, <2>1, <3>1 DEF OnlyAdds, DeployInv, OneMasterCopyOnL2
  <2>2. CASE a \notin DOMAIN managers
    BY <1>3, <2>2 DEF OnlyAdds
  <2> QED
    BY <2>1, <2>2
<1>8. OneTarget'
  <2> SUFFICES ASSUME NEW a \in DOMAIN managers', NEW s1 \in Sigs, NEW s2 \in Sigs
               PROVE  managers'[a].list.authFnCalls[s1] = managers'[a].list.authFnCalls[s2]
    BY DEF OneTarget, AuthFunctionCallTarget
  <2>1. CASE a \in DOMAIN managers
    BY <1>3, <2>1 DEF OnlyAdds, DeployInv, OneTarget, AuthFunctionCallTarget
  <2>2. CASE a \notin DOMAIN managers
    BY <1>3, <2>2 DEF OnlyAdds, NewManager, EmptyAllowList
  <2> QED
    BY <2>1, <2>2
<1>9. \A a \in DOMAIN managers : a \in DOMAIN managers' /\ managers'[a] = managers[a]
  BY <1>3 DEF OnlyAdds
<1>10. PendingTrue'
  <2> SUFFICES ASSUME NEW n \in Networks PROVE QueueTrue(n, pending[n])'
    BY DEF PendingTrue
  <2>1. QueueTrue(n, pending[n])
    BY DEF DeployInv, PendingTrue
  <2>2. \A i \in 1 .. Len(pending[n]) : 1 \in 1 .. Len(pending[n])
    BY DEF DeployInv, DeployTypeOK
  <2> QED
    BY <1>1, <1>9, <2>1, <2>2 DEF QueueTrue, Allowed, SetUpFor
<1>11. RecordsTrue'
  <2> SUFFICES ASSUME NEW name \in DOMAIN records', name \in AllManagerNames
               PROVE  /\ records'[name] \in DOMAIN managers'
                      /\ managers'[records'[name]].network = name.network
    BY DEF RecordsTrue
  <2>1. CASE name \in DOMAIN records /\ records'[name] = records[name]
    BY <1>9, <2>1 DEF DeployInv, RecordsTrue
  <2>2. CASE ~(name \in DOMAIN records /\ records'[name] = records[name])
    BY <1>3, <2>2 DEF OnlyAdds
  <2> QED
    BY <2>1, <2>2
<1>12. CommandTrue'
  <2>1. CASE terminal' = Idle
    BY <2>1, IdleTrueNext
  <2>2. CASE terminal' = [terminal EXCEPT !.calls = rest]
    <3>1. /\ terminal'.calls = rest /\ terminal'.waits = terminal.waits
          /\ terminal'.network = terminal.network
      BY <1>1, <2>2 DEF Terminals
    <3>2. CallsOrdered(calls, terminal.waits) /\ CallsOn(terminal.network, calls)
      BY DEF DeployInv, CommandTrue, calls
    <3>3. CallsOrdered(rest, terminal.waits) /\ CallsOn(terminal.network, rest)
      BY <1>1, <1>2, <3>2, RestOrdered
    <3>4. rest # << >> => rest[1].do \notin {"deposit", "destination"}
      <4> SUFFICES ASSUME rest # << >> PROVE rest[1].do \notin {"deposit", "destination"}
        OBVIOUS
      <4>1. PICK j \in 2 .. Len(calls) : calls[j] = rest[1] /\ calls[j - 1] = step
        BY <1>2
      <4>2. step.do \notin {"approve", "auth"}
        BY <1>3 DEF DeploySteps
      <4>3. /\ rest[1].do = "deposit" => step = Call("approve", rest[1].name, rest[1].arg)
            /\ rest[1].do = "destination" =>
                 step = Call("auth", rest[1].name, [s \in Sigs |-> rest[1].arg])
        BY <3>2, <4>1 DEF CallsOrdered
      <4> QED
        BY <4>2, <4>3 DEF Call
    <3>5. NextCallTrue'
      BY <3>1, <3>4 DEF NextCallTrue, NextReady
    <3> QED
      BY <3>1, <3>3, <3>5 DEF CommandTrue, CallsOrdered, CallsOn
  <2> QED
    BY <1>4, <2>1, <2>2
<1> QED
  BY <1>5, <1>6, <1>7, <1>8, <1>10, <1>11, <1>12 DEF DeployInv

-----------------------------------------------------------------------------
LEMMA DeployInvStep == DeployInv /\ [Next]_vars => DeployInv'
<1> SUFFICES ASSUME DeployInv, [Next]_vars PROVE DeployInv'
  OBVIOUS
<1>1. CASE UNCHANGED vars
  <2>1. UNCHANGED <<managers, records, terminal, pending, contracts>>
    BY <1>1 DEF vars
  <2>2. DeployTypeOK' /\ CopyRecorded' /\ OneMasterCopyOnL2' /\ OneTarget' /\ RecordsTrue'
    BY <2>1 DEF DeployInv, DeployTypeOK, CopyRecorded, OneMasterCopyOnL2, OneTarget, RecordsTrue
  <2>3. PendingTrue'
    BY <2>1 DEF DeployInv, PendingTrue, QueueTrue, Allowed, SetUpFor
  <2>4. CommandTrue'
    BY <2>1 DEF DeployInv, CommandTrue, CallsOrdered, CallsOn, NextCallTrue, NextReady, Allowed,
         SetUpFor
  <2> QED
    BY <2>2, <2>3, <2>4 DEF DeployInv
<1>2. CASE Stop /\ UNCHANGED contracts
  BY <1>2, StopInv DEF Stop, chainVars
<1> QED
  BY <1>1, <1>2, ScriptInv, TaskInv, SendInv, MineInv, RunStepInv
     DEF Next, ManagerTaskStep

(* The invariant holds for any scripts and tasks. *)
LEMMA DeployInvariant == Spec => []DeployInv
BY DeployInvInitially, DeployInvStep, PTL DEF Spec

(* DEPLOYMENT.md: all managers on L2 use the same master copy, the one     *)
(* recorded under the name that the script proposes.                       *)
THEOREM MasterCopySafety == Spec => []OneMasterCopyOnL2
<1>1. DeployInv => OneMasterCopyOnL2
  BY DEF DeployInv
<1> QED
  BY <1>1, DeployInvariant, PTL

(* manager-setup-auth never leaves a manager whose protocol functions are  *)
(* answered by two targets.                                                *)
THEOREM TargetSafety == Spec => []OneTarget
<1>1. DeployInv => OneTarget
  BY DEF DeployInv
<1> QED
  BY <1>1, DeployInvariant, PTL

(* manager-deposit and the deploy scripts: a deposit that is executed finds*)
(* its allowance.                                                          *)
THEOREM DepositSafety == Spec => []DepositsAllowed
<1>1. DeployInv => DepositsAllowed
  <2> SUFFICES ASSUME DeployInv, NEW network \in Networks, NEW queue,
                      queue = pending[network], queue # << >>, Head(queue).do = "deposit"
               PROVE  managers[Head(queue).to].allowance >= Head(queue).arg
    BY DEF DepositsAllowed
  <2>1. Head(queue) = queue[1] /\ 1 \in 1 .. Len(queue)
    BY DEF DeployInv, DeployTypeOK
  <2>2. QueueTrue(network, queue)
    BY DEF DeployInv, PendingTrue
  <2> QED
    BY <2>1, <2>2 DEF QueueTrue, Allowed
<1> QED
  BY <1>1, DeployInvariant, PTL

(* manager-setup-auth, cut short and run again, is complete once the second*)
(* transaction of any run is executed.                                     *)
THEOREM SetupSafety == Spec => SetupCompletes
<1>1. DeployInv /\ [Next]_vars =>
        [ \A network \in Networks, m \in DOMAIN managers :
            MinesDestination(network, m) /\ managers[m].owner = Deployer
              => LET target == Head(pending[network]).arg
                 IN /\ target \in managers'[m].list.tokenDestinations
                    /\ \A s \in Sigs :
                         AuthFunctionCallTarget(managers'[m].list, s) = target ]_<<managers, pending>>
  <2> SUFFICES ASSUME DeployInv, [Next]_vars, NEW net \in Networks, NEW m \in DOMAIN managers,
                      MinesDestination(net, m), managers[m].owner = Deployer
               PROVE  /\ Head(pending[net]).arg \in managers'[m].list.tokenDestinations
                      /\ \A s \in Sigs :
                           managers'[m].list.authFnCalls[s] = Head(pending[net]).arg
    BY DEF AuthFunctionCallTarget
  <2>0. PICK queue, tx, funds :
          queue = pending[net] /\ tx = Head(queue) /\ funds = purse[net]
    OBVIOUS
  <2>1. /\ pending \in [Networks -> Seq(Txs)]
        /\ queue \in Seq(Txs) /\ queue # << >> /\ pending'[net] = Tail(queue)
        /\ tx.do = "destination" /\ tx.to = m
        /\ managers \in [DOMAIN managers -> Manager]
    BY <2>0 DEF MinesDestination, DeployInv, DeployTypeOK
  <2>2. /\ tx = queue[1] /\ tx \in Txs /\ Len(pending'[net]) = Len(queue) - 1
        /\ Len(queue) \in Nat \ {0}
    BY <2>0, <2>1, TailIndex
  <2>3. Mine(net)
    <3>1. pending'[net] # pending[net]
      BY <2>0, <2>2
    <3>2. ~SendCall
      <4> SUFFICES ASSUME SendCall PROVE FALSE
        OBVIOUS
      <4>1. PICK n, x : pending' = [pending EXCEPT ![n] = Append(@, x)]
        BY DEF SendCall
      <4>2. pending'[net] = queue \/ pending'[net] = Append(queue, x)
        BY <2>0, <2>1, <4>1
      <4>3. Len(Append(queue, x)) = Len(queue) + 1
        BY <2>1
      <4> QED
        BY <2>2, <4>2, <4>3
    <3>3. ASSUME NEW n \in Networks, Mine(n) PROVE n = net
      <4>1. pending' = [pending EXCEPT ![n] = Tail(@)]
        BY <3>3 DEF Mine
      <4> QED
        BY <2>1, <3>1, <4>1
    <3>4. \E n \in Networks : Mine(n)
      BY <3>1, <3>2 DEF Next, vars, ManagerTaskStep, StartManagerTask, StartScript, Start,
           Stop, RunDeployStep
    <3> QED
      BY <3>3, <3>4
  <2>4. SetUpFor(m, tx.arg)
    <3>1. QueueTrue(net, queue) /\ 1 \in 1 .. Len(queue)
      BY <2>0, <2>2 DEF DeployInv, PendingTrue
    <3> QED
      BY <2>1, <2>2, <3>1 DEF QueueTrue
  <2>5. /\ Succeeds(tx.do, managers[m], tx.arg, funds) =>
             managers' = [managers EXCEPT ![m] = After(tx.do, managers[m], tx.arg)]
        /\ ~Succeeds(tx.do, managers[m], tx.arg, funds) => managers' = managers
    BY <2>0, <2>1, <2>3 DEF Mine, chainVars
  <2>6. CASE Succeeds(tx.do, managers[m], tx.arg, funds)
    <3>1. PICK r : r = After(tx.do, managers[m], tx.arg)
      OBVIOUS
    <3>2. /\ r.list.authFnCalls = managers[m].list.authFnCalls
          /\ tx.arg \in r.list.tokenDestinations
      BY <2>1, <2>2, <3>1, AfterTx
    <3>3. managers'[m] = r
      BY <2>1, <2>5, <2>6, <3>1
    <3> QED
      BY <2>0, <2>4, <3>2, <3>3 DEF SetUpFor
  <2>7. CASE ~Succeeds(tx.do, managers[m], tx.arg, funds)
    <3>1. Succeeds(tx.do, managers[m], tx.arg, funds)
            = (managers[m].owner = Deployer /\ CanAddTokenDestination(managers[m].list, tx.arg))
      BY <2>1 DEF Succeeds
    <3>2. tx.arg \in managers[m].list.tokenDestinations
      BY <2>7, <3>1 DEF CanAddTokenDestination
    <3> QED
      BY <2>0, <2>4, <2>5, <2>7, <3>2 DEF SetUpFor
  <2> QED
    BY <2>6, <2>7
<1> QED
  BY <1>1, DeployInvariant, PTL DEF Spec, SetupCompletes
=============================================================================
