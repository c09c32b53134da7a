------------------------- MODULE LockTasksTheorems -------------------------
(***************************************************************************)
(* What the tasks on single locks may rely on, for any number of locks,    *)
(* terminals, lines and transactions.                                      *)
(***************************************************************************)
EXTENDS LockTasks, TLAPS

LockRecords ==
  [stage : {"none", "deployed", "initialized"}, line : 0 .. NumLines,
   owner : Owners, accepted : BOOLEAN, balance : 0 .. MaxFunded]

Tasks ==
  [task : {"none", "cancel", "accept", "simple"},
   at   : {"free", "confirm", "sent", "line", "deployed", "initialized"},
   lock : Locks \cup {0}, line : 0 .. NumLines, tx : Nat]

Transactions ==
  [do : {"cancel", "accept"}, lock : Locks,
   account : {Deployer, Beneficiary, Multisig},
   status : {"pending", "succeeded", "failed"}]

TypeInv ==
  /\ locks \in [Locks -> LockRecords]
  /\ terminals \in [Terminals -> Tasks]
  /\ sent \in Seq(Transactions) /\ Len(sent) <= MaxSent
  /\ batches \subseteq Locks
  /\ results \subseteq [line : 1 .. NumLines, lock : Locks]
  /\ said \subseteq [what : {"cancelled", "accepted", "unknown error"}, lock : Locks]
  /\ emptied \subseteq Locks

(* A successful transaction has done, for good, what it was sent for. *)
SentTrue ==
  \A n \in DOMAIN sent :
    sent[n].status = "succeeded" =>
      /\ sent[n].do = "cancel" => sent[n].lock \in emptied
      /\ sent[n].do = "accept" => locks[sent[n].lock].accepted

(* What a terminal remembers: its transaction is for its lock, and the lock*)
(* it deploys is on its line.                                              *)
Remembers(r) ==
  /\ r.at = "confirm" => r.lock \in Locks /\ r.task \in {"cancel", "accept"}
  /\ r.at = "sent" =>
       r.tx \in DOMAIN sent /\ sent[r.tx].lock = r.lock /\ sent[r.tx].do = r.task
  /\ r.task = "simple" => r.line > 0
  /\ r.at \in {"deployed", "initialized"} =>
       /\ r.lock \in Locks
       /\ locks[r.lock].stage # "none" /\ locks[r.lock].line = r.line
  /\ r.at = "initialized" => locks[r.lock].stage = "initialized"

TasksInv ==
  /\ TypeInv
  /\ SentTrue
  /\ \A t \in Terminals : Remembers(terminals[t])
  /\ ReportsTrue
  /\ RecordedLocksInitialized

(* Locks are deployed, initialized and accepted, each once, and keep their *)
(* tokens from then on.                                                    *)
LocksAdvance ==
  /\ locks' \in [Locks -> LockRecords]
  /\ emptied \subseteq emptied' /\ emptied' \subseteq Locks
  /\ \A k \in Locks :
       /\ locks[k].accepted =>
            locks'[k].accepted /\ locks'[k].balance >= locks[k].balance
       /\ locks[k].stage # "none" =>
            locks'[k].stage # "none" /\ locks'[k].line = locks[k].line
       /\ locks[k].stage = "initialized" => locks'[k].stage = "initialized"

LEMMA SentType ==
  ASSUME TasksInv, NEW n \in DOMAIN sent
  PROVE  sent[n] \in Transactions /\ sent[n].lock \in Locks
<1>1. sent \in Seq(Transactions)
  BY DEF TasksInv, TypeInv
<1>2. sent[n] \in Transactions
  BY <1>1
<1> QED
  BY <1>2 DEF Transactions

LEMMA InitTasksInv == Init => TasksInv
<1> SUFFICES ASSUME Init PROVE TasksInv
  OBVIOUS
<1>1. NoLock \in LockRecords /\ \A o \in Owners : ManagerLock(o) \in LockRecords
  <2>1. NoLock \in LockRecords
    BY LockTasksAssumption DEF NoLock, LockRecords, Owners
  <2>2. ASSUME NEW x \in LockRecords, NEW o \in Owners
        PROVE  [x EXCEPT !.stage = "initialized", !.owner = o, !.balance = 1] \in LockRecords
    <3>1. 1 \in 0 .. MaxFunded
      BY LockTasksAssumption
    <3> QED
      BY <3>1 DEF LockRecords
  <2> QED
    BY <2>1, <2>2 DEF ManagerLock
<1>2. Free \in Tasks
  BY LockTasksAssumption DEF Free, Tasks
<1>3. locks \in [Locks -> LockRecords] /\ terminals \in [Terminals -> Tasks]
  BY <1>1, <1>2 DEF Init
<1>4. TypeInv
  BY <1>3, LockTasksAssumption DEF Init, TypeInv
<1>5. \A t \in Terminals : Remembers(terminals[t])
  BY DEF Init, Remembers, Free
<1> QED
  BY <1>4, <1>5 DEF Init, TasksInv, SentTrue, ReportsTrue, RecordedLocksInitialized

-----------------------------------------------------------------------------
(* Every change of a lock on the chain is an advance. *)
LEMMA RecordTypes ==
  ASSUME TypeInv, NEW k \in Locks
  PROVE  /\ locks[k] \in LockRecords
         /\ locks[k].balance \in Int /\ locks[k].balance <= MaxFunded
<1>1. locks[k] \in LockRecords
  BY DEF TypeInv
<1> QED
  BY <1>1, LockTasksAssumption DEF LockRecords

LEMMA SameLocks ==
  ASSUME TypeInv, UNCHANGED <<locks, emptied>> PROVE LocksAdvance
<1>1. \A k \in Locks : locks[k].balance >= locks[k].balance
  BY RecordTypes
<1>2. locks' = locks /\ emptied' = emptied
  OBVIOUS
<1> QED
  BY <1>1, <1>2 DEF TypeInv, LocksAdvance

LEMMA OneLockAdvances ==
  ASSUME TypeInv, NEW k \in Locks, NEW r \in LockRecords,
         locks' = [locks EXCEPT ![k] = r],
         emptied \subseteq emptied', emptied' \subseteq Locks,
         locks[k].accepted => r.accepted /\ r.balance >= locks[k].balance,
         locks[k].stage # "none" => r.stage # "none" /\ r.line = locks[k].line,
         locks[k].stage = "initialized" => r.stage = "initialized"
  PROVE  LocksAdvance /\ locks'[k] = r
<1>1. locks \in [Locks -> LockRecords]
  BY DEF TypeInv
<1>2. /\ locks' \in [Locks -> LockRecords]
      /\ locks'[k] = r /\ \A j \in Locks \ {k} : locks'[j] = locks[j]
  BY <1>1
<1>3. ASSUME NEW j \in Locks
      PROVE  /\ locks[j].accepted =>
                  locks'[j].accepted /\ locks'[j].balance >= locks[j].balance
             /\ locks[j].stage # "none" =>
                  locks'[j].stage # "none" /\ locks'[j].line = locks[j].line
             /\ locks[j].stage = "initialized" => locks'[j].stage = "initialized"
  <2>1. CASE j = k
    BY <1>2, <2>1
  <2>2. CASE j # k
    <3>1. locks'[j] = locks[j]
      BY <1>2, <2>2
    <3>2. locks[j].balance >= locks[j].balance
      BY RecordTypes
    <3> QED
      BY <3>1, <3>2
  <2> QED
    BY <2>1, <2>2
<1> QED
  BY <1>2, <1>3 DEF LocksAdvance

LEMMA FundAdvances ==
  ASSUME TypeInv, NEW k \in Locks, Fund(k) PROVE LocksAdvance
<1> DEFINE r == [locks[k] EXCEPT !.balance = locks[k].balance + 1]
<1>1. /\ locks' = [locks EXCEPT ![k] = r]
      /\ locks[k].balance < MaxFunded /\ UNCHANGED emptied
  BY DEF Fund
<1>2. /\ r \in LockRecords /\ r.balance >= locks[k].balance
      /\ r.accepted = locks[k].accepted /\ r.stage = locks[k].stage
      /\ r.line = locks[k].line
  BY <1>1, RecordTypes, LockTasksAssumption DEF LockRecords
<1> HIDE DEF r
<1> QED
  BY <1>1, <1>2, OneLockAdvances DEF TypeInv

LEMMA CancelAdvances ==
  ASSUME TypeInv, NEW k \in Locks, NEW account, CanCancel(k, account), Cancel(k)
  PROVE  LocksAdvance /\ k \in emptied'
<1> DEFINE r == [locks[k] EXCEPT !.balance = 0]
<1>1. /\ locks' = [locks EXCEPT ![k] = r]
      /\ ~locks[k].accepted /\ emptied' = emptied \cup {k}
  BY DEF Cancel, CanCancel
<1>2. /\ r \in LockRecords /\ r.stage = locks[k].stage /\ r.line = locks[k].line
  BY RecordTypes, LockTasksAssumption DEF LockRecords
<1> HIDE DEF r
<1> QED
  BY <1>1, <1>2, OneLockAdvances DEF TypeInv

LEMMA AcceptAdvances ==
  ASSUME TypeInv, NEW k \in Locks, Accept(k)
  PROVE  LocksAdvance /\ locks'[k].accepted
<1> DEFINE r == [locks[k] EXCEPT !.accepted = TRUE]
<1>1. locks' = [locks EXCEPT ![k] = r] /\ UNCHANGED emptied
  BY DEF Accept
<1>2. /\ r \in LockRecords /\ r.accepted /\ r.balance >= locks[k].balance
      /\ r.stage = locks[k].stage /\ r.line = locks[k].line
  <2>1. locks[k] \in LockRecords /\ locks[k].balance >= locks[k].balance
    BY RecordTypes
  <2>2. r \in LockRecords
    BY <2>1 DEF LockRecords
  <2>3. r.accepted
    BY <2>1 DEF LockRecords
  <2>4. /\ r.balance = locks[k].balance
        /\ r.stage = locks[k].stage /\ r.line = locks[k].line
    BY <2>1 DEF LockRecords
  <2> QED
    BY <2>1, <2>2, <2>3, <2>4
<1> HIDE DEF r
<1>3. LocksAdvance /\ locks'[k] = r
  BY <1>1, <1>2, OneLockAdvances DEF TypeInv
<1> QED
  BY <1>2, <1>3

LEMMA DeployAdvances ==
  ASSUME TasksInv, NEW t \in Terminals, NEW k \in Locks, DeploySimple(t, k)
  PROVE  /\ LocksAdvance
         /\ locks'[k].stage = "deployed" /\ locks'[k].line = terminals[t].line
<1> DEFINE r == [locks[k] EXCEPT !.stage = "deployed", !.line = terminals[t].line]
<1>1. /\ TypeInv /\ terminals[t] \in Tasks
      /\ locks' = [locks EXCEPT ![k] = r]
      /\ locks[k].stage = "none" /\ UNCHANGED emptied
  <2>1. terminals[t] \in Tasks
    BY DEF TasksInv, TypeInv
  <2>2. locks[k].stage = "none"
    BY DEF DeploySimple, NoLock
  <2> QED
    BY <2>1, <2>2 DEF TasksInv, DeploySimple
<1>2. /\ r \in LockRecords /\ r.balance = locks[k].balance
      /\ r.stage = "deployed" /\ r.line = terminals[t].line
  <2>1. locks[k] \in LockRecords /\ terminals[t].line \in 0 .. NumLines
    BY <1>1, RecordTypes DEF Tasks
  <2> QED
    BY <2>1 DEF LockRecords
<1>3. r.accepted = locks[k].accepted
  BY <1>1, RecordTypes, Zenon DEF LockRecords
<1>4. locks[k].balance >= locks[k].balance
  BY <1>1, RecordTypes
<1> HIDE DEF r
<1>5. LocksAdvance /\ locks'[k] = r
  BY <1>1, <1>2, <1>3, <1>4, OneLockAdvances DEF TypeInv
<1> QED
  BY <1>2, <1>5

LEMMA InitializeAdvances ==
  ASSUME TasksInv, NEW t \in Terminals, InitializeSimple(t)
  PROVE  /\ LocksAdvance /\ terminals[t].lock \in Locks
         /\ locks'[terminals[t].lock].stage = "initialized"
<1> DEFINE k == terminals[t].lock
<1>1. k \in Locks /\ TypeInv /\ UNCHANGED emptied
  BY DEF TasksInv, Remembers, InitializeSimple, At
<1>2. PICK o \in Owners :
        locks' = [locks EXCEPT ![k] = [locks[k] EXCEPT !.stage = "initialized", !.owner = o]]
  BY DEF InitializeSimple
<1> HIDE DEF k
<1> DEFINE r == [locks[k] EXCEPT !.stage = "initialized", !.owner = o]
<1>3. /\ r \in LockRecords /\ r.accepted = locks[k].accepted
      /\ r.balance >= locks[k].balance
      /\ r.stage = "initialized" /\ r.line = locks[k].line
  <2>1. locks[k] \in LockRecords /\ locks[k].balance >= locks[k].balance
    BY <1>1, RecordTypes
  <2>2. /\ r \in LockRecords /\ r.balance = locks[k].balance
        /\ r.stage = "initialized" /\ r.line = locks[k].line
    BY <2>1 DEF LockRecords
  <2>3. r.accepted = locks[k].accepted
    BY <2>1, Zenon DEF LockRecords
  <2> QED
    BY <2>1, <2>2, <2>3
<1>4. locks' = [locks EXCEPT ![k] = r]
  BY <1>2
<1> HIDE DEF r
<1>5. LocksAdvance /\ locks'[k] = r
  BY <1>1, <1>3, <1>4, OneLockAdvances DEF TypeInv
<1> QED
  BY <1>1, <1>3, <1>5 DEF k

-----------------------------------------------------------------------------
(* What was true of transactions, of terminals, in reports and in the file *)
(* stays true when locks advance.                                          *)
LEMMA ReportsStay ==
  ASSUME TasksInv, LocksAdvance, said' = said PROVE ReportsTrue'
  BY DEF TasksInv, TypeInv, LocksAdvance, ReportsTrue

LEMMA RecordsStay ==
  ASSUME TasksInv, LocksAdvance, results' = results
  PROVE  RecordedLocksInitialized'
  BY DEF TasksInv, TypeInv, LocksAdvance, RecordedLocksInitialized

LEMMA RemembersStays ==
  ASSUME TasksInv, LocksAdvance, NEW r \in Tasks, Remembers(r),
         DOMAIN sent \subseteq DOMAIN sent',
         \A n \in DOMAIN sent : sent'[n].lock = sent[n].lock /\ sent'[n].do = sent[n].do
  PROVE  Remembers(r)'
  BY DEF Remembers, LocksAdvance, TasksInv, TypeInv

(* The chain changes locks only. *)
LEMMA ChainInv ==
  ASSUME TasksInv, LocksAdvance,
         UNCHANGED <<terminals, sent, batches, results, said>>
  PROVE  TasksInv'
<1>1. TypeInv'
  BY DEF TasksInv, TypeInv, LocksAdvance
<1>2. SentTrue'
  <2> SUFFICES ASSUME NEW n \in DOMAIN sent, sent[n].status = "succeeded"
               PROVE  /\ sent[n].do = "cancel" => sent[n].lock \in emptied'
                      /\ sent[n].do = "accept" => locks'[sent[n].lock].accepted
    BY DEF SentTrue
  <2>1. sent[n].lock \in Locks
    BY SentType
  <2> QED
    BY <2>1 DEF TasksInv, SentTrue, LocksAdvance
<1>3. \A t \in Terminals : Remembers(terminals[t])'
  BY RemembersStays DEF TasksInv, TypeInv
<1> QED
  BY <1>1, <1>2, <1>3, ReportsStay, RecordsStay DEF TasksInv

LEMMA MineInv ==
  ASSUME TasksInv, NEW n \in DOMAIN sent, Mine(n) PROVE TasksInv' /\ LocksAdvance
<1> DEFINE k == sent[n].lock
           cancels == sent[n].do = "cancel"
           can == IF cancels THEN CanCancel(k, sent[n].account)
                  ELSE CanAccept(k, sent[n].account)
           mined == IF can THEN "succeeded" ELSE "failed"
<1>1. /\ sent \in Seq(Transactions) /\ sent[n] \in Transactions
      /\ k \in Locks /\ sent[n].do \in {"cancel", "accept"} /\ TypeInv
  <2>1. sent \in Seq(Transactions)
    BY DEF TasksInv, TypeInv
  <2>2. sent[n] \in Transactions
    BY <2>1
  <2> QED
    BY <2>1, <2>2 DEF Transactions, TasksInv
<1>2. /\ sent' = [sent EXCEPT ![n] = [@ EXCEPT !.status = mined]]
      /\ IF can THEN IF cancels THEN Cancel(k) ELSE Accept(k)
         ELSE UNCHANGED <<locks, emptied>>
      /\ UNCHANGED <<terminals, batches, results, said>>
  BY DEF Mine
<1>3. /\ LocksAdvance
      /\ can /\ cancels => k \in emptied'
      /\ can /\ ~cancels => locks'[k].accepted
  BY <1>1, <1>2, CancelAdvances, AcceptAdvances, SameLocks
<1>4. /\ sent' \in Seq(Transactions) /\ Len(sent') = Len(sent)
      /\ DOMAIN sent' = DOMAIN sent
      /\ sent'[n] = [sent[n] EXCEPT !.status = mined]
      /\ \A j \in DOMAIN sent \ {n} : sent'[j] = sent[j]
  <2>1. [sent[n] EXCEPT !.status = mined] \in Transactions
    BY <1>1 DEF Transactions
  <2> HIDE DEF mined
  <2> QED
    BY <1>1, <1>2, <2>1
<1>5. \A j \in DOMAIN sent : sent'[j].lock = sent[j].lock /\ sent'[j].do = sent[j].do
  BY <1>1, <1>4 DEF Transactions
<1>6. TypeInv'
  BY <1>2, <1>3, <1>4 DEF TasksInv, TypeInv, LocksAdvance
<1>7. SentTrue'
  <2> SUFFICES ASSUME NEW j \in DOMAIN sent, sent'[j].status = "succeeded"
               PROVE  /\ sent[j].do = "cancel" => sent[j].lock \in emptied'
                      /\ sent[j].do = "accept" => locks'[sent[j].lock].accepted
    BY <1>4, <1>5 DEF SentTrue
  <2>1. CASE j = n
    <3>1. can
      BY <1>1, <1>4, <2>1 DEF Transactions
    <3> QED
      BY <1>1, <1>3, <2>1, <3>1
  <2>2. CASE j # n
    <3>1. sent[j].lock \in Locks /\ sent[j].status = "succeeded"
      BY <1>4, <2>2, SentType
    <3> QED
      BY <1>3, <3>1 DEF TasksInv, SentTrue, LocksAdvance
  <2> QED
    BY <2>1, <2>2
<1>8. \A t \in Terminals : Remembers(terminals[t])'
  <2>1. \A t \in Terminals : terminals[t] \in Tasks /\ Remembers(terminals[t])
    BY DEF TasksInv, TypeInv
  <2>2. \A t \in Terminals : (Remembers(terminals[t])')
    <3> SUFFICES ASSUME NEW t \in Terminals PROVE Remembers(terminals[t])'
      OBVIOUS
    <3>1. \A r \in Tasks : Remembers(r) => Remembers(r)'
      BY <1>3, <1>4, <1>5, RemembersStays
    <3> QED
      BY <1>2, <2>1, <3>1 DEF Remembers
  <2> QED
    BY <2>2
<1> QED
  BY <1>2, <1>3, <1>6, <1>7, <1>8, ReportsStay, RecordsStay DEF TasksInv

-----------------------------------------------------------------------------
(* A step at a terminal that sends nothing: what the terminal remembers    *)
(* afterwards is true, and so is what it reports or records.               *)
LEMMA TerminalInv ==
  ASSUME TasksInv, LocksAdvance, NEW t \in Terminals, NEW r \in Tasks,
         terminals' = [terminals EXCEPT ![t] = r], Remembers(r)',
         UNCHANGED sent, batches' \subseteq Locks,
         results' \subseteq [line : 1 .. NumLines, lock : Locks],
         said' \subseteq [what : {"cancelled", "accepted", "unknown error"}, lock : Locks],
         ReportsTrue', RecordedLocksInitialized'
  PROVE  TasksInv'
<1>1. TypeInv'
  BY DEF TasksInv, TypeInv, LocksAdvance
<1>2. SentTrue'
  <2> SUFFICES ASSUME NEW n \in DOMAIN sent, sent[n].status = "succeeded"
               PROVE  /\ sent[n].do = "cancel" => sent[n].lock \in emptied'
                      /\ sent[n].do = "accept" => locks'[sent[n].lock].accepted
    BY DEF SentTrue
  <2>1. sent[n].lock \in Locks
    BY SentType
  <2> QED
    BY <2>1 DEF TasksInv, SentTrue, LocksAdvance
<1>3. \A u \in Terminals : Remembers(terminals[u])'
  <2>1. terminals'[t] = r /\ \A u \in Terminals \ {t} : terminals'[u] = terminals[u]
    BY DEF TasksInv, TypeInv
  <2>2. \A u \in Terminals : terminals[u] \in Tasks /\ Remembers(terminals[u])
    BY DEF TasksInv, TypeInv
  <2>3. \A u \in Terminals \ {t} : Remembers(terminals[u])'
    BY <2>1, <2>2, RemembersStays
  <2> QED
    BY <2>1, <2>3 DEF Remembers
<1> QED
  BY <1>1, <1>2, <1>3 DEF TasksInv

(* The steps at a terminal that leave the locks, the file and the reports  *)
(* alone.                                                                  *)
LEMMA QuietInv ==
  ASSUME TasksInv, NEW t \in Terminals, NEW r \in Tasks,
         terminals' = [terminals EXCEPT ![t] = r], Remembers(r)',
         batches' \subseteq Locks,
         UNCHANGED <<locks, sent, results, said, emptied>>
  PROVE  TasksInv'
<1>1. LocksAdvance /\ ReportsTrue' /\ RecordedLocksInitialized'
  BY SameLocks, ReportsStay, RecordsStay DEF TasksInv
<1> QED
  BY <1>1, TerminalInv DEF TasksInv, TypeInv

LEMMA FreeInTasks == Free \in Tasks /\ Remembers(Free)'
  BY LockTasksAssumption DEF Free, Tasks, Remembers

LEMMA TaskType ==
  ASSUME TasksInv, NEW t \in Terminals
  PROVE  terminals[t] \in Tasks /\ Remembers(terminals[t])
  BY DEF TasksInv, TypeInv

LEMMA BeginInv ==
  ASSUME TasksInv, NEW t \in Terminals, NEW k \in Locks,
         NEW task \in {"cancel", "accept"}, Begin(t, task, k)
  PROVE  TasksInv'
<1>1. PICK r : r = [Free EXCEPT !.task = task, !.at = "confirm", !.lock = k]
  OBVIOUS
<1>2. r \in Tasks
  BY <1>1, FreeInTasks DEF Tasks
<1>3. Remembers(r)'
  BY <1>1 DEF Free, Remembers
<1> QED
  BY <1>1, <1>2, <1>3, QuietInv DEF Begin, TasksInv, TypeInv

LEMMA EndInv ==
  ASSUME TasksInv, NEW t \in Terminals, SaveBatch(t) \/ Stop(t) PROVE TasksInv'
<1>1. terminals' = [terminals EXCEPT ![t] = Free]
        /\ UNCHANGED <<locks, sent, results, said, emptied>>
  BY DEF SaveBatch, Stop
<1>2. batches' \subseteq Locks
  <2>1. batches \subseteq Locks
    BY DEF TasksInv, TypeInv
  <2>2. CASE SaveBatch(t)
    <3>1. terminals[t].at = "confirm" /\ batches' = batches \cup {terminals[t].lock}
      BY <2>2 DEF SaveBatch, At
    <3>2. terminals[t].lock \in Locks
      BY <3>1, TaskType DEF Remembers
    <3> QED
      BY <2>1, <3>1, <3>2
  <2>3. CASE Stop(t)
    BY <2>1, <2>3 DEF Stop
  <2> QED
    BY <2>2, <2>3
<1> QED
  BY <1>1, <1>2, FreeInTasks, QuietInv

LEMMA StartSimpleInv ==
  ASSUME TasksInv, NEW t \in Terminals, StartSimple(t) PROVE TasksInv'
<1>1. PICK r : r = [Free EXCEPT !.task = "simple", !.at = "line", !.line = 1]
  OBVIOUS
<1>2. r \in Tasks
  <2>1. 1 \in 0 .. NumLines
    BY LockTasksAssumption DEF StartSimple
  <2> QED
    BY <1>1, <2>1, FreeInTasks DEF Tasks
<1>3. Remembers(r)'
  BY <1>1 DEF Free, Remembers
<1> QED
  BY <1>1, <1>2, <1>3, QuietInv DEF StartSimple, TasksInv, TypeInv

(* The next line, or the end of the file. *)
LEMMA NextLineType ==
  ASSUME TasksInv, NEW t \in Terminals, terminals[t].task = "simple", NextLine(t)
  PROVE  \E r \in Tasks : terminals' = [terminals EXCEPT ![t] = r] /\ Remembers(r)'
<1>1. /\ terminals[t] \in Tasks /\ terminals[t].line \in 1 .. NumLines
  <2>1. terminals[t].line > 0 /\ terminals[t] \in Tasks
    BY TaskType DEF Remembers
  <2> QED
    BY <2>1, LockTasksAssumption DEF Tasks
<1>2. CASE terminals[t].line = NumLines
  BY <1>2, FreeInTasks DEF NextLine
<1>3. CASE terminals[t].line # NumLines
  <2>1. PICK r : r = [terminals[t] EXCEPT !.at = "line", !.lock = 0, !.line = terminals[t].line + 1]
    OBVIOUS
  <2>2. PICK next \in 0 .. NumLines : next = terminals[t].line + 1 /\ next > 0
    BY <1>1, <1>3, LockTasksAssumption
  <2>3. r = [terminals[t] EXCEPT !.at = "line", !.lock = 0, !.line = next]
    BY <2>1, <2>2
  <2>4. r \in Tasks /\ r.at = "line" /\ r.line > 0
    BY <1>1, <2>2, <2>3 DEF Tasks
  <2>5. Remembers(r)'
    BY <2>4 DEF Remembers
  <2>6. terminals' = [terminals EXCEPT ![t] = r]
    <3>1. terminals' = [terminals EXCEPT ![t] =
             IF terminals[t].line = NumLines THEN Free
             ELSE [terminals[t] EXCEPT !.at = "line", !.lock = 0,
                                       !.line = terminals[t].line + 1]]
      BY DEF NextLine
    <3> QED
      BY <1>3, <2>1, <3>1
  <2> QED
    BY <2>4, <2>5, <2>6
<1> QED
  BY <1>2, <1>3

LEMMA SkipLineInv ==
  ASSUME TasksInv, NEW t \in Terminals, SkipLine(t) PROVE TasksInv'
<1>1. PICK r \in Tasks : terminals' = [terminals EXCEPT ![t] = r] /\ Remembers(r)'
  BY NextLineType DEF SkipLine
<1> QED
  BY <1>1, QuietInv DEF SkipLine, TasksInv, TypeInv

(* What is recorded has been initialized. *)
LEMMA SaveSimpleInv ==
  ASSUME TasksInv, NEW t \in Terminals, SaveSimple(t) PROVE TasksInv'
<1> DEFINE k == terminals[t].lock
           new == [line |-> terminals[t].line, lock |-> k]
<1>1. PICK r \in Tasks : terminals' = [terminals EXCEPT ![t] = r] /\ Remembers(r)'
  BY NextLineType DEF SaveSimple, At
<1>2. /\ k \in Locks /\ locks[k].stage = "initialized"
      /\ locks[k].line = terminals[t].line
      /\ terminals[t].line > 0
  BY TaskType DEF Remembers, SaveSimple, At
<1>3. terminals[t].line \in 1 .. NumLines
  BY <1>2, TaskType, LockTasksAssumption DEF Tasks
<1>4. /\ results' = results \cup {new}
      /\ UNCHANGED <<locks, sent, batches, said, emptied>>
  BY DEF SaveSimple
<1>5. LocksAdvance /\ ReportsTrue'
  BY <1>4, SameLocks, ReportsStay DEF TasksInv
<1>6. RecordedLocksInitialized'
  BY <1>2, <1>4 DEF TasksInv, RecordedLocksInitialized
<1>7. results' \subseteq [line : 1 .. NumLines, lock : Locks]
  <2>1. new \in [line : 1 .. NumLines, lock : Locks]
    BY <1>2, <1>3
  <2> QED
    BY <1>4, <2>1 DEF TasksInv, TypeInv
<1> QED
  BY <1>1, <1>4, <1>5, <1>6, <1>7, TerminalInv DEF TasksInv, TypeInv

LEMMA DeploySimpleInv ==
  ASSUME TasksInv, NEW t \in Terminals, NEW k \in Locks, DeploySimple(t, k)
  PROVE  TasksInv' /\ LocksAdvance
<1>1. PICK r : r = [terminals[t] EXCEPT !.at = "deployed", !.lock = k]
  OBVIOUS
<1>2. /\ r \in Tasks /\ r.at = "deployed" /\ r.lock = k
      /\ r.line = terminals[t].line /\ r.task = terminals[t].task
  BY <1>1, TaskType DEF Tasks
<1>3. LocksAdvance /\ locks'[k].stage = "deployed" /\ locks'[k].line = r.line
  BY <1>2, DeployAdvances
<1>4. Remembers(r)'
  BY <1>2, <1>3, TaskType DEF Remembers
<1>5. /\ terminals' = [terminals EXCEPT ![t] = r]
      /\ UNCHANGED <<sent, batches, results, said>>
  BY <1>1 DEF DeploySimple
<1> QED
  BY <1>2, <1>3, <1>4, <1>5, ReportsStay, RecordsStay, TerminalInv DEF TasksInv, TypeInv

LEMMA InitializeSimpleInv ==
  ASSUME TasksInv, NEW t \in Terminals, InitializeSimple(t)
  PROVE  TasksInv' /\ LocksAdvance
<1>1. PICK r : r = [terminals[t] EXCEPT !.at = "initialized"]
  OBVIOUS
<1>2. /\ r \in Tasks /\ r.at = "initialized" /\ r.lock = terminals[t].lock
      /\ r.line = terminals[t].line /\ r.task = terminals[t].task
  BY <1>1, TaskType DEF Tasks
<1>3. LocksAdvance /\ r.lock \in Locks /\ locks'[r.lock].stage = "initialized"
  BY <1>2, InitializeAdvances
<1>4. Remembers(r)'
  <2>1. locks[r.lock].stage # "none" /\ locks[r.lock].line = r.line
    BY <1>2, TaskType DEF Remembers, InitializeSimple, At
  <2>2. locks'[r.lock].line = r.line
    BY <1>3, <2>1 DEF LocksAdvance
  <2> QED
    BY <1>2, <1>3, <2>2, TaskType DEF Remembers
<1>5. /\ terminals' = [terminals EXCEPT ![t] = r]
      /\ UNCHANGED <<sent, batches, results, said>>
  BY <1>1 DEF InitializeSimple
<1> QED
  BY <1>2, <1>3, <1>4, <1>5, ReportsStay, RecordsStay, TerminalInv DEF TasksInv, TypeInv

(* What is reported was done by the transaction that was awaited. *)
LEMMA ReportInv ==
  ASSUME TasksInv, NEW t \in Terminals, ReportCancelled(t) \/ ReportAccepted(t)
  PROVE  TasksInv'
<1> DEFINE k == terminals[t].lock
           tx == terminals[t].tx
<1>1. /\ tx \in DOMAIN sent /\ sent[tx].lock = k
      /\ sent[tx].do = terminals[t].task /\ sent[tx].status = "succeeded"
  BY TaskType DEF Remembers, ReportCancelled, ReportAccepted, At, Succeeded
<1>2. k \in Locks
  BY <1>1, SentType
<1>3. PICK what : /\ Report(t, what)
                  /\ \/ what = "cancelled" /\ k \in emptied
                     \/ what = "accepted" /\ locks[k].accepted
  <2>1. CASE ReportCancelled(t)
    <3>1. k \in emptied
      BY <1>1, <2>1 DEF ReportCancelled, At, TasksInv, SentTrue
    <3> QED
      BY <2>1, <3>1 DEF ReportCancelled
  <2>2. CASE ReportAccepted(t)
    <3>1. locks[k].accepted
      BY <1>1, <2>2 DEF ReportAccepted, At, TasksInv, SentTrue
    <3> QED
      BY <2>2, <3>1 DEF ReportAccepted
  <2> QED
    BY <2>1, <2>2
<1>4. /\ said' = said \cup {[what |-> what, lock |-> k]}
      /\ terminals' = [terminals EXCEPT ![t] = Free]
      /\ UNCHANGED <<locks, sent, batches, results, emptied>>
  BY <1>3 DEF Report
<1>5. LocksAdvance /\ RecordedLocksInitialized'
  BY <1>4, SameLocks, RecordsStay DEF TasksInv
<1>6. said' \subseteq [what : {"cancelled", "accepted", "unknown error"}, lock : Locks]
  <2>1. [what |-> what, lock |-> k]
          \in [what : {"cancelled", "accepted", "unknown error"}, lock : Locks]
    BY <1>2, <1>3
  <2> QED
    BY <1>4, <2>1 DEF TasksInv, TypeInv
<1>7. ReportsTrue'
  BY <1>3, <1>4 DEF TasksInv, ReportsTrue
<1> QED
  BY <1>4, <1>5, <1>6, <1>7, FreeInTasks, TerminalInv DEF TasksInv, TypeInv

LEMMA SendInv ==
  ASSUME TasksInv, NEW t \in Terminals, SendCancel(t) \/ SendAccept(t)
  PROVE  TasksInv'
<1>1. PICK do \in {"cancel", "accept"} : Send(t, do) /\ At(t, do, "confirm")
  BY DEF SendCancel, SendAccept
<1>2. PICK tx : tx = [do |-> do, lock |-> terminals[t].lock,
                      account |-> AccountOf[t], status |-> "pending"]
  OBVIOUS
<1>3. terminals[t].lock \in Locks /\ terminals[t] \in Tasks
  BY <1>1, TaskType DEF At, Remembers
<1>4. tx \in Transactions
  BY <1>2, <1>3, LockTasksAssumption DEF Transactions
<1>5. /\ sent \in Seq(Transactions) /\ sent' = Append(sent, tx)
      /\ Len(sent) < MaxSent
      /\ UNCHANGED <<locks, batches, results, said, emptied>>
  BY <1>1, <1>2 DEF Send, TasksInv, TypeInv
<1>6. /\ sent' \in Seq(Transactions) /\ Len(sent') = Len(sent) + 1
      /\ Len(sent) \in Nat
      /\ DOMAIN sent' = 1 .. Len(sent') /\ DOMAIN sent = 1 .. Len(sent)
      /\ \A n \in DOMAIN sent : sent'[n] = sent[n]
      /\ sent'[Len(sent')] = tx
  BY <1>4, <1>5
<1>7. PICK r : r = [terminals[t] EXCEPT !.at = "sent", !.tx = Len(sent')]
  OBVIOUS
<1>8. /\ r \in Tasks /\ r.at = "sent" /\ r.lock = terminals[t].lock
      /\ r.task = do /\ r.tx = Len(sent')
  <2>1. PICK n \in Nat : n = Len(sent')
    BY <1>6
  <2>2. r = [terminals[t] EXCEPT !.at = "sent", !.tx = n]
    BY <1>7, <2>1
  <2>3. terminals[t].task = do
    BY <1>1 DEF At
  <2> QED
    BY <1>3, <2>1, <2>2, <2>3 DEF Tasks
<1>9. terminals' = [terminals EXCEPT ![t] = r]
  BY <1>1, <1>7 DEF Send
<1>10. LocksAdvance
  BY <1>5, SameLocks DEF TasksInv
<1>11. TypeInv'
  <2>1. Len(sent') <= MaxSent
    BY <1>5, <1>6, LockTasksAssumption
  <2>2. terminals' \in [Terminals -> Tasks]
    BY <1>8, <1>9 DEF TasksInv, TypeInv
  <2> QED
    BY <1>5, <1>6, <2>1, <2>2 DEF TasksInv, TypeInv
<1>12. SentTrue'
  <2> SUFFICES ASSUME NEW n \in DOMAIN sent', sent'[n].status = "succeeded"
               PROVE  /\ sent'[n].do = "cancel" => sent'[n].lock \in emptied'
                      /\ sent'[n].do = "accept" => locks'[sent'[n].lock].accepted
    BY DEF SentTrue
  <2>1. tx.status # "succeeded"
    BY <1>2
  <2>2. n \in DOMAIN sent /\ sent'[n] = sent[n]
    BY <1>6, <2>1
  <2> QED
    BY <1>5, <2>2 DEF TasksInv, SentTrue
<1>13. \A u \in Terminals : Remembers(terminals[u])'
  <2>1. Remembers(r)'
    <3>1. tx.lock = r.lock /\ tx.do = r.task
      BY <1>2, <1>8
    <3> QED
      BY <1>6, <1>8, <3>1 DEF Remembers
  <2>2. \A x \in Tasks : Remembers(x) => Remembers(x)'
    <3>1. DOMAIN sent \subseteq DOMAIN sent'
      BY <1>6
    <3>2. \A n \in DOMAIN sent : sent'[n].lock = sent[n].lock /\ sent'[n].do = sent[n].do
      BY <1>6
    <3> QED
      BY <1>10, <3>1, <3>2, RemembersStays
  <2>3. terminals'[t] = r /\ \A u \in Terminals \ {t} : terminals'[u] = terminals[u]
    BY <1>9 DEF TasksInv, TypeInv
  <2> SUFFICES ASSUME NEW u \in Terminals PROVE Remembers(terminals[u])'
    OBVIOUS
  <2>4. CASE u = t
    BY <2>1, <2>3, <2>4 DEF Remembers
  <2>5. CASE u # t
    BY <2>2, <2>3, <2>5, TaskType DEF Remembers
  <2> QED
    BY <2>4, <2>5
<1> QED
  BY <1>5, <1>10, <1>11, <1>12, <1>13, ReportsStay, RecordsStay DEF TasksInv

-----------------------------------------------------------------------------
LEMMA StepInv ==
  ASSUME TasksInv, [Next]_vars PROVE TasksInv' /\ LocksAdvance
<1>1. CASE \E k \in Locks : Fund(k)
  <2>1. LocksAdvance
    BY <1>1, FundAdvances DEF TasksInv
  <2> QED
    BY <1>1, <2>1, ChainInv DEF Fund
<1>2. CASE \E k \in batches : ExecuteBatch(k)
  <2>1. LocksAdvance
    BY <1>2, CancelAdvances DEF ExecuteBatch, TasksInv, TypeInv
  <2> QED
    BY <1>2, <2>1, ChainInv DEF ExecuteBatch
<1>3. CASE \E n \in DOMAIN sent : Mine(n)
  BY <1>3, MineInv
<1>4. CASE \E t \in Terminals, k \in Locks : DeploySimple(t, k)
  BY <1>4, DeploySimpleInv
<1>5. CASE \E t \in Terminals : InitializeSimple(t)
  BY <1>5, InitializeSimpleInv
<1>6. CASE \E t \in Terminals :
             \/ \E k \in Locks : StartCancel(t, k) \/ StartAccept(t, k)
             \/ SendCancel(t) \/ SaveBatch(t) \/ ReportCancelled(t)
             \/ SendAccept(t) \/ ReportAccepted(t)
             \/ StartSimple(t) \/ SaveSimple(t) \/ SkipLine(t)
             \/ Stop(t)
  <2>1. PICK t \in Terminals :
             \/ \E k \in Locks : StartCancel(t, k) \/ StartAccept(t, k)
             \/ SendCancel(t) \/ SaveBatch(t) \/ ReportCancelled(t)
             \/ SendAccept(t) \/ ReportAccepted(t)
             \/ StartSimple(t) \/ SaveSimple(t) \/ SkipLine(t)
             \/ Stop(t)
    BY <1>6
  <2>2. UNCHANGED <<locks, emptied>>
    BY <2>1 DEF StartCancel, StartAccept, Begin, SendCancel, SendAccept, Send,
       SaveBatch, ReportCancelled, ReportAccepted, Report, StartSimple,
       SaveSimple, SkipLine, Stop
  <2>3. \A k \in Locks : StartCancel(t, k) \/ StartAccept(t, k) => TasksInv'
    BY BeginInv DEF StartCancel, StartAccept
  <2> QED
    BY <2>1, <2>2, <2>3, SameLocks, SendInv, EndInv, ReportInv, StartSimpleInv,
       SaveSimpleInv, SkipLineInv DEF TasksInv
<1>7. CASE UNCHANGED vars
  BY <1>7, SameLocks, ChainInv DEF vars, TasksInv
<1> QED
  BY <1>1, <1>2, <1>3, <1>4, <1>5, <1>6, <1>7 DEF Next

LEMMA TasksInvariant == Spec => []TasksInv
  BY InitTasksInv, StepInv, PTL DEF Spec

(* Types, for any number of locks and terminals. *)
THEOREM TasksTypeCorrectness == Spec => []TypeOK
<1>1. TasksInv => TypeOK
  <2> SUFFICES ASSUME TasksInv PROVE TypeOK
    OBVIOUS
  <2>1. ASSUME NEW k \in Locks
        PROVE  /\ locks[k].stage \in {"none", "deployed", "initialized"}
               /\ locks[k].line \in 0 .. NumLines /\ locks[k].owner \in Owners
               /\ locks[k].accepted \in BOOLEAN /\ locks[k].balance \in 0 .. MaxFunded
    BY RecordTypes DEF TasksInv, LockRecords
  <2>2. \A t \in Terminals : terminals[t].at = "sent" => terminals[t].tx \in DOMAIN sent
    BY DEF TasksInv, Remembers
  <2> QED
    BY <2>1, <2>2 DEF TasksInv, TypeInv, TypeOK
<1> QED
  BY <1>1, TasksInvariant, PTL

(* What the tasks print is true. *)
THEOREM ReportsSafety == Spec => []ReportsTrue
<1>1. TasksInv => ReportsTrue
  BY DEF TasksInv
<1> QED
  BY <1>1, TasksInvariant, PTL

(* The result file of create-token-locks-simple is true. *)
THEOREM RecordsSafety == Spec => []RecordedLocksInitialized
<1>1. TasksInv => RecordedLocksInitialized
  BY DEF TasksInv
<1> QED
  BY <1>1, TasksInvariant, PTL

(* No step of a task, of the chain or of the multisig takes tokens from an *)
(* accepted lock.                                                          *)
THEOREM AcceptedSafety == Spec => AcceptedKeepsTokens
<1>1. TasksInv /\ [Next]_vars
        => [\A k \in Locks : locks[k].accepted =>
              locks'[k].balance >= locks[k].balance]_vars
  BY StepInv DEF LocksAdvance
<1> QED
  BY <1>1, TasksInvariant, PTL DEF Spec, AcceptedKeepsTokens
=============================================================================
