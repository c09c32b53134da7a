-------------------------- MODULE ReportsTheorems --------------------------
(***************************************************************************)
(* Theorems about the reports of ops/info.ts.  First the queries: the      *)
(* reports over any set of wallets and with any limit of the queue.  Then  *)
(* the numbers: the invariants of MCLockSchedule.tla for every bound of its*)
(* set of schedules, that is, the contract's arithmetic and that of the    *)
(* reports agree.                                                          *)
(***************************************************************************)
EXTENDS WalletReports, MCLockSchedule, ArithmeticTheorems


Infos == UNION {[found -> [used : Amounts, balance : Int]] : found \in SUBSET Wallets}

Releases == UNION {[found -> Amounts] : found \in SUBSET Wallets}

Reports ==
  [kind : Kinds, at : {"reading", "printed"}, number : Int, block : Int,
   released : Releases, unaccepted : SUBSET Wallets, found : SUBSET Wallets,
   todo : SUBSET Wallets, reading : SUBSET Wallets, failed : SUBSET Wallets,
   info : Infos, count : Int, total : Int, pendingLocks : SUBSET Wallets]

(* The chain has blocks, and knows who has accepted. *)
ChainTrue == blocks \in Seq([Wallets -> WalletStates]) /\ Len(blocks) > 0

Accepted == {k \in Wallets : Latest[k].accepted}

(* A wallet at the block that a report reads. *)
WalletAt(r, k) == blocks[r.block][k]

(* The subgraph's answer is of the block that the report reads. *)
BlockTrue(r) ==
  /\ r.found # {} => r.block \in 1 .. Len(blocks)
  /\ r.kind # "list" => r.block = r.number
  /\ DOMAIN r.released = r.found
  /\ \A k \in r.found : r.released[k] = WalletAt(r, k).released

(* The queue: no wallet is lost, and never are too many asked at a time. *)
QueueTrue(r) ==
  /\ r.todo \cup r.reading \cup r.failed \subseteq r.found
  /\ IsFiniteSet(r.reading) /\ Cardinality(r.reading) <= RPCConcurrency
  /\ r.at = "printed" =>
       r.todo = {} /\ r.reading = {} /\ (r.kind = "list" => r.failed = {})

(* A wallet of the list is waiting, being asked, has failed, or has its    *)
(* row.                                                                    *)
RowsTrue(r) ==
  /\ DOMAIN r.info \subseteq r.found
  /\ \A k \in DOMAIN r.info :
       /\ r.info[k].used = WalletAt(r, k).used
       /\ r.info[k].balance = Balance(WalletAt(r, k))
  /\ r.kind = "list" =>
       r.found \subseteq r.todo \cup r.reading \cup r.failed \cup DOMAIN r.info

(* A found wallet is waiting, being asked, has failed, is on the list of   *)
(* pending locks, or has been accepted; those accepted at the beginning    *)
(* still are.                                                              *)
PendingTrue(r) ==
  /\ r.found \ r.unaccepted \subseteq Accepted
  /\ r.pendingLocks \subseteq r.unaccepted \cap r.found
  /\ r.kind = "pending" =>
       r.found \subseteq r.todo \cup r.reading \cup r.failed
                           \cup r.pendingLocks \cup Accepted

(* The summary: a wallet is waiting, being asked, has failed or is in the  *)
(* total; it was counted when it was taken from the queue.                 *)
Answers(r) == r.found \ (r.todo \cup r.reading \cup r.failed)

SummaryTrue(r) ==
  r.kind = "summary" =>
    /\ r.todo \cap r.reading = {} /\ r.failed \cap (r.todo \cup r.reading) = {}
    /\ r.count = Cardinality(r.found \ r.todo)
    /\ r.total = SumFunction([k \in Answers(r) |-> WalletAt(r, k).used])

ReportTrue(r) ==
  r # NoReport =>
    r \in Reports /\ BlockTrue(r) /\ QueueTrue(r) /\ RowsTrue(r) /\ PendingTrue(r) /\ SummaryTrue(r)

ReportsInv == ChainTrue /\ ReportTrue(report)

LEMMA InitReportsInv == Init => ReportsInv
<1> SUFFICES ASSUME Init PROVE ReportsInv
  OBVIOUS
<1>1. PICK accepted \in SUBSET Wallets :
        blocks = <<[k \in Wallets |->
                      [released |-> 0, used |-> 0, accepted |-> k \in accepted]]>>
  BY DEF Init
<1>2. \A k \in Wallets :
        [released |-> 0, used |-> 0, accepted |-> k \in accepted] \in WalletStates
  BY ReportsAssumption DEF WalletStates, Amounts
<1>3. ChainTrue
  BY <1>1, <1>2 DEF ChainTrue
<1> QED
  BY <1>3 DEF Init, ReportsInv, ReportTrue

(* The tokens of a wallet. *)
LEMMA WalletTypes ==
  ASSUME NEW w \in WalletStates
  PROVE  /\ w.released \in Nat /\ w.used \in Nat /\ Balance(w) \in Int
         /\ w.released \in Amounts /\ w.used \in Amounts /\ w.accepted \in BOOLEAN
         /\ w.released + (w.used + Balance(w)) = Managed
BY ReportsAssumption DEF WalletStates, Amounts, Balance

LEMMA WalletAtTypes ==
  ASSUME ChainTrue, NEW r \in Reports, BlockTrue(r), NEW k \in r.found
  PROVE  k \in Wallets /\ r.block \in 1 .. Len(blocks) /\ WalletAt(r, k) \in WalletStates
BY DEF ChainTrue, Reports, BlockTrue, WalletAt

LEMMA LatestType ==
  ASSUME ChainTrue, NEW k \in Wallets PROVE Latest[k] \in WalletStates
BY DEF ChainTrue, Latest

-----------------------------------------------------------------------------
(* The chain moves on: what a block was remains, and acceptances only add  *)
(* to what is accounted for.                                               *)
LEMMA MinedInv ==
  ASSUME ReportsInv, NEW k \in Wallets, NEW w \in WalletStates, Mined(k, w),
         Latest[k].accepted => w.accepted
  PROVE  ReportsInv'
<1> DEFINE W == [Wallets -> WalletStates]
<1>1. /\ blocks \in Seq(W) /\ Len(blocks) \in Nat /\ Len(blocks) > 0
      /\ Latest \in W
  BY DEF ReportsInv, ChainTrue, Latest
<1>2. PICK latest : latest = [Latest EXCEPT ![k] = w]
  OBVIOUS
<1>3. /\ latest \in W /\ latest[k] = w
      /\ \A x \in Wallets \ {k} : latest[x] = Latest[x]
  BY <1>1, <1>2
<1>4. blocks' = Append(blocks, latest) /\ report' = report
  BY <1>2 DEF Mined
<1> HIDE DEF W
<1>5. /\ blocks' \in Seq(W) /\ Len(blocks') = Len(blocks) + 1
      /\ blocks'[Len(blocks')] = latest
      /\ \A n \in 1 .. Len(blocks) : blocks'[n] = blocks[n]
  BY <1>1, <1>3, <1>4
<1>6. ChainTrue'
  BY <1>1, <1>5 DEF ChainTrue, W
<1>7. Accepted \subseteq Accepted'
  <2>1. Latest' = latest
    BY <1>5 DEF Latest
  <2>2. \A x \in Wallets : Latest[x].accepted => latest[x].accepted
    BY <1>3
  <2> QED
    BY <2>1, <2>2 DEF Accepted
<1>8. ReportTrue(report)'
  <2> SUFFICES ASSUME report' # NoReport PROVE ReportTrue(report)'
    BY DEF ReportTrue
  <2>1. PICK r : r = report
    OBVIOUS
  <2>2. /\ r \in Reports /\ BlockTrue(r) /\ QueueTrue(r) /\ RowsTrue(r)
        /\ PendingTrue(r) /\ SummaryTrue(r)
    BY <1>4, <2>1 DEF ReportsInv, ReportTrue
  <2>3. \A x \in r.found : WalletAt(r, x)' = WalletAt(r, x)
    BY <1>5, <2>2 DEF BlockTrue, WalletAt
  <2>4. BlockTrue(r)'
    <3>1. r.found # {} => r.block \in 1 .. Len(blocks')
      BY <1>1, <1>5, <2>2 DEF BlockTrue
    <3> QED
      BY <2>2, <2>3, <3>1 DEF BlockTrue
  <2>5. RowsTrue(r)'
    BY <2>2, <2>3 DEF RowsTrue
  <2>6. PendingTrue(r)'
    BY <1>7, <2>2 DEF PendingTrue
  <2>7. SummaryTrue(r)'
    <3>1. [x \in Answers(r) |-> WalletAt(r, x).used]
            = [x \in Answers(r) |-> WalletAt(r, x)'.used]
      BY <2>3 DEF Answers
    <3> QED
      BY <2>2, <3>1 DEF SummaryTrue, Answers
  <2>8. QueueTrue(r)'
    BY <2>2 DEF QueueTrue
  <2> QED
    BY <1>4, <2>1, <2>2, <2>4, <2>5, <2>6, <2>7, <2>8 DEF ReportTrue
<1> QED
  BY <1>6, <1>8 DEF ReportsInv

(* A step of the report. *)
LEMMA ReportStep ==
  ASSUME ReportsInv, NEW r, InReport(r), ReportTrue(r) PROVE ReportsInv'
<1>1. report' = r /\ UNCHANGED blocks
  BY DEF InReport
<1> QED
  BY <1>1 DEF ReportsInv, ChainTrue, ReportTrue, BlockTrue, WalletAt, QueueTrue, RowsTrue,
              PendingTrue, SummaryTrue, Answers, Accepted, Latest

LEMMA StartReportInv ==
  ASSUME ReportsInv, NEW kind \in Kinds, StartReport(kind) PROVE ReportsInv'
<1>1. PICK number \in 1 .. Len(blocks), answer \in WalletsAnswered :
        LET block  == BlockRead(kind, number)
            wallets == IF block < 1 THEN {} ELSE answer
        IN  InReport([kind |-> kind, at |-> "reading", number |-> number, block |-> block,
                      released |-> [k \in wallets |-> blocks[block][k].released],
                      unaccepted |-> {k \in wallets : ~Latest[k].accepted},
                      found |-> wallets, todo |-> wallets, reading |-> {}, failed |-> {},
                      info |-> [k \in {} |-> [used |-> 0, balance |-> 0]],
                      count |-> 0, total |-> 0, pendingLocks |-> {}])
  BY DEF StartReport, InReport
<1>2. PICK block, wallets, released, unaccepted, empty :
        /\ block = BlockRead(kind, number)
        /\ wallets = IF block < 1 THEN {} ELSE answer
        /\ released = [k \in wallets |-> blocks[block][k].released]
        /\ unaccepted = {k \in wallets : ~Latest[k].accepted}
        /\ empty = [k \in {} |-> [used |-> 0, balance |-> 0]]
  OBVIOUS
<1>3. PICK r : r = [kind |-> kind, at |-> "reading", number |-> number, block |-> block,
                    released |-> released, unaccepted |-> unaccepted,
                    found |-> wallets, todo |-> wallets, reading |-> {}, failed |-> {},
                    info |-> empty, count |-> 0, total |-> 0,
                    pendingLocks |-> {}]
  OBVIOUS
<1>4. InReport(r)
  BY <1>1, <1>2, <1>3
<1>5. empty \in Infos /\ DOMAIN empty = {}
  <2>1. empty \in [{} -> [used : Amounts, balance : Int]] /\ {} \in SUBSET Wallets
    BY <1>2
  <2> QED
    BY <1>2, <2>1 DEF Infos
<1>6. /\ number \in Int /\ Len(blocks) \in Nat /\ block \in Int /\ wallets \subseteq Wallets
      /\ wallets # {} => block \in 1 .. Len(blocks)
      /\ kind # "list" => block = number
  BY <1>2, ReportsAssumption DEF BlockRead, WalletsAnswered, ReportsInv, ChainTrue
<1>7. released \in Releases /\ DOMAIN released = wallets
  <2>1. \A k \in wallets : blocks[block][k].released \in Amounts
    <3> SUFFICES ASSUME NEW k \in wallets PROVE blocks[block][k].released \in Amounts
      OBVIOUS
    <3>1. blocks[block][k] \in WalletStates
      BY <1>6 DEF ReportsInv, ChainTrue
    <3> QED
      BY <3>1, WalletTypes
  <2>2. released \in [wallets -> Amounts]
    BY <1>2, <2>1
  <2> QED
    BY <1>6, <2>2 DEF Releases
<1>8. unaccepted \subseteq Wallets
  BY <1>2, <1>6
<1>9. r \in Reports
  BY <1>3, <1>5, <1>6, <1>7, <1>8 DEF Reports
<1>10. BlockTrue(r)
  <2>1. \A k \in wallets : released[k] = blocks[block][k].released
    BY <1>2
  <2> QED
    BY <1>3, <1>6, <1>7, <2>1 DEF BlockTrue, WalletAt
<1>11. QueueTrue(r)
  <2>1. IsFiniteSet({}) /\ Cardinality({}) = 0
    BY FS_EmptySet
  <2> QED
    BY <1>3, <2>1, ReportsAssumption DEF QueueTrue
<1>12. RowsTrue(r)
  BY <1>3, <1>5 DEF RowsTrue
<1>13. PendingTrue(r)
  BY <1>2, <1>3, <1>6 DEF PendingTrue, Accepted
<1>14. SummaryTrue(r)
  <2>1. /\ r.found = r.todo /\ r.reading = {} /\ r.failed = {}
        /\ r.count = 0 /\ r.total = 0
    BY <1>3
  <2>2. r.found \ r.todo = {} /\ Answers(r) = {}
    BY <2>1 DEF Answers
  <2>3. SumFunction([k \in Answers(r) |-> WalletAt(r, k).used]) = 0
    BY <2>2, SumEmpty
  <2> QED
    BY <2>1, <2>2, <2>3, FS_EmptySet DEF SummaryTrue
<1> QED
  BY <1>4, <1>9, <1>10, <1>11, <1>12, <1>13, <1>14, ReportStep DEF ReportTrue

(* A worker takes a wallet: the queue has room for it. *)
LEMMA BeginQueryInv ==
  ASSUME ReportsInv, NEW k \in Wallets, BeginQuery(k) PROVE ReportsInv'
<1>1. PICK r : r = [report EXCEPT !.todo = report.todo \ {k},
                                  !.reading = report.reading \cup {k},
                                  !.count = report.count + 1]
  OBVIOUS
<1>2. /\ report \in Reports /\ BlockTrue(report) /\ QueueTrue(report)
      /\ RowsTrue(report) /\ PendingTrue(report) /\ SummaryTrue(report)
      /\ report.at = "reading" /\ k \in report.todo
      /\ Cardinality(report.reading) < RPCConcurrency
      /\ InReport(r)
  BY <1>1 DEF BeginQuery, ReportsInv, ReportTrue
<1>3. r \in Reports
  <2>1. PICK count : count = report.count + 1
    OBVIOUS
  <2>2. PICK reading, todo : reading = report.reading \cup {k} /\ todo = report.todo \ {k}
    OBVIOUS
  <2>3. count \in Int /\ reading \in SUBSET Wallets /\ todo \in SUBSET Wallets
    BY <1>2, <2>1, <2>2 DEF Reports
  <2>4. r = [report EXCEPT !.todo = todo, !.reading = reading, !.count = count]
    BY <1>1, <2>1, <2>2
  <2> QED
    BY <1>2, <2>3, <2>4 DEF Reports
<1>4. /\ r.todo = report.todo \ {k} /\ r.reading = report.reading \cup {k}
      /\ r.kind = report.kind /\ r.at = "reading" /\ r.number = report.number
      /\ r.block = report.block /\ r.released = report.released
      /\ r.unaccepted = report.unaccepted /\ r.found = report.found
      /\ r.failed = report.failed /\ r.info = report.info
      /\ r.pendingLocks = report.pendingLocks
      /\ r.count = report.count + 1 /\ r.total = report.total
  BY <1>1, <1>2 DEF Reports
<1>5. IsFiniteSet(r.reading) /\ Cardinality(r.reading) <= RPCConcurrency
  <2>1. IsFiniteSet(report.reading) /\ Cardinality(report.reading) \in Nat
    BY <1>2, FS_CardinalityType DEF QueueTrue
  <2>2. /\ IsFiniteSet(report.reading \cup {k})
        /\ \/ Cardinality(report.reading \cup {k}) = Cardinality(report.reading)
           \/ Cardinality(report.reading \cup {k}) = Cardinality(report.reading) + 1
    BY <2>1, FS_AddElement
  <2> QED
    BY <1>2, <1>4, <2>1, <2>2, ReportsAssumption
<1>6. QueueTrue(r)
  BY <1>2, <1>4, <1>5 DEF QueueTrue
<1>7. BlockTrue(r) /\ RowsTrue(r) /\ PendingTrue(r)
  BY <1>2, <1>4 DEF BlockTrue, RowsTrue, PendingTrue, WalletAt
<1>8. SummaryTrue(r)
  <2> SUFFICES ASSUME r.kind = "summary" PROVE SummaryTrue(r)
    BY DEF SummaryTrue
  <2>1. /\ report.kind = "summary" /\ k \in report.found
        /\ report.found \in SUBSET Wallets
    BY <1>2, <1>4 DEF QueueTrue, Reports
  <2>2. /\ r.found \ r.todo = (report.found \ report.todo) \cup {k}
        /\ k \notin report.found \ report.todo
        /\ Answers(r) = Answers(report)
    BY <1>2, <1>4, <2>1 DEF Answers
  <2>3. IsFiniteSet(report.found \ report.todo)
    BY <2>1, FS_Subset, ReportsAssumption
  <2>4. Cardinality(r.found \ r.todo) = Cardinality(report.found \ report.todo) + 1
    BY <2>2, <2>3, FS_AddElement
  <2> QED
    BY <1>2, <1>4, <2>1, <2>2, <2>4 DEF SummaryTrue, WalletAt
<1> QED
  BY <1>2, <1>3, <1>6, <1>7, <1>8, ReportStep DEF ReportTrue

(* A query ends. *)
LEMMA QueueShrinks ==
  ASSUME NEW s \in Reports, NEW r \in Reports, NEW k \in s.reading, QueueTrue(s),
         s.at = "reading", r.at = s.at, r.kind = s.kind, r.found = s.found,
         r.todo = s.todo, r.reading = s.reading \ {k},
         r.failed = s.failed \/ r.failed = s.failed \cup {k}
  PROVE  QueueTrue(r)
<1>1. IsFiniteSet(s.reading) /\ Cardinality(s.reading) \in Nat
        /\ Cardinality(s.reading) <= RPCConcurrency
  BY FS_CardinalityType DEF QueueTrue
<1>2. IsFiniteSet(r.reading) /\ Cardinality(r.reading) <= RPCConcurrency
  <2>1. /\ IsFiniteSet(s.reading \ {k})
        /\ Cardinality(s.reading \ {k}) = Cardinality(s.reading) - 1
    BY <1>1, FS_RemoveElement
  <2> QED
    BY <1>1, <2>1, ReportsAssumption
<1> QED
  BY <1>2 DEF QueueTrue

(* ... of the summary: its wallet is added to the total, or fails. *)
LEMMA SummaryAnswered ==
  ASSUME ChainTrue, NEW s \in Reports, NEW r \in Reports, NEW k \in s.reading,
         BlockTrue(s), QueueTrue(s), SummaryTrue(s), r.kind = s.kind, r.found = s.found, r.block = s.block,
         r.todo = s.todo, r.reading = s.reading \ {k}, r.count = s.count,
         s.kind = "summary" =>
           \/ r.failed = s.failed /\ r.total = s.total + WalletAt(s, k).used
           \/ r.failed = s.failed \cup {k} /\ r.total = s.total
  PROVE  SummaryTrue(r)
<1> SUFFICES ASSUME s.kind = "summary" PROVE SummaryTrue(r)
  BY DEF SummaryTrue
<1> DEFINE f == [x \in Answers(s) |-> WalletAt(s, x).used]
           h == [x \in Answers(r) |-> WalletAt(r, x).used]
<1>1. /\ s.todo \cap s.reading = {} /\ s.failed \cap (s.todo \cup s.reading) = {}
      /\ s.count = Cardinality(s.found \ s.todo)
      /\ s.total = SumFunction(f)
  BY DEF SummaryTrue
<1>2. /\ k \in s.found /\ k \notin s.todo /\ k \notin s.failed /\ k \notin Answers(s)
      /\ s.found \in SUBSET Wallets /\ Answers(s) \subseteq s.found
  BY <1>1 DEF QueueTrue, Reports, Answers
<1>3. \A x \in s.found : WalletAt(r, x) = WalletAt(s, x) /\ WalletAt(s, x).used \in Int
  BY WalletAtTypes, WalletTypes DEF WalletAt
<1>4. CASE r.failed = s.failed /\ r.total = s.total + WalletAt(s, k).used
  <2>1. Answers(r) = Answers(s) \cup {k}
    BY <1>2, <1>4 DEF Answers
  <2>2. IsFiniteSet(Answers(s))
    BY <1>2, FS_Subset, ReportsAssumption
  <2>3. /\ DOMAIN f = Answers(s) /\ DOMAIN h = Answers(s) \cup {k}
        /\ h[k] = WalletAt(s, k).used /\ h[k] \in Int
        /\ \A x \in Answers(s) : f[x] \in Int /\ h[x] = f[x]
    BY <1>2, <1>3, <2>1
  <2>4. SumFunction(h) = SumFunction(f) + h[k]
    <3> HIDE DEF f, h
    <3> QED
      BY <1>2, <2>2, <2>3, SumAdd
  <2> QED
    BY <1>1, <1>4, <2>3, <2>4 DEF SummaryTrue
<1>5. CASE r.failed = s.failed \cup {k} /\ r.total = s.total
  <2>1. Answers(r) = Answers(s)
    BY <1>5 DEF Answers
  <2>2. f = h
    BY <1>2, <1>3, <2>1
  <2> QED
    BY <1>1, <1>5, <2>1, <2>2 DEF SummaryTrue
<1> QED
  BY <1>4, <1>5

LEMMA AnsweredInv ==
  ASSUME ReportsInv, NEW k \in Wallets,
         WalletInfo(k) \/ AddWallet(k) \/ CheckPending(k) \/ QueryFails(k)
  PROVE  ReportsInv'
<1> DEFINE s == report
<1>1. /\ s \in Reports /\ BlockTrue(s) /\ QueueTrue(s) /\ RowsTrue(s) /\ PendingTrue(s)
      /\ SummaryTrue(s) /\ ChainTrue /\ k \in s.reading /\ s.at = "reading"
  <2>1. s # NoReport /\ k \in s.reading
    BY DEF WalletInfo, AddWallet, CheckPending, QueryFails, Reading, NoReport
  <2>2. /\ s \in Reports /\ BlockTrue(s) /\ QueueTrue(s) /\ RowsTrue(s) /\ PendingTrue(s)
        /\ SummaryTrue(s) /\ ChainTrue
    BY <2>1 DEF ReportsInv, ReportTrue
  <2>3. s.at \in {"reading", "printed"}
    BY <2>2 DEF Reports
  <2> QED
    BY <2>1, <2>2, <2>3 DEF QueueTrue
<1>2. CASE WalletInfo(k)
  <2>1. PICK info : info = WithInfo(k, WalletAt(s, k))
    OBVIOUS
  <2>2. PICK r : r = [s EXCEPT !.reading = s.reading \ {k}, !.info = info]
    OBVIOUS
  <2>3. InReport(r) /\ s.kind = "list"
    BY <1>2, <2>1, <2>2 DEF WalletInfo, Answered, Reading, WalletAt, s
  <2>4. /\ info \in Infos /\ DOMAIN info = DOMAIN s.info \cup {k}
        /\ info[k].used = WalletAt(s, k).used
        /\ info[k].balance = Balance(WalletAt(s, k))
        /\ \A x \in DOMAIN s.info : x # k => info[x] = s.info[x]
    <3> DEFINE Entry == [used : Amounts, balance : Int]
    <3>1. s.info \in Infos /\ k \in s.found
      BY <1>1 DEF Reports, QueueTrue
    <3>2. PICK D \in SUBSET Wallets : s.info \in [D -> Entry]
      BY <3>1 DEF Infos
    <3>3. PICK entry : entry = [used |-> WalletAt(s, k).used,
                                balance |-> Balance(WalletAt(s, k))]
      OBVIOUS
    <3>4. entry \in Entry
      <4>1. WalletAt(s, k) \in WalletStates
        BY <1>1, <3>1, WalletAtTypes
      <4> QED
        BY <3>3, <4>1, WalletTypes
    <3>5. info = [x \in D \cup {k} |-> IF x = k THEN entry ELSE s.info[x]]
      BY <2>1, <3>2, <3>3 DEF WithInfo
    <3> HIDE DEF Entry
    <3>6. info \in [D \cup {k} -> Entry] /\ D \cup {k} \in SUBSET Wallets
      BY <3>2, <3>4, <3>5
    <3>7. info \in Infos
      BY <3>6 DEF Infos, Entry
    <3>8. info[k] = entry /\ DOMAIN info = DOMAIN s.info \cup {k}
      BY <3>2, <3>5
    <3>9. \A x \in DOMAIN s.info : x # k => info[x] = s.info[x]
      BY <3>2, <3>5
    <3> QED
      BY <3>3, <3>7, <3>8, <3>9
  <2>5. r \in Reports
    BY <1>1, <2>2, <2>4 DEF Reports
  <2>6. /\ r.reading = s.reading \ {k} /\ r.info = info
        /\ r.kind = s.kind /\ r.at = s.at /\ r.number = s.number
        /\ r.block = s.block /\ r.released = s.released
        /\ r.unaccepted = s.unaccepted /\ r.found = s.found /\ r.todo = s.todo
        /\ r.failed = s.failed /\ r.pendingLocks = s.pendingLocks
    BY <1>1, <2>2 DEF Reports
  <2> HIDE DEF s
  <2>7. QueueTrue(r)
    BY <1>1, <2>5, <2>6, QueueShrinks
  <2>8. RowsTrue(r)
    BY <1>1, <2>4, <2>6 DEF RowsTrue, QueueTrue, WalletAt
  <2>9. BlockTrue(r) /\ PendingTrue(r) /\ SummaryTrue(r)
    BY <1>1, <2>3, <2>6 DEF BlockTrue, PendingTrue, SummaryTrue, WalletAt
  <2> QED
    BY <2>3, <2>5, <2>7, <2>8, <2>9, ReportStep DEF ReportTrue
<1>3. CASE AddWallet(k) \/ CheckPending(k) \/ QueryFails(k)
  <2>1. PICK failed, total, pendingLocks, r :
          /\ r = [s EXCEPT !.reading = s.reading \ {k}, !.failed = failed,
                           !.total = total, !.pendingLocks = pendingLocks]
          /\ InReport(r) /\ total \in Int
          /\ \/ /\ s.kind = "summary" /\ total = s.total + WalletAt(s, k).used
                /\ failed = s.failed /\ pendingLocks = s.pendingLocks
             \/ /\ s.kind = "pending" /\ failed = s.failed
                /\ pendingLocks = IF Latest[k].accepted THEN s.pendingLocks
                                  ELSE s.pendingLocks \cup {k}
             \/ /\ failed = s.failed \cup {k} /\ pendingLocks = s.pendingLocks
                /\ total = s.total
    <3> DEFINE With(failed, total, pendingLocks) ==
                 [s EXCEPT !.reading = s.reading \ {k}, !.failed = failed,
                           !.total = total, !.pendingLocks = pendingLocks]
    <3>1. s.total \in Int /\ WalletAt(s, k).used \in Int
      BY <1>1, WalletAtTypes, WalletTypes DEF Reports, QueueTrue
    <3>2. CASE AddWallet(k)
      <4>1. InReport(With(s.failed, s.total + WalletAt(s, k).used, s.pendingLocks))
              /\ s.kind = "summary"
        BY <1>1, <3>2 DEF AddWallet, Answered, Reading, InReport, Reports, WalletAt
      <4>2. PICK sum \in Int : sum = s.total + WalletAt(s, k).used
        BY <3>1
      <4>3. InReport(With(s.failed, sum, s.pendingLocks))
        BY <4>1, <4>2
      <4> QED
        BY <4>1, <4>2, <4>3
    <3>3. CASE CheckPending(k)
      <4>1. InReport(With(s.failed, s.total,
                          IF Latest[k].accepted THEN s.pendingLocks
                          ELSE s.pendingLocks \cup {k}))
              /\ s.kind = "pending"
        BY <1>1, <3>3 DEF CheckPending, Answered, Reading, InReport, Reports
      <4> QED
        BY <3>1, <4>1
    <3>4. CASE QueryFails(k)
      <4>1. InReport(With(s.failed \cup {k}, s.total, s.pendingLocks))
        BY <1>1, <3>4 DEF QueryFails, Answered, InReport, Reports
      <4> QED
        BY <3>1, <4>1
    <3> QED
      BY <1>3, <3>2, <3>3, <3>4
  <2>2. /\ failed = s.failed \/ failed = s.failed \cup {k}
        /\ pendingLocks = s.pendingLocks \/ pendingLocks = s.pendingLocks \cup {k}
        /\ s.failed \subseteq Wallets /\ s.pendingLocks \subseteq Wallets
    BY <1>1, <2>1 DEF Reports
  <2>3. r \in Reports
    BY <1>1, <2>1, <2>2 DEF Reports
  <2>4. /\ r.reading = s.reading \ {k} /\ r.info = s.info
        /\ r.kind = s.kind /\ r.at = s.at /\ r.number = s.number
        /\ r.block = s.block /\ r.released = s.released
        /\ r.unaccepted = s.unaccepted /\ r.found = s.found /\ r.todo = s.todo
        /\ r.failed = failed /\ r.pendingLocks = pendingLocks
        /\ r.count = s.count /\ r.total = total
    BY <1>1, <2>1 DEF Reports
  <2> HIDE DEF s
  <2>5. QueueTrue(r)
    BY <1>1, <2>2, <2>3, <2>4, QueueShrinks
  <2>6. BlockTrue(r) /\ RowsTrue(r)
    BY <1>1, <2>1, <2>4 DEF BlockTrue, RowsTrue, WalletAt
  <2>7. PendingTrue(r)
    BY <1>1, <2>1, <2>4 DEF PendingTrue, QueueTrue, Accepted
  <2>8. SummaryTrue(r)
    <3>1. s.kind = "summary" =>
            \/ r.failed = s.failed /\ r.total = s.total + WalletAt(s, k).used
            \/ r.failed = s.failed \cup {k} /\ r.total = s.total
      BY <2>1, <2>4
    <3> QED
      BY <1>1, <2>3, <2>4, <3>1, SummaryAnswered
  <2> QED
    BY <2>1, <2>3, <2>5, <2>6, <2>7, <2>8, ReportStep DEF ReportTrue
<1> QED
  BY <1>2, <1>3

LEMMA FinishReportInv ==
  ASSUME ReportsInv, FinishReport PROVE ReportsInv'
<1>1. PICK r : r = [report EXCEPT !.at = "printed"]
  OBVIOUS
<1>2. /\ report \in Reports /\ BlockTrue(report) /\ QueueTrue(report)
      /\ RowsTrue(report) /\ PendingTrue(report) /\ SummaryTrue(report) /\ report.todo = {} /\ report.reading = {}
      /\ report.kind = "list" => report.failed = {}
      /\ InReport(r)
  BY <1>1 DEF FinishReport, ReportsInv, ReportTrue
<1>3. r \in Reports
  BY <1>1, <1>2 DEF Reports
<1>4. /\ r.todo = report.todo /\ r.reading = report.reading
      /\ r.kind = report.kind /\ r.number = report.number
      /\ r.block = report.block /\ r.released = report.released
      /\ r.unaccepted = report.unaccepted /\ r.found = report.found
      /\ r.failed = report.failed /\ r.info = report.info
      /\ r.pendingLocks = report.pendingLocks
      /\ r.count = report.count /\ r.total = report.total
  BY <1>1, <1>2 DEF Reports
<1>5. BlockTrue(r) /\ QueueTrue(r) /\ RowsTrue(r) /\ PendingTrue(r) /\ SummaryTrue(r)
  BY <1>2, <1>4 DEF BlockTrue, WalletAt, QueueTrue, RowsTrue, PendingTrue, SummaryTrue, Answers
<1> QED
  BY <1>2, <1>3, <1>5, ReportStep DEF ReportTrue

-----------------------------------------------------------------------------
LEMMA ReportsInvariant == Spec => []ReportsInv
<1>1. ReportsInv /\ [Next]_vars => ReportsInv'
  <2> SUFFICES ASSUME ReportsInv, [Next]_vars PROVE ReportsInv'
    OBVIOUS
  <2>1. CASE \E kind \in Kinds : StartReport(kind)
    BY <2>1, StartReportInv
  <2>2. CASE \E k \in Wallets : BeginQuery(k)
    BY <2>2, BeginQueryInv
  <2>3. CASE \E k \in Wallets :
               WalletInfo(k) \/ AddWallet(k) \/ CheckPending(k) \/ QueryFails(k)
    BY <2>3, AnsweredInv
  <2>4. CASE \E k \in Wallets : Accept(k)
    <3>1. PICK k \in Wallets : Accept(k)
      BY <2>4
    <3>2. PICK w : w = [Latest[k] EXCEPT !.accepted = TRUE]
      OBVIOUS
    <3>3. Latest[k] \in WalletStates
      BY LatestType DEF ReportsInv
    <3>4. w \in WalletStates /\ w.accepted
      BY <3>2, <3>3 DEF WalletStates
    <3> QED
      BY <3>1, <3>2, <3>4, MinedInv DEF Accept
  <2>5. CASE \E k \in Wallets, amount \in Amounts : Use(k, amount) \/ Release(k, amount)
    <3>1. PICK k \in Wallets, amount \in Amounts : Use(k, amount) \/ Release(k, amount)
      BY <2>5
    <3>2. Latest[k] \in WalletStates
      BY LatestType DEF ReportsInv
    <3>3. CASE Use(k, amount)
      <4>1. PICK w : w = [Latest[k] EXCEPT !.used = amount]
        OBVIOUS
      <4>2. w \in WalletStates /\ w.accepted = Latest[k].accepted
        BY <3>2, <3>3, <4>1 DEF WalletStates, Use
      <4> QED
        BY <3>3, <4>1, <4>2, MinedInv DEF Use
    <3>4. CASE Release(k, amount)
      <4>1. PICK sum : sum = Latest[k].released + amount
        OBVIOUS
      <4>2. PICK w : w = [Latest[k] EXCEPT !.released = sum]
        OBVIOUS
      <4>3. sum \in Amounts /\ sum + Latest[k].used <= Managed
        BY <3>2, <3>4, <4>1, WalletTypes, ReportsAssumption DEF Release, Balance, Amounts
      <4>4. w \in WalletStates /\ w.accepted = Latest[k].accepted
        BY <3>2, <4>2, <4>3 DEF WalletStates
      <4>5. Mined(k, w)
        BY <3>4, <4>1, <4>2 DEF Release
      <4> QED
        BY <4>4, <4>5, MinedInv
    <3> QED
      BY <3>1, <3>3, <3>4
  <2>6. CASE FinishReport
    BY <2>6, FinishReportInv
  <2>7. CASE StopReport
    BY <2>7, ReportStep DEF StopReport, ReportTrue
  <2>8. CASE UNCHANGED vars
    BY <2>8 DEF vars, ReportsInv, ChainTrue, ReportTrue, BlockTrue, WalletAt, QueueTrue,
               RowsTrue, PendingTrue, SummaryTrue, Answers, Accepted, Latest
  <2> QED
    BY <2>1, <2>2, <2>3, <2>4, <2>5, <2>6, <2>7, <2>8 DEF Next
<1> QED
  BY <1>1, InitReportsInv, PTL DEF Spec

(* Types, and the limit of the queue. *)
THEOREM ReportsTypeCorrectness == Spec => []TypeOK
<1>1. ReportsInv => TypeOK
  <2> SUFFICES ASSUME ReportsInv, report # NoReport
               PROVE  /\ report.kind \in Kinds
                      /\ report.found \subseteq Wallets
                      /\ DOMAIN report.info \cup report.failed \cup report.pendingLocks
                           \subseteq report.found
                      /\ Cardinality(report.reading) <= RPCConcurrency
    BY DEF ReportsInv, ChainTrue, TypeOK
  <2>1. /\ report \in Reports /\ QueueTrue(report) /\ RowsTrue(report) /\ PendingTrue(report)
    BY DEF ReportsInv, ReportTrue
  <2>2. report.kind \in Kinds /\ report.found \subseteq Wallets
    BY <2>1 DEF Reports
  <2> QED
    BY <2>1, <2>2 DEF QueueTrue, RowsTrue, PendingTrue
<1> QED
  BY <1>1, ReportsInvariant, PTL

(* Every row of the list of wallets accounts for the wallet's tokens,      *)
(* whatever the chain does between the answer of the subgraph and those of *)
(* the chain, in whatever order the latter come, and however far the block *)
(* of the list is behind that of its header.                               *)
THEOREM RowsAddUpAlways == Spec => []RowsAddUp
<1>1. ReportsInv => RowsAddUp
  <2> SUFFICES ASSUME ReportsInv, report.kind = "list" PROVE RowsAddUp
    BY DEF RowsAddUp
  <2>1. /\ report \in Reports /\ BlockTrue(report) /\ QueueTrue(report)
        /\ RowsTrue(report) /\ ChainTrue
    BY DEF ReportsInv, ReportTrue, NoReport
  <2>2. ASSUME NEW k \in DOMAIN report.info
        PROVE  Row(k).released + Row(k).used + Row(k).balance = Managed
    <3>1. k \in report.found
      BY <2>1 DEF RowsTrue
    <3>2. PICK w \in WalletStates : w = WalletAt(report, k)
      BY <2>1, <3>1, WalletAtTypes
    <3>3. Row(k).released = w.released /\ Row(k).used = w.used /\ Row(k).balance = Balance(w)
      BY <2>1, <3>1, <3>2 DEF Row, BlockTrue, RowsTrue
    <3> QED
      BY <3>3, WalletTypes
  <2>3. Printed("list") => DOMAIN report.info = report.found
    BY <2>1 DEF Printed, QueueTrue, RowsTrue
  <2> QED
    BY <2>2, <2>3 DEF RowsAddUp
<1> QED
  BY <1>1, ReportsInvariant, PTL

(* The summary counts every wallet and adds up every answer, once, however *)
(* the additions are interleaved.                                          *)
THEOREM SummaryOfBlockAlways == Spec => []SummaryOfBlock
<1>1. ReportsInv => SummaryOfBlock
  <2> SUFFICES ASSUME ReportsInv, Printed("summary")
               PROVE  /\ report.count = Cardinality(report.found)
                      /\ report.total
                           = SumFunction([k \in report.found \ report.failed
                                            |-> blocks[report.number][k].used])
    BY DEF SummaryOfBlock
  <2>1. /\ BlockTrue(report) /\ QueueTrue(report) /\ SummaryTrue(report)
        /\ report.kind = "summary" /\ report.at = "printed"
    BY DEF ReportsInv, ReportTrue, Printed
  <2>2. /\ report.found \ report.todo = report.found
        /\ Answers(report) = report.found \ report.failed
    BY <2>1 DEF QueueTrue, Answers
  <2> QED
    BY <2>1, <2>2 DEF SummaryTrue, BlockTrue, WalletAt
<1> QED
  BY <1>1, ReportsInvariant, PTL

(* The list of pending locks is complete, and true. *)
THEOREM PendingCompleteAlways == Spec => []PendingComplete
<1>1. ReportsInv => PendingComplete
  <2> SUFFICES ASSUME ReportsInv, Printed("pending")
               PROVE  /\ \A k \in report.found \ report.failed :
                           ~Latest[k].accepted => k \in report.pendingLocks
                      /\ report.pendingLocks \subseteq report.unaccepted
    BY DEF PendingComplete
  <2>1. /\ QueueTrue(report) /\ PendingTrue(report)
        /\ report.kind = "pending" /\ report.at = "printed"
    BY DEF ReportsInv, ReportTrue, Printed
  <2> QED
    BY <2>1 DEF QueueTrue, PendingTrue, Accepted
<1> QED
  BY <1>1, ReportsInvariant, PTL

-----------------------------------------------------------------------------
(* Division of a product: what rounding each period down to whole seconds  *)
(* does to the number of periods that have passed.                         *)
LEMMA DivOfProduct ==
  ASSUME NEW since \in Nat, NEW duration \in Nat, NEW periods \in Nat,
         duration > 0, periods > 0, duration \div periods > 0
  PROVE  /\ (since * periods) \div duration <= since \div (duration \div periods)
         /\ duration % periods = 0 =>
              (since * periods) \div duration = since \div (duration \div periods)
<1> DEFINE d == duration \div periods
           q == (since * periods) \div duration
           k == since \div d
<1>1. since * periods \in Nat
  BY TimesMonotone
<1>2. d \in Nat /\ d > 0 /\ periods * d <= duration
  BY DivBounds
<1>3. q \in Nat /\ duration * q <= since * periods
        /\ since * periods < duration * (q + 1)
  BY <1>1, DivBounds
<1>4. k \in Nat /\ d * k <= since /\ since < d * (k + 1)
  BY <1>2, DivBounds
<1>5. duration % periods = 0 => duration = periods * d
  BY DivExact
<1> HIDE DEF d, q, k
<1>6. q <= k
  <2> SUFFICES ASSUME q >= k + 1 PROVE FALSE
    BY <1>3, <1>4
  <2>1. (periods * d) * (k + 1) <= (periods * d) * q
    BY <1>2, <1>3, <1>4, TimesMonotone
  <2>2. (periods * d) * q <= duration * q
    BY <1>2, <1>3, TimesMonotone
  <2>3. (periods * d) * (k + 1) <= since * periods
    BY <1>1, <1>2, <1>3, <1>4, <2>1, <2>2
  <2>4. periods * (since + 1) <= periods * (d * (k + 1))
    BY <1>2, <1>4, TimesMonotone
  <2> QED
    BY <1>2, <1>4, <2>3, <2>4
<1>7. ASSUME duration % periods = 0 PROVE k <= q
  <2> SUFFICES ASSUME k >= q + 1 PROVE FALSE
    BY <1>3, <1>4
  <2>1. duration = periods * d
    BY <1>5, <1>7
  <2>2. d * (q + 1) <= since
    <3>1. d * (q + 1) <= d * k
      BY <1>2, <1>3, <1>4, TimesMonotone
    <3> QED
      BY <1>2, <1>3, <1>4, <3>1
  <2>3. periods * (d * (q + 1)) <= periods * since
    BY <1>2, <1>3, <2>2, TimesMonotone
  <2> QED
    BY <1>2, <1>3, <2>1, <2>3
<1> QED
  BY <1>3, <1>4, <1>6, <1>7 DEF d, q, k

(* A whole number of times b fits into a exactly up to the quotient. *)
LEMMA FitsUpToQuotient ==
  ASSUME NEW a \in Nat, NEW b \in Nat, b > 0, NEW i \in Nat
  PROVE  b * i <= a <=> i <= a \div b
<1> DEFINE q == a \div b
<1>1. q \in Nat /\ b * q <= a /\ a < b * (q + 1)
  BY DivBounds
<1> HIDE DEF q
<1>2. ASSUME i <= q PROVE b * i <= a
  <2>1. b * i <= b * q
    BY <1>1, <1>2, TimesMonotone
  <2> QED
    BY <1>1, <2>1
<1>3. ASSUME i >= q + 1 PROVE b * i > a
  <2>1. b * (q + 1) <= b * i
    BY <1>1, <1>3, TimesMonotone
  <2> QED
    BY <1>1, <2>1
<1> QED
  BY <1>1, <1>2, <1>3 DEF q

-----------------------------------------------------------------------------
(* The reported amount of a schedule that is not whole, and of one that is,*)
(* against the contract's.                                                 *)
LEMMA ReportedPeriodsBounds ==
  ASSUME NEW x \in Schedule, ValidSchedule(x), NEW u \in Nat,
         x.startTime <= u, u <= x.endTime, NEW k \in ReportedPeriods(x, u)
  PROVE  /\ k \in Nat /\ k <= x.periods
         /\ PeriodDuration(x) > 0 => k <= PassedPeriods(x, u)
         /\ Duration(x) % x.periods = 0 => k = PassedPeriods(x, u)
<1> DEFINE D == Duration(x)
           p == x.periods
           since == SinceStartTime(x, u)
           elapsed == since * p
           q == elapsed \div D
<1>1. /\ D \in Nat /\ p \in Nat /\ since \in Nat /\ D > 0 /\ p > 0
      /\ since <= D
  BY ScheduleTypes DEF ValidSchedule, Duration, SinceStartTime
<1>2. elapsed \in Nat /\ elapsed <= D * p
  BY <1>1, TimesMonotone
<1>3. q \in Nat /\ D * q <= elapsed /\ elapsed < D * (q + 1)
  BY <1>1, <1>2, DivBounds
<1>4. q <= p
  <2> SUFFICES ASSUME q >= p + 1 PROVE FALSE
    BY <1>1, <1>3
  <2>1. D * (p + 1) <= D * q
    BY <1>1, <1>3, TimesMonotone
  <2> QED
    BY <1>1, <1>2, <1>3, <2>1
<1>5. \/ k = q
      \/ k = q - 1 /\ elapsed > 0 /\ elapsed % D = 0 /\ D % p # 0
  BY DEF ReportedPeriods
<1>6. ASSUME elapsed > 0, elapsed % D = 0 PROVE q > 0
  <2>1. elapsed = D * q
    BY <1>1, <1>2, <1>6, DivExact
  <2> HIDE DEF D, elapsed, q
  <2> QED
    BY <1>1, <1>3, <1>6, <2>1
<1>7. k \in Nat /\ k <= q /\ (D % p = 0 => k = q)
  BY <1>3, <1>5, <1>6
<1>8. PeriodDuration(x) > 0 =>
        /\ q <= PassedPeriods(x, u)
        /\ D % p = 0 => q = PassedPeriods(x, u)
  BY <1>1, DivOfProduct DEF PeriodDuration, PassedPeriods
<1>9. PeriodDuration(x) > 0 => PassedPeriods(x, u) \in Nat
  BY <1>1, ScheduleTypes, DivBounds DEF PassedPeriods
<1>10. D % p = 0 => PeriodDuration(x) > 0
  BY WholePeriods DEF Proportioned
<1> HIDE DEF D, p, since, elapsed, q
<1> QED
  BY <1>1, <1>3, <1>4, <1>7, <1>8, <1>9, <1>10 DEF D, p

(* What getFreeAmount() returns of any schedule, at any time. *)
LEMMA FreeAmountBounds ==
  ASSUME NEW x \in Schedule, ValidSchedule(x), NEW u \in Nat,
         NEW free \in FreeAmount(x, u)
  PROVE  /\ 0 <= free /\ free <= x.managedAmount
         /\ ~AvailableReverts(x, u) => free <= UnlockedAmount(x, u)
         /\ Duration(x) % x.periods = 0 => free = UnlockedAmount(x, u)
<1>1. x.managedAmount \in Nat /\ AmountPerPeriod(x) \in Nat
        /\ x.startTime \in Nat /\ x.endTime \in Nat
  BY ScheduleTypes
<1>2. CASE ReleaseBlocked(x, u)
  BY <1>1, <1>2 DEF FreeAmount, ReleaseBlocked, UnlockedAmount
<1>3. CASE ~ReleaseBlocked(x, u)
  <2>1. free \in ReportedAvailable(x, u)
          /\ UnlockedAmount(x, u) = AvailableAmount(x, u)
    BY <1>3 DEF FreeAmount, ReleaseBlocked, UnlockedAmount
  <2>2. CASE u < x.startTime \/ u > x.endTime
    BY <1>1, <2>1, <2>2 DEF ReportedAvailable, AvailableAmount
  <2>3. CASE x.startTime <= u /\ u <= x.endTime
    <3>1. PICK k \in ReportedPeriods(x, u) : free = AmountPerPeriod(x) * k
      BY <1>1, <2>1, <2>3 DEF ReportedAvailable
    <3>2. /\ k \in Nat /\ k <= x.periods
          /\ PeriodDuration(x) > 0 => k <= PassedPeriods(x, u)
          /\ Duration(x) % x.periods = 0 => k = PassedPeriods(x, u)
      BY <2>3, ReportedPeriodsBounds
    <3>3. 0 <= free /\ free <= x.managedAmount
      BY <1>1, <3>1, <3>2, PeriodsWithinManaged, TimesMonotone
    <3>4. AvailableAmount(x, u) = PassedPeriods(x, u) * AmountPerPeriod(x)
      BY <1>1, <2>3 DEF AvailableAmount
    <3>5. ASSUME ~AvailableReverts(x, u) PROVE free <= AvailableAmount(x, u)
      <4>1. PeriodDuration(x) > 0
        BY <2>3, <3>5, ScheduleTypes DEF AvailableReverts
      <4>2. PassedPeriods(x, u) \in Nat
        BY <4>1, ScheduleTypes, DivBounds DEF PassedPeriods
      <4> QED
        BY <1>1, <3>1, <3>2, <3>4, <4>1, <4>2, TimesMonotone
    <3>6. ASSUME Duration(x) % x.periods = 0 PROVE free = AvailableAmount(x, u)
      BY <1>1, <3>1, <3>2, <3>4, <3>6
    <3> QED
      BY <2>1, <3>3, <3>5, <3>6
  <2> QED
    BY <1>1, <2>2, <2>3
<1> QED
  BY <1>2, <1>3

-----------------------------------------------------------------------------
(* The rows of contracts:schedule that are due are those of the periods    *)
(* that have passed.                                                       *)
LEMMA RowsDue ==
  ASSUME NEW x \in Schedule, Proportioned(x), NEW u \in Nat, u <= x.endTime
  PROVE  AvailableAmount(x, u)
           = AmountPerPeriod(x) * Cardinality({row \in ScheduleRows(x) : row.time <= u})
<1> DEFINE d == PeriodDuration(x)
           due == {row \in ScheduleRows(x) : row.time <= u}
           n == IF u < x.startTime THEN 0 ELSE PassedPeriods(x, u)
           rowOf == [i \in 1 .. n |-> [time |-> x.startTime + d * i, period |-> i]]
<1>1. /\ d \in Nat /\ d > 0 /\ x.periods \in Nat /\ x.startTime \in Nat
      /\ SinceStartTime(x, u) \in Nat /\ AmountPerPeriod(x) \in Nat
      /\ x.endTime \in Nat
  BY ScheduleTypes DEF Proportioned
<1>2. n \in Nat /\ n <= x.periods
  BY <1>1, PassedPeriodsBounds
<1>3. ASSUME NEW i \in 1 .. x.periods
      PROVE  x.startTime + d * i <= u <=> i <= n
  <2>1. d * i \in Nat /\ d * i > 0
    BY <1>1, TimesMonotone
  <2>2. CASE u < x.startTime
    BY <1>1, <2>1, <2>2
  <2>3. CASE ~(u < x.startTime)
    <3>1. d * i <= SinceStartTime(x, u) <=> i <= n
      BY <1>1, <2>3, FitsUpToQuotient DEF PassedPeriods
    <3>2. SinceStartTime(x, u) = u - x.startTime
      BY <1>1, <2>3 DEF SinceStartTime
    <3> HIDE DEF d, n
    <3> QED
      BY <1>1, <1>2, <2>1, <3>1, <3>2
  <2> QED
    BY <2>2, <2>3
<1>4. due = {[time |-> x.startTime + d * i, period |-> i] : i \in 1 .. n}
  <2>1. ScheduleRows(x)
          = {[time |-> x.startTime + d * i, period |-> i] : i \in 1 .. x.periods}
    BY DEF ScheduleRows, PeriodDuration
  <2>2. \A i \in 1 .. n : i \in 1 .. x.periods
    BY <1>1, <1>2
  <2>3. \A i \in 1 .. x.periods : i <= n => i \in 1 .. n
    BY <1>1, <1>2
  <2> HIDE DEF d, n
  <2> QED
    BY <1>3, <2>1, <2>2, <2>3
<1>5. rowOf \in Bijection(1 .. n, due)
  <2> HIDE DEF n, d, due
  <2>1. rowOf \in [1 .. n -> due]
    BY <1>4
  <2>2. \A i, j \in 1 .. n : rowOf[i] = rowOf[j] => i = j
    <3>1. \A i \in 1 .. n : rowOf[i].period = i
      OBVIOUS
    <3> HIDE DEF rowOf
    <3> QED
      BY <3>1
  <2>3. \A row \in due : \E i \in 1 .. n : rowOf[i] = row
    BY <1>4
  <2> HIDE DEF rowOf
  <2> QED
    BY <2>1, <2>2, <2>3 DEF Bijection, Injection, Surjection, IsInjective
<1>6. Cardinality(due) = n
  <2>1. IsFiniteSet(1 .. n) /\ Cardinality(1 .. n) = n
    BY <1>2, FS_Interval
  <2>2. ExistsBijection(1 .. n, due)
    BY <1>5 DEF ExistsBijection
  <2> HIDE DEF n, due
  <2> QED
    BY <2>1, <2>2, FS_Bijection
<1>7. AvailableAmount(x, u) = n * AmountPerPeriod(x)
  BY <1>1 DEF AvailableAmount
<1> HIDE DEF n
<1> QED
  BY <1>1, <1>2, <1>6, <1>7

(* The next release date. *)
LEMMA NextRelease ==
  ASSUME NEW x \in Schedule, Proportioned(x), NEW u \in Nat,
         u < x.startTime + x.periods * PeriodDuration(x)
  PROVE  /\ NextTime(x, u) > u
         /\ \A v \in u .. NextTime(x, u) - 1 :
              AvailableAmount(x, v) = AvailableAmount(x, u)
         /\ AvailableAmount(x, NextTime(x, u))
              = AvailableAmount(x, u) + AmountPerPeriod(x)
<1> DEFINE d == PeriodDuration(x)
           since == SinceStartTime(x, u)
           k == PassedPeriods(x, u)
           next == NextTime(x, u)
           start == x.startTime
<1>1. /\ d \in Nat /\ d > 0 /\ x.periods \in Nat /\ start \in Nat
      /\ since \in Nat /\ AmountPerPeriod(x) \in Nat /\ x.endTime \in Nat
  BY ScheduleTypes DEF Proportioned
<1>2. x.periods * d <= x.endTime - start
  BY ScheduleTypes, DivBounds DEF Proportioned, PeriodDuration, Duration
<1>3. k \in Nat /\ d * k <= since /\ since < d * (k + 1)
  BY <1>1, DivBounds DEF PassedPeriods
<1>4. since = IF u <= start THEN 0 ELSE u - start
  BY DEF SinceStartTime
<1>5. k + 1 <= x.periods
  <2>1. since < x.periods * d
    <3>1. 0 < x.periods * d
      BY <1>1, TimesMonotone, ScheduleTypes DEF Proportioned
    <3> HIDE DEF d, since
    <3> QED
      BY <1>1, <1>4, <3>1 DEF d
  <2> SUFFICES ASSUME x.periods <= k PROVE FALSE
    BY <1>1, <1>3
  <2>2. x.periods * d <= k * d
    BY <1>1, <1>3, TimesMonotone
  <2> HIDE DEF d, since, k
  <2> QED
    BY <1>1, <1>3, <2>1, <2>2
<1>6. next = start + (k + 1) * d
  BY DEF NextTime, CurrentPeriod
<1>7. (k + 1) * d \in Nat /\ (k + 1) * d <= x.periods * d /\ d <= (k + 1) * d
  BY <1>1, <1>3, <1>5, TimesMonotone
<1> HIDE DEF d, since, k, next
<1>8. next \in Nat /\ u < next /\ next <= x.endTime /\ start < next
  BY <1>1, <1>2, <1>3, <1>4, <1>6, <1>7 DEF start
<1>9. AvailableAmount(x, next) = (k + 1) * AmountPerPeriod(x)
  <2>1. SinceStartTime(x, next) = d * (k + 1)
    BY <1>1, <1>3, <1>6, <1>8 DEF SinceStartTime, start
  <2>2. PassedPeriods(x, next) = k + 1
    <3> DEFINE q == (d * (k + 1)) \div d
    <3>1. q \in Nat /\ d * q <= d * (k + 1) /\ d * (k + 1) < d * (q + 1)
      BY <1>1, <1>3, <1>7, DivBounds
    <3>2. k + 1 <= q
      BY <1>1, <1>3, <1>7, FitsUpToQuotient
    <3>3. q <= k + 1
      <4> HIDE DEF q
      <4> SUFFICES ASSUME k + 2 <= q PROVE FALSE
        BY <1>3, <3>1
      <4>1. d * (k + 2) <= d * q
        BY <1>1, <1>3, <3>1, TimesMonotone
      <4> QED
        BY <1>1, <1>3, <3>1, <4>1
    <3> QED
      BY <1>3, <2>1, <3>1, <3>2, <3>3 DEF PassedPeriods, d
  <2> QED
    BY <1>1, <1>8, <2>2 DEF AvailableAmount, start
<1>10. ASSUME NEW v \in Nat, u <= v, v < next
       PROVE  AvailableAmount(x, v) = IF v < start THEN 0 ELSE k * AmountPerPeriod(x)
  <2>1. CASE v < start
    BY <2>1 DEF AvailableAmount, start
  <2>2. CASE ~(v < start)
    <3>1. /\ SinceStartTime(x, v) \in Nat /\ since <= SinceStartTime(x, v)
          /\ SinceStartTime(x, v) < d * (k + 1)
      BY <1>1, <1>3, <1>4, <1>6, <1>7, <1>8, <1>10, <2>2 DEF SinceStartTime, start
    <3>2. d * k <= SinceStartTime(x, v)
      BY <1>1, <1>3, <3>1, TimesMonotone
    <3>3. k <= SinceStartTime(x, v) \div d
      BY <1>1, <1>3, <3>1, <3>2, FitsUpToQuotient
    <3>4. ~(k + 1 <= SinceStartTime(x, v) \div d)
      BY <1>1, <1>3, <3>1, FitsUpToQuotient
    <3>5. SinceStartTime(x, v) \div d \in Nat
      BY <1>1, <3>1, DivBounds
    <3>6. PassedPeriods(x, v) = k
      BY <1>3, <3>3, <3>4, <3>5 DEF PassedPeriods, d
    <3> QED
      BY <1>1, <1>8, <1>10, <2>2, <3>6 DEF AvailableAmount, start
  <2> QED
    BY <2>1, <2>2
<1>11. u < start => k = 0
  <2> SUFFICES ASSUME u < start PROVE k = 0
    OBVIOUS
  <2>1. since = 0
    BY <1>1, <1>4
  <2>2. k >= 1 => d <= d * k
    BY <1>1, <1>3, TimesMonotone
  <2>3. d * k <= 0
    BY <1>3, <2>1
  <2> QED
    BY <1>1, <1>3, <2>2, <2>3
<1>12. ASSUME NEW v \in Nat, u <= v, v < next
       PROVE  AvailableAmount(x, v) = k * AmountPerPeriod(x)
  <2>1. CASE v < start
    <3>1. k = 0
      BY <1>1, <1>11, <1>12, <2>1
    <3> QED
      BY <1>1, <1>10, <1>12, <2>1, <3>1
  <2> QED
    BY <1>10, <1>12, <2>1
<1>13. AvailableAmount(x, u) = k * AmountPerPeriod(x)
  BY <1>8, <1>12
<1>14. \A v \in u .. next - 1 : AvailableAmount(x, v) = AvailableAmount(x, u)
  BY <1>8, <1>12, <1>13
<1> QED
  BY <1>1, <1>3, <1>8, <1>9, <1>13, <1>14 DEF next

-----------------------------------------------------------------------------
(* The schedules are valid and the time is a natural number. *)
ScheduleInv == schedule \in Schedule /\ ValidSchedule(schedule) /\ time \in Nat

LEMMA ScheduleInvariant == ScheduleSpec => []ScheduleInv
<1>1. ScheduleInit => ScheduleInv
  BY BoundsAssumption DEF ScheduleInit, ScheduleInv, Candidates, Schedule
<1>2. ScheduleInv /\ [ScheduleNext]_<<schedule, time>> => ScheduleInv'
  BY BoundsAssumption DEF ScheduleInv, ScheduleNext
<1> QED
  BY <1>1, <1>2, PTL DEF ScheduleSpec

(* contracts:schedule adds up to availableAmount(). *)
THEOREM StepAtEachPeriodEndAlways == ScheduleSpec => []StepAtEachPeriodEnd
<1>1. ScheduleInv => StepAtEachPeriodEnd
  <2> SUFFICES ASSUME ScheduleInv, Proportioned(schedule)
               PROVE  AvailableAmount(schedule, time) =
                        IF time > schedule.endTime THEN schedule.managedAmount
                        ELSE AmountPerPeriod(schedule)
                               * Cardinality({row \in ScheduleRows(schedule) : row.time <= time})
    BY DEF StepAtEachPeriodEnd
  <2>1. CASE time > schedule.endTime
    BY <2>1, ScheduleTypes DEF ScheduleInv, AvailableAmount, ValidSchedule
  <2>2. CASE ~(time > schedule.endTime)
    BY <2>2, ScheduleTypes, RowsDue DEF ScheduleInv
  <2> QED
    BY <2>1, <2>2
<1> QED
  BY <1>1, ScheduleInvariant, PTL

(* The reports against the contract. *)
THEOREM FreeAmountAlways == ScheduleSpec => []FreeAmountNeverAhead
<1>1. ScheduleInv => FreeAmountNeverAhead
  BY FreeAmountBounds DEF ScheduleInv, FreeAmountNeverAhead
<1> QED
  BY <1>1, ScheduleInvariant, PTL

(* The date that contracts:show announces. *)
THEOREM NextTimeAlways == ScheduleSpec => []NextTimeIsNextRelease
<1>1. ScheduleInv => NextTimeIsNextRelease
  BY NextRelease DEF ScheduleInv, NextTimeIsNextRelease
<1> QED
  BY <1>1, ScheduleInvariant, PTL
=============================================================================
