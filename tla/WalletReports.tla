--------------------------- MODULE WalletReports ---------------------------
(***************************************************************************)
(* The reports of ops/info.ts.  Each takes a block, asks the subgraph for  *)
(* the wallets that managers have created, and then asks the chain about   *)
(* every wallet, several at a time.  The chain moves on meanwhile, so that *)
(* the block is passed along: contracts:summary and                        *)
(* contracts:list-pending-lock use the block itself (the latter only for   *)
(* the subgraph: isAccepted() is read as of now), contracts:list the one   *)
(* BLOCK_DRIFT before.                                                     *)
(*                                                                         *)
(* A wallet has tokens released, which the subgraph knows, and tokens used *)
(* in the protocol and a balance, which the chain knows.                   *)
(***************************************************************************)
EXTENDS Integers, FiniteSets, Sequences, Functions

CONSTANTS Wallets,         \* created by managers
          RPCConcurrency,  \* RPC_CONCURRENCY
          BLOCK_DRIFT,     \* blocks between that of the list and that it reads
          Managed,         \* managedAmount of a wallet
          MaxBlocks        \* bound on the blocks of the chain

ASSUME ReportsAssumption ==
  /\ IsFiniteSet(Wallets)
  /\ RPCConcurrency \in Nat \ {0}
  /\ BLOCK_DRIFT \in Nat
  /\ Managed \in Nat
  /\ MaxBlocks \in Nat

VARIABLES
  blocks,  \* the wallets as of each block
  report   \* the report that is being made

vars == <<blocks, report>>

Kinds == {"list", "summary", "pending"}

NoReport == [kind |-> "none"]

Amounts == 0 .. Managed

(* What a wallet is at a block.  It is revocable, so that it counts what it*)
(* uses, but not revoked, and its tokens are its managed tokens: nobody has*)
(* sent it more, and it has made no profit.                                *)
WalletStates ==
  {w \in [released : Amounts, used : Amounts, accepted : BOOLEAN] :
     w.released + w.used <= Managed}

(* currentBalance() *)
Balance(w) == Managed - (w.released + w.used)

Init ==
  /\ \E accepted \in SUBSET Wallets :
       blocks = <<[k \in Wallets |->
                    [released |-> 0, used |-> 0, accepted |-> k \in accepted]]>>
  /\ report = NoReport

Latest == blocks[Len(blocks)]

(* A block in which one wallet has changed. *)
Mined(k, w) ==
  /\ Len(blocks) < MaxBlocks
  /\ blocks' = Append(blocks, [Latest EXCEPT ![k] = w])
  /\ UNCHANGED report

(* acceptLock(), which nothing undoes. *)
Accept(k) == Mined(k, [Latest[k] EXCEPT !.accepted = TRUE])

(* A wallet stakes or unstakes. *)
Use(k, amount) ==
  /\ Latest[k].released + amount <= Managed
  /\ Mined(k, [Latest[k] EXCEPT !.used = amount])

(* release() *)
Release(k, amount) ==
  /\ amount > 0
  /\ amount <= Balance(Latest[k])
  /\ Mined(k, [Latest[k] EXCEPT !.released = @ + amount])

-----------------------------------------------------------------------------
(* getWallets(): no wallets if the subgraph has no answer for the block.   *)
WalletsAnswered == {Wallets, {}}

(* The block that a report reads, of which the header names another.       *)
BlockRead(kind, number) == IF kind = "list" THEN number - BLOCK_DRIFT ELSE number

StartReport(kind) ==
  /\ report = NoReport
  /\ \E number \in 1 .. Len(blocks), answer \in WalletsAnswered :
       LET block  == BlockRead(kind, number)
           wallets == IF block < 1 THEN {} ELSE answer
       IN  report' = [kind |-> kind, at |-> "reading",
                      number |-> number, block |-> block,
                      released |-> [k \in wallets |-> blocks[block][k].released],
                      unaccepted |-> {k \in wallets : ~Latest[k].accepted},  \* history
                      found |-> wallets, todo |-> wallets, reading |-> {}, failed |-> {},
                      info |-> [k \in {} |-> [used |-> 0, balance |-> 0]],
                      count |-> 0, total |-> 0,                 \* TokenSummary
                      pendingLocks |-> {}]
  /\ UNCHANGED blocks

Reading(kind) == report.kind = kind /\ report.at = "reading"

InReport(r) == report' = r /\ UNCHANGED blocks

(* A worker of the queue takes a wallet.  What addWallet() knows from the  *)
(* subgraph is added before its query.                                     *)
BeginQuery(k) ==
  /\ report # NoReport
  /\ report.at = "reading"
  /\ k \in report.todo
  /\ Cardinality(report.reading) < RPCConcurrency
  /\ InReport([report EXCEPT !.todo = @ \ {k}, !.reading = @ \cup {k}, !.count = @ + 1])

Answered(k) == [report EXCEPT !.reading = @ \ {k}]

(* walletInfoEntries with the entry of a wallet of w. *)
WithInfo(k, w) ==
  [x \in DOMAIN report.info \cup {k} |->
     IF x = k THEN [used |-> w.used, balance |-> Balance(w)] ELSE report.info[x]]

(* Mutation: the chain is asked for the block of the header. *)
WalletInfoOfHeader(k) ==
  Reading("list") /\ k \in report.reading
    /\ InReport([Answered(k) EXCEPT !.info = WithInfo(k, blocks[report.number][k])])

(* getExtendedWalletInfo() *)
WalletInfo(k) ==
  /\ Reading("list")
  /\ k \in report.reading
  /\ InReport([Answered(k) EXCEPT !.info = WithInfo(k, blocks[report.block][k])])

(* Mutation: the total is read before the query, and written after it;     *)
(* here by a worker that was alone when it read it.                        *)
AddWalletStale(k) ==
  Reading("summary") /\ k \in report.reading
    /\ \E before \in 0 .. report.total :
         /\ (report.reading = {k} => before = report.total)
         /\ InReport([Answered(k) EXCEPT !.total = before + blocks[report.block][k].used])

(* TokenSummary.addWallet(), after its query. *)
AddWallet(k) ==
  /\ Reading("summary")
  /\ k \in report.reading
  /\ InReport([Answered(k) EXCEPT !.total = @ + blocks[report.block][k].used])

(* contracts:list-pending-lock *)
CheckPending(k) ==
  /\ Reading("pending")
  /\ k \in report.reading
  /\ InReport([Answered(k) EXCEPT
       !.pendingLocks = IF Latest[k].accepted THEN @ ELSE @ \cup {k}])

(* The query fails.  The list of pending locks logs that; the others have  *)
(* an unhandled rejection, which ends some processes (StopReport).         *)
QueryFails(k) ==
  /\ report # NoReport
  /\ k \in report.reading
  /\ InReport([Answered(k) EXCEPT !.failed = @ \cup {k}])

(* Mutation: the list of pending locks does not wait for its queue. *)
FinishPendingEarly ==
  /\ report # NoReport
  /\ report.at = "reading"
  /\ report.kind # "pending" => report.todo = {} /\ report.reading = {} /\ report.failed = {}
  /\ InReport([report EXCEPT !.at = "printed"])

(* queue.onIdle(): the report is printed.  contracts:list ends with an     *)
(* error at the first wallet without information.                          *)
FinishReport ==
  /\ report # NoReport
  /\ report.at = "reading"
  /\ report.todo = {} /\ report.reading = {}
  /\ report.kind = "list" => report.failed = {}
  /\ InReport([report EXCEPT !.at = "printed"])

StopReport == report # NoReport /\ InReport(NoReport)

(* A row of contracts:list: the subgraph's answer, the chain's, and the    *)
(* block at whose time the available tokens are calculated.                *)
Row(k) ==
  [released |-> report.released[k],
   used |-> report.info[k].used, balance |-> report.info[k].balance,
   availableAt |-> report.number]

Next ==
  \/ \E kind \in Kinds : StartReport(kind)
  \/ \E k \in Wallets :
       \/ BeginQuery(k) \/ WalletInfo(k) \/ AddWallet(k) \/ CheckPending(k) \/ QueryFails(k)
       \/ Accept(k)
       \/ \E amount \in Amounts : Use(k, amount) \/ Release(k, amount)
  \/ FinishReport
  \/ StopReport

Spec == Init /\ [][Next]_vars

-----------------------------------------------------------------------------
(* Every variable keeps its type, what a report collects belongs to wallets*)
(* it found, and no more queries are under way than the queue allows.      *)
TypeOK ==
  /\ blocks \in Seq([Wallets -> WalletStates])
  /\ report # NoReport =>
       /\ report.kind \in Kinds
       /\ report.found \subseteq Wallets
       /\ DOMAIN report.info \cup report.failed \cup report.pendingLocks \subseteq report.found
       /\ Cardinality(report.reading) <= RPCConcurrency

Printed(kind) == report # NoReport /\ report.kind = kind /\ report.at = "printed"

(* contracts:list accounts for the tokens of every wallet it has a row for,*)
(* and a whole list has a row for every wallet found: the tokens released, *)
(* which the subgraph told when the list was begun, and the tokens used and*)
(* the balance, which the chain tells later and in any order, are of one   *)
(* block and add up to the tokens managed, while the wallets go on using   *)
(* and releasing tokens.  (The header and the available tokens are of the  *)
(* block BLOCK_DRIFT later, and need not agree.)                           *)
RowsAddUp ==
  report.kind = "list" =>
    /\ \A k \in DOMAIN report.info :
         LET row == Row(k)
         IN  row.released + row.used + row.balance = Managed
    /\ Printed("list") => DOMAIN report.info = report.found

(* The summary adds up: each wallet that answered is in the total, once,   *)
(* with its amount at the block that the header names, although additions  *)
(* are interleaved and the chain moves on.                                 *)
SummaryOfBlock ==
  Printed("summary") =>
    /\ report.count = Cardinality(report.found)
    /\ report.total =
         SumFunction([k \in report.found \ report.failed |-> blocks[report.number][k].used])

(* A wallet that is found, answers and is still unaccepted when the list of*)
(* pending locks is printed is on it, and a wallet that was accepted before*)
(* the list was begun is not: the list never asks for a lock twice.        *)
PendingComplete ==
  Printed("pending") =>
    /\ \A k \in report.found \ report.failed :
         ~Latest[k].accepted => k \in report.pendingLocks
    /\ report.pendingLocks \subseteq report.unaccepted
=============================================================================
