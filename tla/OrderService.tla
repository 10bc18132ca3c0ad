------------------------------ MODULE OrderService -----------------------------
(***************************************************************************)
(* backend/internal/service/order_service.go over one order book, with the *)
(* rows of repository/postgres, the settlement worker of                   *)
(* blockchain/settlement.go and the start-up of cmd/server/main.go.        *)
(*                                                                         *)
(* Every POST and every DELETE runs in a goroutine of its own.  A step is  *)
(* one call to the database, one acquisition of ob.mu, one iteration under *)
(* it (PriceTimeBook), one channel operation or one read of a word of an   *)
(* order that other goroutines may be writing.  The process may crash      *)
(* anywhere; rows and chain survive.  Database calls may fail, with or     *)
(* without effect.                                                         *)
(***************************************************************************)
EXTENDS PriceTimeBook, FiniteSets, SequencesExt

CONSTANTS
  Cancelled,     \* Ids somebody sends a DELETE for.
  NoRow,         \* No row has this id; also: nothing read, no job.
  QueueSize,     \* Capacity of settleCh, 100 in the code.
  MaxFailures,   \* Bound on failing database calls.
  MaxCrashes     \* Bound on crashes.

ASSUME ServiceAssumption ==
  /\ IsFiniteSet(Ids) /\ Cancelled \subseteq Ids
  /\ NoRow \notin Ids \cup Nat \cup Statuses
  /\ NoRow \notin [status : Statuses, filled : Nat] \cup [trade : Nat, tx : Nat]
  /\ QueueSize \in Nat \ {0}
  /\ MaxFailures \in Nat
  /\ MaxCrashes \in Nat

VARIABLES
  rows,       \* Ids -> [status, filled] in table orders, or NoRow.
  persisted,  \* Rows of table trades, as indices into trades.
  settled,    \* Those with settled_on_chain.
  pc,         \* Ids -> where the SubmitOrder of that id is.
  todo,       \* Ids -> its matches still to be processed, as indices into trades.
  read,       \* Ids -> the words it has read for the next UpdateStatus.
  mark,       \* Len(trades) when the current AddOrder began.
  cpc,        \* Cancelled -> where the CancelOrder of that id is.
  cread,      \* Cancelled -> FilledBase of the row it read.
  settleCh,   \* Jobs in the channel.
  job,        \* The job the worker has taken, or NoRow; tx is 0 until it is sent.
  results,    \* Results on their way to their goroutine.
  up,         \* The process runs.
  loading,    \* Rows LoadOpenOrders has still to add, its current one first.
  txs,        \* The settleMatch transactions the node accepted, in nonce order.
  failures, crashes

submits  == <<pc, todo, read, mark>>
cancels  == <<cpc, cread>>
worker   == <<settleCh, job, results>>
startup  == <<up, loading>>
database == <<rows, persisted, settled>>
bounds   == <<failures, crashes>>
vars     == <<bookVars, submits, cancels, worker, startup, database, txs, bounds>>

SubmitPcs == {"idle", "created", "adding", "persist", "buy", "sell", "send", "done"}
CancelPcs == {"idle", "found", "removed", "ok", "failed"}

\* The words of an order UpdateStatus is given: a string is a pointer and a length.
Words     == {"pointer", "length", "filled"}
Unread    == [w \in Words |-> NoRow]

Init ==
  /\ BookInit
  /\ rows = [o \in Ids |-> NoRow]
  /\ persisted = {} /\ settled = {}
  /\ txs = << >>
  /\ pc = [o \in Ids |-> "idle"]
  /\ todo = [o \in Ids |-> << >>]
  /\ read = [o \in Ids |-> Unread]
  /\ mark = 0
  /\ cpc = [o \in Cancelled |-> "idle"]
  /\ cread = [o \in Cancelled |-> 0]
  /\ settleCh = << >> /\ job = NoRow /\ results = {}
  /\ up = TRUE /\ loading = << >>
  /\ failures = 0 /\ crashes = 0

Serving == up /\ loading = << >>
MayFail == failures < MaxFailures /\ failures' = failures + 1 /\ UNCHANGED crashes

--------------------------------------------------------------------------------
(***************************************************************************)
(* SubmitOrder, after the signature has been verified.                     *)
(***************************************************************************)

Row(o) == [status |-> orders[o].status, filled |-> orders[o].filledBase]

\* orderRepo.Create.  A failing INSERT may have been committed all the same.
Create(o) ==
  /\ Serving /\ pc[o] = "idle"
  /\ \/ /\ rows' = [rows EXCEPT ![o] = Row(o)]
        /\ pc' = [pc EXCEPT ![o] = "created"]
        /\ UNCHANGED bounds
     \/ /\ MayFail
        /\ rows' \in {rows, [rows EXCEPT ![o] = Row(o)]}
        /\ pc' = [pc EXCEPT ![o] = "done"]
  /\ UNCHANGED <<bookVars, todo, read, mark, cancels, worker, startup,
                 persisted, settled, txs>>

\* book.AddOrder takes the lock.  A panic ends the request, not the process.
AddOrder(o) ==
  /\ pc[o] = "created"
  /\ \/ Begin(o) /\ pc' = [pc EXCEPT ![o] = "adding"]
     \/ BeginPanics(o) /\ pc' = [pc EXCEPT ![o] = "done"]
  /\ mark' = Len(trades)
  /\ UNCHANGED <<todo, read, cancels, worker, startup, database, txs, bounds>>

\* One iteration under the lock, on behalf of a SubmitOrder or of LoadOpenOrders.
Iterate ==
  /\ \E m \in Ids : Match(m)
  /\ UNCHANGED <<submits, cancels, worker, startup, database, txs, bounds>>

\* Where the loop over matches goes when these are left.
LoopOver(left) == IF left = << >> THEN "done" ELSE "persist"

\* AddOrder returns the matches made since it began.
AddOrderReturns(o) ==
  /\ incoming = o /\ pc[o] = "adding"
  /\ Finish
  /\ LET matches == [i \in 1..(Len(trades) - mark) |-> mark + i]
     IN  /\ todo' = [todo EXCEPT ![o] = matches]
         /\ pc' = [pc EXCEPT ![o] = LoopOver(matches)]
  /\ UNCHANGED <<read, mark, cancels, worker, startup, database, txs, bounds>>

\* tradeRepo.Create: the INSERT into trades.
Inserted(t) == persisted \cup {t}

\* On an error the loop goes on with the next match.
PersistTrade(o) ==
  /\ pc[o] = "persist"
  /\ LET t    == Head(todo[o])
         left == Tail(todo[o])
     IN  \/ /\ persisted' = Inserted(t)
            /\ pc' = [pc EXCEPT ![o] = "buy"]
            /\ UNCHANGED <<todo, bounds>>
         \/ /\ MayFail
            /\ persisted' \in {persisted, Inserted(t)}
            /\ todo' = [todo EXCEPT ![o] = left]
            /\ pc' = [pc EXCEPT ![o] = LoopOver(left)]
  /\ UNCHANGED <<bookVars, read, mark, cancels, worker, startup, rows, settled, txs>>

\* The order whose row is updated next.
Target(o) == LET t == trades[Head(todo[o])] IN IF pc[o] = "buy" THEN t.buy ELSE t.sell

\* Status and FilledBase are read without ob.mu, word by word and in any order, while
\* another AddOrder or CancelOrder may change them.
ReadWord(o, w) ==
  /\ pc[o] \in {"buy", "sell"}
  /\ read[o][w] = NoRow
  /\ read' = [read EXCEPT ![o][w] = IF w = "filled" THEN orders[Target(o)].filledBase
                                    ELSE orders[Target(o)].status]
  /\ UNCHANGED <<bookVars, pc, todo, mark, cancels, worker, startup, database, txs, bounds>>

\* orderRepo.UpdateStatus with what was read; its error is dropped.  A torn status is
\* none of the four the table's CHECK allows.
UpdateStatus(o) ==
  /\ pc[o] \in {"buy", "sell"}
  /\ \A w \in Words : read[o][w] # NoRow
  /\ \/ /\ rows' = IF read[o].pointer = read[o].length
                   THEN [rows EXCEPT ![Target(o)] = [status |-> read[o].pointer,
                                                     filled |-> read[o].filled]]
                   ELSE rows
        /\ UNCHANGED bounds
     \/ MayFail /\ UNCHANGED rows
  /\ read' = [read EXCEPT ![o] = Unread]
  /\ pc' = [pc EXCEPT ![o] = IF @ = "buy" THEN "sell" ELSE "send"]
  /\ UNCHANGED <<bookVars, todo, mark, cancels, worker, startup, persisted, settled, txs>>

\* Mutation of Room: there always is.
AlwaysRoom == TRUE

Room == Len(settleCh) < QueueSize

\* s.settleCh <- job, which blocks while the channel is full.
Send(o) ==
  /\ pc[o] = "send" /\ Room
  /\ settleCh' = Append(settleCh, Head(todo[o]))
  /\ todo' = [todo EXCEPT ![o] = Tail(@)]
  /\ pc' = [pc EXCEPT ![o] = LoopOver(Tail(todo[o]))]
  /\ UNCHANGED <<bookVars, read, mark, cancels, job, results, startup, database, txs, bounds>>

Submit(o) ==
  \/ Create(o) \/ AddOrder(o) \/ AddOrderReturns(o) \/ PersistTrade(o)
  \/ (\E w \in Words : ReadWord(o, w)) \/ UpdateStatus(o) \/ Send(o)

--------------------------------------------------------------------------------
(***************************************************************************)
(* CancelOrder.  A request for an id without a row changes nothing.        *)
(***************************************************************************)

\* orderRepo.GetByID.
GetByID(c) ==
  /\ Serving /\ cpc[c] = "idle"
  /\ rows[c] # NoRow
  /\ cread' = [cread EXCEPT ![c] = rows[c].filled]
  /\ cpc' = [cpc EXCEPT ![c] = "found"]
  /\ UNCHANGED <<bookVars, submits, worker, startup, database, txs, bounds>>

\* book.CancelOrder.  That it did not find the order is ignored.
RemoveFromBook(c) ==
  /\ cpc[c] = "found"
  /\ \/ Cancel(c)
     \/ incoming = NoOrder /\ c \notin resting /\ UNCHANGED bookVars
  /\ cpc' = [cpc EXCEPT ![c] = "removed"]
  /\ UNCHANGED <<submits, cread, worker, startup, database, txs, bounds>>

\* orderRepo.UpdateStatus with the FilledBase read at first; then the answer.
MarkCancelled(c) ==
  /\ cpc[c] = "removed"
  /\ \/ /\ rows' = [rows EXCEPT ![c] = [status |-> "cancelled", filled |-> cread[c]]]
        /\ cpc' = [cpc EXCEPT ![c] = "ok"]
        /\ UNCHANGED bounds
     \/ /\ MayFail
        /\ rows' \in {rows, [rows EXCEPT ![c] = [status |-> "cancelled", filled |-> cread[c]]]}
        /\ cpc' = [cpc EXCEPT ![c] = "failed"]
  /\ UNCHANGED <<bookVars, submits, cread, worker, startup, persisted, settled, txs>>

CancelOrder(c) == GetByID(c) \/ RemoveFromBook(c) \/ MarkCancelled(c)

--------------------------------------------------------------------------------
(***************************************************************************)
(* The settlement worker, the node, and the goroutine that waits for the   *)
(* result of one job.                                                      *)
(***************************************************************************)

\* PendingNonceAt counts the transactions in the pool: a new one goes to the end.
Sent(t) == Append(txs, [trade |-> t, status |-> "pending"])

Take ==
  /\ job = NoRow /\ settleCh # << >>
  /\ job' = [trade |-> Head(settleCh), tx |-> 0]
  /\ settleCh' = Tail(settleCh)
  /\ UNCHANGED <<bookVars, submits, cancels, results, startup, database, txs, bounds>>

\* Mutation of Answered: the worker answers nobody.
Unanswered(err) == results

\* job.Result has room for one result, so answering never blocks.
Answered(err) == results \cup {[trade |-> job.trade, err |-> err]}

Answer(err) == results' = Answered(err) /\ job' = NoRow /\ UNCHANGED settleCh

\* Mutation of GiveUp: the worker keeps the job and tries again.
TryAgain == UNCHANGED worker

GiveUp == Answer(TRUE)

\* Everything up to SendTransaction.  An error may be that of an answer that got lost on
\* its way back from a node that has accepted the transaction.
SendTransaction ==
  /\ job # NoRow /\ job.tx = 0
  /\ \/ /\ txs' = Sent(job.trade)
        /\ job' = [job EXCEPT !.tx = Len(txs')]
        /\ UNCHANGED <<settleCh, results, bounds>>
     \/ MayFail /\ txs' \in {txs, Sent(job.trade)} /\ GiveUp
  /\ UNCHANGED <<bookVars, submits, cancels, startup, database>>

\* The next transaction succeeds or reverts (NexusVault says when).
Mine ==
  \E i \in DOMAIN txs :
    /\ txs[i].status = "pending"
    /\ \A k \in 1..(i - 1) : txs[k].status # "pending"
    /\ \E status \in {"mined", "reverted"} : txs' = [txs EXCEPT ![i].status = status]
    /\ UNCHANGED <<bookVars, submits, cancels, worker, startup, database, bounds>>

\* Mutation of Failed: the status of the receipt is not looked at.
NeverFailed(receipt) == FALSE

Failed(receipt) == receipt.status = "reverted"

\* bind.WaitMined polls until there is a receipt or the process ends.
WaitMined ==
  /\ job # NoRow /\ job.tx # 0
  /\ txs[job.tx].status # "pending"
  /\ Answer(Failed(txs[job.tx]))
  /\ UNCHANGED <<bookVars, submits, cancels, startup, database, txs, bounds>>

\* tradeRepo.MarkSettled.
Marked(t) == settled \cup {t}

\* The goroutine marks a success; that the UPDATE fails is only logged.
HandleResult(r) ==
  /\ r \in results
  /\ results' = results \ {r}
  /\ \/ ~r.err /\ settled' = Marked(r.trade) /\ UNCHANGED bounds
     \/ ~r.err /\ MayFail /\ settled' \in {settled, Marked(r.trade)}
     \/ r.err /\ UNCHANGED <<settled, bounds>>
  /\ UNCHANGED <<bookVars, submits, cancels, settleCh, job, startup, rows, persisted, txs>>

--------------------------------------------------------------------------------
(***************************************************************************)
(* Crash and start-up.                                                     *)
(***************************************************************************)

OpenRows == { o \in Ids : rows[o] # NoRow /\ rows[o].status \in LiveStatuses }

\* orderRepo.GetOpenByPair: ORDER BY created_at ASC.
GetOpenByPair ==
  { s \in SetToSeqs(OpenRows) :
      \A i, j \in DOMAIN s : i < j => orders[s[i]].createdAt <= orders[s[j]].createdAt }

\* Whatever the process held is gone.
Exit ==
  /\ up' = FALSE /\ loading' = << >>
  /\ seen' = {} /\ resting' = {} /\ incoming' = NoOrder
  /\ pc' = [o \in Ids |-> IF pc[o] = "idle" THEN "idle" ELSE "done"]
  /\ todo' = [o \in Ids |-> << >>]
  /\ read' = [o \in Ids |-> Unread]
  /\ mark' = 0
  /\ cpc' = [c \in Cancelled |-> IF cpc[c] \in {"idle", "ok"} THEN cpc[c] ELSE "failed"]
  /\ cread' = [c \in Cancelled |-> 0]
  /\ settleCh' = << >> /\ job' = NoRow /\ results' = {}
  /\ UNCHANGED <<orders, trades, database, txs, failures>>

Crash ==
  /\ up
  /\ crashes < MaxCrashes /\ crashes' = crashes + 1
  /\ Exit

\* Mutation of FilledOf: filled_base is not read.
Nothing(row) == 0

FilledOf(row) == row.filled

\* rowToOrder.  Whoever has no row yet has not been submitted.
FromRow(o) ==
  IF rows[o] = NoRow THEN orders[o]
  ELSE [orders[o] EXCEPT !.status = rows[o].status, !.filledBase = FilledOf(rows[o])]

\* Orders are what their rows say.  If the SELECT fails, main logs a warning and serves an
\* empty book.
Start ==
  /\ ~up /\ up' = TRUE
  /\ orders' = [o \in Ids |-> FromRow(o)]
  /\ \/ loading' \in GetOpenByPair /\ UNCHANGED bounds
     \/ MayFail /\ loading' = << >>
  /\ UNCHANGED <<seen, resting, incoming, trades, submits, cancels, worker, database, txs>>

\* LoadOpenOrders adds its orders one by one, through the matching loop.
Load ==
  /\ loading # << >>
  /\ Begin(Head(loading))
  /\ UNCHANGED <<submits, cancels, worker, startup, database, txs, bounds>>

\* The matches AddOrder returns are dropped.
Loaded ==
  /\ loading # << >> /\ incoming = Head(loading)
  /\ Finish
  /\ loading' = Tail(loading)
  /\ UNCHANGED <<up, submits, cancels, worker, database, txs, bounds>>

\* Price panics in main, which nothing recovers.
LoadPanics ==
  /\ loading # << >> /\ incoming = NoOrder
  /\ PricePanics(orders[Head(loading)])
  /\ Exit
  /\ UNCHANGED crashes

--------------------------------------------------------------------------------
Worker == Take \/ SendTransaction \/ WaitMined \/ (\E r \in results : HandleResult(r))
Boot   == Start \/ Load \/ Loaded \/ LoadPanics

\* Everything but the node's steps.
Backend ==
  \/ \E o \in Ids : Submit(o)
  \/ Iterate
  \/ \E c \in Cancelled : CancelOrder(c)
  \/ Worker
  \/ Boot
  \/ Crash

Next == Backend \/ Mine

\* Goroutines run, the lock is fair, the database answers and the node mines.  Nobody has
\* to send a request and nothing has to fail or crash.  A process that died is started
\* again.
Fairness ==
  /\ \A o \in Ids : WF_vars(pc[o] # "idle" /\ Submit(o))
  /\ WF_vars(Iterate)
  /\ \A c \in Cancelled : WF_vars(cpc[c] # "idle" /\ CancelOrder(c))
  /\ WF_vars(Take \/ SendTransaction \/ WaitMined)
  /\ WF_vars(\E r \in results : HandleResult(r))
  /\ WF_vars(Mine)
  /\ WF_vars(Boot)

Spec == Init /\ [][Next]_vars /\ Fairness

--------------------------------------------------------------------------------
(***************************************************************************)
(* Properties.                                                             *)
(***************************************************************************)

TradeIds == 1..Len(trades)
Mined    == { txs[i].trade : i \in { k \in DOMAIN txs : txs[k].status = "mined" } }

\* Types; the channel holds no more than its capacity.
ServiceTypeOK ==
  /\ BookTypeOK
  /\ rows \in [Ids -> [status : Statuses, filled : Nat] \cup {NoRow}]
  /\ persisted \cup settled \subseteq TradeIds
  /\ pc \in [Ids -> SubmitPcs]
  /\ todo \in [Ids -> Seq(TradeIds)]
  /\ read \in [Ids -> [pointer : Statuses \cup {NoRow}, length : Statuses \cup {NoRow},
                       filled : Nat \cup {NoRow}]]
  /\ mark \in 0..Len(trades)
  /\ cpc \in [Cancelled -> CancelPcs] /\ cread \in [Cancelled -> Nat]
  /\ settleCh \in Seq(TradeIds) /\ Len(settleCh) <= QueueSize
  /\ job \in [trade : TradeIds, tx : 0..Len(txs)] \cup {NoRow}
  /\ results \subseteq [trade : TradeIds, err : BOOLEAN]
  /\ up \in BOOLEAN /\ loading \in Seq(Ids)
  /\ txs \in Seq([trade : TradeIds, status : {"pending", "mined", "reverted"}])
  /\ failures \in 0..MaxFailures /\ crashes \in 0..MaxCrashes

\* The database never runs ahead of the book.  Whatever the order in which concurrent
\* handlers read an order and write its row, and through crashes and reloads, a row
\* claims no fill the order in memory does not have, and a row says "filled" only if
\* nothing remains.  (order_service.go:138-140,181,205-214)
RowsLagMemory ==
  \A o \in seen :
    /\ rows[o] # NoRow
    /\ rows[o].filled <= orders[o].filledBase
    /\ rows[o].status = "filled" => RemainingBase(orders[o]) = 0

\* A trade is sent to the chain at most once, and only after its own row exists: retries,
\* lost answers, crashes and the order of queueing never settle one match twice.
\* (order_service.go:133-148, settlement.go:56-62,104-119)
SettlesOnce ==
  /\ \A i, j \in DOMAIN txs : txs[i].trade = txs[j].trade => i = j
  /\ \A t \in ToSet(settleCh) \cup { txs[i].trade : i \in DOMAIN txs } : t \in persisted
  /\ \A i \in DOMAIN txs : txs[i].trade \notin ToSet(settleCh)

\* A trade marked settled_on_chain is settled on chain.
\* (order_service.go:150-161, settlement.go:104-121)
SettledAreMined == settled \subseteq Mined

\* No goroutine waits for ever: every POST past its INSERT returns, although AddOrder
\* waits for ob.mu and the send for room in settleCh, which the worker only makes after
\* the node has mined.  (order_service.go:118,144, settlement.go:51-64)
SubmitReturns == \A o \in Ids : pc[o] # "idle" ~> pc[o] = "done"

\* Every DELETE returns.  (order_service.go:170-187)
CancelReturns == \A c \in Cancelled : cpc[c] # "idle" ~> cpc[c] \in {"ok", "failed"}

Reverted == { txs[i].trade : i \in { k \in DOMAIN txs : txs[k].status = "reverted" } }

\* Every match that has a row gets its verdict: unless a call fails or the process dies,
\* time and again all of them are marked settled or refused by the contract.
\* (order_service.go:133-161, settlement.go:50-122)
EveryTradeResolved ==
  []<>(persisted \subseteq settled \cup Reverted \/ failures + crashes > 0)

\* A started process gets to serve.  (order_service.go:205-217, main.go:105-108)
StartUpCompletes == ~Serving ~> Serving

\* A DELETE answered with "status": "cancelled" leaves no order on the book.
\* (order_handler.go:48-55, order_service.go:170-187)
CancelSticks ==
  \A c \in Cancelled : cpc[c] = "ok" => c \notin resting \cup {incoming}

Quiescent ==
  /\ Serving /\ incoming = NoOrder
  /\ \A o \in Ids : pc[o] \in {"idle", "done"}
  /\ \A c \in Cancelled : cpc[c] \in {"idle", "ok", "failed"}

\* "Update order statuses in DB": once every request has returned, and no call failed
\* and nothing crashed, a row says what the order in memory says.
\* (order_service.go:138-140)
RowsAgree ==
  Quiescent /\ failures = 0 /\ crashes = 0 => \A o \in seen : rows[o] = Row(o)

\* "LoadOpenOrders rebuilds the in-memory orderbook from the database": when it is done,
\* the book holds the open rows, as they are.  (order_service.go:205-217)
LoadRebuilds ==
  [][up /\ loading # << >> /\ up' /\ loading' = << >> =>
       /\ resting' = OpenRows
       /\ \A o \in resting' : rows[o].filled = orders'[o].filledBase]_vars
================================================================================
