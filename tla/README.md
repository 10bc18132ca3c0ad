# Nexus Orderbook DEX: specifications

Signed orders are matched off chain by a Go server and settled on chain by a
Solidity contract; browsers watch the book over WebSockets. This directory models
all of that in TLA+, checks it with TLC and proves what matters most with TLAPS.
Source paths are relative to `src/`; `PROJECT.json` maps every definition to the
lines it stands for.

## 1. The system

| Component | State | Operations | Talks to |
|---|---|---|---|
| Order arithmetic `backend/internal/domain/order.go` | none | `Price` (float64), `RemainingBase` | engine, heaps |
| Heaps `orderbook/heap.go` | slices of entries, each with its `Index` | `Less`, `Swap`, `Push`, `Pop` under `container/heap` | engine |
| Engine `orderbook/engine.go` | two heaps, `orderMap`, the orders by pointer, `ob.mu` | `AddOrder`, `CancelOrder`, `GetSnapshot` | service, which keeps the pointers |
| Order service `service/order_service.go` | map of books, `settleCh` | `SubmitOrder`, `CancelOrder`, `GetOrderbook`, `LoadOpenOrders`, `updateCache` | Postgres, engine, worker, Redis |
| Postgres rows `repository/postgres`, `migrations` | `orders(status, filled_base, ...)`, `trades(settled_on_chain, ...)` | INSERT, SELECT, UPDATE, each a transaction of its own | service |
| Settlement worker `blockchain/settlement.go` | the job in hand | take, send, wait for the receipt, answer | node, service |
| Contract `contracts/src/NexusOrderBook.sol` with `OrderValidator.sol`, `OrderTypes.sol` | `balances`, `orderFills`, `orderCancelled`, `minNonce` | `deposit`, `withdraw`, `settleMatch`, `cancelOrder`, `incrementMinNonce` | ERC-20 tokens |
| Redis cache and feed `repository/redis`, `handler/ws_handler.go`, `useWebSocket.ts` | two snapshot keys, a channel, sockets, the hook's timer | `SetSnapshot`, `PublishUpdate`, `Subscribe`, connect, reconnect | service, browsers |
| Indexer `blockchain/indexer.go` | last block, delay | poll, decode, call the handler | node |
| EIP-712 `pkg/eip712` | none | hash, recover, verify | service, contract |
| Start-up `cmd/server/main.go` | none | connect, start worker and indexer, `LoadOpenOrders`, serve | all |
| Handlers, configuration, trade record, rest of the frontend, scripts | none that matters here | | |

What is hard:

* every request is a goroutine; `ob.mu` guards the book, but the service reads
  the orders' `Status` and `FilledBase` after the lock is released, through the
  pointers in the match results, while other requests change them; the map of
  books is not guarded at all;
* the database, the book in memory, Redis and the chain are updated one after
  another, with nothing that ties them together: a crash, a failing call or
  another request may come between any two steps;
* after a crash the book is rebuilt from whatever the rows say, and Redis keeps
  what the dead process left;
* the service decides prices in float64, the contract in integers rounded down;
* what the contract checks (expiry, cancellations, credit, the pair a signature
  stands for) is not what the engine sees;
* the heaps' `Index` fields must survive every swap for a cancellation to remove
  the right order;
* in the contract both sides of a settlement may be the same user, or the same
  order, so the four balance updates alias.

What makes each part correct: the book is never crossed and holds exactly what
can still trade; heaps are heaps and `Index` is right; rows never claim more than
memory; nothing is settled twice; every request returns; a screen is behind only
for a reason; every event reaches the indexer's handler once; the contract owes
exactly what it holds, on neither side an order exchanges more than it signed for
or at a worse price, and a dead order stays dead.

## 2. Modules

```
OrderMath              prices, remaining amounts, rounding
  |- PriceTimeBook            the book as a set of resting orders  -- PriceTimeBook_proofs
  |    '- OrderService        requests, rows, worker, node, crash  -- OrderService_proofs
  |         '- Exchange       with the contract behind the node    -- Exchange_proofs
  |              '- NexusVault  the contract                       -- NexusVault_proofs
  '- EntryHeap                container/heap over the two heaps
       '- MatchingEngine      the engine with heaps;               -- MatchingEngine_proofs
                              implements PriceTimeBook
BookFeed               updates from the book to the screens        -- BookFeed_proofs
Indexer                the polling loop                            -- Indexer_proofs
Sums_proofs            sums over finite sets, for the proofs of the engine and the exchange
MC...                  small instances
```

**OrderMath.** Amounts are naturals, as `big.Int` does not overflow (the code
would also accept negative ones; they are not modelled). A price is a point of a
grid of `PriceScale` per unit, which stands for the spacing of float64 in one
binade. `big.Float.Quo` followed by `Float64` rounds twice; the model rounds once,
half to even. 0/0 panics in the code and is the guard `PricePanics`; an order with
no base has an infinite price and is never compared, as it has nothing left to
fill.

**PriceTimeBook** is what the engine promises. `incoming` is the order of the
`AddOrder` in progress and thereby the lock. `Begin` takes it, each `Match` is one
iteration of `matchBuy` or `matchSell` with any best-placed maker, and `Finish`
rests the remainder and unlocks. Iterations are steps of their own because the
service reads the orders between them. `Cancel` is `CancelOrder` of a resting
order. `trades` records the `MatchResult`s in order.

**EntryHeap** and **MatchingEngine** are the code's version: slices, `Index`,
`orderMap`, the loops of `up` and `down` (a turn, and as many turns as it takes), and
the aggregated, insertion-sorted snapshot. With
`resting` read off the two slices, the engine implements PriceTimeBook
(`Book == INSTANCE PriceTimeBook WITH resting <- Entries`, property
`BookImplemented`).

**OrderService** puts requests around PriceTimeBook. `pc[o]` is the position of
the `SubmitOrder` of `o` and `cpc[c]` that of the `CancelOrder` of `c`:

| Action | Code |
|---|---|
| `Create` | the INSERT, `order_service.go:56-114` |
| `AddOrder`, `Iterate`, `AddOrderReturns` | `book.AddOrder`, 117-118 |
| `PersistTrade` | INSERT of the trade and `continue` on failure, 121-136 |
| `ReadWord` | reading `Status` (a pointer and a length) and `FilledBase` unlocked, 139-140 |
| `UpdateStatus` | the UPDATE; a torn status fails the table's CHECK and changes nothing |
| `Send` | `s.settleCh <- job`, 144 |
| `GetByID`, `RemoveFromBook`, `MarkCancelled` | `CancelOrder`, 170-187 |
| `Take`, `SendTransaction`, `WaitMined` | the worker, `settlement.go:50-122` |
| `Mine` | the node: transactions in nonce order, each succeeds or reverts |
| `HandleResult` | the goroutine with `MarkSettled`, 150-161 |
| `Crash`, `Start`, `Load`, `Loaded`, `LoadPanics` | the process ends; `main.go:105-108`; `LoadOpenOrders`, 205-217 |

A statement or call that fails may have taken effect all the same (its answer got
lost). `WaitMined` has no error branch because it ends only with a receipt or with
its context, which ends with the process. What `Mine` has decided is final, as it
is to the worker, which waits for one receipt.

**NexusVault** has one action per external function; a `require`, a checked
overflow or a division by zero is a guard, since a reverted transaction changes
nothing. An order stands for its hash, and `signed` for the signatures that
recover to their maker. Tokens are plain ERC-20s: no fees, no hooks. The owner is
a constant. `ledger` is a history variable for the properties about whole lives of
orders.

**Exchange** is OrderService with NexusVault in place of the open outcome of
`Mine`. `Message` is what `tuplifyOrder` sends: the eight signed fields, built
from the row; side, pair and row id are not among them, so two rows may carry one
message and a row may say "buy" beside tokens that sell. `BackendStep` adds the
signature check to the submission, `Settle` lets the contract accept or refuse the
next transaction, and `Move` is what else happens on chain: a withdrawal, a
cancellation, a nonce bump, time. Hashing and recovery are what they are for: equal
hashes are equal fields, and a signature verifies for exactly the fields signed.

**BookFeed** follows a change of the book to a screen. The contents of a book are
a stamp, renewed by every change; a snapshot is two stamps, since bids and asks
are two keys.

| Action | Code |
|---|---|
| `Lookup`, `StoreBook` | `GetOrCreateOrderBook`, reading and writing a bare map, `order_service.go:47-54` |
| `ChangeBook`, `GiveUp` | `AddOrder` or `CancelOrder`; the early return of 181-184 |
| `ReadBook` | `GetOrderbook`, 189-192: it looks the book up, may create it, and publishes nothing |
| `TakeSnapshot`, `Set`, `Publish` | `updateCache`, 219-241; a request whose client hung up fails from then on |
| `ReadBids`, `ReadAsks`, `ReadFails`, `Subscribe` | `ws_handler.go:37-53`: read the cache first, then subscribe |
| `Mount`, `Unmount`, `Open`, `Closed`, `Drop`, `Reconnect`, `Show` | `useWebSocket.ts:17-62` |
| `Crash`, `Start` | the end of the process; `LoadOpenOrders` makes a book and does not touch Redis |

**Indexer** is the loop of `indexer.go` with its doubling delay, over a chain that
grows, loses its last block to a reorganisation, fails to answer, and a process
that restarts from the first block.

Operators whose comment begins "Mutation of" are deliberately wrong versions of
the definition that follows. Nothing uses them; substituting one makes the property
that `PROJECT.json` names with it fail, which shows that the property depends on
that piece of code.

## 3. Runs

`tlc -config <cfg> <module>`. Requests, orders, faults and blocks are finite in
every instance, so runs end in states without successor and deadlock is not
checked; that nothing blocks is checked as liveness.

| Run | Instance | Shows |
|---|---|---|
| `engine` | every choice of 4 mixed orders (both sides, ties, partial fills, zero amounts), or 7 orders of which 6 are on one side | refinement of the book, heap order, `Index`, price-time priority, snapshots, trades beyond a limit only by rounding, `AddOrder` returns |
| `vault` | 2 users, 2 tokens, 4 orders (a crossing pair, a third that settles against its own maker's bid, one that settles with itself) | solvency, fills on each side, limits, death, authorisation |
| `service` | a bid for 2 and two more orders or an order that panics, one DELETE, one failing call, one crash, a channel of 1 | rows lag memory, one settlement per trade, no false `settled`, a reloaded book is uncrossed |
| `service_liveness` | the same without the crash | requests return, trades get their verdict, nothing is overfilled and terminal orders stay as they are |
| `exchange` | a bid and an offer, and a third row: the offer submitted again, another offer, or one whose side contradicts its tokens; prices rounded to whole numbers; one of the rows may be unsigned; one move on chain, one failure, one crash | the contract moves exactly what the trades say; it refuses only what the engine cannot see; limits that meet as fractions settle |
| `feed` | 2 requests, each a POST, DELETE or GET, a browser, one fault of any kind | a stale screen or cache has one of the listed causes; the loaded book is never replaced; pages get their feed back |
| `indexer` | 3 blocks, 5 failures, restarts or reorganisations | each event once and in order; every block is read |

The states: 457 thousand (`engine`), 774 thousand (`vault`), 922 thousand (`service`), 363
thousand (`service_liveness`), 2.6 million (`exchange`), 547 thousand (`feed`),
170 thousand (`indexer`).

Why the bounds suffice. A fault of the matching loop needs one taker and at most
two makers on a side, at different prices or times. `up` in `heap.Remove` matters
only from six entries on, hence the deep half of `engine`. The lost updates, torn
reads and races of the service are between two requests on one order; the bid for
2 gives each of two takers a match with it. A channel of one is full when the
second match is sent while the first waits for the worker. One failure and one
crash reach every pair of "took effect or not" and "who still knows". The vault's
amounts cover partial fills whose quotients round; its `MaxUint` = 12 lets products
overflow. Two requests are what overlapping updates need, and a third party is
not: an update is alone or it is not. Five failures in a row take the indexer's
delay over 2, 4, 8 and 16 to its limit of 30.

`PriceScale` is chosen so that limits do get lost in rounding, as in float64 limits
that agree in 53 bits do: 2 in `engine`, where a bid at 4/3 and an offer at 3/2 have
one price, 1 in `exchange` and `float_price`, where a bid at 3/2 and an offer at 2
have. The service's other instances have only prices of 1 and of 0/0.

`StaleOnlyByRace` is stated from the code, not from a promise: `tainted` holds
whoever may show an old book, and only four things put somebody there: two
`updateCache`s that overlap (the older snapshot may be written last), an update
published between a handler's read of the cache and its subscription, a failing
call (also the early return of a cancellation), and a restart. An update none of
this happens to puts everybody right again. `RevertsExplained` names, likewise,
all reasons for which the contract may refuse a match of a process that has not
crashed (`Unforeseeable`): an order expired, cancelled or outdated on chain, credit
withdrawn or spent, two rows with one signature, a side that contradicts the
tokens, a product of fill and amount beyond uint256, which the engine's big
integers have room for (`MaxUint` = 5 in this instance: a fill of 2 of a bid of 3
exceeds it), or two limits that do not meet and round to one price. Everything else
is excluded: fills, and prices of limits that meet as fractions, however their quotes
round.

`NoOverfill` bounds each side of an order by itself. The contract's `orderFills` is one
counter for both sides and adds up units of two tokens, so an order used as seller and
as buyer in turn may give up more of its `tokenSell` in all than it signed for; such
orders are in the `vault` run, and nothing in the repository says that they must not be.

Runs that find a violation, each a place where the code does not do what
a comment or an answer of it says:

| Run | Property | What happens |
|---|---|---|
| `cancel_race` | `CancelSticks` | a DELETE between INSERT and `AddOrder` is answered `"status": "cancelled"` and the order trades |
| `lost_update` | `RowsAgree` | two handlers write one row in the wrong order; no failure is involved |
| `reload` | `LoadRebuilds` | `LoadOpenOrders` matches the rows it loads and drops the matches |
| `zero_order` | `StartUpCompletes` | a stored 0-for-0 order makes every start panic |
| `float_price` | `TradesSettleable` | "buy price >= sell price" is decided on rounded prices: an offer above the bid is matched, both orders are filled, and the contract refuses the match |

A comment that is plainly wrong needs no run: `engine.go:148` says that a selling taker's
quote amount is "at the buy price (maker price)", and lines 149-151 take the taker's own
limit, which `SellerReceives` models.

### Fairness

`MatchingEngine`: the goroutine inside `AddOrder` keeps running; nothing in it
blocks. `OrderService`: weak fairness for each request that has begun, for the
holder of the lock, the worker, the result goroutines, the node and the start-up.
The Go scheduler and `sync.RWMutex` justify the first four; that the database
answers, that the node mines and that somebody restarts a dead process are
assumptions about the environment. Weak fairness is enough for a lock and a channel
that others compete for, as each of the finitely many requests takes them finitely
often. `BookFeed`: timers fire, sockets that are connecting open or are refused,
handlers run on, and somebody restarts the server. `Indexer`: the loop goes on;
whether a call fails is the node's choice, finitely often. Nobody has to send a
request, mount a page or produce a block, and nothing has to fail.

## 4. Proofs

`tlapm <module>` for the eight modules below. Constants are arbitrary within the
named assumptions; every proof is of the specification that TLC runs.

**The book** (`PriceTimeBook_proofs`), from `BookAssumption` (callers hand over live
orders within their amounts) and `PriceScaleAssumption`: types, `FillsWithinAmount`,
`RestingExactlyLive`, `BookUncrossed` and `TerminalOrdersFrozen`, for any orders and
any price precision. `BookCore` is the part that needs nothing of orders not yet
added, which after a crash are whatever the rows say; `BookInv` adds that those
are as their callers made them. `BookCore` has besides the properties that the incoming
order is neither resting nor cancelled: `Match` changes two orders, which must be
different ones, and `Finish` may rest only live ones. The book
stays uncrossed while matches are under way because a match changes no price and adds
nothing to the book, and `Finish` adds an order no maker is compatible with.

**The engine** (`MatchingEngine_proofs`), from the same assumptions: the heaps, their
positions and the map implement the book step by step (`EngineImplementsBook`), and with
that `EngineTypeOK`, `HeapsOrdered`, `IndexAgrees`, `PriceTimePriority` and
`SnapshotFaithful`, for any orders and heaps of any size. The argument goes in layers.

* *Loops.* `Repeat` is a recursive function, and the loops of the heap, of the sort and of
  the aggregation are turns of it. What a loop keeps and reaches is proved by induction
  over its turns (`LoopEnds`, `LoopCounts`); that induction is derived from the
  well-foundedness of `<` for sets of naturals, since the library's induction theorems
  quantify over predicates.
* *Heaps.* While `up` or `down` runs, the heap is ordered except around one position:
  `up`'s entry may be ahead of its parent, `down`'s behind its children, and in either
  case the grandchildren fit under the grandparent. A turn moves that position one level,
  and it cannot move for ever. `HeapRemove` is the delicate one: the entry from the end
  is sifted down and, only if it did not move, up. From this come what `HeapPush`,
  `HeapPop` and `HeapRemove` add or take away, with the `Index` of every entry, and that
  the top of an ordered heap is ahead of all others.
* *Engine.* `EngineInv` is the book's own invariant read through `resting <- Entries`,
  and `Structure`: each slice is an ordered heap of one side with right positions,
  `orderMap` is the entries, and whoever is not in a heap has `Index` 0. The book's
  invariant is needed because a fill changes orders inside the heaps; it says they keep
  their ranks and that no order whose price would panic is ever compared. A matched
  maker is the top of its heap, hence a best-placed order, which is what `Match` asks
  for, and so the step is one of the book.
* *Snapshot.* `SnapshotFaithful` needs no more of the state than `EngineInv`; the work is
  in the loops. While a price sinks it is the only one that may be worse than a price to
  its right (`SinkStates`), so each outer turn extends the sorted part. `PricesOf` keeps
  each price once, so the levels divide the slice into parts and add up to it
  (`SumByParts`); as every entry is at its `Index`, the slice in turn is the live orders of
  its side, renamed (`SumRenamed`). Best bid below best ask is the book's `BookUncrossed`.

**Prices** (`PriceTimeBook_proofs`), from the same two assumptions and for every
precision of the price type. `LimitsRespected` (`TradesNearLimits`): an offer that a bid
does not reach is matched with it only if both limits round to one price, and then they
are at most one grid point apart. `MatchesSettle` (`MeetingLimitsSettle`): a match of
limits that meet as fractions asks of the buyer at most what it agreed to pay, after
both sides have rounded, for any amounts and fills. The first rests on the error of
rounding half to even (`RoundingError`) and on the invariant that every trade was
compatible on the grid (`AllPriced`); `EngineNearLimits` carries it over to the heaps.
Without "limits that meet" the second is false, as `float_price` shows.

**The contract** (`NexusVault_proofs`), from `VaultAssumption` (orders and amounts
are uint256 values): types, `Solvency`, `NoOverfill`, `LimitPrice`,
`DeadOrdersFrozen` and `DebitAuthorised`, for any users, tokens, orders and word
size. `VaultInv` adds that an order's recorded fills are what its ledger bought and
sold together (from which `NoOverfill` follows, side by side) and that claims are finite sets.
Solvency is stated by counting: the claims of a token, one per unit of credit, are as
many as the contract holds. Its proof shows that a credit adds and a debit removes
that many claims, and runs the four assignments of `_executeTransfers` in order, so
aliasing of users or tokens needs no case of its own.

**The service** (`OrderService_proofs`), for any orders, queue size and any number of
failures and crashes. Two invariants:

* `RowsInv` proves `ServiceTypeOK`, `RowsLagMemory` and that the served book keeps
  `BookCore` through all reloads. `RowsLagMemory` speaks of orders on the book; a
  restart turns rows into orders, so `Lag` says the same of every row, and `Reading`
  and `Cancelling` say it of the words a request has read and not yet written.
  `Waiting` says that the row of an order waiting to be added or loaded does not say
  "filled", so what is loaded is live. The subtle case is a row that says "filled" with
  an amount read earlier (status and amount are separate reads): it lags in its
  amount, and it is never loaded.
* `SettleInv` proves `SettlesOnce` and `SettledAreMined`. A match goes from a request
  (`todo`) over the channel to the worker and to the node; `OnePlace` says it is in
  at most one of them, `NotPlacedYet` that the matches of an `AddOrder` in progress,
  those above `mark`, are in none, and `PersistedFirst` and `Verdicts` carry the row
  and the receipt along. A crash empties all places but the node's.

**The feed** (`BookFeed_proofs`), for any number of requests, browsers and faults:
types, `StaleOnlyByRace`, `LoadedBookStays`. `FeedInv` has, besides shapes,
`Registered` (with the loaded book in the map every request works on it), `Alone`
(an update that did not overlap is the only one running; the snapshot it holds is
the book's unless a request that has changed the book since has yet to take its
own; what it has SET is in the cache), `Right` (when no change is waiting for its
update, whoever is not tainted shows the book, counting what is on the wire), and
`Together` (a browser between its two GETs that is not tainted has a cache that is
not).

**The exchange** (`Exchange_proofs`), from `ExchangeAssumption` (messages are orders
of the contract, all there is of a token is a uint256): `ExchangeInv` is `RowsInv`, `SettleInv`,
`VaultInv` and that every order's message stays among `Messages`. A backend step leaves
the chain alone; `Settle` is a step of the node for the backend and a `settleMatch`
for the contract; `Move` is the contract's alone. So `ContractImplemented`: the
exchange refines NexusVault, and both parts' invariants hold of the whole
(`ExchangeSolvent`, `ExchangeBackend`, and `ExchangePrices`: both results about prices, also
for a reloaded book).

`ChainAsRecorded` is `SettledAsRecorded`, for any number of trades: `RecordedInv` adds to
`ExchangeInv` that every match was priced as the contract prices it (`AllPriced`) and that each order's ledger is the sum over its
mined matches. The step is the settlement of a match that was not mined before
(`OnePlace`): it adds fill and quote to the ledgers and to the sums of two messages,
possibly the same. The community modules' sums pick their members one by one; their laws
are in `Sums_proofs` and come from showing that counting units adds up as they do
(`CountAddsUp`) and that nothing else does (`AddsUpOnce`, by a least subset).

`RevertsForeseen` is `RevertsExplained`, the one result that needs the engine, the service
and the contract at once. `ForeseenInv` adds to `RecordedInv`

* `NeverDied`: without a crash every traded order is on the book, and is filled there by at
  least the sum of its matches (`Remembered`). What the contract has filled of a message
  that only one row carries is a sum over some mined matches of that row (`OwnFills`), so
  one that is not mined yet still fits (`RoomLeft`). After a crash rows lag behind, and the
  book may match again what is already on its way: the property does not speak of that;
* `OnlySigned`: what has been submitted was signed, and its message stays what it was;
* `Scarce`: nobody brings in more of a token than there is, so that a payment always fits
  into the credit it goes to (`TransferFits`, of the contract, by counting claims).

`Foreseen` then goes through the contract's checks one by one; the price check is
`TradesNearLimits`, which leaves limits that meet, and `MeetingLimitsSettle`.

**The indexer** (`Indexer_proofs`): types and `EachEventOnce`, for chains of any length
and any number of failures and restarts. A block that is replaced after it was read is
never read again; `EachEventOnce` leaves such blocks out, and nothing is proved of them.
`IndexerInv` adds only that outside the loop over the logs none is pending.

Only model-checked is everything temporal beyond invariants and action properties
(`AddOrderReturns`, `SubmitReturns`, `CancelReturns`, `EveryTradeResolved`, `Reconnects`,
`EveryBlockRead`), as liveness is out of the prover's reach. Every safety property of the
passing runs is a theorem.

## 5. Not modelled

* The configuration without a contract address (`main.go:82-91`), where every job is
  answered with a made-up hash: `settled_on_chain` means nothing there.
* The byte layout of EIP-712 hashes, keccak and curve arithmetic: pure functions
  far beyond a model checker. `RecoverSigner` has no caller.
* Negative amounts, which the parser lets through; `Price` and `RemainingBase` are
  modelled for naturals.
* Several pairs at once: books of different pairs share nothing but the map, the
  channel and the worker.
* Two handlers writing the map of books at the same instant, for which the Go
  runtime may stop the process: in the model that is a `Crash`.
* A reorganisation that takes a settlement back after its receipt: the worker waits for
  one receipt (`settlement.go:111-122`) and `Mine` is final. Only the indexer's chain
  loses blocks.
* ERC-20 tokens sent to the contract by a plain transfer: it holds them and owes them to
  nobody, so `Solvency` would be an inequality.
* Listing queries and `GetUnsettled` (no caller), HTTP decoding, configuration,
  rendering, deployment scripts and mocks: they keep no state of the system.
* A connection of `useWebSocket.ts` that is opened twice: the hook's effect runs once
  per mount, and a page that is unmounted does not mount again while its old timer is
  pending.

## 6. What could follow

Two pairs over one channel would show whether a slow settlement of one holds up the
requests of the other.
