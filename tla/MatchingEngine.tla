----------------------------- MODULE MatchingEngine ----------------------------
(***************************************************************************)
(* backend/internal/orderbook/engine.go: one OrderBook, with its two heaps *)
(* and its orderMap.                                                       *)
(*                                                                         *)
(* ob.mu serialises AddOrder, CancelOrder and GetSnapshot.  AddOrder is    *)
(* cut at each iteration of its matching loop because service code reads   *)
(* the orders it changes without the lock; `incoming' is the order being   *)
(* added, and ob.mu is free exactly when there is none.  CancelOrder       *)
(* changes one order once and is a single step.                            *)
(***************************************************************************)
EXTENDS EntryHeap, SequencesExt

CONSTANTS Ids, Inputs, NoOrder    \* As in PriceTimeBook.

\* What PriceTimeBook assumes of them.
ASSUME EngineAssumption ==
  /\ NoOrder \notin Ids
  /\ Inputs \in [Ids -> SUBSET Order]
  /\ \A id \in Ids : \A o \in Inputs[id] :
       o.status \in LiveStatuses /\ o.filledBase <= Base(o)

VARIABLES
  orders,    \* Ids -> domain.Order, shared by pointer with callers.
  seen,      \* Ids whose AddOrder has begun.
  incoming,  \* The order of the AddOrder holding ob.mu, or NoOrder.
  trades,    \* Every MatchResult so far, oldest first.
  buys,      \* The slice behind ob.buys.
  sells,     \* The slice behind ob.sells.
  orderMap,  \* The keys of ob.orderMap.
  index      \* Ids -> Index of the id's entry.

vars == <<orders, seen, incoming, trades, buys, sells, orderMap, index>>

Init ==
  /\ orders \in { f \in [Ids -> UNION { Inputs[id] : id \in Ids }] :
                    \A id \in Ids : f[id] \in Inputs[id] }
  /\ seen = {}
  /\ incoming = NoOrder
  /\ trades = << >>
  /\ buys = << >>
  /\ sells = << >>
  /\ orderMap = {}
  /\ index = [id \in Ids |-> 0]

--------------------------------------------------------------------------------
Heap(arr) == [arr |-> arr, index |-> index]

Begin(o) ==
  /\ incoming = NoOrder
  /\ o \notin seen
  /\ ~PricePanics(orders[o])
  /\ seen' = seen \cup {o}
  /\ incoming' = o
  /\ UNCHANGED <<orders, trades, buys, sells, orderMap, index>>

\* Price() of 0/0 panics before the loop; only the deferred Unlock runs.
BeginPanics(o) ==
  /\ incoming = NoOrder
  /\ o \notin seen
  /\ PricePanics(orders[o])
  /\ seen' = seen \cup {o}
  /\ UNCHANGED <<orders, incoming, trades, buys, sells, orderMap, index>>

Result(b, s, m, n) ==
  [ buy |-> b, sell |-> s, fill |-> n, maker |-> m,
    quote |-> SellerReceives(orders[s], n), price |-> Price(orders[m]) ]

\* What incoming can trade with the best opposite order m; 0 ends the loop.
Fillable(m) == MinBigInt(RemainingBase(orders[incoming]), RemainingBase(orders[m]))

\* Mutation of BuyLoops: a bid equal to the ask ends the loop.
BuyLoopsStrictly ==
  /\ Len(sells) > 0
  /\ RemainingBase(orders[incoming]) > 0
  /\ Price(orders[incoming]) > Price(orders[sells[1]])
  /\ Fillable(sells[1]) > 0

\* Mutation of SellLoops: prices are not compared.
SellLoopsAtAnyPrice ==
  /\ Len(buys) > 0
  /\ RemainingBase(orders[incoming]) > 0
  /\ Fillable(buys[1]) > 0

\* The conditions under which matchBuy's and matchSell's loops go round.
BuyLoops ==
  /\ Len(sells) > 0
  /\ RemainingBase(orders[incoming]) > 0
  /\ Price(orders[incoming]) >= Price(orders[sells[1]])
  /\ Fillable(sells[1]) > 0

SellLoops ==
  /\ Len(buys) > 0
  /\ RemainingBase(orders[incoming]) > 0
  /\ Price(orders[buys[1]]) >= Price(orders[incoming])
  /\ Fillable(buys[1]) > 0

MatchBuy ==
  /\ incoming # NoOrder
  /\ orders[incoming].side = "buy"
  /\ BuyLoops
  /\ LET m == sells[1]
         n == Fillable(m)
         h == HeapPop(orders, Heap(sells))
     IN  /\ trades' = Append(trades, Result(incoming, m, m, n))
         /\ orders' = [orders EXCEPT ![incoming] = Filled(@, n), ![m] = Filled(@, n)]
         /\ IF orders'[m].status = "filled"
            THEN /\ sells' = h.arr
                 /\ index' = h.index
                 /\ orderMap' = orderMap \ {m}
            ELSE UNCHANGED <<sells, index, orderMap>>
         /\ UNCHANGED <<seen, incoming, buys>>

MatchSell ==
  /\ incoming # NoOrder
  /\ orders[incoming].side = "sell"
  /\ SellLoops
  /\ LET m == buys[1]
         n == Fillable(m)
         h == HeapPop(orders, Heap(buys))
     IN  /\ trades' = Append(trades, Result(m, incoming, m, n))
         /\ orders' = [orders EXCEPT ![incoming] = Filled(@, n), ![m] = Filled(@, n)]
         /\ IF orders'[m].status = "filled"
            THEN /\ buys' = h.arr
                 /\ index' = h.index
                 /\ orderMap' = orderMap \ {m}
            ELSE UNCHANGED <<buys, index, orderMap>>
         /\ UNCHANGED <<seen, incoming, sells>>

\* Mutation of LoopLeft: an incompatible price goes round again.
LoopLeftWithoutBreak ==
  IF orders[incoming].side = "buy"
  THEN Len(sells) = 0 \/ RemainingBase(orders[incoming]) <= 0
  ELSE Len(buys) = 0  \/ RemainingBase(orders[incoming]) <= 0

LoopLeft == IF orders[incoming].side = "buy" THEN ~BuyLoops ELSE ~SellLoops

\* The loop is left: what remains of incoming is pushed, and the lock released.
EndAdd ==
  LET o == incoming
      b == HeapPush(orders, Heap(buys), o)
      s == HeapPush(orders, Heap(sells), o)
  IN  /\ o # NoOrder
      /\ LoopLeft
      /\ incoming' = NoOrder
      /\ IF RemainingBase(orders[o]) > 0 /\ orders[o].status # "filled"
         THEN /\ orderMap' = orderMap \cup {o}
              /\ IF orders[o].side = "buy"
                 THEN buys' = b.arr /\ index' = b.index /\ UNCHANGED sells
                 ELSE sells' = s.arr /\ index' = s.index /\ UNCHANGED buys
         ELSE UNCHANGED <<orderMap, buys, sells, index>>
      /\ UNCHANGED <<orders, seen, trades>>

\* CancelOrder of an id in orderMap.  Of any other id it returns false.
CancelOrder(o) ==
  /\ incoming = NoOrder
  /\ o \in orderMap
  /\ orders' = [orders EXCEPT ![o].status = "cancelled"]
  /\ orderMap' = orderMap \ {o}
  /\ IF orders[o].side = "buy"
     THEN LET h == HeapRemove(orders, Heap(buys), index[o])
          IN  buys' = h.arr /\ index' = h.index /\ UNCHANGED sells
     ELSE LET h == HeapRemove(orders, Heap(sells), index[o])
          IN  sells' = h.arr /\ index' = h.index /\ UNCHANGED buys
  /\ UNCHANGED <<seen, incoming, trades>>

Next ==
  \/ \E o \in Ids : Begin(o) \/ BeginPanics(o) \/ CancelOrder(o)
  \/ MatchBuy
  \/ MatchSell
  \/ EndAdd

\* The goroutine inside AddOrder runs on: nothing it does blocks.
AddOrderRuns == WF_vars(MatchBuy \/ MatchSell \/ EndAdd)

Spec == Init /\ [][Next]_vars /\ AddOrderRuns

--------------------------------------------------------------------------------
(***************************************************************************)
(* GetSnapshot: what a reader with ob.mu.RLock sees.                       *)
(***************************************************************************)

\* The price x of side belongs left of y.
Better(side, x, y) == IF side = "buy" THEN x > y ELSE x < y

\* A loop over a slice of prices, come to the position at.
PriceLoops == [slice : Seq(Int), at : Nat]

\* A turn of the inner loop of sortDesc (bids) and sortAsc (asks): the price moves left
\* while its neighbour is worse.
SinkTurn(side) ==
  [ c \in PriceLoops |->
      LET i == c.at
          s == c.slice
      IN  IF i > 1 /\ Better(side, s[i], s[i - 1])
          THEN [slice |-> [s EXCEPT ![i] = s[i - 1], ![i - 1] = s[i]], at |-> i - 1]
          ELSE c ]

Sink(side, s, i) == Repeat(SinkTurn(side), [slice |-> s, at |-> i], i).slice

\* Mutation of SortTurn: the loop ends before the last price.
SortTurnButLast(side) ==
  [ c \in PriceLoops |->
      IF c.at + 1 < Len(c.slice)
      THEN [slice |-> Sink(side, c.slice, c.at + 1), at |-> c.at + 1]
      ELSE c ]

\* A turn of the outer loop, with the prices up to at in order: the next one sinks in.
SortTurn(side) ==
  [ c \in PriceLoops |->
      IF c.at < Len(c.slice)
      THEN [slice |-> Sink(side, c.slice, c.at + 1), at |-> c.at + 1]
      ELSE c ]

InsertionSort(side, s) == Repeat(SortTurn(side), [slice |-> s, at |-> 1], Len(s)).slice

\* A turn of the loop over the entries: a price not met before joins the slice.
PriceTurn(arr) ==
  [ c \in PriceLoops |->
      LET p == Price(orders[arr[c.at + 1]])
      IN  IF c.at < Len(arr)
          THEN [slice |-> IF p \in ToSet(c.slice) THEN c.slice ELSE Append(c.slice, p),
                at    |-> c.at + 1]
          ELSE c ]

\* The prices of a heap in the order its slice shows them first.
PricesOf(arr) == Repeat(PriceTurn(arr), [slice |-> << >>, at |-> 0], Len(arr)).slice

\* The positions of the entries that count towards the level of price p.
AtPrice(arr, p) == { k \in 1..Len(arr) : Price(orders[arr[k]]) = p }

\* aggregateLevels and aggregateSellLevels, which differ in the sort only.
Levels(side, arr) ==
  LET prices == InsertionSort(side, PricesOf(arr))
  IN  [ i \in 1..Len(prices) |->
          LET at == AtPrice(arr, prices[i])
          IN  [ price  |-> prices[i],
                amount |-> SumFunction([k \in at |-> RemainingBase(orders[arr[k]])]),
                count  |-> Cardinality(at) ] ]

GetSnapshot == [ bids |-> Levels("buy", buys), asks |-> Levels("sell", sells) ]

--------------------------------------------------------------------------------
(***************************************************************************)
(* Properties.                                                             *)
(***************************************************************************)

Entries == ToSet(buys) \cup ToSet(sells)

Book == INSTANCE PriceTimeBook WITH resting <- Entries

\* Types, those of the book included; an Index lies within the two slices or is 0.
EngineTypeOK ==
  /\ Book!BookTypeOK
  /\ buys \in Seq(Ids) /\ sells \in Seq(Ids)
  /\ orderMap \subseteq Ids
  /\ index \in [Ids -> 0..(Len(buys) + Len(sells))]

\* Both slices stay heaps through every push, pop and removal from the middle, so
\* position 1 is always an order no other on its side is ahead of.
\* (heap.go:19-26,51-58; engine.go:74,76,123,168,191,193)
HeapsOrdered == Ordered(orders, buys) /\ Ordered(orders, sells)

\* orderMap and the heaps hold the same entries, each once and on its own side, and
\* every entry's Index is where it is: CancelOrder(id) removes id and no one else.
\* (heap.go:27-45,59-77; engine.go:71-76,121-125,167-170,181-194)
IndexAgrees ==
  /\ \A i \in 1..Len(buys)  : orders[buys[i]].side = "buy"   /\ index[buys[i]] = i
  /\ \A i \in 1..Len(sells) : orders[sells[i]].side = "sell" /\ index[sells[i]] = i
  /\ orderMap = Entries
  /\ \A id \in Ids \ Entries : index[id] = 0

\* Price-time priority: while an order rests, no resting order of the same side that
\* it is ahead of is filled.  (engine.go:88,136 with the heaps' Less)
PriceTimePriority ==
  [][\A a, b \in Entries :
       /\ orders[a].side = orders[b].side
       /\ Ahead(orders[a], orders[b])
       => orders'[b].filledBase = orders[b].filledBase]_vars

\* The orders of a side that were added and can still trade.
Live(side) == { id \in seen : /\ orders[id].side = side
                              /\ orders[id].status \in LiveStatuses
                              /\ RemainingBase(orders[id]) > 0 }

Depth(side) == SumFunction([id \in Live(side) |-> RemainingBase(orders[id])])

Total(levels) == SumFunction([i \in 1..Len(levels) |-> levels[i].amount])

\* A snapshot shows every live order and nothing else, best price first, one level
\* per price, and the best bid below the best ask.  (engine.go:199-276)
SnapshotFaithful ==
  incoming = NoOrder =>
    LET s == GetSnapshot
    IN  /\ \A i \in 2..Len(s.bids) : s.bids[i].price < s.bids[i - 1].price
        /\ \A i \in 2..Len(s.asks) : s.asks[i].price > s.asks[i - 1].price
        /\ Total(s.bids) = Depth("buy") /\ Total(s.asks) = Depth("sell")
        /\ s.bids # << >> /\ s.asks # << >> => s.bids[1].price < s.asks[1].price

\* The engine implements the set-based book: with the two heaps read as the set of
\* their entries, each of its steps is a step of PriceTimeBook.
BookImplemented == Book!BookSpec

\* Nobody trades beyond its limit but by the rounding of prices.
\* (order.go:43-57, engine.go:90-93,138-141)
TradesNearLimits == Book!TradesNearLimits

\* Every AddOrder returns and releases ob.mu: the loop always ends.
\* (engine.go:58-59,87-98,135-146)
AddOrderReturns == (incoming # NoOrder) ~> (incoming = NoOrder)
================================================================================
