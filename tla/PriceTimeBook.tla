----------------------------- MODULE PriceTimeBook -----------------------------
(***************************************************************************)
(* What one order book promises, without its data structures: the resting  *)
(* orders are a set, and a match takes any maker no other maker is ahead   *)
(* of.  MatchingEngine, with the two binary heaps of the code, implements  *)
(* this specification.                                                     *)
(*                                                                         *)
(* AddOrder holds ob.mu throughout, but callers keep pointers to the very  *)
(* orders it changes and read them without the lock, so each iteration of  *)
(* the matching loop is a step of its own; `incoming' is the order of the  *)
(* AddOrder in progress, and the lock is held exactly while there is one.  *)
(***************************************************************************)
EXTENDS OrderMath, Sequences

CONSTANTS
  Ids,       \* Order ids; each is the id of at most one order.
  Inputs,    \* For each id, the orders callers may hand to AddOrder under it.
  NoOrder    \* No AddOrder is in progress.

\* A caller passes a fresh order (service.SubmitOrder) or one read back from
\* the open rows of the database (service.LoadOpenOrders), never a terminal one.
ASSUME BookAssumption ==
  /\ NoOrder \notin Ids
  /\ Inputs \in [Ids -> SUBSET Order]
  /\ \A id \in Ids : \A o \in Inputs[id] :
       o.status \in LiveStatuses /\ o.filledBase <= Base(o)

VARIABLES
  orders,    \* Ids -> the order with that id, shared by pointer with callers.
  seen,      \* Ids whose AddOrder has begun.
  resting,   \* Ids on the book.
  incoming,  \* Id of the order being added, or NoOrder.
  trades     \* Every MatchResult returned or about to be, oldest first.

bookVars == <<orders, seen, resting, incoming, trades>>

BookInit ==
  /\ orders \in { f \in [Ids -> UNION { Inputs[id] : id \in Ids }] :
                    \A id \in Ids : f[id] \in Inputs[id] }
  /\ seen = {}
  /\ resting = {}
  /\ incoming = NoOrder
  /\ trades = << >>

--------------------------------------------------------------------------------
(***************************************************************************)
(* Operations.                                                             *)
(***************************************************************************)

Makers(o) == { m \in resting : orders[m].side # orders[o].side }

BuyOf(a, b)  == IF orders[a].side = "buy" THEN a ELSE b
SellOf(a, b) == IF orders[a].side = "buy" THEN b ELSE a

\* Mutation of CanMatch: a bid equal to the ask is refused.
CanMatchStrictly(o, m) ==
  /\ RemainingBase(orders[o]) > 0
  /\ RemainingBase(orders[m]) > 0
  /\ Price(orders[BuyOf(o, m)]) > Price(orders[SellOf(o, m)])

\* The taker o can trade with the maker m at the engine's prices.
CanMatch(o, m) ==
  /\ RemainingBase(orders[o]) > 0
  /\ RemainingBase(orders[m]) > 0
  /\ Compatible(orders[BuyOf(o, m)], orders[SellOf(o, m)])

Begin(o) ==
  /\ incoming = NoOrder
  /\ o \notin seen
  /\ ~PricePanics(orders[o])
  /\ seen' = seen \cup {o}
  /\ incoming' = o
  /\ UNCHANGED <<orders, resting, trades>>

\* Mutation of AfterPanic: the Unlock is not deferred.
StillLocked(o) == o

\* Who has the lock when the AddOrder of o has panicked.
AfterPanic(o) == NoOrder

\* Price() panics before the loop; the deferred Unlock runs and nothing else.
BeginPanics(o) ==
  /\ incoming = NoOrder
  /\ o \notin seen
  /\ PricePanics(orders[o])
  /\ seen' = seen \cup {o}
  /\ incoming' = AfterPanic(o)
  /\ UNCHANGED <<orders, resting, trades>>

\* One iteration: incoming trades with m, the maker no other maker is ahead of.
Match(m) ==
  LET o == incoming
      n == MinBigInt(RemainingBase(orders[o]), RemainingBase(orders[m]))
      sell == orders[SellOf(o, m)]
  IN  /\ o # NoOrder
      /\ m \in Makers(o)
      /\ \A k \in Makers(o) : ~Ahead(orders[k], orders[m])
      /\ CanMatch(o, m)
      /\ orders' = [orders EXCEPT ![o] = Filled(@, n), ![m] = Filled(@, n)]
      /\ resting' = IF orders'[m].status = "filled" THEN resting \ {m} ELSE resting
      /\ trades' = Append(trades,
                     [ buy   |-> BuyOf(o, m), sell  |-> SellOf(o, m),
                       fill  |-> n,           quote |-> SellerReceives(sell, n),
                       price |-> Price(orders[m]), maker |-> m ])
      /\ UNCHANGED <<seen, incoming>>

\* Mutation of Remains: the order rests whatever is left of it.
AlwaysRemains(o) == TRUE

\* Something is left of o that can go on the book.
Remains(o) == RemainingBase(orders[o]) > 0 /\ orders[o].status # "filled"

\* The loop is over: what is left of incoming rests, and the lock is released.
Finish ==
  /\ incoming # NoOrder
  /\ \A m \in Makers(incoming) : ~CanMatch(incoming, m)
  /\ resting' = IF Remains(incoming) THEN resting \cup {incoming} ELSE resting
  /\ incoming' = NoOrder
  /\ UNCHANGED <<orders, seen, trades>>

\* Mutation of Found: any order the book has ever seen is found.
EverSeen(o) == o \in seen

\* orderMap has an entry for o.
Found(o) == o \in resting

\* CancelOrder of a resting order.  Of any other order it changes nothing.
Cancel(o) ==
  /\ incoming = NoOrder
  /\ Found(o)
  /\ orders' = [orders EXCEPT ![o].status = "cancelled"]
  /\ resting' = resting \ {o}
  /\ UNCHANGED <<seen, incoming, trades>>

BookNext ==
  \/ \E o \in Ids : Begin(o) \/ BeginPanics(o) \/ Cancel(o)
  \/ \E m \in Ids : Match(m)
  \/ Finish

BookSpec == BookInit /\ [][BookNext]_bookVars

--------------------------------------------------------------------------------
(***************************************************************************)
(* Properties.                                                             *)
(***************************************************************************)

MatchResult ==
  [ buy : Ids, sell : Ids, fill : Nat, quote : Int, price : Int, maker : Ids ]

\* Types: fills are naturals, and a trade names two ids and an amount.
BookTypeOK ==
  /\ orders \in [Ids -> Order]
  /\ seen \subseteq Ids
  /\ resting \subseteq seen
  /\ incoming \in seen \cup {NoOrder}
  /\ trades \in Seq(MatchResult)

\* No order given to the book is ever filled beyond its base amount, whatever the sequence
\* of partial fills as taker and as maker, and one that says "filled" has nothing left.
\* (engine.go:114-119,161-165 and updateOrderStatus)
FillsWithinAmount ==
  \A o \in seen :
    /\ orders[o].filledBase <= Base(orders[o])
    /\ orders[o].status = "filled" => RemainingBase(orders[o]) = 0

\* The book holds exactly the orders that were added, can still trade and are
\* not being added right now: nothing filled or cancelled lingers where a later
\* taker would match it, and nothing live is lost.  (engine.go:69-78,121-125,
\* 167-170,186-194)
RestingExactlyLive ==
  \A o \in seen \ {incoming} :
    o \in resting <=> /\ orders[o].status \in LiveStatuses
                      /\ RemainingBase(orders[o]) > 0

\* The book is never crossed: no resting bid reaches a resting ask, at any
\* point of any AddOrder, so two orders that could trade never sit on opposite
\* sides waiting.  (engine.go:87-93,135-141)
BookUncrossed ==
  \A b, s \in resting :
    orders[b].side = "buy" /\ orders[s].side = "sell" =>
      ~Compatible(orders[b], orders[s])

\* Once an order is filled or cancelled no step changes it again: a cancelled
\* order is never filled and a filled one is never cancelled.
\* (engine.go:121-125,167-170,177-197)
TerminalOrdersFrozen ==
  [][\A o \in Ids : orders[o].status \notin LiveStatuses => orders'[o] = orders[o]]_bookVars

\* The limits of a bid and an offer meet, as fractions.
LimitsMeet(b, s) == s.amountBuy * b.amountBuy <= b.amountSell * s.amountSell

\* They do not, and the price type cannot tell, as it rounds both to one price.
MeetOnlyRounded(b, s) == ~LimitsMeet(b, s) /\ Price(b) = Price(s)

\* Every match of "buy price >= sell price" can be settled: what the seller's limit asks
\* for the fill, rounded down, is at most what the buyer's offers.  Two limits that
\* round to one price break it.
\* (engine.go:90-103,138-151 against NexusOrderBook.sol:71-73)
TradesSettleable ==
  \A i \in 1..Len(trades) :
    LET t == trades[i]
    IN  t.quote <= BuyerPays(orders[t.buy], t.fill)

\* Rounding the quote of each partial fill is no other reason: where the limits meet as
\* fractions, whatever the amounts and fills, the contract's price check passes.
\* (engine.go:95-103,143-151 against NexusOrderBook.sol:71-73)
MeetingLimitsSettle ==
  \A i \in 1..Len(trades) :
    LET t == trades[i]
    IN  LimitsMeet(orders[t.buy], orders[t.sell]) => t.quote <= BuyerPays(orders[t.buy], t.fill)

\* Nobody trades beyond its limit but by the rounding of prices: an offer a bid does not
\* reach is matched with it only if both round to one price, and then the limits are at
\* most one grid point apart.  (order.go:43-57, engine.go:90-93,138-141)
TradesNearLimits ==
  \A i \in 1..Len(trades) :
    LET b == orders[trades[i].buy]
        s == orders[trades[i].sell]
    IN  ~LimitsMeet(b, s) =>
          /\ MeetOnlyRounded(b, s)
          /\ PriceScale * (s.amountBuy * b.amountBuy - b.amountSell * s.amountSell)
               <= b.amountBuy * s.amountSell
================================================================================
