-------------------------- MODULE PriceTimeBook_proofs -------------------------
(***************************************************************************)
(* Theorems about PriceTimeBook, for every set of ids, every orders under  *)
(* them and every precision of the price type.                             *)
(***************************************************************************)
EXTENDS PriceTimeBook, TLAPS

--------------------------------------------------------------------------------
(***************************************************************************)
(* Orders.                                                                 *)
(***************************************************************************)

\* An order's amounts are naturals and what remains of it is an integer.
LEMMA AmountTypes ==
  ASSUME NEW o \in Order
  PROVE  /\ Base(o) \in Nat /\ Quote(o) \in Nat
         /\ o.filledBase \in Nat
         /\ RemainingBase(o) \in Int
         /\ o.status \in Statuses
BY DEF Order, Base, Quote, RemainingBase

\* A fill leaves everything of an order alone but its filled amount and its status,
\* and the status it leaves agrees with the amount.
\* (engine.go:114-119, updateOrderStatus)
LEMMA FilledOrder ==
  ASSUME NEW o \in Order, NEW n \in Nat, n > 0
  PROVE  /\ Filled(o, n) \in Order
         /\ Filled(o, n).filledBase = o.filledBase + n
         /\ Base(Filled(o, n)) = Base(o) /\ Quote(Filled(o, n)) = Quote(o)
         /\ Filled(o, n).side = o.side
         /\ RemainingBase(Filled(o, n)) = RemainingBase(o) - n
         /\ IF RemainingBase(o) <= n THEN Filled(o, n).status = "filled"
                                     ELSE Filled(o, n).status = "partially_filled"
<1> DEFINE p == [o EXCEPT !.filledBase = @ + n]
<1>1. /\ p \in Order /\ p.filledBase = o.filledBase + n /\ p.filledBase > 0
      /\ p.side = o.side /\ p.amountSell = o.amountSell /\ p.amountBuy = o.amountBuy
      /\ p.createdAt = o.createdAt
  BY DEF Order
<1>2. RemainingBase(p) = RemainingBase(o) - n /\ RemainingBase(o) \in Int
  BY <1>1, AmountTypes DEF RemainingBase, Base
<1> DEFINE st == IF RemainingBase(p) <= 0 THEN "filled"
                 ELSE IF p.filledBase > 0 THEN "partially_filled" ELSE p.status
<1>3. Filled(o, n) = [p EXCEPT !.status = st]
  BY DEF Filled
<1>4. st \in Statuses /\ IF RemainingBase(o) <= n THEN st = "filled"
                                                  ELSE st = "partially_filled"
  BY <1>1, <1>2 DEF Statuses, LiveStatuses
<1> HIDE DEF p, st
<1>5. /\ Filled(o, n) \in Order
      /\ Filled(o, n).filledBase = p.filledBase /\ Filled(o, n).status = st
      /\ Filled(o, n).side = p.side /\ Filled(o, n).amountSell = p.amountSell
      /\ Filled(o, n).amountBuy = p.amountBuy
  BY <1>1, <1>3, <1>4 DEF Order
<1>6. Base(Filled(o, n)) = Base(o) /\ Quote(Filled(o, n)) = Quote(o)
  BY <1>1, <1>5 DEF Base, Quote
<1>7. RemainingBase(Filled(o, n)) = RemainingBase(o) - n
  BY <1>1, <1>2, <1>5 DEF RemainingBase, Base
<1> QED BY <1>1, <1>4, <1>5, <1>6, <1>7

\* A price is an integer on the grid as long as there is base to divide by.
LEMMA PriceType ==
  ASSUME NEW o \in Order, Base(o) > 0
  PROVE  Price(o) \in Int
<1>1. Quote(o) * PriceScale \in Int /\ Base(o) \in Int
  BY AmountTypes, PriceScaleAssumption
<1>2. ASSUME NEW n \in Int, NEW d \in Int, d > 0
      PROVE  RoundHalfEven(n, d) \in Int
  BY <1>2 DEF RoundHalfEven
<1> QED BY <1>1, <1>2 DEF Price

\* Prices and sides, and so compatibility, do not depend on how much is filled.
LEMMA SamePrice ==
  ASSUME NEW a \in Order, NEW b \in Order, Base(a) = Base(b), Quote(a) = Quote(b)
  PROVE  Price(a) = Price(b)
BY DEF Price

--------------------------------------------------------------------------------
(***************************************************************************)
(* The inductive invariant.                                                *)
(***************************************************************************)

\* The order being added rests only when its AddOrder ends.
IncomingNotResting == incoming \notin resting

\* The order being added has not been cancelled: CancelOrder would wait for its lock.
IncomingNotCancelled == incoming # NoOrder => orders[incoming].status # "cancelled"

\* What holds of the book, whatever the orders it has not been given are.
BookCore ==
  /\ BookTypeOK
  /\ FillsWithinAmount
  /\ RestingExactlyLive
  /\ BookUncrossed
  /\ IncomingNotResting
  /\ IncomingNotCancelled

\* An order that may be given to AddOrder.
Fresh(o) == orders[o].status \in LiveStatuses /\ orders[o].filledBase <= Base(orders[o])

BookInv == BookCore /\ \A o \in Ids \ seen : Fresh(o)

\* An empty book satisfies the invariant.
LEMMA InitInv == BookInit => BookInv
<1> SUFFICES ASSUME BookInit PROVE BookInv
  OBVIOUS
<1>1. orders \in [Ids -> Order] /\ \A o \in Ids : Fresh(o)
  BY BookAssumption DEF BookInit, Fresh
<1>2. BookTypeOK
  BY <1>1 DEF BookInit, BookTypeOK
<1>3. /\ FillsWithinAmount /\ RestingExactlyLive /\ BookUncrossed
      /\ IncomingNotResting /\ IncomingNotCancelled
  BY DEF BookInit, FillsWithinAmount, RestingExactlyLive, BookUncrossed, IncomingNotResting,
         IncomingNotCancelled
<1> QED BY <1>1, <1>2, <1>3 DEF BookInv, BookCore

\* Taking the lock and entering AddOrder keeps the invariant.
LEMMA BeginInv ==
  ASSUME BookCore, NEW o \in Ids, Fresh(o), Begin(o)
  PROVE  BookCore'
<1>1. /\ UNCHANGED <<orders, resting, trades>>
      /\ seen' = seen \cup {o} /\ incoming' = o /\ incoming = NoOrder /\ o \notin seen
  BY DEF Begin
<1>2. BookTypeOK'
  BY <1>1 DEF BookCore, BookTypeOK, MatchResult
<1>3. FillsWithinAmount' /\ BookUncrossed'
  BY <1>1 DEF BookCore, FillsWithinAmount, BookUncrossed, Fresh, LiveStatuses
<1>4. RestingExactlyLive' /\ IncomingNotResting' /\ IncomingNotCancelled'
  BY <1>1, BookAssumption
     DEF BookCore, BookTypeOK, RestingExactlyLive, IncomingNotResting, IncomingNotCancelled,
         Fresh, LiveStatuses
<1> QED BY <1>2, <1>3, <1>4 DEF BookCore

\* An AddOrder that panics on 0/0 keeps the invariant: its order can never trade.
LEMMA BeginPanicsInv ==
  ASSUME BookCore, NEW o \in Ids, Fresh(o), BeginPanics(o)
  PROVE  BookCore'
<1>1. /\ UNCHANGED <<orders, resting, trades, incoming>>
      /\ seen' = seen \cup {o} /\ incoming = NoOrder /\ o \notin seen
      /\ Base(orders[o]) = 0
  BY DEF BeginPanics, AfterPanic, PricePanics
<1>2. BookTypeOK'
  BY <1>1 DEF BookCore, BookTypeOK, MatchResult
<1>3. FillsWithinAmount' /\ BookUncrossed' /\ IncomingNotResting' /\ IncomingNotCancelled'
  BY <1>1, BookAssumption
     DEF BookCore, FillsWithinAmount, BookUncrossed, IncomingNotResting, IncomingNotCancelled,
         Fresh, LiveStatuses
<1>4. o \notin resting /\ ~(RemainingBase(orders[o]) > 0)
  <2>1. orders[o] \in Order
    BY DEF BookCore, BookTypeOK
  <2> QED BY <1>1, <2>1, AmountTypes DEF BookCore, BookTypeOK, RemainingBase, Fresh
<1>5. RestingExactlyLive'
  BY <1>1, <1>4 DEF BookCore, RestingExactlyLive
<1> QED BY <1>2, <1>3, <1>5 DEF BookCore

\* CancelOrder keeps the invariant.
LEMMA CancelInv ==
  ASSUME BookCore, NEW o \in Ids, Cancel(o)
  PROVE  BookCore'
<1>1. /\ incoming = NoOrder /\ o \in resting
      /\ orders' = [orders EXCEPT ![o].status = "cancelled"]
      /\ resting' = resting \ {o}
      /\ UNCHANGED <<seen, incoming, trades>>
  BY DEF Cancel, Found
<1>2. /\ orders' \in [Ids -> Order]
      /\ orders'[o].status = "cancelled"
      /\ \A k \in Ids : /\ Base(orders'[k]) = Base(orders[k])
                        /\ Quote(orders'[k]) = Quote(orders[k])
                        /\ orders'[k].side = orders[k].side
                        /\ orders'[k].filledBase = orders[k].filledBase
                        /\ k # o => orders'[k] = orders[k]
  BY <1>1 DEF BookCore, BookTypeOK, Order, Base, Quote, Statuses
<1>3. BookTypeOK'
  BY <1>1, <1>2 DEF BookCore, BookTypeOK, MatchResult
<1>4. FillsWithinAmount'
  BY <1>1, <1>2 DEF BookCore, FillsWithinAmount
<1>5. RestingExactlyLive'
  BY <1>1, <1>2 DEF BookCore, BookTypeOK, RestingExactlyLive, LiveStatuses
<1>6. BookUncrossed'
  <2> SUFFICES ASSUME NEW b \in resting', NEW s \in resting',
                      orders'[b].side = "buy", orders'[s].side = "sell"
               PROVE  ~Compatible(orders'[b], orders'[s])
    BY DEF BookUncrossed
  <2>1. b \in Ids /\ s \in Ids /\ b # o /\ s # o /\ b \in resting /\ s \in resting
    BY <1>1 DEF BookCore, BookTypeOK
  <2> QED BY <1>2, <2>1 DEF BookCore, BookUncrossed
<1>7. IncomingNotResting' /\ IncomingNotCancelled'
  BY <1>1, <1>2 DEF BookCore, BookTypeOK, IncomingNotResting, IncomingNotCancelled
<1> QED BY <1>3, <1>4, <1>5, <1>6, <1>7 DEF BookCore

\* Resting what is left of the incoming order keeps the invariant; the loop ended because
\* no maker on the other side is compatible with it.
LEMMA FinishInv ==
  ASSUME BookCore, Finish
  PROVE  BookCore'
<1>1. /\ incoming # NoOrder /\ incoming \in Ids /\ incoming \in seen
      /\ \A m \in Makers(incoming) : ~CanMatch(incoming, m)
      /\ resting' = IF RemainingBase(orders[incoming]) > 0 /\ orders[incoming].status # "filled"
                    THEN resting \cup {incoming} ELSE resting
      /\ incoming' = NoOrder
      /\ UNCHANGED <<orders, seen, trades>>
  BY DEF Finish, Remains, BookCore, BookTypeOK
<1>2. BookTypeOK'
  BY <1>1 DEF BookCore, BookTypeOK, MatchResult
<1>3. FillsWithinAmount' /\ IncomingNotCancelled'
  BY <1>1, BookAssumption DEF BookCore, BookTypeOK, FillsWithinAmount, IncomingNotCancelled
<1>4. NoOrder \notin seen
  BY BookAssumption DEF BookCore, BookTypeOK
<1>5. orders[incoming].status \in Statuses \ {"cancelled"}
  BY <1>1, AmountTypes DEF BookCore, BookTypeOK, IncomingNotCancelled
<1>6. RestingExactlyLive' /\ IncomingNotResting'
  BY <1>1, <1>4, <1>5
     DEF BookCore, BookTypeOK, RestingExactlyLive, IncomingNotResting, Statuses, LiveStatuses
<1>7. BookUncrossed'
  <2> SUFFICES ASSUME NEW b \in resting', NEW s \in resting',
                      orders[b].side = "buy", orders[s].side = "sell"
               PROVE  ~Compatible(orders[b], orders[s])
    BY <1>1 DEF BookUncrossed
  <2>1. CASE b \in resting /\ s \in resting
    BY <2>1 DEF BookCore, BookUncrossed
  <2>2. \A k \in resting : RemainingBase(orders[k]) > 0
    BY DEF BookCore, BookTypeOK, RestingExactlyLive, IncomingNotResting
  <2>3. CASE b = incoming /\ s \in resting
    <3>1. s \in Makers(incoming) /\ BuyOf(b, s) = b /\ SellOf(b, s) = s
      BY <2>3 DEF Makers, BuyOf, SellOf
    <3>2. RemainingBase(orders[b]) > 0
      BY <1>1, <2>2, <2>3
    <3> QED BY <1>1, <2>2, <2>3, <3>1, <3>2 DEF CanMatch
  <2>4. CASE s = incoming /\ b \in resting
    <3>1. b \in Makers(incoming) /\ BuyOf(s, b) = b /\ SellOf(s, b) = s
      BY <2>4 DEF Makers, BuyOf, SellOf
    <3>2. RemainingBase(orders[s]) > 0
      BY <1>1, <2>2, <2>4
    <3> QED BY <1>1, <2>2, <2>4, <3>1, <3>2 DEF CanMatch
  <2> QED BY <1>1, <2>1, <2>3, <2>4
<1> QED BY <1>2, <1>3, <1>6, <1>7 DEF BookCore

\* What a match does to the two orders, in the terms the invariant is written in.
LEMMA MatchFacts ==
  ASSUME BookCore, NEW m \in Ids, Match(m)
  PROVE  \E n \in Nat :
           /\ incoming \in seen /\ m \in resting /\ m # incoming
           /\ orders[incoming].status \in LiveStatuses /\ orders[m].status \in LiveStatuses
           /\ n > 0 /\ n <= RemainingBase(orders[incoming]) /\ n <= RemainingBase(orders[m])
           /\ orders' = [orders EXCEPT ![incoming] = Filled(@, n), ![m] = Filled(@, n)]
           /\ resting' = IF orders'[m].status = "filled" THEN resting \ {m} ELSE resting
           /\ UNCHANGED <<seen, incoming>>
           /\ trades' = Append(trades,
                [ buy   |-> BuyOf(incoming, m), sell  |-> SellOf(incoming, m), fill |-> n,
                  quote |-> SellerReceives(orders[SellOf(incoming, m)], n),
                  price |-> Price(orders[m]),   maker |-> m ])
<1> DEFINE n == MinBigInt(RemainingBase(orders[incoming]), RemainingBase(orders[m]))
<1>1. /\ incoming # NoOrder /\ m \in Makers(incoming) /\ CanMatch(incoming, m)
      /\ orders' = [orders EXCEPT ![incoming] = Filled(@, n), ![m] = Filled(@, n)]
      /\ resting' = IF orders'[m].status = "filled" THEN resting \ {m} ELSE resting
      /\ trades' = Append(trades,
           [ buy   |-> BuyOf(incoming, m), sell  |-> SellOf(incoming, m), fill |-> n,
             quote |-> SellerReceives(orders[SellOf(incoming, m)], n),
             price |-> Price(orders[m]),   maker |-> m ])
      /\ UNCHANGED <<seen, incoming>>
  BY DEF Match
<1>2. incoming \in seen /\ incoming \in Ids /\ m \in resting /\ m # incoming
  BY <1>1 DEF BookCore, BookTypeOK, IncomingNotResting, Makers
<1>3. orders[incoming] \in Order /\ orders[m] \in Order
  BY <1>2 DEF BookCore, BookTypeOK
<1>4. /\ RemainingBase(orders[incoming]) \in Int /\ RemainingBase(orders[incoming]) > 0
      /\ RemainingBase(orders[m]) \in Int /\ RemainingBase(orders[m]) > 0
  BY <1>1, <1>3, AmountTypes DEF CanMatch
<1>5. n \in Nat /\ n > 0 /\ n <= RemainingBase(orders[incoming]) /\ n <= RemainingBase(orders[m])
  BY <1>4 DEF MinBigInt
<1>6. orders[m].status \in LiveStatuses
  BY <1>2 DEF BookCore, BookTypeOK, RestingExactlyLive
<1>7. orders[incoming].status \in LiveStatuses
  BY <1>1, <1>2, <1>3, <1>4, AmountTypes
     DEF BookCore, FillsWithinAmount, IncomingNotCancelled, Statuses
<1> QED BY <1>1, <1>2, <1>5, <1>6, <1>7

\* One match keeps the invariant.
LEMMA MatchInv ==
  ASSUME BookCore, NEW m \in Ids, Match(m)
  PROVE  BookCore'
<1>1. PICK n \in Nat :
           /\ incoming \in seen /\ m \in resting /\ m # incoming
           /\ orders[incoming].status \in LiveStatuses /\ orders[m].status \in LiveStatuses
           /\ n > 0 /\ n <= RemainingBase(orders[incoming]) /\ n <= RemainingBase(orders[m])
           /\ orders' = [orders EXCEPT ![incoming] = Filled(@, n), ![m] = Filled(@, n)]
           /\ resting' = IF orders'[m].status = "filled" THEN resting \ {m} ELSE resting
           /\ UNCHANGED <<seen, incoming>>
           /\ trades' = Append(trades,
                [ buy   |-> BuyOf(incoming, m), sell  |-> SellOf(incoming, m), fill |-> n,
                  quote |-> SellerReceives(orders[SellOf(incoming, m)], n),
                  price |-> Price(orders[m]),   maker |-> m ])
  BY MatchFacts
<1> DEFINE o == incoming
<1>2. /\ o \in Ids /\ m \in Ids /\ orders[o] \in Order /\ orders[m] \in Order
      /\ orders'[o] = Filled(orders[o], n) /\ orders'[m] = Filled(orders[m], n)
      /\ \A k \in Ids \ {o, m} : orders'[k] = orders[k]
  BY <1>1 DEF BookCore, BookTypeOK
<1>3. \A k \in {o, m} :
        /\ orders'[k] \in Order
        /\ orders'[k].filledBase = orders[k].filledBase + n
        /\ RemainingBase(orders'[k]) = RemainingBase(orders[k]) - n
        /\ IF RemainingBase(orders[k]) <= n THEN orders'[k].status = "filled"
                                            ELSE orders'[k].status = "partially_filled"
        /\ Base(orders'[k]) = Base(orders[k])
        /\ Quote(orders'[k]) = Quote(orders[k])
        /\ orders'[k].side = orders[k].side
  <2> TAKE k \in {o, m}
  <2>1. orders[k] \in Order /\ orders'[k] = Filled(orders[k], n) /\ n > 0
    BY <1>1, <1>2
  <2> HIDE DEF o
  <2> QED BY ONLY <2>1, n \in Nat, FilledOrder
<1>4. \A k \in Ids : /\ Base(orders'[k]) = Base(orders[k])
                     /\ Quote(orders'[k]) = Quote(orders[k])
                     /\ orders'[k].side = orders[k].side
  BY <1>2, <1>3
<1>5. orders' \in [Ids -> Order]
  BY <1>1, <1>2, <1>3 DEF BookCore, BookTypeOK
<1>6. BookTypeOK'
  <2>1. Base(orders[m]) > 0 /\ Base(orders[o]) > 0
    BY <1>1, <1>2, AmountTypes DEF RemainingBase
  <2>2. Price(orders[m]) \in Int
    BY <1>2, <2>1, PriceType
  <2>3. BuyOf(o, m) \in Ids /\ SellOf(o, m) \in {o, m}
    BY <1>2 DEF BuyOf, SellOf
  <2>4. /\ orders[SellOf(o, m)] \in Order
        /\ orders[SellOf(o, m)].side = "sell"
    <3>1. orders[m].side # orders[o].side
      BY DEF Match, Makers
    <3> QED BY <1>2, <3>1 DEF SellOf, Order, Sides
  <2>5. SellerReceives(orders[SellOf(o, m)], n) \in Int
    <3>1. /\ orders[SellOf(o, m)].amountSell \in Nat \ {0}
          /\ orders[SellOf(o, m)].amountBuy \in Nat
      BY <2>1, <2>3, <2>4 DEF Base, Order
    <3> DEFINE a == n * orders[SellOf(o, m)].amountBuy
    <3>2. a \in Nat
      BY <3>1
    <3> HIDE DEF a
    <3>3. a \div orders[SellOf(o, m)].amountSell \in Int
      BY <3>1, <3>2
    <3> QED BY <3>3 DEF SellerReceives, a
  <2>6. trades' \in Seq(MatchResult)
    BY <1>1, <1>2, <2>2, <2>3, <2>5 DEF BookCore, BookTypeOK, MatchResult
  <2>7. seen' \subseteq Ids /\ resting' \subseteq seen' /\ incoming' \in seen' \cup {NoOrder}
    BY <1>1 DEF BookCore, BookTypeOK
  <2> QED BY <1>5, <2>6, <2>7 DEF BookTypeOK
<1>7. FillsWithinAmount'
  <2> SUFFICES ASSUME NEW k \in seen
               PROVE  /\ orders'[k].filledBase <= Base(orders'[k])
                      /\ orders'[k].status = "filled" => RemainingBase(orders'[k]) = 0
    BY <1>1 DEF FillsWithinAmount
  <2>1. CASE k \in {o, m}
    <3>1. RemainingBase(orders[k]) >= n /\ RemainingBase(orders[k]) \in Int
      BY <1>1, <1>2, <2>1, AmountTypes
    <3>2. RemainingBase(orders'[k]) >= 0
          /\ (orders'[k].status = "filled" => RemainingBase(orders'[k]) = 0)
      BY <1>3, <2>1, <3>1
    <3>3. orders'[k] \in Order
      BY <1>3, <2>1
    <3> QED BY <3>2, <3>3, AmountTypes DEF RemainingBase
  <2>2. CASE k \notin {o, m}
    BY <1>2, <2>2 DEF BookCore, BookTypeOK, FillsWithinAmount
  <2> QED BY <2>1, <2>2
<1>8. RestingExactlyLive'
  <2> SUFFICES ASSUME NEW k \in seen, k # o
               PROVE  k \in resting' <=> /\ orders'[k].status \in LiveStatuses
                                         /\ RemainingBase(orders'[k]) > 0
    BY <1>1 DEF RestingExactlyLive
  <2>1. CASE k = m
    <3>1. RemainingBase(orders[m]) >= n /\ RemainingBase(orders[m]) \in Int
      BY <1>1, <1>2, AmountTypes
    <3> QED BY <1>1, <1>3, <2>1, <3>1 DEF LiveStatuses
  <2>2. CASE k # m
    BY <1>1, <1>2, <2>2 DEF BookCore, BookTypeOK, RestingExactlyLive
  <2> QED BY <2>1, <2>2
<1>9. BookUncrossed'
  <2> SUFFICES ASSUME NEW b \in resting', NEW s \in resting',
                      orders'[b].side = "buy", orders'[s].side = "sell"
               PROVE  ~Compatible(orders'[b], orders'[s])
    BY DEF BookUncrossed
  <2>1. b \in Ids /\ s \in Ids /\ b \in resting /\ s \in resting
    BY <1>1 DEF BookCore, BookTypeOK
  <2>2. Price(orders'[b]) = Price(orders[b]) /\ Price(orders'[s]) = Price(orders[s])
    BY <1>4, <2>1 DEF Price
  <2>3. ~Compatible(orders[b], orders[s])
    BY <1>4, <2>1 DEF BookCore, BookUncrossed
  <2> QED BY <2>2, <2>3 DEF Compatible
<1>10. IncomingNotResting' /\ IncomingNotCancelled'
  BY <1>1, <1>2, <1>3 DEF BookCore, BookTypeOK, IncomingNotResting, IncomingNotCancelled, LiveStatuses
<1> QED BY <1>6, <1>7, <1>8, <1>9, <1>10 DEF BookCore

\* What the book is depends on nothing but its variables.
LEMMA CoreStutters == BookCore /\ UNCHANGED bookVars => BookCore'
BY DEF bookVars, BookCore, BookTypeOK, FillsWithinAmount, RestingExactlyLive,
       BookUncrossed, IncomingNotResting, IncomingNotCancelled, MatchResult

\* No step of the book changes an order that has not been given to it.
LEMMA UnseenUntouched ==
  ASSUME BookCore, BookNext
  PROVE  /\ seen \subseteq seen'
         /\ \A o \in Ids \ seen : orders'[o] = orders[o]
<1>1. CASE \E o \in Ids : Begin(o) \/ BeginPanics(o)
  BY <1>1 DEF Begin, BeginPanics
<1>2. CASE Finish
  BY <1>2 DEF Finish
<1>3. CASE \E o \in Ids : Cancel(o)
  BY <1>3 DEF Cancel, Found, BookCore, BookTypeOK
<1>4. CASE \E m \in Ids : Match(m)
  <2>1. PICK m \in Ids : Match(m)
    BY <1>4
  <2>2. PICK n \in Nat :
          /\ incoming \in seen /\ m \in resting
          /\ orders' = [orders EXCEPT ![incoming] = Filled(@, n), ![m] = Filled(@, n)]
          /\ UNCHANGED seen
    BY <2>1, MatchFacts
  <2> QED BY <2>2 DEF BookCore, BookTypeOK
<1> QED BY <1>1, <1>2, <1>3, <1>4 DEF BookNext

\* Every step of the book keeps the invariant.
LEMMA BookStepInv == BookInv /\ [BookNext]_bookVars => BookInv'
<1> SUFFICES ASSUME BookInv, [BookNext]_bookVars PROVE BookInv'
  OBVIOUS
<1>1. CASE UNCHANGED bookVars
  BY <1>1, CoreStutters DEF bookVars, BookInv, Fresh
<1>2. CASE BookNext
  <2>1. BookCore'
    <3>1. \A o \in Ids : Begin(o) \/ BeginPanics(o) => Fresh(o)
      BY DEF Begin, BeginPanics, BookInv
    <3> QED BY <1>2, <3>1, BeginInv, BeginPanicsInv, CancelInv, MatchInv, FinishInv
            DEF BookNext, BookInv
  <2>2. \A o \in Ids \ seen' : Fresh(o)'
    BY <1>2, UnseenUntouched DEF BookInv, Fresh
  <2> QED BY <2>1, <2>2 DEF BookInv
<1> QED BY <1>1, <1>2

--------------------------------------------------------------------------------
(***************************************************************************)
(* The theorems.                                                           *)
(***************************************************************************)

\* The inductive invariant holds of every behaviour of the book, for any orders and any
\* price precision.
THEOREM BookInvariant == BookSpec => []BookInv
BY InitInv, BookStepInv, PTL DEF BookSpec

\* The part of the invariant that other modules use.
LEMMA CoreInvariant == BookSpec => []BookCore
BY BookInvariant, PTL DEF BookInv

\* Types, for any orders and any price precision.
THEOREM BookTypes == BookSpec => []BookTypeOK
BY CoreInvariant, PTL DEF BookCore

\* No order is ever filled beyond its base amount.
THEOREM FillsBounded == BookSpec => []FillsWithinAmount
BY CoreInvariant, PTL DEF BookCore

\* The book holds exactly the added orders that can still trade.
THEOREM RestingIsLive == BookSpec => []RestingExactlyLive
BY CoreInvariant, PTL DEF BookCore

\* The book is never crossed, at any precision of the prices.
THEOREM NeverCrossed == BookSpec => []BookUncrossed
BY CoreInvariant, PTL DEF BookCore

\* Filled and cancelled orders never change again.
THEOREM TerminalFrozen == BookSpec => TerminalOrdersFrozen
<1> DEFINE Frozen == \A o \in Ids : orders[o].status \notin LiveStatuses => orders'[o] = orders[o]
<1>1. ASSUME BookInv, [BookNext]_bookVars PROVE [Frozen]_bookVars
  <2>1. ASSUME NEW m \in Ids, Match(m) PROVE Frozen
    <3>1. PICK n \in Nat :
            /\ m \in resting
            /\ orders[incoming].status \in LiveStatuses /\ orders[m].status \in LiveStatuses
            /\ orders' = [orders EXCEPT ![incoming] = Filled(@, n), ![m] = Filled(@, n)]
      BY <1>1, <2>1, MatchFacts DEF BookInv
    <3> QED BY <1>1, <3>1 DEF BookInv, BookCore, BookTypeOK
  <2>2. ASSUME NEW o \in Ids, Cancel(o) PROVE Frozen
    BY <1>1, <2>2
       DEF Cancel, Found, BookInv, BookCore, BookTypeOK, RestingExactlyLive, IncomingNotResting
  <2>3. ASSUME NEW o \in Ids, Begin(o) \/ BeginPanics(o) PROVE Frozen
    BY <2>3 DEF Begin, BeginPanics
  <2>4. ASSUME Finish PROVE Frozen
    BY <2>4 DEF Finish
  <2> QED BY <1>1, <2>1, <2>2, <2>3, <2>4 DEF BookNext
<1>2. BookInv /\ [BookNext]_bookVars => [Frozen]_bookVars
  BY <1>1
<1>3. TerminalOrdersFrozen <=> [][Frozen]_bookVars
  BY PTL DEF TerminalOrdersFrozen
<1> QED BY <1>2, <1>3, BookInvariant, PTL DEF BookSpec

--------------------------------------------------------------------------------
(***************************************************************************)
(* Off-chain prices against on-chain integers: limits that meet can be     *)
(* settled, and limits that do not are matched only if the price type      *)
(* rounds them to one price.  First, arithmetic.                           *)
(***************************************************************************)

\* The quotient is the greatest integer whose product with d does not exceed n.
LEMMA QuotientBound ==
  ASSUME NEW n \in Nat, NEW d \in Nat \ {0}
  PROVE  n \div d \in Int /\ (n \div d) * d <= n
OBVIOUS

\* Nothing greater than the quotient has that bound.
LEMMA QuotientGreatest ==
  ASSUME NEW n \in Nat, NEW d \in Nat \ {0}, NEW x \in Int, x * d <= n
  PROVE  x <= n \div d
OBVIOUS

\* A common positive factor cancels.
LEMMA CancelFactor ==
  ASSUME NEW x \in Int, NEW y \in Int, NEW k \in Nat \ {0}, x * k <= y * k
  PROVE  x <= y
OBVIOUS

\* A natural factor keeps an order.
LEMMA ProductMonotone ==
  ASSUME NEW x \in Int, NEW y \in Int, NEW k \in Nat, x <= y
  PROVE  x * k <= y * k /\ k * x <= k * y
OBVIOUS

\* Rounding to the grid moves a price by half a point at most.
LEMMA RoundingError ==
  ASSUME NEW n \in Nat, NEW d \in Nat \ {0}
  PROVE  /\ RoundHalfEven(n, d) \in Int
         /\ 2 * (RoundHalfEven(n, d) * d) - 2 * n <= d
         /\ 2 * n - 2 * (RoundHalfEven(n, d) * d) <= d
<1> DEFINE q == n \div d
           r == n % d
<1>1. q \in Int /\ r \in Int /\ n = q * d + r /\ 0 <= r /\ r < d
  OBVIOUS
<1>2. (q + 1) * d = q * d + d /\ q * d \in Int
  BY <1>1
<1>3. RoundHalfEven(n, d) = IF 2 * r > d \/ (2 * r = d /\ q % 2 = 1) THEN q + 1 ELSE q
  BY DEF RoundHalfEven
<1> HIDE DEF q, r
<1>4. CASE RoundHalfEven(n, d) = q + 1 /\ 2 * r >= d
  BY <1>1, <1>2, <1>4
<1>5. CASE RoundHalfEven(n, d) = q /\ 2 * r <= d
  BY <1>1, <1>2, <1>5
<1> QED BY <1>1, <1>3, <1>4, <1>5

\* Prices pb of qb/bb and ps of qs/bs, at most half a point off, against the fractions
\* themselves, all times twice the bases.
LEMMA CrossedBases ==
  ASSUME NEW qb \in Nat, NEW bb \in Nat \ {0}, NEW qs \in Nat, NEW bs \in Nat \ {0},
         NEW pb \in Int, NEW ps \in Int, NEW scale \in Nat \ {0},
         2 * (pb * bb) - 2 * (qb * scale) <= bb,
         2 * (qs * scale) - 2 * (ps * bs) <= bs
  PROVE  /\ 2 * (pb * (bb * bs)) - 2 * ((qb * bs) * scale) <= bb * bs
         /\ 2 * ((qs * bb) * scale) - 2 * (ps * (bb * bs)) <= bb * bs
<1>1. (2 * (pb * bb) - 2 * (qb * scale)) * bs <= bb * bs
  <2> DEFINE x == 2 * (pb * bb) - 2 * (qb * scale)
  <2>1. x \in Int /\ x <= bb
    OBVIOUS
  <2> HIDE DEF x
  <2>2. x * bs <= bb * bs
    BY <2>1, ProductMonotone
  <2> QED BY <2>2 DEF x
<1>2. (2 * (pb * bb) - 2 * (qb * scale)) * bs = 2 * (pb * (bb * bs)) - 2 * ((qb * bs) * scale)
  OBVIOUS
<1>3. (2 * (qs * scale) - 2 * (ps * bs)) * bb <= bs * bb
  <2> DEFINE x == 2 * (qs * scale) - 2 * (ps * bs)
  <2>1. x \in Int /\ x <= bs
    OBVIOUS
  <2> HIDE DEF x
  <2>2. x * bb <= bs * bb
    BY <2>1, ProductMonotone
  <2> QED BY <2>2 DEF x
<1>4. (2 * (qs * scale) - 2 * (ps * bs)) * bb = 2 * ((qs * bb) * scale) - 2 * (ps * (bb * bs))
  OBVIOUS
<1>5. bs * bb = bb * bs
  OBVIOUS
<1>6. (2 * (pb * bb) - 2 * (qb * scale)) * bs \in Int /\ (2 * (qs * scale) - 2 * (ps * bs)) * bb \in Int
  OBVIOUS
<1> QED BY <1>1, <1>2, <1>3, <1>4, <1>5

\* If the rounded prices meet and the fractions do not, the prices are equal, and the
\* fractions a grid point apart at most.
LEMMA RoundedTogether ==
  ASSUME NEW qb \in Nat, NEW bb \in Nat \ {0}, NEW qs \in Nat, NEW bs \in Nat \ {0},
         NEW pb \in Int, NEW ps \in Int, NEW scale \in Nat \ {0},
         2 * (pb * bb) - 2 * (qb * scale) <= bb,
         2 * (qs * scale) - 2 * (ps * bs) <= bs,
         pb >= ps, ~(qs * bb <= qb * bs)
  PROVE  pb = ps /\ scale * (qs * bb - qb * bs) <= bb * bs
<1> DEFINE B == bb * bs
           S == (qs * bb) * scale
           D == (qb * bs) * scale
<1>1. B \in Nat \ {0} /\ S \in Int /\ D \in Int /\ qs * bb \in Int /\ qb * bs \in Int
  OBVIOUS
<1>2. 2 * (pb * B) - 2 * D <= B /\ 2 * S - 2 * (ps * B) <= B
  BY CrossedBases
<1>3. D < S
  <2>1. ~((qs * bb) * scale <= (qb * bs) * scale)
    BY <1>1, CancelFactor
  <2> QED BY <1>1, <2>1
<1>4. scale * (qs * bb - qb * bs) = S - D
  OBVIOUS
<1> HIDE DEF B, S, D
<1>5. pb * B \in Int /\ ps * B \in Int
  BY <1>1
<1>6. ~(pb >= ps + 1)
  <2> SUFFICES ASSUME pb >= ps + 1 PROVE FALSE
    OBVIOUS
  <2>1. ps + 1 \in Int /\ B \in Nat
    BY <1>1
  <2>2. (ps + 1) * B <= pb * B
    BY <2>1, ProductMonotone
  <2>3. (ps + 1) * B = ps * B + B
    BY <1>1
  <2> QED BY <1>1, <1>2, <1>3, <1>5, <2>2, <2>3
<1>7. pb = ps
  BY <1>6
<1>8. S - D <= B
  BY <1>1, <1>2, <1>5, <1>7
<1> QED BY <1>4, <1>7, <1>8 DEF B

\* If the limits are compatible as fractions, any fill costs a buyer, rounded down, at least
\* what it brings its seller, rounded down.
LEMMA SettleablePrices ==
  ASSUME NEW qb \in Nat, NEW bb \in Nat \ {0}, NEW qs \in Nat, NEW bs \in Nat \ {0},
         NEW n \in Nat, qs * bb <= qb * bs
  PROVE  (n * qs) \div bs <= (n * qb) \div bb
<1> DEFINE x == (n * qs) \div bs
<1>1. n * qs \in Nat /\ n * qb \in Nat /\ qs * bb \in Int /\ qb * bs \in Int
  OBVIOUS
<1>2. x \in Int /\ x * bs <= n * qs
  BY <1>1, QuotientBound
<1> HIDE DEF x
<1>3. (x * bs) * bb <= (n * qs) * bb
  <2>1. x * bs \in Int /\ n * qs \in Int
    BY <1>1, <1>2
  <2> QED BY <1>2, <2>1, ProductMonotone
<1>4. n * (qs * bb) <= n * (qb * bs)
  BY <1>1, ProductMonotone
<1>5. (x * bb) * bs <= (n * qb) * bs
  <2>1. (x * bs) * bb = (x * bb) * bs
    BY <1>2
  <2>2. (n * qs) * bb = n * (qs * bb) /\ n * (qb * bs) = (n * qb) * bs
    OBVIOUS
  <2> QED BY <1>3, <1>4, <2>1, <2>2, <1>1, <1>2
<1>6. x * bb <= n * qb
  <2>1. x * bb \in Int
    BY <1>2
  <2> QED BY <1>1, <1>5, <2>1, CancelFactor
<1>7. x <= (n * qb) \div bb
  BY <1>1, <1>2, <1>6, QuotientGreatest
<1> QED BY <1>7 DEF x

--------------------------------------------------------------------------------
(***************************************************************************)
(* The prices of orders and trades.                                        *)
(***************************************************************************)

\* No step changes what an order offers and asks.
LEMMA SameTerms ==
  ASSUME BookCore, [BookNext]_bookVars, NEW k \in Ids
  PROVE  /\ Base(orders'[k]) = Base(orders[k]) /\ Quote(orders'[k]) = Quote(orders[k])
         /\ orders'[k].side = orders[k].side
<1>1. orders \in [Ids -> Order] /\ orders[k] \in Order
  BY DEF BookCore, BookTypeOK
<1>2. ASSUME NEW m \in Ids, Match(m)
      PROVE  orders'[k] = orders[k] \/ \E n \in Nat : n > 0 /\ orders'[k] = Filled(orders[k], n)
  <2>1. PICK n \in Nat :
          /\ n > 0 /\ m # incoming
          /\ orders' = [orders EXCEPT ![incoming] = Filled(@, n), ![m] = Filled(@, n)]
    BY <1>2, MatchFacts
  <2> QED BY <1>1, <2>1
<1>3. ASSUME NEW n \in Nat, n > 0, orders'[k] = Filled(orders[k], n)
      PROVE  /\ Base(orders'[k]) = Base(orders[k]) /\ Quote(orders'[k]) = Quote(orders[k])
             /\ orders'[k].side = orders[k].side
  BY <1>1, <1>3, FilledOrder
<1>4. ASSUME NEW o \in Ids, Cancel(o)
      PROVE  /\ Base(orders'[k]) = Base(orders[k]) /\ Quote(orders'[k]) = Quote(orders[k])
             /\ orders'[k].side = orders[k].side
  <2>1. /\ orders'[k].side = orders[k].side /\ orders'[k].amountSell = orders[k].amountSell
        /\ orders'[k].amountBuy = orders[k].amountBuy
    BY <1>1, <1>4 DEF Cancel, Order
  <2> QED BY <2>1 DEF Base, Quote
<1>5. ASSUME NEW o \in Ids, Begin(o) \/ BeginPanics(o) PROVE orders' = orders
  BY <1>5 DEF Begin, BeginPanics
<1>6. Finish \/ UNCHANGED bookVars => orders' = orders
  BY DEF Finish, bookVars
<1> QED BY <1>2, <1>3, <1>4, <1>5, <1>6 DEF BookNext

\* A trade was compatible on the grid and pays the seller its limit, rounded down.
Priced(os, t) ==
  /\ t.buy \in Ids /\ t.sell \in Ids /\ t.fill \in Nat
  /\ os[t.buy].side = "buy" /\ os[t.sell].side = "sell"
  /\ Base(os[t.buy]) > 0 /\ Base(os[t.sell]) > 0
  /\ Compatible(os[t.buy], os[t.sell])
  /\ t.quote = SellerReceives(os[t.sell], t.fill)

AllPriced == \A i \in 1..Len(trades) : Priced(orders, trades[i])

\* At first nothing is traded.
LEMMA AllPricedInit == BookInit => AllPriced
<1> SUFFICES ASSUME BookInit PROVE AllPriced
  OBVIOUS
<1>1. Len(trades) = 0
  BY DEF BookInit
<1> QED BY <1>1 DEF AllPriced

\* What was priced well stays so, as terms never change.
LEMMA PricedStays ==
  ASSUME BookCore, [BookNext]_bookVars, NEW t, Priced(orders, t)
  PROVE  Priced(orders', t)
<1>1. /\ t.buy \in Ids /\ t.sell \in Ids /\ t.fill \in Nat
      /\ orders[t.buy].side = "buy" /\ orders[t.sell].side = "sell"
      /\ Base(orders[t.buy]) > 0 /\ Base(orders[t.sell]) > 0
      /\ Compatible(orders[t.buy], orders[t.sell])
      /\ t.quote = SellerReceives(orders[t.sell], t.fill)
  BY DEF Priced
<1>2. \A k \in Ids : /\ Base(orders'[k]) = Base(orders[k])
                     /\ Quote(orders'[k]) = Quote(orders[k])
                     /\ orders'[k].side = orders[k].side
  BY SameTerms
<1>3. Compatible(orders'[t.buy], orders'[t.sell])
  BY <1>1, <1>2 DEF Compatible, Price
<1>4. SellerReceives(orders'[t.sell], t.fill) = SellerReceives(orders[t.sell], t.fill)
  BY <1>1, <1>2 DEF SellerReceives, Base, Quote
<1> QED BY <1>1, <1>2, <1>3, <1>4 DEF Priced

\* A new match is priced well.
LEMMA MatchPriced ==
  ASSUME BookCore, NEW m \in Ids, Match(m)
  PROVE  \E t : trades' = Append(trades, t) /\ Priced(orders, t)
<1>1. PICK n \in Nat :
        /\ incoming \in seen /\ m \in resting
        /\ n > 0 /\ n <= RemainingBase(orders[incoming]) /\ n <= RemainingBase(orders[m])
        /\ trades' = Append(trades,
             [ buy   |-> BuyOf(incoming, m), sell  |-> SellOf(incoming, m), fill |-> n,
               quote |-> SellerReceives(orders[SellOf(incoming, m)], n),
               price |-> Price(orders[m]),   maker |-> m ])
  BY MatchFacts
<1>2. incoming \in Ids /\ orders[incoming] \in Order /\ orders[m] \in Order
  BY <1>1 DEF BookCore, BookTypeOK
<1>3. orders[m].side # orders[incoming].side
  BY DEF Match, Makers
<1>4. Compatible(orders[BuyOf(incoming, m)], orders[SellOf(incoming, m)])
  BY DEF Match, CanMatch
<1>5. Base(orders[incoming]) > 0 /\ Base(orders[m]) > 0
  BY <1>1, <1>2, AmountTypes DEF RemainingBase
<1>6. /\ BuyOf(incoming, m) \in {incoming, m} /\ SellOf(incoming, m) \in {incoming, m}
      /\ orders[BuyOf(incoming, m)].side = "buy" /\ orders[SellOf(incoming, m)].side = "sell"
  BY <1>2, <1>3 DEF BuyOf, SellOf, Order, Sides
<1>7. BuyOf(incoming, m) \in Ids /\ SellOf(incoming, m) \in Ids
  BY <1>2, <1>6
<1>8. Base(orders[BuyOf(incoming, m)]) > 0 /\ Base(orders[SellOf(incoming, m)]) > 0
  BY <1>5, <1>6
<1> DEFINE t == [ buy   |-> BuyOf(incoming, m), sell  |-> SellOf(incoming, m), fill |-> n,
                  quote |-> SellerReceives(orders[SellOf(incoming, m)], n),
                  price |-> Price(orders[m]),   maker |-> m ]
<1>9. Priced(orders, t)
  BY <1>1, <1>4, <1>6, <1>7, <1>8 DEF Priced
<1> HIDE DEF t
<1>10. trades' = Append(trades, t)
  BY <1>1 DEF t
<1> QED BY <1>9, <1>10

\* Every step of the book keeps that, for amounts never change and matches are compatible.
LEMMA AllPricedStep ==
  ASSUME BookCore, AllPriced, [BookNext]_bookVars
  PROVE  AllPriced'
<1>1. trades \in Seq(MatchResult)
  BY DEF BookCore, BookTypeOK
<1>2. trades' = trades \/ \E t : trades' = Append(trades, t) /\ Priced(orders, t)
  <2>1. ASSUME NEW m \in Ids, Match(m) PROVE \E t : trades' = Append(trades, t) /\ Priced(orders, t)
    BY <2>1, MatchPriced
  <2>2. ASSUME NEW o \in Ids, Begin(o) \/ BeginPanics(o) \/ Cancel(o) PROVE trades' = trades
    BY <2>2 DEF Begin, BeginPanics, Cancel
  <2>3. Finish \/ UNCHANGED bookVars => trades' = trades
    BY DEF Finish, bookVars
  <2> QED BY <2>1, <2>2, <2>3 DEF BookNext
<1>3. \A i \in 1..Len(trades') : Priced(orders, trades'[i])
  <2>1. CASE trades' = trades
    BY <2>1 DEF AllPriced
  <2>2. ASSUME NEW t, trades' = Append(trades, t), Priced(orders, t)
        PROVE  \A i \in 1..Len(trades') : Priced(orders, trades'[i])
    <3>1. /\ Len(trades') = Len(trades) + 1 /\ Len(trades) \in Nat
          /\ \A i \in 1..Len(trades) : trades'[i] = trades[i]
          /\ trades'[Len(trades) + 1] = t
      BY <1>1, <2>2
    <3>2. \A i \in 1..Len(trades') : i \in 1..Len(trades) \/ i = Len(trades) + 1
      BY <3>1
    <3> QED BY <2>2, <3>1, <3>2 DEF AllPriced
  <2> QED BY <1>2, <2>1, <2>2
<1>4. \A i \in 1..Len(trades') : Priced(orders', trades'[i])
  BY <1>3, PricedStays
<1> QED BY <1>4 DEF AllPriced

\* The two orders of a trade in terms of their amounts.
LEMMA TradeTerms ==
  ASSUME BookCore, AllPriced, NEW i \in 1..Len(trades)
  PROVE  LET b == orders[trades[i].buy]
             s == orders[trades[i].sell]
         IN  /\ b.amountSell \in Nat /\ b.amountBuy \in Nat \ {0}
             /\ s.amountBuy \in Nat /\ s.amountSell \in Nat \ {0}
             /\ Price(b) = RoundHalfEven(b.amountSell * PriceScale, b.amountBuy)
             /\ Price(s) = RoundHalfEven(s.amountBuy * PriceScale, s.amountSell)
             /\ Price(b) >= Price(s)
<1> DEFINE b == orders[trades[i].buy]
           s == orders[trades[i].sell]
<1>1. /\ trades[i].buy \in Ids /\ trades[i].sell \in Ids
      /\ b.side = "buy" /\ s.side = "sell" /\ Base(b) > 0 /\ Base(s) > 0 /\ Compatible(b, s)
  BY DEF AllPriced, Priced
<1>2. b \in Order /\ s \in Order
  BY <1>1 DEF BookCore, BookTypeOK
<1> HIDE DEF b, s
<1>3. /\ Base(b) = b.amountBuy /\ Quote(b) = b.amountSell
      /\ Base(s) = s.amountSell /\ Quote(s) = s.amountBuy
  BY <1>1 DEF Base, Quote
<1>4. /\ Base(b) \in Nat \ {0} /\ Base(s) \in Nat \ {0} /\ Quote(b) \in Nat /\ Quote(s) \in Nat
  BY <1>1, <1>2, AmountTypes
<1>5. /\ Price(b) = RoundHalfEven(Quote(b) * PriceScale, Base(b))
      /\ Price(s) = RoundHalfEven(Quote(s) * PriceScale, Base(s))
      /\ Price(b) >= Price(s)
  BY <1>1 DEF Price, Compatible
<1> QED BY <1>3, <1>4, <1>5 DEF b, s

--------------------------------------------------------------------------------
(***************************************************************************)
(* What prices promise.                                                    *)
(***************************************************************************)

\* What the grid can do to the limits of a bid and an offer is bounded by its density.
LEMMA NearTrades == BookCore /\ AllPriced => TradesNearLimits
<1> SUFFICES ASSUME BookCore, AllPriced, NEW i \in 1..Len(trades)
             PROVE  LET b == orders[trades[i].buy]
                        s == orders[trades[i].sell]
                    IN  ~LimitsMeet(b, s) =>
                          /\ MeetOnlyRounded(b, s)
                          /\ PriceScale * (s.amountBuy * b.amountBuy - b.amountSell * s.amountSell)
                               <= b.amountBuy * s.amountSell
  BY DEF TradesNearLimits
<1> DEFINE b == orders[trades[i].buy]
           s == orders[trades[i].sell]
<1>1. /\ b.amountSell \in Nat /\ b.amountBuy \in Nat \ {0}
      /\ s.amountBuy \in Nat /\ s.amountSell \in Nat \ {0}
      /\ Price(b) = RoundHalfEven(b.amountSell * PriceScale, b.amountBuy)
      /\ Price(s) = RoundHalfEven(s.amountBuy * PriceScale, s.amountSell)
      /\ Price(b) >= Price(s)
  BY TradeTerms
<1> HIDE DEF b, s
<1>2. PriceScale \in Nat \ {0}
  BY PriceScaleAssumption
<1>3. b.amountSell * PriceScale \in Nat /\ s.amountBuy * PriceScale \in Nat
  BY <1>1, <1>2
<1>4. /\ Price(b) \in Int
      /\ 2 * (Price(b) * b.amountBuy) - 2 * (b.amountSell * PriceScale) <= b.amountBuy
  BY <1>1, <1>3, RoundingError
<1>5. /\ Price(s) \in Int
      /\ 2 * (s.amountBuy * PriceScale) - 2 * (Price(s) * s.amountSell) <= s.amountSell
  BY <1>1, <1>3, RoundingError
<1>6. ASSUME ~(s.amountBuy * b.amountBuy <= b.amountSell * s.amountSell)
      PROVE  /\ Price(b) = Price(s)
             /\ PriceScale * (s.amountBuy * b.amountBuy - b.amountSell * s.amountSell)
                  <= b.amountBuy * s.amountSell
  BY <1>1, <1>2, <1>4, <1>5, <1>6, RoundedTogether
<1>7. ~LimitsMeet(b, s) =>
        /\ MeetOnlyRounded(b, s)
        /\ PriceScale * (s.amountBuy * b.amountBuy - b.amountSell * s.amountSell)
             <= b.amountBuy * s.amountSell
  BY <1>6 DEF LimitsMeet, MeetOnlyRounded
<1> QED BY <1>7 DEF b, s

\* Where limits meet, what a buyer must pay covers what its seller must get.
LEMMA SettleableTrades == BookCore /\ AllPriced => MeetingLimitsSettle
<1> SUFFICES ASSUME BookCore, AllPriced, NEW i \in 1..Len(trades),
                    LimitsMeet(orders[trades[i].buy], orders[trades[i].sell])
             PROVE  trades[i].quote <= BuyerPays(orders[trades[i].buy], trades[i].fill)
  BY DEF MeetingLimitsSettle
<1> DEFINE b == orders[trades[i].buy]
           s == orders[trades[i].sell]
           n == trades[i].fill
<1>1. /\ b.amountSell \in Nat /\ b.amountBuy \in Nat \ {0} /\ s.amountBuy \in Nat
      /\ s.amountSell \in Nat \ {0}
      /\ s.amountBuy * b.amountBuy <= b.amountSell * s.amountSell
  BY TradeTerms DEF LimitsMeet
<1>2. n \in Nat /\ trades[i].quote = (n * s.amountBuy) \div s.amountSell
  BY DEF AllPriced, Priced, SellerReceives
<1>3. BuyerPays(b, n) = (n * b.amountSell) \div b.amountBuy
  BY DEF BuyerPays
<1> HIDE DEF b, s, n
<1>4. (n * s.amountBuy) \div s.amountSell <= (n * b.amountSell) \div b.amountBuy
  BY <1>1, <1>2, SettleablePrices
<1>5. trades[i].quote <= BuyerPays(b, n)
  BY <1>2, <1>3, <1>4
<1> QED BY <1>5 DEF b, n

\* Every trade was compatible on the grid when it was made and remains so.
LEMMA PricedInvariant == BookSpec => []AllPriced
BY AllPricedInit, AllPricedStep, CoreInvariant, PTL DEF BookSpec

\* Whatever the precision of the price type, an order trades beyond its limit only with one
\* whose limit rounds to the same price, and by no more than a point of the grid.
THEOREM LimitsRespected == BookSpec => []TradesNearLimits
BY NearTrades, PricedInvariant, CoreInvariant, PTL

\* Whatever the precision of the price type, a match of limits that meet as fractions passes
\* the contract's price check, for all amounts and fills and the rounding of each quote.
THEOREM MatchesSettle == BookSpec => []MeetingLimitsSettle
BY SettleableTrades, PricedInvariant, CoreInvariant, PTL
================================================================================
