------------------------------- MODULE OrderMath -------------------------------
(***************************************************************************)
(* The arithmetic of an order: backend/internal/domain/order.go and the    *)
(* two small helpers at the end of backend/internal/orderbook/engine.go.   *)
(*                                                                         *)
(* An order exchanges amountSell of one token for amountBuy of the other.  *)
(* Amounts are naturals: the code keeps them in arbitrary precision        *)
(* (math/big), so nothing wraps here.  A price, however, is a float64, and *)
(* the engine decides compatibility on it.                                 *)
(***************************************************************************)
EXTENDS Integers

CONSTANT
  PriceScale     \* Grid points of the price type per unit of price.

\* float64 is a uniform grid inside one binade; PriceScale is its density.
ASSUME PriceScaleAssumption == PriceScale \in Nat \ {0}

Sides        == {"buy", "sell"}
LiveStatuses == {"open", "partially_filled"}
Statuses     == LiveStatuses \cup {"filled", "cancelled"}

\* The fields of domain.Order the engine reads or writes.  Maker, tokens,
\* nonce, expiry, salt and signature never reach it.
Order == [ side       : Sides,
           amountSell : Nat,
           amountBuy  : Nat,
           createdAt  : Nat,
           filledBase : Nat,
           status     : Statuses ]

Base(o)  == IF o.side = "buy" THEN o.amountBuy  ELSE o.amountSell
Quote(o) == IF o.side = "buy" THEN o.amountSell ELSE o.amountBuy

RemainingBase(o) == Base(o) - o.filledBase

\* n / d to the nearest integer, ties to even: the rounding of big.Float.
RoundHalfEven(n, d) ==
  LET q == n \div d
      r == n % d
  IN  IF 2 * r > d \/ (2 * r = d /\ q % 2 = 1) THEN q + 1 ELSE q

\* Quote per base, in units of 1/PriceScale.  An order with no base amount
\* has an infinite price in the code; nothing compares it, because every
\* comparison is behind RemainingBase > 0.
Price(o) == RoundHalfEven(Quote(o) * PriceScale, Base(o))

\* 0/0 is the one quotient big.Float refuses: Quo panics with ErrNaN.
PricePanics(o) == Base(o) = 0 /\ Quote(o) = 0

\* BuyHeap.Less and SellHeap.Less: better price first, then the earlier order.
Ahead(a, b) ==
  IF Price(a) = Price(b) THEN a.createdAt < b.createdAt
  ELSE IF a.side = "buy" THEN Price(a) > Price(b) ELSE Price(a) < Price(b)

\* The engine's test before a match: the buyer bids at least the ask.
Compatible(buy, sell) == Price(buy) >= Price(sell)

\* Mutation of MinBigInt: the comparison is turned round.
MaxBigInt(a, b) == IF a < b THEN b ELSE a

MinBigInt(a, b) == IF a < b THEN a ELSE b

\* Mutation of Filled: the fill is subtracted.
Unfilled(o, n) == [o EXCEPT !.filledBase = @ - n]

\* FilledBase grows by n and updateOrderStatus runs on the result.
Filled(o, n) ==
  LET p == [o EXCEPT !.filledBase = @ + n]
  IN  [p EXCEPT !.status = IF RemainingBase(p) <= 0 THEN "filled"
                           ELSE IF p.filledBase > 0 THEN "partially_filled"
                           ELSE @]

\* Mutation of SellerReceives: rounded up.
SellerReceivesUp(sell, n) == (n * sell.amountBuy + sell.amountSell - 1) \div sell.amountSell

\* What the seller is paid for n base units: its own limit price, rounded down.
SellerReceives(sell, n) == (n * sell.amountBuy) \div sell.amountSell

\* The most the buyer agreed to pay for n base units, rounded down.
BuyerPays(buy, n) == (n * buy.amountSell) \div buy.amountBuy
================================================================================
