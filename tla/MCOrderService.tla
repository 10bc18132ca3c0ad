---------------------------- MODULE MCOrderService ----------------------------
(***************************************************************************)
(* Small instances of OrderService.                                        *)
(***************************************************************************)
EXTENDS OrderService

CONSTANTS o1, o2, o3

Bid(quote, base, at) ==
  [ side |-> "buy", amountSell |-> quote, amountBuy |-> base,
    createdAt |-> at, filledBase |-> 0, status |-> "open" ]

Offer(quote, base, at) ==
  [ side |-> "sell", amountSell |-> base, amountBuy |-> quote,
    createdAt |-> at, filledBase |-> 0, status |-> "open" ]

\* A bid for two base units and two orders for one, all at the same price; the last is
\* an offer, or a bid behind the first.
MCIds    == {o1, o2, o3}
MCInputs == (o1 :> {Bid(2, 2, 1)}) @@ (o2 :> {Offer(1, 1, 2)}) @@
            (o3 :> {Offer(1, 1, 3), Bid(1, 1, 3)})

\* The last order may also be one without any amount, whose time was taken first: it is
\* the first to be loaded.  (Loaded later, it lets every restart match what it loads before.)
PanicInputs == [MCInputs EXCEPT ![o3] = @ \cup {Bid(0, 0, 0)}]

PairIds == {o1, o2}

\* One order without any amount beside a plain one.
ZeroInputs == (o1 :> {Bid(0, 0, 1)}) @@ (o2 :> {Offer(1, 1, 2)})

\* A bid at 3/2 and an offer at 2, which a price type of whole numbers takes for equal.
RoundedInputs == (o1 :> {Bid(3, 2, 1)}) @@ (o2 :> {Offer(2, 1, 2)})
================================================================================
