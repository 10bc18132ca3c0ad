--------------------------- MODULE MCMatchingEngine ----------------------------
(***************************************************************************)
(* Small instances of MatchingEngine.                                      *)
(***************************************************************************)
EXTENDS MatchingEngine

CONSTANTS o1, o2, o3, o4, o5, o6, o7

Bid(quote, base, at) ==
  [ side |-> "buy", amountSell |-> quote, amountBuy |-> base,
    createdAt |-> at, filledBase |-> 0, status |-> "open" ]

Offer(quote, base, at) ==
  [ side |-> "sell", amountSell |-> base, amountBuy |-> quote,
    createdAt |-> at, filledBase |-> 0, status |-> "open" ]

\* An order read back from the database after a partial fill.
Part(o, n) == [o EXCEPT !.filledBase = n, !.status = "partially_filled"]

MCIds == {o1, o2, o3, o4, o5, o6, o7}

\* Both sides, four limits, equal prices with equal and different times, a partially
\* filled order and orders without base amount, quote amount or (the other three) both.
\* In halves, 4/3 and 3/2 round to one price.
Mixed ==
  (o1 :> { Bid(3, 2, 1), Part(Bid(4, 3, 1), 1), Offer(4, 3, 1) }) @@
  (o2 :> { Offer(2, 2, 1), Part(Offer(3, 3, 2), 2), Bid(2, 2, 2) }) @@
  (o3 :> { Bid(3, 2, 1), Bid(2, 2, 2), Offer(2, 2, 1), Offer(2, 1, 2), Offer(3, 2, 2) }) @@
  (o4 :> { Bid(4, 3, 3), Offer(2, 2, 3), Bid(2, 0, 3), Offer(0, 2, 3) })

Empty == [ id \in {o5, o6, o7} |-> Bid(0, 0, 3) ]

\* Six bids of two units, added and cancelled in any order: a heap deep enough that
\* removing from the middle has to move an entry up.  An offer of five units at 2 eats
\* into whatever is there, and leaves the bid it ends on partly filled.
Deep ==
  (o1 :> Bid(8, 2, 1)) @@ (o2 :> Bid(6, 2, 1)) @@ (o3 :> Bid(6, 2, 2)) @@
  (o4 :> Bid(4, 2, 1)) @@ (o5 :> Bid(4, 2, 2)) @@ (o6 :> Bid(2, 2, 1)) @@
  (o7 :> Offer(10, 5, 1))

MCInputs == [ id \in MCIds |-> {Deep[id]} \cup (IF id \in DOMAIN Mixed THEN Mixed[id]
                                               ELSE {Empty[id]}) ]

\* Of these, either all orders are mixed or all are deep.
MCInit ==
  /\ \/ orders = Deep
     \/ \E a \in Mixed[o1], b \in Mixed[o2], c \in Mixed[o3], d \in Mixed[o4] :
          orders = (o1 :> a) @@ (o2 :> b) @@ (o3 :> c) @@ (o4 :> d) @@ Empty
  /\ Init

MCSpec == MCInit /\ [][Next]_vars /\ AddOrderRuns
================================================================================
