------------------------------- MODULE MCExchange ------------------------------
(***************************************************************************)
(* A small instance of Exchange.                                           *)
(***************************************************************************)
EXTENDS Exchange

CONSTANTS o1, o2, o3, alice, bob, base, quote

\* Alice bids 3 quote for 2 base; Bob offers 1 base for 1 quote.  The third row is Bob's
\* offer submitted again, an offer at 3/2 or at 2, or one that says "buy" beside it.
MCIds == {o1, o2, o3}

Buy(q, b, at)  == [ side |-> "buy",  amountSell |-> q, amountBuy |-> b,
                    createdAt |-> at, filledBase |-> 0, status |-> "open" ]
Sell(q, b, at) == [ side |-> "sell", amountSell |-> b, amountBuy |-> q,
                    createdAt |-> at, filledBase |-> 0, status |-> "open" ]

MCInputs == (o1 :> {Buy(3, 2, 1)}) @@ (o2 :> {Sell(1, 1, 2)}) @@
            (o3 :> {Sell(1, 1, 3), Sell(3, 2, 3), Sell(2, 1, 3), Buy(2, 1, 3)})

Signs(maker, sell, buy, expiry) ==
  [ maker |-> maker, tokenSell |-> sell, tokenBuy |-> buy,
    expiry |-> expiry, nonce |-> 0, salt |-> 0 ]

MCTerms == (o1 :> Signs(alice, quote, base, 1)) @@ (o2 :> Signs(bob, base, quote, 0)) @@
           (o3 :> Signs(bob, base, quote, 0))
================================================================================
