------------------------------ MODULE MCNexusVault -----------------------------
(***************************************************************************)
(* A small instance of NexusVault.                                         *)
(***************************************************************************)
EXTENDS NexusVault

CONSTANTS alice, bob, base, quote

MakeOrder(maker, sell, amountSell, buy, amountBuy, expiry, nonce) ==
  [ maker |-> maker, tokenSell |-> sell, tokenBuy |-> buy, amountSell |-> amountSell,
    amountBuy |-> amountBuy, expiry |-> expiry, nonce |-> nonce, salt |-> 0 ]

\* Alice bids 5 quote for 3 base, Bob offers 3 base for 4 quote, and Alice offers 2 base
\* for 3 quote, which settles against her own bid too.  Her last order sells base for base: the
\* contract lets it settle against itself.
MCOrders ==
  { MakeOrder(alice, quote, 5, base, 3, 0, 0),
    MakeOrder(bob,   base,  3, quote, 4, 1, 0),
    MakeOrder(alice, base,  2, quote, 3, 1, 1),
    MakeOrder(alice, base,  2, base,  2, 1, 1) }
================================================================================
