-------------------------------- MODULE Exchange -------------------------------
(***************************************************************************)
(* The whole exchange: the backend of OrderService with the contract of    *)
(* NexusVault behind the node.  Whether a transaction succeeds is no       *)
(* longer open; the contract decides, on the orders as their makers signed *)
(* them.                                                                   *)
(*                                                                         *)
(* What a maker signs are the eight fields of OrderTypes.Order.  Side and  *)
(* pair travel beside them, and the engine sees only side, amounts and     *)
(* time.  Hashing is abstracted to what it is for: equal hashes are equal  *)
(* fields, and a signature verifies exactly for the fields that were       *)
(* signed, in pkg/eip712 as in OrderValidator.sol.                         *)
(***************************************************************************)
EXTENDS OrderService

CONSTANTS
  Terms,       \* Ids -> maker, tokens, expiry, nonce and salt of the order.
  MaxMoves,    \* Bound on what users do on chain after their deposits.
  Users, Owner, Tokens, Supply, MaxUint, MaxTime    \* As in NexusVault.

VARIABLES
  moves,
  balances, orderFills, orderCancelled, minNonce, wallet, reserve, signed, now, ledger

\* What tuplifyOrder sends to the contract, and the OrderData the service verifies.
Message(t, o) ==
  [ maker |-> t.maker, tokenSell |-> t.tokenSell, tokenBuy |-> t.tokenBuy,
    amountSell |-> o.amountSell, amountBuy |-> o.amountBuy,
    expiry |-> t.expiry, nonce |-> t.nonce, salt |-> t.salt ]

TuplifyOrder(o) == Message(Terms[o], orders[o])

Messages == UNION { { Message(Terms[id], o) : o \in Inputs[id] } : id \in Ids }

Vault == INSTANCE NexusVault WITH
  Orders <- Messages, Amounts <- 0..MaxUint, Fills <- 0..MaxUint, MaxNonce <- 1

ASSUME ExchangeAssumption ==
  /\ IsFiniteSet(Users) /\ Owner \in Users
  /\ MaxUint \in Nat /\ Supply \in Nat /\ MaxTime \in Nat
  /\ Supply * Cardinality(Users) <= MaxUint    \* An ERC-20 balance is a uint256.
  /\ Messages \subseteq Vault!Order

chain == <<balances, orderFills, orderCancelled, minNonce, wallet, reserve, signed, now, ledger>>
exchangeVars == <<vars, moves, chain>>

\* Everybody has deposited everything.  Somebody may submit an order nobody has signed.
ExchangeInit ==
  /\ Init
  /\ moves = 0
  /\ balances = [u \in Users |-> [t \in Tokens |-> Supply]]
  /\ wallet = [u \in Users |-> [t \in Tokens |-> 0]]
  /\ reserve = [t \in Tokens |-> Supply * Cardinality(Users)]
  /\ orderFills = [m \in Messages |-> 0] /\ orderCancelled = {}
  /\ minNonce = [u \in Users |-> 0] /\ now = 0
  /\ ledger = [m \in Messages |-> [bought |-> 0, paid |-> 0, sold |-> 0, received |-> 0, fills |-> 0]]
  /\ \E forged \in { {} } \cup { {o} : o \in Ids } :
       signed = { TuplifyOrder(o) : o \in Ids \ forged }

--------------------------------------------------------------------------------
\* Mutation of Verified: the signature is not checked.
Unverified(o) == TRUE

\* VerifyOrderSignature: SubmitOrder rejects what its maker has not signed.
Verified(o) == TuplifyOrder(o) \in signed

BackendStep ==
  /\ Backend
  /\ \A o \in Ids : pc[o] = "idle" /\ pc'[o] # "idle" => Verified(o)
  /\ UNCHANGED <<moves, chain>>

\* The node runs the next transaction, the worker's call of settleMatch.
Settle ==
  /\ Mine
  /\ \E i \in DOMAIN txs :
       LET t == trades[txs[i].trade]
           b == TuplifyOrder(t.buy)
           s == TuplifyOrder(t.sell)
       IN  /\ txs'[i] # txs[i]
           /\ IF txs'[i].status = "mined" THEN Vault!SettleMatch(Owner, b, s, t.fill)
              ELSE ~Vault!Accepted(b, s, t.fill) /\ UNCHANGED chain
  /\ UNCHANGED moves

\* Meanwhile a user withdraws all it has, cancels or outdates an order, or time passes.
Move ==
  /\ moves < MaxMoves /\ moves' = moves + 1
  /\ \/ \E u \in Users, t \in Tokens : Vault!Withdraw(u, t, balances[u][t])
     \/ \E m \in signed : Vault!CancelOrder(m.maker, m)
     \/ \E u \in Users : Vault!IncrementMinNonce(u, 1)
     \/ Vault!Tick
  /\ UNCHANGED vars

ExchangeNext == BackendStep \/ Settle \/ Move

ExchangeSpec == ExchangeInit /\ [][ExchangeNext]_exchangeVars

--------------------------------------------------------------------------------
(***************************************************************************)
(* Properties.                                                             *)
(***************************************************************************)

\* What the engine does not see of a match: that an order has died on chain, that a side
\* cannot pay, that two rows carry one signature, that side and tokens disagree, that
\* the contract's products, which its big integers have room for, exceed a word, or that
\* two limits meet in the price type only.
Unforeseeable(t) ==
  LET b == TuplifyOrder(t.buy)
      s == TuplifyOrder(t.sell)
  IN  \/ ~Vault!Live(b) \/ ~Vault!Live(s)
      \/ balances[b.maker][b.tokenSell] < t.quote \/ balances[s.maker][s.tokenSell] < t.fill
      \/ \E o \in Ids \ {t.buy} : TuplifyOrder(o) = b
      \/ \E o \in Ids \ {t.sell} : TuplifyOrder(o) = s
      \/ <<b.tokenSell, b.tokenBuy>> # <<s.tokenBuy, s.tokenSell>>
      \/ t.fill * b.amountSell > MaxUint \/ t.fill * s.amountBuy > MaxUint
      \/ MeetOnlyRounded(orders[t.buy], orders[t.sell])

\* But for that the engine only makes matches the contract accepts: signatures verify,
\* quotes agree after both sides' rounding, nothing is divided by zero, overfilled or
\* credited beyond a word.  A match of a process that never died is refused only for what
\* the engine does not see.  (engine.go:83-174, order_service.go:87-93 against
\* NexusOrderBook.sol:56-118)
RevertsExplained ==
  [][\A i \in DOMAIN txs :
       txs'[i] # txs[i] /\ txs'[i].status = "reverted" /\ crashes = 0 =>
         Unforeseeable(trades[txs[i].trade])]_exchangeVars

\* What the trades say was exchanged is what the contract moved: over any number of
\* partial fills, retries, crashes and reloads, each signed order has paid, received and
\* been filled by exactly the sums over its mined matches.
\* (engine.go:100-111,148-160, settlement.go:66-75 against NexusOrderBook.sol:71-81)
SettledAsRecorded ==
  \A m \in Messages :
    LET buys  == { t \in Mined : TuplifyOrder(trades[t].buy) = m }
        sells == { t \in Mined : TuplifyOrder(trades[t].sell) = m }
        fills(ts)  == SumFunction([t \in ts |-> trades[t].fill])
        quotes(ts) == SumFunction([t \in ts |-> trades[t].quote])
    IN  /\ ledger[m].bought = fills(buys)   /\ ledger[m].paid = quotes(buys)
        /\ ledger[m].sold   = fills(sells)  /\ ledger[m].received = quotes(sells)
================================================================================
