------------------------------- MODULE NexusVault ------------------------------
(***************************************************************************)
(* The settlement contract: contracts/src/NexusOrderBook.sol, with         *)
(* OrderValidator.sol and libraries/OrderTypes.sol.                        *)
(*                                                                         *)
(* A transaction is atomic: it runs to its end or reverts, changing        *)
(* nothing.  Every require, every checked overflow and every division by   *)
(* zero is therefore a guard.  An order stands for its hash, and a         *)
(* signature that recovers to the maker for membership in `signed'.        *)
(* Tokens are plain ERC-20s, without fees or hooks, approved beforehand.   *)
(***************************************************************************)
EXTENDS Integers, FiniteSets

CONSTANTS
  Users,      \* Addresses.
  Owner,      \* The operator, who alone may settle.
  Tokens,
  Orders,     \* The orders anyone may ever sign.
  Amounts,    \* Amounts of deposits and withdrawals.
  Fills,      \* The fillAmount of a settlement.
  Supply,     \* What each user holds of each token before the first deposit.
  MaxUint,    \* 2^256 - 1
  MaxNonce,   \* Bound on minNonce.
  MaxTime     \* Bound on block.timestamp.

Uint == 0..MaxUint

\* OrderTypes.Order.
Order == [ maker      : Users,  tokenSell : Tokens, tokenBuy : Tokens,
           amountSell : Uint,   amountBuy : Uint,
           expiry     : Nat,    nonce     : Nat,    salt     : Nat ]

ASSUME VaultAssumption ==
  /\ Owner \in Users
  /\ MaxUint \in Nat
  /\ Orders \subseteq Order
  /\ Amounts \subseteq Uint
  /\ Fills \subseteq Uint
  /\ Supply \in Uint
  /\ MaxNonce \in Nat
  /\ MaxTime \in Nat

VARIABLES
  balances,        \* user -> token -> credit in the contract
  orderFills,      \* order -> units filled
  orderCancelled,  \* orders cancelled
  minNonce,        \* maker -> least usable nonce
  wallet,          \* user -> token -> ERC-20 balance (the tokens' state)
  reserve,         \* token -> ERC-20 balance of the contract (the tokens' state)
  signed,          \* orders their maker has signed (off chain)
  now,             \* block.timestamp
  ledger           \* What every order has exchanged so far; no code reads it.

contract == <<balances, orderFills, orderCancelled, minNonce>>
vars == <<balances, orderFills, orderCancelled, minNonce, wallet, reserve, signed, now, ledger>>

\* Exchanged by an order as the buy side of settlements (bought, paid) and as the
\* sell side (sold, received); fills counts its settlements of a positive amount.
Ledger == [ bought : Nat, paid : Nat, sold : Nat, received : Nat, fills : Nat ]

Init ==
  /\ balances = [u \in Users |-> [t \in Tokens |-> 0]]
  /\ orderFills = [o \in Orders |-> 0]
  /\ orderCancelled = {}
  /\ minNonce = [u \in Users |-> 0]
  /\ wallet = [u \in Users |-> [t \in Tokens |-> Supply]]
  /\ reserve = [t \in Tokens |-> 0]
  /\ signed = {}
  /\ now = 0
  /\ ledger = [o \in Orders |-> [bought |-> 0, paid |-> 0, sold |-> 0, received |-> 0, fills |-> 0]]

--------------------------------------------------------------------------------
Credit(b, u, t, n) == [b EXCEPT ![u][t] = @ + n]
Debit(b, u, t, n)  == [b EXCEPT ![u][t] = @ - n]

Deposit(u, t, n) ==
  /\ n > 0
  /\ wallet[u][t] >= n
  /\ balances[u][t] + n <= MaxUint
  /\ wallet' = Debit(wallet, u, t, n)
  /\ reserve' = [reserve EXCEPT ![t] = @ + n]
  /\ balances' = Credit(balances, u, t, n)
  /\ UNCHANGED <<orderFills, orderCancelled, minNonce, signed, now, ledger>>

\* Mutation of Withdraw: the credit is not checked.
WithdrawUnchecked(u, t, n) ==
  /\ n > 0
  /\ reserve[t] >= n
  /\ balances' = Debit(balances, u, t, n)
  /\ reserve' = [reserve EXCEPT ![t] = @ - n]
  /\ wallet' = Credit(wallet, u, t, n)
  /\ UNCHANGED <<orderFills, orderCancelled, minNonce, signed, now, ledger>>

Withdraw(u, t, n) ==
  /\ n > 0
  /\ balances[u][t] >= n
  /\ reserve[t] >= n
  /\ balances' = Debit(balances, u, t, n)
  /\ reserve' = [reserve EXCEPT ![t] = @ - n]
  /\ wallet' = Credit(wallet, u, t, n)
  /\ UNCHANGED <<orderFills, orderCancelled, minNonce, signed, now, ledger>>

\* What _validateOrders and settleMatch ask of each order on its own.
Live(o) ==
  /\ o \notin orderCancelled
  /\ o.nonce >= minNonce[o.maker]
  /\ now <= o.expiry

\* _validateSignature: the 65 bytes passed with o recover to its maker.
ValidSignature(o) == o \in signed

\* Mutations of Validated: the buy order is checked twice, for its state or its signature.
ValidatedBuyState(b, s) ==
  /\ b.tokenBuy = s.tokenSell
  /\ b.tokenSell = s.tokenBuy
  /\ ValidSignature(b) /\ ValidSignature(s)
  /\ Live(b)

ValidatedBuySignature(b, s) ==
  /\ b.tokenBuy = s.tokenSell
  /\ b.tokenSell = s.tokenBuy
  /\ ValidSignature(b)
  /\ Live(b) /\ Live(s)

\* _validateOrders, and the two orderCancelled lookups.
Validated(b, s) ==
  /\ b.tokenBuy = s.tokenSell
  /\ b.tokenSell = s.tokenBuy
  /\ ValidSignature(b) /\ ValidSignature(s)
  /\ Live(b) /\ Live(s)

\* Mutation of SellerReceives: it divides before it multiplies.
DividedFirst(s, f) == f * (s.amountBuy \div s.amountSell)

\* The two quotients of settleMatch, of which the seller receives its own.
SellerReceives(s, f) == (f * s.amountBuy) \div s.amountSell
BuyerPays(b, f)      == (f * b.amountSell) \div b.amountBuy

\* settleMatch's arithmetic neither overflows nor divides by zero.
Computable(b, s, f) ==
  /\ s.amountSell > 0 /\ f * s.amountBuy <= MaxUint
  /\ b.amountBuy > 0  /\ f * b.amountSell <= MaxUint

\* Mutation of WithinAmounts: earlier fills are forgotten.
WithinAmountsOnce(b, s, f) == f <= s.amountSell /\ f <= b.amountBuy

\* Neither order is overfilled; an order settled against itself is added to twice.
WithinAmounts(b, s, f) ==
  /\ orderFills[s] + f <= s.amountSell
  /\ orderFills[b] + f <= b.amountBuy
  /\ b = s => orderFills[b] + f + f <= MaxUint

\* The four assignments of _executeTransfers, in order.
Paid(b, s, f, q)        == Debit(balances, b.maker, b.tokenSell, q)
PaidOver(b, s, f, q)    == Credit(Paid(b, s, f, q), s.maker, s.tokenBuy, q)
\* Mutation of Delivered: the seller keeps what it sold.
NotDelivered(b, s, f, q) == PaidOver(b, s, f, q)

Delivered(b, s, f, q)   == Debit(PaidOver(b, s, f, q), s.maker, s.tokenSell, f)
Transferred(b, s, f, q) == Credit(Delivered(b, s, f, q), b.maker, b.tokenBuy, f)

\* _executeTransfers succeeds: both balances suffice and no assignment over- or underflows.
Transferable(b, s, f, q) ==
  /\ balances[b.maker][b.tokenSell] >= q
  /\ balances[s.maker][s.tokenSell] >= f
  /\ PaidOver(b, s, f, q)[s.maker][s.tokenBuy] <= MaxUint
  /\ Delivered(b, s, f, q)[s.maker][s.tokenSell] >= 0
  /\ Transferred(b, s, f, q)[b.maker][b.tokenBuy] <= MaxUint

\* The history of one more settlement of f units for q, on the buy and the sell side.
Positive(f)     == IF f > 0 THEN 1 ELSE 0
Bought(l, f, q) == [l EXCEPT !.bought = @ + f, !.paid = @ + q, !.fills = @ + Positive(f)]
Sold(l, f, q)   == [l EXCEPT !.sold = @ + f, !.received = @ + q, !.fills = @ + Positive(f)]

Recorded(b, s, f, q) ==
  [[ledger EXCEPT ![s] = Sold(@, f, q)] EXCEPT ![b] = Bought(@, f, q)]

\* Every check between the call and the end of settleMatch, onlyOwner apart.
Accepted(b, s, f) ==
  /\ Validated(b, s)
  /\ Computable(b, s, f)
  /\ BuyerPays(b, f) >= SellerReceives(s, f)
  /\ WithinAmounts(b, s, f)
  /\ Transferable(b, s, f, SellerReceives(s, f))

SettleMatch(sender, b, s, f) ==
  LET q == SellerReceives(s, f)
  IN  /\ sender = Owner
      /\ Accepted(b, s, f)
      /\ orderFills' = [[orderFills EXCEPT ![s] = @ + f] EXCEPT ![b] = @ + f]
      /\ balances' = Transferred(b, s, f, q)
      /\ ledger' = Recorded(b, s, f, q)
      /\ UNCHANGED <<orderCancelled, minNonce, wallet, reserve, signed, now>>

CancelOrder(sender, o) ==
  /\ sender = o.maker
  /\ o \notin orderCancelled
  /\ orderCancelled' = orderCancelled \cup {o}
  /\ UNCHANGED <<balances, orderFills, minNonce, wallet, reserve, signed, now, ledger>>

IncrementMinNonce(u, n) ==
  /\ n > minNonce[u]
  /\ minNonce' = [minNonce EXCEPT ![u] = n]
  /\ UNCHANGED <<balances, orderFills, orderCancelled, wallet, reserve, signed, now, ledger>>

\* The maker signs in its wallet; nothing on chain changes.
SignOrder(o) ==
  /\ signed' = signed \cup {o}
  /\ UNCHANGED <<contract, wallet, reserve, now, ledger>>

\* A block with a later timestamp.
Tick ==
  /\ now < MaxTime
  /\ now' = now + 1
  /\ UNCHANGED <<contract, wallet, reserve, signed, ledger>>

Next ==
  \/ \E u \in Users, t \in Tokens, n \in Amounts : Deposit(u, t, n) \/ Withdraw(u, t, n)
  \/ \E u \in Users, b, s \in Orders, f \in Fills : SettleMatch(u, b, s, f)
  \/ \E u \in Users, o \in Orders : CancelOrder(u, o)
  \/ \E u \in Users, n \in 1..MaxNonce : IncrementMinNonce(u, n)
  \/ \E o \in Orders : SignOrder(o)
  \/ Tick

Spec == Init /\ [][Next]_vars

--------------------------------------------------------------------------------
(***************************************************************************)
(* Properties.                                                             *)
(***************************************************************************)

\* Types: credits and fills stay uint256 values, in particular never negative.
VaultTypeOK ==
  /\ balances \in [Users -> [Tokens -> Uint]]
  /\ orderFills \in [Orders -> Uint]
  /\ orderCancelled \subseteq Orders
  /\ minNonce \in [Users -> Nat]
  /\ wallet \in [Users -> [Tokens -> Nat]]
  /\ reserve \in [Tokens -> Nat]
  /\ signed \subseteq Orders
  /\ now \in Nat
  /\ ledger \in [Orders -> Ledger]

\* Unit number i of user u's credit of token t, for every unit there is: as many
\* pairs as the users' credits of t add up to.
Claims(bal, t) == { c \in Users \X (1..MaxUint) : c[2] <= bal[c[1]][t] }

\* The contract holds exactly the tokens it owes: the users' credits of a token add up
\* to its ERC-20 balance, so every user can always withdraw everything, however
\* settlements, also those of a maker with itself, moved the credits about.
\* (NexusOrderBook.sol:41-54,102-118)
Solvency == \A t \in Tokens : Cardinality(Claims(balances, t)) = reserve[t]

\* On neither side does an order exchange more than it signed for, across any number of
\* partial fills against different orders and itself: as buyer it gets at most amountBuy
\* of base, as seller it gives at most amountSell.  Together the two are not bounded so, as
\* one counter adds up units of two tokens: an order settled on both sides may give up
\* amountSell as seller and pay again as buyer.  (NexusOrderBook.sol:75-79)
NoOverfill ==
  \A o \in Orders : ledger[o].bought <= o.amountBuy /\ ledger[o].sold <= o.amountSell

\* Over its whole life a buy order pays no more per unit than its signed limit, and a
\* sell order receives its limit but for less than one unit of quote per fill, which
\* is what rounding down each partial fill may cost it.
\* (NexusOrderBook.sol:71-73,111-113)
LimitPrice ==
  \A o \in Orders :
    /\ ledger[o].paid * o.amountBuy <= ledger[o].bought * o.amountSell
    /\ ledger[o].sold * o.amountBuy <= (ledger[o].received + ledger[o].fills) * o.amountSell

\* A cancelled, bulk-cancelled or expired order is dead for good and is never filled
\* again, whatever was signed or queued for settlement before.
\* (NexusOrderBook.sol:68-69,96-99,120-132)
DeadOrdersFrozen ==
  [][\A o \in Orders : ~Live(o) => ~Live(o)' /\ orderFills'[o] = orderFills[o]]_vars

Withdrawn(u, t) == wallet'[u][t] - wallet[u][t] = balances[u][t] - balances'[u][t]

Sells(u, t) ==
  \E o \in signed : /\ o.maker = u /\ o.tokenSell = t
                    /\ Live(o)
                    /\ orderFills'[o] > orderFills[o]

Authorised ==
  \A u \in Users, t \in Tokens :
    balances'[u][t] < balances[u][t] => Withdrawn(u, t) \/ Sells(u, t)

\* A user's credit falls only by its own withdrawal, into its own wallet, or by filling
\* a live order it signed that sells that very token.
\* (NexusOrderBook.sol:48-54,86-118)
DebitAuthorised == [][Authorised]_vars
================================================================================
