---------------------------- MODULE Exchange_proofs ----------------------------
(***************************************************************************)
(* Theorems about Exchange: what was proved of the backend and of the      *)
(* contract, each for itself, holds of the two together.                   *)
(***************************************************************************)
EXTENDS Exchange, OrderService_proofs, Sums_proofs

VaultProofs == INSTANCE NexusVault_proofs WITH
  Orders <- Messages, Amounts <- 0..MaxUint, Fills <- 0..MaxUint, MaxNonce <- 1

--------------------------------------------------------------------------------
(***************************************************************************)
(* The contract of the exchange is the one NexusVault_proofs is about.     *)
(***************************************************************************)

\* There are users, and what they all hold of a token is a uint256.
LEMMA SupplyFacts ==
  /\ Cardinality(Users) \in Nat \ {0} /\ IsFiniteSet(Users)
  /\ Supply \in 0..MaxUint
<1> DEFINE n == Cardinality(Users)
<1>1. /\ IsFiniteSet(Users) /\ Owner \in Users
      /\ MaxUint \in Nat /\ Supply \in Nat /\ Supply * n <= MaxUint
  BY ExchangeAssumption
<1>2. n \in Nat /\ n # 0
  BY <1>1, FS_CardinalityType, FS_EmptySet
<1> HIDE DEF n
<1>3. Supply * 1 <= Supply * n
  BY <1>1, <1>2, ProductMonotone
<1>4. Supply \in 0..MaxUint
  BY <1>1, <1>2, <1>3
<1> QED BY <1>1, <1>2, <1>4 DEF n

\* The exchange's constants are those of a vault.
LEMMA VaultConstants ==
  /\ Owner \in Users /\ MaxUint \in Nat
  /\ Messages \subseteq VaultProofs!Order
  /\ 0..MaxUint \subseteq VaultProofs!Uint
  /\ Supply \in VaultProofs!Uint
  /\ 1 \in Nat /\ MaxTime \in Nat
BY ExchangeAssumption, SupplyFacts DEF Vault!Order, Vault!Uint, VaultProofs!Order, VaultProofs!Uint

\* Finite and size mean the same in each instance.
LEMMA SameSizes ==
  ASSUME NEW S
  PROVE  /\ VaultProofs!IsFiniteSet(S) <=> IsFiniteSet(S)
         /\ VaultProofs!Cardinality(S) = Cardinality(S)
         /\ Vault!Cardinality(S) = Cardinality(S)
<1>1. VaultProofs!IsFiniteSet(S) <=> IsFiniteSet(S)
  BY Zenon DEF IsFiniteSet, VaultProofs!IsFiniteSet
<1>2. VaultProofs!Cardinality(S) = Cardinality(S)
  BY Zenon DEF Cardinality, VaultProofs!Cardinality
<1>3. Vault!Cardinality(S) = Cardinality(S)
  BY Zenon DEF Cardinality, Vault!Cardinality
<1> QED BY <1>1, <1>2, <1>3

\* The two instances of the contract take the same steps.
LEMMA SameSteps == Vault!Next <=> VaultProofs!Next
<1>1. \A u \in Users, t \in Tokens, n \in 0..MaxUint :
        /\ Vault!Deposit(u, t, n) <=> VaultProofs!Deposit(u, t, n)
        /\ Vault!Withdraw(u, t, n) <=> VaultProofs!Withdraw(u, t, n)
  BY DEF Vault!Deposit, Vault!Withdraw, Vault!Credit, Vault!Debit, VaultProofs!Deposit,
     VaultProofs!Withdraw, VaultProofs!Credit, VaultProofs!Debit
<1>2. \A u \in Users, b, s \in Messages, f \in 0..MaxUint :
        Vault!SettleMatch(u, b, s, f) <=> VaultProofs!SettleMatch(u, b, s, f)
  BY DEF Vault!SettleMatch, Vault!SellerReceives, Vault!Accepted, Vault!Validated,
     Vault!ValidSignature, Vault!Live, Vault!Computable, Vault!BuyerPays, Vault!WithinAmounts,
     Vault!Transferable, Vault!Transferred, Vault!Delivered, Vault!PaidOver, Vault!Paid,
     Vault!Credit, Vault!Debit, Vault!Recorded, Vault!Sold, Vault!Bought, Vault!Positive,
     VaultProofs!SettleMatch, VaultProofs!SellerReceives, VaultProofs!Accepted,
     VaultProofs!Validated, VaultProofs!ValidSignature, VaultProofs!Live,
     VaultProofs!Computable, VaultProofs!BuyerPays, VaultProofs!WithinAmounts,
     VaultProofs!Transferable, VaultProofs!Transferred, VaultProofs!Delivered,
     VaultProofs!PaidOver, VaultProofs!Paid, VaultProofs!Credit, VaultProofs!Debit,
     VaultProofs!Recorded, VaultProofs!Sold, VaultProofs!Bought, VaultProofs!Positive
<1>3. \A u \in Users, o \in Messages : Vault!CancelOrder(u, o) <=> VaultProofs!CancelOrder(u, o)
  BY DEF Vault!CancelOrder, VaultProofs!CancelOrder
<1>4. \A u \in Users, n \in 1..1 :
        Vault!IncrementMinNonce(u, n) <=> VaultProofs!IncrementMinNonce(u, n)
  BY DEF Vault!IncrementMinNonce, VaultProofs!IncrementMinNonce
<1>5. \A o \in Messages : Vault!SignOrder(o) <=> VaultProofs!SignOrder(o)
  BY DEF Vault!SignOrder, VaultProofs!SignOrder, Vault!contract, VaultProofs!contract
<1>6. Vault!Tick <=> VaultProofs!Tick
  BY DEF Vault!Tick, VaultProofs!Tick, Vault!contract, VaultProofs!contract
<1> QED BY <1>1, <1>2, <1>3, <1>4, <1>5, <1>6 DEF Vault!Next, VaultProofs!Next

\* So the inductive invariant of the contract stands.
LEMMA VaultStep == VaultProofs!VaultInv /\ [Vault!Next]_chain => VaultProofs!VaultInv'
BY VaultConstants, SameSteps, VaultProofs!VaultStepInv DEF chain, VaultProofs!vars

--------------------------------------------------------------------------------
(***************************************************************************)
(* The steps of the exchange, seen from the backend and from the contract. *)
(***************************************************************************)

\* The backend does not notice that its node has a contract behind it.
LEMMA BackendSteps == [ExchangeNext]_exchangeVars => [Next]_vars
BY DEF ExchangeNext, BackendStep, Settle, Move, Next, exchangeVars

\* Amounts and side of an order never change, not even by a restart.
LEMMA TermsStay ==
  ASSUME RowsInv, [Next]_vars, NEW o \in Ids
  PROVE  /\ Base(orders'[o]) = Base(orders[o]) /\ Quote(orders'[o]) = Quote(orders[o])
         /\ orders'[o].side = orders[o].side
         /\ orders'[o].amountSell = orders[o].amountSell
         /\ orders'[o].amountBuy = orders[o].amountBuy
<1>1. /\ Base(orders'[o]) = Base(orders[o]) /\ Quote(orders'[o]) = Quote(orders[o])
      /\ orders'[o].side = orders[o].side
  <2>1. CASE [BookNext]_bookVars
    BY <2>1, SameTerms DEF RowsInv
  <2>2. CASE Exit
    BY <2>2 DEF Exit
  <2>3. CASE Start
    <3>1. seen = {} /\ orders'[o] = FromRow(o)
      BY <2>3 DEF Start, RowsInv, Control
    <3>2. Base(FromRow(o)) = Base(orders[o]) /\ Quote(FromRow(o)) = Quote(orders[o])
      BY <3>1, FromRowFacts DEF RowsInv
    <3>3. FromRow(o).side = orders[o].side
      BY DEF FromRow, RowsInv, ServiceTypeOK, BookTypeOK, Order
    <3> QED BY <3>1, <3>2, <3>3
  <2>4. CASE UNCHANGED vars
    BY <2>4 DEF vars, bookVars
  <2> QED BY <2>1, <2>2, <2>3, <2>4, StepKinds DEF RowsInv
<1> QED BY <1>1 DEF Base, Quote

\* Nor do the messages.
LEMMA MessagesStay ==
  ASSUME RowsInv, [Next]_vars, NEW o \in Ids
  PROVE  TuplifyOrder(o)' = TuplifyOrder(o)
BY TermsStay DEF TuplifyOrder, Message

\* What is sent to the contract is a message somebody may sign.
AsSubmitted == \A o \in Ids : TuplifyOrder(o) \in Messages

\* Every step of the exchange is a step of the contract, or none.
LEMMA ContractSteps ==
  ASSUME RowsInv, AsSubmitted, VaultProofs!VaultInv, [ExchangeNext]_exchangeVars
  PROVE  [Vault!Next]_chain
<1>0. MaxUint \in Nat /\ Owner \in Users
  BY ExchangeAssumption
<1>1. /\ balances \in [Users -> [Tokens -> 0..MaxUint]]
      /\ orderFills \in [Messages -> 0..MaxUint] /\ signed \subseteq Messages
  BY DEF VaultProofs!VaultInv, VaultProofs!VaultTypeOK, VaultProofs!Uint
<1>2. \A m \in Messages : m.maker \in Users /\ m.amountSell \in 0..MaxUint
  BY ExchangeAssumption DEF Vault!Order, Vault!Uint
<1>3. ASSUME Settle PROVE [Vault!Next]_chain
  <2>1. PICK i \in DOMAIN txs :
          LET t == trades[txs[i].trade]
              b == TuplifyOrder(t.buy)
              s == TuplifyOrder(t.sell)
          IN  Vault!SettleMatch(Owner, b, s, t.fill) \/ UNCHANGED chain
    BY <1>3 DEF Settle
  <2>2. txs[i].trade \in TradeIds
    <3>1. txs \in Seq([trade : TradeIds, status : {"pending", "mined", "reverted"}])
      BY DEF RowsInv, ServiceTypeOK
    <3>2. txs[i] \in [trade : TradeIds, status : {"pending", "mined", "reverted"}]
      BY <3>1, MemberFacts
    <3> QED BY <3>2
  <2> DEFINE t == trades[txs[i].trade]
             b == TuplifyOrder(t.buy)
             s == TuplifyOrder(t.sell)
  <2>3. t.buy \in Ids /\ t.sell \in Ids /\ t.fill \in Nat
    <3>1. trades \in Seq(MatchResult)
      BY DEF RowsInv, ServiceTypeOK, BookTypeOK
    <3>2. t \in MatchResult
      BY <2>2, <3>1, MemberFacts DEF TradeIds
    <3> QED BY <3>2 DEF MatchResult
  <2>4. b \in Messages /\ s \in Messages
    BY <2>3 DEF AsSubmitted
  <2> HIDE DEF t, b, s
  <2>5. ASSUME Vault!SettleMatch(Owner, b, s, t.fill) PROVE Vault!Next
    <3>1. orderFills[s] + t.fill <= s.amountSell
      BY <2>5 DEF Vault!SettleMatch, Vault!Accepted, Vault!WithinAmounts
    <3>2. orderFills[s] \in 0..MaxUint /\ s.amountSell \in 0..MaxUint
      BY <1>1, <1>2, <2>4
    <3>3. t.fill \in 0..MaxUint
      BY <1>0, <2>3, <3>1, <3>2
    <3> QED BY <1>0, <2>4, <2>5, <3>3 DEF Vault!Next
  <2> QED BY <2>1, <2>5 DEF t, b, s
<1>4. ASSUME Move PROVE Vault!Next
  <2>1. ASSUME NEW u \in Users, NEW t \in Tokens, Vault!Withdraw(u, t, balances[u][t])
        PROVE  Vault!Next
    <3>1. balances[u][t] \in 0..MaxUint
      BY <1>1
    <3> QED BY <2>1, <3>1 DEF Vault!Next
  <2>2. ASSUME NEW m \in signed, Vault!CancelOrder(m.maker, m) PROVE Vault!Next
    BY <1>1, <1>2, <2>2 DEF Vault!Next
  <2>3. ASSUME NEW u \in Users, Vault!IncrementMinNonce(u, 1) PROVE Vault!Next
    BY <2>3 DEF Vault!Next
  <2>4. ASSUME Vault!Tick PROVE Vault!Next
    BY <2>4 DEF Vault!Next
  <2> QED BY <1>4, <2>1, <2>2, <2>3, <2>4 DEF Move
<1> QED BY <1>3, <1>4 DEF ExchangeNext, BackendStep, exchangeVars

--------------------------------------------------------------------------------
(***************************************************************************)
(* The invariants of the two parts, together.                              *)
(***************************************************************************)

ExchangeInv == RowsInv /\ SettleInv /\ AsSubmitted /\ VaultProofs!VaultInv

\* A vault in which everybody has deposited everything satisfies the vault's invariant.
LEMMA DepositedInit ==
  ASSUME ExchangeInit
  PROVE  AsSubmitted /\ VaultProofs!VaultInv
<1>0. /\ MaxUint \in Nat /\ Supply \in 0..MaxUint /\ IsFiniteSet(Users)
      /\ Cardinality(Users) \in Nat
      /\ \A m \in Messages : m.amountSell \in Nat /\ m.amountBuy \in Nat
  BY ExchangeAssumption, SupplyFacts DEF Vault!Order, Vault!Uint
<1>1. AsSubmitted
  <2>1. \A o \in Ids : orders[o] \in Inputs[o]
    BY DEF ExchangeInit, Init, BookInit
  <2> QED BY <2>1 DEF AsSubmitted, TuplifyOrder, Messages
<1>2. VaultProofs!VaultTypeOK
  <2>1. Supply * Cardinality(Users) \in Nat
    BY <1>0
  <2>2. signed \subseteq Messages
    BY <1>1 DEF ExchangeInit, AsSubmitted
  <2> QED BY <1>0, <2>1, <2>2 DEF ExchangeInit, VaultProofs!VaultTypeOK, VaultProofs!Uint,
             VaultProofs!Ledger
<1>3. ASSUME NEW t \in Tokens
      PROVE  /\ IsFiniteSet(VaultProofs!Claims(balances, t))
             /\ Cardinality(VaultProofs!Claims(balances, t)) = reserve[t]
  <2>1. VaultProofs!Claims(balances, t) = Users \X (1..Supply)
    <3>1. \A u \in Users : balances[u][t] = Supply
      BY DEF ExchangeInit
    <3>2. \A i \in 1..MaxUint : i <= Supply <=> i \in 1..Supply
      BY <1>0
    <3>3. 1..Supply \subseteq 1..MaxUint
      BY <1>0
    <3>4. ASSUME NEW c \in VaultProofs!Claims(balances, t) PROVE c \in Users \X (1..Supply)
      <4>1. c \in Users \X (1..MaxUint) /\ c[2] <= balances[c[1]][t]
        BY <3>4 DEF VaultProofs!Claims
      <4> QED BY <3>1, <3>2, <4>1
    <3>5. ASSUME NEW c \in Users \X (1..Supply) PROVE c \in VaultProofs!Claims(balances, t)
      <4>1. c \in Users \X (1..MaxUint) /\ c[1] \in Users /\ c[2] \in 1..Supply
        BY <3>3
      <4>2. c[2] <= balances[c[1]][t]
        BY <1>0, <3>1, <4>1
      <4> QED BY <4>1, <4>2 DEF VaultProofs!Claims
    <3> QED BY <3>4, <3>5
  <2>2. IsFiniteSet(1..Supply) /\ Cardinality(1..Supply) = Supply
    <3>1. 1 \in Int /\ Supply \in Int
      BY <1>0
    <3>2. /\ IsFiniteSet(1..Supply)
          /\ Cardinality(1..Supply) = IF 1 > Supply THEN 0 ELSE Supply - 1 + 1
      BY <3>1, FS_Interval
    <3> QED BY <1>0, <3>2
  <2>3. /\ IsFiniteSet(Users \X (1..Supply))
        /\ Cardinality(Users \X (1..Supply)) = Cardinality(Users) * Cardinality(1..Supply)
    BY <1>0, <2>2, FS_Product
  <2>4. reserve[t] = Supply * Cardinality(Users)
    BY DEF ExchangeInit
  <2>5. Cardinality(Users) * Supply = Supply * Cardinality(Users)
    BY <1>0
  <2> QED BY <2>1, <2>2, <2>3, <2>4, <2>5
<1>4. VaultProofs!Finite(balances)
  BY <1>3, SameSizes DEF VaultProofs!Finite
<1>5. VaultProofs!Solvency
  BY <1>3, SameSizes DEF VaultProofs!Solvency
<1>6. VaultProofs!FillsSplit /\ VaultProofs!NoOverfill /\ VaultProofs!LimitPrice
  BY <1>0 DEF ExchangeInit, VaultProofs!FillsSplit, VaultProofs!NoOverfill, VaultProofs!LimitPrice
<1> QED BY <1>1, <1>2, <1>4, <1>5, <1>6 DEF VaultProofs!VaultInv

\* Every step of the exchange keeps both.
LEMMA ExchangeStep == ExchangeInv /\ [ExchangeNext]_exchangeVars => ExchangeInv'
<1> SUFFICES ASSUME ExchangeInv, [ExchangeNext]_exchangeVars PROVE ExchangeInv'
  OBVIOUS
<1>1. RowsInv' /\ SettleInv'
  BY BackendSteps, RowsStep, SettleStep DEF ExchangeInv
<1>2. AsSubmitted'
  BY BackendSteps, MessagesStay DEF ExchangeInv, AsSubmitted
<1>3. VaultProofs!VaultInv'
  BY ContractSteps, VaultStep DEF ExchangeInv
<1> QED BY <1>1, <1>2, <1>3 DEF ExchangeInv

\* What is invariant of the backend and of the contract is invariant of the exchange.
THEOREM ExchangeInvariant == ExchangeSpec => []ExchangeInv
<1>1. ExchangeInit => ExchangeInv
  BY RowsInit, SettleInit, DepositedInit DEF ExchangeInit, ExchangeInv
<1> QED BY <1>1, ExchangeStep, PTL DEF ExchangeSpec

\* Whatever the backend sends and users do meanwhile, only steps of the contract are taken.
THEOREM ContractImplemented == ExchangeSpec => [][Vault!Next]_chain
<1>1. ExchangeInv /\ [ExchangeNext]_exchangeVars => [Vault!Next]_chain
  BY ContractSteps DEF ExchangeInv
<1> QED BY <1>1, ExchangeInvariant, PTL DEF ExchangeSpec

\* Through all settlements the backend makes, also after crashes, the contract owes what
\* it holds, overfills no order on either side and keeps every limit.
THEOREM ExchangeSolvent ==
  ExchangeSpec => [](Vault!Solvency /\ Vault!NoOverfill /\ Vault!LimitPrice)
<1>1. ASSUME NEW t \in Tokens PROVE Vault!Claims(balances, t) = VaultProofs!Claims(balances, t)
  BY Zenon DEF Vault!Claims, VaultProofs!Claims
<1>2. VaultProofs!Solvency => Vault!Solvency
  BY <1>1, SameSizes DEF VaultProofs!Solvency, Vault!Solvency
<1>3. VaultProofs!NoOverfill => Vault!NoOverfill
  BY DEF VaultProofs!NoOverfill, Vault!NoOverfill
<1>4. VaultProofs!LimitPrice => Vault!LimitPrice
  BY DEF VaultProofs!LimitPrice, Vault!LimitPrice
<1>5. ExchangeInv => Vault!Solvency /\ Vault!NoOverfill /\ Vault!LimitPrice
  BY <1>2, <1>3, <1>4 DEF ExchangeInv, VaultProofs!VaultInv
<1> QED BY <1>5, ExchangeInvariant, PTL

\* With the contract as the judge of its transactions the backend still settles no match
\* twice and marks none that is not settled, and its book holds exactly what can trade.
THEOREM ExchangeBackend ==
  ExchangeSpec => [](RowsLagMemory /\ SettlesOnce /\ SettledAreMined /\ RestingExactlyLive)
<1>1. ExchangeInv => RowsLagMemory /\ RestingExactlyLive
  BY DEF ExchangeInv, RowsInv, Lag, BookCore
<1>2. ExchangeInv => SettlesOnce /\ SettledAreMined
  BY OnceFromInv, MinedFromInv DEF ExchangeInv
<1> QED BY <1>1, <1>2, ExchangeInvariant, PTL

--------------------------------------------------------------------------------
(***************************************************************************)
(* Prices.                                                                 *)
(***************************************************************************)

\* A restart changes nothing that prices depend on.
LEMMA AllPricedStays ==
  ASSUME RowsInv, AllPriced, [Next]_vars
  PROVE  AllPriced'
<1>1. CASE [BookNext]_bookVars
  BY <1>1, AllPricedStep DEF RowsInv
<1>2. CASE trades' = trades
  <2>1. \A o \in Ids : /\ Base(orders'[o]) = Base(orders[o]) /\ Quote(orders'[o]) = Quote(orders[o])
                       /\ orders'[o].side = orders[o].side
                       /\ orders'[o].amountSell = orders[o].amountSell
                       /\ orders'[o].amountBuy = orders[o].amountBuy
    BY TermsStay
  <2>2. ASSUME NEW i \in 1..Len(trades), Priced(orders, trades[i]) PROVE Priced(orders', trades[i])
    BY <2>1, <2>2 DEF Priced, Compatible, Price, SellerReceives
  <2> QED BY <1>2, <2>2 DEF AllPriced
<1>3. [BookNext]_bookVars \/ trades' = trades
  BY StepKinds DEF RowsInv, Exit, Start, vars, bookVars
<1> QED BY <1>1, <1>2, <1>3

\* Of all matches the backend ever makes, those of limits that meet are at prices the
\* contract accepts, and the others are of limits the price type rounds to one price.
THEOREM ExchangePrices == ExchangeSpec => [](MeetingLimitsSettle /\ TradesNearLimits)
<1>1. ExchangeInit => AllPriced
  BY AllPricedInit DEF ExchangeInit, Init
<1>2. ExchangeInv /\ AllPriced /\ [ExchangeNext]_exchangeVars => AllPriced'
  BY BackendSteps, AllPricedStays DEF ExchangeInv
<1>3. ExchangeInv /\ AllPriced => MeetingLimitsSettle /\ TradesNearLimits
  BY SettleableTrades, NearTrades DEF ExchangeInv, RowsInv
<1> QED BY <1>1, <1>2, <1>3, ExchangeInvariant, PTL DEF ExchangeSpec

--------------------------------------------------------------------------------
(***************************************************************************)
(* The amounts of trades, added up.                                        *)
(***************************************************************************)

\* The fills and the quotes of the trades S of q, and what they add up to.
FillOf(q, S)  == [ t \in S |-> q[t].fill ]
QuoteOf(q, S) == [ t \in S |-> q[t].quote ]

FillSum(q, S)  == SumFunction(FillOf(q, S))
QuoteSum(q, S) == SumFunction(QuoteOf(q, S))

\* The sum of the fills is the number of their units.
LEMMA FillsCount ==
  ASSUME NEW S, IsFiniteSet(S), NEW q, \A t \in S : q[t].fill \in Nat
  PROVE  FillSum(q, S) = Cardinality(Units(FillOf(q, S), S))
<1>1. FillOf(q, S) \in [S -> Nat]
  BY DEF FillOf
<1> QED BY <1>1, SumCounts DEF FillSum

\* The same for the quotes.
LEMMA QuotesCount ==
  ASSUME NEW S, IsFiniteSet(S), NEW q, \A t \in S : q[t].quote \in Nat
  PROVE  QuoteSum(q, S) = Cardinality(Units(QuoteOf(q, S), S))
<1>1. QuoteOf(q, S) \in [S -> Nat]
  BY DEF QuoteOf
<1> QED BY <1>1, SumCounts DEF QuoteSum

\* Nothing adds up to nothing.
LEMMA SumsEmpty ==
  ASSUME NEW q
  PROVE  FillSum(q, {}) = 0 /\ QuoteSum(q, {}) = 0
<1>1. IsFiniteSet({}) /\ Cardinality({}) = 0
  BY FS_EmptySet
<1>2. \A a : Units(a, {}) = {}
  BY DEF Units
<1>3. FillSum(q, {}) = Cardinality(Units(FillOf(q, {}), {}))
  BY <1>1, FillsCount
<1>4. QuoteSum(q, {}) = Cardinality(Units(QuoteOf(q, {}), {}))
  BY <1>1, QuotesCount
<1> QED BY <1>1, <1>2, <1>3, <1>4

\* The trades S of q have amounts that are naturals.
Summable(q, S) == \A t \in S : q[t].fill \in Nat /\ q[t].quote \in Nat

\* One more trade adds its amounts.
LEMMA SumsGrow ==
  ASSUME NEW S, IsFiniteSet(S), NEW q, NEW x, x \notin S, Summable(q, S \cup {x})
  PROVE  /\ FillSum(q, S \cup {x}) = FillSum(q, S) + q[x].fill
         /\ QuoteSum(q, S \cup {x}) = QuoteSum(q, S) + q[x].quote
<1> DEFINE T == S \cup {x}
           f == FillOf(q, T)
           g == QuoteOf(q, T)
<1>1. IsFiniteSet(T) /\ Summable(q, S) /\ q[x].fill \in Nat /\ q[x].quote \in Nat
  BY FS_AddElement DEF Summable
<1>2. /\ FillSum(q, T) = Cardinality(Units(f, T))
      /\ FillSum(q, S) = Cardinality(Units(FillOf(q, S), S))
  BY <1>1, FillsCount DEF Summable
<1>3. /\ QuoteSum(q, T) = Cardinality(Units(g, T))
      /\ QuoteSum(q, S) = Cardinality(Units(QuoteOf(q, S), S))
  BY <1>1, QuotesCount DEF Summable
<1>4. /\ \A t \in T : f[t] = q[t].fill /\ g[t] = q[t].quote
      /\ \A t \in S : FillOf(q, S)[t] = q[t].fill /\ QuoteOf(q, S)[t] = q[t].quote
  BY DEF FillOf, QuoteOf
<1> HIDE DEF f, g
<1>5. Units(f, S) = Units(FillOf(q, S), S) /\ Units(g, S) = Units(QuoteOf(q, S), S)
  <2>1. \A t \in S : f[t] = FillOf(q, S)[t] /\ g[t] = QuoteOf(q, S)[t]
    BY <1>4
  <2> QED BY <2>1, UnitsSame
<1>6. \A t \in S : f[t] \in Nat /\ g[t] \in Nat
  BY <1>1, <1>4 DEF Summable
<1>7. IsFiniteSet(Units(f, S)) /\ IsFiniteSet(Units(g, S))
  BY <1>6, UnitsFinite
<1>8. f[x] = q[x].fill /\ g[x] = q[x].quote
  BY <1>4
<1>9. /\ Cardinality(Units(f, T)) = f[x] + Cardinality(Units(f, S))
      /\ Cardinality(Units(g, T)) = g[x] + Cardinality(Units(g, S))
  BY <1>1, <1>7, <1>8, UnitsMore
<1>10. Cardinality(Units(f, S)) \in Nat /\ Cardinality(Units(g, S)) \in Nat
  BY <1>7, FS_CardinalityType
<1> HIDE DEF T
<1>11. FillSum(q, T) = FillSum(q, S) + q[x].fill
  BY <1>1, <1>2, <1>5, <1>8, <1>9, <1>10
<1>12. QuoteSum(q, T) = QuoteSum(q, S) + q[x].quote
  BY <1>1, <1>3, <1>5, <1>8, <1>9, <1>10
<1> QED BY <1>11, <1>12 DEF T

\* Sums depend on the amounts only.
LEMMA SumsSame ==
  ASSUME NEW S, IsFiniteSet(S), NEW q, NEW r, Summable(q, S), \A t \in S : r[t] = q[t]
  PROVE  FillSum(r, S) = FillSum(q, S) /\ QuoteSum(r, S) = QuoteSum(q, S)
<1>1. Summable(r, S)
  BY DEF Summable
<1>2. FillOf(r, S) = FillOf(q, S) /\ QuoteOf(r, S) = QuoteOf(q, S)
  BY DEF FillOf, QuoteOf
<1> QED BY <1>1, <1>2, FillsCount, QuotesCount DEF Summable

--------------------------------------------------------------------------------
(***************************************************************************)
(* What the contract has moved is what the trades say.                     *)
(***************************************************************************)

\* The mined trades that buy, or sell, for the message m.
BuysOf(m)  == { t \in Mined : TuplifyOrder(trades[t].buy) = m }
SellsOf(m) == { t \in Mined : TuplifyOrder(trades[t].sell) = m }

\* The ledger l of a message agrees with its mined trades.
LedgerOf(l, buys, sells) ==
  /\ l.bought = FillSum(trades, buys) /\ l.paid = QuoteSum(trades, buys)
  /\ l.sold = FillSum(trades, sells)  /\ l.received = QuoteSum(trades, sells)

AsRecorded == \A m \in Messages : LedgerOf(ledger[m], BuysOf(m), SellsOf(m))

RecordedInv == ExchangeInv /\ AllPriced /\ AsRecorded

\* Trades are what the contract can settle: their quote is what it will compute.
LEMMA TradeFacts ==
  ASSUME RowsInv, AllPriced, NEW t \in TradeIds
  PROVE  /\ trades[t].buy \in Ids /\ trades[t].sell \in Ids
         /\ trades[t].fill \in Nat /\ trades[t].quote \in Nat
         /\ trades[t].quote = Vault!SellerReceives(TuplifyOrder(trades[t].sell), trades[t].fill)
<1> DEFINE s == trades[t].sell
           n == trades[t].fill
<1>1. /\ trades[t].buy \in Ids /\ s \in Ids /\ n \in Nat
      /\ orders[s].side = "sell" /\ Base(orders[s]) > 0
      /\ trades[t].quote = SellerReceives(orders[s], n)
  BY DEF AllPriced, Priced, TradeIds
<1>2. orders[s].amountSell \in Nat /\ orders[s].amountBuy \in Nat /\ orders[s].amountSell > 0
  BY <1>1 DEF RowsInv, ServiceTypeOK, BookTypeOK, Order, Base
<1>3. trades[t].quote = (n * orders[s].amountBuy) \div orders[s].amountSell
  BY <1>1 DEF SellerReceives
<1> HIDE DEF n, s
<1>4. n * orders[s].amountBuy \in Nat
  BY <1>1, <1>2
<1>5. (n * orders[s].amountBuy) \div orders[s].amountSell \in Nat
  BY <1>2, <1>4
<1>6. Vault!SellerReceives(TuplifyOrder(s), n) = (n * orders[s].amountBuy) \div orders[s].amountSell
  BY DEF Vault!SellerReceives, TuplifyOrder, Message
<1> QED BY <1>1, <1>3, <1>5, <1>6 DEF s, n

\* The mined trades are finitely many trades.
LEMMA MinedFacts ==
  ASSUME RowsInv
  PROVE  Mined \subseteq TradeIds /\ IsFiniteSet(TradeIds) /\ \A S \in SUBSET Mined : IsFiniteSet(S)
<1>1. Len(trades) \in Nat /\ \A i \in DOMAIN txs : txs[i].trade \in TradeIds
  BY PlaceTypes
<1>2. IsFiniteSet(TradeIds)
  <2>1. 1 \in Int /\ Len(trades) \in Int
    BY <1>1
  <2> QED BY <2>1, FS_Interval DEF TradeIds
<1>3. Mined \subseteq TradeIds
  BY <1>1 DEF Mined
<1> QED BY <1>2, <1>3, FS_Subset

\* Trades stay as they were made.
LEMMA TradesStay ==
  ASSUME RowsInv, RowsInv', [Next]_vars
  PROVE  \A t \in TradeIds : trades'[t] = trades[t]
<1>1. [BookNext]_bookVars \/ trades' = trades
  BY StepKinds DEF RowsInv, Exit, Start, vars, bookVars
<1>2. CASE [BookNext]_bookVars
  BY <1>2, BookGrows DEF RowsInv, TradeIds
<1> QED BY <1>1, <1>2

\* What the end of the i-th transaction adds to the mined trades.
LEMMA MinedGrows ==
  ASSUME RowsInv, NEW i \in DOMAIN txs, NEW s \in {"mined", "reverted"},
         txs[i].status = "pending", txs' = [txs EXCEPT ![i].status = s]
  PROVE  Mined' = IF s = "mined" THEN Mined \cup {txs[i].trade} ELSE Mined
<1>1. /\ txs \in Seq([trade : TradeIds, status : {"pending", "mined", "reverted"}])
      /\ Len(txs) \in Nat /\ DOMAIN txs = 1..Len(txs)
  BY PlaceTypes
<1> HIDE DEF TradeIds
<1>2. \A k \in DOMAIN txs : txs[k] \in [trade : TradeIds, status : {"pending", "mined", "reverted"}]
  BY <1>1, MemberFacts
<1>3. /\ DOMAIN txs' = DOMAIN txs
      /\ \A k \in DOMAIN txs : txs'[k].trade = txs[k].trade
      /\ \A k \in DOMAIN txs \ {i} : txs'[k] = txs[k]
      /\ txs'[i].status = s
  BY <1>1, <1>2
<1>4. CASE s = "mined"
  <2>1. \A k \in DOMAIN txs : txs'[k].status = "mined" <=> txs[k].status = "mined" \/ k = i
    BY <1>3, <1>4
  <2> QED BY <1>3, <1>4, <2>1 DEF Mined
<1>5. CASE s # "mined"
  <2>1. \A k \in DOMAIN txs : txs'[k].status = "mined" <=> txs[k].status = "mined"
    BY <1>3, <1>5
  <2> QED BY <1>3, <1>5, <2>1 DEF Mined
<1> QED BY <1>4, <1>5

\* Nothing but the node's steps ends a transaction.
LEMMA MinedByNode ==
  ASSUME RowsInv, Backend
  PROVE  Mined' = Mined
<1>0. /\ txs \in Seq([trade : TradeIds, status : {"pending", "mined", "reverted"}])
      /\ Len(txs) \in Nat /\ DOMAIN txs = 1..Len(txs)
  BY PlaceTypes
<1> HIDE DEF TradeIds
<1>1. txs' = txs \/ txs' = Sent(job.trade)
  BY DEF Backend, Submit, Create, AddOrder, AddOrderReturns, PersistTrade, ReadWord,
         UpdateStatus, Send, Iterate, CancelOrder, GetByID, RemoveFromBook, MarkCancelled,
         Worker, Take, SendTransaction, WaitMined, HandleResult, Boot, Start, Load, Loaded,
         LoadPanics, Crash, Exit
<1>2. CASE txs' = Sent(job.trade)
  <2> DEFINE e == [trade |-> job.trade, status |-> "pending"]
  <2>1. txs' = Append(txs, e)
    BY <1>2 DEF Sent
  <2>2. e.status # "mined"
    OBVIOUS
  <2> HIDE DEF e
  <2>3. /\ DOMAIN txs' = 1..(Len(txs) + 1) /\ txs'[Len(txs) + 1] = e
        /\ \A k \in DOMAIN txs : txs'[k] = txs[k]
    BY <1>0, <2>1
  <2>4. DOMAIN txs' = DOMAIN txs \cup {Len(txs) + 1} /\ Len(txs) + 1 \notin DOMAIN txs
    BY <1>0, <2>3
  <2>5. { k \in DOMAIN txs' : txs'[k].status = "mined" } = { k \in DOMAIN txs : txs[k].status = "mined" }
    BY <2>2, <2>3, <2>4
  <2> QED BY <2>3, <2>5 DEF Mined
<1>3. CASE txs' = txs
  BY <1>3 DEF Mined
<1> QED BY <1>1, <1>2, <1>3

\* The ledger after a settlement of f units for q.
LEMMA LedgerAfter ==
  ASSUME VaultProofs!VaultInv, NEW b \in Messages, NEW s \in Messages, NEW f \in Nat, NEW q \in Nat,
         ledger' = Vault!Recorded(b, s, f, q), NEW m \in Messages
  PROVE  /\ ledger'[m].bought   = IF m = b THEN ledger[m].bought + f ELSE ledger[m].bought
         /\ ledger'[m].paid     = IF m = b THEN ledger[m].paid + q ELSE ledger[m].paid
         /\ ledger'[m].sold     = IF m = s THEN ledger[m].sold + f ELSE ledger[m].sold
         /\ ledger'[m].received = IF m = s THEN ledger[m].received + q ELSE ledger[m].received
<1>1. ledger \in [Messages -> VaultProofs!Ledger]
  BY DEF VaultProofs!VaultInv, VaultProofs!VaultTypeOK
<1>2. ledger[m] \in [bought : Nat, paid : Nat, sold : Nat, received : Nat, fills : Nat]
  BY <1>1 DEF VaultProofs!Ledger
<1>3. ledger'[m] = IF m = b /\ m = s THEN Vault!Bought(Vault!Sold(ledger[m], f, q), f, q)
                   ELSE IF m = b THEN Vault!Bought(ledger[m], f, q)
                   ELSE IF m = s THEN Vault!Sold(ledger[m], f, q)
                   ELSE ledger[m]
  <2>1. ledger' = [[ledger EXCEPT ![s] = Vault!Sold(@, f, q)] EXCEPT ![b] = Vault!Bought(@, f, q)]
    BY DEF Vault!Recorded
  <2> QED BY <1>1, <2>1
<1> QED BY <1>2, <1>3 DEF Vault!Bought, Vault!Sold

\* If no trade is mined and the ledger stays, it still agrees.
LEMMA NothingMined ==
  ASSUME RecordedInv, RowsInv', [Next]_vars, Mined' = Mined, ledger' = ledger
  PROVE  AsRecorded'
<1>0. RowsInv /\ AllPriced
  BY DEF RecordedInv, ExchangeInv
<1>1. /\ Mined \subseteq TradeIds /\ \A S \in SUBSET Mined : IsFiniteSet(S)
      /\ \A t \in Mined : trades'[t] = trades[t]
  BY <1>0, MinedFacts, TradesStay
<1>2. \A t \in Mined : /\ trades[t].buy \in Ids /\ trades[t].sell \in Ids
                       /\ trades[t].fill \in Nat /\ trades[t].quote \in Nat
  BY <1>0, <1>1, TradeFacts
<1>3. \A o \in Ids : TuplifyOrder(o)' = TuplifyOrder(o)
  BY <1>0, MessagesStay
<1>4. ASSUME NEW m \in Messages PROVE BuysOf(m)' = BuysOf(m) /\ SellsOf(m)' = SellsOf(m)
  <2>1. \A t \in Mined : /\ TuplifyOrder(trades[t].buy)' = TuplifyOrder(trades[t].buy)
                         /\ TuplifyOrder(trades[t].sell)' = TuplifyOrder(trades[t].sell)
    BY <1>1, <1>2, <1>3
  <2> QED BY <2>1 DEF BuysOf, SellsOf
<1>5. ASSUME NEW S \in SUBSET Mined
      PROVE  FillSum(trades', S) = FillSum(trades, S) /\ QuoteSum(trades', S) = QuoteSum(trades, S)
  BY <1>1, <1>2, SumsSame DEF Summable
<1>6. ASSUME NEW m \in Messages PROVE LedgerOf(ledger[m], BuysOf(m), SellsOf(m))'
  <2>1. LedgerOf(ledger[m], BuysOf(m), SellsOf(m))
    BY DEF RecordedInv, AsRecorded
  <2>2. BuysOf(m) \in SUBSET Mined /\ SellsOf(m) \in SUBSET Mined
    BY DEF BuysOf, SellsOf
  <2> QED BY <1>4, <1>5, <2>1, <2>2 DEF LedgerOf
<1> QED BY <1>6 DEF AsRecorded

\* A trade that is mined adds its amounts to both sides.
LEMMA TradeMined ==
  ASSUME RecordedInv, RowsInv', [Next]_vars, NEW t \in TradeIds \ Mined,
         Mined' = Mined \cup {t}, UNCHANGED <<orders, trades>>,
         Vault!SettleMatch(Owner, TuplifyOrder(trades[t].buy), TuplifyOrder(trades[t].sell),
                           trades[t].fill)
  PROVE  AsRecorded'
<1> DEFINE b == TuplifyOrder(trades[t].buy)
           s == TuplifyOrder(trades[t].sell)
           f == trades[t].fill
           q == trades[t].quote
<1>0. RowsInv /\ AllPriced /\ AsSubmitted /\ VaultProofs!VaultInv
  BY DEF RecordedInv, ExchangeInv
<1>1. /\ trades[t].buy \in Ids /\ trades[t].sell \in Ids /\ f \in Nat /\ q \in Nat
      /\ q = Vault!SellerReceives(s, f)
  BY <1>0, TradeFacts
<1>2. b \in Messages /\ s \in Messages
  BY <1>0, <1>1 DEF AsSubmitted
<1>3. ledger' = Vault!Recorded(b, s, f, q)
  BY <1>1 DEF Vault!SettleMatch
<1>4. Mined \subseteq TradeIds /\ \A S \in SUBSET Mined : IsFiniteSet(S)
  BY <1>0, MinedFacts
<1>5. Summable(trades, Mined \cup {t})
  BY <1>0, <1>4, TradeFacts DEF Summable
<1>6. ASSUME NEW S \in SUBSET Mined
      PROVE  /\ FillSum(trades, S \cup {t}) = FillSum(trades, S) + f
             /\ QuoteSum(trades, S \cup {t}) = QuoteSum(trades, S) + q
  <2>1. IsFiniteSet(S) /\ t \notin S /\ Summable(trades, S \cup {t})
    BY <1>4, <1>5 DEF Summable
  <2> QED BY <2>1, SumsGrow
<1>7. ASSUME NEW m \in Messages
      PROVE  /\ BuysOf(m)' = IF m = b THEN BuysOf(m) \cup {t} ELSE BuysOf(m)
             /\ SellsOf(m)' = IF m = s THEN SellsOf(m) \cup {t} ELSE SellsOf(m)
  <2>1. \A o : TuplifyOrder(o)' = TuplifyOrder(o)
    BY DEF TuplifyOrder, Message
  <2>2. BuysOf(m)' = { x \in Mined' : TuplifyOrder(trades[x].buy) = m }
    BY <2>1 DEF BuysOf
  <2>3. SellsOf(m)' = { x \in Mined' : TuplifyOrder(trades[x].sell) = m }
    BY <2>1 DEF SellsOf
  <2>4. BuysOf(m)' = IF m = b THEN BuysOf(m) \cup {t} ELSE BuysOf(m)
    BY <2>2 DEF BuysOf
  <2>5. SellsOf(m)' = IF m = s THEN SellsOf(m) \cup {t} ELSE SellsOf(m)
    BY <2>3 DEF SellsOf
  <2> QED BY <2>4, <2>5
<1> HIDE DEF b, s, f, q
<1>8. ASSUME NEW m \in Messages PROVE LedgerOf(ledger[m], BuysOf(m), SellsOf(m))'
  <2>1. LedgerOf(ledger[m], BuysOf(m), SellsOf(m))
    BY DEF RecordedInv, AsRecorded
  <2>2. BuysOf(m) \in SUBSET Mined /\ SellsOf(m) \in SUBSET Mined
    BY DEF BuysOf, SellsOf
  <2>3. /\ ledger'[m].bought   = IF m = b THEN ledger[m].bought + f ELSE ledger[m].bought
        /\ ledger'[m].paid     = IF m = b THEN ledger[m].paid + q ELSE ledger[m].paid
        /\ ledger'[m].sold     = IF m = s THEN ledger[m].sold + f ELSE ledger[m].sold
        /\ ledger'[m].received = IF m = s THEN ledger[m].received + q ELSE ledger[m].received
    BY <1>0, <1>1, <1>2, <1>3, LedgerAfter
  <2>4. /\ ledger'[m].bought = FillSum(trades, BuysOf(m)')
        /\ ledger'[m].paid = QuoteSum(trades, BuysOf(m)')
    BY <1>6, <1>7, <2>1, <2>2, <2>3 DEF LedgerOf
  <2>5. /\ ledger'[m].sold = FillSum(trades, SellsOf(m)')
        /\ ledger'[m].received = QuoteSum(trades, SellsOf(m)')
    BY <1>6, <1>7, <2>1, <2>2, <2>3 DEF LedgerOf
  <2> QED BY <2>4, <2>5 DEF LedgerOf
<1> QED BY <1>8 DEF AsRecorded

\* Every step of the exchange keeps ledger and trades in agreement.
LEMMA RecordedStep == RecordedInv /\ [ExchangeNext]_exchangeVars => RecordedInv'
<1> SUFFICES ASSUME RecordedInv, [ExchangeNext]_exchangeVars PROVE RecordedInv'
  OBVIOUS
<1>0. RowsInv /\ SettleInv /\ AllPriced /\ [Next]_vars
  BY BackendSteps DEF RecordedInv, ExchangeInv
<1>1. ExchangeInv' /\ RowsInv'
  BY ExchangeStep DEF RecordedInv, ExchangeInv
<1>2. AllPriced'
  BY <1>0, AllPricedStays
<1>3. CASE BackendStep
  BY <1>0, <1>1, <1>2, <1>3, MinedByNode, NothingMined DEF BackendStep, chain, RecordedInv
<1>4. CASE Settle
  <2>1. PICK i \in DOMAIN txs :
          LET t == trades[txs[i].trade]
              b == TuplifyOrder(t.buy)
              s == TuplifyOrder(t.sell)
          IN  /\ txs'[i] # txs[i]
              /\ IF txs'[i].status = "mined" THEN Vault!SettleMatch(Owner, b, s, t.fill)
                 ELSE UNCHANGED chain
    BY <1>4 DEF Settle
  <2>2. PICK k \in DOMAIN txs, st \in {"mined", "reverted"} :
          /\ txs[k].status = "pending"
          /\ txs' = [txs EXCEPT ![k].status = st]
          /\ UNCHANGED bookVars
    BY <1>4 DEF Settle, Mine
  <2>3. /\ txs \in Seq([trade : TradeIds, status : {"pending", "mined", "reverted"}])
        /\ \A j \in DOMAIN txs : txs[j].trade \in TradeIds
    BY <1>0, PlaceTypes
  <2> HIDE DEF TradeIds
  <2>4. \A j \in DOMAIN txs : txs[j] \in [trade : TradeIds, status : {"pending", "mined", "reverted"}]
    BY <2>3, MemberFacts
  <2>5. k = i /\ txs'[i].status = st
    BY <2>1, <2>2, <2>3, <2>4
  <2>6. Mined' = IF st = "mined" THEN Mined \cup {txs[i].trade} ELSE Mined
    BY <1>0, <2>2, <2>5, MinedGrows
  <2>7. CASE st = "mined"
    <3> DEFINE t == txs[i].trade
    <3>1. t \notin Mined
      BY <1>0, <2>2, <2>5 DEF SettleInv, OnePlace, Mined
    <3>2. t \in TradeIds /\ Mined' = Mined \cup {t} /\ UNCHANGED <<orders, trades>>
      BY <2>2, <2>3, <2>6, <2>7 DEF bookVars
    <3>3. Vault!SettleMatch(Owner, TuplifyOrder(trades[t].buy), TuplifyOrder(trades[t].sell),
                            trades[t].fill)
      BY <2>1, <2>5, <2>7
    <3> HIDE DEF t
    <3>4. AsRecorded'
      BY <1>0, <1>1, <3>1, <3>2, <3>3, TradeMined
    <3> QED BY <1>1, <1>2, <3>4 DEF RecordedInv
  <2>8. CASE st # "mined"
    BY <1>0, <1>1, <1>2, <2>1, <2>5, <2>6, <2>8, NothingMined DEF RecordedInv, chain
  <2> QED BY <2>7, <2>8
<1>5. CASE Move \/ UNCHANGED exchangeVars
  <2>1. UNCHANGED <<txs, ledger>>
    BY <1>5 DEF Move, exchangeVars, chain, vars, Vault!Withdraw, Vault!CancelOrder,
                Vault!IncrementMinNonce, Vault!Tick, Vault!contract
  <2>2. Mined' = Mined
    BY <2>1 DEF Mined
  <2> QED BY <1>0, <1>1, <1>2, <2>1, <2>2, NothingMined DEF RecordedInv
<1> QED BY <1>3, <1>4, <1>5 DEF ExchangeNext

\* Nothing is mined and nothing moved at first.
LEMMA RecordedInit == ExchangeInit => RecordedInv
<1> SUFFICES ASSUME ExchangeInit PROVE RecordedInv
  OBVIOUS
<1>1. ExchangeInv
  BY RowsInit, SettleInit, DepositedInit DEF ExchangeInit, ExchangeInv
<1>2. Len(trades) = 0 /\ DOMAIN txs = {}
  BY DEF ExchangeInit, Init, BookInit
<1>3. AllPriced
  BY <1>2 DEF AllPriced
<1>4. Mined = {}
  BY <1>2 DEF Mined
<1>5. \A m \in Messages : BuysOf(m) = {} /\ SellsOf(m) = {}
  BY <1>4 DEF BuysOf, SellsOf
<1>6. AsRecorded
  BY <1>5, SumsEmpty DEF AsRecorded, LedgerOf, ExchangeInit
<1> QED BY <1>1, <1>3, <1>6 DEF RecordedInv

\* Over any number of partial fills, lost answers, crashes and reloads, what each signed
\* order has paid, received and been filled is the sum over its mined matches.
THEOREM ChainAsRecorded == ExchangeSpec => []SettledAsRecorded
<1>1. RecordedInv => SettledAsRecorded
  <2> SUFFICES ASSUME AsRecorded PROVE SettledAsRecorded
    BY DEF RecordedInv
  <2> QED BY DEF AsRecorded, LedgerOf, BuysOf, SellsOf, FillSum, QuoteSum, FillOf, QuoteOf,
                  SettledAsRecorded
<1> QED BY <1>1, RecordedInit, RecordedStep, PTL DEF ExchangeSpec


--------------------------------------------------------------------------------
(***************************************************************************)
(* Why transactions revert.                                                *)
(***************************************************************************)

\* A sum over fewer trades is a smaller natural.
LEMMA SumsMonotone ==
  ASSUME NEW S, IsFiniteSet(S), NEW q, Summable(q, S), NEW T \in SUBSET S
  PROVE  FillSum(q, T) \in Nat /\ FillSum(q, S) \in Nat /\ FillSum(q, T) <= FillSum(q, S)
<1>1. IsFiniteSet(T) /\ Summable(q, T)
  BY FS_Subset DEF Summable
<1>2. /\ FillSum(q, S) = Cardinality(Units(FillOf(q, S), S))
      /\ FillSum(q, T) = Cardinality(Units(FillOf(q, T), T))
  BY <1>1, FillsCount DEF Summable
<1>3. \A t \in S : FillOf(q, S)[t] \in Nat
  BY DEF FillOf, Summable
<1>4. IsFiniteSet(Units(FillOf(q, S), S))
  BY <1>3, UnitsFinite
<1>5. Units(FillOf(q, T), T) \subseteq Units(FillOf(q, S), S)
  BY DEF Units, FillOf
<1> QED BY <1>2, <1>4, <1>5, FS_Subset, FS_CardinalityType

\* The matches the order o takes part in.
MatchesOf(o) == { t \in TradeIds : o \in Parties(t) }

\* The book remembers every match: an order is filled by at least the sum of its own.
Remembered(o) == FillSum(trades, MatchesOf(o)) <= orders[o].filledBase

\* What holds of a process that has never died.
NeverDied ==
  crashes = 0 =>
    /\ up /\ loading = << >>
    /\ \A t \in TradeIds : Parties(t) \subseteq seen
    /\ \A o \in Ids : Remembered(o)

\* As long as nothing crashes only the book's steps change the book.
LEMMA StepAlive ==
  ASSUME RowsInv, [Next]_vars, up, loading = << >>, crashes = 0, crashes' = 0
  PROVE  [BookNext]_bookVars /\ up' = up /\ loading' = loading
<1>1. up' = up /\ loading' = loading
  <2>1. CASE \E o \in Ids : Submit(o)
    BY <2>1 DEF Submit, Create, AddOrder, AddOrderReturns, PersistTrade, ReadWord, UpdateStatus,
                Send, startup
  <2>2. CASE Iterate \/ \E c \in Cancelled : CancelOrder(c)
    BY <2>2 DEF Iterate, CancelOrder, GetByID, RemoveFromBook, MarkCancelled, startup
  <2>3. CASE Worker \/ Mine \/ UNCHANGED vars
    BY <2>3 DEF Worker, Take, SendTransaction, WaitMined, HandleResult, Mine, startup, vars
  <2>4. CASE Boot \/ Crash
    BY <2>4 DEF Boot, Start, Load, Loaded, LoadPanics, Crash
  <2> QED BY <2>1, <2>2, <2>3, <2>4 DEF Next, Backend
<1>2. ~Exit /\ ~Start
  BY <1>1 DEF Exit, Start
<1> QED BY <1>1, <1>2, StepKinds DEF RowsInv, vars, bookVars

\* Crashes are not forgotten.
LEMMA CrashesCount ==
  ASSUME RowsInv, [Next]_vars, crashes' = 0
  PROVE  crashes = 0
<1>1. crashes \in Nat
  BY ServiceAssumption DEF RowsInv, ServiceTypeOK
<1>2. crashes' = crashes \/ crashes' = crashes + 1
  BY DEF Next, Backend, Submit, Create, AddOrder, AddOrderReturns, PersistTrade, ReadWord,
         UpdateStatus, Send, Iterate, CancelOrder, GetByID, RemoveFromBook, MarkCancelled,
         Worker, Take, SendTransaction, WaitMined, HandleResult, Boot, Start, Load, Loaded,
         LoadPanics, Crash, Mine, MayFail, bounds, vars
<1> QED BY <1>1, <1>2

\* Amounts of trades that are priced well are naturals.
LEMMA PricedAmounts ==
  ASSUME NEW os \in [Ids -> Order], NEW t, Priced(os, t)
  PROVE  t.fill \in Nat /\ t.quote \in Nat
<1> DEFINE s == os[t.sell]
           n == t.fill
<1>1. s \in Order /\ s.side = "sell" /\ Base(s) > 0 /\ n \in Nat /\ t.quote = SellerReceives(s, n)
  BY DEF Priced
<1> HIDE DEF s, n
<1>2. s.amountSell \in Nat /\ s.amountSell > 0 /\ s.amountBuy \in Nat
  BY <1>1 DEF Order, Base
<1>3. n * s.amountBuy \in Nat
  BY <1>1, <1>2
<1>4. (n * s.amountBuy) \div s.amountSell \in Nat
  BY <1>2, <1>3
<1> QED BY <1>1, <1>4 DEF SellerReceives, n

\* All trades can be added up.
LEMMA TradesSummable ==
  ASSUME RowsInv, AllPriced, NEW S \in SUBSET TradeIds
  PROVE  IsFiniteSet(S) /\ Summable(trades, S)
BY MinedFacts, TradeFacts, FS_Subset DEF Summable

\* If no match is made, nothing is forgotten.
LEMMA RememberedStays ==
  ASSUME RowsInv, RowsInv', AllPriced, [BookNext]_bookVars, trades' = trades,
         NEW o \in Ids, Remembered(o)
  PROVE  Remembered(o)'
<1>1. MatchesOf(o)' = MatchesOf(o)
  BY DEF MatchesOf, TradeIds, Parties
<1>2. orders[o].filledBase \in Nat /\ orders'[o].filledBase \in Nat
  BY DEF RowsInv, ServiceTypeOK, BookTypeOK, Order
<1>3. orders[o].filledBase <= orders'[o].filledBase
  BY BookGrows DEF RowsInv
<1>4. MatchesOf(o) \in SUBSET TradeIds
  BY DEF MatchesOf
<1>5. FillSum(trades, MatchesOf(o)) \in Nat
  BY <1>4, TradesSummable, SumsMonotone
<1>6. FillSum(trades, MatchesOf(o)) <= orders[o].filledBase
  BY DEF Remembered
<1>7. FillSum(trades', MatchesOf(o)') <= orders'[o].filledBase
  BY <1>1, <1>2, <1>3, <1>5, <1>6
<1> QED BY <1>7 DEF Remembered

\* A match fills both orders by what it adds to their sums.
LEMMA MatchRemembered ==
  ASSUME RowsInv, RowsInv', AllPriced, AllPriced', NEW m \in Ids, Match(m),
         NEW o \in Ids, Remembered(o)
  PROVE  Remembered(o)'
<1>1. PICK n \in Nat :
        /\ incoming \in seen /\ m # incoming /\ n > 0
        /\ orders' = [orders EXCEPT ![incoming] = Filled(@, n), ![m] = Filled(@, n)]
        /\ trades' = Append(trades,
             [ buy   |-> BuyOf(incoming, m), sell  |-> SellOf(incoming, m), fill |-> n,
               quote |-> SellerReceives(orders[SellOf(incoming, m)], n),
               price |-> Price(orders[m]),   maker |-> m ])
  BY MatchFacts DEF RowsInv
<1> DEFINE e == [ buy   |-> BuyOf(incoming, m), sell  |-> SellOf(incoming, m), fill |-> n,
                  quote |-> SellerReceives(orders[SellOf(incoming, m)], n),
                  price |-> Price(orders[m]),   maker |-> m ]
           l == Len(trades) + 1
<1>2. trades \in Seq(MatchResult) /\ orders \in [Ids -> Order] /\ incoming \in Ids
  BY <1>1 DEF RowsInv, ServiceTypeOK, BookTypeOK
<1>3. {e.buy, e.sell} = {incoming, m} /\ e.fill = n
  BY DEF BuyOf, SellOf
<1> HIDE DEF e
<1>4. /\ Len(trades) \in Nat /\ Len(trades') = l /\ trades'[l] = e
      /\ \A t \in 1..Len(trades) : trades'[t] = trades[t]
  BY <1>1, <1>2 DEF e
<1>5. TradeIds' = TradeIds \cup {l} /\ l \notin TradeIds
  BY <1>4 DEF TradeIds
<1>6. \A t \in TradeIds : trades'[t] = trades[t]
  BY <1>4 DEF TradeIds
<1> HIDE DEF l
<1>7. MatchesOf(o)' = IF o \in {incoming, m} THEN MatchesOf(o) \cup {l} ELSE MatchesOf(o)
  <2>1. MatchesOf(o)' = { t \in TradeIds' : o \in {trades'[t].buy, trades'[t].sell} }
    BY DEF MatchesOf, Parties
  <2>2. \A t \in TradeIds' : t \in TradeIds \/ t = l
    BY <1>5
  <2>3. o \in {trades'[l].buy, trades'[l].sell} <=> o \in {incoming, m}
    BY <1>3, <1>4
  <2>4. MatchesOf(o) = { t \in TradeIds : o \in {trades'[t].buy, trades'[t].sell} }
    BY <1>6 DEF MatchesOf, Parties
  <2> QED BY <1>5, <2>1, <2>3, <2>4
<1>8. MatchesOf(o) \in SUBSET TradeIds /\ MatchesOf(o) \cup {l} \in SUBSET TradeIds'
  BY <1>5 DEF MatchesOf
<1>9. /\ IsFiniteSet(MatchesOf(o)) /\ Summable(trades, MatchesOf(o))
      /\ FillSum(trades, MatchesOf(o)) \in Nat
  BY <1>8, TradesSummable, SumsMonotone
<1>10. FillSum(trades', MatchesOf(o)) = FillSum(trades, MatchesOf(o))
  BY <1>6, <1>8, <1>9, SumsSame
<1>11. orders[o].filledBase \in Nat /\ FillSum(trades, MatchesOf(o)) <= orders[o].filledBase
  BY <1>2 DEF Remembered, Order
<1>12. CASE o \in {incoming, m}
  <2>1. orders'[o] = Filled(orders[o], n)
    BY <1>1, <1>2, <1>12
  <2>2. orders'[o].filledBase = orders[o].filledBase + n
    BY <1>1, <1>2, <2>1, FilledOrder
  <2>3. Summable(trades', MatchesOf(o) \cup {l})
    <3>1. \A t \in TradeIds' : Priced(orders', trades'[t])
      BY DEF AllPriced, TradeIds
    <3>2. orders' \in [Ids -> Order]
      BY DEF RowsInv, ServiceTypeOK, BookTypeOK
    <3>3. \A t \in TradeIds' : trades'[t].fill \in Nat /\ trades'[t].quote \in Nat
      BY <3>1, <3>2, PricedAmounts
    <3> QED BY <1>8, <3>3 DEF Summable
  <2>4. l \notin MatchesOf(o)
    BY <1>5, <1>8
  <2>5. FillSum(trades', MatchesOf(o) \cup {l}) = FillSum(trades', MatchesOf(o)) + trades'[l].fill
    BY <1>9, <2>3, <2>4, SumsGrow
  <2>6. FillSum(trades', MatchesOf(o)') <= orders'[o].filledBase
    BY <1>3, <1>4, <1>7, <1>9, <1>10, <1>11, <1>12, <2>2, <2>5
  <2> QED BY <2>6 DEF Remembered
<1>13. CASE o \notin {incoming, m}
  <2>1. orders'[o] = orders[o]
    BY <1>1, <1>2, <1>13
  <2>2. FillSum(trades', MatchesOf(o)') <= orders'[o].filledBase
    BY <1>7, <1>10, <1>11, <1>13, <2>1
  <2> QED BY <2>2 DEF Remembered
<1> QED BY <1>12, <1>13

\* Every step keeps what holds of a process that has never died.
LEMMA NeverDiedStep ==
  ASSUME RowsInv, RowsInv', AllPriced, AllPriced', NeverDied, [Next]_vars
  PROVE  NeverDied'
<1> SUFFICES ASSUME crashes' = 0
             PROVE  /\ up' /\ loading' = << >>
                    /\ \A t \in TradeIds' : Parties(t)' \subseteq seen'
                    /\ \A o \in Ids : Remembered(o)'
  BY DEF NeverDied
<1>1. crashes = 0
  BY CrashesCount
<1>2. /\ up /\ loading = << >>
      /\ \A t \in TradeIds : Parties(t) \subseteq seen
      /\ \A o \in Ids : Remembered(o)
  BY <1>1 DEF NeverDied
<1>3. [BookNext]_bookVars /\ up' /\ loading' = << >>
  BY <1>1, <1>2, StepAlive
<1>4. \A t \in TradeIds' : Parties(t)' \subseteq seen'
  <2>1. /\ seen \subseteq seen' /\ Len(trades) \in Nat /\ Len(trades') \in Nat
        /\ \A t \in 1..Len(trades) : trades'[t] = trades[t]
        /\ \A t \in (Len(trades) + 1)..Len(trades') :
             trades'[t].buy \in seen /\ trades'[t].sell \in seen
    BY <1>3, BookGrows DEF RowsInv
  <2>2. \A t \in TradeIds' : t \in 1..Len(trades) \/ t \in (Len(trades) + 1)..Len(trades')
    BY <2>1 DEF TradeIds
  <2>3. \A t \in TradeIds' : trades'[t].buy \in seen' /\ trades'[t].sell \in seen'
    BY <1>2, <2>1, <2>2 DEF TradeIds, Parties
  <2> QED BY <2>3 DEF Parties
<1>5. ASSUME NEW o \in Ids PROVE Remembered(o)'
  <2>1. ASSUME NEW m \in Ids, Match(m) PROVE Remembered(o)'
    BY <1>2, <2>1, MatchRemembered
  <2>2. trades' = trades \/ \E m \in Ids : Match(m)
    BY <1>3 DEF BookNext, Begin, BeginPanics, Cancel, Finish, bookVars
  <2> QED BY <1>2, <1>3, <2>1, <2>2, RememberedStays
<1> QED BY <1>3, <1>4, <1>5

\* Whatever has been submitted was signed.
OnlySigned == \A o \in Ids : pc[o] # "idle" => TuplifyOrder(o) \in signed

\* No more of a token ever gets into the contract.
Scarce == \A t \in Tokens : reserve[t] <= Supply * Cardinality(Users)

\* SubmitOrder verifies, and a verified message stays what it is.
LEMMA OnlySignedStep ==
  ASSUME RowsInv, OnlySigned, [ExchangeNext]_exchangeVars
  PROVE  OnlySigned'
<1>1. \A o \in Ids : TuplifyOrder(o)' = TuplifyOrder(o)
  BY BackendSteps, MessagesStay
<1>2. CASE BackendStep
  BY <1>1, <1>2 DEF BackendStep, OnlySigned, Verified, chain
<1>3. CASE Settle
  BY <1>1, <1>3 DEF Settle, Mine, submits, OnlySigned, Vault!SettleMatch, chain
<1>4. CASE Move \/ UNCHANGED exchangeVars
  <2>1. UNCHANGED <<pc, signed>>
    BY <1>4 DEF Move, exchangeVars, chain, vars, submits, Vault!Withdraw, Vault!CancelOrder,
                Vault!IncrementMinNonce, Vault!Tick, Vault!contract
  <2> QED BY <1>1, <2>1 DEF OnlySigned
<1> QED BY <1>2, <1>3, <1>4 DEF ExchangeNext

\* Nobody deposits any more; withdrawals only take out.
LEMMA ScarceStep ==
  ASSUME VaultProofs!VaultInv, Scarce, [ExchangeNext]_exchangeVars
  PROVE  Scarce'
<1>0. reserve \in [Tokens -> Nat] /\ Cardinality(Users) \in Nat /\ Supply \in Nat
  BY SupplyFacts, ExchangeAssumption DEF VaultProofs!VaultInv, VaultProofs!VaultTypeOK
<1>1. ASSUME reserve' = reserve PROVE Scarce'
  BY <1>1 DEF Scarce
<1>2. ASSUME NEW u \in Users, NEW t \in Tokens, Vault!Withdraw(u, t, balances[u][t]) PROVE Scarce'
  <2> DEFINE n == balances[u][t]
             all == Supply * Cardinality(Users)
  <2>1. n > 0 /\ reserve' = [reserve EXCEPT ![t] = @ - n] /\ n \in Nat
    BY <1>2 DEF Vault!Withdraw, VaultProofs!VaultInv, VaultProofs!VaultTypeOK, VaultProofs!Uint
  <2>2. all \in Nat
    BY <1>0
  <2>3. \A k \in Tokens : reserve[k] <= all
    BY DEF Scarce
  <2> HIDE DEF n, all
  <2>4. \A k \in Tokens : reserve'[k] <= all
    BY <1>0, <2>1, <2>2, <2>3
  <2> QED BY <2>4 DEF Scarce, all
<1>3. CASE BackendStep \/ Settle \/ UNCHANGED exchangeVars
  BY <1>1, <1>3 DEF BackendStep, Settle, exchangeVars, chain, Vault!SettleMatch
<1>4. CASE Move
  BY <1>1, <1>2, <1>4 DEF Move, Vault!CancelOrder, Vault!IncrementMinNonce, Vault!Tick
<1> QED BY <1>3, <1>4 DEF ExchangeNext

\* No other id has the message of o.
Alone(o) == \A p \in Ids \ {o} : TuplifyOrder(p) # TuplifyOrder(o)

\* What the contract has filled of such an order are mined matches of it.
LEMMA OwnFills ==
  ASSUME RecordedInv, NEW o \in Ids, Alone(o)
  PROVE  \E S \in SUBSET Mined : /\ S \subseteq MatchesOf(o)
                                 /\ orderFills[TuplifyOrder(o)] = FillSum(trades, S)
<1> DEFINE m == TuplifyOrder(o)
<1>0. RowsInv /\ AllPriced
  BY DEF RecordedInv, ExchangeInv
<1>1. m \in Messages /\ Mined \subseteq TradeIds
  BY <1>0, MinedFacts DEF RecordedInv, ExchangeInv, AsSubmitted
<1>2. \A t \in Mined : /\ trades[t].buy \in Ids /\ trades[t].sell \in Ids
                       /\ orders[trades[t].buy].side = "buy"
                       /\ orders[trades[t].sell].side = "sell"
  BY <1>0, <1>1 DEF AllPriced, Priced, TradeIds
<1>3. /\ \A t \in BuysOf(m) : t \in Mined /\ trades[t].buy = o
      /\ \A t \in SellsOf(m) : t \in Mined /\ trades[t].sell = o
  BY <1>2 DEF BuysOf, SellsOf, Alone
<1>4. /\ BuysOf(m) \subseteq Mined /\ BuysOf(m) \subseteq MatchesOf(o)
      /\ SellsOf(m) \subseteq Mined /\ SellsOf(m) \subseteq MatchesOf(o)
  BY <1>1, <1>3 DEF MatchesOf, Parties
<1>5. BuysOf(m) = {} \/ SellsOf(m) = {}
  BY <1>2, <1>3
<1>6. orderFills[m] = FillSum(trades, BuysOf(m)) + FillSum(trades, SellsOf(m))
  <2>1. orderFills[m] = ledger[m].bought + ledger[m].sold
    BY <1>1 DEF RecordedInv, ExchangeInv, VaultProofs!VaultInv, VaultProofs!FillsSplit
  <2>2. LedgerOf(ledger[m], BuysOf(m), SellsOf(m))
    BY <1>1 DEF RecordedInv, AsRecorded
  <2> QED BY <2>1, <2>2 DEF LedgerOf
<1>7. FillSum(trades, BuysOf(m)) \in Nat /\ FillSum(trades, SellsOf(m)) \in Nat
  BY <1>0, <1>1, <1>4, TradesSummable, SumsMonotone
<1>8. FillSum(trades, {}) = 0
  BY SumsEmpty
<1>9. orderFills[m] \in {FillSum(trades, BuysOf(m)), FillSum(trades, SellsOf(m))}
  <2> HIDE DEF m
  <2>1. CASE BuysOf(m) = {}
    <3>1. FillSum(trades, BuysOf(m)) = 0
      BY <1>8, <2>1
    <3> QED BY <1>6, <1>7, <3>1
  <2>2. CASE SellsOf(m) = {}
    <3>1. FillSum(trades, SellsOf(m)) = 0
      BY <1>8, <2>2
    <3> QED BY <1>6, <1>7, <3>1
  <2> QED BY <1>5, <2>1, <2>2
<1> QED BY <1>4, <1>9

\* No order is filled beyond its amount, on the book or off it.
LEMMA FilledWithin ==
  ASSUME RowsInv, NEW o \in Ids
  PROVE  /\ orders[o].filledBase <= Base(orders[o])
         /\ orders[o].filledBase \in Nat /\ Base(orders[o]) \in Nat
BY AmountTypes DEF RowsInv, BookCore, BookTypeOK, FillsWithinAmount, Lag

\* So what the contract has filled leaves room for a match that is not mined.
LEMMA RoomLeft ==
  ASSUME RecordedInv, NEW o \in Ids, Alone(o), Remembered(o), NEW t \in MatchesOf(o) \ Mined
  PROVE  orderFills[TuplifyOrder(o)] + trades[t].fill <= Base(orders[o])
<1>0. RowsInv /\ AllPriced
  BY DEF RecordedInv, ExchangeInv
<1>1. PICK S \in SUBSET Mined : /\ S \subseteq MatchesOf(o)
                                /\ orderFills[TuplifyOrder(o)] = FillSum(trades, S)
  BY OwnFills
<1>2. /\ S \cup {t} \subseteq MatchesOf(o) /\ MatchesOf(o) \in SUBSET TradeIds /\ t \notin S
      /\ S \in SUBSET TradeIds /\ S \cup {t} \in SUBSET TradeIds
  BY <1>1 DEF MatchesOf
<1>3. IsFiniteSet(S) /\ Summable(trades, S \cup {t})
  BY <1>0, <1>2, TradesSummable
<1>4. FillSum(trades, S \cup {t}) = FillSum(trades, S) + trades[t].fill
  BY <1>2, <1>3, SumsGrow
<1>5. IsFiniteSet(MatchesOf(o)) /\ Summable(trades, MatchesOf(o))
  BY <1>0, <1>2, TradesSummable
<1>6. /\ FillSum(trades, S \cup {t}) \in Nat /\ FillSum(trades, MatchesOf(o)) \in Nat
      /\ FillSum(trades, S \cup {t}) <= FillSum(trades, MatchesOf(o))
  BY <1>2, <1>5, SumsMonotone
<1> QED BY <1>0, <1>1, <1>4, <1>6, FilledWithin DEF Remembered

\* A match of a process that never died is accepted, but for what the engine does not see.
LEMMA Foreseen ==
  ASSUME RecordedInv, NeverDied, OnlySigned, Scarce, crashes = 0,
         NEW k \in TradeIds \ Mined, ~Unforeseeable(trades[k])
  PROVE  Vault!Accepted(TuplifyOrder(trades[k].buy), TuplifyOrder(trades[k].sell), trades[k].fill)
<1> DEFINE t == trades[k]
           b == TuplifyOrder(t.buy)
           s == TuplifyOrder(t.sell)
           f == t.fill
           q == t.quote
<1>0. RowsInv /\ AllPriced /\ AsSubmitted /\ VaultProofs!VaultInv /\ MaxUint \in Nat
  BY ExchangeAssumption DEF RecordedInv, ExchangeInv
<1>1. /\ t.buy \in Ids /\ t.sell \in Ids /\ f \in Nat /\ q \in Nat
      /\ q = Vault!SellerReceives(s, f)
  BY <1>0, TradeFacts
<1>2. /\ orders[t.buy].side = "buy" /\ orders[t.sell].side = "sell"
      /\ Base(orders[t.buy]) > 0 /\ Base(orders[t.sell]) > 0
  BY <1>0 DEF AllPriced, Priced, TradeIds
<1>3. b.amountBuy = Base(orders[t.buy]) /\ s.amountSell = Base(orders[t.sell])
  BY <1>2 DEF Base, TuplifyOrder, Message
<1>4. /\ Vault!Live(b) /\ Vault!Live(s)
      /\ ~(balances[b.maker][b.tokenSell] < q) /\ ~(balances[s.maker][s.tokenSell] < f)
      /\ Alone(t.buy) /\ Alone(t.sell)
      /\ b.tokenSell = s.tokenBuy /\ b.tokenBuy = s.tokenSell
      /\ ~(f * b.amountSell > MaxUint) /\ ~(f * s.amountBuy > MaxUint)
      /\ ~MeetOnlyRounded(orders[t.buy], orders[t.sell])
  BY DEF Unforeseeable, Alone
<1>5. b \in signed /\ s \in signed
  <2>1. t.buy \in seen /\ t.sell \in seen
    BY DEF NeverDied, Parties
  <2>2. pc[t.buy] # "idle" /\ pc[t.sell] # "idle"
    BY <1>0, <1>1, <2>1 DEF RowsInv, Waiting
  <2> QED BY <1>1, <2>2 DEF OnlySigned
<1>6. b \in Messages /\ s \in Messages /\ b # s
  <2>1. t.buy # t.sell
    BY <1>2
  <2> QED BY <1>0, <1>1, <1>4, <2>1 DEF AsSubmitted, Alone
<1>7. /\ orderFills[s] + f <= s.amountSell
      /\ orderFills[b] + f <= b.amountBuy
  <2>1. k \in MatchesOf(t.buy) \ Mined /\ k \in MatchesOf(t.sell) \ Mined
    BY DEF MatchesOf, Parties
  <2>2. Remembered(t.buy) /\ Remembered(t.sell)
    BY <1>1 DEF NeverDied
  <2> QED BY <1>1, <1>3, <1>4, <2>1, <2>2, RoomLeft
<1>8. Vault!BuyerPays(b, f) >= q
  <2>1. q <= BuyerPays(orders[t.buy], f)
    <3>1. MeetingLimitsSettle /\ TradesNearLimits
      BY <1>0, SettleableTrades, NearTrades DEF RowsInv
    <3>2. LimitsMeet(orders[t.buy], orders[t.sell])
      BY <1>4, <3>1 DEF TradesNearLimits, TradeIds
    <3> QED BY <3>1, <3>2 DEF MeetingLimitsSettle, TradeIds
  <2>2. Vault!BuyerPays(b, f) = BuyerPays(orders[t.buy], f)
    BY DEF Vault!BuyerPays, BuyerPays, TuplifyOrder, Message
  <2>3. BuyerPays(orders[t.buy], f) \in Int
    <3> DEFINE o == orders[t.buy]
    <3>1. o.amountSell \in Nat /\ o.amountBuy \in Nat /\ o.amountBuy > 0
      BY <1>0, <1>1, <1>2 DEF RowsInv, ServiceTypeOK, BookTypeOK, Order, Base
    <3> HIDE DEF o, f
    <3>2. f * o.amountSell \in Nat
      BY <1>1, <3>1
    <3>3. (f * o.amountSell) \div o.amountBuy \in Int
      BY <3>1, <3>2
    <3> QED BY <3>3 DEF BuyerPays, o
  <2> QED BY <1>1, <2>1, <2>2, <2>3
<1>9. /\ balances[b.maker][b.tokenSell] \in Nat /\ balances[s.maker][s.tokenSell] \in Nat
      /\ s.amountSell \in Nat /\ b.amountBuy \in Nat /\ b.amountSell \in Nat /\ s.amountBuy \in Nat
  <2>1. \A m \in Messages : m \in VaultProofs!Order
    BY VaultConstants
  <2>2. balances \in [Users -> [Tokens -> 0..MaxUint]]
    BY <1>0 DEF VaultProofs!VaultInv, VaultProofs!VaultTypeOK, VaultProofs!Uint
  <2> QED BY <1>0, <1>6, <2>1, <2>2 DEF VaultProofs!Order, VaultProofs!Uint
<1> HIDE DEF t, b, s, f, q
<1>10. Vault!Transferable(b, s, f, q)
  <2>1. \A j \in Tokens : reserve[j] <= MaxUint
    <3>1. reserve \in [Tokens -> Nat]
      BY <1>0 DEF VaultProofs!VaultInv, VaultProofs!VaultTypeOK
    <3>2. Supply * Cardinality(Users) \in Nat /\ Supply * Cardinality(Users) <= MaxUint
      BY SupplyFacts, ExchangeAssumption
    <3> QED BY <1>0, <3>1, <3>2 DEF Scarce
  <2>2. balances[b.maker][b.tokenSell] >= q /\ balances[s.maker][s.tokenSell] >= f
    BY <1>1, <1>4, <1>9
  <2>3. VaultProofs!Transferable(b, s, f, q)
    BY <1>0, <1>1, <1>4, <1>6, <2>1, <2>2, VaultConstants, VaultProofs!TransferFits
  <2> QED BY <2>3 DEF Vault!Transferable, Vault!Transferred, Vault!Delivered, Vault!PaidOver,
       Vault!Paid, Vault!Credit, Vault!Debit, VaultProofs!Transferable, VaultProofs!Transferred,
       VaultProofs!Delivered, VaultProofs!PaidOver, VaultProofs!Paid, VaultProofs!Credit,
       VaultProofs!Debit
<1>11. Vault!Validated(b, s)
  BY <1>4, <1>5 DEF Vault!Validated, Vault!ValidSignature
<1>12. Vault!Computable(b, s, f)
  BY <1>0, <1>1, <1>2, <1>3, <1>4, <1>9 DEF Vault!Computable
<1>13. Vault!WithinAmounts(b, s, f)
  BY <1>6, <1>7 DEF Vault!WithinAmounts
<1>14. Vault!Accepted(b, s, f)
  BY <1>1, <1>8, <1>10, <1>11, <1>12, <1>13 DEF Vault!Accepted
<1> QED BY <1>14 DEF b, s, f, t

\* All that keeps the contract from refusing what the engine could have known.
ForeseenInv == RecordedInv /\ NeverDied /\ OnlySigned /\ Scarce

\* It holds at first
LEMMA ForeseenInit == ExchangeInit => ForeseenInv
<1> SUFFICES ASSUME ExchangeInit PROVE ForeseenInv
  OBVIOUS
<1>1. RecordedInv
  BY RecordedInit
<1>2. trades = << >> /\ orders \in [Ids -> Order] /\ TradeIds = {}
  <2>1. trades = << >> /\ Len(trades) = 0
    BY DEF ExchangeInit, Init, BookInit
  <2>2. TradeIds = {}
    BY <2>1 DEF TradeIds
  <2> QED BY <1>1, <2>1, <2>2
          DEF RecordedInv, ExchangeInv, RowsInv, ServiceTypeOK, BookTypeOK
<1>3. \A o \in Ids : Remembered(o)
  <2> TAKE o \in Ids
  <2>1. MatchesOf(o) = {}
    BY <1>2 DEF MatchesOf
  <2> QED BY <1>2, <2>1, SumsEmpty DEF Remembered, Order
<1>4. NeverDied
  BY <1>2, <1>3 DEF NeverDied, ExchangeInit, Init
<1>5. OnlySigned
  BY DEF OnlySigned, ExchangeInit, Init
<1>6. Scarce
  BY SupplyFacts, ExchangeAssumption DEF Scarce, ExchangeInit
<1> QED BY <1>1, <1>4, <1>5, <1>6 DEF ForeseenInv

\* and every step keeps it.
LEMMA ForeseenStep == ForeseenInv /\ [ExchangeNext]_exchangeVars => ForeseenInv'
<1> SUFFICES ASSUME ForeseenInv, [ExchangeNext]_exchangeVars PROVE ForeseenInv'
  OBVIOUS
<1>1. RecordedInv /\ RecordedInv' /\ [Next]_vars
  BY RecordedStep, BackendSteps DEF ForeseenInv
<1>2. RowsInv /\ RowsInv' /\ AllPriced /\ AllPriced' /\ VaultProofs!VaultInv
  BY <1>1 DEF RecordedInv, ExchangeInv
<1>3. NeverDied'
  BY <1>1, <1>2, NeverDiedStep DEF ForeseenInv
<1>4. OnlySigned' /\ Scarce'
  BY <1>2, OnlySignedStep, ScarceStep DEF ForeseenInv
<1> QED BY <1>1, <1>3, <1>4 DEF ForeseenInv

\* The backend appends transactions and changes none.
LEMMA NoVerdict ==
  ASSUME RowsInv, Backend, NEW i \in DOMAIN txs
  PROVE  txs'[i] = txs[i]
<1>0. txs \in Seq([trade : TradeIds, status : {"pending", "mined", "reverted"}]) /\ Len(txs) \in Nat
  BY PlaceTypes
<1> HIDE DEF TradeIds
<1>1. txs' = txs \/ txs' = Sent(job.trade)
  BY DEF Backend, Submit, Create, AddOrder, AddOrderReturns, PersistTrade, ReadWord,
         UpdateStatus, Send, Iterate, CancelOrder, GetByID, RemoveFromBook, MarkCancelled,
         Worker, Take, SendTransaction, WaitMined, HandleResult, Boot, Start, Load, Loaded,
         LoadPanics, Crash, Exit
<1> DEFINE e == [trade |-> job.trade, status |-> "pending"]
<1>2. CASE txs' = Sent(job.trade)
  <2>1. txs' = Append(txs, e)
    BY <1>2 DEF Sent
  <2> HIDE DEF e
  <2> QED BY <1>0, <2>1
<1> QED BY <1>1, <1>2

\* The contract refuses a match of a process that never died only for what the engine does
\* not see: a dead order, a side that cannot pay, a message submitted twice, tokens that do
\* not fit the side, a product beyond a word, limits that only meet as rounded prices.
THEOREM RevertsForeseen == ExchangeSpec => RevertsExplained
<1> DEFINE Explained == \A i \in DOMAIN txs :
             txs'[i] # txs[i] /\ txs'[i].status = "reverted" /\ crashes = 0 =>
               Unforeseeable(trades[txs[i].trade])
<1>1. ASSUME ForeseenInv, [ExchangeNext]_exchangeVars PROVE [Explained]_exchangeVars
  <2> SUFFICES ASSUME NEW i \in DOMAIN txs, txs'[i] # txs[i], txs'[i].status = "reverted",
                      crashes = 0, ~Unforeseeable(trades[txs[i].trade])
               PROVE  FALSE
    OBVIOUS
  <2>0. RecordedInv /\ RowsInv /\ SettleInv
    BY <1>1 DEF ForeseenInv, RecordedInv, ExchangeInv
  <2>1. Settle
    <3>1. ~BackendStep
      BY <2>0, NoVerdict DEF BackendStep
    <3>2. ~Move /\ ~UNCHANGED exchangeVars
      BY DEF Move, exchangeVars, vars
    <3> QED BY <1>1, <3>1, <3>2 DEF ExchangeNext
  <2>2. PICK j \in DOMAIN txs :
          LET t == trades[txs[j].trade]
              b == TuplifyOrder(t.buy)
              s == TuplifyOrder(t.sell)
          IN  /\ txs'[j] # txs[j]
              /\ txs'[j].status = "mined" \/ ~Vault!Accepted(b, s, t.fill)
    BY <2>1 DEF Settle
  <2>3. PICK k \in DOMAIN txs, st \in {"mined", "reverted"} :
          txs[k].status = "pending" /\ txs' = [txs EXCEPT ![k].status = st]
    BY <2>1 DEF Settle, Mine
  <2>4. txs \in Seq([trade : TradeIds, status : {"pending", "mined", "reverted"}])
    BY <2>0, PlaceTypes
  <2>5. j = k /\ i = k
    BY <2>2, <2>3, <2>4
  <2>6. txs[i].trade \in TradeIds /\ txs[i].trade \notin Mined
    <3>1. txs[i].trade \in TradeIds
      BY <2>0, PlaceTypes
    <3> QED BY <2>0, <2>3, <2>5, <3>1 DEF SettleInv, OnePlace, Mined
  <2>7. Vault!Accepted(TuplifyOrder(trades[txs[i].trade].buy),
                       TuplifyOrder(trades[txs[i].trade].sell), trades[txs[i].trade].fill)
    BY <1>1, <2>6, Foreseen DEF ForeseenInv
  <2> QED BY <2>2, <2>5, <2>7
<1>2. ExchangeInit => ForeseenInv
  BY ForeseenInit
<1> QED BY <1>1, <1>2, ForeseenStep, PTL DEF ExchangeSpec, RevertsExplained
================================================================================
