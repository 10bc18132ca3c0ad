-------------------------- MODULE OrderService_proofs --------------------------
(***************************************************************************)
(* Theorems about OrderService, for any orders, any number of crashes and  *)
(* of failing calls and any capacity of the channel.                       *)
(***************************************************************************)
EXTENDS OrderService, PriceTimeBook_proofs, SequenceTheorems, FiniteSetTheorems

--------------------------------------------------------------------------------
(***************************************************************************)
(* Sequences.                                                              *)
(***************************************************************************)

\* Taking the head off a queue.
LEMMA TailFacts ==
  ASSUME NEW S, NEW s \in Seq(S), s # << >>
  PROVE  /\ Len(s) \in Nat \ {0} /\ DOMAIN s = 1..Len(s)
         /\ Tail(s) \in Seq(S) /\ Len(Tail(s)) = Len(s) - 1
         /\ DOMAIN Tail(s) = 1..(Len(s) - 1)
         /\ Head(s) = s[1] /\ Head(s) \in S /\ Head(s) \in ToSet(s)
         /\ \A i \in DOMAIN Tail(s) : i + 1 \in DOMAIN s /\ Tail(s)[i] = s[i + 1]
         /\ ToSet(Tail(s)) \subseteq ToSet(s)
<1>1. Len(s) \in Nat \ {0} /\ DOMAIN s = 1..Len(s)
  BY EmptySeq, LenProperties
<1>2. /\ Tail(s) \in Seq(S) /\ Len(Tail(s)) = Len(s) - 1
      /\ Head(s) \in S
      /\ \A i \in 1..Len(Tail(s)) : Tail(s)[i] = s[i + 1]
  BY HeadTailProperties
<1>3. DOMAIN Tail(s) = 1..(Len(s) - 1)
  BY <1>2, LenProperties
<1>4. Head(s) = s[1]
  OBVIOUS
<1>5. Head(s) \in ToSet(s)
  BY <1>1, <1>4 DEF ToSet
<1>6. \A i \in DOMAIN Tail(s) : i + 1 \in DOMAIN s /\ Tail(s)[i] = s[i + 1]
  BY <1>1, <1>2, <1>3
<1>7. ToSet(Tail(s)) \subseteq ToSet(s)
  BY <1>6 DEF ToSet
<1> QED BY <1>1, <1>2, <1>3, <1>4, <1>5, <1>6, <1>7

\* Putting an element at the end of a queue.
LEMMA AppendFacts ==
  ASSUME NEW S, NEW s \in Seq(S), NEW e \in S
  PROVE  /\ Append(s, e) \in Seq(S)
         /\ Len(s) \in Nat /\ Len(Append(s, e)) = Len(s) + 1
         /\ DOMAIN s = 1..Len(s) /\ DOMAIN Append(s, e) = 1..(Len(s) + 1)
         /\ \A i \in 1..Len(s) : Append(s, e)[i] = s[i]
         /\ Append(s, e)[Len(s) + 1] = e
BY AppendProperties, LenProperties

\* The members of a sequence have its type.
LEMMA MemberFacts ==
  ASSUME NEW S, NEW s \in Seq(S)
  PROVE  /\ ToSet(s) \subseteq S
         /\ Len(s) \in Nat /\ DOMAIN s = 1..Len(s)
         /\ \A i \in DOMAIN s : s[i] \in S
<1>1. Len(s) \in Nat /\ DOMAIN s = 1..Len(s) /\ \A i \in DOMAIN s : s[i] \in S
  BY LenProperties, ElementOfSeq
<1> QED BY <1>1 DEF ToSet

--------------------------------------------------------------------------------
(***************************************************************************)
(* What the service's steps do to the book.                                *)
(***************************************************************************)

\* Every step that does not end or start the process is a step of the book, or none.
LEMMA StepKinds ==
  ASSUME ServiceTypeOK, Next
  PROVE  [BookNext]_bookVars \/ Exit \/ Start
<1>1. CASE Backend
  <2>1. CASE \E o \in Ids : Submit(o)
    <3>1. PICK o \in Ids : Submit(o)
      BY <2>1
    <3>2. CASE AddOrder(o)
      BY <3>2 DEF AddOrder, BookNext
    <3>3. CASE AddOrderReturns(o)
      BY <3>3 DEF AddOrderReturns, BookNext
    <3>4. CASE \/ Create(o) \/ PersistTrade(o) \/ (\E w \in Words : ReadWord(o, w))
               \/ UpdateStatus(o) \/ Send(o)
      BY <3>4 DEF Create, PersistTrade, ReadWord, UpdateStatus, Send
    <3> QED BY <3>1, <3>2, <3>3, <3>4 DEF Submit
  <2>2. CASE Iterate
    BY <2>2 DEF Iterate, BookNext
  <2>3. CASE \E c \in Cancelled : CancelOrder(c)
    BY <2>3, ServiceAssumption
       DEF CancelOrder, GetByID, RemoveFromBook, MarkCancelled, BookNext
  <2>4. CASE Worker
    BY <2>4 DEF Worker, Take, SendTransaction, WaitMined, HandleResult
  <2>5. CASE Boot \/ Crash
    <3>1. CASE Load
      <4>1. loading \in Seq(Ids) /\ loading # << >> /\ Begin(Head(loading))
        BY <3>1 DEF Load, ServiceTypeOK
      <4>2. Head(loading) \in Ids
        BY <4>1, TailFacts
      <4> QED BY <4>1, <4>2 DEF BookNext
    <3> QED BY <2>5, <3>1 DEF Boot, Crash, Loaded, LoadPanics, BookNext
  <2> QED BY <1>1, <2>1, <2>2, <2>3, <2>4, <2>5 DEF Backend
<1>2. CASE Mine
  BY <1>2 DEF Mine
<1> QED BY <1>1, <1>2 DEF Next

--------------------------------------------------------------------------------
(***************************************************************************)
(* The inductive invariant, first part: where everyone is, and the rows.   *)
(***************************************************************************)

\* Where the requests are: only one adds, who has matches left is not done with them, and
\* nobody is served before the process has loaded its rows.
Control ==
  /\ \A o \in Ids : pc[o] = "adding" => incoming = o
  /\ \A o \in Ids : pc[o] \in {"persist", "buy", "sell", "send"} => todo[o] # << >>
  /\ \A o \in Ids : pc[o] \notin {"buy", "sell"} => read[o] = Unread
  /\ ~Serving => \A o \in Ids : pc[o] \in {"idle", "done"}
  /\ ~up => /\ seen = {} /\ incoming = NoOrder /\ loading = << >>
            /\ \A c \in Cancelled : cpc[c] \notin {"found", "removed"}

\* An order that is not on the book yet is as it was submitted or loaded, with or without
\* its row, and nobody writes that row but a DELETE.
Waiting ==
  /\ \A o \in Ids : pc[o] = "idle" => o \notin seen /\ rows[o] = NoRow /\ Fresh(o)
  /\ \A o \in Ids \ seen :
       pc[o] = "created" \/ o \in ToSet(loading) =>
         Fresh(o) /\ rows[o] # NoRow /\ rows[o].status # "filled"

\* RowsLagMemory, and what it takes to keep it over a restart: the rows of orders that
\* are not on the book lag as well.
Lag ==
  /\ RowsLagMemory
  /\ \A o \in Ids : rows[o] # NoRow => rows[o].filled <= orders[o].filledBase
  /\ \A o \in Ids \ seen : orders[o].filledBase <= Base(orders[o])

Parties(t) == {trades[t].buy, trades[t].sell}

\* The orders of the matches a request has in hand are known to the book.
Matched ==
  /\ \A o \in Ids : \A t \in ToSet(todo[o]) : Parties(t) \subseteq seen
  /\ \A o \in Ids : pc[o] = "adding" =>
       \A t \in (mark + 1)..Len(trades) : Parties(t) \subseteq seen

\* The words a request has read of an order lag behind the order.
Reading ==
  \A o \in Ids : pc[o] \in {"buy", "sell"} =>
    /\ read[o].filled # NoRow => read[o].filled <= orders[Target(o)].filledBase
    /\ read[o].pointer = "filled" => RemainingBase(orders[Target(o)]) = 0

\* What a DELETE has read of a row lags behind the order as well.
Cancelling ==
  \A c \in Cancelled : cpc[c] \in {"found", "removed"} =>
    rows[c] # NoRow /\ cread[c] <= orders[c].filledBase

RowsInv ==
  /\ ServiceTypeOK
  /\ BookCore
  /\ Control
  /\ Waiting
  /\ Lag
  /\ Matched
  /\ Reading
  /\ Cancelling

--------------------------------------------------------------------------------
(***************************************************************************)
(* The inductive invariant, second part: where each match is.              *)
(***************************************************************************)

\* The worker has taken a job and has not sent it.
InHand == job # NoRow /\ job.tx = 0

\* No match is in two places, or twice in one: the list of the request that made it, the
\* channel, the worker's hands, the chain.
OnePlace ==
  /\ \A o, p \in Ids : \A i \in DOMAIN todo[o], j \in DOMAIN todo[p] :
       todo[o][i] = todo[p][j] => o = p /\ i = j
  /\ \A i, j \in DOMAIN settleCh : settleCh[i] = settleCh[j] => i = j
  /\ \A i, j \in DOMAIN txs : txs[i].trade = txs[j].trade => i = j
  /\ \A o \in Ids : \A i \in DOMAIN todo[o] :
       /\ \A j \in DOMAIN settleCh : todo[o][i] # settleCh[j]
       /\ \A j \in DOMAIN txs : todo[o][i] # txs[j].trade
       /\ InHand => todo[o][i] # job.trade
  /\ \A i \in DOMAIN settleCh :
       /\ \A j \in DOMAIN txs : settleCh[i] # txs[j].trade
       /\ InHand => settleCh[i] # job.trade
  /\ InHand => \A j \in DOMAIN txs : txs[j].trade # job.trade

\* The matches an AddOrder is making are in none of those places yet.
NotPlacedYet ==
  \A o \in Ids : pc[o] = "adding" =>
    /\ \A p \in Ids : \A i \in DOMAIN todo[p] : todo[p][i] <= mark
    /\ \A i \in DOMAIN settleCh : settleCh[i] <= mark
    /\ \A i \in DOMAIN txs : txs[i].trade <= mark
    /\ InHand => job.trade <= mark

\* What leaves the list of its request has a row.
PersistedFirst ==
  /\ \A o \in Ids : pc[o] \in {"buy", "sell", "send"} => Head(todo[o]) \in persisted
  /\ \A i \in DOMAIN settleCh : settleCh[i] \in persisted
  /\ \A i \in DOMAIN txs : txs[i].trade \in persisted
  /\ InHand => job.trade \in persisted

\* The worker waits for the transaction of its job, and what it reports is so.
Verdicts ==
  /\ job # NoRow /\ job.tx # 0 => txs[job.tx].trade = job.trade
  /\ \A r \in results : ~r.err => r.trade \in Mined
  /\ settled \subseteq Mined

SettleInv == OnePlace /\ NotPlacedYet /\ PersistedFirst /\ Verdicts

--------------------------------------------------------------------------------
(***************************************************************************)
(* The book, under the service.                                            *)
(***************************************************************************)

\* The steps that leave the book alone.
LEMMA BookAlone ==
  ASSUME \/ \E o \in Ids : \/ Create(o) \/ PersistTrade(o) \/ UpdateStatus(o) \/ Send(o)
                           \/ \E w \in Words : ReadWord(o, w)
         \/ \E c \in Cancelled : GetByID(c) \/ MarkCancelled(c)
         \/ Worker \/ Mine
  PROVE  UNCHANGED bookVars
BY DEF Create, PersistTrade, UpdateStatus, Send, ReadWord, GetByID, MarkCancelled,
       Worker, Take, SendTransaction, WaitMined, HandleResult, Mine

\* An order read back from its row is the order that was submitted, with the row's fill.
LEMMA FromRowFacts ==
  ASSUME ServiceTypeOK, BookCore, Lag, NEW o \in Ids \ seen
  PROVE  /\ FromRow(o) \in Order
         /\ Base(FromRow(o)) = Base(orders[o]) /\ Quote(FromRow(o)) = Quote(orders[o])
         /\ FromRow(o).filledBase <= Base(orders[o])
         /\ rows[o] = NoRow => FromRow(o) = orders[o]
         /\ rows[o] # NoRow => /\ FromRow(o).filledBase = rows[o].filled
                               /\ FromRow(o).status = rows[o].status
<1>1. /\ orders[o] \in Order /\ rows[o] \in [status : Statuses, filled : Nat] \cup {NoRow}
      /\ orders[o].filledBase <= Base(orders[o])
      /\ rows[o] # NoRow => rows[o].filled <= orders[o].filledBase
  BY DEF ServiceTypeOK, BookTypeOK, Lag
<1>2. CASE rows[o] = NoRow
  BY <1>1, <1>2 DEF FromRow
<1>3. CASE rows[o] # NoRow
  <2>1. rows[o].status \in Statuses /\ rows[o].filled \in Nat
    BY <1>1, <1>3
  <2>2. FromRow(o) = [orders[o] EXCEPT !.status = rows[o].status, !.filledBase = rows[o].filled]
    BY <1>3 DEF FromRow, FilledOf
  <2>3. /\ FromRow(o) \in Order
        /\ FromRow(o).filledBase = rows[o].filled /\ FromRow(o).status = rows[o].status
        /\ FromRow(o).side = orders[o].side /\ FromRow(o).amountSell = orders[o].amountSell
        /\ FromRow(o).amountBuy = orders[o].amountBuy
    BY <1>1, <2>1, <2>2 DEF Order
  <2>4. Base(FromRow(o)) = Base(orders[o]) /\ Quote(FromRow(o)) = Quote(orders[o])
    BY <2>3 DEF Base, Quote
  <2>5. orders[o].filledBase \in Nat /\ Base(orders[o]) \in Nat
    BY <1>1, AmountTypes
  <2> QED BY <1>1, <1>3, <2>1, <2>3, <2>4, <2>5
<1> QED BY <1>2, <1>3

\* Every step of the service keeps the book as BookCore says: what goes to AddOrder is an
\* order nobody has filled or cancelled, and a restart begins with an empty book.
LEMMA CoreStep ==
  ASSUME RowsInv, Next
  PROVE  BookCore'
<1> USE DEF RowsInv
<1>1. ASSUME NEW o \in Ids, AddOrder(o) PROVE BookCore'
  <2>1. o \notin seen /\ (Begin(o) \/ BeginPanics(o)) /\ pc[o] = "created"
    BY <1>1 DEF AddOrder, Begin, BeginPanics
  <2>2. Fresh(o)
    BY <2>1 DEF Waiting
  <2> QED BY <2>1, <2>2, BeginInv, BeginPanicsInv
<1>2. ASSUME Load PROVE BookCore'
  <2>1. loading \in Seq(Ids) /\ loading # << >> /\ Begin(Head(loading))
    BY <1>2 DEF Load, ServiceTypeOK
  <2>2. Head(loading) \in Ids /\ Head(loading) \in ToSet(loading)
    BY <2>1, TailFacts
  <2>3. Head(loading) \notin seen
    BY <2>1 DEF Begin
  <2>4. Fresh(Head(loading))
    BY <2>2, <2>3 DEF Waiting
  <2> QED BY <2>1, <2>2, <2>4, BeginInv
<1>3. ASSUME Iterate PROVE BookCore'
  BY <1>3, MatchInv DEF Iterate
<1>4. ASSUME NEW c \in Cancelled, RemoveFromBook(c) PROVE BookCore'
  BY <1>4, CancelInv, CoreStutters, ServiceAssumption DEF RemoveFromBook
<1>5. ASSUME Finish PROVE BookCore'
  BY <1>5, FinishInv
<1>6. ASSUME Exit PROVE BookCore'
  <2>1. seen' = {} /\ resting' = {} /\ incoming' = NoOrder /\ UNCHANGED <<orders, trades>>
    BY <1>6 DEF Exit
  <2>2. BookTypeOK'
    BY <2>1 DEF BookCore, BookTypeOK, MatchResult
  <2> QED BY <2>1, <2>2 DEF BookCore, FillsWithinAmount, RestingExactlyLive, BookUncrossed,
                            IncomingNotResting, IncomingNotCancelled
<1>7. ASSUME Start PROVE BookCore'
  <2>1. /\ seen = {} /\ incoming = NoOrder /\ resting = {}
        /\ UNCHANGED <<seen, resting, incoming, trades>>
        /\ orders' = [o \in Ids |-> FromRow(o)]
    BY <1>7 DEF Start, Control, BookCore, BookTypeOK
  <2>2. orders' \in [Ids -> Order]
    BY <2>1, FromRowFacts
  <2>3. BookTypeOK'
    BY <2>1, <2>2 DEF BookCore, BookTypeOK, MatchResult
  <2> QED BY <2>1, <2>3 DEF BookCore, FillsWithinAmount, RestingExactlyLive, BookUncrossed,
                            IncomingNotResting, IncomingNotCancelled
<1>8. ASSUME UNCHANGED bookVars PROVE BookCore'
  BY <1>8, CoreStutters
<1> QED
  BY <1>1, <1>2, <1>3, <1>4, <1>5, <1>6, <1>7, <1>8, BookAlone
     DEF Next, Backend, Submit, CancelOrder, Boot, Crash, LoadPanics, Loaded, AddOrderReturns

\* A step of the book only adds: orders, fills, and matches of orders it knows.
LEMMA BookGrows ==
  ASSUME BookCore, BookCore', [BookNext]_bookVars
  PROVE  /\ seen \subseteq seen'
         /\ Len(trades) \in Nat /\ Len(trades') \in Nat /\ Len(trades) <= Len(trades')
         /\ \A t \in 1..Len(trades) : trades'[t] = trades[t]
         /\ \A t \in (Len(trades) + 1)..Len(trades') :
              trades'[t].buy \in seen /\ trades'[t].sell \in seen
         /\ \A o \in Ids : /\ Base(orders'[o]) = Base(orders[o])
                           /\ orders[o].filledBase <= orders'[o].filledBase
                           /\ RemainingBase(orders[o]) = 0 => RemainingBase(orders'[o]) = 0
<1>1. /\ orders \in [Ids -> Order] /\ orders' \in [Ids -> Order]
      /\ trades \in Seq(MatchResult)
      /\ Len(trades) \in Nat
      /\ \A o \in Ids : orders[o].filledBase \in Nat
  BY MemberFacts, AmountTypes DEF BookCore, BookTypeOK
<1>2. CASE UNCHANGED <<orders, trades>>
  <2>1. seen \subseteq seen'
    <3>1. CASE BookNext
      BY <3>1, UnseenUntouched
    <3> QED BY <3>1 DEF bookVars
  <2> QED BY <1>1, <1>2, <2>1
<1>3. CASE \E o \in Ids : Cancel(o)
  <2>1. PICK o \in Ids : Cancel(o)
    BY <1>3
  <2>2. UNCHANGED <<seen, trades>> /\ orders' = [orders EXCEPT ![o].status = "cancelled"]
    BY <2>1 DEF Cancel
  <2>3. \A k \in Ids : /\ orders'[k].filledBase = orders[k].filledBase
                       /\ Base(orders'[k]) = Base(orders[k])
                       /\ RemainingBase(orders'[k]) = RemainingBase(orders[k])
    BY <1>1, <2>2 DEF Order, Base, RemainingBase
  <2> QED BY <1>1, <2>2, <2>3
<1>4. CASE \E m \in Ids : Match(m)
  <2>1. PICK m \in Ids : Match(m)
    BY <1>4
  <2>2. PICK n \in Nat :
           /\ incoming \in seen /\ m \in resting /\ m # incoming
           /\ n > 0 /\ n <= RemainingBase(orders[incoming]) /\ n <= RemainingBase(orders[m])
           /\ orders' = [orders EXCEPT ![incoming] = Filled(@, n), ![m] = Filled(@, n)]
           /\ UNCHANGED <<seen, incoming>>
           /\ trades' = Append(trades,
                [ buy   |-> BuyOf(incoming, m), sell  |-> SellOf(incoming, m), fill |-> n,
                  quote |-> SellerReceives(orders[SellOf(incoming, m)], n),
                  price |-> Price(orders[m]),   maker |-> m ])
    BY <2>1, MatchFacts
  <2>3. m \in seen /\ incoming \in Ids /\ m \in Ids
    BY <2>2 DEF BookCore, BookTypeOK
  <2>4. \A k \in Ids : /\ Base(orders'[k]) = Base(orders[k])
                       /\ orders[k].filledBase <= orders'[k].filledBase
                       /\ RemainingBase(orders[k]) = 0 => RemainingBase(orders'[k]) = 0
    <3> TAKE k \in Ids
    <3>1. CASE k \in {incoming, m}
      <4>1. /\ orders'[k] = Filled(orders[k], n) /\ orders[k] \in Order /\ n > 0
            /\ n <= RemainingBase(orders[k])
        BY <1>1, <2>2, <2>3, <3>1
      <4>2. /\ orders'[k].filledBase = orders[k].filledBase + n
            /\ Base(orders'[k]) = Base(orders[k])
        BY <4>1, FilledOrder
      <4> QED BY <1>1, <4>1, <4>2, AmountTypes
    <3>2. CASE k \notin {incoming, m}
      BY <1>1, <2>2, <2>3, <3>2
    <3> QED BY <3>1, <3>2
  <2> DEFINE e == [ buy   |-> BuyOf(incoming, m), sell  |-> SellOf(incoming, m), fill |-> n,
                    quote |-> SellerReceives(orders[SellOf(incoming, m)], n),
                    price |-> Price(orders[m]),   maker |-> m ]
  <2>5. e.buy \in seen /\ e.sell \in seen
    BY <2>2, <2>3 DEF BuyOf, SellOf
  <2> HIDE DEF e
  <2>6. trades' = Append(trades, e)
    BY <2>2 DEF e
  <2>7. /\ Len(trades') = Len(trades) + 1 /\ trades'[Len(trades) + 1] = e
        /\ \A t \in 1..Len(trades) : trades'[t] = trades[t]
    BY <1>1, <2>6
  <2> QED BY <1>1, <2>2, <2>4, <2>5, <2>7
<1> QED
  BY <1>2, <1>3, <1>4 DEF BookNext, Begin, BeginPanics, Finish, bookVars

--------------------------------------------------------------------------------
(***************************************************************************)
(* Types.                                                                  *)
(***************************************************************************)

\* The matches made so far are the first of those made later.
LEMMA TradeIdsGrow ==
  ASSUME ServiceTypeOK, ServiceTypeOK', Len(trades) <= Len(trades')
  PROVE  TradeIds \subseteq TradeIds'
<1>1. Len(trades) \in Nat /\ Len(trades') \in Nat
  BY MemberFacts DEF ServiceTypeOK, BookTypeOK
<1> QED BY <1>1 DEF TradeIds

\* What a request holds of the words of an order.
Held == [pointer : Statuses \cup {NoRow}, length : Statuses \cup {NoRow},
         filled : Nat \cup {NoRow}]

\* Reading one word keeps the type of what a request holds.
LEMMA SetWord ==
  ASSUME NEW r \in Held, NEW w \in Words, NEW v,
         IF w = "filled" THEN v \in Nat \cup {NoRow} ELSE v \in Statuses \cup {NoRow}
  PROVE  [r EXCEPT ![w] = v] \in Held
<1>1. CASE w = "filled"
  <2>1. [r EXCEPT ![w] = v] = [r EXCEPT !.filled = v]
    BY <1>1
  <2> QED BY <1>1, <2>1 DEF Held
<1>2. CASE w = "pointer"
  <2>1. [r EXCEPT ![w] = v] = [r EXCEPT !.pointer = v]
    BY <1>2
  <2> QED BY <1>2, <2>1 DEF Held
<1>3. CASE w = "length"
  <2>1. [r EXCEPT ![w] = v] = [r EXCEPT !.length = v]
    BY <1>3
  <2> QED BY <1>3, <2>1 DEF Held
<1> QED BY <1>1, <1>2, <1>3 DEF Words

\* The steps of a SubmitOrder keep the types.
LEMMA SubmitTypes ==
  ASSUME RowsInv, BookCore', NEW o \in Ids, Submit(o)
  PROVE  ServiceTypeOK'
<1> USE DEF RowsInv, ServiceTypeOK
<1>1. BookTypeOK' /\ Len(trades) \in Nat
  BY MemberFacts DEF BookCore, BookTypeOK
<1>2. /\ Row(o) \in [status : Statuses, filled : Nat]
      /\ \A k \in Ids : orders[k].status \in Statuses /\ orders[k].filledBase \in Nat
  BY AmountTypes DEF BookTypeOK, Row
<1>3. \A s : LoopOver(s) \in SubmitPcs
  BY DEF LoopOver, SubmitPcs
<1>4. Unread \in [pointer : Statuses \cup {NoRow}, length : Statuses \cup {NoRow},
                  filled : Nat \cup {NoRow}]
  BY DEF Unread, Words
<1>5. pc[o] \in {"persist", "buy", "sell", "send"} =>
        /\ Head(todo[o]) \in TradeIds /\ Tail(todo[o]) \in Seq(TradeIds)
        /\ trades[Head(todo[o])] \in MatchResult /\ Target(o) \in Ids
  <2> SUFFICES ASSUME pc[o] \in {"persist", "buy", "sell", "send"}
               PROVE  /\ Head(todo[o]) \in TradeIds /\ Tail(todo[o]) \in Seq(TradeIds)
                      /\ trades[Head(todo[o])] \in MatchResult /\ Target(o) \in Ids
    OBVIOUS
  <2>1. todo[o] \in Seq(TradeIds) /\ todo[o] # << >>
    BY DEF Control
  <2>2. Head(todo[o]) \in TradeIds /\ Tail(todo[o]) \in Seq(TradeIds)
    BY <2>1, TailFacts
  <2>3. trades[Head(todo[o])] \in MatchResult
    BY <2>2, MemberFacts DEF BookTypeOK, TradeIds
  <2> QED BY <2>2, <2>3 DEF Target, MatchResult
<1>6. CASE Create(o)
  <2>1. rows' \in [Ids -> [status : Statuses, filled : Nat] \cup {NoRow}]
    <3>1. rows' = rows \/ rows' = [rows EXCEPT ![o] = Row(o)]
      BY <1>6 DEF Create
    <3> QED BY <1>2, <3>1
  <2>2. pc' \in [Ids -> SubmitPcs]
    BY <1>6 DEF Create, SubmitPcs
  <2>3. failures' \in 0..MaxFailures /\ crashes' \in 0..MaxCrashes
    BY <1>6, ServiceAssumption DEF Create, MayFail, bounds
  <2> QED BY <1>1, <1>6, <2>1, <2>2, <2>3
             DEF Create, bookVars, cancels, worker, startup, TradeIds
<1>7. CASE AddOrder(o)
  <2>1. /\ trades' = trades
        /\ UNCHANGED <<todo, read, cancels, worker, startup, database, txs, bounds>>
    BY <1>7 DEF AddOrder, Begin, BeginPanics
  <2>2. pc' \in [Ids -> SubmitPcs]
    BY <1>7 DEF AddOrder, SubmitPcs
  <2>3. mark' \in 0..Len(trades')
    BY <1>1, <1>7, <2>1 DEF AddOrder
  <2> QED BY <1>1, <2>1, <2>2, <2>3 DEF cancels, worker, startup, database, bounds, TradeIds
<1>8. CASE AddOrderReturns(o)
  <2> DEFINE matches == [i \in 1..(Len(trades) - mark) |-> mark + i]
  <2>1. /\ trades' = trades
        /\ todo' = [todo EXCEPT ![o] = matches]
        /\ pc' = [pc EXCEPT ![o] = LoopOver(matches)]
        /\ UNCHANGED <<read, mark, cancels, worker, startup, database, txs, bounds>>
    BY <1>8 DEF AddOrderReturns, Finish
  <2>2. matches \in Seq(TradeIds)
    <3>1. Len(trades) - mark \in Nat /\ mark \in Nat
      BY <1>1
    <3>2. \A i \in 1..(Len(trades) - mark) : mark + i \in TradeIds
      BY <1>1, <3>1 DEF TradeIds
    <3> QED BY <3>1, <3>2, IsASeq
  <2> HIDE DEF matches
  <2>3. pc' \in [Ids -> SubmitPcs] /\ todo' \in [Ids -> Seq(TradeIds)]
    BY <1>3, <2>1, <2>2
  <2> QED BY <1>1, <2>1, <2>3 DEF cancels, worker, startup, database, bounds, TradeIds
<1>9. CASE PersistTrade(o)
  <2>1. pc[o] = "persist" /\ Head(todo[o]) \in TradeIds /\ Tail(todo[o]) \in Seq(TradeIds)
    BY <1>5, <1>9 DEF PersistTrade
  <2>2. persisted' \subseteq TradeIds
    BY <1>9, <2>1 DEF PersistTrade, Inserted
  <2>3. todo' \in [Ids -> Seq(TradeIds)]
    BY <1>9, <2>1 DEF PersistTrade
  <2>4. pc' \in [Ids -> SubmitPcs]
    BY <1>3, <1>9 DEF PersistTrade, SubmitPcs
  <2>5. failures' \in 0..MaxFailures /\ crashes' \in 0..MaxCrashes
    BY <1>9, ServiceAssumption DEF PersistTrade, MayFail, bounds
  <2> QED BY <1>1, <1>9, <2>2, <2>3, <2>4, <2>5
             DEF PersistTrade, bookVars, cancels, worker, startup, TradeIds
<1>10. CASE \E w \in Words : ReadWord(o, w)
  <2>1. PICK w \in Words : ReadWord(o, w)
    BY <1>10
  <2>2. Target(o) \in Ids
    BY <1>5, <2>1 DEF ReadWord
  <2>3. read' \in [Ids -> [pointer : Statuses \cup {NoRow}, length : Statuses \cup {NoRow},
                           filled : Nat \cup {NoRow}]]
    <3> DEFINE v == IF w = "filled" THEN orders[Target(o)].filledBase
                    ELSE orders[Target(o)].status
    <3>1. read' = [read EXCEPT ![o] = [read[o] EXCEPT ![w] = v]]
      BY <2>1 DEF ReadWord
    <3>2. read[o] \in Held
      BY DEF Held
    <3>3. [read[o] EXCEPT ![w] = v] \in Held
      BY <1>2, <2>2, <3>2, SetWord
    <3> QED BY <3>1, <3>3 DEF Held
  <2> QED BY <1>1, <2>1, <2>3
             DEF ReadWord, bookVars, cancels, worker, startup, database, bounds, TradeIds
<1>11. CASE UpdateStatus(o)
  <2>1. Target(o) \in Ids /\ read[o].pointer \in Statuses /\ read[o].filled \in Nat
    BY <1>5, <1>11 DEF UpdateStatus, Words
  <2>2. rows' \in [Ids -> [status : Statuses, filled : Nat] \cup {NoRow}]
    <3> DEFINE r == [status |-> read[o].pointer, filled |-> read[o].filled]
    <3>1. r \in [status : Statuses, filled : Nat]
      BY <2>1
    <3> HIDE DEF r
    <3>2. rows' = rows \/ rows' = [rows EXCEPT ![Target(o)] = r]
      BY <1>11 DEF UpdateStatus, r
    <3> QED BY <2>1, <3>1, <3>2
  <2>4. failures' \in 0..MaxFailures /\ crashes' \in 0..MaxCrashes
    BY <1>11, ServiceAssumption DEF UpdateStatus, MayFail, bounds
  <2>3. /\ read' \in [Ids -> [pointer : Statuses \cup {NoRow}, length : Statuses \cup {NoRow},
                              filled : Nat \cup {NoRow}]]
        /\ pc' \in [Ids -> SubmitPcs]
    BY <1>4, <1>11 DEF UpdateStatus, SubmitPcs
  <2> QED BY <1>1, <1>11, <2>2, <2>3, <2>4
             DEF UpdateStatus, bookVars, cancels, worker, startup, TradeIds
<1>12. CASE Send(o)
  <2>1. /\ Head(todo[o]) \in TradeIds /\ Tail(todo[o]) \in Seq(TradeIds)
        /\ pc[o] = "send" /\ Len(settleCh) < QueueSize
    BY <1>5, <1>12 DEF Send, Room
  <2>2. settleCh' \in Seq(TradeIds) /\ Len(settleCh') <= QueueSize
    BY <1>12, <2>1, AppendFacts, ServiceAssumption DEF Send
  <2>3. todo' \in [Ids -> Seq(TradeIds)] /\ pc' \in [Ids -> SubmitPcs]
    BY <1>3, <1>12, <2>1 DEF Send
  <2> QED BY <1>1, <1>12, <2>2, <2>3
             DEF Send, bookVars, cancels, startup, database, bounds, TradeIds
<1> QED BY <1>6, <1>7, <1>8, <1>9, <1>10, <1>11, <1>12 DEF Submit, AddOrder

\* The steps of a CancelOrder keep the types.
LEMMA CancelTypes ==
  ASSUME RowsInv, BookCore', NEW c \in Cancelled, CancelOrder(c)
  PROVE  ServiceTypeOK'
<1> USE DEF RowsInv, ServiceTypeOK
<1>1. BookTypeOK' /\ Len(trades) \in Nat /\ c \in Ids
  BY MemberFacts, ServiceAssumption DEF BookCore, BookTypeOK
<1>2. CASE GetByID(c)
  <2>1. cread' \in [Cancelled -> Nat] /\ cpc' \in [Cancelled -> CancelPcs]
    BY <1>1, <1>2 DEF GetByID, CancelPcs
  <2> QED BY <1>1, <1>2, <2>1
             DEF GetByID, bookVars, submits, worker, startup, database, bounds, TradeIds
<1>3. CASE RemoveFromBook(c)
  <2>1. cpc' \in [Cancelled -> CancelPcs] /\ trades' = trades
    BY <1>3 DEF RemoveFromBook, CancelPcs, Cancel, bookVars
  <2> QED BY <1>1, <1>3, <2>1
             DEF RemoveFromBook, submits, worker, startup, database, bounds, TradeIds
<1>4. CASE MarkCancelled(c)
  <2>1. rows' \in [Ids -> [status : Statuses, filled : Nat] \cup {NoRow}]
    <3> DEFINE r == [status |-> "cancelled", filled |-> cread[c]]
    <3>1. r \in [status : Statuses, filled : Nat]
      BY DEF Statuses
    <3> HIDE DEF r
    <3>2. rows' = rows \/ rows' = [rows EXCEPT ![c] = r]
      BY <1>4 DEF MarkCancelled, r
    <3> QED BY <1>1, <3>1, <3>2
  <2>2. cpc' \in [Cancelled -> CancelPcs]
    BY <1>4 DEF MarkCancelled, CancelPcs
  <2>3. failures' \in 0..MaxFailures /\ crashes' \in 0..MaxCrashes
    BY <1>4, ServiceAssumption DEF MarkCancelled, MayFail, bounds
  <2> QED BY <1>1, <1>4, <2>1, <2>2, <2>3
             DEF MarkCancelled, bookVars, submits, worker, startup, TradeIds
<1> QED BY <1>2, <1>3, <1>4 DEF CancelOrder

\* The steps of the settlement worker and of the node keep the types.
LEMMA WorkerTypes ==
  ASSUME RowsInv, BookCore', Worker \/ Mine
  PROVE  ServiceTypeOK'
<1> USE DEF RowsInv, ServiceTypeOK
<1> DEFINE Txs == [trade : TradeIds, status : {"pending", "mined", "reverted"}]
<1>1. BookTypeOK' /\ Len(trades) \in Nat /\ txs \in Seq(Txs) /\ Len(txs) \in Nat
  BY MemberFacts DEF BookCore, BookTypeOK
<1>2. UNCHANGED <<bookVars, submits, cancels, startup>>
  BY DEF Worker, Take, SendTransaction, WaitMined, HandleResult, Mine
<1>3. CASE Take
  <2>1. Head(settleCh) \in TradeIds /\ Tail(settleCh) \in Seq(TradeIds)
        /\ Len(Tail(settleCh)) <= QueueSize
    BY <1>3, TailFacts, ServiceAssumption DEF Take
  <2>2. job' \in [trade : TradeIds, tx : 0..Len(txs)]
    BY <1>1, <1>3, <2>1 DEF Take
  <2> QED BY <1>1, <1>2, <1>3, <2>1, <2>2
             DEF Take, bookVars, submits, cancels, startup, database, bounds, TradeIds
<1>4. CASE SendTransaction
  <2>1. job \in [trade : TradeIds, tx : 0..Len(txs)]
    BY <1>4 DEF SendTransaction
  <2> DEFINE t == [trade |-> job.trade, status |-> "pending"]
  <2>2. t \in Txs
    BY <2>1
  <2> HIDE DEF t, Txs
  <2>3. Append(txs, t) \in Seq(Txs) /\ Len(Append(txs, t)) \in Nat
    <3>1. Append(txs, t) \in Seq(Txs)
      BY <1>1, <2>2, AppendFacts
    <3> QED BY <3>1, MemberFacts
  <2>4. txs' \in Seq(Txs) /\ Len(txs') \in Nat
    <3>1. txs' = txs \/ txs' = Append(txs, t)
      BY <1>4 DEF SendTransaction, Sent, t
    <3> QED BY <1>1, <2>3, <3>1, Zenon
  <2>5. job' \in [trade : TradeIds, tx : 0..Len(txs')] \cup {NoRow}
    <3>1. CASE job' = [job EXCEPT !.tx = Len(txs')]
      <4> DEFINE n == Len(txs')
      <4>1. n \in 0..n
        BY <2>4
      <4>2. job' = [job EXCEPT !.tx = n]
        BY <3>1
      <4> HIDE DEF n
      <4>3. job' \in [trade : TradeIds, tx : 0..n]
        BY <2>1, <4>1, <4>2
      <4> QED BY <4>3 DEF n
    <3> QED BY <1>4, <3>1 DEF SendTransaction, GiveUp, Answer
  <2>6. results' \subseteq [trade : TradeIds, err : BOOLEAN] /\ settleCh' = settleCh
    <3>1. [trade |-> job.trade, err |-> TRUE] \in [trade : TradeIds, err : BOOLEAN]
      BY <2>1
    <3>2. results' = results \/ results' = results \cup {[trade |-> job.trade, err |-> TRUE]}
      BY <1>4 DEF SendTransaction, GiveUp, Answer, Answered
    <3> QED BY <1>4, <3>1, <3>2 DEF SendTransaction, GiveUp, Answer
  <2>7. failures' \in 0..MaxFailures /\ crashes' \in 0..MaxCrashes
    BY <1>4, ServiceAssumption DEF SendTransaction, MayFail, bounds
  <2> QED BY <1>1, <1>2, <1>4, <2>4, <2>5, <2>6, <2>7
             DEF SendTransaction, bookVars, submits, cancels, startup, database, TradeIds, Txs
<1>5. CASE WaitMined
  <2>1. job \in [trade : TradeIds, tx : 0..Len(txs)]
    BY <1>5 DEF WaitMined
  <2> DEFINE r == [trade |-> job.trade, err |-> Failed(txs[job.tx])]
  <2>2. r \in [trade : TradeIds, err : BOOLEAN]
    BY <2>1 DEF Failed
  <2> HIDE DEF r
  <2>3. results' \subseteq [trade : TradeIds, err : BOOLEAN]
    BY <1>5, <2>2 DEF WaitMined, Answer, Answered, r
  <2> QED BY <1>1, <1>2, <1>5, <2>3
             DEF WaitMined, Answer, bookVars, submits, cancels, startup, database, bounds, TradeIds
<1>6. CASE \E r \in results : HandleResult(r)
  <2>1. PICK r \in results : HandleResult(r)
    BY <1>6
  <2>2. settled' \subseteq TradeIds /\ results' \subseteq [trade : TradeIds, err : BOOLEAN]
    <3>1. r.trade \in TradeIds
      OBVIOUS
    <3> QED BY <2>1, <3>1 DEF HandleResult, Marked
  <2>3. failures' \in 0..MaxFailures /\ crashes' \in 0..MaxCrashes
    BY <2>1, ServiceAssumption DEF HandleResult, MayFail, bounds
  <2> QED BY <1>1, <1>2, <2>1, <2>2, <2>3
             DEF HandleResult, bookVars, submits, cancels, startup, TradeIds
<1>7. CASE Mine
  <2>1. PICK i \in DOMAIN txs, status \in {"mined", "reverted"} :
          txs' = [txs EXCEPT ![i].status = status]
    BY <1>7 DEF Mine
  <2> HIDE DEF Txs
  <2>2. i \in 1..Len(txs) /\ txs[i] \in Txs
    BY <1>1, <2>1, MemberFacts
  <2>3. [txs[i] EXCEPT !.status = status] \in Txs
    BY <2>1, <2>2 DEF Txs
  <2>4. txs' \in Seq(Txs) /\ Len(txs') = Len(txs)
    BY <1>1, <2>1, <2>2, <2>3, ExceptSeq
  <2> QED BY <1>1, <1>2, <1>7, <2>4
             DEF Mine, bookVars, submits, cancels, worker, startup, database, bounds, TradeIds, Txs
<1> QED BY <1>3, <1>4, <1>5, <1>6, <1>7 DEF Worker

\* The end of the process and its start keep the types.
LEMMA BootTypes ==
  ASSUME RowsInv, BookCore', Boot \/ Crash
  PROVE  ServiceTypeOK'
<1> USE DEF RowsInv, ServiceTypeOK
<1>1. BookTypeOK' /\ Len(trades) \in Nat
  BY MemberFacts DEF BookCore, BookTypeOK
<1>2. CASE Crash \/ LoadPanics
  <2>1. Exit /\ crashes' \in 0..MaxCrashes
    BY <1>2, ServiceAssumption DEF Crash, LoadPanics
  <2>2. trades' = trades /\ mark' = 0 /\ up' \in BOOLEAN
    BY <2>1, Zenon DEF Exit
  <2>7. 0 \in 0..Len(trades)
    BY <1>1
  <2>4. pc' \in [Ids -> SubmitPcs]
    BY <2>1 DEF Exit, SubmitPcs
  <2>5. cpc' \in [Cancelled -> CancelPcs] /\ cread' \in [Cancelled -> Nat]
    BY <2>1 DEF Exit, CancelPcs
  <2>6. /\ todo' \in [Ids -> Seq(TradeIds)] /\ settleCh' \in Seq(TradeIds)
        /\ loading' \in Seq(Ids) /\ Len(settleCh') <= QueueSize
    BY <2>1, EmptySeq, ServiceAssumption DEF Exit
  <2>3. read' \in [Ids -> Held]
    BY <2>1 DEF Exit, Unread, Held, Words
  <2> QED BY <1>1, <2>1, <2>2, <2>3, <2>4, <2>5, <2>6, <2>7 DEF Exit, database, TradeIds, Held
<1>3. CASE Start
  <2>1. loading' \in Seq(Ids)
    <3>1. CASE loading' \in GetOpenByPair
      <4>1. OpenRows \subseteq Ids /\ IsFiniteSet(OpenRows)
        BY ServiceAssumption, FS_Subset DEF OpenRows
      <4>2. Cardinality(OpenRows) \in Nat
        BY <4>1, FS_CardinalityType
      <4>3. loading' \in [1..Cardinality(OpenRows) -> OpenRows]
        BY <3>1 DEF GetOpenByPair, SetToSeqs
      <4>4. loading' \in Seq(OpenRows)
        <5>1. Seq(OpenRows) = UNION { [1..n -> OpenRows] : n \in Nat }
          BY SeqDef, Zenon
        <5> QED BY <4>2, <4>3, <5>1, Zenon
      <4> QED BY <4>1, <4>4, SeqMonotonic
    <3> QED BY <1>3, <3>1, EmptySeq DEF Start
  <2>2. failures' \in 0..MaxFailures /\ crashes' \in 0..MaxCrashes
    BY <1>3, ServiceAssumption DEF Start, MayFail, bounds
  <2> QED BY <1>1, <1>3, <2>1, <2>2
             DEF Start, submits, cancels, worker, database, TradeIds
<1>4. CASE Load
  BY <1>1, <1>4
     DEF Load, Begin, submits, cancels, worker, startup, database, bounds, TradeIds
<1>5. CASE Loaded
  <2>1. loading' \in Seq(Ids)
    BY <1>5, TailFacts DEF Loaded
  <2> QED BY <1>1, <1>5, <2>1
             DEF Loaded, Finish, submits, cancels, worker, database, bounds, TradeIds
<1> QED BY <1>2, <1>3, <1>4, <1>5 DEF Boot

\* An iteration of the matching loop keeps the types: matches are only added.
LEMMA IterateTypes ==
  ASSUME RowsInv, BookCore', Iterate
  PROVE  ServiceTypeOK'
<1> USE DEF RowsInv, ServiceTypeOK
<1>1. BookTypeOK'
  BY DEF BookCore
<1>2. UNCHANGED <<submits, cancels, worker, startup, database, txs, bounds>>
  BY DEF Iterate
<1>3. Len(trades) \in Nat /\ Len(trades') \in Nat /\ Len(trades) <= Len(trades')
  BY BookGrows DEF Iterate, BookNext
<1>4. TradeIds \subseteq TradeIds' /\ 0..Len(trades) \subseteq 0..Len(trades')
  BY <1>3 DEF TradeIds
<1>5. todo' \in [Ids -> Seq(TradeIds')] /\ settleCh' \in Seq(TradeIds')
  <2>1. todo' = todo /\ settleCh' = settleCh
    BY <1>2 DEF submits, worker
  <2> HIDE DEF TradeIds
  <2>2. Seq(TradeIds) \subseteq Seq(TradeIds')
    BY <1>4, SeqMonotonic
  <2> QED BY <2>1, <2>2
<1>6. txs' \in Seq([trade : TradeIds', status : {"pending", "mined", "reverted"}])
  <2>1. [trade : TradeIds, status : {"pending", "mined", "reverted"}]
          \subseteq [trade : TradeIds', status : {"pending", "mined", "reverted"}]
    BY <1>4
  <2> QED BY <1>2, <2>1, SeqMonotonic
<1> QED
  BY <1>1, <1>2, <1>4, <1>5, <1>6 DEF submits, cancels, worker, startup, database, bounds

\* Every step keeps the types.
LEMMA TypeStep ==
  ASSUME RowsInv, Next
  PROVE  ServiceTypeOK'
BY CoreStep, SubmitTypes, CancelTypes, WorkerTypes, BootTypes, IterateTypes
   DEF Next, Backend

--------------------------------------------------------------------------------
(***************************************************************************)
(* Where everyone is.                                                      *)
(***************************************************************************)

\* Every step keeps Control.
LEMMA ControlStep ==
  ASSUME RowsInv, ServiceTypeOK', Next
  PROVE  Control'
<1> USE DEF RowsInv
<1>0. /\ pc \in [Ids -> SubmitPcs] /\ todo \in [Ids -> Seq(TradeIds)]
      /\ read \in [Ids -> Held] /\ NoOrder \notin Ids /\ up \in BOOLEAN
      /\ Cancelled \subseteq Ids /\ cpc \in [Cancelled -> CancelPcs]
      /\ loading \in Seq(Ids)
  BY BookAssumption, ServiceAssumption DEF ServiceTypeOK, Held
<1>1. ASSUME NEW o \in Ids, Create(o) PROVE Control'
  BY <1>0, <1>1
     DEF Create, Serving, Control, MayFail, bookVars, cancels, startup, bounds
<1>2. ASSUME NEW o \in Ids, AddOrder(o) PROVE Control'
  BY <1>0, <1>2
     DEF AddOrder, Begin, BeginPanics, AfterPanic, Serving, Control, cancels, startup
<1>3. ASSUME Iterate PROVE Control'
  BY <1>0, <1>3 DEF Iterate, Match, Serving, Control, submits, cancels, startup
<1>4. ASSUME NEW o \in Ids, AddOrderReturns(o) PROVE Control'
  BY <1>0, <1>4
     DEF AddOrderReturns, Finish, LoopOver, Serving, Control, cancels, startup
<1>5. ASSUME NEW o \in Ids, PersistTrade(o) PROVE Control'
  BY <1>0, <1>5
     DEF PersistTrade, LoopOver, Serving, Control, bookVars, cancels, startup
<1>6. ASSUME NEW o \in Ids, NEW w \in Words, ReadWord(o, w) PROVE Control'
  BY <1>0, <1>6 DEF ReadWord, Serving, Control, bookVars, cancels, startup
<1>7. ASSUME NEW o \in Ids, UpdateStatus(o) PROVE Control'
  BY <1>0, <1>7 DEF UpdateStatus, Serving, Control, bookVars, cancels, startup
<1>8. ASSUME NEW o \in Ids, Send(o) PROVE Control'
  BY <1>0, <1>8 DEF Send, LoopOver, Serving, Control, bookVars, cancels, startup
<1>9. ASSUME NEW c \in Cancelled, GetByID(c) \/ MarkCancelled(c) PROVE Control'
  BY <1>0, <1>9
     DEF GetByID, MarkCancelled, Serving, Control, bookVars, submits, startup
<1>10. ASSUME NEW c \in Cancelled, RemoveFromBook(c) PROVE Control'
  BY <1>0, <1>10
     DEF RemoveFromBook, Cancel, Serving, Control, bookVars, submits, startup
<1>11. ASSUME Worker \/ Mine PROVE Control'
  BY <1>11
     DEF Worker, Take, SendTransaction, WaitMined, HandleResult, Mine, Serving, Control,
         bookVars, submits, cancels, startup
<1>12. ASSUME Exit PROVE Control'
  BY <1>0, <1>12 DEF Exit, Serving, Control
<1>13. ASSUME Start PROVE Control'
  BY <1>0, <1>13 DEF Start, Serving, Control, submits, cancels
<1>14. ASSUME Load PROVE Control'
  BY <1>0, <1>14
     DEF Load, Begin, Serving, Control, submits, cancels, startup
<1>15. ASSUME Loaded PROVE Control'
  BY <1>0, <1>15 DEF Loaded, Finish, Serving, Control, submits, cancels
<1> QED
  BY <1>1, <1>2, <1>3, <1>4, <1>5, <1>6, <1>7, <1>8, <1>9, <1>10, <1>11, <1>12, <1>13,
     <1>14, <1>15
     DEF Next, Backend, Submit, CancelOrder, Boot, Crash, LoadPanics

--------------------------------------------------------------------------------
(***************************************************************************)
(* The rows.                                                               *)
(***************************************************************************)

\* Nothing is in an empty queue.
LEMMA EmptyToSet == ToSet(<< >>) = {}
<1>1. << >> \in Seq({})
  BY EmptySeq
<1>2. DOMAIN << >> = 1..0
  BY <1>1, EmptySeq, LenProperties
<1> QED BY <1>2 DEF ToSet

\* The row a request writes is that of an order the book knows.
LEMMA TargetFacts ==
  ASSUME RowsInv, NEW o \in Ids, pc[o] \in {"persist", "buy", "sell", "send"}
  PROVE  /\ Head(todo[o]) \in TradeIds /\ Head(todo[o]) \in ToSet(todo[o])
         /\ ToSet(Tail(todo[o])) \subseteq ToSet(todo[o])
         /\ Target(o) \in seen /\ Target(o) \in Ids
<1>1. todo[o] \in Seq(TradeIds) /\ todo[o] # << >>
  BY DEF RowsInv, Control, ServiceTypeOK
<1>2. /\ Head(todo[o]) \in TradeIds /\ Head(todo[o]) \in ToSet(todo[o])
      /\ ToSet(Tail(todo[o])) \subseteq ToSet(todo[o])
  BY <1>1, TailFacts
<1>3. Target(o) \in Parties(Head(todo[o]))
  BY DEF Target, Parties
<1> QED BY <1>2, <1>3 DEF RowsInv, Matched, BookCore, BookTypeOK

\* An order's row is something else than no row.
LEMMA RowIsARow ==
  ASSUME RowsInv, NEW o \in Ids
  PROVE  /\ Row(o) # NoRow /\ Row(o).filled = orders[o].filledBase
         /\ Row(o).status = orders[o].status
<1>1. Row(o) \in [status : Statuses, filled : Nat]
  BY AmountTypes DEF RowsInv, BookCore, BookTypeOK, Row
<1> QED BY <1>1, ServiceAssumption DEF Row

\* Every step keeps Waiting.
LEMMA WaitingStep ==
  ASSUME RowsInv, Next
  PROVE  Waiting'
<1> USE DEF RowsInv
<1>0. /\ pc \in [Ids -> SubmitPcs] /\ loading \in Seq(Ids) /\ seen \subseteq Ids
      /\ rows \in [Ids -> [status : Statuses, filled : Nat] \cup {NoRow}]
      /\ Cancelled \subseteq Ids
  BY ServiceAssumption DEF ServiceTypeOK, BookTypeOK
<1>1. ASSUME NEW o \in Ids, Create(o) PROVE Waiting'
  <2>1. /\ UNCHANGED <<orders, seen, loading>> /\ ToSet(loading) = {}
        /\ pc[o] = "idle" /\ o \notin seen /\ Fresh(o)
        /\ rows' = rows \/ rows' = [rows EXCEPT ![o] = Row(o)]
    BY <1>1, EmptyToSet DEF Create, Serving, bookVars, startup, Waiting
  <2>2. \/ pc' = [pc EXCEPT ![o] = "created"] /\ rows' = [rows EXCEPT ![o] = Row(o)]
        \/ pc' = [pc EXCEPT ![o] = "done"]
    BY <1>1 DEF Create
  <2>3. Row(o) # NoRow /\ Row(o).status # "filled"
    BY <2>1, RowIsARow DEF Fresh, LiveStatuses
  <2> QED BY <1>0, <2>1, <2>2, <2>3 DEF Waiting, Fresh
<1>2. ASSUME NEW o \in Ids, AddOrder(o) PROVE Waiting'
  BY <1>0, <1>2 DEF AddOrder, Begin, BeginPanics, Waiting, Fresh, startup, database
<1>3. ASSUME Iterate PROVE Waiting'
  <2>1. \A o \in Ids \ seen : orders'[o] = orders[o]
    BY <1>3, UnseenUntouched DEF Iterate, BookNext
  <2>2. UNCHANGED <<seen, rows, loading, pc>>
    BY <1>3 DEF Iterate, Match, submits, startup, database
  <2> QED BY <1>0, <2>1, <2>2 DEF Waiting, Fresh
<1>4. ASSUME NEW o \in Ids, \/ AddOrderReturns(o) \/ PersistTrade(o) \/ Send(o)
                            \/ \E w \in Words : ReadWord(o, w)
      PROVE  Waiting'
  <2>1. UNCHANGED <<seen, orders, rows, loading>>
    <3>1. CASE AddOrderReturns(o)
      BY <3>1 DEF AddOrderReturns, Finish, startup, database
    <3>2. CASE PersistTrade(o)
      BY <3>2 DEF PersistTrade, bookVars, startup
    <3>3. CASE Send(o)
      BY <3>3 DEF Send, bookVars, startup, database
    <3>4. CASE \E w \in Words : ReadWord(o, w)
      BY <3>4 DEF ReadWord, bookVars, startup, database
    <3> QED BY <1>4, <3>1, <3>2, <3>3, <3>4
  <2>2. \A left : LoopOver(left) \in {"done", "persist"}
    BY DEF LoopOver
  <2>3. pc' = pc \/ \E s \in {"done", "persist", "buy"} : pc' = [pc EXCEPT ![o] = s]
    <3>1. CASE AddOrderReturns(o)
      BY <2>2, <3>1 DEF AddOrderReturns
    <3>2. CASE PersistTrade(o)
      BY <2>2, <3>2 DEF PersistTrade
    <3>3. CASE Send(o)
      BY <2>2, <3>3 DEF Send
    <3>4. CASE \E w \in Words : ReadWord(o, w)
      BY <3>4 DEF ReadWord
    <3> QED BY <1>4, <3>1, <3>2, <3>3, <3>4
  <2> QED BY <1>0, <2>1, <2>3 DEF Waiting, Fresh
<1>5. ASSUME NEW o \in Ids, UpdateStatus(o) PROVE Waiting'
  <2>1. pc[o] \in {"buy", "sell"} /\ Target(o) \in seen
    BY <1>5, TargetFacts DEF UpdateStatus
  <2>2. /\ UNCHANGED <<seen, orders, loading>>
        /\ \A k \in Ids : k # Target(o) => rows'[k] = rows[k]
        /\ \E s \in {"sell", "send"} : pc' = [pc EXCEPT ![o] = s]
    BY <1>0, <1>5 DEF UpdateStatus, bookVars, startup
  <2> QED BY <1>0, <2>1, <2>2 DEF Waiting, Fresh
<1>6. ASSUME NEW c \in Cancelled, MarkCancelled(c) PROVE Waiting'
  <2> DEFINE r == [status |-> "cancelled", filled |-> cread[c]]
  <2>1. /\ UNCHANGED <<seen, orders, loading, pc>> /\ cpc[c] = "removed"
        /\ rows' = rows \/ rows' = [rows EXCEPT ![c] = r]
    BY <1>6 DEF MarkCancelled, bookVars, startup, submits
  <2>2. r \in [status : Statuses, filled : Nat] /\ r.status # "filled"
    BY DEF ServiceTypeOK, Statuses
  <2>3. pc[c] # "idle" /\ r # NoRow
    BY <1>0, <2>1, <2>2, ServiceAssumption DEF Cancelling, Waiting
  <2> HIDE DEF r
  <2> QED BY <1>0, <2>1, <2>2, <2>3 DEF Waiting, Fresh
<1>7. ASSUME NEW c \in Cancelled, GetByID(c) \/ RemoveFromBook(c) PROVE Waiting'
  <2>1. UNCHANGED <<rows, loading, pc, seen>>
    BY <1>7 DEF GetByID, RemoveFromBook, Cancel, bookVars, submits, startup, database
  <2>2. \A o \in Ids \ seen : orders'[o] = orders[o]
    BY <1>0, <1>7, UnseenUntouched DEF GetByID, RemoveFromBook, BookNext, bookVars
  <2> QED BY <1>0, <2>1, <2>2 DEF Waiting, Fresh
<1>8. ASSUME Worker \/ Mine PROVE Waiting'
  BY <1>8, BookAlone
     DEF Worker, Take, SendTransaction, WaitMined, HandleResult, Mine, Waiting, Fresh,
         bookVars, submits, startup, database
<1>9. ASSUME Exit PROVE Waiting'
  <2>1. /\ seen' = {} /\ loading' = << >> /\ UNCHANGED <<orders, rows>>
        /\ \A o \in Ids : pc'[o] # "created" /\ (pc'[o] = "idle" => pc[o] = "idle")
    BY <1>9 DEF Exit, database
  <2> QED BY <2>1, EmptyToSet DEF Waiting, Fresh
<1>10. ASSUME Start PROVE Waiting'
  <2>1. /\ seen = {} /\ UNCHANGED <<seen, rows, pc>> /\ \A o \in Ids : pc[o] \in {"idle", "done"}
        /\ orders' = [o \in Ids |-> FromRow(o)]
    BY <1>10 DEF Start, Control, Serving, submits, database
  <2>2. ToSet(loading') \subseteq OpenRows
    <3>1. CASE loading' = << >>
      BY <3>1, EmptyToSet
    <3>2. CASE loading' \in GetOpenByPair
      <4>1. loading' \in [1..Cardinality(OpenRows) -> OpenRows]
        BY <3>2 DEF GetOpenByPair, SetToSeqs
      <4> QED BY <4>1 DEF ToSet
    <3> QED BY <1>10, <3>1, <3>2 DEF Start
  <2>3. \A o \in Ids :
          /\ Base(orders'[o]) = Base(orders[o]) /\ orders'[o].filledBase <= Base(orders[o])
          /\ rows[o] = NoRow => orders'[o] = orders[o]
          /\ rows[o] # NoRow => orders'[o].status = rows[o].status
    BY <2>1, FromRowFacts
  <2>4. \A o \in OpenRows : Fresh(o)' /\ rows[o] # NoRow /\ rows[o].status # "filled"
    BY <2>3 DEF OpenRows, Fresh, LiveStatuses
  <2> QED BY <2>1, <2>2, <2>3, <2>4 DEF Waiting, Fresh
<1>11. ASSUME Load PROVE Waiting'
  <2>1. /\ seen \subseteq seen' /\ Head(loading) \in seen'
        /\ UNCHANGED <<orders, rows, loading, pc>>
    BY <1>11 DEF Load, Begin, submits, startup, database
  <2>2. \A o \in Ids : pc[o] # "idle"  \/ o # Head(loading)
    <3>1. loading # << >> /\ Head(loading) \in ToSet(loading) /\ Head(loading) \in Ids \ seen
      BY <1>0, <1>11, TailFacts DEF Load, Begin
    <3> QED BY <3>1 DEF Waiting
  <2>3. seen' = seen \cup {Head(loading)}
    BY <1>11 DEF Load, Begin
  <2> QED BY <1>0, <2>1, <2>2, <2>3 DEF Waiting, Fresh
<1>12. ASSUME Loaded PROVE Waiting'
  <2>1. ToSet(loading') \subseteq ToSet(loading)
    BY <1>0, <1>12, TailFacts DEF Loaded
  <2> QED BY <1>0, <1>12, <2>1 DEF Loaded, Finish, Waiting, Fresh, submits, database
<1> QED
  BY <1>1, <1>2, <1>3, <1>4, <1>5, <1>6, <1>7, <1>8, <1>9, <1>10, <1>11, <1>12
     DEF Next, Backend, Submit, CancelOrder, Boot, Crash, LoadPanics

\* Every step keeps Lag.
LEMMA LagStep ==
  ASSUME RowsInv, BookCore', ServiceTypeOK', Next
  PROVE  Lag'
<1> USE DEF RowsInv
<1> DEFINE Unbooked == \A o \in Ids \ seen : orders[o].filledBase <= Base(orders[o])
           Behind(o) == /\ rows[o].filled <= orders[o].filledBase
                        /\ o \in seen /\ rows[o].status = "filled" => RemainingBase(orders[o]) = 0
           LagNow == /\ \A o \in seen : rows[o] # NoRow
                     /\ \A o \in Ids : rows[o] # NoRow => Behind(o)
                     /\ Unbooked
<1>0. /\ rows \in [Ids -> [status : Statuses, filled : Nat] \cup {NoRow}]
      /\ rows' \in [Ids -> [status : Statuses, filled : Nat] \cup {NoRow}]
      /\ seen \subseteq Ids /\ seen' \subseteq Ids /\ Cancelled \subseteq Ids
      /\ \A o \in Ids : orders[o].filledBase \in Nat /\ orders'[o].filledBase \in Nat
  BY ServiceAssumption, AmountTypes DEF ServiceTypeOK, BookCore, BookTypeOK
<1>a. (Lag <=> LagNow) /\ (Lag' <=> LagNow')
  BY <1>0 DEF Lag, RowsLagMemory
<1>b. LagNow
  BY <1>a
\* The rows that stay as they are lag behind what has only been filled.
<1>c. ASSUME [BookNext]_bookVars,
             \A o \in seen' \ seen : rows[o] # NoRow /\ rows[o].status # "filled",
             \A o \in Ids : rows'[o] = rows[o] \/ (rows'[o] # NoRow /\ Behind(o)')
      PROVE  LagNow'
  <2>1. /\ seen \subseteq seen'
        /\ \A o \in Ids : /\ orders[o].filledBase <= orders'[o].filledBase
                          /\ RemainingBase(orders[o]) = 0 => RemainingBase(orders'[o]) = 0
    BY <1>c, BookGrows
  <2>2. Unbooked'
    <3>1. \A o \in Ids \ seen : orders'[o] = orders[o]
      BY <1>c, UnseenUntouched DEF bookVars
    <3> QED BY <1>b, <2>1, <3>1
  <2>3. \A o \in Ids : rows'[o] # NoRow => Behind(o)'
    <3> SUFFICES ASSUME NEW o \in Ids, rows'[o] # NoRow, rows'[o] = rows[o]
                 PROVE  Behind(o)'
      BY <1>c
    <3>1. Behind(o) /\ rows[o].filled \in Nat
      BY <1>0, <1>b
    <3>2. rows'[o].filled <= orders'[o].filledBase
      BY <1>0, <2>1, <3>1
    <3>3. o \in seen' /\ rows'[o].status = "filled" => o \in seen
      BY <1>c
    <3> QED BY <2>1, <3>1, <3>2, <3>3
  <2>4. \A o \in seen' : rows'[o] # NoRow
    BY <1>0, <1>b, <1>c
  <2> QED BY <2>2, <2>3, <2>4
<1>1. ASSUME NEW o \in Ids, Create(o) PROVE LagNow'
  <2>1. /\ UNCHANGED bookVars /\ o \notin seen
        /\ rows' = rows \/ rows' = [rows EXCEPT ![o] = Row(o)]
    BY <1>1 DEF Create, Waiting
  <2>2. seen' = seen /\ orders' = orders
    BY <2>1 DEF bookVars
  <2>3. \A k \in Ids : rows'[k] = rows[k] \/ (rows'[k] # NoRow /\ Behind(k)')
    BY <1>0, <2>1, <2>2, RowIsARow
  <2> QED BY <1>c, <2>1, <2>2, <2>3
<1>2. ASSUME NEW o \in Ids, AddOrder(o) PROVE LagNow'
  <2>1. /\ seen' = seen \cup {o} /\ o \notin seen /\ rows' = rows /\ pc[o] = "created"
        /\ BookNext
    BY <1>2 DEF AddOrder, Begin, BeginPanics, database, BookNext
  <2> QED BY <1>c, <2>1 DEF Waiting
<1>3. ASSUME NEW o \in Ids, UpdateStatus(o) PROVE LagNow'
  <2>1. /\ Target(o) \in Ids /\ UNCHANGED bookVars
        /\ read[o].filled # NoRow /\ pc[o] \in {"buy", "sell"}
    BY <1>3, TargetFacts DEF UpdateStatus, Words
  <2> DEFINE r == [status |-> read[o].pointer, filled |-> read[o].filled]
  <2>2. /\ r.filled <= orders[Target(o)].filledBase
        /\ r.status = "filled" => RemainingBase(orders[Target(o)]) = 0
    BY <2>1 DEF Reading
  <2>3. r \in [status : Statuses, filled : Nat]
    BY <1>3 DEF UpdateStatus, Words, ServiceTypeOK
  <2> HIDE DEF r
  <2>4. rows' = rows \/ rows' = [rows EXCEPT ![Target(o)] = r]
    BY <1>3 DEF UpdateStatus, r
  <2>5. \A k \in Ids : rows'[k] = rows[k] \/ (rows'[k] # NoRow /\ Behind(k)')
    BY <1>0, <2>1, <2>2, <2>3, <2>4, ServiceAssumption DEF bookVars
  <2> QED BY <1>c, <2>1, <2>5 DEF bookVars
<1>4. ASSUME NEW c \in Cancelled, MarkCancelled(c) PROVE LagNow'
  <2> DEFINE r == [status |-> "cancelled", filled |-> cread[c]]
  <2>1. /\ UNCHANGED bookVars /\ cpc[c] = "removed"
        /\ rows' = rows \/ rows' = [rows EXCEPT ![c] = r]
    BY <1>4 DEF MarkCancelled
  <2>2. r \in [status : Statuses, filled : Nat] /\ r.status # "filled" /\ r.filled = cread[c]
    BY DEF ServiceTypeOK, Statuses
  <2>3. r.filled <= orders[c].filledBase
    BY <2>1, <2>2 DEF Cancelling
  <2> HIDE DEF r
  <2>4. \A k \in Ids : rows'[k] = rows[k] \/ (rows'[k] # NoRow /\ Behind(k)')
    BY <1>0, <2>1, <2>2, <2>3, ServiceAssumption DEF bookVars
  <2> QED BY <1>c, <2>1, <2>4 DEF bookVars
<1>5. ASSUME Load PROVE LagNow'
  <2>1. loading \in Seq(Ids) /\ loading # << >> /\ rows' = rows
        /\ Begin(Head(loading))
    BY <1>5 DEF Load, ServiceTypeOK, database
  <2>2. Head(loading) \in Ids /\ Head(loading) \in ToSet(loading)
    BY <2>1, TailFacts
  <2>3. seen' = seen \cup {Head(loading)} /\ Head(loading) \notin seen /\ BookNext
    BY <2>1, <2>2 DEF Begin, BookNext
  <2> QED BY <1>c, <2>1, <2>2, <2>3 DEF Waiting
<1>6. ASSUME \/ Iterate \/ Loaded \/ Worker \/ Mine
             \/ \E o \in Ids : \/ AddOrderReturns(o) \/ PersistTrade(o) \/ Send(o)
                               \/ \E w \in Words : ReadWord(o, w)
             \/ \E c \in Cancelled : GetByID(c) \/ RemoveFromBook(c)
      PROVE  LagNow'
  <2>1. rows' = rows
    BY <1>6
       DEF Iterate, Loaded, Worker, Take, SendTransaction, WaitMined, HandleResult, Mine,
           AddOrderReturns, PersistTrade, Send, ReadWord, GetByID, RemoveFromBook, database
  <2>2. [BookNext]_bookVars /\ seen' = seen
    <3>1. CASE Iterate
      BY <3>1 DEF Iterate, Match, BookNext
    <3>2. CASE Loaded \/ \E o \in Ids : AddOrderReturns(o)
      BY <3>2 DEF Loaded, AddOrderReturns, Finish, BookNext
    <3>3. CASE \E c \in Cancelled : RemoveFromBook(c)
      BY <1>0, <3>3 DEF RemoveFromBook, Cancel, BookNext, bookVars
    <3> QED BY <1>6, <3>1, <3>2, <3>3, BookAlone DEF bookVars
  <2> QED BY <1>c, <2>1, <2>2
<1>7. ASSUME Exit PROVE LagNow'
  <2>1. seen' = {} /\ UNCHANGED <<orders, rows>>
    BY <1>7 DEF Exit, database
  <2>2. Unbooked'
    BY <1>b, <2>1 DEF BookCore, FillsWithinAmount
  <2>3. \A o \in Ids : rows'[o] # NoRow => Behind(o)'
    BY <1>b, <2>1
  <2> QED BY <2>1, <2>2, <2>3
<1>8. ASSUME Start PROVE LagNow'
  <2>1. /\ seen = {} /\ seen' = {} /\ rows' = rows
        /\ orders' = [o \in Ids |-> FromRow(o)]
    BY <1>8 DEF Start, Control, database
  <2>2. \A o \in Ids :
          /\ Base(orders'[o]) = Base(orders[o]) /\ orders'[o].filledBase <= Base(orders[o])
          /\ rows[o] # NoRow => orders'[o].filledBase = rows[o].filled
    BY <2>1, FromRowFacts
  <2>3. \A o \in Ids : rows'[o] # NoRow => Behind(o)'
    BY <1>0, <2>1, <2>2
  <2> QED BY <2>1, <2>2, <2>3
<1> QED
  BY <1>a, <1>1, <1>2, <1>3, <1>4, <1>5, <1>6, <1>7, <1>8
     DEF Next, Backend, Submit, CancelOrder, Boot, Crash, LoadPanics

\* Every step keeps Matched.
LEMMA MatchedStep ==
  ASSUME RowsInv, BookCore', ServiceTypeOK', Control', Next
  PROVE  Matched'
<1> USE DEF RowsInv
<1>0. /\ todo \in [Ids -> Seq(TradeIds)] /\ pc \in [Ids -> SubmitPcs]
      /\ Len(trades) \in Nat /\ mark \in Nat /\ NoOrder \notin Ids
      /\ \A o \in Ids : ToSet(todo[o]) \subseteq TradeIds
  <2>1. todo \in [Ids -> Seq(TradeIds)] /\ pc \in [Ids -> SubmitPcs] /\ mark \in 0..Len(trades)
    BY DEF ServiceTypeOK
  <2>2. Len(trades) \in Nat
    BY LenProperties DEF BookCore, BookTypeOK
  <2>3. \A o \in Ids : ToSet(todo[o]) \subseteq TradeIds
    BY <2>1, MemberFacts
  <2> QED BY <2>1, <2>2, <2>3, BookAssumption
\* The lists and the mark that stay name orders the book keeps knowing.
<1>a. ASSUME [BookNext]_bookVars,
             \A o \in Ids : ToSet(todo'[o]) \subseteq ToSet(todo[o]),
             \A o \in Ids : pc'[o] = "adding" =>
               (pc[o] = "adding" /\ mark' = mark) \/ mark' = Len(trades')
      PROVE  Matched'
  <2>1. /\ seen \subseteq seen' /\ Len(trades') \in Nat /\ Len(trades) <= Len(trades')
        /\ \A t \in 1..Len(trades) : trades'[t] = trades[t]
        /\ \A t \in (Len(trades) + 1)..Len(trades') :
              trades'[t].buy \in seen /\ trades'[t].sell \in seen
    BY <1>a, BookGrows
  <2>2. \A t \in TradeIds : Parties(t)' = Parties(t)
    BY <2>1 DEF TradeIds, Parties
  <2>3. \A o \in Ids : \A t \in ToSet(todo'[o]) : Parties(t)' \subseteq seen'
    BY <1>0, <1>a, <2>1, <2>2 DEF Matched
  <2>4. ASSUME NEW o \in Ids, pc'[o] = "adding", NEW t \in (mark' + 1)..Len(trades')
        PROVE  Parties(t)' \subseteq seen'
    <3>1. CASE mark' = Len(trades')
      BY <2>1, <2>4, <3>1
    <3>2. CASE pc[o] = "adding" /\ mark' = mark /\ t \in TradeIds
      <4>1. t \in (mark + 1)..Len(trades)
        BY <1>0, <2>4, <3>2 DEF TradeIds
      <4> QED BY <2>1, <2>2, <3>2, <4>1 DEF Matched
    <3>3. CASE t \notin TradeIds /\ mark' = mark
      <4>1. t \in (Len(trades) + 1)..Len(trades')
        BY <1>0, <2>1, <2>4, <3>3 DEF TradeIds
      <4> QED BY <2>1, <4>1 DEF Parties
    <3> QED BY <1>a, <2>4, <3>1, <3>2, <3>3
  <2> QED BY <2>3, <2>4 DEF Matched
<1>1. ASSUME NEW o \in Ids, AddOrder(o) PROVE Matched'
  <2>1. /\ UNCHANGED <<todo, trades>> /\ mark' = Len(trades) /\ BookNext
    BY <1>1 DEF AddOrder, Begin, BeginPanics, BookNext
  <2> QED BY <1>a, <2>1
<1>2. ASSUME NEW o \in Ids, AddOrderReturns(o) PROVE Matched'
  <2> DEFINE matches == [i \in 1..(Len(trades) - mark) |-> mark + i]
  <2>1. /\ UNCHANGED <<trades, seen, mark>> /\ pc[o] = "adding" /\ incoming' = NoOrder
        /\ todo' = [todo EXCEPT ![o] = matches]
    BY <1>2 DEF AddOrderReturns, Finish
  <2>2. \A t \in ToSet(matches) : t \in (mark + 1)..Len(trades)
    BY <1>0 DEF ToSet
  <2>3. \A t \in ToSet(matches) : Parties(t) \subseteq seen
    BY <2>1, <2>2 DEF Matched
  <2>4. \A k \in Ids : pc'[k] # "adding"
    BY <1>0, <2>1 DEF Control
  <2> HIDE DEF matches
  <2> QED BY <1>0, <2>1, <2>3, <2>4 DEF Matched, Parties
<1>3. ASSUME NEW o \in Ids, PersistTrade(o) \/ Send(o) PROVE Matched'
  <2>1. /\ pc[o] \in {"persist", "send"} /\ UNCHANGED <<bookVars, mark>>
        /\ todo' = todo \/ todo' = [todo EXCEPT ![o] = Tail(@)]
        /\ \E s \in {"buy", "persist", "done"} : pc' = [pc EXCEPT ![o] = s]
    BY <1>3 DEF PersistTrade, Send, LoopOver
  <2>2. ToSet(Tail(todo[o])) \subseteq ToSet(todo[o])
    BY <2>1, TargetFacts
  <2> QED BY <1>0, <1>a, <2>1, <2>2
<1>4. ASSUME NEW o \in Ids, \/ Create(o) \/ UpdateStatus(o)
                            \/ \E w \in Words : ReadWord(o, w)
      PROVE  Matched'
  <2>1. /\ UNCHANGED <<bookVars, mark, todo>>
        /\ pc' = pc \/ \E s \in {"created", "sell", "send", "done"} : pc' = [pc EXCEPT ![o] = s]
    BY <1>4 DEF Create, UpdateStatus, ReadWord
  <2> QED BY <1>0, <1>a, <2>1
<1>5. ASSUME \/ Worker \/ Mine \/ Iterate \/ Load \/ Loaded
             \/ \E c \in Cancelled : CancelOrder(c)
      PROVE  Matched'
  <2>1. UNCHANGED submits
    BY <1>5
       DEF Worker, Take, SendTransaction, WaitMined, HandleResult, Mine, Iterate, Load, Loaded,
           CancelOrder, GetByID, RemoveFromBook, MarkCancelled
  <2>2. [BookNext]_bookVars
    <3>1. Next
      BY <1>5 DEF Next, Backend, Boot
    <3>2. \/ UNCHANGED bookVars \/ Iterate \/ Load \/ Loaded
          \/ \E c \in Cancelled : RemoveFromBook(c)
      BY <1>5, BookAlone DEF CancelOrder
    <3>3. CASE Load
      <4>1. Head(loading) \in Ids
        BY <3>3, TailFacts DEF Load, ServiceTypeOK
      <4> QED BY <3>3, <4>1 DEF Load, BookNext
    <3> QED BY <3>2, <3>3, ServiceAssumption
            DEF Iterate, Loaded, RemoveFromBook, BookNext
  <2> QED BY <1>a, <2>1, <2>2 DEF submits
<1>6. ASSUME Exit PROVE Matched'
  BY <1>6, EmptyToSet DEF Exit, Matched
<1>7. ASSUME Start PROVE Matched'
  BY <1>0, <1>7 DEF Start, Matched, Control, Serving, Parties, submits
<1> QED
  BY <1>1, <1>2, <1>3, <1>4, <1>5, <1>6, <1>7
     DEF Next, Backend, Submit, Boot, Crash, LoadPanics

\* Every step keeps Reading.
LEMMA ReadingStep ==
  ASSUME RowsInv, BookCore', ServiceTypeOK', Control', Next
  PROVE  Reading'
<1> USE DEF RowsInv
<1>0. /\ pc \in [Ids -> SubmitPcs] /\ read \in [Ids -> Held] /\ todo \in [Ids -> Seq(TradeIds)]
      /\ seen \subseteq Ids /\ NoRow \notin Statuses
      /\ \A o \in Ids : orders[o].filledBase \in Nat /\ orders'[o].filledBase \in Nat
      /\ \A o \in Ids : orders[o].status \in Statuses
  BY AmountTypes, ServiceAssumption DEF ServiceTypeOK, BookCore, BookTypeOK, Held
<1>1. Unread.filled = NoRow /\ Unread.pointer # "filled"
  BY <1>0 DEF Unread, Words, Statuses
\* The words that have been read lag behind what has only been filled since.
<1>a. ASSUME [BookNext]_bookVars,
             \A o \in Ids : pc'[o] \in {"buy", "sell"} =>
               \/ pc'[o] = pc[o] /\ todo'[o] = todo[o] /\ read'[o] = read[o]
               \/ read'[o] = Unread
      PROVE  Reading'
  <2> SUFFICES ASSUME NEW o \in Ids, pc'[o] \in {"buy", "sell"}, pc'[o] = pc[o],
                      todo'[o] = todo[o], read'[o] = read[o]
               PROVE  /\ read'[o].filled # NoRow => read'[o].filled <= orders'[Target(o)'].filledBase
                      /\ read'[o].pointer = "filled" => RemainingBase(orders'[Target(o)']) = 0
    BY <1>1, <1>a DEF Reading
  <2>1. Head(todo[o]) \in 1..Len(trades) /\ Target(o) \in Ids
    BY TargetFacts DEF TradeIds
  <2>2. /\ \A t \in 1..Len(trades) : trades'[t] = trades[t]
        /\ \A k \in Ids : /\ orders[k].filledBase <= orders'[k].filledBase
                          /\ RemainingBase(orders[k]) = 0 => RemainingBase(orders'[k]) = 0
    BY <1>a, BookGrows
  <2>3. Target(o)' = Target(o)
    BY <2>1, <2>2 DEF Target
  <2>4. read[o].filled # NoRow => read[o].filled \in Nat
    BY <1>0 DEF Held
  <2>5. /\ read[o].filled # NoRow => read[o].filled <= orders[Target(o)].filledBase
        /\ read[o].pointer = "filled" => RemainingBase(orders[Target(o)]) = 0
    BY DEF Reading
  <2> DEFINE k == Target(o)
  <2> HIDE DEF k
  <2>6. /\ k \in Ids /\ Target(o)' = k
        /\ read[o].filled # NoRow => read[o].filled <= orders[k].filledBase
        /\ read[o].pointer = "filled" => RemainingBase(orders[k]) = 0
    BY <2>1, <2>3, <2>5 DEF k
  <2>7. read[o].filled # NoRow => read[o].filled <= orders'[k].filledBase
    BY <1>0, <2>2, <2>4, <2>6
  <2> QED BY <2>2, <2>6, <2>7
<1>2. ASSUME NEW o \in Ids, NEW w \in Words, ReadWord(o, w) PROVE Reading'
  <2> DEFINE v == IF w = "filled" THEN orders[Target(o)].filledBase
                  ELSE orders[Target(o)].status
  <2>1. /\ UNCHANGED <<bookVars, pc, todo>> /\ pc[o] \in {"buy", "sell"}
        /\ read' = [read EXCEPT ![o] = [read[o] EXCEPT ![w] = v]]
    BY <1>2 DEF ReadWord
  <2>2. Target(o) \in seen
    BY <2>1, TargetFacts
  <2>3. /\ orders[Target(o)].status = "filled" => RemainingBase(orders[Target(o)]) = 0
        /\ orders[Target(o)].filledBase <= orders[Target(o)].filledBase
    BY <1>0, <2>2 DEF BookCore, FillsWithinAmount
  <2>4. /\ [read[o] EXCEPT ![w] = v].pointer = IF w = "pointer" THEN v ELSE read[o].pointer
        /\ [read[o] EXCEPT ![w] = v].filled = IF w = "filled" THEN v ELSE read[o].filled
    <3>1. read[o] \in Held
      BY <1>0
    <3> HIDE DEF v
    <3>2. CASE w = "filled"
      <4>1. [read[o] EXCEPT ![w] = v] = [read[o] EXCEPT !.filled = v]
        BY <3>2
      <4> QED BY <3>1, <3>2, <4>1 DEF Held
    <3>3. CASE w = "pointer"
      <4>1. [read[o] EXCEPT ![w] = v] = [read[o] EXCEPT !.pointer = v]
        BY <3>3
      <4> QED BY <3>1, <3>3, <4>1 DEF Held
    <3>4. CASE w = "length"
      <4>1. [read[o] EXCEPT ![w] = v] = [read[o] EXCEPT !.length = v]
        BY <3>4
      <4> QED BY <3>1, <3>4, <4>1 DEF Held
    <3> QED BY <3>2, <3>3, <3>4 DEF Words
  <2>5. \A k \in Ids : Target(k)' = Target(k) /\ orders' = orders /\ (k # o => read'[k] = read[k])
    BY <1>0, <2>1 DEF Target, bookVars
  <2>6. /\ read'[o].pointer = IF w = "pointer" THEN v ELSE read[o].pointer
        /\ read'[o].filled = IF w = "filled" THEN v ELSE read[o].filled
    BY <1>0, <2>1, <2>4
  <2>7. /\ read'[o].filled # NoRow => read'[o].filled <= orders[Target(o)].filledBase
        /\ read'[o].pointer = "filled" => RemainingBase(orders[Target(o)]) = 0
    BY <2>1, <2>3, <2>6 DEF Reading
  <2> QED BY <2>1, <2>5, <2>7 DEF Reading
<1>3. ASSUME NEW o \in Ids, \/ Create(o) \/ AddOrder(o) \/ AddOrderReturns(o) \/ PersistTrade(o)
                            \/ UpdateStatus(o) \/ Send(o)
      PROVE  Reading'
  <2>1. [BookNext]_bookVars
    BY <1>3, BookAlone DEF AddOrder, AddOrderReturns, BookNext
  <2>2. \A k \in Ids \ {o} : pc'[k] = pc[k] /\ todo'[k] = todo[k] /\ read'[k] = read[k]
    BY <1>0, <1>3
       DEF Create, AddOrder, AddOrderReturns, PersistTrade, UpdateStatus, Send
  <2>3. pc'[o] \in {"buy", "sell"} => read'[o] = Unread
    <3>1. CASE PersistTrade(o)
      BY <1>0, <3>1 DEF PersistTrade, Control
    <3>2. CASE UpdateStatus(o)
      BY <1>0, <3>2 DEF UpdateStatus
    <3>3. CASE Create(o) \/ AddOrder(o) \/ AddOrderReturns(o) \/ Send(o)
      BY <1>0, <3>3 DEF Create, AddOrder, AddOrderReturns, Send, LoopOver
    <3> QED BY <1>3, <3>1, <3>2, <3>3
  <2> QED BY <1>a, <2>1, <2>2, <2>3
<1>4. ASSUME \/ Worker \/ Mine \/ Iterate \/ Load \/ Loaded
             \/ \E c \in Cancelled : CancelOrder(c)
      PROVE  Reading'
  <2>1. UNCHANGED submits
    BY <1>4
       DEF Worker, Take, SendTransaction, WaitMined, HandleResult, Mine, Iterate, Load, Loaded,
           CancelOrder, GetByID, RemoveFromBook, MarkCancelled
  <2>2. [BookNext]_bookVars
    <3>2. \/ UNCHANGED bookVars \/ Iterate \/ Load \/ Loaded
          \/ \E c \in Cancelled : RemoveFromBook(c)
      BY <1>4, BookAlone DEF CancelOrder
    <3>3. CASE Load
      <4>1. Head(loading) \in Ids
        BY <3>3, TailFacts DEF Load, ServiceTypeOK
      <4> QED BY <3>3, <4>1 DEF Load, BookNext
    <3> QED BY <3>2, <3>3, ServiceAssumption
            DEF Iterate, Loaded, RemoveFromBook, BookNext
  <2> QED BY <1>a, <2>1, <2>2 DEF submits
<1>5. ASSUME Exit \/ Start PROVE Reading'
  <2>1. \A o \in Ids : pc'[o] \notin {"buy", "sell"}
    BY <1>0, <1>5 DEF Exit, Start, Control, Serving, submits
  <2> QED BY <2>1 DEF Reading
<1> QED
  BY <1>2, <1>3, <1>4, <1>5
     DEF Next, Backend, Submit, Boot, Crash, LoadPanics

\* Every step keeps Cancelling.
LEMMA CancellingStep ==
  ASSUME RowsInv, BookCore', ServiceTypeOK', Control', Next
  PROVE  Cancelling'
<1> USE DEF RowsInv
<1>0. /\ cpc \in [Cancelled -> CancelPcs] /\ cread \in [Cancelled -> Nat]
      /\ rows \in [Ids -> [status : Statuses, filled : Nat] \cup {NoRow}]
      /\ Cancelled \subseteq Ids
      /\ \A o \in Ids : orders[o].filledBase \in Nat /\ orders'[o].filledBase \in Nat
  BY AmountTypes, ServiceAssumption DEF ServiceTypeOK, BookCore, BookTypeOK
\* A row that was there stays there, and the order is only filled.
<1>a. ASSUME [BookNext]_bookVars,
             \A o \in Ids : rows[o] # NoRow => rows'[o] # NoRow,
             \A c \in Cancelled : cpc'[c] \in {"found", "removed"} =>
               \/ cpc[c] \in {"found", "removed"} /\ cread'[c] = cread[c]
               \/ rows[c] # NoRow /\ cread'[c] = rows[c].filled
      PROVE  Cancelling'
  <2>1. \A o \in Ids : orders[o].filledBase <= orders'[o].filledBase
    BY <1>a, BookGrows
  <2>2. \A c \in Cancelled : rows[c] # NoRow => rows[c].filled \in Nat
    BY <1>0
  <2> QED BY <1>0, <1>a, <2>1, <2>2 DEF Cancelling, Lag
<1>1. ASSUME NEW o \in Ids, Create(o) \/ UpdateStatus(o) PROVE Cancelling'
  <2>1. UNCHANGED <<bookVars, cancels>>
    BY <1>1 DEF Create, UpdateStatus
  <2>2. \A k \in Ids : rows[k] # NoRow => rows'[k] # NoRow
    <3>1. CASE Create(o)
      BY <1>0, <3>1, RowIsARow DEF Create
    <3>2. CASE UpdateStatus(o)
      <4> DEFINE r == [status |-> read[o].pointer, filled |-> read[o].filled]
      <4>1. r \in [status : Statuses, filled : Nat]
        BY <3>2 DEF UpdateStatus, Words, ServiceTypeOK
      <4>2. r # NoRow
        BY <4>1, ServiceAssumption
      <4> HIDE DEF r
      <4>3. rows' = rows \/ rows' = [rows EXCEPT ![Target(o)] = r]
        BY <3>2 DEF UpdateStatus, r
      <4> QED BY <1>0, <4>2, <4>3
    <3> QED BY <1>1, <3>1, <3>2
  <2> QED BY <1>a, <2>1, <2>2 DEF cancels
<1>2. ASSUME NEW c \in Cancelled, CancelOrder(c) PROVE Cancelling'
  <2>1. CASE GetByID(c)
    <3>1. UNCHANGED <<bookVars, rows>> /\ rows[c] # NoRow
          /\ cread' = [cread EXCEPT ![c] = rows[c].filled]
          /\ cpc' = [cpc EXCEPT ![c] = "found"]
      BY <2>1 DEF GetByID, database
    <3> QED BY <1>0, <1>a, <3>1
  <2>2. CASE RemoveFromBook(c)
    <3>1. UNCHANGED <<rows, cread>> /\ cpc[c] = "found" /\ cpc' = [cpc EXCEPT ![c] = "removed"]
          /\ [BookNext]_bookVars
      BY <1>0, <2>2 DEF RemoveFromBook, database, BookNext
    <3> QED BY <1>0, <1>a, <3>1
  <2>3. CASE MarkCancelled(c)
    <3> DEFINE r == [status |-> "cancelled", filled |-> cread[c]]
    <3>1. r \in [status : Statuses, filled : Nat]
      BY <1>0 DEF Statuses
    <3>2. r # NoRow
      BY <3>1, ServiceAssumption
    <3> HIDE DEF r
    <3>3. /\ rows' = rows \/ rows' = [rows EXCEPT ![c] = r]
          /\ UNCHANGED <<bookVars, cread>>
          /\ \E s \in {"ok", "failed"} : cpc' = [cpc EXCEPT ![c] = s]
      BY <2>3 DEF MarkCancelled, r
    <3> QED BY <1>0, <1>a, <3>2, <3>3
  <2> QED BY <1>2, <2>1, <2>2, <2>3 DEF CancelOrder
<1>3. ASSUME \/ Worker \/ Mine \/ Iterate \/ Load \/ Loaded
             \/ \E o \in Ids : \/ AddOrder(o) \/ AddOrderReturns(o) \/ PersistTrade(o) \/ Send(o)
                               \/ \E w \in Words : ReadWord(o, w)
      PROVE  Cancelling'
  <2>1. UNCHANGED <<rows, cancels>>
    BY <1>3
       DEF Worker, Take, SendTransaction, WaitMined, HandleResult, Mine, Iterate, Load, Loaded,
           AddOrder, AddOrderReturns, PersistTrade, Send, ReadWord, database
  <2>2. [BookNext]_bookVars
    <3>1. CASE Load
      <4>1. Head(loading) \in Ids
        BY <3>1, TailFacts DEF Load, ServiceTypeOK
      <4> QED BY <3>1, <4>1 DEF Load, BookNext
    <3> QED BY <1>3, <3>1, BookAlone DEF Iterate, Loaded, AddOrder, AddOrderReturns, BookNext
  <2> QED BY <1>a, <2>1, <2>2 DEF cancels
<1>4. ASSUME Exit \/ Start PROVE Cancelling'
  <2>1. \A c \in Cancelled : cpc'[c] \notin {"found", "removed"}
    BY <1>0, <1>4 DEF Exit, Start, Control, cancels
  <2> QED BY <2>1 DEF Cancelling
<1> QED
  BY <1>1, <1>2, <1>3, <1>4
     DEF Next, Backend, Submit, Boot, Crash, LoadPanics

--------------------------------------------------------------------------------
(***************************************************************************)
(* The first part holds of every behaviour.                                *)
(***************************************************************************)

\* The service starts without rows, requests and transactions.
LEMMA RowsInit == Init => RowsInv
<1> SUFFICES ASSUME Init PROVE RowsInv
  OBVIOUS
<1>1. BookCore /\ (\A o \in Ids : Fresh(o)) /\ seen = {} /\ incoming = NoOrder /\ trades = << >>
  BY InitInv DEF Init, BookInv, BookInit
<1>2. ServiceTypeOK
  <2>1. BookTypeOK /\ Len(trades) \in Nat
    BY <1>1, MemberFacts DEF BookCore, BookTypeOK
  <2>2. rows \in [Ids -> [status : Statuses, filled : Nat] \cup {NoRow}]
    BY DEF Init
  <2>3. pc \in [Ids -> SubmitPcs]
    BY DEF Init, SubmitPcs
  <2>4. todo \in [Ids -> Seq(TradeIds)] /\ settleCh \in Seq(TradeIds) /\ loading \in Seq(Ids)
        /\ txs \in Seq([trade : TradeIds, status : {"pending", "mined", "reverted"}])
    BY EmptySeq DEF Init
  <2>5. read \in [Ids -> Held]
    BY DEF Init, Unread, Held, Words
  <2>6. mark \in 0..Len(trades) /\ persisted \cup settled \subseteq TradeIds
    BY <2>1 DEF Init
  <2>7. cpc \in [Cancelled -> CancelPcs] /\ cread \in [Cancelled -> Nat]
    BY DEF Init, CancelPcs
  <2>8. Len(settleCh) <= QueueSize
    BY EmptySeq, ServiceAssumption DEF Init
  <2>9. failures \in 0..MaxFailures /\ crashes \in 0..MaxCrashes
    BY ServiceAssumption DEF Init
  <2>10. job = NoRow /\ results = {} /\ up \in BOOLEAN
    BY DEF Init
  <2> QED BY <2>1, <2>2, <2>3, <2>4, <2>5, <2>6, <2>7, <2>8, <2>9, <2>10 DEF ServiceTypeOK, Held
<1>3. Control
  BY <1>1 DEF Init, Control, Serving
<1>4. Waiting
  BY <1>1, EmptyToSet DEF Init, Waiting
<1>5. Lag
  BY <1>1 DEF Init, Lag, RowsLagMemory, Fresh
<1>6. Matched /\ Reading /\ Cancelling
  BY <1>1, EmptyToSet DEF Init, Matched, Reading, Cancelling
<1> QED BY <1>1, <1>2, <1>3, <1>4, <1>5, <1>6 DEF RowsInv

\* Every step keeps the first part of the invariant.
LEMMA RowsStep == RowsInv /\ [Next]_vars => RowsInv'
<1> SUFFICES ASSUME RowsInv, [Next]_vars PROVE RowsInv'
  OBVIOUS
<1>1. CASE Next
  <2>1. BookCore' /\ ServiceTypeOK'
    BY <1>1, CoreStep, TypeStep
  <2>2. Control'
    BY <1>1, <2>1, ControlStep
  <2> QED BY <1>1, <2>1, <2>2, WaitingStep, LagStep, MatchedStep, ReadingStep, CancellingStep
          DEF RowsInv
<1>2. CASE UNCHANGED vars
  <2>1. UNCHANGED <<bookVars, submits, cancels, worker, startup, database, txs, bounds>>
    BY <1>2 DEF vars
  <2>2. BookCore'
    BY <2>1, CoreStutters DEF RowsInv
  <2>3. ServiceTypeOK'
    BY <2>1, <2>2
       DEF RowsInv, ServiceTypeOK, BookCore, bookVars, submits, cancels, worker, startup,
           database, bounds, TradeIds
  <2>4. Control' /\ Waiting' /\ Lag'
    BY <2>1
       DEF RowsInv, Control, Serving, Waiting, Fresh, Lag, RowsLagMemory, bookVars, submits,
           cancels, startup, database
  <2>5. Matched' /\ Cancelling'
    BY <2>1 DEF RowsInv, Matched, Parties, Cancelling, bookVars, submits, cancels, database
  <2>6. Reading'
    BY <2>1 DEF RowsInv, Reading, Target, bookVars, submits
  <2> QED BY <2>2, <2>3, <2>4, <2>5, <2>6 DEF RowsInv
<1> QED BY <1>1, <1>2

\* The first part of the invariant, for any orders, crashes and failures.
THEOREM RowsInvariant == Spec => []RowsInv
BY RowsInit, RowsStep, PTL DEF Spec

\* Types of the service's state, and the capacity of its channel.
THEOREM ServiceTypes == Spec => []ServiceTypeOK
BY RowsInvariant, PTL DEF RowsInv

\* No row ever claims a fill that the order in memory does not have, through any
\* interleaving of the requests, any crash and any reload.
THEOREM RowsBehind == Spec => []RowsLagMemory
BY RowsInvariant, PTL DEF RowsInv, Lag

\* Under concurrent requests, DELETEs and restarts the book stays uncrossed, holds exactly
\* what can trade, and fills nobody beyond its amount.
THEOREM ServedBook == Spec => [](BookUncrossed /\ RestingExactlyLive /\ FillsWithinAmount)
BY RowsInvariant, PTL DEF RowsInv, BookCore

--------------------------------------------------------------------------------
(***************************************************************************)
(* Where each match is.                                                    *)
(***************************************************************************)

\* What the steps below use of the types.
LEMMA PlaceTypes ==
  ASSUME RowsInv
  PROVE  /\ todo \in [Ids -> Seq(TradeIds)] /\ settleCh \in Seq(TradeIds)
         /\ txs \in Seq([trade : TradeIds, status : {"pending", "mined", "reverted"}])
         /\ pc \in [Ids -> SubmitPcs] /\ mark \in Nat /\ Len(trades) \in Nat
         /\ TradeIds \subseteq Nat /\ \A t \in TradeIds : t <= Len(trades)
         /\ job # NoRow => job.trade \in TradeIds /\ job.tx \in 0..Len(txs)
         /\ Len(txs) \in Nat /\ DOMAIN txs = 1..Len(txs)
         /\ Len(settleCh) \in Nat /\ DOMAIN settleCh = 1..Len(settleCh)
         /\ \A i \in DOMAIN txs : txs[i].trade \in TradeIds
         /\ \A i \in DOMAIN settleCh : settleCh[i] \in TradeIds
         /\ \A o \in Ids : \A i \in DOMAIN todo[o] : todo[o][i] \in TradeIds
<1>1. /\ todo \in [Ids -> Seq(TradeIds)] /\ settleCh \in Seq(TradeIds)
      /\ txs \in Seq([trade : TradeIds, status : {"pending", "mined", "reverted"}])
      /\ pc \in [Ids -> SubmitPcs] /\ mark \in 0..Len(trades) /\ trades \in Seq(MatchResult)
      /\ job # NoRow => job.trade \in TradeIds /\ job.tx \in 0..Len(txs)
  BY DEF RowsInv, ServiceTypeOK, BookTypeOK
<1>2. Len(trades) \in Nat /\ mark \in Nat
  BY <1>1, MemberFacts
<1>3. TradeIds \subseteq Nat /\ \A t \in TradeIds : t <= Len(trades)
  BY <1>2 DEF TradeIds
<1> HIDE DEF TradeIds
<1>4. \A i \in DOMAIN txs : txs[i].trade \in TradeIds
  <2>1. \A i \in DOMAIN txs : txs[i] \in [trade : TradeIds, status : {"pending", "mined", "reverted"}]
    BY <1>1, MemberFacts
  <2> QED BY <2>1
<1>5. /\ Len(txs) \in Nat /\ DOMAIN txs = 1..Len(txs)
      /\ Len(settleCh) \in Nat /\ DOMAIN settleCh = 1..Len(settleCh)
      /\ \A i \in DOMAIN settleCh : settleCh[i] \in TradeIds
      /\ \A o \in Ids : \A i \in DOMAIN todo[o] : todo[o][i] \in TradeIds
  BY <1>1, MemberFacts
<1> QED BY <1>1, <1>2, <1>3, <1>4, <1>5

\* Every step leaves each match in one place.
LEMMA OnePlaceStep ==
  ASSUME RowsInv, SettleInv, Next
  PROVE  OnePlace'
<1> USE DEF SettleInv
<1>0. /\ todo \in [Ids -> Seq(TradeIds)] /\ settleCh \in Seq(TradeIds)
      /\ txs \in Seq([trade : TradeIds, status : {"pending", "mined", "reverted"}])
      /\ mark \in Nat /\ Len(trades) \in Nat /\ TradeIds \subseteq Nat
      /\ Len(txs) \in Nat /\ DOMAIN txs = 1..Len(txs)
      /\ Len(settleCh) \in Nat /\ DOMAIN settleCh = 1..Len(settleCh)
      /\ \A i \in DOMAIN settleCh : settleCh[i] \in TradeIds
      /\ \A o \in Ids : \A i \in DOMAIN todo[o] : todo[o][i] \in TradeIds
  BY PlaceTypes
\* A list that has lost its head has lost nothing else.
<1>a. ASSUME NEW o \in Ids, todo[o] # << >>
      PROVE  /\ Head(todo[o]) = todo[o][1] /\ 1 \in DOMAIN todo[o]
             /\ Head(todo[o]) \in TradeIds
             /\ \A i \in DOMAIN Tail(todo[o]) :
                  i \in Nat /\ i + 1 \in DOMAIN todo[o] /\ Tail(todo[o])[i] = todo[o][i + 1] /\ i + 1 # 1
  <2> HIDE DEF TradeIds
  <2>1. todo[o] \in Seq(TradeIds)
    BY <1>0
  <2> QED BY <1>a, <2>1, TailFacts
<1>b. ASSUME NEW o \in Ids, todo[o] # << >>, todo' = [todo EXCEPT ![o] = Tail(@)],
             UNCHANGED <<settleCh, txs, job>>
      PROVE  OnePlace'
  <2>1. \A p \in Ids : \A i \in DOMAIN todo'[p] :
          IF p = o THEN i + 1 \in DOMAIN todo[p] /\ todo'[p][i] = todo[p][i + 1] /\ i \in Nat
                   ELSE i \in DOMAIN todo[p] /\ todo'[p][i] = todo[p][i]
    BY <1>0, <1>a, <1>b
  <2>2. \A p, q \in Ids : \A i \in DOMAIN todo'[p], j \in DOMAIN todo'[q] :
          todo'[p][i] = todo'[q][j] => p = q /\ i = j
    BY <2>1 DEF OnePlace
  <2>3. \A p \in Ids : \A i \in DOMAIN todo'[p] :
          \E k \in DOMAIN todo[p] : todo'[p][i] = todo[p][k]
    BY <2>1
  <2> QED BY <1>b, <2>2, <2>3 DEF OnePlace, InHand
<1>1. ASSUME NEW o \in Ids, AddOrderReturns(o) PROVE OnePlace'
  <2> DEFINE matches == [i \in 1..(Len(trades) - mark) |-> mark + i]
  <2>1. /\ pc[o] = "adding" /\ todo' = [todo EXCEPT ![o] = matches]
        /\ UNCHANGED <<settleCh, txs, job>>
    BY <1>1 DEF AddOrderReturns, worker
  <2>2. \A i \in DOMAIN matches : i \in Nat /\ matches[i] = mark + i /\ matches[i] > mark
    BY <1>0
  <2> HIDE DEF matches
  <2>3. /\ \A p \in Ids : \A i \in DOMAIN todo[p] : todo[p][i] <= mark /\ todo[p][i] \in Nat
        /\ \A i \in DOMAIN settleCh : settleCh[i] <= mark /\ settleCh[i] \in Nat
        /\ \A i \in DOMAIN txs : txs[i].trade <= mark /\ txs[i].trade \in Nat
        /\ InHand => job.trade <= mark /\ job.trade \in Nat
    BY <1>0, <2>1, PlaceTypes DEF NotPlacedYet, InHand
  <2>4. /\ todo'[o] = matches
        /\ \A p \in Ids \ {o} : todo'[p] = todo[p]
    BY <1>0, <2>1
  <2>5. \A p, q \in Ids : \A i \in DOMAIN todo'[p], j \in DOMAIN todo'[q] :
          todo'[p][i] = todo'[q][j] => p = q /\ i = j
    <3> SUFFICES ASSUME NEW p \in Ids, NEW q \in Ids, NEW i \in DOMAIN todo'[p],
                        NEW j \in DOMAIN todo'[q], todo'[p][i] = todo'[q][j]
                 PROVE  p = q /\ i = j
      OBVIOUS
    <3>1. CASE p # o /\ q # o
      BY <2>4, <3>1 DEF OnePlace
    <3>2. CASE p = o /\ q = o
      BY <1>0, <2>2, <2>4, <3>2
    <3>3. CASE p = o /\ q # o
      BY <1>0, <2>2, <2>3, <2>4, <3>3
    <3>4. CASE p # o /\ q = o
      BY <1>0, <2>2, <2>3, <2>4, <3>4
    <3> QED BY <3>1, <3>2, <3>3, <3>4
  <2>6. ASSUME NEW p \in Ids, NEW i \in DOMAIN todo'[p]
        PROVE  /\ \A j \in DOMAIN settleCh : todo'[p][i] # settleCh[j]
               /\ \A j \in DOMAIN txs : todo'[p][i] # txs[j].trade
               /\ InHand => todo'[p][i] # job.trade
    <3>1. CASE p # o
      BY <2>4, <2>6, <3>1 DEF OnePlace
    <3>2. CASE p = o
      <4>1. todo'[p][i] > mark /\ todo'[p][i] \in Nat
        BY <1>0, <2>2, <2>4, <2>6, <3>2
      <4> QED BY <1>0, <2>3, <4>1
    <3> QED BY <3>1, <3>2
  <2> QED BY <2>1, <2>5, <2>6 DEF OnePlace, InHand
<1>2. ASSUME NEW o \in Ids, PersistTrade(o) PROVE OnePlace'
  <2>1. /\ todo[o] # << >> /\ UNCHANGED <<settleCh, txs, job>>
        /\ todo' = todo \/ todo' = [todo EXCEPT ![o] = Tail(@)]
    BY <1>2 DEF PersistTrade, worker, RowsInv, Control
  <2> QED BY <1>b, <2>1 DEF OnePlace, InHand
<1>3. ASSUME NEW o \in Ids, Send(o) PROVE OnePlace'
  <2> DEFINE t == Head(todo[o])
  <2>1. /\ todo[o] # << >> /\ todo' = [todo EXCEPT ![o] = Tail(@)]
        /\ settleCh' = Append(settleCh, t) /\ UNCHANGED <<txs, job>>
    BY <1>3 DEF Send, RowsInv, Control
  <2>2. t = todo[o][1] /\ 1 \in DOMAIN todo[o] /\ t \in TradeIds
    BY <1>a, <2>1
  <2> HIDE DEF t
  <2>3. \A p \in Ids : \A i \in DOMAIN todo'[p] :
          IF p = o THEN i + 1 \in DOMAIN todo[p] /\ todo'[p][i] = todo[p][i + 1] /\ i \in Nat /\ i + 1 # 1
                   ELSE i \in DOMAIN todo[p] /\ todo'[p][i] = todo[p][i]
    BY <1>0, <1>a, <2>1
  <2>4. \A p, q \in Ids : \A i \in DOMAIN todo'[p], j \in DOMAIN todo'[q] :
          todo'[p][i] = todo'[q][j] => p = q /\ i = j
    BY <2>3 DEF OnePlace
  <2>5. \A p \in Ids : \A i \in DOMAIN todo'[p] :
          \E k \in DOMAIN todo[p] : todo'[p][i] = todo[p][k] /\ (p = o => k # 1)
    BY <2>3
  <2>6. \A p \in Ids : \A i \in DOMAIN todo'[p] : todo'[p][i] # t
    BY <2>2, <2>5 DEF OnePlace
  <2>7. /\ \A j \in DOMAIN settleCh : settleCh[j] # t
        /\ \A j \in DOMAIN txs : txs[j].trade # t
        /\ InHand => job.trade # t
    BY <2>2 DEF OnePlace
  <2>8. /\ DOMAIN settleCh' = 1..(Len(settleCh) + 1) /\ settleCh'[Len(settleCh) + 1] = t
        /\ \A i \in DOMAIN settleCh : settleCh'[i] = settleCh[i]
    <3> HIDE DEF TradeIds
    <3> QED BY <1>0, <2>1, <2>2, AppendFacts
  <2>9. \A i \in DOMAIN settleCh' :
          \/ i \in DOMAIN settleCh /\ settleCh'[i] = settleCh[i]
          \/ i = Len(settleCh) + 1 /\ settleCh'[i] = t
    BY <1>0, <2>8
  <2>10. \A i, j \in DOMAIN settleCh' : settleCh'[i] = settleCh'[j] => i = j
    BY <2>7, <2>9 DEF OnePlace
  <2> QED BY <2>1, <2>4, <2>5, <2>6, <2>7, <2>9, <2>10 DEF OnePlace, InHand
<1>4. ASSUME Take PROVE OnePlace'
  <2>1. /\ settleCh # << >> /\ settleCh' = Tail(settleCh)
        /\ job' = [trade |-> Head(settleCh), tx |-> 0] /\ UNCHANGED <<todo, txs>>
    BY <1>4 DEF Take, submits
  <2>2. /\ Head(settleCh) = settleCh[1] /\ 1 \in DOMAIN settleCh
        /\ \A i \in DOMAIN settleCh' : /\ i \in Nat /\ i + 1 \in DOMAIN settleCh /\ i + 1 # 1
                                       /\ settleCh'[i] = settleCh[i + 1]
    <3> HIDE DEF TradeIds
    <3> QED BY <1>0, <2>1, TailFacts
  <2>3. job'.trade = settleCh[1]
    BY <2>1, <2>2
  <2>4. \A i, j \in DOMAIN settleCh' : settleCh'[i] = settleCh'[j] => i = j
    BY <2>2 DEF OnePlace
  <2>5. \A i \in DOMAIN settleCh' : \E k \in DOMAIN settleCh : settleCh'[i] = settleCh[k] /\ k # 1
    BY <2>2
  <2>6. \A i \in DOMAIN settleCh' : settleCh'[i] # settleCh[1]
    BY <2>2, <2>5 DEF OnePlace
  <2> QED BY <2>1, <2>2, <2>3, <2>4, <2>5, <2>6 DEF OnePlace, InHand
<1>5. ASSUME SendTransaction PROVE OnePlace'
  <2> DEFINE t == [trade |-> job.trade, status |-> "pending"]
  <2>1. /\ InHand /\ UNCHANGED <<todo, settleCh>> /\ job.trade \in TradeIds
        /\ txs' = txs \/ txs' = Append(txs, t)
    BY <1>5, PlaceTypes DEF SendTransaction, InHand, GiveUp, Answer, Sent, submits
  <2>2. t.trade = job.trade
    OBVIOUS
  <2>3. ~InHand'
    <3>1. CASE job' = NoRow
      BY <3>1 DEF InHand
    <3>2. CASE job' = [job EXCEPT !.tx = Len(txs')] /\ txs' = Append(txs, t)
      <4> DEFINE n == Len(txs')
      <4>1. n = Len(txs) + 1
        BY <1>0, <3>2
      <4>2. job' = [job EXCEPT !.tx = n]
        BY <3>2
      <4> HIDE DEF n
      <4>3. job \in [trade : TradeIds, tx : 0..Len(txs)]
        BY <2>1 DEF RowsInv, ServiceTypeOK, InHand
      <4>4. job'.tx = n
        BY <4>2, <4>3
      <4> QED BY <1>0, <4>1, <4>4 DEF InHand
    <3> QED BY <1>5, <3>1, <3>2 DEF SendTransaction, GiveUp, Answer, Sent
  <2> HIDE DEF t
  <2>4. CASE txs' = txs
    BY <2>1, <2>3, <2>4 DEF OnePlace
  <2>5. CASE txs' = Append(txs, t)
    <3>1. /\ DOMAIN txs' = 1..(Len(txs) + 1) /\ txs'[Len(txs) + 1] = t
          /\ \A i \in DOMAIN txs : txs'[i] = txs[i]
      BY <1>0, <2>5
    <3>2. \A i \in DOMAIN txs' : \/ i \in DOMAIN txs /\ txs'[i].trade = txs[i].trade
                                 \/ i = Len(txs) + 1 /\ txs'[i].trade = job.trade
      BY <1>0, <2>2, <3>1
    <3>3. /\ \A i \in DOMAIN txs : txs[i].trade # job.trade
          /\ \A i \in DOMAIN settleCh : settleCh[i] # job.trade
          /\ \A p \in Ids : \A i \in DOMAIN todo[p] : todo[p][i] # job.trade
      BY <2>1 DEF OnePlace
    <3>4. \A i, j \in DOMAIN txs' : txs'[i].trade = txs'[j].trade => i = j
      BY <3>2, <3>3 DEF OnePlace
    <3> QED BY <2>1, <2>3, <3>2, <3>3, <3>4 DEF OnePlace
  <2> QED BY <2>1, <2>4, <2>5
<1>6. ASSUME WaitMined PROVE OnePlace'
  BY <1>6 DEF WaitMined, Answer, OnePlace, InHand, submits
<1>7. ASSUME Mine PROVE OnePlace'
  <2>1. /\ UNCHANGED <<todo, settleCh, job>>
        /\ \E i \in DOMAIN txs, s \in {"mined", "reverted"} : txs' = [txs EXCEPT ![i].status = s]
    BY <1>7 DEF Mine, submits, worker
  <2>2. DOMAIN txs' = DOMAIN txs /\ \A i \in DOMAIN txs : txs'[i].trade = txs[i].trade
    <3>1. \A i \in DOMAIN txs : txs[i] \in [trade : TradeIds, status : {"pending", "mined", "reverted"}]
      <4> HIDE DEF TradeIds
      <4> QED BY <1>0, MemberFacts
    <3> QED BY <1>0, <2>1, <3>1
  <2> QED BY <2>1, <2>2 DEF OnePlace, InHand
<1>8. ASSUME Exit PROVE OnePlace'
  <2>1. /\ \A p \in Ids : DOMAIN todo'[p] = {}
        /\ DOMAIN settleCh' = {} /\ txs' = txs /\ ~InHand'
    BY <1>8 DEF Exit, InHand
  <2> QED BY <2>1 DEF OnePlace
<1>9. ASSUME \/ \E r \in results : HandleResult(r)
             \/ Iterate \/ Start \/ Load \/ Loaded
             \/ \E c \in Cancelled : CancelOrder(c)
             \/ \E o \in Ids : \/ Create(o) \/ AddOrder(o) \/ UpdateStatus(o)
                               \/ \E w \in Words : ReadWord(o, w)
      PROVE  OnePlace'
  <2>1. UNCHANGED <<todo, settleCh, txs, job>>
    BY <1>9
       DEF HandleResult, Iterate, Start, Load, Loaded, CancelOrder, GetByID, RemoveFromBook,
           MarkCancelled, Create, AddOrder, UpdateStatus, ReadWord, submits, worker
  <2> QED BY <2>1 DEF OnePlace, InHand
<1> QED
  BY <1>1, <1>2, <1>3, <1>4, <1>5, <1>6, <1>7, <1>8, <1>9
     DEF Next, Backend, Submit, Worker, Boot, Crash, LoadPanics

\* What a step can take out of a place, put into it or move on.
LEMMA PlacesFrom ==
  ASSUME RowsInv, Next
  PROVE  \/ Exit
         \/ \E o \in Ids : AddOrderReturns(o)
         \/ /\ \A p \in Ids : \A i \in DOMAIN todo'[p] :
                 \E k \in DOMAIN todo[p] : todo'[p][i] = todo[p][k]
            /\ \A i \in DOMAIN settleCh' :
                 \/ \E k \in DOMAIN settleCh : settleCh'[i] = settleCh[k]
                 \/ \E o \in Ids : /\ pc[o] = "send" /\ 1 \in DOMAIN todo[o]
                                   /\ settleCh'[i] = Head(todo[o]) /\ Head(todo[o]) = todo[o][1]
            /\ \A i \in DOMAIN txs' : \/ \E k \in DOMAIN txs : txs'[i].trade = txs[k].trade
                                      \/ InHand /\ txs'[i].trade = job.trade
            /\ InHand' => \/ InHand /\ job' = job
                          \/ \E k \in DOMAIN settleCh : job'.trade = settleCh[k]
<1> DEFINE Lists == \A p \in Ids : \A i \in DOMAIN todo'[p] :
                      \E k \in DOMAIN todo[p] : todo'[p][i] = todo[p][k]
           Queue == \A i \in DOMAIN settleCh' :
                      \/ \E k \in DOMAIN settleCh : settleCh'[i] = settleCh[k]
                      \/ \E o \in Ids : /\ pc[o] = "send" /\ 1 \in DOMAIN todo[o]
                                        /\ settleCh'[i] = Head(todo[o]) /\ Head(todo[o]) = todo[o][1]
           Chain == \A i \in DOMAIN txs' : \/ \E k \in DOMAIN txs : txs'[i].trade = txs[k].trade
                                           \/ InHand /\ txs'[i].trade = job.trade
           Hand == InHand' => \/ InHand /\ job' = job
                              \/ \E k \in DOMAIN settleCh : job'.trade = settleCh[k]
<1>0. /\ todo \in [Ids -> Seq(TradeIds)] /\ settleCh \in Seq(TradeIds)
      /\ txs \in Seq([trade : TradeIds, status : {"pending", "mined", "reverted"}])
      /\ Len(txs) \in Nat /\ DOMAIN txs = 1..Len(txs)
      /\ Len(settleCh) \in Nat /\ DOMAIN settleCh = 1..Len(settleCh)
  BY PlaceTypes
<1> HIDE DEF TradeIds
<1>a. ASSUME NEW o \in Ids, todo[o] # << >>
      PROVE  /\ Head(todo[o]) = todo[o][1] /\ 1 \in DOMAIN todo[o] /\ Head(todo[o]) \in TradeIds
             /\ \A i \in DOMAIN Tail(todo[o]) :
                  i + 1 \in DOMAIN todo[o] /\ Tail(todo[o])[i] = todo[o][i + 1]
  <2>1. todo[o] \in Seq(TradeIds)
    BY <1>0
  <2> QED BY <1>a, <2>1, TailFacts
<1>b. (todo' = todo => Lists) /\ (settleCh' = settleCh => Queue) /\ (txs' = txs => Chain)
      /\ (job' = job => Hand)
  BY DEF InHand
<1>c. ASSUME NEW o \in Ids, todo[o] # << >>, todo' = [todo EXCEPT ![o] = Tail(@)]
      PROVE  Lists
  BY <1>0, <1>a, <1>c
<1>1. ASSUME NEW o \in Ids, PersistTrade(o) PROVE Lists /\ Queue /\ Chain /\ Hand
  <2>1. /\ todo[o] # << >> /\ UNCHANGED <<settleCh, txs, job>>
        /\ todo' = todo \/ todo' = [todo EXCEPT ![o] = Tail(@)]
    BY <1>1 DEF PersistTrade, worker, RowsInv, Control
  <2> QED BY <1>b, <1>c, <2>1
<1>2. ASSUME NEW o \in Ids, Send(o) PROVE Lists /\ Queue /\ Chain /\ Hand
  <2>1. /\ todo[o] # << >> /\ todo' = [todo EXCEPT ![o] = Tail(@)] /\ pc[o] = "send"
        /\ settleCh' = Append(settleCh, Head(todo[o])) /\ UNCHANGED <<txs, job>>
    BY <1>2 DEF Send, RowsInv, Control
  <2>2. /\ DOMAIN settleCh' = 1..(Len(settleCh) + 1)
        /\ settleCh'[Len(settleCh) + 1] = Head(todo[o])
        /\ \A i \in DOMAIN settleCh : settleCh'[i] = settleCh[i]
    BY <1>0, <1>a, <2>1, AppendFacts
  <2>3. Queue
    BY <1>0, <1>a, <2>1, <2>2
  <2> QED BY <1>b, <1>c, <2>1, <2>3
<1>3. ASSUME Take PROVE Lists /\ Queue /\ Chain /\ Hand
  <2>1. /\ settleCh # << >> /\ settleCh' = Tail(settleCh)
        /\ job' = [trade |-> Head(settleCh), tx |-> 0] /\ UNCHANGED <<todo, txs>>
    BY <1>3 DEF Take, submits
  <2>2. /\ Head(settleCh) = settleCh[1] /\ 1 \in DOMAIN settleCh
        /\ \A i \in DOMAIN settleCh' :
             i + 1 \in DOMAIN settleCh /\ settleCh'[i] = settleCh[i + 1]
    BY <1>0, <2>1, TailFacts
  <2>3. Queue /\ Hand
    BY <2>1, <2>2
  <2> QED BY <1>b, <2>1, <2>3
<1>4. ASSUME SendTransaction PROVE Lists /\ Queue /\ Chain /\ Hand
  <2> DEFINE t == [trade |-> job.trade, status |-> "pending"]
  <2>1. /\ InHand /\ UNCHANGED <<todo, settleCh>>
        /\ txs' = txs \/ txs' = Append(txs, t)
    BY <1>4 DEF SendTransaction, InHand, GiveUp, Answer, Sent, submits
  <2>2. t.trade = job.trade
    OBVIOUS
  <2> HIDE DEF t
  <2>3. Chain
    <3>1. CASE txs' = Append(txs, t)
      <4>1. /\ DOMAIN txs' = 1..(Len(txs) + 1) /\ txs'[Len(txs) + 1] = t
            /\ \A i \in DOMAIN txs : txs'[i] = txs[i]
        BY <1>0, <3>1
      <4> QED BY <1>0, <2>1, <2>2, <4>1
    <3> QED BY <1>b, <2>1, <3>1
  <2>4. Hand
    <3>1. CASE job' = NoRow
      BY <3>1 DEF InHand
    <3>2. CASE job' # NoRow
      <4>1. job' = [job EXCEPT !.tx = Len(txs')] /\ txs' = Append(txs, t)
        BY <1>4, <3>2 DEF SendTransaction, GiveUp, Answer, Sent, t
      <4>2. job \in [trade : TradeIds, tx : 0..Len(txs)]
        BY <2>1 DEF RowsInv, ServiceTypeOK, InHand
      <4> DEFINE n == Len(txs')
      <4>3. n = Len(txs) + 1 /\ job' = [job EXCEPT !.tx = n]
        BY <1>0, <4>1
      <4> HIDE DEF n
      <4>4. job'.tx = n
        BY <4>2, <4>3
      <4> QED BY <1>0, <4>3, <4>4 DEF InHand
    <3> QED BY <3>1, <3>2
  <2> QED BY <1>b, <2>1, <2>3, <2>4
<1>5. ASSUME WaitMined PROVE Lists /\ Queue /\ Chain /\ Hand
  BY <1>5, <1>b DEF WaitMined, Answer, InHand, submits
<1>6. ASSUME Mine PROVE Lists /\ Queue /\ Chain /\ Hand
  <2>1. /\ UNCHANGED <<todo, settleCh, job>>
        /\ \E i \in DOMAIN txs, s \in {"mined", "reverted"} : txs' = [txs EXCEPT ![i].status = s]
    BY <1>6 DEF Mine, submits, worker
  <2>2. DOMAIN txs' = DOMAIN txs /\ \A i \in DOMAIN txs : txs'[i].trade = txs[i].trade
    <3>1. \A i \in DOMAIN txs : txs[i] \in [trade : TradeIds, status : {"pending", "mined", "reverted"}]
      BY <1>0, MemberFacts
    <3> QED BY <1>0, <2>1, <3>1
  <2>3. Chain
    BY <2>2
  <2> QED BY <1>b, <2>1, <2>3
<1>7. ASSUME \/ \E r \in results : HandleResult(r)
             \/ Iterate \/ Start \/ Load \/ Loaded
             \/ \E c \in Cancelled : CancelOrder(c)
             \/ \E o \in Ids : \/ Create(o) \/ AddOrder(o) \/ UpdateStatus(o)
                               \/ \E w \in Words : ReadWord(o, w)
      PROVE  Lists /\ Queue /\ Chain /\ Hand
  <2>1. UNCHANGED <<todo, settleCh, txs, job>>
    BY <1>7
       DEF HandleResult, Iterate, Start, Load, Loaded, CancelOrder, GetByID, RemoveFromBook,
           MarkCancelled, Create, AddOrder, UpdateStatus, ReadWord, submits, worker
  <2> QED BY <1>b, <2>1
<1> HIDE DEF Lists, Queue, Chain, Hand
<1>8. Exit \/ (\E o \in Ids : AddOrderReturns(o)) \/ (Lists /\ Queue /\ Chain /\ Hand)
  BY <1>1, <1>2, <1>3, <1>4, <1>5, <1>6, <1>7
     DEF Next, Backend, Submit, Worker, Boot, Crash, LoadPanics
<1> QED BY <1>8 DEF Lists, Queue, Chain, Hand

\* Every step keeps what an AddOrder has matched out of every other place.
LEMMA NotPlacedYetStep ==
  ASSUME RowsInv, RowsInv', SettleInv, Next
  PROVE  NotPlacedYet'
<1>0. /\ mark \in Nat /\ Len(trades) \in Nat /\ TradeIds \subseteq Nat
      /\ \A t \in TradeIds : t <= Len(trades)
      /\ \A i \in DOMAIN txs : txs[i].trade \in TradeIds
      /\ \A i \in DOMAIN settleCh : settleCh[i] \in TradeIds
      /\ \A o \in Ids : \A i \in DOMAIN todo[o] : todo[o][i] \in TradeIds
      /\ job # NoRow => job.trade \in TradeIds
      /\ pc \in [Ids -> SubmitPcs] /\ NoOrder \notin Ids
  BY PlaceTypes, BookAssumption
<1> SUFFICES ASSUME NEW o \in Ids, pc'[o] = "adding"
             PROVE  /\ \A p \in Ids : \A i \in DOMAIN todo'[p] : todo'[p][i] <= mark'
                    /\ \A i \in DOMAIN settleCh' : settleCh'[i] <= mark'
                    /\ \A i \in DOMAIN txs' : txs'[i].trade <= mark'
                    /\ InHand' => job'.trade <= mark'
  BY DEF NotPlacedYet
<1>1. incoming' = o
  BY DEF RowsInv, Control
<1>2. CASE AddOrder(o)
  <2>1. mark' = Len(trades) /\ UNCHANGED <<todo, settleCh, txs, job>>
    BY <1>2 DEF AddOrder, worker
  <2> QED BY <1>0, <2>1 DEF InHand
<1>3. CASE ~AddOrder(o)
  <2>1. pc[o] = "adding" /\ mark' = mark
    <3>1. CASE \E k \in Ids : AddOrder(k) /\ k # o
      <4>1. PICK k \in Ids : AddOrder(k) /\ k # o
        BY <3>1
      <4>2. incoming' \in {k, NoOrder}
        BY <4>1 DEF AddOrder, Begin, BeginPanics, AfterPanic
      <4> QED BY <1>0, <1>1, <4>1, <4>2
    <3>2. CASE \E k \in Ids : \/ Create(k) \/ AddOrderReturns(k) \/ PersistTrade(k)
                              \/ UpdateStatus(k) \/ Send(k) \/ \E w \in Words : ReadWord(k, w)
      BY <1>0, <3>2
         DEF Create, AddOrderReturns, PersistTrade, UpdateStatus, Send, ReadWord, LoopOver
    <3>3. CASE \/ Iterate \/ (\E c \in Cancelled : CancelOrder(c)) \/ Worker \/ Mine
               \/ Start \/ Load \/ Loaded
      BY <3>3
         DEF Worker, Take, SendTransaction, WaitMined, HandleResult, Mine, Iterate, Start, Load,
             Loaded, CancelOrder, GetByID, RemoveFromBook, MarkCancelled, submits
    <3>4. CASE Exit
      BY <1>0, <3>4 DEF Exit
    <3> QED BY <1>3, <3>1, <3>2, <3>3, <3>4
            DEF Next, Backend, Submit, Boot, Crash, LoadPanics
  <2>2. /\ \A p \in Ids : \A i \in DOMAIN todo[p] : todo[p][i] <= mark
        /\ \A i \in DOMAIN settleCh : settleCh[i] <= mark
        /\ \A i \in DOMAIN txs : txs[i].trade <= mark
        /\ InHand => job.trade <= mark
    BY <2>1 DEF SettleInv, NotPlacedYet
  <2>3. ~Exit /\ ~ \E k \in Ids : AddOrderReturns(k)
    BY <1>0, <1>1 DEF Exit, AddOrderReturns, Finish
  <2>4. \A p \in Ids : \A i \in DOMAIN todo'[p] : todo'[p][i] <= mark'
    BY <2>1, <2>2, <2>3, PlacesFrom
  <2>5. \A i \in DOMAIN settleCh' : settleCh'[i] <= mark'
    BY <2>1, <2>2, <2>3, PlacesFrom
  <2>6. \A i \in DOMAIN txs' : txs'[i].trade <= mark'
    BY <2>1, <2>2, <2>3, PlacesFrom
  <2>7. InHand' => job'.trade <= mark'
    BY <2>1, <2>2, <2>3, PlacesFrom
  <2> QED BY <2>4, <2>5, <2>6, <2>7
<1> QED BY <1>2, <1>3

\* No trade's row is ever deleted.
LEMMA TradeRowsStay ==
  ASSUME Next
  PROVE  persisted \subseteq persisted'
BY DEF Next, Backend, Submit, Create, AddOrder, AddOrderReturns, PersistTrade, ReadWord,
       UpdateStatus, Send, Inserted, Iterate, CancelOrder, GetByID, RemoveFromBook, MarkCancelled,
       Worker, Take, SendTransaction, WaitMined, HandleResult, Mine, Boot, Start, Load, Loaded,
       LoadPanics, Crash, Exit, database

\* Every step keeps what leaves the list of its request among the persisted.
LEMMA PersistedFirstStep ==
  ASSUME RowsInv, RowsInv', SettleInv, Next
  PROVE  PersistedFirst'
<1>0. persisted \subseteq persisted' /\ pc \in [Ids -> SubmitPcs]
      /\ todo \in [Ids -> Seq(TradeIds)]
  BY TradeRowsStay, PlaceTypes
<1> HIDE DEF TradeIds
<1>1. ASSUME NEW o \in Ids, pc'[o] \in {"buy", "sell", "send"} PROVE Head(todo'[o]) \in persisted'
  <2>1. CASE PersistTrade(o)
    <3>1. pc'[o] = "buy" /\ todo' = todo /\ persisted' = persisted \cup {Head(todo[o])}
      BY <1>0, <1>1, <2>1 DEF PersistTrade, Inserted, LoopOver
    <3> QED BY <3>1
  <2>2. CASE ~PersistTrade(o)
    <3>1. pc[o] \in {"buy", "sell", "send"} /\ todo'[o] = todo[o]
      <4>1. CASE \E k \in Ids : Submit(k) /\ k # o
        BY <1>0, <1>1, <4>1
           DEF Submit, Create, AddOrder, AddOrderReturns, PersistTrade, UpdateStatus, Send, ReadWord
      <4>2. CASE \/ Create(o) \/ AddOrder(o) \/ AddOrderReturns(o) \/ UpdateStatus(o) \/ Send(o)
                 \/ \E w \in Words : ReadWord(o, w)
        BY <1>0, <1>1, <4>2
           DEF Create, AddOrder, AddOrderReturns, UpdateStatus, Send, ReadWord, LoopOver
      <4>3. CASE \/ Iterate \/ (\E c \in Cancelled : CancelOrder(c)) \/ Worker \/ Mine
                 \/ Start \/ Load \/ Loaded
        BY <1>1, <4>3
           DEF Worker, Take, SendTransaction, WaitMined, HandleResult, Mine, Iterate, Start, Load,
               Loaded, CancelOrder, GetByID, RemoveFromBook, MarkCancelled, submits
      <4>4. CASE Exit
        BY <1>1, <4>4 DEF Exit
      <4> QED BY <2>2, <4>1, <4>2, <4>3, <4>4
              DEF Next, Backend, Submit, Boot, Crash, LoadPanics
    <3> QED BY <1>0, <3>1 DEF SettleInv, PersistedFirst
  <2> QED BY <2>1, <2>2
<1>2. CASE Exit \/ \E o \in Ids : AddOrderReturns(o)
  <2>1. /\ DOMAIN settleCh' = {} \/ settleCh' = settleCh
        /\ txs' = txs /\ (InHand' => job' = job)
    <3>1. CASE Exit
      <4>1. DOMAIN settleCh' = {}
        BY <3>1 DEF Exit
      <4> QED BY <3>1, <4>1 DEF Exit, InHand
    <3>2. CASE \E o \in Ids : AddOrderReturns(o)
      BY <3>2 DEF AddOrderReturns, worker
    <3> QED BY <1>2, <3>1, <3>2
  <2> QED BY <1>0, <1>1, <2>1 DEF SettleInv, PersistedFirst, InHand
<1>3. CASE ~Exit /\ ~ \E o \in Ids : AddOrderReturns(o)
  <2>1. \A i \in DOMAIN settleCh' : settleCh'[i] \in persisted'
    BY <1>0, <1>3, PlacesFrom DEF SettleInv, PersistedFirst
  <2>2. \A i \in DOMAIN txs' : txs'[i].trade \in persisted'
    BY <1>0, <1>3, PlacesFrom DEF SettleInv, PersistedFirst
  <2>3. InHand' => job'.trade \in persisted'
    BY <1>0, <1>3, PlacesFrom DEF SettleInv, PersistedFirst
  <2> QED BY <1>1, <2>1, <2>2, <2>3 DEF PersistedFirst
<1> QED BY <1>2, <1>3

\* A verdict of the contract is final.
LEMMA VerdictsFinal ==
  ASSUME RowsInv, Next
  PROVE  /\ Mined \subseteq Mined'
         /\ \A i \in DOMAIN txs : i \in DOMAIN txs' /\ txs'[i].trade = txs[i].trade
<1>0. /\ txs \in Seq([trade : TradeIds, status : {"pending", "mined", "reverted"}])
      /\ Len(txs) \in Nat /\ DOMAIN txs = 1..Len(txs)
  BY PlaceTypes
<1> HIDE DEF TradeIds
<1>1. \A i \in DOMAIN txs :
        /\ i \in DOMAIN txs' /\ txs'[i].trade = txs[i].trade
        /\ txs[i].status = "mined" => txs'[i].status = "mined"
  <2>1. CASE \E i \in DOMAIN txs, s \in {"mined", "reverted"} :
               txs[i].status = "pending" /\ txs' = [txs EXCEPT ![i].status = s]
    <3>1. \A i \in DOMAIN txs : txs[i] \in [trade : TradeIds, status : {"pending", "mined", "reverted"}]
      BY <1>0, MemberFacts
    <3> QED BY <1>0, <2>1, <3>1
  <2>2. CASE \E t : txs' = Append(txs, t)
    <3>1. PICK t : txs' = Append(txs, t)
      BY <2>2
    <3>2. DOMAIN txs' = 1..(Len(txs) + 1) /\ \A i \in DOMAIN txs : txs'[i] = txs[i]
      BY <1>0, <3>1
    <3> QED BY <1>0, <3>2
  <2>3. CASE txs' = txs
    BY <2>3
  <2>4. \/ txs' = txs \/ SendTransaction \/ Mine
    BY DEF Next, Backend, Submit, Create, AddOrder, AddOrderReturns, PersistTrade, ReadWord,
           UpdateStatus, Send, Iterate, CancelOrder, GetByID, RemoveFromBook, MarkCancelled,
           Worker, Take, WaitMined, HandleResult, Boot, Start, Load, Loaded, LoadPanics, Crash, Exit
  <2> QED BY <2>1, <2>2, <2>3, <2>4 DEF SendTransaction, Sent, Mine
<1> QED BY <1>1 DEF Mined

\* Every step keeps the verdicts true: a success is reported of a mined transaction, and
\* only a reported success is marked.
LEMMA VerdictsStep ==
  ASSUME RowsInv, SettleInv, Next
  PROVE  Verdicts'
<1> USE DEF SettleInv
<1>0. /\ txs \in Seq([trade : TradeIds, status : {"pending", "mined", "reverted"}])
      /\ Len(txs) \in Nat /\ DOMAIN txs = 1..Len(txs)
      /\ job # NoRow => job \in [trade : TradeIds, tx : 0..Len(txs)]
  BY PlaceTypes DEF RowsInv, ServiceTypeOK
<1> HIDE DEF TradeIds
<1>a. /\ Mined \subseteq Mined'
      /\ \A i \in DOMAIN txs : i \in DOMAIN txs' /\ txs'[i].trade = txs[i].trade
  BY VerdictsFinal
<1>b. job' = job \/ job' = NoRow => (job' # NoRow /\ job'.tx # 0 => txs'[job'.tx].trade = job'.trade)
  <2> SUFFICES ASSUME job' = job, job # NoRow, job.tx # 0
               PROVE  txs'[job.tx].trade = job.trade
    OBVIOUS
  <2>1. job.tx \in DOMAIN txs
    BY <1>0
  <2> QED BY <1>a, <2>1 DEF Verdicts
<1>1. CASE Take
  <2>1. job' = [trade |-> Head(settleCh), tx |-> 0] /\ UNCHANGED <<results, settled>>
    BY <1>1 DEF Take, database
  <2>2. job'.tx = 0
    BY <2>1
  <2> QED BY <1>a, <2>1, <2>2 DEF Verdicts
<1>2. CASE SendTransaction
  <2> DEFINE t == [trade |-> job.trade, status |-> "pending"]
  <2>1. /\ job # NoRow /\ settled' = settled
        /\ \A r \in results' : r \in results \/ r = [trade |-> job.trade, err |-> TRUE]
    BY <1>2 DEF SendTransaction, GiveUp, Answer, Answered, database
  <2>2. \A r \in results' : ~r.err => r.trade \in Mined'
    BY <1>a, <2>1 DEF Verdicts
  <2>3. job' # NoRow /\ job'.tx # 0 => txs'[job'.tx].trade = job'.trade
    <3>1. CASE job' = NoRow
      BY <3>1
    <3>2. CASE job' = [job EXCEPT !.tx = Len(txs')] /\ txs' = Append(txs, t)
      <4> DEFINE n == Len(txs')
      <4>1. n = Len(txs) + 1 /\ txs'[n] = t
        BY <1>0, <3>2
      <4>2. job' = [job EXCEPT !.tx = n]
        BY <3>2
      <4> HIDE DEF n
      <4>3. job'.tx = n /\ job'.trade = job.trade
        BY <1>0, <2>1, <4>2
      <4> QED BY <4>1, <4>3
    <3> QED BY <1>2, <3>1, <3>2 DEF SendTransaction, GiveUp, Answer, Sent
  <2> QED BY <1>a, <2>1, <2>2, <2>3 DEF Verdicts
<1>3. CASE WaitMined
  <2> DEFINE r == [trade |-> job.trade, err |-> Failed(txs[job.tx])]
  <2>1. /\ job # NoRow /\ job.tx # 0 /\ txs[job.tx].status # "pending"
        /\ results' = results \cup {r} /\ job' = NoRow /\ UNCHANGED <<settled, txs>>
    BY <1>3 DEF WaitMined, Answer, Answered, database
  <2>2. job.tx \in DOMAIN txs /\ txs[job.tx].trade = job.trade
    BY <1>0, <2>1 DEF Verdicts
  <2>3. ~r.err => r.trade \in Mined
    <3>1. txs[job.tx] \in [trade : TradeIds, status : {"pending", "mined", "reverted"}]
      BY <1>0, <2>2, MemberFacts
    <3>2. txs[job.tx].status \in {"pending", "mined", "reverted"}
      BY <3>1
    <3>3. ~r.err => txs[job.tx].status = "mined"
      BY <2>1, <3>2 DEF Failed
    <3> QED BY <2>2, <3>3 DEF Mined
  <2> HIDE DEF r
  <2> QED BY <1>a, <2>1, <2>3 DEF Verdicts
<1>4. CASE \E r \in results : HandleResult(r)
  <2>1. PICK r \in results : HandleResult(r)
    BY <1>4
  <2>2. /\ results' \subseteq results /\ job' = job
        /\ settled' = settled \/ (~r.err /\ settled' = settled \cup {r.trade})
    BY <2>1 DEF HandleResult, Marked
  <2> QED BY <1>a, <1>b, <2>1, <2>2 DEF Verdicts
<1>5. CASE Exit
  BY <1>5, <1>a DEF Exit, Verdicts, database
<1>6. CASE \/ Mine \/ Iterate \/ Start \/ Load \/ Loaded
           \/ \E c \in Cancelled : CancelOrder(c)
           \/ \E o \in Ids : Submit(o)
  <2>1. UNCHANGED <<job, results, settled>>
    BY <1>6
       DEF Mine, Iterate, Start, Load, Loaded, CancelOrder, GetByID, RemoveFromBook, MarkCancelled,
           Submit, Create, AddOrder, AddOrderReturns, PersistTrade, ReadWord, UpdateStatus, Send,
           worker, database
  <2> QED BY <1>a, <1>b, <2>1 DEF Verdicts
<1> QED
  BY <1>1, <1>2, <1>3, <1>4, <1>5, <1>6
     DEF Next, Backend, Worker, Boot, Crash, LoadPanics

--------------------------------------------------------------------------------
(***************************************************************************)
(* The second part holds of every behaviour.                               *)
(***************************************************************************)

\* Before anything has happened no queue has an entry and no transaction exists.
LEMMA SettleInit == Init => SettleInv
<1> SUFFICES ASSUME Init PROVE SettleInv
  OBVIOUS
<1>1. /\ \A o \in Ids : DOMAIN todo[o] = {} /\ pc[o] = "idle"
      /\ DOMAIN settleCh = {} /\ DOMAIN txs = {} /\ job = NoRow /\ results = {} /\ settled = {}
  BY DEF Init
<1> QED BY <1>1 DEF SettleInv, OnePlace, NotPlacedYet, PersistedFirst, Verdicts, InHand

\* Every step keeps the second part of the invariant.
LEMMA SettleStep == RowsInv /\ RowsInv' /\ SettleInv /\ [Next]_vars => SettleInv'
<1> SUFFICES ASSUME RowsInv, RowsInv', SettleInv, [Next]_vars PROVE SettleInv'
  OBVIOUS
<1>1. CASE Next
  BY <1>1, OnePlaceStep, NotPlacedYetStep, PersistedFirstStep, VerdictsStep DEF SettleInv
<1>2. CASE UNCHANGED vars
  <2>1. UNCHANGED <<pc, todo, mark, settleCh, job, results, persisted, settled, txs>>
    BY <1>2 DEF vars, submits, worker, database
  <2> QED BY <2>1
          DEF SettleInv, OnePlace, NotPlacedYet, PersistedFirst, Verdicts, InHand, Mined
<1> QED BY <1>1, <1>2

\* Each match is in one place, for any crashes, failures, lost answers and capacity.
THEOREM SettleInvariant == Spec => []SettleInv
BY RowsInvariant, RowsStep, SettleInit, SettleStep, PTL DEF Spec

\* A trade that waits for its row, for its settlement and for the node are three.
LEMMA OnceFromInv == SettleInv => SettlesOnce
BY DEF SettleInv, OnePlace, PersistedFirst, SettlesOnce, ToSet

\* Only a mined transaction leads to the mark.
LEMMA MinedFromInv == SettleInv => SettledAreMined
BY DEF SettleInv, Verdicts, SettledAreMined

\* No match is sent to the chain twice, and none before its trade has a row.
THEOREM SentOnce == Spec => []SettlesOnce
BY OnceFromInv, SettleInvariant, PTL

\* What is marked settled is settled.
THEOREM MarkedIsMined == Spec => []SettledAreMined
BY MinedFromInv, SettleInvariant, PTL
================================================================================
