---------------------------- MODULE BookFeed_proofs ----------------------------
(***************************************************************************)
(* Theorems about BookFeed, for any requests, browsers and faults.         *)
(***************************************************************************)
EXTENDS BookFeed, SequenceTheorems, TLAPS

Working == {"change", "snapshot", "publish"} \cup Keys
Changed == { r \in Requests : pc[r] \in {"snapshot", "publish"} \cup Keys }

\* What c shows once it has received what is on its way.
Latest(c) == IF wire[c] = << >> THEN shown[c] ELSE wire[c][Len(wire[c])]

--------------------------------------------------------------------------------
(***************************************************************************)
(* The inductive invariant.                                                *)
(***************************************************************************)

\* Types of the books.  A stamp is a number because there always is a newest one.
BookShape ==
  /\ serving \in BOOLEAN /\ registry \in Books \cup {NoBook}
  /\ content \in [Books -> Nat]
  /\ \E b \in Books : Newest(b)

\* Types of the requests and of what they write; a request that works has a book.
RequestShape ==
  /\ pc \in [Requests -> {"idle", "create", "done"} \cup Working]
  /\ mine \in [Requests -> Books \cup {NoBook}]
  /\ \A r \in Requests : pc[r] \in Working => mine[r] \in Books
  /\ held \in [Requests -> Nat] /\ cache \in [Keys -> Nat]
  /\ tainted \subseteq Everyone /\ faults \in 0..MaxFaults

\* Types of the handlers and the browsers; a handler runs exactly while its socket is open.
BrowserShape ==
  /\ hook \in [Clients -> {"unmounted", "connecting", "open", "closing", "cleared", "waiting"}]
  /\ stage \in [Clients -> {"none", "subscribe", "live"} \cup Keys]
  /\ got \in [Clients -> Nat]
  /\ wire \in [Clients -> Seq([Keys -> Nat])]
  /\ shown \in [Clients -> [Keys -> Nat]]
  /\ \A c \in Clients : (hook[c] = "open") <=> (stage[c] # "none")
  /\ \A c \in Clients : wire[c] # << >> => hook[c] = "open"

Shape == BookShape /\ RequestShape /\ BrowserShape

\* No request outlives its process, and with the loaded book registered every request
\* works on it.
Registered ==
  /\ ~serving => /\ registry = NoBook
                 /\ \A r \in Requests : pc[r] \in {"idle", "done"}
                 /\ \A c \in Clients : stage[c] = "none"
  /\ registry = Loader =>
       \A r \in Requests : /\ pc[r] # "create"
                           /\ pc[r] \in Working => mine[r] = Loader

\* An updateCache that has run alone so far holds the book as it is, unless somebody who
\* has changed it since is still to take a snapshot; what it has written is in the cache.
Alone ==
  serving /\ registry = Loader =>
    \A r \in Updating \ overlapped :
      /\ \A q \in Updating : q = r
      /\ held[r] = content[Loader] \/ \E q \in Requests : pc[q] = "snapshot"
      /\ r \notin failing => /\ pc[r] \in {"asks", "publish"} => cache["bids"] = held[r]
                             /\ pc[r] = "publish" => cache["asks"] = held[r]

\* With nobody between a change and the end of its updateCache, what is not tainted is
\* right: the cache, what a handler has read of it and what a browser has received or will.
Right ==
  serving /\ registry = Loader /\ Changed = {} =>
    /\ "cache" \notin tainted => Shows(cache)
    /\ \A c \in Clients \ tainted :
         /\ stage[c] = "asks" => got[c] = content[Loader]
         /\ stage[c] \in {"subscribe", "live"} => Shows(Latest(c))

\* A handler that has read an untainted cache is tainted along with it.
Together == \A c \in Clients \ tainted : stage[c] = "asks" => "cache" \notin tainted

FeedInv == Shape /\ Registered /\ Alone /\ Right /\ Together


--------------------------------------------------------------------------------
(***************************************************************************)
(* Types.                                                                  *)
(***************************************************************************)

\* The next stamp is newer than every book.
LEMMA StampIsNewer ==
  ASSUME Shape
  PROVE  Stamp \in Nat /\ \A b \in Books : content[b] < Stamp
<1>1. content \in [Books -> Nat] /\ \E b \in Books : Newest(b)
  BY DEF Shape, BookShape
<1>2. PICK b \in Books : b = (CHOOSE a \in Books : Newest(a)) /\ Newest(b)
  BY <1>1
<1>3. Stamp = 1 + content[b]
  BY <1>2 DEF Stamp
<1>4. content[b] \in Nat /\ \A a \in Books : content[a] \in Nat /\ content[a] <= content[b]
  BY <1>1, <1>2 DEF Newest
<1> QED BY <1>3, <1>4

\* A changed book is the newest.
LEMMA ChangeIsNewest ==
  ASSUME Shape, NEW b \in Books, content' = [content EXCEPT ![b] = Stamp]
  PROVE  content' \in [Books -> Nat] /\ \E a \in Books : Newest(a)'
<1>1. Stamp \in Nat /\ \A a \in Books : content[a] < Stamp /\ content[a] \in Nat
  BY StampIsNewer DEF Shape, BookShape
<1>2. content \in [Books -> Nat]
  BY DEF Shape, BookShape
<1>3. content' \in [Books -> Nat] /\ content'[b] = Stamp
  BY <1>1, <1>2
<1>4. \A a \in Books : content'[a] <= content'[b]
  BY <1>1, <1>2, <1>3
<1> QED BY <1>3, <1>4 DEF Newest

\* A message more on the wire, and the first one received.
LEMMA WireFacts ==
  ASSUME NEW q \in Seq([Keys -> Nat]), NEW m \in [Keys -> Nat]
  PROVE  /\ Append(q, m) \in Seq([Keys -> Nat]) /\ Append(q, m) # << >>
         /\ Append(q, m)[Len(Append(q, m))] = m
         /\ q # << >> => /\ Head(q) \in [Keys -> Nat] /\ Tail(q) \in Seq([Keys -> Nat])
                         /\ q[Len(q)] \in [Keys -> Nat]
                         /\ Tail(q) = << >> => Head(q) = q[Len(q)]
                         /\ Tail(q) # << >> => Tail(q)[Len(Tail(q))] = q[Len(q)]
<1>1. Append(q, m) \in Seq([Keys -> Nat]) /\ Len(Append(q, m)) = Len(q) + 1
  BY AppendProperties
<1>2. Append(q, m)[Len(q) + 1] = m /\ Len(q) \in Nat
  BY AppendProperties, LenProperties
<1>3. ASSUME q # << >>
      PROVE  /\ Head(q) \in [Keys -> Nat] /\ Tail(q) \in Seq([Keys -> Nat])
             /\ q[Len(q)] \in [Keys -> Nat]
             /\ Tail(q) = << >> => Head(q) = q[Len(q)]
             /\ Tail(q) # << >> => Tail(q)[Len(Tail(q))] = q[Len(q)]
  <2>1. /\ Head(q) \in [Keys -> Nat] /\ Tail(q) \in Seq([Keys -> Nat])
        /\ Head(q) = q[1] /\ Len(Tail(q)) = Len(q) - 1
        /\ \A i \in 1..Len(Tail(q)) : Tail(q)[i] = q[i + 1]
    BY <1>3, HeadTailProperties
  <2>2. Len(q) \in Nat /\ Len(q) > 0 /\ q[Len(q)] \in [Keys -> Nat]
    BY <1>3, EmptySeq, LenProperties, ElementOfSeq
  <2>3. Tail(q) = << >> => Len(q) = 1
    <3>1. Len(<< >>) = 0
      BY EmptySeq
    <3>2. Tail(q) = << >> => Len(Tail(q)) = 0
      BY <3>1, Zenon
    <3>3. Len(Tail(q)) = Len(q) - 1
      BY <2>1
    <3>4. Len(Tail(q)) = 0 => Len(q) = 1
      BY <2>2, <3>3
    <3> QED BY <3>2, <3>4, Zenon
  <2>4. Tail(q) # << >> => Len(Tail(q)) \in 1..Len(Tail(q))
    BY <2>1, <2>2, EmptySeq, LenProperties
  <2> QED BY <2>1, <2>2, <2>3, <2>4
<1>4. Append(q, m) # << >>
  BY <1>1, <1>2, EmptySeq
<1> QED BY <1>1, <1>2, <1>3, <1>4

\* The steps of a request keep the types.
LEMMA RequestTypes ==
  ASSUME Shape, NEW r \in Requests,
         Lookup(r) \/ StoreBook(r) \/ ChangeBook(r) \/ ReadBook(r) \/ GiveUp(r) \/ Update(r)
  PROVE  Shape'
<1> USE DEF Working, Keys
<1>0. /\ MaxFaults \in Nat /\ Loader \in Books /\ r \in Books /\ NoBook \notin Books
      /\ \A k \in Keys : k \in {"bids", "asks"}
  BY FeedAssumption DEF Books
<1>1. CASE Lookup(r)
  <2>1. /\ registry # NoBook => registry \in Books
        /\ \/ registry # NoBook /\ mine' = [mine EXCEPT ![r] = registry]
                              /\ pc' = [pc EXCEPT ![r] = "change"]
           \/ pc' = [pc EXCEPT ![r] = "create"] /\ mine' = mine
        /\ UNCHANGED <<serving, books, held, outside, faults, tainted>>
    BY <1>1 DEF Lookup, Found, Shape, BookShape
  <2>2. RequestShape'
    BY <1>0, <2>1 DEF Shape, RequestShape, outside
  <2>3. BookShape' /\ BrowserShape'
    BY <2>1 DEF Shape, BookShape, BrowserShape, Newest, books, outside, browser, handler
  <2> QED BY <2>2, <2>3 DEF Shape
<1>2. CASE StoreBook(r)
  BY <1>0, <1>2 DEF StoreBook, Shape, BookShape, RequestShape, BrowserShape, Newest,
     outside, browser, handler
<1>3. CASE ChangeBook(r)
  <2>1. mine[r] \in Books
    BY <1>3 DEF ChangeBook, Shape, RequestShape
  <2>2. content' \in [Books -> Nat] /\ \E a \in Books : Newest(a)'
    BY <1>3, <2>1, ChangeIsNewest DEF ChangeBook
  <2>3. BookShape'
    BY <1>3, <2>2 DEF ChangeBook, Shape, BookShape
  <2> QED BY <1>0, <1>3, <2>3 DEF ChangeBook, Shape, RequestShape, BrowserShape,
             outside, browser, handler
<1>4. CASE GiveUp(r)
  BY <1>0, <1>4 DEF GiveUp, Fault, Shape, BookShape, RequestShape, BrowserShape, Newest, books,
     outside, browser, handler
<1>5. CASE TakeSnapshot(r)
  BY <1>0, <1>5 DEF TakeSnapshot, Shape, BookShape, RequestShape, BrowserShape, Newest, books,
     outside, browser, handler
<1>6. ASSUME NEW k \in Keys, Set(r, k) PROVE Shape'
  BY <1>0, <1>6 DEF Set, CallFails, Fault, Shape, BookShape, RequestShape, BrowserShape, Newest,
     books, browser, handler
<1>7. CASE Publish(r)
  <2>1. /\ pc[r] = "publish" /\ pc' = [pc EXCEPT ![r] = "done"]
        /\ tainted' \subseteq Everyone /\ faults' \in 0..MaxFaults
        /\ UNCHANGED <<serving, books, mine, held, cache, browser, handler>>
    BY <1>0, <1>7 DEF Publish, CallFails, Fault, Gap, Everyone, Shape, RequestShape
  <2>2. PICK to \in SUBSET Listening :
          wire' = [c \in Clients |-> IF c \in to THEN Received(c, [k \in Keys |-> held[r]])
                                     ELSE wire[c]]
    BY <1>7 DEF Publish
  <2>3. /\ wire' \in [Clients -> Seq([Keys -> Nat])]
        /\ \A c \in Clients : wire'[c] # << >> => wire[c] # << >> \/ stage[c] = "live"
    <3>1. [k \in Keys |-> held[r]] \in [Keys -> Nat]
      BY DEF Shape, RequestShape
    <3>2. \A c \in Clients : Received(c, [k \in Keys |-> held[r]]) \in Seq([Keys -> Nat])
      BY <3>1, WireFacts DEF Received, Shape, BrowserShape
    <3> QED BY <2>2, <3>2 DEF Listening, Shape, BrowserShape
  <2>4. BrowserShape'
    BY <2>1, <2>3 DEF Shape, BrowserShape, browser, handler
  <2> QED BY <1>0, <2>1, <2>4 DEF Shape, BookShape, RequestShape, Newest, books
<1>8. CASE ReadBook(r)
  BY <1>0, <1>8 DEF ReadBook, Shape, BookShape, RequestShape, BrowserShape, Newest, books,
     outside, browser, handler
<1> QED BY <1>1, <1>2, <1>3, <1>4, <1>5, <1>6, <1>7, <1>8 DEF Update

\* The steps of a handler keep the types.
LEMMA HandlerTypes ==
  ASSUME Shape, NEW c \in Clients, Handler(c)
  PROVE  Shape'
<1> USE DEF Keys
<1>0. MaxFaults \in Nat /\ Clients \subseteq Everyone
  BY FeedAssumption DEF Everyone
<1>1. /\ UNCHANGED server /\ UNCHANGED browser
      /\ faults' \in 0..MaxFaults /\ tainted' \subseteq Everyone
      /\ got' \in [Clients -> Nat]
  BY <1>0 DEF Handler, ReadBids, ReadAsks, ReadFails, Subscribe, Fault, Shape, RequestShape,
     BrowserShape
<1>2. \E new \in {"asks", "subscribe", "live"} :
        stage[c] # "none" /\ stage' = [stage EXCEPT ![c] = new]
  BY DEF Handler, ReadBids, ReadAsks, ReadFails, Subscribe
<1>3. /\ wire' \in [Clients -> Seq([Keys -> Nat])]
      /\ \A x \in Clients : x # c => wire'[x] = wire[x]
  <2>1. CASE ReadAsks(c)
    <3>1. [cache EXCEPT !["bids"] = got[c]] \in [Keys -> Nat]
      BY DEF Shape, RequestShape, BrowserShape
    <3>2. Append(wire[c], [cache EXCEPT !["bids"] = got[c]]) \in Seq([Keys -> Nat])
      BY <3>1, WireFacts DEF Shape, BrowserShape
    <3> QED BY <2>1, <3>2 DEF ReadAsks, Shape, BrowserShape
  <2>2. CASE UNCHANGED wire
    BY <2>2 DEF Shape, BrowserShape
  <2> QED BY <2>1, <2>2 DEF Handler, ReadBids, ReadFails, Subscribe
<1>4. BrowserShape'
  <2>1. /\ hook' = hook /\ shown' = shown
        /\ stage' \in [Clients -> {"none", "subscribe", "live"} \cup Keys]
    BY <1>1, <1>2 DEF Shape, BrowserShape, browser, Keys
  <2>2. hook[c] = "open" /\ stage'[c] # "none"
    BY <1>2 DEF Shape, BrowserShape
  <2>3. \A x \in Clients : x # c => stage'[x] = stage[x]
    BY <1>2 DEF Shape, BrowserShape
  <2>4. \A x \in Clients : (hook[x] = "open") <=> (stage'[x] # "none")
    BY <2>2, <2>3 DEF Shape, BrowserShape
  <2>5. \A x \in Clients : wire'[x] # << >> => hook[x] = "open"
    BY <1>3, <2>2 DEF Shape, BrowserShape
  <2> QED BY <1>1, <1>3, <2>1, <2>4, <2>5 DEF Shape, BrowserShape
<1>5. BookShape' /\ RequestShape'
  BY <1>1 DEF Shape, BookShape, RequestShape, Newest, server, books, request
<1> QED BY <1>4, <1>5 DEF Shape

\* The events in a browser keep the types.
LEMMA BrowserTypes ==
  ASSUME Shape, NEW c \in Clients, Mount(c) \/ Unmount(c) \/ Drop(c) \/ Hook(c) \/ Show(c)
  PROVE  Shape'
<1> USE DEF Keys
<1>0. MaxFaults \in Nat /\ << >> \in Seq([Keys -> Nat])
  BY FeedAssumption, EmptySeq
<1>1. UNCHANGED server /\ faults' \in 0..MaxFaults /\ UNCHANGED tainted
  BY <1>0 DEF Mount, Unmount, Drop, Hook, Open, Closed, Reconnect, Show, Fault, Shape, RequestShape
<1>2. BookShape' /\ RequestShape'
  BY <1>1 DEF Shape, BookShape, RequestShape, Newest, server, books, request
<1>3. CASE Show(c)
  <2>1. Head(wire[c]) \in [Keys -> Nat] /\ Tail(wire[c]) \in Seq([Keys -> Nat])
    BY <1>3, WireFacts DEF Show, Shape, BrowserShape
  <2>2. BrowserShape'
    BY <1>3, <2>1 DEF Show, Shape, BrowserShape, handler
  <2> QED BY <1>2, <2>2 DEF Shape
<1>4. CASE Unmount(c)
  <2>1. BrowserShape'
    BY <1>0, <1>4 DEF Unmount, HandlersEnd, Shape, BrowserShape
  <2> QED BY <1>2, <2>1 DEF Shape
<1>5. CASE Drop(c)
  <2>1. BrowserShape'
    BY <1>0, <1>5 DEF Drop, AfterClose, HandlersEnd, Shape, BrowserShape
  <2> QED BY <1>2, <2>1 DEF Shape
<1>6. CASE Mount(c) \/ Hook(c)
  <2>1. BrowserShape'
    BY <1>6 DEF Mount, Hook, Open, Closed, Reconnect, AfterClose, Shape, BrowserShape, handler
  <2> QED BY <1>2, <2>1 DEF Shape
<1> QED BY <1>3, <1>4, <1>5, <1>6

\* Every step keeps the types.
LEMMA ShapeStep == Shape /\ [Next]_vars => Shape'
<1> SUFFICES ASSUME Shape, [Next]_vars PROVE Shape'
  OBVIOUS
<1>0. MaxFaults \in Nat /\ Loader \in Books /\ << >> \in Seq([Keys -> Nat])
  BY FeedAssumption, EmptySeq DEF Books
<1>1. CASE Crash
  <2>1. BookShape'
    BY <1>1 DEF Crash, Shape, BookShape, Newest
  <2>2. RequestShape'
    BY <1>0, <1>1 DEF Crash, Fault, Shape, RequestShape, Working, Keys
  <2>3. BrowserShape'
    BY <1>0, <1>1 DEF Crash, AfterClose, HandlersEnd, Shape, BrowserShape, Keys
  <2> QED BY <2>1, <2>2, <2>3 DEF Shape
<1>2. CASE Start
  <2>1. content' \in [Books -> Nat] /\ \E a \in Books : Newest(a)'
    BY <1>0, <1>2, ChangeIsNewest DEF Start
  <2>2. BookShape'
    BY <1>0, <1>2, <2>1 DEF Start, Shape, BookShape
  <2> QED BY <1>2, <2>2 DEF Start, Shape, RequestShape, BrowserShape, request, outside, browser,
             handler
<1>3. CASE UNCHANGED vars
  BY <1>3 DEF vars, Shape, BookShape, RequestShape, BrowserShape, Newest
<1> QED BY <1>1, <1>2, <1>3, RequestTypes, HandlerTypes, BrowserTypes DEF Next

--------------------------------------------------------------------------------
(***************************************************************************)
(* The map of books.                                                       *)
(***************************************************************************)

\* Handlers and browsers leave the server alone.
LEMMA ServerAlone ==
  ASSUME NEW c \in Clients,
         Mount(c) \/ Unmount(c) \/ Drop(c) \/ Hook(c) \/ Handler(c) \/ Show(c)
  PROVE  UNCHANGED <<serving, registry, content, pc, mine, held, failing, overlapped, cache>>
BY DEF Mount, Unmount, Drop, Hook, Open, Closed, Reconnect, Handler, ReadBids, ReadAsks,
   ReadFails, Subscribe, Show, server, books, request

\* A handler only goes on, and only an open socket of a running server has one.
LEMMA HandlersMove ==
  ASSUME Registered, NEW c \in Clients, NEW x \in Clients,
         Mount(c) \/ Unmount(c) \/ Drop(c) \/ Hook(c) \/ Handler(c) \/ Show(c),
         Shape, ~serving
  PROVE  stage'[x] = "none"
<1>1. stage \in [Clients -> {"none", "subscribe", "live"} \cup Keys] /\ stage[c] = "none"
      /\ stage[x] = "none"
  BY DEF Registered, Shape, BrowserShape
<1> QED BY <1>1 DEF Mount, Unmount, Drop, Hook, Open, Closed, Reconnect, Handler, ReadBids,
           ReadAsks, ReadFails, Subscribe, Show, HandlersEnd, handler, Keys

\* Every step keeps Registered.
LEMMA RegisteredStep == Shape /\ Registered /\ [Next]_vars => Registered'
<1> SUFFICES ASSUME Shape, Registered, [Next]_vars PROVE Registered'
  OBVIOUS
<1> USE DEF Working, Keys
<1>0. Loader # NoBook /\ Loader \notin Requests
      /\ pc \in [Requests -> {"idle", "create", "done"} \cup Working]
      /\ mine \in [Requests -> Books \cup {NoBook}]
  BY FeedAssumption DEF Shape, RequestShape
<1>1. ASSUME NEW r \in Requests, Lookup(r) PROVE Registered'
  BY <1>0, <1>1 DEF Lookup, Found, Registered, books, outside, handler
<1>2. ASSUME NEW r \in Requests, StoreBook(r) PROVE Registered'
  <2>1. serving
    BY <1>2 DEF StoreBook, Registered
  <2> QED BY <1>0, <1>2, <2>1 DEF StoreBook, Registered
<1>3. ASSUME NEW r \in Requests, ChangeBook(r) \/ ReadBook(r) \/ GiveUp(r) \/ Update(r)
      PROVE  Registered'
  <2>1. /\ UNCHANGED <<serving, registry, mine, stage>>
        /\ \E new \in {"snapshot", "bids", "asks", "publish", "done"} :
             pc' = [pc EXCEPT ![r] = new]
        /\ pc[r] \in Working
    BY <1>3 DEF ChangeBook, ReadBook, GiveUp, Update, TakeSnapshot, Set, Publish, books, outside,
       handler
  <2>2. serving
    BY <2>1 DEF Registered
  <2> QED BY <1>0, <2>1, <2>2 DEF Registered
<1>4. ASSUME NEW c \in Clients,
             Mount(c) \/ Unmount(c) \/ Drop(c) \/ Hook(c) \/ Handler(c) \/ Show(c)
      PROVE  Registered'
  <2>1. UNCHANGED <<serving, registry, pc, mine>>
    BY <1>4, ServerAlone
  <2>2. ~serving => \A x \in Clients : stage'[x] = "none"
    BY <1>4, HandlersMove
  <2> QED BY <2>1, <2>2 DEF Registered
<1>5. CASE Crash
  BY <1>0, <1>5 DEF Crash, HandlersEnd, Registered
<1>6. CASE Start
  BY <1>0, <1>6 DEF Start, Registered, request, outside, handler
<1>7. CASE UNCHANGED vars
  BY <1>7 DEF vars, Registered
<1> QED BY <1>1, <1>2, <1>3, <1>4, <1>5, <1>6, <1>7 DEF Next

--------------------------------------------------------------------------------
(***************************************************************************)
(* The cache and the screens.                                              *)
(***************************************************************************)

\* Every step keeps Alone.
LEMMA AloneStep == FeedInv /\ [Next]_vars => Alone'
<1> SUFFICES ASSUME FeedInv, [Next]_vars PROVE Alone'
  OBVIOUS
<1> USE DEF Keys
<1>0. /\ pc \in [Requests -> {"idle", "create", "done"} \cup Working]
      /\ mine \in [Requests -> Books \cup {NoBook}]
      /\ held \in [Requests -> Nat] /\ cache \in [Keys -> Nat]
      /\ content \in [Books -> Nat] /\ Loader \in Books
      /\ Loader # NoBook /\ Loader \notin Requests
  BY FeedAssumption DEF FeedInv, Shape, RequestShape, BookShape, Books
<1>1. ASSUME NEW r \in Requests, Lookup(r) PROVE Alone'
  <2>1. UNCHANGED <<serving, registry, content, held, failing, overlapped, cache>>
    BY <1>1 DEF Lookup, books, outside
  <2>2. \A q \in Requests : \/ pc'[q] = pc[q]
                            \/ pc[q] = "idle" /\ pc'[q] \in {"change", "create"}
    BY <1>0, <1>1 DEF Lookup
  <2>3. Updating' = Updating
    BY <2>2 DEF Updating
  <2> QED BY <2>1, <2>2, <2>3 DEF Alone, FeedInv, Updating
<1>2. ASSUME NEW r \in Requests, StoreBook(r) PROVE Alone'
  BY <1>0, <1>2 DEF StoreBook, Alone
<1>3. ASSUME NEW r \in Requests, ChangeBook(r) PROVE Alone'
  <2>1. /\ UNCHANGED <<serving, registry, held, failing, overlapped, cache>>
        /\ pc' = [pc EXCEPT ![r] = "snapshot"] /\ pc[r] = "change"
    BY <1>3 DEF ChangeBook, outside
  <2>2. Updating' = Updating /\ pc'[r] = "snapshot"
    BY <1>0, <2>1 DEF Updating
  <2> QED BY <1>0, <2>1, <2>2 DEF Alone, FeedInv, Updating
<1>4. ASSUME NEW r \in Requests, GiveUp(r) PROVE Alone'
  <2>1. Updating' = Updating /\ overlapped' = overlapped \cup Updating
    BY <1>0, <1>4 DEF GiveUp, Updating
  <2> QED BY <2>1 DEF Alone
<1>5. ASSUME NEW r \in Requests, TakeSnapshot(r) PROVE Alone'
  <2>1. Updating' = Updating \cup {r} /\ r \notin Updating /\ pc'[r] = "bids"
    BY <1>0, <1>5 DEF TakeSnapshot, Updating
  <2>2. CASE Updating = {}
    <3>1. serving' /\ registry' = Loader => held'[r] = content'[Loader]
      <4>1. serving' = serving /\ registry' = registry /\ content' = content
        BY <1>5 DEF TakeSnapshot, books
      <4>2. registry = Loader => mine[r] = Loader
        BY <1>5 DEF TakeSnapshot, FeedInv, Registered, Working
      <4> QED BY <1>0, <1>5, <4>1, <4>2 DEF TakeSnapshot
    <3> QED BY <2>1, <2>2, <3>1 DEF Alone
  <2>3. CASE Updating # {}
    BY <1>5, <2>1, <2>3 DEF TakeSnapshot, Alone
  <2> QED BY <2>2, <2>3
<1>6. ASSUME NEW r \in Requests, NEW k \in Keys, Set(r, k) PROVE Alone'
  <2>1. /\ UNCHANGED <<serving, registry, content, held, overlapped>>
        /\ pc[r] = k /\ pc' = [pc EXCEPT ![r] = IF k = "bids" THEN "asks" ELSE "publish"]
        /\ failing \subseteq failing'
        /\ r \notin failing' => cache' = [cache EXCEPT ![k] = held[r]]
    BY <1>6 DEF Set, CallFails, books
  <2>2. Updating' = Updating /\ r \in Updating
    BY <1>0, <2>1 DEF Updating
  <2> SUFFICES ASSUME serving, registry = Loader, NEW q \in Updating \ overlapped
      PROVE  /\ \A p \in Updating : p = q
             /\ held[q] = content[Loader] \/ \E p \in Requests : pc'[p] = "snapshot"
             /\ q \notin failing' => /\ pc'[q] \in {"asks", "publish"} => cache'["bids"] = held[q]
                                     /\ pc'[q] = "publish" => cache'["asks"] = held[q]
    BY <2>1, <2>2 DEF Alone
  <2>3. /\ \A p \in Updating : p = q
        /\ held[q] = content[Loader] \/ \E p \in Requests : pc[p] = "snapshot"
        /\ q \notin failing => /\ pc[q] \in {"asks", "publish"} => cache["bids"] = held[q]
                               /\ pc[q] = "publish" => cache["asks"] = held[q]
    BY DEF Alone, FeedInv
  <2>4. q = r
    BY <2>2, <2>3
  <2>5. \A p \in Requests : pc[p] = "snapshot" => pc'[p] = "snapshot"
    BY <1>0, <2>1
  <2>6. q \notin failing' => /\ pc'[q] \in {"asks", "publish"} => cache'["bids"] = held[q]
                             /\ pc'[q] = "publish" => cache'["asks"] = held[q]
    BY <1>0, <2>1, <2>3, <2>4
  <2> QED BY <2>3, <2>5, <2>6
<1>7. ASSUME NEW r \in Requests, Publish(r) PROVE Alone'
  <2>1. /\ UNCHANGED <<serving, registry, content, held, overlapped, cache>>
        /\ pc[r] = "publish" /\ pc' = [pc EXCEPT ![r] = "done"]
        /\ failing \subseteq failing'
    BY <1>7 DEF Publish, CallFails, books
  <2>2. Updating' = Updating \ {r} /\ r \in Updating
    BY <1>0, <2>1 DEF Updating
  <2>3. serving /\ registry = Loader => Updating' \ overlapped = {}
    BY <2>2 DEF Alone, FeedInv
  <2> QED BY <2>1, <2>3 DEF Alone
<1>8. ASSUME NEW c \in Clients,
             Mount(c) \/ Unmount(c) \/ Drop(c) \/ Hook(c) \/ Handler(c) \/ Show(c)
      PROVE  Alone'
  BY <1>8, ServerAlone DEF Alone, FeedInv, Updating
<1>9. CASE Crash
  BY <1>9 DEF Crash, Alone
<1>10. CASE Start
  <2>1. Updating' = {}
    BY <1>10 DEF Start, FeedInv, Registered, Updating, request
  <2> QED BY <2>1 DEF Alone
<1>11. CASE UNCHANGED vars
  BY <1>11 DEF vars, Alone, FeedInv, Updating
<1>12. ASSUME NEW r \in Requests, ReadBook(r) PROVE Alone'
  <2>1. /\ UNCHANGED <<serving, registry, content, held, failing, overlapped, cache>>
        /\ pc' = [pc EXCEPT ![r] = "done"] /\ pc[r] = "change"
    BY <1>12 DEF ReadBook, books, outside
  <2>2. Updating' = Updating
    BY <1>0, <2>1 DEF Updating
  <2> QED BY <1>0, <2>1, <2>2 DEF Alone, FeedInv, Updating
<1> QED BY <1>1, <1>2, <1>3, <1>4, <1>5, <1>6, <1>7, <1>8, <1>9, <1>10, <1>11, <1>12
        DEF Next, Update

\* What is stale and what a handler has read move only with the steps named here.
LEMMA TogetherStep == FeedInv /\ [Next]_vars => Together'
<1> SUFFICES ASSUME FeedInv, [Next]_vars PROVE Together'
  OBVIOUS
<1> USE DEF Keys
<1>0. /\ stage \in [Clients -> {"none", "subscribe", "live"} \cup Keys]
      /\ "cache" \notin Clients /\ Together
  BY FeedAssumption DEF FeedInv, Shape, BrowserShape
<1>1. CASE UNCHANGED <<stage, tainted>>
  BY <1>0, <1>1 DEF Together
<1>2. ASSUME NEW r \in Requests, GiveUp(r) PROVE Together'
  BY <1>2 DEF GiveUp, Together, Everyone
<1>3. ASSUME NEW r \in Requests, Publish(r) PROVE Together'
  <2>1. stage' = stage /\ (tainted' = Everyone \/ tainted' = Gap)
    BY <1>3 DEF Publish, handler
  <2> QED BY <1>0, <2>1 DEF Together, Everyone, Gap
<1>4. ASSUME NEW c \in Clients, Handler(c) PROVE Together'
  BY <1>0, <1>4 DEF Handler, ReadBids, ReadAsks, ReadFails, Subscribe, Together
<1>5. ASSUME NEW c \in Clients, Mount(c) \/ Unmount(c) \/ Drop(c) \/ Hook(c) \/ Show(c)
      PROVE  Together'
  <2>1. /\ tainted' = tainted
        /\ \A x \in Clients : stage'[x] \in {stage[x], "none", "bids"}
    BY <1>0, <1>5 DEF Mount, Unmount, Drop, Hook, Open, Closed, Reconnect, Show, HandlersEnd, handler
  <2> QED BY <1>0, <2>1 DEF Together
<1>6. CASE Crash
  BY <1>6 DEF Crash, HandlersEnd, Together
<1>7. CASE Start
  BY <1>7 DEF Start, Together, Everyone
<1> QED
  <2>1. ASSUME NEW r \in Requests,
               Lookup(r) \/ StoreBook(r) \/ ChangeBook(r) \/ ReadBook(r) \/ TakeSnapshot(r)
                 \/ (\E k \in Keys : Set(r, k))
        PROVE  UNCHANGED <<stage, tainted>>
    BY <2>1 DEF Lookup, StoreBook, ChangeBook, ReadBook, TakeSnapshot, Set, outside, handler
  <2> QED BY <2>1, <1>1, <1>2, <1>3, <1>4, <1>5, <1>6, <1>7 DEF Next, Update, vars

\* What a screen ends up with changes when a message is sent to it, and only then.
LEMMA LatestFacts ==
  ASSUME Shape, NEW c \in Clients
  PROVE  /\ Latest(c) \in [Keys -> Nat]
         /\ \A m \in [Keys -> Nat] : wire'[c] = Append(wire[c], m) => Latest(c)' = m
         /\ UNCHANGED <<wire, shown>> => Latest(c)' = Latest(c)
         /\ Show(c) => Latest(c)' = Latest(c)
<1>1. wire[c] \in Seq([Keys -> Nat]) /\ shown[c] \in [Keys -> Nat]
      /\ wire \in [Clients -> Seq([Keys -> Nat])] /\ shown \in [Clients -> [Keys -> Nat]]
  BY DEF Shape, BrowserShape
<1>2. Latest(c) \in [Keys -> Nat]
  BY <1>1, WireFacts DEF Latest
<1>3. ASSUME NEW m \in [Keys -> Nat], wire'[c] = Append(wire[c], m) PROVE Latest(c)' = m
  <2>1. Append(wire[c], m) # << >> /\ Append(wire[c], m)[Len(Append(wire[c], m))] = m
    BY <1>1, WireFacts
  <2> QED BY <1>3, <2>1, Zenon DEF Latest
<1>4. ASSUME Show(c) PROVE Latest(c)' = Latest(c)
  <2>1. wire[c] # << >> /\ wire'[c] = Tail(wire[c]) /\ shown'[c] = Head(wire[c])
    BY <1>1, <1>4 DEF Show
  <2>2. /\ Tail(wire[c]) = << >> => Head(wire[c]) = wire[c][Len(wire[c])]
        /\ Tail(wire[c]) # << >> => Tail(wire[c])[Len(Tail(wire[c]))] = wire[c][Len(wire[c])]
    BY <1>1, <1>2, <2>1, WireFacts
  <2> QED BY <2>1, <2>2, Zenon DEF Latest
<1> QED BY <1>2, <1>3, <1>4 DEF Latest

\* Every step keeps Right.
LEMMA RightStep == FeedInv /\ [Next]_vars => Right'
<1> SUFFICES ASSUME FeedInv, [Next]_vars, serving', registry' = Loader, Changed' = {}
             PROVE  /\ "cache" \notin tainted' => Shows(cache)'
                    /\ \A c \in Clients \ tainted' :
                         /\ stage'[c] = "asks" => got'[c] = content'[Loader]
                         /\ stage'[c] \in {"subscribe", "live"} => Shows(Latest(c))'
  BY DEF Right
<1> DEFINE Goal == /\ "cache" \notin tainted' => Shows(cache)'
                   /\ \A c \in Clients \ tainted' :
                        /\ stage'[c] = "asks" => got'[c] = content'[Loader]
                        /\ stage'[c] \in {"subscribe", "live"} => Shows(Latest(c))'
<1> USE DEF Keys
<1>0. /\ pc \in [Requests -> {"idle", "create", "done"} \cup Working]
      /\ held \in [Requests -> Nat] /\ cache \in [Keys -> Nat]
      /\ got \in [Clients -> Nat]
      /\ stage \in [Clients -> {"none", "subscribe", "live"} \cup Keys]
      /\ wire \in [Clients -> Seq([Keys -> Nat])]
      /\ "cache" \notin Clients /\ Loader \notin Requests
  BY FeedAssumption DEF FeedInv, Shape, RequestShape, BrowserShape
<1>1. ASSUME serving, registry = Loader, Changed = {}
      PROVE  /\ "cache" \notin tainted => Shows(cache)
             /\ \A c \in Clients \ tainted :
                  /\ stage[c] = "asks" => got[c] = content[Loader] /\ "cache" \notin tainted
                  /\ stage[c] \in {"subscribe", "live"} => Shows(Latest(c))
  BY <1>1 DEF FeedInv, Right, Together
<1>2. ASSUME UNCHANGED <<serving, registry, content, cache, stage, got, wire, shown, tainted>>,
             Changed = {}
      PROVE  Goal
  <2>1. serving /\ registry = Loader
    BY <1>2
  <2>2. \A c \in Clients : Latest(c)' = Latest(c)
    BY <1>2 DEF Latest
  <2> QED BY <1>1, <1>2, <2>1, <2>2 DEF Shows
<1>3. ASSUME NEW r \in Requests, Lookup(r) PROVE Goal
  <2>1. Changed = {}
    BY <1>0, <1>3 DEF Lookup, Changed
  <2> QED BY <1>2, <1>3, <2>1 DEF Lookup, books, outside, browser, handler
<1>4. ASSUME NEW r \in Requests, StoreBook(r) PROVE Goal
  BY <1>0, <1>4 DEF StoreBook
<1>5. ASSUME NEW r \in Requests, ChangeBook(r) \/ TakeSnapshot(r) \/ (\E k \in Keys : Set(r, k))
      PROVE  Goal
  <2>1. pc'[r] \in {"snapshot", "bids", "asks", "publish"}
    BY <1>0, <1>5 DEF ChangeBook, TakeSnapshot, Set
  <2> QED BY <2>1 DEF Changed
<1>6. ASSUME NEW r \in Requests, GiveUp(r) PROVE Goal
  BY <1>6 DEF GiveUp, Everyone
<1>7. ASSUME NEW r \in Requests, Publish(r) PROVE Goal
  <2>1. /\ pc[r] = "publish" /\ pc' = [pc EXCEPT ![r] = "done"]
        /\ UNCHANGED <<serving, registry, content, held, overlapped, cache, stage, got>>
    BY <1>7 DEF Publish, books, handler
  <2>2. CASE r \in overlapped \cup failing'
    BY <1>7, <2>2 DEF Publish, Everyone
  <2>3. CASE r \notin overlapped \cup failing'
    <3>1. tainted' = Gap
      BY <1>7, <2>3 DEF Publish
    <3>2. wire' = [c \in Clients |-> IF c \in Listening
                                     THEN Received(c, [k \in Keys |-> held[r]]) ELSE wire[c]]
          /\ failing' = failing
      BY <1>7, <2>3 DEF Publish, CallFails
    <3>3. r \in Updating \ overlapped
      BY <2>1, <2>3 DEF Updating
    <3>4. \A q \in Requests : pc[q] # "snapshot"
      <4>1. \A q \in Requests : pc[q] = "snapshot" => pc'[q] = "snapshot"
        BY <1>0, <2>1
      <4> QED BY <4>1 DEF Changed
    <3>5. held[r] = content[Loader] /\ \A k \in Keys : cache[k] = held[r]
      BY <2>1, <2>3, <3>2, <3>3, <3>4 DEF FeedInv, Alone
    <3>6. ASSUME NEW c \in Clients, c \notin Gap, stage[c] \in {"asks", "subscribe", "live"}
          PROVE  stage[c] = "live" /\ Shows(Latest(c))'
      <4>1. c \in Listening
        BY <3>6 DEF Gap, Listening
      <4>2. [k \in Keys |-> held[r]] \in [Keys -> Nat]
        BY <1>0
      <4>3. wire'[c] = Append(wire[c], [k \in Keys |-> held[r]])
        BY <3>2, <4>1 DEF Received
      <4>4. Latest(c)' = [k \in Keys |-> held[r]]
        BY <4>2, <4>3, LatestFacts DEF FeedInv
      <4> QED BY <2>1, <3>5, <4>1, <4>4 DEF Shows, Listening
    <3> QED BY <2>1, <3>1, <3>5, <3>6 DEF Shows
  <2> QED BY <2>2, <2>3
<1>8. ASSUME NEW c \in Clients, Handler(c) PROVE Goal
  <2>1. /\ UNCHANGED <<serving, registry, content, pc, cache, shown>>
        /\ "cache" \in tainted' <=> "cache" \in tainted
        /\ \A x \in Clients \ {c} : /\ stage'[x] = stage[x] /\ got'[x] = got[x]
                                    /\ wire'[x] = wire[x]
                                    /\ x \in tainted' <=> x \in tainted
    BY <1>0, <1>8 DEF Handler, ReadBids, ReadAsks, ReadFails, Subscribe, server, books, request,
       browser
  <2>2. serving /\ registry = Loader /\ Changed = {}
    BY <2>1 DEF Changed
  <2>3. "cache" \notin tainted' => Shows(cache)'
    BY <1>1, <2>1, <2>2 DEF Shows
  <2>4. ASSUME NEW x \in Clients \ tainted', x # c
        PROVE  /\ stage'[x] = "asks" => got'[x] = content'[Loader]
               /\ stage'[x] \in {"subscribe", "live"} => Shows(Latest(x))'
    <3>1. Latest(x)' = Latest(x)
      BY <2>1, <2>4 DEF Latest
    <3> QED BY <1>1, <2>1, <2>2, <2>4, <3>1 DEF Shows
  <2>5. ASSUME c \notin tainted'
        PROVE  /\ stage'[c] = "asks" => got'[c] = content'[Loader]
               /\ stage'[c] \in {"subscribe", "live"} => Shows(Latest(c))'
    <3>1. CASE ReadBids(c)
      <4>1. /\ stage'[c] = "asks" /\ got'[c] = cache["bids"] /\ "cache" \notin tainted
        BY <1>0, <2>5, <3>1 DEF ReadBids
      <4> QED BY <1>1, <2>1, <2>2, <4>1 DEF Shows
    <3>2. CASE ReadAsks(c)
      <4> DEFINE m == [cache EXCEPT !["bids"] = got[c]]
      <4>1. /\ stage[c] = "asks" /\ stage'[c] = "subscribe" /\ c \notin tainted
            /\ wire'[c] = Append(wire[c], m)
        BY <1>0, <2>5, <3>2 DEF ReadAsks
      <4>2. m \in [Keys -> Nat] /\ m["bids"] = got[c] /\ m["asks"] = cache["asks"]
        BY <1>0
      <4>3. got[c] = content[Loader] /\ Shows(cache)
        BY <1>1, <2>2, <4>1
      <4>4. \A k \in Keys : m[k] = content[Loader]
        BY <4>2, <4>3 DEF Shows
      <4> HIDE DEF m
      <4>5. Latest(c)' = m
        BY <4>1, <4>2, LatestFacts DEF FeedInv
      <4> QED BY <2>1, <4>1, <4>4, <4>5 DEF Shows
    <3>3. CASE ReadFails(c)
      BY <2>5, <3>3 DEF ReadFails
    <3>4. CASE Subscribe(c)
      <4>1. stage[c] = "subscribe" /\ stage'[c] = "live" /\ c \notin tainted
            /\ UNCHANGED <<wire, shown>>
        BY <1>0, <2>1, <2>5, <3>4 DEF Subscribe
      <4>2. Latest(c)' = Latest(c)
        BY <4>1 DEF Latest
      <4> QED BY <1>1, <2>1, <2>2, <4>1, <4>2 DEF Shows
    <3> QED BY <1>8, <3>1, <3>2, <3>3, <3>4 DEF Handler
  <2> QED BY <2>3, <2>4, <2>5
<1>9. ASSUME NEW c \in Clients, Mount(c) \/ Unmount(c) \/ Drop(c) \/ Hook(c) \/ Show(c)
      PROVE  Goal
  <2>1. /\ UNCHANGED <<serving, registry, content, pc, cache, got, tainted>>
        /\ \A x \in Clients : \/ stage'[x] \in {"none", "bids"}
                              \/ stage'[x] = stage[x] /\ wire'[x] = wire[x] /\ shown'[x] = shown[x]
                              \/ x = c /\ Show(c) /\ stage'[x] = stage[x]
    <3>1. UNCHANGED <<serving, registry, content, pc, cache, got, tainted>>
      BY <1>9 DEF Mount, Unmount, Drop, Hook, Open, Closed, Reconnect, Show, HandlersEnd, server,
         books, request, handler
    <3>2. shown \in [Clients -> [Keys -> Nat]]
      BY DEF FeedInv, Shape, BrowserShape
    <3> QED BY <1>0, <1>9, <3>1, <3>2 DEF Mount, Unmount, Drop, Hook, Open, Closed, Reconnect, Show,
               HandlersEnd, handler
  <2>2. serving /\ registry = Loader /\ Changed = {}
    BY <2>1 DEF Changed
  <2>3. ASSUME NEW x \in Clients, stage'[x] \notin {"none", "bids"}
        PROVE  Latest(x)' = Latest(x) /\ stage'[x] = stage[x]
    <3>1. CASE wire'[x] = wire[x] /\ shown'[x] = shown[x] /\ stage'[x] = stage[x]
      BY <3>1 DEF Latest
    <3>2. CASE x = c /\ Show(c) /\ stage'[x] = stage[x]
      BY <3>2, LatestFacts DEF FeedInv
    <3> QED BY <2>1, <2>3, <3>1, <3>2
  <2> QED BY <1>1, <2>1, <2>2, <2>3 DEF Shows
<1>10. CASE Crash
  BY <1>10 DEF Crash
<1>11. CASE Start
  BY <1>11 DEF Start, Everyone
<1>12. CASE UNCHANGED vars
  <2>1. Changed = {}
    BY <1>12 DEF vars, Changed
  <2> QED BY <1>2, <1>12, <2>1 DEF vars
<1>13. ASSUME NEW r \in Requests, ReadBook(r) PROVE Goal
  <2>1. Changed = {}
    BY <1>0, <1>13 DEF ReadBook, Changed
  <2> QED BY <1>2, <1>13, <2>1 DEF ReadBook, books, outside, browser, handler
<1> QED BY <1>3, <1>4, <1>5, <1>6, <1>7, <1>8, <1>9, <1>10, <1>11, <1>12, <1>13 DEF Next, Update

--------------------------------------------------------------------------------
(***************************************************************************)
(* Theorems.                                                               *)
(***************************************************************************)

\* Before the first request everything shows the empty book.
LEMMA FeedInit == Init => FeedInv
<1> SUFFICES ASSUME Init PROVE FeedInv
  OBVIOUS
<1>0. /\ MaxFaults \in Nat /\ Loader \in Books /\ << >> \in Seq([Keys -> Nat])
      /\ Loader # NoBook
  BY FeedAssumption, EmptySeq DEF Books
<1>1. BookShape
  BY <1>0 DEF Init, BookShape, Newest
<1>2. RequestShape
  BY <1>0 DEF Init, RequestShape, Working, Keys
<1>3. BrowserShape
  BY <1>0 DEF Init, BrowserShape, Keys
<1>4. Registered /\ Alone /\ Together
  BY DEF Init, Registered, Working, Keys, Alone, Updating, Together
<1>5. Right
  BY <1>0 DEF Init, Right, Shows
<1> QED BY <1>1, <1>2, <1>3, <1>4, <1>5 DEF FeedInv, Shape

\* The inductive invariant, for any requests, browsers and faults.
THEOREM FeedInvariant == Spec => []FeedInv
<1>1. FeedInv /\ [Next]_vars => FeedInv'
  BY ShapeStep, RegisteredStep, AloneStep, RightStep, TogetherStep DEF FeedInv
<1> QED BY <1>1, FeedInit, PTL DEF Spec

\* Types.
THEOREM FeedTypes == Spec => []FeedTypeOK
<1>1. FeedInv => FeedTypeOK
  <2> SUFFICES ASSUME FeedInv PROVE FeedTypeOK
    OBVIOUS
  <2>1. \A r \in Requests : pc[r] \in {"snapshot", "publish"} \cup Keys => mine[r] # NoBook
    BY FeedAssumption DEF FeedInv, Shape, RequestShape, Working, Books
  <2> QED BY <2>1 DEF FeedInv, Shape, BookShape, RequestShape, BrowserShape, FeedTypeOK
<1> QED BY <1>1, FeedInvariant, PTL

\* Stale caches and screens come from the races and failures StaleOnlyByRace names, from
\* nothing else, and not beyond the next update that is spared them.
THEOREM StaleOnlyThen == Spec => []StaleOnlyByRace
<1>1. FeedInv => StaleOnlyByRace
  <2> SUFFICES ASSUME FeedInv, Quiet, registry = Loader
               PROVE  /\ "cache" \notin tainted => Shows(cache)
                      /\ \A c \in Watching \ tainted : Shows(shown[c])
    BY DEF StaleOnlyByRace
  <2>1. serving /\ Changed = {}
    BY DEF Quiet, Changed, Keys
  <2>2. \A c \in Watching : c \in Clients /\ stage[c] = "live" /\ Latest(c) = shown[c]
    BY DEF Watching, Listening, Latest
  <2> QED BY <2>1, <2>2 DEF FeedInv, Right
<1> QED BY <1>1, FeedInvariant, PTL

\* One book per pair, once LoadOpenOrders has made it.
THEOREM OneBook == Spec => LoadedBookStays
<1>1. ASSUME FeedInv, [Next]_vars PROVE [registry = Loader /\ serving' => registry' = Loader]_vars
  <2>1. ASSUME NEW r \in Requests, StoreBook(r) PROVE registry # Loader
    BY <1>1, <2>1 DEF StoreBook, FeedInv, Registered
  <2>2. CASE Start
    BY <1>1, <2>2, FeedAssumption DEF Start, FeedInv, Registered
  <2>3. ASSUME NEW r \in Requests,
               Lookup(r) \/ ChangeBook(r) \/ ReadBook(r) \/ GiveUp(r) \/ Update(r)
        PROVE  registry' = registry
    BY <2>3 DEF Lookup, ChangeBook, ReadBook, GiveUp, Update, TakeSnapshot, Set, Publish, books
  <2>4. CASE Crash
    BY <2>4 DEF Crash
  <2> QED BY <1>1, <2>1, <2>2, <2>3, <2>4, ServerAlone DEF Next
<1> QED BY <1>1, FeedInvariant, PTL DEF Spec, LoadedBookStays
================================================================================
