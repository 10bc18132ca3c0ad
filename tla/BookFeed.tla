-------------------------------- MODULE BookFeed -------------------------------
(***************************************************************************)
(* How a change of one pair's book reaches the browsers: updateCache and   *)
(* GetOrCreateOrderBook of order_service.go, the keys and the channel of   *)
(* repository/redis/orderbook_cache.go, handler/ws_handler.go and the      *)
(* frontend's useWebSocket.ts.                                             *)
(*                                                                         *)
(* What a book contains is a stamp, renewed by every change.  A snapshot   *)
(* in the cache, on the channel or on a screen is a pair of stamps, as its *)
(* bids and asks are stored under two keys.  A step is one call to Redis,  *)
(* one acquisition of ob.mu, one access to the map of books or one event   *)
(* in a browser.                                                           *)
(***************************************************************************)
EXTENDS Integers, Sequences

CONSTANTS
  Requests,     \* POSTs and DELETEs, which change the book once, and GETs of the book.
  Clients,      \* Browsers, with one WebSocket hook each.
  Loader,       \* The book LoadOpenOrders creates; other books are named by a request.
  NoBook,
  MaxFaults     \* Bound on failing calls, lost connections and crashes.

ASSUME FeedAssumption ==
  /\ Loader # NoBook /\ {Loader, NoBook} \cap Requests = {}
  /\ "cache" \notin Clients
  /\ MaxFaults \in Nat

Books == Requests \cup {Loader}
Keys  == {"bids", "asks"}

VARIABLES
  serving,     \* The server runs.
  registry,    \* The entry of s.orderbooks for the pair.
  content,     \* Books -> stamp.
  pc,          \* Requests -> where it is.
  mine,        \* Requests -> the book it works on.
  held,        \* Requests -> the stamp of the snapshot it took.
  cache,       \* Redis: Keys -> stamp.
  hook,        \* Clients -> state of the hook and of its socket.
  mounted,     \* Clients whose component is on the page.
  stage,       \* Clients -> where the handler of its socket is.
  got,         \* Clients -> the bids its handler read.
  wire,        \* Clients -> snapshots between Redis and the browser, in order.
  shown,       \* Clients -> the snapshot on the screen.
  faults,
  failing,     \* Requests that lost Redis or whose client hung up.
  overlapped,  \* History: requests whose updateCache ran beside another.
  tainted      \* History: clients, and "cache", which may show an old book.

vars == <<serving, registry, content, pc, mine, held, cache, hook, mounted, stage, got, wire,
          shown, faults, failing, overlapped, tainted>>
books   == <<registry, content>>
request == <<pc, mine, held, failing, overlapped>>
browser == <<hook, mounted, shown>>
handler == <<stage, got>>
server  == <<serving, books, request, cache>>
outside == <<cache, browser, handler, wire>>

Everyone == Clients \cup {"cache"}

\* Handlers that have begun to read the cache and do not listen to the channel yet.
Gap       == { c \in Clients : stage[c] \in {"asks", "subscribe"} }
Listening == { c \in Clients : stage[c] = "live" }

\* Requests between GetSnapshot and the end of updateCache.
Updating == { r \in Requests : pc[r] \in Keys \cup {"publish"} }
Newest(b) == \A a \in Books : content[a] <= content[b]
Stamp     == 1 + content[CHOOSE b \in Books : Newest(b)]

Init ==
  /\ serving = TRUE
  /\ registry \in {Loader, NoBook}
  /\ content = [b \in Books |-> 0]
  /\ pc = [r \in Requests |-> "idle"]
  /\ mine = [r \in Requests |-> NoBook]
  /\ held = [r \in Requests |-> 0]
  /\ cache = [k \in Keys |-> 0]
  /\ hook = [c \in Clients |-> "unmounted"] /\ mounted = {}
  /\ stage = [c \in Clients |-> "none"]
  /\ got = [c \in Clients |-> 0]
  /\ wire = [c \in Clients |-> << >>]
  /\ shown = [c \in Clients |-> [k \in Keys |-> 0]]
  /\ faults = 0 /\ failing = {} /\ overlapped = {} /\ tainted = {}

Fault == faults < MaxFaults /\ faults' = faults + 1

--------------------------------------------------------------------------------
(***************************************************************************)
(* SubmitOrder, CancelOrder and GetOrderbook, as far as the feed sees them.*)
(***************************************************************************)

\* Mutation of Found: the map is not asked.
NeverFound == FALSE

Found == registry # NoBook

\* GetOrCreateOrderBook reads the map, which nothing guards ...
Lookup(r) ==
  /\ serving /\ pc[r] = "idle"
  /\ IF Found THEN /\ mine' = [mine EXCEPT ![r] = registry]
                   /\ pc' = [pc EXCEPT ![r] = "change"]
              ELSE pc' = [pc EXCEPT ![r] = "create"] /\ UNCHANGED mine
  /\ UNCHANGED <<serving, books, held, failing, overlapped, outside, faults, tainted>>

\* ... and stores a new book if there was none, maybe over another's.
StoreBook(r) ==
  /\ pc[r] = "create"
  /\ registry' = r
  /\ mine' = [mine EXCEPT ![r] = r]
  /\ pc' = [pc EXCEPT ![r] = "change"]
  /\ UNCHANGED <<serving, content, held, failing, overlapped, outside, faults, tainted>>

\* AddOrder or CancelOrder, under ob.mu.
ChangeBook(r) ==
  /\ pc[r] = "change"
  /\ content' = [content EXCEPT ![mine[r]] = Stamp]
  /\ pc' = [pc EXCEPT ![r] = "snapshot"]
  /\ UNCHANGED <<serving, registry, mine, held, failing, overlapped, outside, faults, tainted>>

\* GetOrderbook only takes a snapshot, which its answer shows once.  So does, to the feed,
\* a POST whose AddOrder panics.
ReadBook(r) ==
  /\ pc[r] = "change"
  /\ pc' = [pc EXCEPT ![r] = "done"]
  /\ UNCHANGED <<serving, books, mine, held, failing, overlapped, outside, faults, tainted>>

\* CancelOrder returns without updateCache if its UPDATE fails.
GiveUp(r) ==
  /\ pc[r] = "snapshot" /\ Fault
  /\ pc' = [pc EXCEPT ![r] = "done"]
  /\ tainted' = Everyone /\ overlapped' = overlapped \cup Updating
  /\ UNCHANGED <<serving, books, mine, held, failing, outside>>

\* book.GetSnapshot, under ob.mu.RLock.
TakeSnapshot(r) ==
  /\ pc[r] = "snapshot"
  /\ held' = [held EXCEPT ![r] = content[mine[r]]]
  /\ pc' = [pc EXCEPT ![r] = "bids"]
  /\ overlapped' = IF Updating = {} THEN overlapped ELSE overlapped \cup Updating \cup {r}
  /\ UNCHANGED <<serving, books, mine, failing, outside, faults, tainted>>

\* A call of r to Redis fails.  When the client hung up, the later ones fail as well.
CallFails(r) ==
  /\ IF r \in failing THEN UNCHANGED faults ELSE Fault
  /\ failing' = failing \cup {r}

\* The two SETs of SetSnapshot's pipeline.  Whatever they answer, the update is published.
Set(r, k) ==
  /\ pc[r] = k
  /\ pc' = [pc EXCEPT ![r] = IF k = "bids" THEN "asks" ELSE "publish"]
  /\ \/ cache' = [cache EXCEPT ![k] = held[r]] /\ UNCHANGED <<failing, faults>>
     \/ CallFails(r) /\ UNCHANGED cache
  /\ UNCHANGED <<serving, books, mine, held, overlapped, browser, handler, wire, tainted>>

\* Mutation of Received: a message is dropped while another is on its way.
ReceivedUnlessBusy(c, m) == IF wire[c] = << >> THEN <<m>> ELSE wire[c]

Received(c, m) == Append(wire[c], m)

\* PUBLISH reaches who is subscribed at that moment; some may miss it.  An update that ran
\* alone, and whose calls succeeded, puts right whatever was wrong before.
Publish(r) ==
  /\ pc[r] = "publish"
  /\ pc' = [pc EXCEPT ![r] = "done"]
  /\ \E to \in SUBSET Listening :
       /\ wire' = [c \in Clients |-> IF c \in to THEN Received(c, [k \in Keys |-> held[r]])
                                     ELSE wire[c]]
       /\ \/ to = Listening /\ UNCHANGED <<failing, faults>>
          \/ to # Listening /\ CallFails(r)
  /\ tainted' = IF r \in overlapped \cup failing' THEN Everyone ELSE Gap
  /\ UNCHANGED <<serving, books, mine, held, overlapped, cache, browser, handler>>

Update(r) == TakeSnapshot(r) \/ (\E k \in Keys : Set(r, k)) \/ Publish(r)

--------------------------------------------------------------------------------
(***************************************************************************)
(* The handler of /ws: first the snapshot, then the subscription.          *)
(***************************************************************************)

ReadBids(c) ==
  /\ stage[c] = "bids"
  /\ got' = [got EXCEPT ![c] = cache["bids"]]
  /\ stage' = [stage EXCEPT ![c] = "asks"]
  /\ tainted' = IF "cache" \in tainted THEN tainted \cup {c} ELSE tainted \ {c}
  /\ UNCHANGED <<server, browser, wire, faults>>

ReadAsks(c) ==
  /\ stage[c] = "asks"
  /\ wire' = [wire EXCEPT ![c] = Append(@, [cache EXCEPT !["bids"] = got[c]])]
  /\ stage' = [stage EXCEPT ![c] = "subscribe"]
  /\ UNCHANGED <<server, browser, got, faults, tainted>>

\* If a GET fails no snapshot is sent, and the handler goes on.
ReadFails(c) ==
  /\ stage[c] \in Keys /\ Fault
  /\ stage' = [stage EXCEPT ![c] = "subscribe"]
  /\ tainted' = tainted \cup {c}
  /\ UNCHANGED <<server, browser, got, wire>>

Subscribe(c) ==
  /\ stage[c] = "subscribe"
  /\ stage' = [stage EXCEPT ![c] = "live"]
  /\ UNCHANGED <<server, browser, got, wire, faults, tainted>>

\* Mutation of HandlersEnd: a handler outlives its socket.
HandlersLinger(cs) == wire' = [c \in Clients |-> IF c \in cs THEN << >> ELSE wire[c]] /\ UNCHANGED stage

\* The read pump or a failing write notices that the sockets of cs are closed.
HandlersEnd(cs) ==
  /\ stage' = [c \in Clients |-> IF c \in cs THEN "none" ELSE stage[c]]
  /\ wire'  = [c \in Clients |-> IF c \in cs THEN << >> ELSE wire[c]]

--------------------------------------------------------------------------------
(***************************************************************************)
(* useWebSocket.                                                           *)
(***************************************************************************)

\* Mutation of AfterClose: nobody reconnects.
StayClosed == "closed"

\* onclose sets a timer, whatever closed the socket.
AfterClose == "waiting"

Mount(c) ==
  /\ hook[c] = "unmounted" /\ c \notin mounted
  /\ mounted' = mounted \cup {c}
  /\ hook' = [hook EXCEPT ![c] = "connecting"]
  /\ UNCHANGED <<server, shown, handler, wire, faults, tainted>>

\* The effect's cleanup: clear the timer, close the socket.
Unmount(c) ==
  /\ c \in mounted
  /\ mounted' = mounted \ {c}
  /\ hook' = [hook EXCEPT ![c] = IF @ \in {"connecting", "open"} THEN "closing" ELSE "cleared"]
  /\ HandlersEnd({c})
  /\ UNCHANGED <<server, shown, got, faults, tainted>>

Open(c) ==
  /\ hook[c] = "connecting" /\ serving
  /\ hook' = [hook EXCEPT ![c] = "open"]
  /\ stage' = [stage EXCEPT ![c] = "bids"]
  /\ UNCHANGED <<server, mounted, shown, got, wire, faults, tainted>>

\* onclose, after a refused connection or a close() of ours.
Closed(c) ==
  /\ hook[c] = "closing" \/ (hook[c] = "connecting" /\ ~serving)
  /\ hook' = [hook EXCEPT ![c] = AfterClose]
  /\ UNCHANGED <<server, mounted, shown, handler, wire, faults, tainted>>

\* The connection breaks.
Drop(c) ==
  /\ hook[c] = "open" /\ Fault
  /\ hook' = [hook EXCEPT ![c] = AfterClose]
  /\ HandlersEnd({c})
  /\ UNCHANGED <<server, mounted, shown, got, tainted>>

\* The timer fires and calls connect; by then the socket is closed.
Reconnect(c) ==
  /\ hook[c] = "waiting"
  /\ hook' = [hook EXCEPT ![c] = "connecting"]
  /\ UNCHANGED <<server, mounted, shown, handler, wire, faults, tainted>>

\* onmessage, for a snapshot and for an update.
Show(c) ==
  /\ wire[c] # << >>
  /\ shown' = [shown EXCEPT ![c] = Head(wire[c])]
  /\ wire' = [wire EXCEPT ![c] = Tail(@)]
  /\ UNCHANGED <<server, hook, mounted, handler, faults, tainted>>

--------------------------------------------------------------------------------
\* The server dies; Redis and the browsers do not.
Crash ==
  /\ serving /\ serving' = FALSE /\ Fault
  /\ registry' = NoBook
  /\ pc' = [r \in Requests |-> IF pc[r] = "idle" THEN "idle" ELSE "done"]
  /\ mine' = [r \in Requests |-> NoBook]
  /\ hook' = [c \in Clients |-> IF hook[c] = "open" THEN AfterClose ELSE hook[c]]
  /\ HandlersEnd(Clients)
  /\ UNCHANGED <<content, held, cache, mounted, got, shown, failing, overlapped, tainted>>

\* LoadOpenOrders creates the book unless its SELECT fails, and tells Redis nothing.
Start ==
  /\ ~serving /\ serving' = TRUE
  /\ registry' \in {Loader, NoBook}
  /\ content' = [content EXCEPT ![Loader] = Stamp]
  /\ tainted' = Everyone
  /\ UNCHANGED <<request, outside, faults>>

Handler(c) == ReadBids(c) \/ ReadAsks(c) \/ ReadFails(c) \/ Subscribe(c)
Hook(c)    == Open(c) \/ Closed(c) \/ Reconnect(c)

Next ==
  \/ \E r \in Requests : \/ Lookup(r) \/ StoreBook(r) \/ ChangeBook(r) \/ ReadBook(r)
                         \/ GiveUp(r) \/ Update(r)
  \/ \E c \in Clients : Mount(c) \/ Unmount(c) \/ Drop(c) \/ Hook(c) \/ Handler(c) \/ Show(c)
  \/ Crash
  \/ Start

\* A socket that is connecting opens or is refused, timers fire, handlers run on and
\* somebody starts the server again.  Nothing has to fail.
Fairness ==
  /\ \A c \in Clients : WF_vars(Hook(c)) /\ WF_vars(Handler(c)) /\ WF_vars(Show(c))
  /\ WF_vars(Start)

Spec == Init /\ [][Next]_vars /\ Fairness

--------------------------------------------------------------------------------
(***************************************************************************)
(* Properties.                                                             *)
(***************************************************************************)

\* Types; a handler runs exactly while its socket is open, and only for an open socket is
\* anything on the wire.
FeedTypeOK ==
  /\ serving \in BOOLEAN /\ registry \in Books \cup {NoBook}
  /\ content \in [Books -> Nat] /\ held \in [Requests -> Nat]
  /\ cache \in [Keys -> Nat] /\ shown \in [Clients -> [Keys -> Nat]]
  /\ tainted \subseteq Everyone /\ faults \in 0..MaxFaults
  /\ \A r \in Requests : pc[r] \in {"snapshot", "publish"} \cup Keys => mine[r] # NoBook
  /\ \A c \in Clients : (hook[c] = "open") <=> (stage[c] # "none")
  /\ \A c \in Clients : wire[c] # << >> => hook[c] = "open"

Quiet     == serving /\ \A r \in Requests : pc[r] \in {"idle", "done"}
Watching  == { c \in Listening : wire[c] = << >> }
Shows(s)  == \A k \in Keys : s[k] = content[Loader]

\* Where the server found its book at start-up, a screen shows an old book only because two
\* updateCaches overlapped, an update fell between a handler's read of the cache and its
\* subscription, a call to Redis failed or the server restarted, and only until the next
\* update that none of this happens to.  The same holds of the cache.
\* (order_service.go:164-168,219-241, orderbook_cache.go:35-39, ws_handler.go:37-53)
StaleOnlyByRace ==
  Quiet /\ registry = Loader =>
    /\ "cache" \notin tainted => Shows(cache)
    /\ \A c \in Watching \ tainted : Shows(shown[c])

\* The book made at start-up stays the pair's book: requests that find the map's entry
\* never put another in its place, so all of them match and cancel in one book.
\* (order_service.go:47-54,205-217, main.go:105-108)
LoadedBookStays == [][registry = Loader /\ serving' => registry' = Loader]_vars

\* A mounted page gets its feed back: however often connections break and the server
\* dies, finitely often, its socket is open and subscribed again.
\* (useWebSocket.ts:17-62, ws_handler.go:27-88)
Reconnects == \A c \in Clients : c \in mounted ~> stage[c] = "live" \/ c \notin mounted
================================================================================
