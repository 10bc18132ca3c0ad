----------------------------- MODULE Indexer_proofs ----------------------------
(***************************************************************************)
(* Theorems about Indexer, for every length of the chain and every number  *)
(* of faults: its types, and that the handler gets each event once.        *)
(***************************************************************************)
EXTENDS Indexer, TLAPS

\* A sequence holds the values at its positions.
LEMMA ToSetFacts ==
  ASSUME NEW S, NEW s \in Seq(S)
  PROVE  /\ ToSet(s) = { s[i] : i \in 1..Len(s) } /\ Len(s) \in Nat
         /\ \A i \in 1..Len(s) : s[i] \in S
BY DEF ToSet

\* The empty sequence holds none.
LEMMA EmptySet ==
  ASSUME NEW S, NEW s \in Seq(S), Len(s) = 0
  PROVE  ToSet(s) = {}
<1>1. ToSet(s) = { s[i] : i \in 1..Len(s) }
  BY ToSetFacts
<1>2. 1..Len(s) = {}
  OBVIOUS
<1> QED BY <1>1, <1>2

\* An array is a sequence.
LEMMA ArrayIsSequence ==
  ASSUME NEW S, NEW n \in Nat, NEW f \in [1..n -> S]
  PROVE  f \in Seq(S) /\ Len(f) = n
OBVIOUS

\* What stands where in a concatenation.
LEMMA ConcatFacts ==
  ASSUME NEW S, NEW s \in Seq(S), NEW t \in Seq(S)
  PROVE  /\ s \o t \in Seq(S) /\ Len(s \o t) = Len(s) + Len(t)
         /\ \A i \in 1..Len(s) : (s \o t)[i] = s[i]
         /\ \A i \in 1..Len(t) : (s \o t)[Len(s) + i] = t[i]
OBVIOUS

\* Appending adds one value.
LEMMA AppendSet ==
  ASSUME NEW S, NEW s \in Seq(S), NEW x \in S
  PROVE  ToSet(Append(s, x)) = ToSet(s) \cup {x}
<1> DEFINE t == Append(s, x)
<1>1. /\ t \in Seq(S) /\ Len(t) = Len(s) + 1 /\ t[Len(s) + 1] = x /\ Len(s) \in Nat
      /\ \A i \in 1..Len(s) : t[i] = s[i]
  OBVIOUS
<1> HIDE DEF t
<1>2. ToSet(t) = { t[i] : i \in 1..(Len(s) + 1) } /\ ToSet(s) = { s[i] : i \in 1..Len(s) }
  BY <1>1, ToSetFacts
<1>3. \A y : y \in ToSet(t) => y \in ToSet(s) \cup {x}
  BY <1>1, <1>2
<1>4. \A y : y \in ToSet(s) \cup {x} => y \in ToSet(t)
  BY <1>1, <1>2
<1> QED BY <1>3, <1>4 DEF t

\* A sequence holds its head and what its tail holds.
LEMMA HeadTailSet ==
  ASSUME NEW S, NEW s \in Seq(S), s # << >>
  PROVE  /\ Head(s) \in S /\ Tail(s) \in Seq(S)
         /\ ToSet(s) = {Head(s)} \cup ToSet(Tail(s))
<1> DEFINE t == Tail(s)
<1>1. /\ t \in Seq(S) /\ Len(s) \in Nat \ {0} /\ Len(t) = Len(s) - 1
      /\ Head(s) = s[1] /\ s[1] \in S
      /\ \A i \in 1..Len(t) : t[i] = s[i + 1]
  OBVIOUS
<1> HIDE DEF t
<1>2. ToSet(s) = { s[i] : i \in 1..Len(s) } /\ ToSet(t) = { t[i] : i \in 1..Len(t) }
  BY <1>1, ToSetFacts
<1>3. ASSUME NEW y \in ToSet(s) PROVE y \in {Head(s)} \cup ToSet(t)
  <2>1. PICK i \in 1..Len(s) : y = s[i]
    BY <1>2
  <2>2. CASE i = 1
    BY <1>1, <2>1, <2>2
  <2>3. CASE i # 1
    <3>1. i - 1 \in 1..Len(t) /\ t[i - 1] = s[i]
      BY <1>1, <2>1, <2>3
    <3> QED BY <1>2, <2>1, <3>1
  <2> QED BY <2>2, <2>3
<1>4. ASSUME NEW y \in {Head(s)} \cup ToSet(t) PROVE y \in ToSet(s)
  BY <1>1, <1>2
<1> QED BY <1>1, <1>3, <1>4 DEF t

--------------------------------------------------------------------------------
\* The logs of the blocks m to n are theirs, in the order of the blocks.
LEMMA LogsOfFacts ==
  ASSUME chain \in Seq(Events), NEW m \in Nat, m > 0, NEW n \in Nat, n <= Len(chain), m <= n + 1
  PROVE  /\ LogsOf(m, n) \in Seq(Log)
         /\ Len(LogsOf(m, n)) = n + 1 - m
         /\ \A i \in 1..(n + 1 - m) :
              LogsOf(m, n)[i] = [block |-> m + i - 1, event |-> chain[m + i - 1]]
         /\ ToSet(LogsOf(m, n)) = { [block |-> k, event |-> chain[k]] : k \in m..n }
         /\ InOrder(LogsOf(m, n))
<1> DEFINE s == LogsOf(m, n)
           z == n + 1 - m
<1>1. z \in Nat /\ s = [i \in 1..z |-> [block |-> m + i - 1, event |-> chain[m + i - 1]]]
  BY DEF LogsOf
<1>2. ASSUME NEW i \in 1..z
      PROVE  m + i - 1 \in m..n /\ [block |-> m + i - 1, event |-> chain[m + i - 1]] \in Log
  <2>1. m + i - 1 \in 1..Len(chain) /\ m + i - 1 \in m..n /\ m + i - 1 \in Nat
    BY <1>2
  <2> QED BY <2>1 DEF Log
<1>3. s \in Seq(Log) /\ Len(s) = z
  <2>1. \A i \in 1..z : [block |-> m + i - 1, event |-> chain[m + i - 1]] \in Log
    BY <1>2
  <2>2. s \in [1..z -> Log]
    BY <1>1, <2>1
  <2>3. z \in Nat
    BY <1>1
  <2> HIDE DEF s, z
  <2> QED BY <2>2, <2>3, ArrayIsSequence
<1>4. \A i \in 1..z : s[i] = [block |-> m + i - 1, event |-> chain[m + i - 1]]
  BY <1>1
<1> HIDE DEF s
<1>5. ToSet(s) = { s[i] : i \in 1..z }
  BY <1>3, ToSetFacts
<1>6. ASSUME NEW k \in m..n
      PROVE  [block |-> k, event |-> chain[k]] \in ToSet(s)
  <2>1. k + 1 - m \in 1..z /\ m + (k + 1 - m) - 1 = k
    OBVIOUS
  <2> QED BY <1>4, <1>5, <2>1
<1>7. ToSet(s) = { [block |-> k, event |-> chain[k]] : k \in m..n }
  <2>1. ASSUME NEW y \in ToSet(s)
        PROVE  y \in { [block |-> k, event |-> chain[k]] : k \in m..n }
    <3>1. PICK i \in 1..z : y = s[i]
      BY <1>5
    <3>2. y = [block |-> m + i - 1, event |-> chain[m + i - 1]] /\ m + i - 1 \in m..n
      BY <1>2, <1>4, <3>1
    <3> QED BY <3>2
  <2> QED BY <1>6, <2>1
<1>8. InOrder(s)
  <2> SUFFICES ASSUME NEW i \in 1..z, NEW j \in 1..z, i < j PROVE s[i].block < s[j].block
    BY <1>3 DEF InOrder
  <2>1. s[i] = [block |-> m + i - 1, event |-> chain[m + i - 1]]
    BY <1>4
  <2>2. s[j] = [block |-> m + j - 1, event |-> chain[m + j - 1]]
    BY <1>4
  <2> QED BY <2>1, <2>2
<1> QED BY <1>1, <1>3, <1>4, <1>7, <1>8 DEF s


\* Reading on from block l to block c adds the logs of the blocks after l, in order.
LEMMA ReadOn ==
  ASSUME chain \in Seq(Events), NEW l \in Nat, NEW c \in Nat, l <= c, c <= Len(chain)
  PROVE  /\ LogsOf(l + 1, c) \in Seq(Log) /\ InOrder(LogsOf(l + 1, c))
         /\ ToSet(LogsOf(1, c)) = ToSet(LogsOf(1, l)) \cup ToSet(LogsOf(l + 1, c))
         /\ \A y \in ToSet(LogsOf(1, l)) : y.block <= l
         /\ \A y \in ToSet(LogsOf(l + 1, c)) : y.block > l
         /\ l = 0 => ToSet(LogsOf(1, l)) = {}
<1>1. PICK m \in Nat : m = l + 1 /\ m > 0 /\ m <= c + 1
  OBVIOUS
<1>2. /\ LogsOf(m, c) \in Seq(Log) /\ InOrder(LogsOf(m, c))
      /\ ToSet(LogsOf(m, c)) = { [block |-> k, event |-> chain[k]] : k \in m..c }
  BY <1>1, LogsOfFacts
<1>3. PICK one \in Nat : one = 1 /\ one > 0 /\ one <= l + 1 /\ one <= c + 1 /\ l <= Len(chain)
  OBVIOUS
<1>4. /\ ToSet(LogsOf(one, l)) = { [block |-> k, event |-> chain[k]] : k \in one..l }
      /\ ToSet(LogsOf(one, c)) = { [block |-> k, event |-> chain[k]] : k \in one..c }
  BY <1>3, LogsOfFacts
<1>5. \A k : k \in 1..c <=> k \in 1..l \/ k \in m..c
  BY <1>1
<1>6. ToSet(LogsOf(1, c)) = ToSet(LogsOf(1, l)) \cup ToSet(LogsOf(m, c))
  BY <1>2, <1>3, <1>4, <1>5
<1>7. \A y \in ToSet(LogsOf(1, l)) : y.block <= l
  BY <1>3, <1>4
<1>8. \A y \in ToSet(LogsOf(m, c)) : y.block > l
  BY <1>1, <1>2
<1>9. l = 0 => ToSet(LogsOf(1, l)) = {}
  BY <1>3, <1>4
<1> QED BY <1>1, <1>2, <1>6, <1>7, <1>8, <1>9

\* Two stretches in order, the first up to block n and the second after it, are in order.
LEMMA InOrderConcat ==
  ASSUME NEW s \in Seq(Log), NEW t \in Seq(Log), InOrder(s), InOrder(t), NEW n \in Nat,
         \A i \in 1..Len(s) : s[i].block <= n, \A i \in 1..Len(t) : t[i].block > n
  PROVE  InOrder(s \o t)
<1>1. /\ Len(s) \in Nat /\ Len(t) \in Nat /\ Len(s \o t) = Len(s) + Len(t)
      /\ \A i \in 1..(Len(s) + Len(t)) :
           (s \o t)[i] = IF i <= Len(s) THEN s[i] ELSE t[i - Len(s)]
      /\ \A i \in 1..Len(s) : s[i].block \in Nat
      /\ \A i \in 1..Len(t) : t[i].block \in Nat
  <2>1. /\ Len(s) \in Nat /\ Len(t) \in Nat /\ Len(s \o t) = Len(s) + Len(t)
        /\ \A i \in 1..(Len(s) + Len(t)) :
             (s \o t)[i] = IF i <= Len(s) THEN s[i] ELSE t[i - Len(s)]
    OBVIOUS
  <2>2. \A l \in Log : l.block \in Nat
    BY DEF Log
  <2>3. \A i \in 1..Len(s) : s[i] \in Log
    OBVIOUS
  <2>4. \A i \in 1..Len(t) : t[i] \in Log
    OBVIOUS
  <2> QED BY <2>1, <2>2, <2>3, <2>4
<1> SUFFICES ASSUME NEW i \in 1..(Len(s) + Len(t)), NEW j \in 1..(Len(s) + Len(t)), i < j
             PROVE  (s \o t)[i].block < (s \o t)[j].block
  BY <1>1 DEF InOrder
<1>2. CASE j <= Len(s)
  <2>1. i \in 1..Len(s) /\ j \in 1..Len(s)
    BY <1>1, <1>2
  <2> QED BY <1>1, <1>2, <2>1 DEF InOrder
<1>3. CASE i > Len(s)
  <2>1. i - Len(s) \in 1..Len(t) /\ j - Len(s) \in 1..Len(t) /\ i - Len(s) < j - Len(s)
    BY <1>1, <1>3
  <2> QED BY <1>1, <1>3, <2>1 DEF InOrder
<1>4. CASE i <= Len(s) /\ j > Len(s)
  <2>1. i \in 1..Len(s) /\ j - Len(s) \in 1..Len(t)
    BY <1>1, <1>4
  <2>2. s[i].block <= n /\ t[j - Len(s)].block > n
    BY <2>1
  <2>3. s[i].block \in Nat /\ t[j - Len(s)].block \in Nat
    BY <1>1, <2>1
  <2>4. s[i].block < t[j - Len(s)].block
    BY <2>2, <2>3
  <2>5. (s \o t)[i] = s[i] /\ (s \o t)[j] = t[j - Len(s)]
    BY <1>1, <1>4
  <2> QED BY <2>4, <2>5
<1> QED BY <1>1, <1>2, <1>3, <1>4

\* A sequence in order stays so when its entry after the n-th is left out.
LEMMA InOrderWithout ==
  ASSUME NEW s, NEW t, NEW n \in Nat, NEW z \in Nat, Len(s) = n + z + 1, Len(t) = n + z,
         \A i \in 1..n : t[i] = s[i], \A i \in (n + 1)..(n + z) : t[i] = s[i + 1], InOrder(s)
  PROVE  InOrder(t)
<1> SUFFICES ASSUME NEW i \in 1..(n + z), NEW j \in 1..(n + z), i < j
             PROVE  t[i].block < t[j].block
  BY DEF InOrder
<1>1. \A k, l \in 1..(n + z + 1) : k < l => s[k].block < s[l].block
  BY DEF InOrder
<1>2. CASE j <= n
  <2>1. t[i] = s[i] /\ t[j] = s[j] /\ i \in 1..(n + z + 1) /\ j \in 1..(n + z + 1)
    BY <1>2
  <2> QED BY <1>1, <2>1
<1>3. CASE i > n
  <2>1. t[i] = s[i + 1] /\ t[j] = s[j + 1]
    BY <1>3
  <2>2. i + 1 \in 1..(n + z + 1) /\ j + 1 \in 1..(n + z + 1) /\ i + 1 < j + 1
    OBVIOUS
  <2> QED BY <1>1, <2>1, <2>2
<1>4. CASE i <= n /\ j > n
  <2>1. t[i] = s[i] /\ t[j] = s[j + 1]
    BY <1>4
  <2>2. i \in 1..(n + z + 1) /\ j + 1 \in 1..(n + z + 1) /\ i < j + 1
    BY <1>4
  <2> QED BY <1>1, <2>1, <2>2
<1> QED BY <1>2, <1>3, <1>4

\* Being in order depends on the length and the entries only.
LEMMA InOrderSame ==
  ASSUME NEW s, NEW t, Len(s) = Len(t), \A i \in 1..Len(t) : t[i] = s[i], InOrder(s)
  PROVE  InOrder(t)
BY DEF InOrder

--------------------------------------------------------------------------------
(***************************************************************************)
(* The inductive invariant: outside processLog's loop no log is pending.   *)
(***************************************************************************)

NothingPending == pc # "processLog" => logs = << >>

IndexerInv == IndexerTypeOK /\ EachEventOnce /\ NothingPending

\* Nothing is read, handled or replaced at the start.
LEMMA InitInv == Init => IndexerInv
<1> SUFFICES ASSUME Init PROVE IndexerInv
  OBVIOUS
<1>1. /\ Len(chain) = 0 /\ chain \in Seq(Events)
      /\ calls \in Seq(Log) /\ logs \in Seq(Log) /\ Len(calls) = 0 /\ Len(logs) = 0
  BY DEF Init
<1>2. IndexerTypeOK /\ NothingPending /\ Read = 0
  <2>1. /\ pc = "BlockNumber" /\ lastBlock = 0 /\ currentBlock = 0 /\ backoff = 1
        /\ replaced = FALSE /\ faults = 0 /\ logs = << >>
    BY DEF Init
  <2>2. lastBlock \in 0..currentBlock /\ currentBlock \in 0..Len(chain) /\ backoff \in 1..30
    BY <1>1, <2>1
  <2>3. faults \in 0..MaxFaults
    BY <2>1, IndexerAssumption
  <2> QED BY <1>1, <2>1, <2>2, <2>3 DEF IndexerTypeOK, NothingPending, Read
<1>3. ToSet(LogsOf(1, 0)) = {}
  BY <1>1, ReadOn
<1>4. ToSet(calls) = {} /\ ToSet(logs) = {}
  BY <1>1, EmptySet
<1>5. InOrder(calls \o logs)
  BY <1>1 DEF InOrder
<1> QED BY <1>2, <1>3, <1>4, <1>5 DEF IndexerInv, EachEventOnce, ToHandle

\* Nothing changes for the handler when the logs, the calls and the blocks read stay.
LEMMA Unmoved ==
  ASSUME EachEventOnce, UNCHANGED <<calls, logs>>, Read' = Read, ~replaced' => ~replaced,
         ~replaced' => LogsOf(1, Read)' = LogsOf(1, Read)
  PROVE  EachEventOnce'
BY DEF EachEventOnce, ToHandle, InOrder

\* The process reads no further than the chain goes.
LEMMA ReadInChain ==
  ASSUME IndexerTypeOK
  PROVE  /\ Read \in Nat /\ Read <= Len(chain) /\ Len(chain) \in Nat
         /\ lastBlock \in Nat /\ currentBlock \in Nat
         /\ lastBlock <= currentBlock /\ currentBlock <= Len(chain)
BY DEF IndexerTypeOK, Read

\* Blocks that stay have the same logs.
LEMMA SameLogs ==
  ASSUME NEW n \in Nat, \A k \in 1..n : chain'[k] = chain[k]
  PROVE  LogsOf(1, n)' = LogsOf(1, n)
<1>1. \A i \in 1..(n + 1 - 1) : 1 + i - 1 \in 1..n
  OBVIOUS
<1> QED BY <1>1 DEF LogsOf

\* Asking for the head.
LEMMA BlockNumberInv ==
  ASSUME IndexerInv, BlockNumber \/ BlockNumberFails
  PROVE  IndexerInv'
<1>1. /\ UNCHANGED <<chain, lastBlock, logs, calls, replaced>>
      /\ pc = "BlockNumber" /\ pc' \in {"BlockNumber", "FilterLogs"}
      /\ backoff' \in {1, Doubled} /\ currentBlock' \in {currentBlock, Len(chain)}
      /\ faults' = faults \/ (faults' = faults + 1 /\ faults < MaxFaults)
  BY DEF BlockNumber, BlockNumberFails, Fault
<1>2. IndexerTypeOK'
  <2>1. backoff' \in 1..30 /\ faults' \in 0..MaxFaults
    BY <1>1, IndexerAssumption DEF IndexerInv, IndexerTypeOK, Doubled
  <2>2. lastBlock' \in 0..currentBlock' /\ currentBlock' \in 0..Len(chain')
    BY <1>1, ReadInChain DEF IndexerInv
  <2> QED BY <1>1, <2>1, <2>2 DEF IndexerInv, IndexerTypeOK
<1>3. Read' = Read /\ LogsOf(1, Read)' = LogsOf(1, Read)
  BY <1>1 DEF Read, LogsOf
<1> QED BY <1>1, <1>2, <1>3, Unmoved DEF IndexerInv, NothingPending

\* Reading the logs, or failing to.
LEMMA FilterLogsInv ==
  ASSUME IndexerInv, FilterLogs
  PROVE  IndexerInv'
<1>1. /\ UNCHANGED <<chain, lastBlock, currentBlock, backoff, calls, replaced>>
      /\ pc = "FilterLogs" /\ logs = << >>
  BY DEF FilterLogs, IndexerInv, NothingPending
<1>2. CASE Fault /\ pc' = "BlockNumber" /\ UNCHANGED logs
  <2>1. IndexerTypeOK'
    BY <1>1, <1>2, IndexerAssumption DEF IndexerInv, IndexerTypeOK, Fault
  <2>2. Read' = Read /\ LogsOf(1, Read)' = LogsOf(1, Read)
    BY <1>1, <1>2 DEF Read, LogsOf
  <2> QED BY <1>1, <1>2, <2>1, <2>2, Unmoved DEF IndexerInv, NothingPending
<1>3. CASE /\ logs' = LogsOf(lastBlock + 1, currentBlock)
           /\ pc' = "processLog" /\ UNCHANGED faults
  <2> DEFINE l == lastBlock
             c == currentBlock
             s == LogsOf(l + 1, c)
  <2>1. l \in Nat /\ c \in Nat /\ l <= c /\ c <= Len(chain) /\ chain \in Seq(Events)
    BY ReadInChain DEF IndexerInv, IndexerTypeOK
  <2>2. s \in Seq(Log) /\ InOrder(s) /\ \A y \in ToSet(s) : y.block > l
    BY <2>1, ReadOn
  <2>3. /\ ToSet(LogsOf(1, c)) = ToSet(LogsOf(1, l)) \cup ToSet(s)
        /\ \A y \in ToSet(LogsOf(1, l)) : y.block <= l
    BY <2>1, ReadOn
  <2>4. IndexerTypeOK'
    BY <1>1, <1>3, <2>2 DEF IndexerInv, IndexerTypeOK
  <2>5. Read = l /\ Read' = c /\ LogsOf(1, Read)' = LogsOf(1, c)
    BY <1>1, <1>3 DEF Read, LogsOf
  <2>6. calls \in Seq(Log) /\ logs \in Seq(Log) /\ calls \o << >> = calls
    BY DEF IndexerInv, IndexerTypeOK
  <2> HIDE DEF s, l, c
  <2>7. ASSUME ~replaced
        PROVE  /\ ToSet(calls) \cup ToHandle(s) = ToHandle(LogsOf(1, c))
               /\ InOrder(calls \o s)
    <3>1. ToSet(calls) = ToHandle(LogsOf(1, l)) /\ InOrder(calls)
      <4>1. ToSet(logs) = {}
        BY <1>1, <2>6, EmptySet
      <4> QED BY <1>1, <2>5, <2>6, <2>7, <4>1 DEF IndexerInv, EachEventOnce, ToHandle
    <3>2. ToSet(calls) \cup ToHandle(s) = ToHandle(LogsOf(1, c))
      BY <2>3, <3>1 DEF ToHandle
    <3>3. \A i \in 1..Len(calls) : calls[i].block <= l
      BY <2>3, <2>6, <3>1, ToSetFacts DEF ToHandle
    <3>4. \A i \in 1..Len(s) : s[i].block > l
      BY <2>2, ToSetFacts
    <3>5. InOrder(calls \o s)
      BY <2>1, <2>2, <2>6, <3>1, <3>3, <3>4, InOrderConcat
    <3> QED BY <3>2, <3>5
  <2>8. EachEventOnce'
    BY <1>1, <1>3, <2>5, <2>7 DEF EachEventOnce, ToHandle, InOrder, s, l, c
  <2>9. NothingPending'
    BY <1>3 DEF NothingPending
  <2> QED BY <2>4, <2>8, <2>9 DEF IndexerInv
<1> QED BY <1>2, <1>3 DEF FilterLogs


\* Handling the next log, or passing it over.
LEMMA ProcessLogInv ==
  ASSUME IndexerInv, ProcessLog
  PROVE  IndexerInv'
<1> DEFINE h == Head(logs)
           t == Tail(logs)
<1>1. /\ UNCHANGED <<chain, pc, lastBlock, currentBlock, backoff, replaced, faults>>
      /\ pc = "processLog" /\ logs # << >> /\ logs' = t
      /\ calls' = IF h.event \in Handled THEN Append(calls, h) ELSE calls
  BY DEF ProcessLog
<1>2. calls \in Seq(Log) /\ logs \in Seq(Log)
  BY DEF IndexerInv, IndexerTypeOK
<1>3. h \in Log /\ t \in Seq(Log) /\ ToSet(logs) = {h} \cup ToSet(t)
  BY <1>1, <1>2, HeadTailSet
<1>4. /\ Len(logs) = Len(t) + 1 /\ Len(t) \in Nat /\ Len(calls) \in Nat /\ logs[1] = h
      /\ \A i \in 1..Len(t) : t[i] = logs[i + 1]
  BY <1>1, <1>2
<1> HIDE DEF h, t
<1>5. calls' \in Seq(Log) /\ logs' \in Seq(Log)
  BY <1>1, <1>2, <1>3
<1>6. IndexerTypeOK' /\ NothingPending'
  BY <1>1, <1>5 DEF IndexerInv, IndexerTypeOK, NothingPending
<1>7. Read' = Read /\ LogsOf(1, Read)' = LogsOf(1, Read)
  BY <1>1 DEF Read, LogsOf
<1>8. ToSet(calls') \cup ToHandle(t) = ToSet(calls) \cup ToHandle(logs)
  <2>1. CASE h.event \in Handled
    <3>1. ToSet(calls') = ToSet(calls) \cup {h}
      BY <1>1, <1>2, <1>3, <2>1, AppendSet
    <3> QED BY <1>3, <2>1, <3>1 DEF ToHandle
  <2>2. CASE h.event \notin Handled
    BY <1>1, <1>3, <2>2 DEF ToHandle
  <2> QED BY <2>1, <2>2
<1>9. ASSUME InOrder(calls \o logs) PROVE InOrder(calls' \o t)
  <2> DEFINE n == Len(calls)
             z == Len(t)
  <2>1. /\ Len(calls \o logs) = n + z + 1
        /\ \A i \in 1..n : (calls \o logs)[i] = calls[i]
        /\ (calls \o logs)[n + 1] = h
        /\ \A i \in 1..z : (calls \o logs)[n + 1 + i] = t[i]
    <3> DEFINE x == calls \o logs
    <3>1. /\ Len(x) = n + Len(logs) /\ \A i \in 1..n : x[i] = calls[i]
          /\ \A i \in 1..Len(logs) : x[n + i] = logs[i]
      BY <1>2, ConcatFacts
    <3> HIDE DEF x
    <3>2. x[n + 1] = h
      BY <1>4, <3>1
    <3>3. ASSUME NEW i \in 1..z PROVE x[n + 1 + i] = t[i]
      <4>1. i + 1 \in 1..Len(logs) /\ n + 1 + i = n + (i + 1)
        BY <1>4
      <4> QED BY <1>4, <3>1, <4>1
    <3> QED BY <1>4, <3>1, <3>2, <3>3 DEF x
  <2>2. CASE h.event \in Handled
    <3>1. calls' = Append(calls, h)
      BY <1>1, <2>2
    <3>2. /\ Len(calls' \o t) = n + 1 + z
          /\ \A i \in 1..n : (calls' \o t)[i] = calls[i]
          /\ (calls' \o t)[n + 1] = h
          /\ \A i \in 1..z : (calls' \o t)[n + 1 + i] = t[i]
      BY <1>2, <1>3, <1>4, <3>1
    <3>3. \A i \in 1..(n + 1 + z) : (calls' \o t)[i] = (calls \o logs)[i]
      <4> TAKE i \in 1..(n + 1 + z)
      <4>1. CASE i \in 1..(n + 1)
        BY <1>4, <2>1, <3>2, <4>1
      <4>2. CASE i \notin 1..(n + 1)
        <5>1. i - (n + 1) \in 1..z /\ n + 1 + (i - (n + 1)) = i
          BY <1>4, <4>2
        <5> QED BY <2>1, <3>2, <5>1
      <4> QED BY <4>1, <4>2
    <3>4. Len(calls' \o t) = Len(calls \o logs) /\ Len(calls' \o t) = n + 1 + z
      BY <1>4, <2>1, <3>2
    <3> QED BY <1>9, <3>3, <3>4, InOrderSame
  <2>3. CASE h.event \notin Handled
    <3>1. calls' = calls
      BY <1>1, <2>3
    <3>2. /\ Len(calls \o t) = n + z
          /\ \A i \in 1..n : (calls \o t)[i] = calls[i]
          /\ \A i \in 1..z : (calls \o t)[n + i] = t[i]
      BY <1>2, <1>3, ConcatFacts
    <3>3. \A i \in 1..n : (calls \o t)[i] = (calls \o logs)[i]
      BY <2>1, <3>2
    <3>4. ASSUME NEW i \in (n + 1)..(n + z) PROVE (calls \o t)[i] = (calls \o logs)[i + 1]
      <4> DEFINE k == i - n
      <4>1. k \in 1..z /\ n + k = i /\ n + 1 + k = i + 1
        BY <1>4
      <4> HIDE DEF k
      <4>2. (calls \o t)[n + k] = t[k] /\ (calls \o logs)[n + 1 + k] = t[k]
        BY <2>1, <3>2, <4>1
      <4> QED BY <4>1, <4>2
    <3> HIDE DEF n, z
    <3>5. n \in Nat /\ z \in Nat
      BY <1>4 DEF n, z
    <3> DEFINE x == calls \o logs
               y == calls \o t
    <3>6. /\ Len(x) = n + z + 1 /\ Len(y) = n + z /\ \A i \in 1..n : y[i] = x[i]
          /\ \A i \in (n + 1)..(n + z) : y[i] = x[i + 1]
          /\ InOrder(x)
      BY <1>9, <2>1, <3>2, <3>3, <3>4
    <3> HIDE DEF x, y
    <3>7. InOrder(y)
      BY <3>5, <3>6, InOrderWithout
    <3> QED BY <3>1, <3>7 DEF y
  <2> QED BY <2>2, <2>3
<1>10. EachEventOnce'
  <2> SUFFICES ASSUME ~replaced' PROVE /\ (ToSet(calls) \cup ToHandle(logs))' = ToHandle(LogsOf(1, Read))'
                                       /\ InOrder(calls \o logs)'
    BY DEF EachEventOnce
  <2>1. ToSet(calls) \cup ToHandle(logs) = ToHandle(LogsOf(1, Read)) /\ InOrder(calls \o logs)
    BY <1>1 DEF IndexerInv, EachEventOnce
  <2>2. ToSet(calls') \cup ToHandle(logs') = ToHandle(LogsOf(1, Read)) /\ InOrder(calls' \o logs')
    BY <1>1, <1>8, <1>9, <2>1
  <2> QED BY <1>7, <2>2 DEF ToHandle, InOrder
<1> QED BY <1>6, <1>10 DEF IndexerInv

\* Moving lastBlock to the head the loop has read up to.
LEMMA AdvanceInv ==
  ASSUME IndexerInv, Advance
  PROVE  IndexerInv'
<1>1. /\ UNCHANGED <<chain, currentBlock, logs, backoff, calls, replaced, faults>>
      /\ pc = "processLog" /\ logs = << >> /\ pc' = "BlockNumber" /\ lastBlock' = currentBlock
  BY DEF Advance, Reached
<1>2. IndexerTypeOK'
  <2>1. lastBlock' \in 0..currentBlock'
    BY <1>1, ReadInChain DEF IndexerInv
  <2> QED BY <1>1, <2>1 DEF IndexerInv, IndexerTypeOK
<1>3. Read' = Read /\ LogsOf(1, Read)' = LogsOf(1, Read)
  BY <1>1 DEF Read, LogsOf
<1> QED BY <1>1, <1>2, <1>3, Unmoved DEF IndexerInv, NothingPending

\* A new process has read nothing and called nobody.
LEMMA RestartInv ==
  ASSUME IndexerInv, Restart
  PROVE  IndexerInv'
<1>1. /\ chain' = chain /\ faults < MaxFaults /\ faults' = faults + 1
      /\ pc' = "BlockNumber" /\ lastBlock' = 0 /\ currentBlock' = 0
      /\ logs' = << >> /\ calls' = << >> /\ backoff' = 1 /\ replaced' = FALSE
  BY DEF Restart, Fault
<1>2. chain \in Seq(Events) /\ faults \in 0..MaxFaults /\ Len(chain) \in Nat
  BY DEF IndexerInv, IndexerTypeOK
<1>3. /\ calls' \in Seq(Log) /\ logs' \in Seq(Log) /\ Len(calls') = 0 /\ Len(logs') = 0
      /\ Len(calls' \o logs') = 0
  BY <1>1
<1>4. /\ lastBlock' \in 0..currentBlock' /\ currentBlock' \in 0..Len(chain')
      /\ backoff' \in 1..30 /\ faults' \in 0..MaxFaults
  BY <1>1, <1>2, IndexerAssumption
<1>5. IndexerTypeOK' /\ NothingPending'
  BY <1>1, <1>2, <1>3, <1>4 DEF IndexerTypeOK, NothingPending
<1>6. ToSet(calls') = {} /\ ToSet(logs') = {}
  BY <1>3, EmptySet
<1>7. ToSet(LogsOf(1, 0)) = {}
  BY <1>2, ReadOn
<1>8. Read' = 0 /\ LogsOf(1, Read)' = LogsOf(1, 0)
  BY <1>1 DEF Read, LogsOf
<1>9. EachEventOnce'
  <2>1. (ToSet(calls) \cup ToHandle(logs))' = ToHandle(LogsOf(1, Read))'
    BY <1>6, <1>7, <1>8 DEF ToHandle
  <2>2. InOrder(calls \o logs)'
    BY <1>3 DEF InOrder
  <2> QED BY <2>1, <2>2 DEF EachEventOnce
<1> QED BY <1>5, <1>9 DEF IndexerInv

\* The chain grows.
LEMMA NewBlockInv ==
  ASSUME IndexerInv, NEW e \in Events, NewBlock(e)
  PROVE  IndexerInv'
<1>1. /\ chain' = Append(chain, e)
      /\ UNCHANGED <<pc, lastBlock, currentBlock, logs, backoff, calls, replaced, faults>>
  BY DEF NewBlock
<1>2. /\ chain' \in Seq(Events) /\ Len(chain') = Len(chain) + 1 /\ Len(chain) \in Nat
      /\ \A k \in 1..Len(chain) : chain'[k] = chain[k]
  BY <1>1 DEF IndexerInv, IndexerTypeOK
<1>3. IndexerTypeOK'
  <2>1. currentBlock' \in 0..Len(chain')
    BY <1>1, <1>2, ReadInChain DEF IndexerInv
  <2> QED BY <1>1, <1>2, <2>1 DEF IndexerInv, IndexerTypeOK
<1>4. Read' = Read
  BY <1>1 DEF Read
<1>5. LogsOf(1, Read)' = LogsOf(1, Read)
  <2>1. PICK n \in Nat : n = Read /\ n <= Len(chain)
    BY ReadInChain DEF IndexerInv
  <2>2. LogsOf(1, n)' = LogsOf(1, n)
    BY <1>2, <2>1, SameLogs
  <2> QED BY <1>4, <2>1, <2>2 DEF LogsOf
<1> QED BY <1>1, <1>3, <1>4, <1>5, Unmoved DEF IndexerInv, NothingPending

\* The last block is replaced, in time or too late.
LEMMA ReorganiseInv ==
  ASSUME IndexerInv, NEW e \in Events, Reorganise(e)
  PROVE  IndexerInv'
<1>1. /\ chain # << >> /\ faults < MaxFaults /\ faults' = faults + 1
      /\ chain' = [chain EXCEPT ![Len(chain)] = e]
      /\ replaced' = (replaced \/ Len(chain) <= Read)
      /\ UNCHANGED <<pc, lastBlock, currentBlock, logs, backoff, calls>>
  BY DEF Reorganise, Fault
<1>2. /\ chain' \in Seq(Events) /\ Len(chain') = Len(chain) /\ Len(chain) \in Nat
      /\ \A k \in 1..(Len(chain) - 1) : chain'[k] = chain[k]
  BY <1>1 DEF IndexerInv, IndexerTypeOK
<1>3. IndexerTypeOK'
  <2>1. faults' \in 0..MaxFaults
    BY <1>1, IndexerAssumption DEF IndexerInv, IndexerTypeOK
  <2> QED BY <1>1, <1>2, <2>1 DEF IndexerInv, IndexerTypeOK
<1>4. Read' = Read
  BY <1>1 DEF Read
<1>5. ~replaced' => LogsOf(1, Read)' = LogsOf(1, Read)
  <2> SUFFICES ASSUME ~replaced' PROVE LogsOf(1, Read)' = LogsOf(1, Read)
    OBVIOUS
  <2>1. PICK n \in Nat : n = Read /\ n < Len(chain)
    <3>1. Read \in Nat
      BY ReadInChain DEF IndexerInv
    <3>2. ~(Len(chain) <= Read)
      BY <1>1, Zenon
    <3> QED BY <1>2, <3>1, <3>2
  <2>2. \A k \in 1..n : chain'[k] = chain[k]
    BY <1>2, <2>1
  <2>3. LogsOf(1, n)' = LogsOf(1, n)
    BY <2>2, SameLogs
  <2> QED BY <1>4, <2>1, <2>3 DEF LogsOf
<1> QED BY <1>1, <1>3, <1>4, <1>5, Unmoved DEF IndexerInv, NothingPending

\* Every step keeps the invariant.
LEMMA StepInv == IndexerInv /\ [Next]_vars => IndexerInv'
<1> SUFFICES ASSUME IndexerInv, [Next]_vars PROVE IndexerInv'
  OBVIOUS
<1>1. CASE UNCHANGED vars
  BY <1>1 DEF vars, IndexerInv, IndexerTypeOK, EachEventOnce, NothingPending, ToHandle,
              InOrder, Read, LogsOf
<1>2. CASE Next
  BY <1>2, BlockNumberInv, FilterLogsInv, ProcessLogInv, AdvanceInv, RestartInv, NewBlockInv,
     ReorganiseInv DEF Next, Loop
<1> QED BY <1>1, <1>2

--------------------------------------------------------------------------------
(***************************************************************************)
(* Theorems.                                                               *)
(***************************************************************************)

\* The invariant holds of every behaviour.
LEMMA IndexerAlways == Spec => []IndexerInv
BY InitInv, StepInv, PTL DEF Spec

\* Types, the range of the delay, and lastBlock <= currentBlock <= the head.
THEOREM IndexerTypes == Spec => []IndexerTypeOK
BY IndexerAlways, PTL DEF IndexerInv

\* Each event reaches the handler once and in order, unless its block was replaced too late.
THEOREM EventsOnce == Spec => []EachEventOnce
BY IndexerAlways, PTL DEF IndexerInv
================================================================================
