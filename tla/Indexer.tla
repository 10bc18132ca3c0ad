-------------------------------- MODULE Indexer --------------------------------
(***************************************************************************)
(* backend/internal/blockchain/indexer.go: the loop that polls the node    *)
(* for the contract's logs, with the node and a crash at any point.        *)
(*                                                                         *)
(* A block is the event its one log stands for.  The chain grows at its    *)
(* end, and its last block may be replaced (a reorganisation).             *)
(***************************************************************************)
EXTENDS Integers, SequencesExt

CONSTANTS
  MaxBlocks,    \* Bound on the chain.
  MaxFaults     \* Bound on failing calls, crashes and reorganisations.

ASSUME IndexerAssumption == MaxBlocks \in Nat /\ MaxFaults \in Nat

\* The events processLog knows; the contract has two more.
Handled == {"Deposit", "Withdraw", "TradeSettled"}
Events  == Handled \cup {"OrderCancelled"}

VARIABLES
  chain,         \* Blocks 1 and later.
  pc,            \* The loop is at "BlockNumber", "FilterLogs" or "processLog".
  lastBlock,     \* Indexed up to here.
  currentBlock,  \* The head the node reported.
  logs,          \* Logs still to be processed, as [block, event].
  backoff,       \* Seconds.
  calls,         \* Calls of the handler since the process started, as [block, event].
  replaced,      \* History: a block was replaced after its logs had been read.
  faults

vars == <<chain, pc, lastBlock, currentBlock, logs, backoff, calls, replaced, faults>>

Init ==
  /\ pc = "BlockNumber" /\ lastBlock = 0 /\ currentBlock = 0
  /\ logs = << >> /\ calls = << >> /\ backoff = 1 /\ replaced = FALSE
  /\ chain = << >> /\ faults = 0

Fault == faults < MaxFaults /\ faults' = faults + 1

\* Mutation of Behind: the newest block is left for later.
BehindByTwo == Len(chain) > lastBlock + 1

\* Otherwise the loop sleeps and asks again.
Behind == Len(chain) > lastBlock

BlockNumber ==
  /\ pc = "BlockNumber" /\ Behind
  /\ currentBlock' = Len(chain)
  /\ backoff' = 1
  /\ pc' = "FilterLogs"
  /\ UNCHANGED <<chain, lastBlock, logs, calls, replaced, faults>>

\* Mutation of Doubled: there is no upper limit.
DoubledForEver == 2 * backoff

Doubled == IF 2 * backoff < 30 THEN 2 * backoff ELSE 30

BlockNumberFails ==
  /\ pc = "BlockNumber" /\ Fault
  /\ backoff' = Doubled
  /\ UNCHANGED <<chain, pc, lastBlock, currentBlock, logs, calls, replaced>>

\* The logs of blocks m to n, as the chain is now.
LogsOf(m, n) == [i \in 1..(n + 1 - m) |-> [block |-> m + i - 1, event |-> chain[m + i - 1]]]

FilterLogs ==
  /\ pc = "FilterLogs"
  /\ \/ /\ logs' = LogsOf(lastBlock + 1, currentBlock)
        /\ pc' = "processLog"
        /\ UNCHANGED faults
     \/ Fault /\ pc' = "BlockNumber" /\ UNCHANGED logs
  /\ UNCHANGED <<chain, lastBlock, currentBlock, backoff, calls, replaced>>

ProcessLog ==
  /\ pc = "processLog" /\ logs # << >>
  /\ logs' = Tail(logs)
  /\ calls' = IF Head(logs).event \in Handled THEN Append(calls, Head(logs)) ELSE calls
  /\ UNCHANGED <<chain, pc, lastBlock, currentBlock, backoff, replaced, faults>>

\* Mutation of Reached: the head is asked for again.
ReachedHead == Len(chain)

Reached == currentBlock

Advance ==
  /\ pc = "processLog" /\ logs = << >>
  /\ lastBlock' = Reached
  /\ pc' = "BlockNumber"
  /\ UNCHANGED <<chain, currentBlock, logs, backoff, calls, replaced, faults>>

\* Nothing is stored: a new process begins with the first block.
Restart ==
  /\ Fault
  /\ pc' = "BlockNumber" /\ lastBlock' = 0 /\ currentBlock' = 0
  /\ logs' = << >> /\ calls' = << >> /\ backoff' = 1 /\ replaced' = FALSE
  /\ UNCHANGED chain

\* The blocks whose logs the process has read.
Read == IF pc = "processLog" THEN currentBlock ELSE lastBlock

NewBlock(e) ==
  /\ Len(chain) < MaxBlocks
  /\ chain' = Append(chain, e)
  /\ UNCHANGED <<pc, lastBlock, currentBlock, logs, backoff, calls, replaced, faults>>

Reorganise(e) ==
  /\ chain # << >> /\ Fault
  /\ chain' = [chain EXCEPT ![Len(chain)] = e]
  /\ replaced' = (replaced \/ Len(chain) <= Read)
  /\ UNCHANGED <<pc, lastBlock, currentBlock, logs, backoff, calls>>

Loop == BlockNumber \/ FilterLogs \/ ProcessLog \/ Advance

Next ==
  \/ Loop \/ BlockNumberFails
  \/ Restart
  \/ \E e \in Events : NewBlock(e) \/ Reorganise(e)

\* The loop never stops; that calls fail is up to the node.
Spec == Init /\ [][Next]_vars /\ WF_vars(Loop)

--------------------------------------------------------------------------------
Log == [block : Nat, event : Events]

\* Types; the delay stays between one and thirty seconds, and the loop never believes to
\* have read more than there is.
IndexerTypeOK ==
  /\ chain \in Seq(Events)
  /\ pc \in {"BlockNumber", "FilterLogs", "processLog"}
  /\ lastBlock \in 0..currentBlock /\ currentBlock \in 0..Len(chain)
  /\ logs \in Seq(Log) /\ calls \in Seq(Log)
  /\ backoff \in 1..30
  /\ replaced \in BOOLEAN /\ faults \in 0..MaxFaults

\* The handled ones of the logs s.
ToHandle(s) == { l \in ToSet(s) : l.event \in Handled }

InOrder(s) == \A i, j \in 1..Len(s) : i < j => s[i].block < s[j].block

\* Each event of the chain reaches the handler once and in order, whatever the loop was doing
\* when the chain grew or a call failed: the calls of a process and those it is about to make
\* are those of the blocks it has read, one for each, and none after that of a later block.
\* Only a block that was replaced after it had been read escapes it, until a restart reads
\* everything again.  (indexer.go:43-88)
EachEventOnce ==
  ~replaced =>
    /\ ToSet(calls) \cup ToHandle(logs) = ToHandle(LogsOf(1, Read))
    /\ InOrder(calls \o logs)

\* "Event indexer catches `TradeSettled` event": every block is read in the end, however
\* often, finitely often, calls fail and the process restarts.  (indexer.go:51-87)
EveryBlockRead == \A n \in 1..MaxBlocks : Len(chain) >= n ~> lastBlock >= n
================================================================================
