------------------------------- MODULE EntryHeap -------------------------------
(***************************************************************************)
(* backend/internal/orderbook/heap.go under Go's container/heap.           *)
(*                                                                         *)
(* A heap is [arr, index]: arr is the slice of entries, as order ids, and  *)
(* index[id] the Index field of id's entry.  Positions are counted from 1  *)
(* where the code counts from 0, and an Index of -1, which Pop writes, is  *)
(* 0 here.  Operators take the table os of orders because Less reads the   *)
(* prices through the entry's pointer.                                     *)
(***************************************************************************)
EXTENDS OrderMath, Sequences

Size(h) == Len(h.arr)

\* Mutation of Less: the operands are swapped.
LessSwapped(os, h, i, j) == Ahead(os[h.arr[j]], os[h.arr[i]])

\* BuyHeap.Less and SellHeap.Less.
Less(os, h, i, j) == Ahead(os[h.arr[i]], os[h.arr[j]])

\* Mutation of Swap: the Index of one of the two entries is not written.
SwapHalf(h, i, j) ==
  LET a == h.arr[i]
      b == h.arr[j]
  IN  [ arr   |-> [h.arr EXCEPT ![i] = b, ![j] = a],
        index |-> [h.index EXCEPT ![b] = i] ]

\* BuyHeap.Swap and SellHeap.Swap: Index is written from the new positions.
Swap(h, i, j) ==
  LET a == h.arr[i]
      b == h.arr[j]
  IN  [ arr   |-> [h.arr EXCEPT ![i] = b, ![j] = a],
        index |-> [h.index EXCEPT ![b] = i, ![a] = j] ]

HeapsOver(os) == [arr : Seq(DOMAIN os), index : [DOMAIN os -> Nat]]

\* A loop over a heap, come to the position at.
Loops(os) == [heap : HeapsOver(os), at : Nat]

\* The loop after n turns from c.
Repeat(turn, c, n) ==
  LET after[k \in Nat] == IF k = 0 THEN c ELSE turn[after[k - 1]]
  IN  after[n]

\* One turn of heap.up's loop: the entry moves above its parent while it is ahead of it,
\* and nothing moves once the loop is left.
UpTurn(os) ==
  [ c \in Loops(os) |->
      LET i == c.at \div 2
      IN  IF c.at = 1 \/ ~Less(os, c.heap, c.at, i) THEN c
          ELSE [heap |-> Swap(c.heap, i, c.at), at |-> i] ]

\* heap.up from j; the loop goes round at most j times.
Up(os, h, j) == Repeat(UpTurn(os), [heap |-> h, at |-> j], j).heap

\* One turn of heap.down's loop over the first n entries: the entry moves below the child
\* that is ahead of the other while that child is ahead of it.
DownTurn(os, n) ==
  [ c \in Loops(os) |->
      LET l == 2 * c.at
          j == IF l + 1 <= n /\ Less(os, c.heap, l + 1, l) THEN l + 1 ELSE l
      IN  IF l > n \/ ~Less(os, c.heap, j, c.at) THEN c
          ELSE [heap |-> Swap(c.heap, c.at, j), at |-> j] ]

\* heap.down from i: the heap, and where the entry has got to; at most n turns.
Down(os, h, i, n) == Repeat(DownTurn(os, n), [heap |-> h, at |-> i], n)

\* The Push method: append, remembering the position.
Grow(h, id) ==
  [ arr   |-> Append(h.arr, id),
    index |-> [h.index EXCEPT ![id] = Len(h.arr) + 1] ]

\* The Pop method: drop the last entry and forget its position.
Shrink(h) ==
  LET n == Size(h)
  IN  [ arr   |-> SubSeq(h.arr, 1, n - 1),
        index |-> [h.index EXCEPT ![h.arr[n]] = 0] ]

\* heap.Push, heap.Pop and heap.Remove.
HeapPush(os, h, id) == Up(os, Grow(h, id), Size(h) + 1)

HeapPop(os, h) ==
  LET n == Size(h)
  IN  Shrink(Down(os, Swap(h, 1, n), 1, n - 1).heap)

\* Mutation of HeapRemove: the entry moved into the hole is never sifted up.
RemoveWithoutUp(os, h, i) ==
  LET n == Size(h)
  IN  IF i = n THEN Shrink(h) ELSE Shrink(Down(os, Swap(h, i, n), i, n - 1).heap)

HeapRemove(os, h, i) ==
  LET n    == Size(h)
      down == Down(os, Swap(h, i, n), i, n - 1)
  IN  IF i = n THEN Shrink(h)
      ELSE IF down.at > i THEN Shrink(down.heap)
      ELSE Shrink(Up(os, down.heap, i))

\* No entry is ahead of its parent.
Ordered(os, arr) ==
  \A i \in 2..Len(arr) : ~Ahead(os[arr[i]], os[arr[i \div 2]])
================================================================================
