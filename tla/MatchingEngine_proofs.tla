------------------------- MODULE MatchingEngine_proofs -------------------------
(***************************************************************************)
(* Theorems about MatchingEngine and the heaps of EntryHeap, for every set *)
(* of ids, every orders under them and every precision of the price type.  *)
(*                                                                         *)
(* The prover has no induction of its own and cannot use the induction     *)
(* theorems of its library, which quantify over predicates.  The first     *)
(* section derives, from the well-foundedness of <, induction over sets of *)
(* naturals, which is first-order.                                         *)
(***************************************************************************)
EXTENDS MatchingEngine, Sums_proofs

BookProofs == INSTANCE PriceTimeBook_proofs WITH resting <- Entries

--------------------------------------------------------------------------------
(***************************************************************************)
(* Induction and loops.                                                    *)
(***************************************************************************)

\* A set of naturals has a least element.
LEMMA LeastNatural ==
  ASSUME NEW T \in SUBSET Nat, T # {}
  PROVE  \E x \in T : \A y \in T : x <= y
<1> DEFINE R == { p \in Nat \X Nat : p[1] < p[2] }
<1>1. IsWellFoundedOn(R, Nat)
  BY NatLessThanWellFounded DEF OpToRel
<1>2. \E x \in T : \A y \in T : <<y, x>> \notin R
  <2> HIDE DEF R
  <2> QED BY <1>1, WFMin
<1>3. PICK x \in T : \A y \in T : <<y, x>> \notin R
  BY <1>2
<1>4. ASSUME NEW y \in T PROVE x <= y
  <2>1. x \in Nat /\ y \in Nat /\ <<y, x>> \notin R
    BY <1>3
  <2>2. ~(y < x)
    BY <2>1
  <2> QED BY <2>1, <2>2
<1> QED BY <1>4

\* Induction: a set that holds 0 and the successor of each of its naturals holds them all.
LEMMA Induction ==
  ASSUME NEW T, 0 \in T, \A n \in Nat : n \in T => n + 1 \in T
  PROVE  Nat \subseteq T
<1> SUFFICES ASSUME Nat \ T # {} PROVE FALSE
  OBVIOUS
<1>1. PICK x \in Nat \ T : \A y \in Nat \ T : x <= y
  BY LeastNatural
<1>2. x # 0 /\ x - 1 \in Nat /\ x - 1 \notin Nat \ T
  BY <1>1
<1> QED BY <1>1, <1>2

\* The runs of a loop that takes n turns from c through states of S.
Runs(S, turn, c, n) ==
  { f \in [0..n -> S] : f[0] = c /\ \A k \in 1..n : f[k] = turn[f[k - 1]] }

\* There is a run of each length.
LEMMA RunExists ==
  ASSUME NEW S, NEW turn, NEW c \in S, \A s \in S : turn[s] \in S, NEW n \in Nat
  PROVE  Runs(S, turn, c, n) # {}
<1> DEFINE T == { m \in Nat : Runs(S, turn, c, m) # {} }
<1>1. 0 \in T
  <2> DEFINE f == [k \in 0..0 |-> c]
  <2>1. f \in Runs(S, turn, c, 0)
    BY DEF Runs
  <2> QED BY <2>1
<1>2. ASSUME NEW m \in Nat, m \in T PROVE m + 1 \in T
  <2>1. PICK f \in Runs(S, turn, c, m) : TRUE
    BY <1>2
  <2>2. f \in [0..m -> S] /\ f[0] = c /\ \A k \in 1..m : f[k] = turn[f[k - 1]]
    BY DEF Runs
  <2> DEFINE g == [k \in 0..(m + 1) |-> IF k = m + 1 THEN turn[f[m]] ELSE f[k]]
  <2>3. g \in [0..(m + 1) -> S]
    BY <2>2
  <2>4. g[0] = c
    BY <2>2
  <2>5. ASSUME NEW k \in 1..(m + 1) PROVE g[k] = turn[g[k - 1]]
    <3>1. CASE k = m + 1
      BY <3>1
    <3>2. CASE k # m + 1
      <4>1. k \in 1..m /\ k - 1 \in 0..(m + 1) /\ k - 1 # m + 1
        BY <3>2
      <4> QED BY <2>2, <3>2, <4>1
    <3> QED BY <3>1, <3>2
  <2> HIDE DEF g
  <2>6. g \in Runs(S, turn, c, m + 1)
    BY <2>3, <2>4, <2>5 DEF Runs
  <2> QED BY <2>6
<1> QED
  <2> HIDE DEF T
  <2>1. Nat \subseteq T
    BY <1>1, <1>2, Induction
  <2> QED BY <2>1 DEF T

\* A run agrees with the one that is a turn longer.
LEMMA RunsAgree ==
  ASSUME NEW S, NEW turn, NEW c, NEW n \in Nat,
         NEW f \in Runs(S, turn, c, n), NEW g \in Runs(S, turn, c, n + 1)
  PROVE  \A k \in 0..n : g[k] = f[k]
<1> DEFINE T == { m \in Nat : m \in 0..n => g[m] = f[m] }
<1>1. 0 \in T
  BY DEF Runs
<1>2. ASSUME NEW m \in Nat, m \in T PROVE m + 1 \in T
  <2> SUFFICES ASSUME m + 1 \in 0..n PROVE g[m + 1] = f[m + 1]
    OBVIOUS
  <2>1. m + 1 \in 1..n /\ m + 1 \in 1..(n + 1) /\ m \in 0..n /\ (m + 1) - 1 = m
    OBVIOUS
  <2>2. f[m + 1] = turn[f[m]] /\ g[m + 1] = turn[g[m]]
    BY <2>1 DEF Runs
  <2> QED BY <1>2, <2>1, <2>2
<1> QED
  <2> HIDE DEF T
  <2>1. Nat \subseteq T
    BY <1>1, <1>2, Induction
  <2> QED BY <2>1 DEF T

\* A turn leads from S to S.
Closed(S, turn) == \A s \in S : turn[s] \in S

\* What Repeat computes: no turn, and one turn more.
LEMMA RepeatTurns ==
  ASSUME NEW S, NEW turn, NEW c \in S, Closed(S, turn)
  PROVE  /\ Repeat(turn, c, 0) = c
         /\ \A n \in Nat : /\ Repeat(turn, c, n) \in S
                           /\ Repeat(turn, c, n + 1) = turn[Repeat(turn, c, n)]
<1> USE DEF Closed
<1> DEFINE F(f) == [k \in Nat |-> IF k = 0 THEN c ELSE turn[f[k - 1]]]
           run  == [k \in Nat |-> CHOOSE f \in Runs(S, turn, c, k) : TRUE]
           g    == [k \in Nat |-> run[k][k]]
<1>1. ASSUME NEW m \in Nat
      PROVE  /\ run[m] \in Runs(S, turn, c, m)
             /\ run[m] \in [0..m -> S] /\ run[m][0] = c
             /\ \A k \in 1..m : run[m][k] = turn[run[m][k - 1]]
  <2>1. Runs(S, turn, c, m) # {}
    BY RunExists
  <2>2. run[m] \in Runs(S, turn, c, m)
    BY <2>1
  <2> HIDE DEF run
  <2> QED BY <2>2 DEF Runs
<1> HIDE DEF run
<1>2. ASSUME NEW m \in Nat PROVE g[m] \in S /\ g[m + 1] = turn[g[m]]
  <2>1. m \in 0..m /\ m + 1 \in 1..(m + 1) /\ m + 1 \in Nat /\ (m + 1) - 1 = m
    OBVIOUS
  <2>2. run[m + 1][m + 1] = turn[run[m + 1][m]]
    BY <1>1, <2>1
  <2>3. run[m + 1][m] = run[m][m]
    <3>1. run[m] \in Runs(S, turn, c, m) /\ run[m + 1] \in Runs(S, turn, c, m + 1)
      BY <1>1, <2>1
    <3>2. \A k \in 0..m : run[m + 1][k] = run[m][k]
      BY <3>1, RunsAgree
    <3> QED BY <2>1, <3>2
  <2>4. run[m][m] \in S
    BY <1>1, <2>1
  <2> QED BY <2>1, <2>2, <2>3, <2>4
<1>3. g[0] = c
  BY <1>1
<1>4. g = F(g)
  <2>1. ASSUME NEW k \in Nat, k # 0 PROVE g[k] = turn[g[k - 1]]
    <3>1. k - 1 \in Nat /\ (k - 1) + 1 = k
      BY <2>1
    <3> HIDE DEF g
    <3> QED BY <1>2, <3>1
  <2>2. g = [k \in Nat |-> g[k]]
    OBVIOUS
  <2> HIDE DEF g
  <2> QED BY <1>3, <2>1, <2>2
<1> HIDE DEF g
<1> DEFINE after == CHOOSE f : f = F(f)
<1>5. after = F(after)
  <2> HIDE DEF F
  <2> QED BY <1>4
<1>6. \A m \in Nat : Repeat(turn, c, m) = after[m]
  BY DEF Repeat
<1> HIDE DEF after
<1>7. after[0] = c /\ \A m \in Nat : after[m + 1] = turn[after[m]]
  <2>1. after[0] = c
    BY <1>5
  <2>2. ASSUME NEW m \in Nat PROVE after[m + 1] = turn[after[m]]
    <3>1. m + 1 \in Nat /\ m + 1 # 0 /\ (m + 1) - 1 = m
      OBVIOUS
    <3>2. F(after)[m + 1] = turn[after[(m + 1) - 1]]
      BY <3>1
    <3> QED BY <1>5, <3>1, <3>2
  <2> QED BY <2>1, <2>2
<1>8. \A m \in Nat : after[m] \in S
  <2> DEFINE T == { m \in Nat : after[m] \in S }
  <2>1. 0 \in T /\ \A m \in Nat : m \in T => m + 1 \in T
    BY <1>7
  <2> HIDE DEF T
  <2>2. Nat \subseteq T
    BY <2>1, Induction
  <2> QED BY <2>2 DEF T
<1> QED BY <1>6, <1>7, <1>8

\* A loop that goes towards position 1 until nothing moves is done after as many turns as
\* it is from 0.
LEMMA LoopEnds ==
  ASSUME NEW S, NEW Done, NEW turn, NEW c \in S,
         \A d \in S : /\ turn[d] \in S /\ d.at \in Nat /\ d.at >= 1
                      /\ (turn[d] = d /\ d \in Done) \/ turn[d].at < d.at
  PROVE  Repeat(turn, c, c.at) \in S /\ Repeat(turn, c, c.at) \in Done
<1> DEFINE after(n) == Repeat(turn, c, n)
<1>1. /\ after(0) = c
      /\ \A n \in Nat : after(n) \in S /\ after(n + 1) = turn[after(n)]
  <2>1. Closed(S, turn)
    BY DEF Closed
  <2> QED BY ONLY c \in S, <2>1, RepeatTurns
<1> HIDE DEF after
<1>2. \A n \in Nat : (turn[after(n)] = after(n) /\ after(n) \in Done) \/ after(n).at <= c.at - n
  <2> DEFINE T == { n \in Nat : \/ turn[after(n)] = after(n) /\ after(n) \in Done
                                \/ after(n).at <= c.at - n }
  <2>1. 0 \in T
    BY <1>1
  <2>2. ASSUME NEW n \in Nat, n \in T PROVE n + 1 \in T
    <3>1. after(n) \in S /\ after(n + 1) \in S /\ after(n + 1) = turn[after(n)]
      BY <1>1
    <3>2. CASE turn[after(n)] = after(n) /\ after(n) \in Done
      BY <3>1, <3>2
    <3>3. CASE ~(turn[after(n)] = after(n) /\ after(n) \in Done)
      <4>1. after(n + 1).at < after(n).at /\ after(n).at <= c.at - n
        BY <2>2, <3>1, <3>3
      <4>2. after(n).at \in Nat /\ after(n + 1).at \in Nat /\ c.at \in Nat
        BY <3>1
      <4>3. after(n + 1).at <= c.at - (n + 1)
        BY <4>1, <4>2
      <4> QED BY <4>3
    <3> QED BY <3>2, <3>3
  <2> HIDE DEF T
  <2>3. Nat \subseteq T
    BY <2>1, <2>2, Induction
  <2> QED BY <2>3 DEF T
<1>3. c.at \in Nat
  OBVIOUS
<1>4. after(c.at) \in S /\ after(c.at).at \in Nat /\ after(c.at).at >= 1
  BY <1>1, <1>3
<1>5. after(c.at) \in Done
  BY <1>2, <1>3, <1>4
<1> QED BY <1>4, <1>5 DEF after

\* A loop that counts up to n has done so after n turns.
LEMMA LoopCounts ==
  ASSUME NEW S, NEW turn, NEW c \in S, NEW n \in Nat,
         \A d \in S : /\ turn[d] \in S /\ d.at \in Nat
                      /\ turn[d].at = IF d.at < n THEN d.at + 1 ELSE d.at
  PROVE  Repeat(turn, c, n) \in S /\ Repeat(turn, c, n).at >= n
<1> DEFINE after(m) == Repeat(turn, c, m)
<1>1. /\ after(0) = c
      /\ \A m \in Nat : after(m) \in S /\ after(m + 1) = turn[after(m)]
  <2>1. Closed(S, turn)
    BY DEF Closed
  <2> QED BY ONLY c \in S, <2>1, RepeatTurns
<1> HIDE DEF after
<1> DEFINE T == { m \in Nat : after(m).at >= m \/ after(m).at >= n }
<1>2. 0 \in T
  BY <1>1
<1>3. ASSUME NEW m \in Nat, m \in T PROVE m + 1 \in T
  <2>1. /\ after(m + 1).at = IF after(m).at < n THEN after(m).at + 1 ELSE after(m).at
        /\ after(m).at \in Nat
    BY <1>1
  <2>2. after(m).at >= m \/ after(m).at >= n
    BY <1>3
  <2>3. after(m + 1).at >= m + 1 \/ after(m + 1).at >= n
    BY <2>1, <2>2
  <2> QED BY <2>3
<1> HIDE DEF T
<1>4. Nat \subseteq T
  BY <1>2, <1>3, Induction
<1>5. after(n).at >= n
  BY <1>4 DEF T
<1> QED BY <1>1, <1>5 DEF after


--------------------------------------------------------------------------------
(***************************************************************************)
(* Moving entries inside a heap.                                           *)
(***************************************************************************)

\* Every entry's Index is the position it is at; so no entry is there twice.
Placed(h) == \A i \in 1..Size(h) : h.index[h.arr[i]] = i

\* g is h with the first m entries moved among themselves, each taking its Index along.
Sifted(os, g, h, m) ==
  /\ g \in HeapsOver(os) /\ Placed(g)
  /\ Size(g) = Size(h)
  /\ ToSet(g.arr) = ToSet(h.arr)
  /\ \A i \in (m + 1)..Size(h) : g.arr[i] = h.arr[i]
  /\ \A id \in DOMAIN os \ ToSet(h.arr) : g.index[id] = h.index[id]

\* The entries of a slice are its elements.
LEMMA SliceFacts ==
  ASSUME NEW S, NEW s \in Seq(S)
  PROVE  /\ Len(s) \in Nat /\ DOMAIN s = 1..Len(s)
         /\ \A i \in 1..Len(s) : s[i] \in S /\ s[i] \in ToSet(s)
         /\ ToSet(s) \subseteq S
         /\ \A id \in ToSet(s) : \E i \in 1..Len(s) : s[i] = id
         /\ s \in [1..Len(s) -> S]
<1>1. DOMAIN s = 1..Len(s) /\ Len(s) \in Nat /\ \A i \in 1..Len(s) : s[i] \in S
  OBVIOUS
<1>2. ToSet(s) = { s[i] : i \in 1..Len(s) }
  BY <1>1 DEF ToSet
<1> QED BY <1>1, <1>2

\* A function on 1..n is a sequence of length n.
LEMMA ArrayIsSlice ==
  ASSUME NEW S, NEW n \in Nat, NEW f \in [1..n -> S]
  PROVE  f \in Seq(S) /\ Len(f) = n
OBVIOUS

\* g is h with the entries at i and j exchanged.
Swapped(os, g, h, i, j) ==
  /\ g \in HeapsOver(os) /\ Placed(g)
  /\ Size(g) = Size(h)
  /\ ToSet(g.arr) = ToSet(h.arr)
  /\ \A k \in 1..Size(h) :
       g.arr[k] = IF k = i THEN h.arr[j] ELSE IF k = j THEN h.arr[i] ELSE h.arr[k]
  /\ \A id \in DOMAIN os \ ToSet(h.arr) : g.index[id] = h.index[id]

\* What Swap does to the slice and to the positions.
LEMMA SwapFacts ==
  ASSUME NEW os, NEW h \in HeapsOver(os), Placed(h),
         NEW i \in 1..Size(h), NEW j \in 1..Size(h)
  PROVE  Swapped(os, Swap(h, i, j), h, i, j)
<1> DEFINE a == h.arr[i]
           b == h.arr[j]
           n == Size(h)
           arr == [h.arr EXCEPT ![i] = b, ![j] = a]
           index1 == [h.index EXCEPT ![b] = i, ![a] = j]
<1>1. /\ h.arr \in Seq(DOMAIN os) /\ h.index \in [DOMAIN os -> Nat] /\ n = Len(h.arr) /\ n \in Nat
      /\ h.arr \in [1..n -> DOMAIN os]
  BY SliceFacts DEF HeapsOver, Size
<1>2. Swap(h, i, j) = [arr |-> arr, index |-> index1]
  BY DEF Swap
<1>3. a \in DOMAIN os /\ b \in DOMAIN os /\ i \in Nat /\ j \in Nat
  BY <1>1
<1>4. arr \in [1..n -> DOMAIN os] /\ arr \in Seq(DOMAIN os) /\ Len(arr) = n
  <2>1. arr \in [1..n -> DOMAIN os]
    BY <1>1, <1>3
  <2> HIDE DEF arr, n
  <2> QED BY <1>1, <2>1, ArrayIsSlice
<1>5. \A k \in 1..n : arr[k] = IF k = i THEN b ELSE IF k = j THEN a ELSE h.arr[k]
  BY <1>1
<1>6. index1 \in [DOMAIN os -> Nat]
  BY <1>1, <1>3
<1>7. \A id \in DOMAIN os : index1[id] = IF id = a THEN j ELSE IF id = b THEN i ELSE h.index[id]
  BY <1>1, <1>3
<1>8. \A k \in 1..n : h.index[h.arr[k]] = k
  BY DEF Placed
<1> HIDE DEF arr, index1
<1>9. \A k \in 1..n : index1[arr[k]] = k
  <2> TAKE k \in 1..n
  <2>1. CASE k = i
    BY <1>3, <1>5, <1>7, <1>8, <2>1
  <2>2. CASE k = j
    BY <1>3, <1>5, <1>7, <1>8, <2>2
  <2>3. CASE k # i /\ k # j
    <3>1. h.arr[k] # a /\ h.arr[k] # b /\ h.arr[k] \in DOMAIN os
      BY <1>1, <1>8, <2>3
    <3> QED BY <1>5, <1>7, <1>8, <2>3, <3>1
  <2> QED BY <2>1, <2>2, <2>3
<1>10. ToSet(arr) = ToSet(h.arr)
  <2>1. ToSet(arr) = { arr[k] : k \in 1..n } /\ ToSet(h.arr) = { h.arr[k] : k \in 1..n }
    BY <1>1, <1>4 DEF ToSet
  <2>2. \A k \in 1..n : \E l \in 1..n : arr[k] = h.arr[l]
    BY <1>5
  <2>3. \A k \in 1..n : \E l \in 1..n : h.arr[k] = arr[l]
    BY <1>5
  <2> QED BY <2>1, <2>2, <2>3
<1>11. \A id \in DOMAIN os \ ToSet(h.arr) : index1[id] = h.index[id]
  <2>1. a \in ToSet(h.arr) /\ b \in ToSet(h.arr)
    BY <1>1, SliceFacts
  <2> QED BY <1>7, <2>1
<1> DEFINE g == [arr |-> arr, index |-> index1]
<1>12. g.arr = arr /\ g.index = index1 /\ g \in HeapsOver(os)
  BY <1>4, <1>6 DEF HeapsOver
<1> HIDE DEF g
<1>13. Swapped(os, g, h, i, j)
  BY <1>1, <1>4, <1>5, <1>9, <1>10, <1>11, <1>12 DEF Swapped, Placed, Size
<1> QED BY <1>2, <1>13 DEF g

\* A swap among the first m entries leaves the heap sifted as it was.
LEMMA SwapSifted ==
  ASSUME NEW os, NEW h, NEW g, NEW m \in Nat, m <= Size(h), Sifted(os, g, h, m),
         NEW i \in 1..m, NEW j \in 1..m
  PROVE  Sifted(os, Swap(g, i, j), h, m)
<1>1. g \in HeapsOver(os) /\ Placed(g) /\ Size(g) = Size(h)
  BY DEF Sifted
<1>2. Size(g) \in Nat /\ i \in 1..Size(g) /\ j \in 1..Size(g)
  <2>1. Size(g) \in Nat
    BY <1>1, SliceFacts DEF HeapsOver, Size
  <2> QED BY <1>1, <2>1
<1> DEFINE s == Swap(g, i, j)
<1>3. /\ s \in HeapsOver(os) /\ Placed(s) /\ Size(s) = Size(g)
      /\ \A k \in 1..Size(g) :
           s.arr[k] = IF k = i THEN g.arr[j] ELSE IF k = j THEN g.arr[i] ELSE g.arr[k]
      /\ ToSet(s.arr) = ToSet(g.arr)
      /\ \A id \in DOMAIN os \ ToSet(g.arr) : s.index[id] = g.index[id]
  BY <1>1, <1>2, SwapFacts DEF Swapped
<1> HIDE DEF s
<1>4. \A k \in (m + 1)..Size(h) : s.arr[k] = h.arr[k]
  <2> TAKE k \in (m + 1)..Size(h)
  <2>1. k \in 1..Size(g) /\ k # i /\ k # j
    BY <1>1, <1>2
  <2>2. s.arr[k] = g.arr[k]
    BY <1>3, <2>1
  <2> QED BY <2>2 DEF Sifted
<1>5. Sifted(os, s, h, m)
  BY <1>1, <1>3, <1>4 DEF Sifted
<1> QED BY <1>5 DEF s

\* It exchanges the two.
LEMMA SwapMoves ==
  ASSUME NEW os, NEW h, NEW g, NEW m \in Nat, m <= Size(h), Sifted(os, g, h, m),
         NEW i \in 1..m, NEW j \in 1..m, NEW k \in 1..m
  PROVE  Swap(g, i, j).arr[k] = IF k = i THEN g.arr[j] ELSE IF k = j THEN g.arr[i] ELSE g.arr[k]
<1>1. g \in HeapsOver(os) /\ Placed(g) /\ Size(g) = Size(h) /\ Size(g) \in Nat
  BY SliceFacts DEF Sifted, HeapsOver, Size
<1>2. i \in 1..Size(g) /\ j \in 1..Size(g) /\ k \in 1..Size(g)
  BY <1>1
<1>3. Swapped(os, Swap(g, i, j), g, i, j)
  BY <1>1, <1>2, SwapFacts
<1> QED BY <1>2, <1>3 DEF Swapped

--------------------------------------------------------------------------------
(***************************************************************************)
(* heap.up.                                                                *)
(***************************************************************************)

\* Ahead is a strict order on E, and so is its complement turned round but for ties.
Ranked(os, E) ==
  /\ \A a, b \in E : Ahead(os[a], os[b]) => ~Ahead(os[b], os[a])
  /\ \A a, b, c \in E :
       ~Ahead(os[b], os[a]) /\ ~Ahead(os[c], os[b]) => ~Ahead(os[c], os[a])

\* The entry at i is not ahead of the one at j.
Behind(os, arr, i, j) == ~Ahead(os[arr[i]], os[arr[j]])

\* Parents come before their children, and a parent has two.
LEMMA ParentFacts ==
  ASSUME NEW i \in Nat, i >= 2
  PROVE  /\ i \div 2 \in Nat /\ i \div 2 >= 1 /\ i \div 2 < i
         /\ i = 2 * (i \div 2) \/ i = 2 * (i \div 2) + 1
OBVIOUS

\* Among the first m entries only the one at k may be ahead of its parent, and the children
\* of k are not ahead of that parent.
OrderedBut(os, arr, k, m) ==
  /\ \A i \in 2..m : i # k => Behind(os, arr, i, i \div 2)
  /\ k > 1 => \A i \in 2..m : i \div 2 = k => Behind(os, arr, i, k \div 2)

\* The states of heap.up's loop among the first m entries of h.
UpStates(os, h, m) ==
  { c \in Loops(os) : /\ Sifted(os, c.heap, h, m)
                      /\ c.at \in 1..m
                      /\ OrderedBut(os, c.heap.arr, c.at, m) }

\* A turn of heap.up's loop: nothing moves, and then the first m entries are ordered, or the
\* entry moves to its parent's place.
LEMMA UpTurnFacts ==
  ASSUME NEW os, NEW h \in HeapsOver(os), NEW m \in Nat, m <= Size(h),
         Ranked(os, ToSet(h.arr)), NEW c \in UpStates(os, h, m)
  PROVE  /\ UpTurn(os)[c] \in UpStates(os, h, m)
         /\ \/ /\ UpTurn(os)[c] = c
               /\ \A i \in 2..m : Behind(os, c.heap.arr, i, i \div 2)
            \/ UpTurn(os)[c].at < c.at
<1> DEFINE k == c.at
           p == k \div 2
           arr == c.heap.arr
<1>1. /\ c \in Loops(os) /\ Sifted(os, c.heap, h, m) /\ k \in 1..m
      /\ OrderedBut(os, arr, k, m)
  BY DEF UpStates
<1>2. UpTurn(os)[c] = IF k = 1 \/ ~Less(os, c.heap, k, p) THEN c
                      ELSE [heap |-> Swap(c.heap, p, k), at |-> p]
  BY <1>1 DEF UpTurn
<1>3. /\ c.heap \in HeapsOver(os) /\ Size(c.heap) = Size(h) /\ Size(h) \in Nat
      /\ \A i \in 1..m : arr[i] \in ToSet(h.arr)
  <2>1. c.heap \in HeapsOver(os) /\ Size(c.heap) = Size(h) /\ ToSet(arr) = ToSet(h.arr)
    BY <1>1 DEF Sifted
  <2>2. arr \in Seq(DOMAIN os) /\ Len(arr) = Size(h)
    BY <2>1 DEF HeapsOver, Size
  <2>3. Len(arr) \in Nat /\ \A i \in 1..Len(arr) : arr[i] \in ToSet(arr)
    BY <2>2, SliceFacts
  <2> QED BY <2>1, <2>2, <2>3
<1> HIDE DEF arr
<1>4. CASE k = 1 \/ ~Less(os, c.heap, k, p)
  <2>1. UpTurn(os)[c] = c
    BY <1>2, <1>4
  <2>2. ASSUME NEW i \in 2..m PROVE Behind(os, arr, i, i \div 2)
    BY <1>1, <1>4 DEF OrderedBut, Behind, Less, arr
  <2> QED BY <2>1, <2>2 DEF arr
<1>5. CASE ~(k = 1 \/ ~Less(os, c.heap, k, p))
  <2> DEFINE d == UpTurn(os)[c]
             new == Swap(c.heap, p, k).arr
  <2>1. d = [heap |-> Swap(c.heap, p, k), at |-> p]
    BY <1>2, <1>5
  <2>2. /\ k \in Nat /\ k >= 2 /\ p \in 1..m /\ k \in 1..m /\ p < k
        /\ p \in Nat /\ p >= 1
    BY <1>1, <1>5, ParentFacts
  <2>3. Sifted(os, Swap(c.heap, p, k), h, m)
    BY <1>1, <2>2, SwapSifted
  <2>4. new[p] = arr[k] /\ new[k] = arr[p] /\ \A i \in 1..m \ {p, k} : new[i] = arr[i]
    <3> DEFINE g == c.heap
    <3>1. Sifted(os, g, h, m) /\ p \in 1..m /\ k \in 1..m
      BY <1>1, <2>2
    <3> HIDE DEF g, p, k
    <3>2. /\ Swap(g, p, k).arr[p] = g.arr[k] /\ Swap(g, p, k).arr[k] = g.arr[p]
          /\ \A i \in 1..m \ {p, k} : Swap(g, p, k).arr[i] = g.arr[i]
      BY <3>1, SwapMoves
    <3> QED BY <3>2 DEF g, arr
  <2> HIDE DEF new
  <2>5. Ahead(os[arr[k]], os[arr[p]]) /\ Behind(os, arr, p, k)
    <3>1. Ahead(os[arr[k]], os[arr[p]])
      BY <1>5 DEF Less, arr
    <3> QED BY <1>3, <2>2, <3>1 DEF Ranked, Behind
  <2>6. ASSUME NEW i \in 1..m, NEW j \in 1..m, NEW l \in 1..m,
               Behind(os, arr, j, i), Behind(os, arr, l, j)
        PROVE  Behind(os, arr, l, i)
    BY <1>3, <2>6 DEF Ranked, Behind
  <2>7. ASSUME NEW i \in 2..m, i # p PROVE Behind(os, new, i, i \div 2)
    <3>1. i \in Nat /\ i >= 2 /\ i \in 1..m /\ i \div 2 \in 1..m /\ i \div 2 # i
      BY ParentFacts
    <3>2. CASE i = k
      BY <2>4, <2>5, <3>2 DEF Behind
    <3>3. CASE i # k
      <4>1. Behind(os, arr, i, i \div 2)
        BY <1>1, <3>3 DEF OrderedBut
      <4>2. CASE i \div 2 = k
        <5>1. Behind(os, arr, i, p)
          BY <1>1, <2>2, <4>2 DEF OrderedBut
        <5> QED BY <2>4, <2>7, <3>1, <3>3, <4>2, <5>1 DEF Behind
      <4>3. CASE i \div 2 = p
        <5>1. Behind(os, arr, i, k)
          BY <2>2, <2>5, <2>6, <3>1, <4>1, <4>3
        <5> QED BY <2>4, <2>7, <3>1, <3>3, <4>3, <5>1 DEF Behind
      <4>4. CASE i \div 2 # k /\ i \div 2 # p
        BY <2>4, <2>7, <3>1, <3>3, <4>1, <4>4 DEF Behind
      <4> QED BY <4>2, <4>3, <4>4
    <3> QED BY <3>2, <3>3
  <2>8. ASSUME p > 1, NEW i \in 2..m, i \div 2 = p PROVE Behind(os, new, i, p \div 2)
    <3>1. p \div 2 \in 1..m /\ p \div 2 < p /\ p \in 2..m /\ i \in 1..m /\ i # p
      BY <2>2, <2>8, ParentFacts
    <3>2. Behind(os, arr, p, p \div 2)
      BY <1>1, <2>2, <3>1 DEF OrderedBut
    <3>3. new[p \div 2] = arr[p \div 2]
      BY <2>2, <2>4, <3>1
    <3>4. CASE i = k
      BY <2>4, <3>2, <3>3, <3>4 DEF Behind
    <3>5. CASE i # k
      <4>1. Behind(os, arr, i, p)
        BY <1>1, <2>8, <3>5 DEF OrderedBut
      <4>2. Behind(os, arr, i, p \div 2)
        BY <2>2, <2>6, <3>1, <3>2, <4>1
      <4> QED BY <2>4, <3>1, <3>3, <3>5, <4>2 DEF Behind
    <3> QED BY <3>4, <3>5
  <2>9. OrderedBut(os, new, p, m)
    BY <2>7, <2>8 DEF OrderedBut
  <2>10. Swap(c.heap, p, k) \in HeapsOver(os)
    BY <2>3 DEF Sifted
  <2>11. d \in UpStates(os, h, m)
    <3>1. d.heap = Swap(c.heap, p, k) /\ d.at = p /\ d \in Loops(os)
      BY <2>1, <2>2, <2>10 DEF Loops
    <3> QED BY <2>2, <2>3, <2>9, <3>1 DEF UpStates, new
  <2> QED BY <2>1, <2>2, <2>11
<1> QED BY <1>4, <1>5

\* heap.up orders the first m entries, when only the one it starts from is out of order.
LEMMA UpFacts ==
  ASSUME NEW os, NEW h \in HeapsOver(os), Placed(h), NEW m \in Nat, m <= Size(h),
         Ranked(os, ToSet(h.arr)), NEW j \in 1..m, OrderedBut(os, h.arr, j, m)
  PROVE  /\ Sifted(os, Up(os, h, j), h, m)
         /\ \A i \in 2..m : Behind(os, Up(os, h, j).arr, i, i \div 2)
<1> DEFINE S == UpStates(os, h, m)
           c == [heap |-> h, at |-> j]
           u == UpTurn(os)
           Done == { d \in S : \A i \in 2..m : Behind(os, d.heap.arr, i, i \div 2) }
<1>1. c \in S
  <2>1. Sifted(os, h, h, m)
    BY DEF Sifted
  <2> QED BY <2>1 DEF UpStates, Loops
<1>2. \A d \in S : d.at \in 1..m /\ Sifted(os, d.heap, h, m)
  BY DEF UpStates
<1>3. \A d \in S : /\ u[d] \in S /\ d.at \in Nat /\ d.at >= 1
                   /\ (u[d] = d /\ d \in Done) \/ u[d].at < d.at
  BY <1>2, UpTurnFacts
<1> DEFINE e == Repeat(u, c, c.at)
<1>4. Up(os, h, j) = e.heap
  BY DEF Up
<1>5. e \in S /\ e \in Done
  <2> HIDE DEF S, Done, u, c
  <2> QED BY <1>1, <1>3, LoopEnds
<1> HIDE DEF e
<1> QED BY <1>2, <1>4, <1>5

--------------------------------------------------------------------------------
(***************************************************************************)
(* heap.down.                                                              *)
(***************************************************************************)

\* Among the first m entries only the children of k may be ahead of their parent, and k
\* itself as long as it is where the loop began; the children of k are not ahead of k's.
OrderedAbove(os, arr, k, start, m) ==
  /\ \A i \in 2..m : i \div 2 # k /\ (i # k \/ k # start) => Behind(os, arr, i, i \div 2)
  /\ k > 1 => \A i \in 2..m : i \div 2 = k => Behind(os, arr, i, k \div 2)

\* The states of heap.down's loop among the first m entries of h.
DownStates(os, h, start, m) ==
  { c \in Loops(os) : /\ Sifted(os, c.heap, h, m)
                      /\ c.at >= start /\ (c.at > start => c.at <= m)
                      /\ OrderedAbove(os, c.heap.arr, c.at, start, m) }

\* The children of k are not ahead of it.
OrderedBelow(os, arr, k, m) == \A i \in 2..m : i \div 2 = k => Behind(os, arr, i, k)

\* What a sifted heap has among its first m entries.
LEMMA SiftedEntries ==
  ASSUME NEW os, NEW h, NEW g, NEW m \in Nat, m <= Size(h), Sifted(os, g, h, m)
  PROVE  /\ g \in HeapsOver(os) /\ Size(h) \in Nat
         /\ \A i \in 1..m : g.arr[i] \in ToSet(h.arr)
<1>1. g \in HeapsOver(os) /\ Size(g) = Size(h) /\ ToSet(g.arr) = ToSet(h.arr)
  BY DEF Sifted
<1>2. g.arr \in Seq(DOMAIN os) /\ Len(g.arr) = Size(h)
  BY <1>1 DEF HeapsOver, Size
<1>3. Len(g.arr) \in Nat /\ \A i \in 1..Len(g.arr) : g.arr[i] \in ToSet(g.arr)
  BY <1>2, SliceFacts
<1> QED BY <1>1, <1>2, <1>3

\* A turn of heap.down's loop: nothing moves, and then the children of c.at are not ahead of
\* it, or the entry moves to the place of a child.
LEMMA DownTurnFacts ==
  ASSUME NEW os, NEW h, NEW m \in Nat, m <= Size(h), Ranked(os, ToSet(h.arr)),
         NEW start \in Nat \ {0}, NEW c \in DownStates(os, h, start, m)
  PROVE  /\ DownTurn(os, m)[c] \in DownStates(os, h, start, m)
         /\ \/ DownTurn(os, m)[c] = c /\ OrderedBelow(os, c.heap.arr, c.at, m)
            \/ DownTurn(os, m)[c].at > c.at
<1> DEFINE k == c.at
           arr == c.heap.arr
           l == 2 * k
           j == IF l + 1 <= m /\ Less(os, c.heap, l + 1, l) THEN l + 1 ELSE l
<1>1. /\ c \in Loops(os) /\ Sifted(os, c.heap, h, m) /\ k \in Nat /\ k >= 1
      /\ k >= start /\ (k > start => k <= m)
      /\ OrderedAbove(os, arr, k, start, m)
  BY DEF DownStates, Loops
<1>2. DownTurn(os, m)[c] = IF l > m \/ ~Less(os, c.heap, j, k) THEN c
                           ELSE [heap |-> Swap(c.heap, k, j), at |-> j]
  BY <1>1 DEF DownTurn
<1>3. \A i \in 1..m : arr[i] \in ToSet(h.arr)
  BY <1>1, SiftedEntries
<1>4. l \in Nat /\ l > k /\ (l + 1) \div 2 = k /\ l \div 2 = k
  BY <1>1
<1>5. \A i \in 2..m : i \div 2 = k => i = l \/ i = l + 1
  BY ParentFacts
<1>6. \A a, b \in 1..m : Ahead(os[arr[a]], os[arr[b]]) => Behind(os, arr, b, a)
  BY <1>3 DEF Ranked, Behind
<1>7. \A a, b, d \in 1..m : Behind(os, arr, b, a) /\ Behind(os, arr, d, b) => Behind(os, arr, d, a)
  BY <1>3 DEF Ranked, Behind
<1>8. l <= m => /\ j \in 2..m /\ j \div 2 = k /\ j > k
                /\ \A i \in 2..m : i \div 2 = k /\ i # j => Behind(os, arr, i, j)
  <2> SUFFICES ASSUME l <= m
               PROVE  /\ j \in 2..m /\ j \div 2 = k /\ j > k
                      /\ \A i \in 2..m : i \div 2 = k /\ i # j => Behind(os, arr, i, j)
    OBVIOUS
  <2>1. CASE l + 1 <= m /\ Less(os, c.heap, l + 1, l)
    <3>1. j = l + 1 /\ l \in 1..m /\ l + 1 \in 1..m
      BY <1>1, <1>4, <2>1
    <3>2. Behind(os, arr, l, l + 1)
      BY <1>6, <2>1, <3>1 DEF Less
    <3> HIDE DEF l, j
    <3> QED BY <1>1, <1>4, <1>5, <3>1, <3>2
  <2>2. CASE ~(l + 1 <= m /\ Less(os, c.heap, l + 1, l))
    <3>1. j = l
      BY <2>2
    <3>2. l + 1 \in 2..m => Behind(os, arr, l + 1, l)
      BY <2>2 DEF Less, Behind
    <3> HIDE DEF l, j
    <3> QED BY <1>1, <1>4, <1>5, <3>1, <3>2
  <2> QED BY <2>1, <2>2
<1> HIDE DEF j, l, arr
<1>9. CASE l > m \/ ~Less(os, c.heap, j, k)
  <2>1. DownTurn(os, m)[c] = c
    BY <1>2, <1>9
  <2>2. ASSUME NEW i \in 2..m, i \div 2 = k PROVE Behind(os, arr, i, k)
    <3>1. l <= m /\ i \in 1..m /\ k \in 1..m
      BY <1>1, <1>4, <1>5, <2>2
    <3>2. Behind(os, arr, j, k)
      BY <1>9, <3>1, <1>4 DEF Less, Behind, arr
    <3>3. i # j => Behind(os, arr, i, j)
      BY <1>8, <2>2, <3>1
    <3>4. j \in 1..m
      BY <1>8, <3>1
    <3> QED BY <1>7, <3>1, <3>2, <3>3, <3>4
  <2> QED BY <2>1, <2>2 DEF OrderedBelow, arr
<1>10. CASE ~(l > m \/ ~Less(os, c.heap, j, k))
  <2> DEFINE new == Swap(c.heap, k, j).arr
  <2>1. DownTurn(os, m)[c] = [heap |-> Swap(c.heap, k, j), at |-> j]
    BY <1>2, <1>10
  <2>2. /\ j \in 2..m /\ j \in 1..m /\ j \in Nat /\ j \div 2 = k /\ j > k /\ k \in 1..m
        /\ \A i \in 2..m : i \div 2 = k /\ i # j => Behind(os, arr, i, j)
    BY <1>1, <1>4, <1>8, <1>10
  <2>3. Sifted(os, Swap(c.heap, k, j), h, m)
    BY <1>1, <2>2, SwapSifted
  <2>4. new[k] = arr[j] /\ new[j] = arr[k] /\ \A i \in 1..m \ {k, j} : new[i] = arr[i]
    <3> DEFINE g == c.heap
    <3>1. Sifted(os, g, h, m) /\ k \in 1..m /\ j \in 1..m
      BY <1>1, <2>2
    <3> HIDE DEF g, k
    <3>2. /\ Swap(g, k, j).arr[k] = g.arr[j] /\ Swap(g, k, j).arr[j] = g.arr[k]
          /\ \A i \in 1..m \ {k, j} : Swap(g, k, j).arr[i] = g.arr[i]
      BY <3>1, SwapMoves
    <3> QED BY <3>2 DEF g, arr
  <2> HIDE DEF new
  <2>5. Behind(os, arr, k, j)
    BY <1>6, <1>10, <2>2 DEF Less, arr
  <2>6. ASSUME NEW i \in 2..m, i \div 2 # j PROVE Behind(os, new, i, i \div 2)
    <3>1. i \in Nat /\ i >= 2 /\ i \in 1..m /\ i \div 2 \in 1..m /\ i \div 2 # i
      BY ParentFacts
    <3>2. CASE i = j
      BY <2>2, <2>4, <2>5, <3>2 DEF Behind
    <3>3. CASE i = k
      <4>1. Behind(os, arr, j, k \div 2)
        BY <1>1, <2>2, <3>1, <3>3 DEF OrderedAbove
      <4>2. new[i \div 2] = arr[k \div 2] /\ new[i] = arr[j]
        BY <2>4, <2>6, <3>1, <3>3
      <4> QED BY <3>3, <4>1, <4>2 DEF Behind
    <3>4. CASE i # j /\ i # k /\ i \div 2 = k
      BY <2>2, <2>4, <3>1, <3>4 DEF Behind
    <3>5. CASE i # j /\ i # k /\ i \div 2 # k
      <4>1. Behind(os, arr, i, i \div 2)
        BY <1>1, <3>5 DEF OrderedAbove
      <4> QED BY <2>4, <2>6, <3>1, <3>5, <4>1 DEF Behind
    <3> QED BY <3>2, <3>3, <3>4, <3>5
  <2>7. ASSUME NEW i \in 2..m, i \div 2 = j PROVE Behind(os, new, i, j \div 2)
    <3>1. i \in 1..m /\ i # j /\ i # k /\ i \div 2 # k
      BY <2>2, <2>7, ParentFacts
    <3>2. Behind(os, arr, i, j)
      BY <1>1, <2>7, <3>1 DEF OrderedAbove
    <3> QED BY <2>2, <2>4, <3>1, <3>2 DEF Behind
  <2>8. OrderedAbove(os, new, j, start, m)
    BY <2>6, <2>7 DEF OrderedAbove
  <2>9. Swap(c.heap, k, j) \in HeapsOver(os)
    BY <2>3 DEF Sifted
  <2> DEFINE d == DownTurn(os, m)[c]
  <2>10. d \in DownStates(os, h, start, m)
    <3>1. d.heap = Swap(c.heap, k, j) /\ d.at = j /\ d \in Loops(os)
      BY <2>1, <2>2, <2>9 DEF Loops
    <3>2. j >= start /\ j <= m
      BY <1>1, <2>2
    <3> QED BY <2>3, <2>8, <3>1, <3>2 DEF DownStates, new
  <2> QED BY <2>1, <2>2, <2>10
<1> QED BY <1>9, <1>10

\* heap.down leaves its loop, with the children of where it has got to in order.
LEMMA DownFacts ==
  ASSUME NEW os, NEW h \in HeapsOver(os), Placed(h), NEW m \in Nat, m <= Size(h),
         Ranked(os, ToSet(h.arr)), NEW start \in Nat \ {0},
         OrderedAbove(os, h.arr, start, start, m)
  PROVE  /\ Down(os, h, start, m) \in DownStates(os, h, start, m)
         /\ OrderedBelow(os, Down(os, h, start, m).heap.arr, Down(os, h, start, m).at, m)
<1> DEFINE S == DownStates(os, h, start, m)
           c == [heap |-> h, at |-> start]
           u == DownTurn(os, m)
           after(n) == Repeat(u, c, n)
           Left(d) == OrderedBelow(os, d.heap.arr, d.at, m)
<1>1. c \in S
  <2>1. Sifted(os, h, h, m)
    BY DEF Sifted
  <2> QED BY <2>1 DEF DownStates, Loops
<1>2. \A d \in S : u[d] \in S /\ ((u[d] = d /\ Left(d)) \/ u[d].at > d.at)
  BY DownTurnFacts
<1>3. \A d \in S : /\ d.at \in Nat /\ (d.at > start => d.at <= m)
                   /\ d.at > m => Left(d)
  <2> TAKE d \in S
  <2>1. d.at \in Nat /\ (d.at > start => d.at <= m)
    BY DEF DownStates, Loops
  <2>2. d.at > m => Left(d)
    BY <2>1, ParentFacts DEF OrderedBelow
  <2> QED BY <2>1, <2>2
<1> HIDE DEF S, Left
<1>4. after(0) = c /\ \A n \in Nat : after(n) \in S /\ after(n + 1) = u[after(n)]
  <2>1. Closed(S, u)
    BY <1>2 DEF Closed
  <2> HIDE DEF c, u
  <2> QED BY ONLY <1>1, <2>1, RepeatTurns
<1> HIDE DEF after
<1>5. \A n \in Nat : (u[after(n)] = after(n) /\ Left(after(n))) \/ after(n).at >= start + n
  <2> DEFINE T == { n \in Nat : \/ u[after(n)] = after(n) /\ Left(after(n))
                                \/ after(n).at >= start + n }
  <2>1. 0 \in T
    BY <1>4
  <2>2. ASSUME NEW n \in Nat, n \in T PROVE n + 1 \in T
    <3>1. after(n) \in S /\ after(n + 1) \in S /\ after(n + 1) = u[after(n)]
      BY <1>4
    <3>2. CASE u[after(n)] = after(n) /\ Left(after(n))
      BY <3>1, <3>2
    <3>3. CASE ~(u[after(n)] = after(n) /\ Left(after(n)))
      <4>1. after(n + 1).at > after(n).at /\ after(n).at >= start + n
        BY <1>2, <2>2, <3>1, <3>3
      <4>2. after(n).at \in Nat /\ after(n + 1).at \in Nat
        BY <1>3, <3>1
      <4>3. after(n + 1).at >= start + (n + 1)
        BY <4>1, <4>2
      <4> QED BY <4>3
    <3> QED BY <3>2, <3>3
  <2> HIDE DEF T
  <2>3. Nat \subseteq T
    BY <2>1, <2>2, Induction
  <2> QED BY <2>3 DEF T
<1>6. after(m) \in S /\ after(m).at \in Nat /\ (after(m).at > m => Left(after(m)))
  BY <1>3, <1>4
<1>7. Left(after(m))
  BY <1>5, <1>6
<1>8. Down(os, h, start, m) = after(m)
  BY DEF Down, after
<1> QED BY <1>6, <1>7, <1>8 DEF S, Left

--------------------------------------------------------------------------------
(***************************************************************************)
(* heap.Push, heap.Pop and heap.Remove.                                    *)
(***************************************************************************)

\* A heap as it is between two operations.
IsHeap(os, h) == h \in HeapsOver(os) /\ Placed(h) /\ Ordered(os, h.arr)

\* No entry is ahead of the root.
LEMMA RootFirst ==
  ASSUME NEW os, NEW h \in HeapsOver(os), Ordered(os, h.arr), Ranked(os, ToSet(h.arr))
  PROVE  \A i \in 1..Size(h) : Behind(os, h.arr, i, 1)
<1> DEFINE T == { i \in 1..Size(h) : ~Behind(os, h.arr, i, 1) }
<1> SUFFICES ASSUME T # {} PROVE FALSE
  OBVIOUS
<1>1. Size(h) \in Nat /\ \A i \in 1..Size(h) : h.arr[i] \in ToSet(h.arr)
  BY SliceFacts DEF HeapsOver, Size
<1>2. PICK x \in T : \A y \in T : x <= y
  <2>1. T \in SUBSET Nat
    BY <1>1
  <2> HIDE DEF T
  <2> QED BY <2>1, LeastNatural
<1>3. x \in 1..Size(h) /\ x \in Nat /\ Ahead(os[h.arr[x]], os[h.arr[1]])
  BY <1>1, <1>2 DEF Behind
<1>4. x # 1
  BY <1>1, <1>3 DEF Ranked
<1>5. x \in 2..Size(h) /\ x \div 2 \in 1..Size(h) /\ x \div 2 < x /\ x \div 2 \in Nat
  BY <1>1, <1>3, <1>4, ParentFacts
<1>6. Behind(os, h.arr, x \div 2, 1)
  BY <1>2, <1>3, <1>5
<1>7. Behind(os, h.arr, x, x \div 2)
  BY <1>5 DEF Ordered, Behind, Size
<1>8. 1 \in 1..Size(h)
  BY <1>1, <1>3
<1> QED BY <1>1, <1>3, <1>5, <1>6, <1>7, <1>8 DEF Ranked, Behind

\* g is h without its last entry, the n-th.
Shrunk(os, g, h, n) ==
  /\ g \in HeapsOver(os) /\ Placed(g)
  /\ Size(g) = n - 1
  /\ ToSet(g.arr) = ToSet(h.arr) \ {h.arr[n]}
  /\ \A i \in 1..(n - 1) : g.arr[i] = h.arr[i]
  /\ g.index[h.arr[n]] = 0
  /\ \A id \in DOMAIN os \ ToSet(h.arr) : g.index[id] = h.index[id]

\* The Pop method takes the last entry away.
LEMMA ShrinkFacts ==
  ASSUME NEW os, NEW h \in HeapsOver(os), Placed(h), NEW n \in Nat, n = Size(h), n > 0
  PROVE  Shrunk(os, Shrink(h), h, n)
<1> DEFINE arr == SubSeq(h.arr, 1, n - 1)
           index1 == [h.index EXCEPT ![h.arr[n]] = 0]
<1>1. /\ h.arr \in Seq(DOMAIN os) /\ h.index \in [DOMAIN os -> Nat] /\ Len(h.arr) = n
      /\ \A i \in 1..n : h.arr[i] \in DOMAIN os /\ h.arr[i] \in ToSet(h.arr)
      /\ \A id \in ToSet(h.arr) : \E i \in 1..n : h.arr[i] = id
      /\ \A i \in 1..n : h.index[h.arr[i]] = i
      /\ n \in 1..n
  BY SliceFacts DEF HeapsOver, Size, Placed
<1>2. Shrink(h) = [arr |-> arr, index |-> index1]
  BY DEF Shrink
<1>3. arr \in Seq(DOMAIN os) /\ Len(arr) = n - 1 /\ \A i \in 1..(n - 1) : arr[i] = h.arr[i]
  BY <1>1
<1>4. index1 \in [DOMAIN os -> Nat]
  BY <1>1
<1>5. \A id \in DOMAIN os : index1[id] = IF id = h.arr[n] THEN 0 ELSE h.index[id]
  BY <1>1
<1> HIDE DEF arr, index1
<1>6. \A i \in 1..(n - 1) : i \in 1..n /\ h.arr[i] # h.arr[n]
  <2> TAKE i \in 1..(n - 1)
  <2>1. i \in 1..n /\ n \in 1..n /\ i # n
    OBVIOUS
  <2> QED BY <1>1, <2>1
<1>7. \A i \in 1..(n - 1) : index1[arr[i]] = i
  <2> TAKE i \in 1..(n - 1)
  <2>1. h.arr[i] \in DOMAIN os /\ h.arr[i] # h.arr[n] /\ h.index[h.arr[i]] = i
    BY <1>1, <1>6
  <2> QED BY <1>3, <1>5, <2>1
<1>8. ToSet(arr) = ToSet(h.arr) \ {h.arr[n]}
  <2>1. \A id \in ToSet(arr) : \E i \in 1..(n - 1) : arr[i] = id
    BY <1>3, SliceFacts
  <2>2. \A i \in 1..(n - 1) : arr[i] \in ToSet(arr)
    BY <1>3, SliceFacts
  <2>3. ASSUME NEW id \in ToSet(arr) PROVE id \in ToSet(h.arr) /\ id # h.arr[n]
    <3>1. PICK i \in 1..(n - 1) : arr[i] = id
      BY <2>1
    <3> QED BY <1>1, <1>3, <1>6, <3>1
  <2>4. ASSUME NEW id \in ToSet(h.arr), id # h.arr[n] PROVE id \in ToSet(arr)
    <3>1. PICK i \in 1..n : h.arr[i] = id
      BY <1>1
    <3>2. i \in 1..(n - 1)
      BY <2>4, <3>1
    <3> QED BY <1>3, <2>2, <3>1, <3>2
  <2> QED BY <2>3, <2>4
<1>9. \A id \in DOMAIN os \ ToSet(h.arr) : index1[id] = h.index[id]
  BY <1>1, <1>5
<1>10. index1[h.arr[n]] = 0
  BY <1>1, <1>5
<1> DEFINE g == [arr |-> arr, index |-> index1]
<1>11. g.arr = arr /\ g.index = index1 /\ g \in HeapsOver(os)
  BY <1>3, <1>4 DEF HeapsOver
<1> HIDE DEF g
<1>12. Shrunk(os, g, h, n)
  BY <1>3, <1>7, <1>8, <1>9, <1>10, <1>11 DEF Shrunk, Placed, Size
<1> QED BY <1>2, <1>12 DEF g

\* g is the heap h with the entry id taken out, and its Index forgotten.
Without(os, g, h, id) ==
  /\ IsHeap(os, g)
  /\ Size(g) = Size(h) - 1
  /\ ToSet(g.arr) = ToSet(h.arr) \ {id}
  /\ g.index[id] = 0
  /\ \A x \in DOMAIN os \ ToSet(h.arr) : g.index[x] = h.index[x]

\* Taking the last entry of a sifted heap away, when the others are in order.
LEMMA ShrinkSifted ==
  ASSUME NEW os, NEW h, NEW g, NEW n \in Nat, n > 0, n = Size(h),
         Sifted(os, g, h, n - 1), \A i \in 2..(n - 1) : Behind(os, g.arr, i, i \div 2)
  PROVE  Without(os, Shrink(g), h, h.arr[n])
<1> DEFINE s == Shrink(g)
           last == h.arr[n]
<1>1. /\ g \in HeapsOver(os) /\ Placed(g) /\ Size(g) = n /\ ToSet(g.arr) = ToSet(h.arr)
      /\ g.arr[n] = last
      /\ \A id \in DOMAIN os \ ToSet(h.arr) : g.index[id] = h.index[id]
  BY DEF Sifted
<1>2. /\ s \in HeapsOver(os) /\ Placed(s) /\ Size(s) = n - 1
      /\ ToSet(s.arr) = ToSet(g.arr) \ {g.arr[n]}
      /\ \A i \in 1..(n - 1) : s.arr[i] = g.arr[i]
      /\ s.index[g.arr[n]] = 0
      /\ \A id \in DOMAIN os \ ToSet(g.arr) : s.index[id] = g.index[id]
  <2>1. Shrunk(os, s, g, n)
    BY <1>1, ShrinkFacts
  <2> HIDE DEF s
  <2> QED BY <2>1 DEF Shrunk
<1> HIDE DEF s, last
<1>3. Ordered(os, s.arr)
  <2> SUFFICES ASSUME NEW i \in 2..(n - 1) PROVE ~Ahead(os[s.arr[i]], os[s.arr[i \div 2]])
    BY <1>2 DEF Ordered, Size
  <2>1. i \in 1..(n - 1) /\ i \div 2 \in 1..(n - 1)
    BY ParentFacts
  <2>2. s.arr[i] = g.arr[i] /\ s.arr[i \div 2] = g.arr[i \div 2]
    BY <1>2, <2>1
  <2> QED BY <2>2 DEF Behind
<1>4. Without(os, s, h, last)
  BY <1>1, <1>2, <1>3 DEF Without, IsHeap
<1> QED BY <1>4 DEF s, last

\* heap.Remove takes the entry at i out, wherever it is.
LEMMA HeapRemoveFacts ==
  ASSUME NEW os, NEW h, IsHeap(os, h), Ranked(os, ToSet(h.arr)), NEW i \in 1..Size(h)
  PROVE  Without(os, HeapRemove(os, h, i), h, h.arr[i])
<1> DEFINE n == Size(h)
           m == n - 1
           moved == Swap(h, i, n)
           down == Down(os, moved, i, m)
<1>1. /\ h \in HeapsOver(os) /\ Placed(h) /\ n \in Nat /\ n > 0 /\ m \in Nat /\ i \in 1..n
      /\ n \in 1..n
      /\ \A k \in 2..n : Behind(os, h.arr, k, k \div 2)
      /\ \A k \in 1..n : h.arr[k] \in ToSet(h.arr)
  <2>1. h \in HeapsOver(os) /\ Placed(h) /\ Ordered(os, h.arr)
    BY DEF IsHeap
  <2>2. n \in Nat /\ \A k \in 1..n : h.arr[k] \in ToSet(h.arr)
    BY <2>1, SliceFacts DEF HeapsOver, Size
  <2> QED BY <2>1, <2>2 DEF Ordered, Behind, Size
<1>2. HeapRemove(os, h, i) = IF i = n THEN Shrink(h)
                             ELSE IF down.at > i THEN Shrink(down.heap)
                             ELSE Shrink(Up(os, down.heap, i))
  BY DEF HeapRemove
<1>3. CASE i = n
  <2>1. Sifted(os, h, h, m)
    BY <1>1 DEF Sifted
  <2>2. \A k \in 2..(n - 1) : Behind(os, h.arr, k, k \div 2)
    BY <1>1
  <2>3. Without(os, Shrink(h), h, h.arr[n])
    <3> HIDE DEF n
    <3> QED BY <1>1, <2>1, <2>2, ShrinkSifted DEF n
  <2> QED BY <1>2, <1>3, <2>3
<1>4. CASE i # n
  <2>1. i \in 1..m /\ i \in Nat \ {0} /\ m <= n
    BY <1>1, <1>4
  <2>2. /\ moved \in HeapsOver(os) /\ Placed(moved) /\ Size(moved) = n
        /\ ToSet(moved.arr) = ToSet(h.arr)
        /\ \A k \in 1..n :
             moved.arr[k] = IF k = i THEN h.arr[n] ELSE IF k = n THEN h.arr[i] ELSE h.arr[k]
        /\ \A id \in DOMAIN os \ ToSet(h.arr) : moved.index[id] = h.index[id]
    <3>1. Swapped(os, moved, h, i, n)
      BY <1>1, SwapFacts
    <3> HIDE DEF moved
    <3> QED BY <3>1 DEF Swapped
  <2> HIDE DEF moved
  <2>3. moved.arr[n] = h.arr[i] /\ \A k \in 1..m : k # i => moved.arr[k] = h.arr[k]
    BY <1>1, <1>4, <2>2
  <2>4. OrderedAbove(os, moved.arr, i, i, m)
    <3>1. ASSUME NEW k \in 2..m, k \div 2 # i, k # i PROVE Behind(os, moved.arr, k, k \div 2)
      <4>1. k \in 1..m /\ k \in 2..n /\ k \div 2 \in 1..m
        BY <1>1, ParentFacts
      <4> QED BY <1>1, <2>3, <3>1, <4>1 DEF Behind
    <3>2. ASSUME i > 1, NEW k \in 2..m, k \div 2 = i PROVE Behind(os, moved.arr, k, i \div 2)
      <4>1. /\ k \in 1..m /\ k \in 2..n /\ k # i /\ i \in 2..n /\ i \div 2 \in 1..m
            /\ i \div 2 # i /\ k \in 1..n /\ i \div 2 \in 1..n
        BY <1>1, <2>1, <3>2, ParentFacts
      <4>2. Behind(os, h.arr, k, i) /\ Behind(os, h.arr, i, i \div 2)
        BY <1>1, <3>2, <4>1
      <4>3. Behind(os, h.arr, k, i \div 2)
        BY <1>1, <4>1, <4>2 DEF Behind, Ranked
      <4> QED BY <2>3, <4>1, <4>3 DEF Behind
    <3> QED BY <3>1, <3>2 DEF OrderedAbove
  <2>5. down \in DownStates(os, moved, i, m) /\ OrderedBelow(os, down.heap.arr, down.at, m)
    <3>1. m <= Size(moved) /\ Ranked(os, ToSet(moved.arr))
      BY <2>1, <2>2
    <3> HIDE DEF m
    <3> QED BY <1>1, <2>1, <2>2, <2>4, <3>1, DownFacts
  <2> HIDE DEF down
  <2>6. /\ Sifted(os, down.heap, moved, m) /\ down.at >= i /\ down.at \in Nat
        /\ OrderedAbove(os, down.heap.arr, down.at, i, m)
    BY <2>5 DEF DownStates, Loops
  <2>7. ASSUME NEW g, Sifted(os, g, moved, m), \A k \in 2..m : Behind(os, g.arr, k, k \div 2)
        PROVE  Without(os, Shrink(g), h, h.arr[i])
    <3>1. Without(os, Shrink(g), moved, moved.arr[n])
      <4> HIDE DEF n
      <4> QED BY <1>1, <2>2, <2>7, ShrinkSifted
    <3> QED BY <2>2, <2>3, <3>1 DEF Without
  <2>8. CASE down.at > i
    <3>1. \A k \in 2..m : Behind(os, down.heap.arr, k, k \div 2)
      BY <2>1, <2>5, <2>6, <2>8 DEF OrderedAbove, OrderedBelow
    <3>2. HeapRemove(os, h, i) = Shrink(down.heap)
      BY <1>2, <1>4, <2>8
    <3> QED BY <2>6, <2>7, <3>1, <3>2
  <2>9. CASE ~(down.at > i)
    <3> DEFINE d == down.heap
    <3>1. down.at = i
      BY <2>1, <2>6, <2>9
    <3>2. Sifted(os, d, moved, m) /\ d \in HeapsOver(os) /\ Placed(d) /\ Size(d) = n
          /\ ToSet(d.arr) = ToSet(h.arr)
      BY <2>2, <2>6 DEF Sifted
    <3>3. OrderedBut(os, d.arr, i, m)
      BY <2>5, <2>6, <3>1 DEF OrderedAbove, OrderedBelow, OrderedBut
    <3> HIDE DEF d
    <3>4. /\ Sifted(os, Up(os, d, i), d, m)
          /\ \A k \in 2..m : Behind(os, Up(os, d, i).arr, k, k \div 2)
      <4>1. m <= Size(d) /\ Ranked(os, ToSet(d.arr))
        BY <2>1, <3>2
      <4> HIDE DEF m
      <4> QED BY <1>1, <2>1, <3>2, <3>3, <4>1, UpFacts
    <3>5. Sifted(os, Up(os, d, i), moved, m)
      BY <3>2, <3>4 DEF Sifted
    <3>6. HeapRemove(os, h, i) = Shrink(Up(os, d, i))
      BY <1>2, <1>4, <2>9 DEF d
    <3> QED BY <2>7, <3>4, <3>5, <3>6
  <2> QED BY <2>8, <2>9
<1> QED BY <1>3, <1>4

\* heap.Pop takes the root out.
LEMMA HeapPopFacts ==
  ASSUME NEW os, NEW h, IsHeap(os, h), Ranked(os, ToSet(h.arr)), Size(h) > 0
  PROVE  Without(os, HeapPop(os, h), h, h.arr[1])
<1> DEFINE n == Size(h)
           m == n - 1
           moved == Swap(h, 1, n)
           down == Down(os, moved, 1, m)
<1>1. /\ h \in HeapsOver(os) /\ Placed(h) /\ n \in Nat /\ n > 0 /\ m \in Nat /\ m <= n
      /\ n \in 1..n /\ 1 \in 1..n
      /\ \A k \in 2..n : Behind(os, h.arr, k, k \div 2)
  <2>1. h \in HeapsOver(os) /\ Placed(h) /\ Ordered(os, h.arr)
    BY DEF IsHeap
  <2>2. n \in Nat
    BY <2>1, SliceFacts DEF HeapsOver, Size
  <2> QED BY <2>1, <2>2 DEF Ordered, Behind, Size
<1>2. HeapPop(os, h) = Shrink(down.heap)
  BY DEF HeapPop
<1>3. /\ moved \in HeapsOver(os) /\ Placed(moved) /\ Size(moved) = n
      /\ ToSet(moved.arr) = ToSet(h.arr)
      /\ \A k \in 1..n :
           moved.arr[k] = IF k = 1 THEN h.arr[n] ELSE IF k = n THEN h.arr[1] ELSE h.arr[k]
      /\ \A id \in DOMAIN os \ ToSet(h.arr) : moved.index[id] = h.index[id]
  <2>1. Swapped(os, moved, h, 1, n)
    BY <1>1, SwapFacts
  <2> HIDE DEF moved
  <2> QED BY <2>1 DEF Swapped
<1> HIDE DEF moved
<1>4. moved.arr[n] = h.arr[1] /\ \A k \in 2..m : moved.arr[k] = h.arr[k]
  BY <1>1, <1>3
<1>5. OrderedAbove(os, moved.arr, 1, 1, m)
  <2>1. ASSUME NEW k \in 2..m, k \div 2 # 1 PROVE Behind(os, moved.arr, k, k \div 2)
    <3>1. k \in 2..n /\ k \div 2 \in 2..m
      BY <1>1, <2>1, ParentFacts
    <3> QED BY <1>1, <1>4, <3>1 DEF Behind
  <2> QED BY <2>1 DEF OrderedAbove
<1>6. down \in DownStates(os, moved, 1, m) /\ OrderedBelow(os, down.heap.arr, down.at, m)
  <2>1. m <= Size(moved) /\ Ranked(os, ToSet(moved.arr)) /\ 1 \in Nat \ {0}
    BY <1>1, <1>3
  <2> HIDE DEF m
  <2> QED BY <1>1, <1>3, <1>5, <2>1, DownFacts
<1> HIDE DEF down
<1>7. /\ Sifted(os, down.heap, moved, m) /\ down.at >= 1 /\ down.at \in Nat
      /\ OrderedAbove(os, down.heap.arr, down.at, 1, m)
  BY <1>6 DEF DownStates, Loops
<1>8. \A k \in 2..m : Behind(os, down.heap.arr, k, k \div 2)
  BY <1>6, <1>7 DEF OrderedAbove, OrderedBelow
<1>9. Without(os, Shrink(down.heap), moved, moved.arr[n])
  <2> DEFINE g == down.heap
  <2>1. Sifted(os, g, moved, n - 1) /\ \A k \in 2..(n - 1) : Behind(os, g.arr, k, k \div 2)
    BY <1>7, <1>8
  <2> HIDE DEF g, n
  <2>2. Without(os, Shrink(g), moved, moved.arr[n])
    BY <1>1, <1>3, <2>1, ShrinkSifted
  <2> QED BY <2>2 DEF g
<1> QED BY <1>2, <1>3, <1>4, <1>9 DEF Without

\* g is the heap h with the entry id put in.
With(os, g, h, id) ==
  /\ IsHeap(os, g)
  /\ Size(g) = Size(h) + 1
  /\ ToSet(g.arr) = ToSet(h.arr) \cup {id}
  /\ \A x \in DOMAIN os \ (ToSet(h.arr) \cup {id}) : g.index[x] = h.index[x]

\* g is h, which has n entries, with id behind them.
Grown(os, g, h, id, n) ==
  /\ g \in HeapsOver(os) /\ Placed(g)
  /\ Size(g) = n + 1
  /\ ToSet(g.arr) = ToSet(h.arr) \cup {id}
  /\ \A i \in 1..n : g.arr[i] = h.arr[i]
  /\ \A x \in DOMAIN os \ {id} : g.index[x] = h.index[x]

\* The Push method appends the entry.
LEMMA GrowFacts ==
  ASSUME NEW os, NEW h \in HeapsOver(os), Placed(h), NEW id \in DOMAIN os \ ToSet(h.arr),
         NEW n \in Nat, n = Size(h)
  PROVE  Grown(os, Grow(h, id), h, id, n)
<1> DEFINE arr == Append(h.arr, id)
           index1 == [h.index EXCEPT ![id] = n + 1]
<1>1. /\ h.arr \in Seq(DOMAIN os) /\ h.index \in [DOMAIN os -> Nat] /\ Len(h.arr) = n
      /\ \A i \in 1..n : h.arr[i] \in DOMAIN os /\ h.arr[i] \in ToSet(h.arr)
      /\ \A x \in ToSet(h.arr) : \E i \in 1..n : h.arr[i] = x
      /\ \A i \in 1..n : h.index[h.arr[i]] = i
  BY SliceFacts DEF HeapsOver, Size, Placed
<1>2. Grow(h, id) = [arr |-> arr, index |-> index1]
  BY <1>1 DEF Grow
<1>3. /\ arr \in Seq(DOMAIN os) /\ Len(arr) = n + 1
      /\ arr[n + 1] = id /\ \A i \in 1..n : arr[i] = h.arr[i]
  BY <1>1
<1>4. /\ index1 \in [DOMAIN os -> Nat] /\ index1[id] = n + 1
      /\ \A x \in DOMAIN os \ {id} : index1[x] = h.index[x]
  BY <1>1
<1> HIDE DEF arr, index1
<1>5. \A i \in 1..(n + 1) : index1[arr[i]] = i
  <2> TAKE i \in 1..(n + 1)
  <2>1. CASE i = n + 1
    BY <1>3, <1>4, <2>1
  <2>2. CASE i # n + 1
    <3>1. i \in 1..n
      BY <2>2
    <3>2. h.arr[i] \in DOMAIN os \ {id} /\ h.index[h.arr[i]] = i /\ arr[i] = h.arr[i]
      BY <1>1, <1>3, <3>1
    <3> QED BY <1>4, <3>2
  <2> QED BY <2>1, <2>2
<1>6. ToSet(arr) = ToSet(h.arr) \cup {id}
  <2>1. /\ \A x \in ToSet(arr) : \E i \in 1..(n + 1) : arr[i] = x
        /\ \A i \in 1..(n + 1) : arr[i] \in ToSet(arr)
    BY <1>3, SliceFacts
  <2>2. ASSUME NEW x \in ToSet(arr) PROVE x \in ToSet(h.arr) \cup {id}
    <3>1. PICK i \in 1..(n + 1) : arr[i] = x
      BY <2>1
    <3>2. i = n + 1 \/ i \in 1..n
      OBVIOUS
    <3> QED BY <1>1, <1>3, <3>1, <3>2
  <2>3. ASSUME NEW x \in ToSet(h.arr) PROVE x \in ToSet(arr)
    <3>1. PICK i \in 1..n : h.arr[i] = x
      BY <1>1
    <3>2. i \in 1..(n + 1) /\ arr[i] = x
      BY <1>3, <3>1
    <3> QED BY <2>1, <3>2
  <2>4. id \in ToSet(arr)
    <3>1. n + 1 \in 1..(n + 1)
      OBVIOUS
    <3> QED BY <1>3, <2>1, <3>1
  <2> QED BY <2>2, <2>3, <2>4
<1> DEFINE g == [arr |-> arr, index |-> index1]
<1>7. g.arr = arr /\ g.index = index1 /\ g \in HeapsOver(os)
  BY <1>3, <1>4 DEF HeapsOver
<1> HIDE DEF g
<1>8. Grown(os, g, h, id, n)
  BY <1>3, <1>4, <1>5, <1>6, <1>7 DEF Grown, Placed, Size
<1> QED BY <1>2, <1>8 DEF g

\* heap.Push puts the entry in.
LEMMA HeapPushFacts ==
  ASSUME NEW os, NEW h, IsHeap(os, h), NEW id \in DOMAIN os \ ToSet(h.arr),
         Ranked(os, ToSet(h.arr) \cup {id})
  PROVE  With(os, HeapPush(os, h, id), h, id)
<1> DEFINE n == Size(h)
           m == n + 1
           g == Grow(h, id)
           up == Up(os, g, m)
<1>1. /\ h \in HeapsOver(os) /\ Placed(h) /\ n \in Nat /\ m \in Nat /\ m \in 1..m
      /\ \A k \in 2..n : Behind(os, h.arr, k, k \div 2)
  <2>1. h \in HeapsOver(os) /\ Placed(h) /\ Ordered(os, h.arr)
    BY DEF IsHeap
  <2>2. n \in Nat
    BY <2>1, SliceFacts DEF HeapsOver, Size
  <2> QED BY <2>1, <2>2 DEF Ordered, Behind, Size
<1>2. HeapPush(os, h, id) = up
  BY DEF HeapPush
<1>3. /\ g \in HeapsOver(os) /\ Placed(g) /\ Size(g) = m
      /\ ToSet(g.arr) = ToSet(h.arr) \cup {id}
      /\ \A i \in 1..n : g.arr[i] = h.arr[i]
      /\ \A x \in DOMAIN os \ {id} : g.index[x] = h.index[x]
  <2>1. Grown(os, g, h, id, n)
    BY <1>1, GrowFacts
  <2> HIDE DEF g
  <2> QED BY <2>1 DEF Grown
<1> HIDE DEF g
<1>4. OrderedBut(os, g.arr, m, m)
  <2>1. ASSUME NEW k \in 2..m, k # m PROVE Behind(os, g.arr, k, k \div 2)
    <3>1. k \in 2..n /\ k \in 1..n /\ k \div 2 \in 1..n
      BY <1>1, <2>1, ParentFacts
    <3> QED BY <1>1, <1>3, <3>1 DEF Behind
  <2>2. \A k \in 2..m : k \div 2 # m
    BY <1>1, ParentFacts
  <2> QED BY <2>1, <2>2 DEF OrderedBut
<1>5. Sifted(os, up, g, m) /\ \A i \in 2..m : Behind(os, up.arr, i, i \div 2)
  <2>1. m <= Size(g) /\ Ranked(os, ToSet(g.arr))
    BY <1>1, <1>3
  <2> HIDE DEF m
  <2> QED BY <1>1, <1>3, <1>4, <2>1, UpFacts
<1> HIDE DEF up
<1>6. /\ up \in HeapsOver(os) /\ Placed(up) /\ Size(up) = m
      /\ ToSet(up.arr) = ToSet(h.arr) \cup {id}
      /\ \A x \in DOMAIN os \ (ToSet(h.arr) \cup {id}) : up.index[x] = h.index[x]
  BY <1>3, <1>5 DEF Sifted
<1>7. Ordered(os, up.arr)
  BY <1>5, <1>6 DEF Ordered, Behind, Size
<1> QED BY <1>2, <1>6, <1>7 DEF With, IsHeap

--------------------------------------------------------------------------------
(***************************************************************************)
(* The engine as an order book.                                            *)
(***************************************************************************)

\* The arithmetic of orders is the same in the two specifications.
LEMMA SameArithmetic ==
  /\ BookProofs!Order = Order /\ BookProofs!LiveStatuses = LiveStatuses
  /\ \A o : /\ BookProofs!Base(o) = Base(o) /\ BookProofs!Quote(o) = Quote(o)
            /\ BookProofs!RemainingBase(o) = RemainingBase(o)
            /\ BookProofs!Price(o) = Price(o)
            /\ BookProofs!PricePanics(o) <=> PricePanics(o)
  /\ \A o, p : BookProofs!Ahead(o, p) <=> Ahead(o, p)
  /\ \A o, p : BookProofs!Compatible(o, p) <=> Compatible(o, p)
  /\ \A o, n : /\ BookProofs!Filled(o, n) = Filled(o, n)
               /\ BookProofs!SellerReceives(o, n) = SellerReceives(o, n)
               /\ BookProofs!MinBigInt(o, n) = MinBigInt(o, n)
<1>1. BookProofs!Order = Order /\ BookProofs!LiveStatuses = LiveStatuses
  BY DEF Order, Sides, Statuses, LiveStatuses, BookProofs!Order, BookProofs!Sides,
         BookProofs!Statuses, BookProofs!LiveStatuses
<1>2. \A o : BookProofs!Base(o) = Base(o) /\ BookProofs!Quote(o) = Quote(o)
  BY DEF Base, Quote, BookProofs!Base, BookProofs!Quote
<1>3. \A o : BookProofs!RemainingBase(o) = RemainingBase(o)
  BY <1>2 DEF RemainingBase, BookProofs!RemainingBase
<1>4. \A o : BookProofs!Price(o) = Price(o)
  BY <1>2 DEF Price, BookProofs!Price, RoundHalfEven, BookProofs!RoundHalfEven
<1>5. \A o : BookProofs!PricePanics(o) <=> PricePanics(o)
  BY <1>2 DEF PricePanics, BookProofs!PricePanics
<1>6. \A o, p : BookProofs!Ahead(o, p) <=> Ahead(o, p)
  BY <1>4 DEF Ahead, BookProofs!Ahead
<1>7. \A o, p : BookProofs!Compatible(o, p) <=> Compatible(o, p)
  BY <1>4 DEF Compatible, BookProofs!Compatible
<1>8. \A o, n : BookProofs!Filled(o, n) = Filled(o, n)
  BY <1>3 DEF Filled, BookProofs!Filled
<1>9. \A o, n : /\ BookProofs!SellerReceives(o, n) = SellerReceives(o, n)
                /\ BookProofs!MinBigInt(o, n) = MinBigInt(o, n)
  BY DEF SellerReceives, BookProofs!SellerReceives, MinBigInt, BookProofs!MinBigInt
<1> QED BY <1>1, <1>2, <1>3, <1>4, <1>5, <1>6, <1>7, <1>8, <1>9

\* The book of the engine satisfies the assumption of a book.
LEMMA BookConstants ==
  /\ NoOrder \notin Ids
  /\ Inputs \in [Ids -> SUBSET BookProofs!Order]
  /\ \A id \in Ids : \A o \in Inputs[id] :
       o.status \in BookProofs!LiveStatuses /\ o.filledBase <= BookProofs!Base(o)
BY EngineAssumption, SameArithmetic

\* So the inductive invariant of the book stands through every step of the book.
LEMMA BookStep ==
  BookProofs!BookInv /\ [BookProofs!BookNext]_BookProofs!bookVars => BookProofs!BookInv'
BY BookConstants, PriceScaleAssumption, BookProofs!BookStepInv

\* An empty book satisfies it.
LEMMA BookStart == BookProofs!BookInit => BookProofs!BookInv
BY BookConstants, PriceScaleAssumption, BookProofs!InitInv

\* A price is an integer as long as there is base to divide by.
LEMMA PriceOnGrid ==
  ASSUME NEW o \in Order, Base(o) > 0
  PROVE  Price(o) \in Int
<1>1. o \in BookProofs!Order /\ BookProofs!Base(o) > 0
  BY SameArithmetic
<1>2. BookProofs!Price(o) \in Int
  BY <1>1, BookConstants, PriceScaleAssumption, BookProofs!PriceType
<1> QED BY <1>2, SameArithmetic

\* Orders of one side that have a price are ranked by Ahead.
LEMMA SideRanked ==
  ASSUME NEW os \in [Ids -> Order], NEW E \in SUBSET Ids, NEW side,
         \A a \in E : os[a].side = side /\ Base(os[a]) > 0
  PROVE  Ranked(os, E)
<1>1. \A a \in E : Price(os[a]) \in Int /\ os[a].createdAt \in Nat /\ os[a].side = side
  BY PriceOnGrid DEF Order
<1>2. \A a, b \in E :
        Ahead(os[a], os[b]) <=>
          IF Price(os[a]) = Price(os[b]) THEN os[a].createdAt < os[b].createdAt
          ELSE IF side = "buy" THEN Price(os[a]) > Price(os[b]) ELSE Price(os[a]) < Price(os[b])
  BY <1>1 DEF Ahead
<1>3. ASSUME NEW a \in E, NEW b \in E, Ahead(os[a], os[b]) PROVE ~Ahead(os[b], os[a])
  BY <1>1, <1>2, <1>3
<1>4. ASSUME NEW a \in E, NEW b \in E, NEW c \in E,
             ~Ahead(os[b], os[a]), ~Ahead(os[c], os[b])
      PROVE  ~Ahead(os[c], os[a])
  <2>1. CASE side = "buy"
    <3>1. Price(os[b]) <= Price(os[a]) /\ Price(os[c]) <= Price(os[b])
      BY <1>1, <1>2, <1>4, <2>1
    <3> QED BY <1>1, <1>2, <1>4, <2>1, <3>1
  <2>2. CASE side # "buy"
    <3>1. Price(os[b]) >= Price(os[a]) /\ Price(os[c]) >= Price(os[b])
      BY <1>1, <1>2, <1>4, <2>2
    <3> QED BY <1>1, <1>2, <1>4, <2>2, <3>1
  <2> QED BY <2>1, <2>2
<1> QED BY <1>3, <1>4 DEF Ranked

\* os and new differ in nothing that Less reads.
SameRank(os, new) ==
  \A id \in Ids : /\ new[id].side = os[id].side
                  /\ new[id].amountSell = os[id].amountSell
                  /\ new[id].amountBuy = os[id].amountBuy
                  /\ new[id].createdAt = os[id].createdAt

\* Then they rank everything alike.
LEMMA RankKept ==
  ASSUME NEW os, NEW new, SameRank(os, new), NEW a \in Ids, NEW b \in Ids
  PROVE  Ahead(new[a], new[b]) <=> Ahead(os[a], os[b])
<1>1. \A id \in Ids : Price(new[id]) = Price(os[id])
  BY DEF SameRank, Price, Base, Quote
<1> QED BY <1>1 DEF SameRank, Ahead

\* arr is the slice of one side: a heap, of orders of that side, with their positions in idx.
Half(os, arr, idx, side) ==
  /\ arr \in Seq(Ids)
  /\ Ordered(os, arr)
  /\ \A i \in 1..Len(arr) : os[arr[i]].side = side /\ idx[arr[i]] = i

\* No Index but the entries' is set.
NoOther(E, idx) == \A id \in Ids \ E : idx[id] = 0

\* A half stays one when no order changes its rank.
LEMMA HalfKept ==
  ASSUME NEW os, NEW new, SameRank(os, new), NEW arr, NEW idx, NEW side,
         Half(os, arr, idx, side)
  PROVE  Half(new, arr, idx, side)
<1>1. arr \in Seq(Ids) /\ Len(arr) \in Nat /\ \A i \in 1..Len(arr) : arr[i] \in Ids
  BY DEF Half
<1>2. \A i \in 1..Len(arr) : new[arr[i]].side = os[arr[i]].side
  BY <1>1 DEF SameRank
<1>3. ASSUME NEW i \in 2..Len(arr) PROVE ~Ahead(new[arr[i]], new[arr[i \div 2]])
  <2>1. i \in 1..Len(arr) /\ i \div 2 \in 1..Len(arr)
    BY <1>1, ParentFacts
  <2>2. ~Ahead(os[arr[i]], os[arr[i \div 2]])
    BY DEF Half, Ordered
  <2> QED BY <1>1, <2>1, <2>2, RankKept
<1> QED BY <1>1, <1>2, <1>3 DEF Half, Ordered

\* A half is a heap.
LEMMA HalfIsHeap ==
  ASSUME NEW os \in [Ids -> Order], NEW arr, NEW idx \in [Ids -> Nat], NEW side,
         Half(os, arr, idx, side)
  PROVE  IsHeap(os, [arr |-> arr, index |-> idx])
<1>1. DOMAIN os = Ids /\ arr \in Seq(Ids)
  BY DEF Half
<1>2. [arr |-> arr, index |-> idx] \in HeapsOver(os)
  BY <1>1 DEF HeapsOver
<1>3. Placed([arr |-> arr, index |-> idx])
  BY DEF Half, Placed, Size
<1> QED BY <1>2, <1>3 DEF IsHeap, Half

\* Its entries are orders of its side, each where its Index says.
LEMMA HalfEntries ==
  ASSUME NEW os, NEW arr, NEW idx, NEW side, Half(os, arr, idx, side), NEW id \in ToSet(arr)
  PROVE  id \in Ids /\ os[id].side = side /\ idx[id] \in 1..Len(arr) /\ arr[idx[id]] = id
<1>1. PICK i \in 1..Len(arr) : arr[i] = id
  BY SliceFacts DEF Half
<1>2. id \in Ids
  BY <1>1, SliceFacts DEF Half
<1> QED BY <1>1, <1>2 DEF Half

\* a and b, with their positions in idx, are the halves of the entries E on the sides p and q.
Parts(os, a, p, b, q, idx, E) ==
  /\ idx \in [Ids -> Nat]
  /\ Half(os, a, idx, p) /\ Half(os, b, idx, q)
  /\ ToSet(a) \cup ToSet(b) = E
  /\ NoOther(E, idx)

\* Taking an entry out of one half leaves two halves.
LEMMA TakenOut ==
  ASSUME NEW os \in [Ids -> Order], NEW idx, NEW a, NEW b, NEW p, NEW q, p # q, NEW E,
         Parts(os, a, p, b, q, idx, E), NEW id \in ToSet(a),
         NEW g, Without(os, g, [arr |-> a, index |-> idx], id)
  PROVE  Parts(os, g.arr, p, b, q, g.index, E \ {id})
<1>0. /\ idx \in [Ids -> Nat] /\ Half(os, a, idx, p) /\ Half(os, b, idx, q)
      /\ E = ToSet(a) \cup ToSet(b) /\ NoOther(ToSet(a) \cup ToSet(b), idx)
  BY DEF Parts
<1>1. /\ g \in HeapsOver(os) /\ Placed(g) /\ Ordered(os, g.arr)
      /\ ToSet(g.arr) = ToSet(a) \ {id}
      /\ g.index[id] = 0
      /\ \A x \in Ids \ ToSet(a) : g.index[x] = idx[x]
  BY DEF Without, IsHeap
<1>2. g.arr \in Seq(Ids) /\ g.index \in [Ids -> Nat]
  BY <1>1 DEF HeapsOver
<1>3. /\ \A x \in ToSet(a) : os[x].side = p /\ x \in Ids
      /\ \A x \in ToSet(b) : os[x].side = q /\ x \in Ids /\ idx[x] \in 1..Len(b) /\ b[idx[x]] = x
  <2>1. ASSUME NEW x \in ToSet(a) PROVE os[x].side = p /\ x \in Ids
    BY <1>0, HalfEntries
  <2>2. ASSUME NEW x \in ToSet(b)
        PROVE  os[x].side = q /\ x \in Ids /\ idx[x] \in 1..Len(b) /\ b[idx[x]] = x
    BY <1>0, HalfEntries
  <2> QED BY <2>1, <2>2
<1>4. /\ Len(b) \in Nat /\ \A i \in 1..Len(b) : b[i] \in ToSet(b)
      /\ \A i \in 1..Len(g.arr) : g.arr[i] \in ToSet(g.arr)
  BY <1>0, <1>2, SliceFacts DEF Half
<1>5. Half(os, g.arr, g.index, p)
  BY <1>0, <1>1, <1>2, <1>3, <1>4 DEF Half, Placed, Size
<1>6. Half(os, b, g.index, q)
  <2>1. ASSUME NEW i \in 1..Len(b) PROVE g.index[b[i]] = i
    <3>1. b[i] \in Ids \ ToSet(a)
      BY <1>0, <1>3, <1>4
    <3> QED BY <1>0, <1>1, <3>1 DEF Half
  <2> QED BY <1>0, <2>1 DEF Half
<1>7. ToSet(g.arr) \cup ToSet(b) = (ToSet(a) \cup ToSet(b)) \ {id}
  BY <1>1, <1>3
<1>8. NoOther(ToSet(g.arr) \cup ToSet(b), g.index)
  <2> SUFFICES ASSUME NEW x \in Ids \ (ToSet(g.arr) \cup ToSet(b)) PROVE g.index[x] = 0
    BY DEF NoOther
  <2>1. CASE x = id
    BY <1>1, <2>1
  <2>2. CASE x # id
    <3>1. x \in Ids \ (ToSet(a) \cup ToSet(b))
      BY <1>1, <2>2
    <3> QED BY <1>0, <1>1, <3>1 DEF NoOther
  <2> QED BY <2>1, <2>2
<1> QED BY <1>0, <1>2, <1>5, <1>6, <1>7, <1>8 DEF Parts

\* Putting an order into the half of its side leaves two halves.
LEMMA PutIn ==
  ASSUME NEW os \in [Ids -> Order], NEW idx, NEW a, NEW b, NEW p, NEW q, p # q, NEW E,
         Parts(os, a, p, b, q, idx, E), NEW id \in Ids \ E, os[id].side = p,
         NEW g, With(os, g, [arr |-> a, index |-> idx], id)
  PROVE  Parts(os, g.arr, p, b, q, g.index, E \cup {id})
<1>0. /\ idx \in [Ids -> Nat] /\ Half(os, a, idx, p) /\ Half(os, b, idx, q)
      /\ E = ToSet(a) \cup ToSet(b) /\ NoOther(ToSet(a) \cup ToSet(b), idx)
      /\ id \in Ids /\ id \notin ToSet(a) \cup ToSet(b)
  BY DEF Parts
<1>1. /\ g \in HeapsOver(os) /\ Placed(g) /\ Ordered(os, g.arr)
      /\ ToSet(g.arr) = ToSet(a) \cup {id}
      /\ \A x \in Ids \ (ToSet(a) \cup {id}) : g.index[x] = idx[x]
  BY DEF With, IsHeap
<1>2. g.arr \in Seq(Ids) /\ g.index \in [Ids -> Nat]
  BY <1>1 DEF HeapsOver
<1>3. /\ \A x \in ToSet(a) : os[x].side = p /\ x \in Ids
      /\ \A x \in ToSet(b) : os[x].side = q /\ x \in Ids /\ idx[x] \in 1..Len(b) /\ b[idx[x]] = x
  <2>1. ASSUME NEW x \in ToSet(a) PROVE os[x].side = p /\ x \in Ids
    BY <1>0, HalfEntries
  <2>2. ASSUME NEW x \in ToSet(b)
        PROVE  os[x].side = q /\ x \in Ids /\ idx[x] \in 1..Len(b) /\ b[idx[x]] = x
    BY <1>0, HalfEntries
  <2> QED BY <2>1, <2>2
<1>4. /\ Len(b) \in Nat /\ \A i \in 1..Len(b) : b[i] \in ToSet(b)
      /\ \A i \in 1..Len(g.arr) : g.arr[i] \in ToSet(g.arr)
  BY <1>0, <1>2, SliceFacts DEF Half
<1>5. Half(os, g.arr, g.index, p)
  BY <1>0, <1>1, <1>2, <1>3, <1>4 DEF Half, Placed, Size
<1>6. Half(os, b, g.index, q)
  <2>1. ASSUME NEW i \in 1..Len(b) PROVE g.index[b[i]] = i
    <3>1. b[i] \in Ids \ (ToSet(a) \cup {id})
      BY <1>0, <1>3, <1>4
    <3> QED BY <1>0, <1>1, <3>1 DEF Half
  <2> QED BY <1>0, <2>1 DEF Half
<1>7. ToSet(g.arr) \cup ToSet(b) = (ToSet(a) \cup ToSet(b)) \cup {id}
  BY <1>1
<1>8. NoOther(ToSet(g.arr) \cup ToSet(b), g.index)
  <2> SUFFICES ASSUME NEW x \in Ids \ (ToSet(g.arr) \cup ToSet(b)) PROVE g.index[x] = 0
    BY DEF NoOther
  <2>1. x \in Ids \ (ToSet(a) \cup ToSet(b)) /\ x # id
    BY <1>1
  <2> QED BY <1>0, <1>1, <2>1 DEF NoOther
<1> QED BY <1>0, <1>2, <1>5, <1>6, <1>7, <1>8 DEF Parts

--------------------------------------------------------------------------------
(***************************************************************************)
(* The inductive invariant of the engine: that of the book its entries     *)
(* are, and how heaps, positions and orderMap hold the entries.            *)
(***************************************************************************)

Structure ==
  /\ index \in [Ids -> Nat]
  /\ Half(orders, buys, index, "buy") /\ Half(orders, sells, index, "sell")
  /\ orderMap = Entries
  /\ NoOther(Entries, index)

EngineInv == BookProofs!BookInv /\ Structure

\* What the book's invariant says, in the engine's own terms.
LEMMA BookSays ==
  ASSUME EngineInv
  PROVE  /\ orders \in [Ids -> Order] /\ seen \subseteq Ids /\ Entries \subseteq seen
         /\ incoming \in seen \cup {NoOrder} /\ incoming \notin Entries /\ NoOrder \notin Ids
         /\ \A m \in Entries : RemainingBase(orders[m]) > 0
         /\ \A m \in Ids : RemainingBase(orders[m]) \in Int
         /\ \A m \in Ids : RemainingBase(orders[m]) > 0 => Base(orders[m]) > 0
<1>1. /\ orders \in [Ids -> Order] /\ seen \subseteq Ids /\ Entries \subseteq seen
      /\ incoming \in seen \cup {NoOrder} /\ incoming \notin Entries
  BY SameArithmetic
     DEF EngineInv, BookProofs!BookInv, BookProofs!BookCore, BookProofs!BookTypeOK,
         BookProofs!IncomingNotResting
<1>2. \A m \in Entries : RemainingBase(orders[m]) > 0
  BY <1>1, SameArithmetic
     DEF EngineInv, BookProofs!BookInv, BookProofs!BookCore, BookProofs!RestingExactlyLive
<1>3. \A m \in Ids : /\ RemainingBase(orders[m]) \in Int
                     /\ RemainingBase(orders[m]) > 0 => Base(orders[m]) > 0
  BY <1>1 DEF Order, RemainingBase, Base
<1> QED BY <1>1, <1>2, <1>3, EngineAssumption

\* Both slices are heaps of ranked orders.
LEMMA HeapsAre ==
  ASSUME EngineInv
  PROVE  /\ IsHeap(orders, Heap(buys)) /\ IsHeap(orders, Heap(sells))
         /\ Ranked(orders, ToSet(buys)) /\ Ranked(orders, ToSet(sells))
         /\ DOMAIN orders = Ids
<1>1. orders \in [Ids -> Order] /\ index \in [Ids -> Nat]
  BY BookSays DEF EngineInv, Structure
<1>2. IsHeap(orders, Heap(buys)) /\ IsHeap(orders, Heap(sells))
  BY <1>1, HalfIsHeap DEF EngineInv, Structure, Heap
<1>3. \A a \in Entries : Base(orders[a]) > 0
  BY BookSays
<1>4. Ranked(orders, ToSet(buys))
  <2>1. \A a \in ToSet(buys) : a \in Ids /\ orders[a].side = "buy" /\ Base(orders[a]) > 0
    BY <1>3, HalfEntries DEF EngineInv, Structure, Entries
  <2>2. ToSet(buys) \in SUBSET Ids
    BY <2>1
  <2> QED BY <1>1, <2>1, <2>2, SideRanked
<1>5. Ranked(orders, ToSet(sells))
  <2>1. \A a \in ToSet(sells) : a \in Ids /\ orders[a].side = "sell" /\ Base(orders[a]) > 0
    BY <1>3, HalfEntries DEF EngineInv, Structure, Entries
  <2>2. ToSet(sells) \in SUBSET Ids
    BY <2>1
  <2> QED BY <1>1, <2>1, <2>2, SideRanked
<1> QED BY <1>1, <1>2, <1>4, <1>5

\* The entries of the slices are those of their side.
LEMMA SidesAre ==
  ASSUME EngineInv
  PROVE  /\ \A m \in Ids : m \in ToSet(buys) <=> m \in Entries /\ orders[m].side = "buy"
         /\ \A m \in Ids : m \in ToSet(sells) <=> m \in Entries /\ orders[m].side = "sell"
         /\ \A i \in 1..Len(buys) : buys[i] \in ToSet(buys) /\ buys[i] \in Ids
         /\ \A i \in 1..Len(sells) : sells[i] \in ToSet(sells) /\ sells[i] \in Ids
         /\ \A m \in Ids : orders[m].side \in {"buy", "sell"}
         /\ Len(buys) \in Nat /\ Len(sells) \in Nat
<1>1. \A m \in ToSet(buys) : orders[m].side = "buy"
  BY HalfEntries DEF EngineInv, Structure
<1>2. \A m \in ToSet(sells) : orders[m].side = "sell"
  BY HalfEntries DEF EngineInv, Structure
<1>3. buys \in Seq(Ids) /\ sells \in Seq(Ids)
  BY DEF EngineInv, Structure, Half
<1>4. \A i \in 1..Len(buys) : buys[i] \in ToSet(buys) /\ buys[i] \in Ids
  BY <1>3, SliceFacts
<1>5. \A i \in 1..Len(sells) : sells[i] \in ToSet(sells) /\ sells[i] \in Ids
  BY <1>3, SliceFacts
<1>6. \A m \in Ids : orders[m].side \in {"buy", "sell"}
  BY BookSays DEF Order, Sides
<1> QED BY <1>1, <1>2, <1>3, <1>4, <1>5, <1>6 DEF Entries

\* A fill changes nothing that Less reads.
LEMMA FillKeepsRank ==
  ASSUME NEW os \in [Ids -> Order], NEW a \in Ids, NEW b \in Ids, NEW n \in Nat, n > 0
  PROVE  SameRank(os, [os EXCEPT ![a] = Filled(@, n), ![b] = Filled(@, n)])
<1>1. \A o \in Order, k \in Nat :
        /\ Filled(o, k).side = o.side /\ Filled(o, k).createdAt = o.createdAt
        /\ Filled(o, k).amountSell = o.amountSell /\ Filled(o, k).amountBuy = o.amountBuy
  BY DEF Filled, Order
<1>2. \A o \in Order : Filled(o, n) \in Order
  <2> TAKE o \in Order
  <2>1. o \in BookProofs!Order
    BY SameArithmetic
  <2>2. BookProofs!Filled(o, n) \in BookProofs!Order
    BY <2>1, BookConstants, PriceScaleAssumption, BookProofs!FilledOrder
  <2> QED BY <2>2, SameArithmetic
<1> DEFINE new == [os EXCEPT ![a] = Filled(@, n), ![b] = Filled(@, n)]
<1>3. ASSUME NEW id \in Ids
      PROVE  \/ new[id] = os[id]
             \/ new[id] = Filled(os[id], n)
             \/ new[id] = Filled(Filled(os[id], n), n)
  BY DEF new
<1>4. ASSUME NEW id \in Ids
      PROVE  /\ new[id].side = os[id].side /\ new[id].amountSell = os[id].amountSell
             /\ new[id].amountBuy = os[id].amountBuy /\ new[id].createdAt = os[id].createdAt
  <2> HIDE DEF new
  <2>1. os[id] \in Order /\ Filled(os[id], n) \in Order
    BY <1>2
  <2> QED BY <1>1, <1>3, <2>1
<1> HIDE DEF new
<1>5. SameRank(os, new)
  BY <1>4 DEF SameRank
<1> QED BY <1>5 DEF new


--------------------------------------------------------------------------------
(***************************************************************************)
(* Every step of the engine is a step of the book and keeps the heaps.     *)
(***************************************************************************)

\* The beginning of AddOrder leaves the book alone.
LEMMA BeginSteps ==
  ASSUME EngineInv, NEW o \in Ids, Begin(o) \/ BeginPanics(o)
  PROVE  BookProofs!BookNext /\ Structure'
<1>1. UNCHANGED <<orders, trades, buys, sells, orderMap, index>>
  BY DEF Begin, BeginPanics
<1>2. Entries' = Entries
  BY <1>1 DEF Entries
<1>3. BookProofs!Begin(o) \/ BookProofs!BeginPanics(o)
  BY <1>1, <1>2, SameArithmetic
     DEF Begin, BeginPanics, BookProofs!Begin, BookProofs!BeginPanics, BookProofs!AfterPanic
<1>4. BookProofs!BookNext
  BY <1>3 DEF BookProofs!BookNext
<1>5. Structure'
  BY <1>1, <1>2 DEF EngineInv, Structure, Half, NoOther, Ordered
<1> QED BY <1>4, <1>5

\* The root of the asks is the maker no other maker of a buyer is ahead of.
LEMMA BestAsk ==
  ASSUME EngineInv, incoming # NoOrder, orders[incoming].side = "buy", Len(sells) > 0
  PROVE  /\ sells[1] \in Ids /\ sells[1] \in BookProofs!Makers(incoming)
         /\ \A k \in BookProofs!Makers(incoming) : ~Ahead(orders[k], orders[sells[1]])
<1>1. sells[1] \in ToSet(sells) /\ sells[1] \in Ids
  BY SidesAre
<1>2. BookProofs!Makers(incoming) = ToSet(sells)
  <2>1. \A m \in Entries : m \in Ids
    BY BookSays
  <2>2. \A m \in ToSet(sells) : m \in Ids
    BY <2>1 DEF Entries
  <2>3. \A m \in Ids : m \in BookProofs!Makers(incoming) <=> m \in ToSet(sells)
    BY SidesAre DEF BookProofs!Makers
  <2> QED BY <2>1, <2>2, <2>3 DEF BookProofs!Makers
<1>3. ASSUME NEW k \in ToSet(sells) PROVE ~Ahead(orders[k], orders[sells[1]])
  <2>1. \A i \in 1..Size(Heap(sells)) : Behind(orders, Heap(sells).arr, i, 1)
    BY HeapsAre, RootFirst DEF IsHeap, Heap
  <2>2. \A i \in 1..Len(sells) : Behind(orders, sells, i, 1)
    BY <2>1 DEF Heap, Size
  <2>3. PICK i \in 1..Len(sells) : sells[i] = k
    BY SliceFacts DEF EngineInv, Structure, Half
  <2> QED BY <2>2, <2>3 DEF Behind
<1> QED BY <1>1, <1>2, <1>3

\* The root of the bids is the maker no other maker of a seller is ahead of.
LEMMA BestBid ==
  ASSUME EngineInv, incoming # NoOrder, orders[incoming].side = "sell", Len(buys) > 0
  PROVE  /\ buys[1] \in Ids /\ buys[1] \in BookProofs!Makers(incoming)
         /\ \A k \in BookProofs!Makers(incoming) : ~Ahead(orders[k], orders[buys[1]])
<1>1. buys[1] \in ToSet(buys) /\ buys[1] \in Ids
  BY SidesAre
<1>2. BookProofs!Makers(incoming) = ToSet(buys)
  <2>1. \A m \in Entries : m \in Ids
    BY BookSays
  <2>2. \A m \in ToSet(buys) : m \in Ids
    BY <2>1 DEF Entries
  <2>3. \A m \in Ids : m \in BookProofs!Makers(incoming) <=> m \in ToSet(buys)
    BY SidesAre DEF BookProofs!Makers
  <2> QED BY <2>1, <2>2, <2>3 DEF BookProofs!Makers
<1>3. ASSUME NEW k \in ToSet(buys) PROVE ~Ahead(orders[k], orders[buys[1]])
  <2>1. \A i \in 1..Size(Heap(buys)) : Behind(orders, Heap(buys).arr, i, 1)
    BY HeapsAre, RootFirst DEF IsHeap, Heap
  <2>2. \A i \in 1..Len(buys) : Behind(orders, buys, i, 1)
    BY <2>1 DEF Heap, Size
  <2>3. PICK i \in 1..Len(buys) : buys[i] = k
    BY SliceFacts DEF EngineInv, Structure, Half
  <2> QED BY <2>2, <2>3 DEF Behind
<1> QED BY <1>1, <1>2, <1>3


\* os, and the slices with their positions, hold both halves of the entries E.
Halves(os, bs, ss, idx, E) == Parts(os, bs, "buy", ss, "sell", idx, E)

\* Which of the two is named first does not matter.
LEMMA PartsSwap ==
  ASSUME NEW os, NEW bs, NEW ss, NEW idx, NEW E
  PROVE  Parts(os, ss, "sell", bs, "buy", idx, E) <=> Halves(os, bs, ss, idx, E)
<1>1. ToSet(ss) \cup ToSet(bs) = ToSet(bs) \cup ToSet(ss)
  OBVIOUS
<1> QED BY <1>1 DEF Parts, Halves

\* They do before and after any change of the orders that changes no rank.
LEMMA HalvesKept ==
  ASSUME NEW os, NEW new, SameRank(os, new), NEW bs, NEW ss, NEW idx, NEW E,
         Halves(os, bs, ss, idx, E)
  PROVE  Halves(new, bs, ss, idx, E)
<1>1. Half(new, bs, idx, "buy") /\ Half(new, ss, idx, "sell")
  BY HalfKept DEF Halves, Parts
<1> QED BY <1>1 DEF Halves, Parts

\* The engine's own halves.
LEMMA HalvesAre ==
  ASSUME EngineInv
  PROVE  Halves(orders, buys, sells, index, Entries)
BY DEF EngineInv, Structure, Halves, Parts, Entries

\* Popping the best ask, or the best bid.
LEMMA AskPopped ==
  ASSUME EngineInv, Len(sells) > 0
  PROVE  LET g == HeapPop(orders, Heap(sells))
         IN  Halves(orders, buys, g.arr, g.index, Entries \ {sells[1]})
<1> DEFINE g == HeapPop(orders, Heap(sells))
<1>1. Without(orders, g, Heap(sells), sells[1])
  BY HeapsAre, HeapPopFacts DEF Heap, Size
<1>2. orders \in [Ids -> Order] /\ index \in [Ids -> Nat] /\ sells[1] \in ToSet(sells)
  BY BookSays, SidesAre DEF EngineInv, Structure
<1> HIDE DEF g
<1>3. Parts(orders, sells, "sell", buys, "buy", index, Entries)
  BY HalvesAre, PartsSwap
<1>4. Parts(orders, g.arr, "sell", buys, "buy", g.index, Entries \ {sells[1]})
  BY <1>1, <1>2, <1>3, TakenOut DEF Heap
<1>5. Halves(orders, buys, g.arr, g.index, Entries \ {sells[1]})
  BY <1>4, PartsSwap
<1> QED BY <1>5 DEF g

\* The same when the best bid is popped.
LEMMA BidPopped ==
  ASSUME EngineInv, Len(buys) > 0
  PROVE  LET g == HeapPop(orders, Heap(buys))
         IN  Halves(orders, g.arr, sells, g.index, Entries \ {buys[1]})
<1> DEFINE g == HeapPop(orders, Heap(buys))
<1>1. Without(orders, g, Heap(buys), buys[1])
  BY HeapsAre, HeapPopFacts DEF Heap, Size
<1>2. orders \in [Ids -> Order] /\ index \in [Ids -> Nat] /\ buys[1] \in ToSet(buys)
  BY BookSays, SidesAre DEF EngineInv, Structure
<1> HIDE DEF g
<1>3. Parts(orders, g.arr, "buy", sells, "sell", g.index, Entries \ {buys[1]})
  BY <1>1, <1>2, HalvesAre, TakenOut DEF Heap, Halves
<1> QED BY <1>3 DEF Halves, g


\* Structure is what the halves say, with orderMap.
LEMMA StructureIs ==
  ASSUME Halves(orders, buys, sells, index, Entries)', (orderMap = Entries)'
  PROVE  Structure'
BY DEF Halves, Parts, Structure

\* What incoming can trade is a positive amount when the loops go round.
LEMMA FillableFacts ==
  ASSUME EngineInv, incoming # NoOrder, NEW m \in Ids, Fillable(m) > 0
  PROVE  /\ incoming \in Ids /\ Fillable(m) \in Nat
         /\ RemainingBase(orders[incoming]) > 0 /\ RemainingBase(orders[m]) > 0
<1>1. incoming \in Ids
  BY BookSays
<1>2. RemainingBase(orders[incoming]) \in Int /\ RemainingBase(orders[m]) \in Int
  BY <1>1, BookSays
<1> QED BY <1>1, <1>2 DEF Fillable, MinBigInt

\* An iteration of matchBuy is a match with the root of the asks.
LEMMA MatchBuySteps ==
  ASSUME EngineInv, MatchBuy
  PROVE  sells[1] \in Ids /\ BookProofs!Match(sells[1]) /\ Structure'
<1> DEFINE m == sells[1]
           n == Fillable(m)
           g == HeapPop(orders, Heap(sells))
<1>1. /\ incoming # NoOrder /\ orders[incoming].side = "buy"
      /\ Len(sells) > 0 /\ n > 0 /\ Price(orders[incoming]) >= Price(orders[m])
      /\ UNCHANGED <<seen, incoming, buys>>
      /\ orders' = [orders EXCEPT ![incoming] = Filled(@, n), ![m] = Filled(@, n)]
      /\ trades' = Append(trades, Result(incoming, m, m, n))
  BY DEF MatchBuy, BuyLoops
<1>2. IF orders'[m].status = "filled"
      THEN sells' = g.arr /\ index' = g.index /\ orderMap' = orderMap \ {m}
      ELSE UNCHANGED <<sells, index, orderMap>>
  BY DEF MatchBuy
<1>3. /\ m \in Ids /\ m \in BookProofs!Makers(incoming)
      /\ \A k \in BookProofs!Makers(incoming) : ~Ahead(orders[k], orders[m])
  BY <1>1, BestAsk
<1>4. /\ incoming \in Ids /\ n \in Nat
      /\ RemainingBase(orders[incoming]) > 0 /\ RemainingBase(orders[m]) > 0
  BY <1>1, <1>3, FillableFacts
<1>5. Halves(orders, buys, g.arr, g.index, Entries \ {m})
  BY <1>1, AskPopped
<1>6. SameRank(orders, orders')
  BY <1>1, <1>3, <1>4, BookSays, FillKeepsRank
<1>7. orderMap = Entries
  BY DEF EngineInv, Structure
<1>8. n = BookProofs!MinBigInt(BookProofs!RemainingBase(orders[incoming]),
                               BookProofs!RemainingBase(orders[m]))
  BY SameArithmetic DEF Fillable
<1>9. Result(incoming, m, m, n) =
        [ buy   |-> incoming, sell  |-> m,
          fill  |-> n,        quote |-> BookProofs!SellerReceives(orders[m], n),
          price |-> BookProofs!Price(orders[m]), maker |-> m ]
  BY SameArithmetic DEF Result
<1>10. orders' = [orders EXCEPT ![incoming] = BookProofs!Filled(@, n), ![m] = BookProofs!Filled(@, n)]
  BY <1>1, SameArithmetic
<1> HIDE DEF m, n, g
<1>11. /\ Halves(orders, buys, sells, index, Entries)'
       /\ Entries' = IF orders'[m].status = "filled" THEN Entries \ {m} ELSE Entries
       /\ (orderMap = Entries)'
  <2>1. CASE orders'[m].status = "filled"
    <3>1. Halves(orders', buys', sells', index', Entries \ {m})
      BY <1>1, <1>2, <1>5, <1>6, <2>1, HalvesKept
    <3>2. Entries' = Entries \ {m}
      BY <3>1 DEF Halves, Parts, Entries
    <3> QED BY <1>2, <1>7, <2>1, <3>1, <3>2
  <2>2. CASE orders'[m].status # "filled"
    <3>1. Halves(orders', buys', sells', index', Entries)
      BY <1>1, <1>2, <1>6, <2>2, HalvesAre, HalvesKept
    <3>2. Entries' = Entries
      BY <3>1 DEF Halves, Parts, Entries
    <3> QED BY <1>2, <1>7, <2>2, <3>1, <3>2
  <2> QED BY <2>1, <2>2
<1>12. Structure'
  BY <1>11, StructureIs
<1>13. BookProofs!BuyOf(incoming, m) = incoming /\ BookProofs!SellOf(incoming, m) = m
  BY <1>1 DEF BookProofs!BuyOf, BookProofs!SellOf
<1>14. BookProofs!CanMatch(incoming, m)
  BY <1>1, <1>4, <1>13, SameArithmetic DEF BookProofs!CanMatch, Compatible
<1>15. \A k \in BookProofs!Makers(incoming) : ~BookProofs!Ahead(orders[k], orders[m])
  BY <1>3, SameArithmetic
<1>16. BookProofs!Match(m)
  BY <1>1, <1>3, <1>8, <1>9, <1>10, <1>11, <1>13, <1>14, <1>15 DEF BookProofs!Match
<1> QED BY <1>3, <1>12, <1>16 DEF m

\* An iteration of matchSell is a match with the root of the bids.
LEMMA MatchSellSteps ==
  ASSUME EngineInv, MatchSell
  PROVE  buys[1] \in Ids /\ BookProofs!Match(buys[1]) /\ Structure'
<1> DEFINE m == buys[1]
           n == Fillable(m)
           g == HeapPop(orders, Heap(buys))
<1>1. /\ incoming # NoOrder /\ orders[incoming].side = "sell"
      /\ Len(buys) > 0 /\ n > 0 /\ Price(orders[m]) >= Price(orders[incoming])
      /\ UNCHANGED <<seen, incoming, sells>>
      /\ orders' = [orders EXCEPT ![incoming] = Filled(@, n), ![m] = Filled(@, n)]
      /\ trades' = Append(trades, Result(m, incoming, m, n))
  BY DEF MatchSell, SellLoops
<1>2. IF orders'[m].status = "filled"
      THEN buys' = g.arr /\ index' = g.index /\ orderMap' = orderMap \ {m}
      ELSE UNCHANGED <<buys, index, orderMap>>
  BY DEF MatchSell
<1>3. /\ m \in Ids /\ m \in BookProofs!Makers(incoming)
      /\ \A k \in BookProofs!Makers(incoming) : ~Ahead(orders[k], orders[m])
  BY <1>1, BestBid
<1>4. /\ incoming \in Ids /\ n \in Nat
      /\ RemainingBase(orders[incoming]) > 0 /\ RemainingBase(orders[m]) > 0
  BY <1>1, <1>3, FillableFacts
<1>5. Halves(orders, g.arr, sells, g.index, Entries \ {m})
  BY <1>1, BidPopped
<1>6. SameRank(orders, orders')
  BY <1>1, <1>3, <1>4, BookSays, FillKeepsRank
<1>7. orderMap = Entries
  BY DEF EngineInv, Structure
<1>8. n = BookProofs!MinBigInt(BookProofs!RemainingBase(orders[incoming]),
                               BookProofs!RemainingBase(orders[m]))
  BY SameArithmetic DEF Fillable
<1>9. Result(m, incoming, m, n) =
        [ buy   |-> m, sell  |-> incoming,
          fill  |-> n, quote |-> BookProofs!SellerReceives(orders[incoming], n),
          price |-> BookProofs!Price(orders[m]), maker |-> m ]
  BY SameArithmetic DEF Result
<1>10. orders' = [orders EXCEPT ![incoming] = BookProofs!Filled(@, n), ![m] = BookProofs!Filled(@, n)]
  BY <1>1, SameArithmetic
<1> HIDE DEF m, n, g
<1>11. /\ Halves(orders, buys, sells, index, Entries)'
       /\ Entries' = IF orders'[m].status = "filled" THEN Entries \ {m} ELSE Entries
       /\ (orderMap = Entries)'
  <2>1. CASE orders'[m].status = "filled"
    <3>1. Halves(orders', buys', sells', index', Entries \ {m})
      BY <1>1, <1>2, <1>5, <1>6, <2>1, HalvesKept
    <3>2. Entries' = Entries \ {m}
      BY <3>1 DEF Halves, Parts, Entries
    <3> QED BY <1>2, <1>7, <2>1, <3>1, <3>2
  <2>2. CASE orders'[m].status # "filled"
    <3>1. Halves(orders', buys', sells', index', Entries)
      BY <1>1, <1>2, <1>6, <2>2, HalvesAre, HalvesKept
    <3>2. Entries' = Entries
      BY <3>1 DEF Halves, Parts, Entries
    <3> QED BY <1>2, <1>7, <2>2, <3>1, <3>2
  <2> QED BY <2>1, <2>2
<1>12. Structure'
  BY <1>11, StructureIs
<1>13. BookProofs!BuyOf(incoming, m) = m /\ BookProofs!SellOf(incoming, m) = incoming
  BY <1>1 DEF BookProofs!BuyOf, BookProofs!SellOf
<1>14. BookProofs!CanMatch(incoming, m)
  BY <1>1, <1>4, <1>13, SameArithmetic DEF BookProofs!CanMatch, Compatible
<1>15. \A k \in BookProofs!Makers(incoming) : ~BookProofs!Ahead(orders[k], orders[m])
  BY <1>3, SameArithmetic
<1>16. BookProofs!Match(m)
  BY <1>1, <1>3, <1>8, <1>9, <1>10, <1>11, <1>13, <1>14, <1>15 DEF BookProofs!Match
<1> QED BY <1>3, <1>12, <1>16 DEF m


\* When a loop is left, no maker on the book can trade with incoming.
LEMMA LoopLeftFacts ==
  ASSUME EngineInv, incoming # NoOrder, LoopLeft
  PROVE  \A m \in BookProofs!Makers(incoming) : ~BookProofs!CanMatch(incoming, m)
<1> SUFFICES ASSUME NEW m \in BookProofs!Makers(incoming), BookProofs!CanMatch(incoming, m)
             PROVE  FALSE
  OBVIOUS
<1>1. incoming \in Ids /\ orders[incoming].side \in {"buy", "sell"}
  BY BookSays, SidesAre
<1>2. m \in Entries /\ m \in Ids /\ orders[m].side # orders[incoming].side
  BY BookSays DEF BookProofs!Makers
<1>3. /\ RemainingBase(orders[incoming]) > 0 /\ RemainingBase(orders[m]) > 0
      /\ Price(orders[BookProofs!BuyOf(incoming, m)])
           >= Price(orders[BookProofs!SellOf(incoming, m)])
  BY SameArithmetic DEF BookProofs!CanMatch, BookProofs!Compatible
<1>4. ASSUME NEW k \in Ids, RemainingBase(orders[k]) > 0 PROVE Price(orders[k]) \in Int
  BY <1>4, BookSays, PriceOnGrid
<1>5. ASSUME NEW k \in Entries
      PROVE  /\ k \in Ids /\ Price(orders[k]) \in Int
             /\ RemainingBase(orders[k]) > 0 /\ Fillable(k) > 0
  <2>1. k \in Ids /\ RemainingBase(orders[k]) > 0
    BY BookSays
  <2>2. RemainingBase(orders[k]) \in Int /\ RemainingBase(orders[incoming]) \in Int
    BY <1>1, <2>1, BookSays
  <2> QED BY <1>3, <1>4, <2>1, <2>2 DEF Fillable, MinBigInt
<1>6. CASE orders[incoming].side = "buy"
  <2>1. m \in ToSet(sells) /\ Len(sells) > 0
    <3>1. m \in ToSet(sells)
      BY <1>2, <1>6, SidesAre
    <3>2. \E i \in 1..Len(sells) : sells[i] = m
      BY <3>1, SliceFacts DEF EngineInv, Structure, Half
    <3> QED BY <3>1, <3>2, SidesAre
  <2>2. sells[1] \in Entries /\ orders[sells[1]].side = "sell" /\ ~Ahead(orders[m], orders[sells[1]])
    <3>1. sells[1] \in Ids /\ sells[1] \in ToSet(sells)
      BY <2>1, SidesAre
    <3> QED BY <1>1, <1>6, <2>1, <3>1, BestAsk, SidesAre
  <2>3. orders[m].side = "sell" /\ Price(orders[incoming]) >= Price(orders[m])
    BY <1>1, <1>2, <1>3, <1>6, SidesAre DEF BookProofs!BuyOf, BookProofs!SellOf
  <2>4. Price(orders[m]) >= Price(orders[sells[1]])
    BY <1>2, <1>5, <2>2, <2>3 DEF Ahead
  <2>5. Price(orders[incoming]) >= Price(orders[sells[1]])
    BY <1>1, <1>2, <1>3, <1>4, <1>5, <2>2, <2>3, <2>4
  <2> QED BY <1>3, <1>5, <1>6, <2>1, <2>2, <2>5 DEF LoopLeft, BuyLoops
<1>7. CASE orders[incoming].side = "sell"
  <2>1. m \in ToSet(buys) /\ Len(buys) > 0
    <3>1. m \in ToSet(buys)
      BY <1>1, <1>2, <1>7, SidesAre
    <3>2. \E i \in 1..Len(buys) : buys[i] = m
      BY <3>1, SliceFacts DEF EngineInv, Structure, Half
    <3> QED BY <3>1, <3>2, SidesAre
  <2>2. buys[1] \in Entries /\ orders[buys[1]].side = "buy" /\ ~Ahead(orders[m], orders[buys[1]])
    <3>1. buys[1] \in Ids /\ buys[1] \in ToSet(buys)
      BY <2>1, SidesAre
    <3> QED BY <1>1, <1>7, <2>1, <3>1, BestBid, SidesAre
  <2>3. orders[m].side = "buy" /\ Price(orders[m]) >= Price(orders[incoming])
    BY <1>1, <1>2, <1>3, <1>7, SidesAre DEF BookProofs!BuyOf, BookProofs!SellOf
  <2>4. Price(orders[buys[1]]) >= Price(orders[m])
    BY <1>2, <1>5, <2>2, <2>3 DEF Ahead
  <2>5. Price(orders[buys[1]]) >= Price(orders[incoming])
    BY <1>1, <1>2, <1>3, <1>4, <1>5, <2>2, <2>3, <2>4
  <2> QED BY <1>3, <1>5, <1>7, <2>1, <2>2, <2>5 DEF LoopLeft, SellLoops
<1> QED BY <1>1, <1>6, <1>7

\* Pushing incoming onto the bids, or onto the asks.
LEMMA BidPushed ==
  ASSUME EngineInv, NEW o \in Ids \ Entries, Base(orders[o]) > 0, orders[o].side = "buy"
  PROVE  LET g == HeapPush(orders, Heap(buys), o)
         IN  Halves(orders, g.arr, sells, g.index, Entries \cup {o})
<1> DEFINE g == HeapPush(orders, Heap(buys), o)
<1>1. orders \in [Ids -> Order] /\ index \in [Ids -> Nat] /\ DOMAIN orders = Ids
  BY BookSays DEF EngineInv, Structure
<1>2. Ranked(orders, ToSet(buys) \cup {o})
  <2>1. \A a \in ToSet(buys) : a \in Ids /\ orders[a].side = "buy" /\ Base(orders[a]) > 0
    BY BookSays, HalfEntries DEF EngineInv, Structure, Entries
  <2>2. ToSet(buys) \cup {o} \in SUBSET Ids
    BY <2>1
  <2> QED BY <1>1, <2>1, <2>2, SideRanked
<1>3. With(orders, g, Heap(buys), o)
  <2>1. o \in DOMAIN orders \ ToSet(Heap(buys).arr) /\ Heap(buys).arr = buys
    BY <1>1 DEF Heap, Entries
  <2> QED BY <1>2, <2>1, HeapsAre, HeapPushFacts
<1> HIDE DEF g
<1>4. Parts(orders, g.arr, "buy", sells, "sell", g.index, Entries \cup {o})
  BY <1>1, <1>3, HalvesAre, PutIn DEF Heap, Halves
<1> QED BY <1>4 DEF Halves, g

\* The same for an ask.
LEMMA AskPushed ==
  ASSUME EngineInv, NEW o \in Ids \ Entries, Base(orders[o]) > 0, orders[o].side = "sell"
  PROVE  LET g == HeapPush(orders, Heap(sells), o)
         IN  Halves(orders, buys, g.arr, g.index, Entries \cup {o})
<1> DEFINE g == HeapPush(orders, Heap(sells), o)
<1>1. orders \in [Ids -> Order] /\ index \in [Ids -> Nat] /\ DOMAIN orders = Ids
  BY BookSays DEF EngineInv, Structure
<1>2. Ranked(orders, ToSet(sells) \cup {o})
  <2>1. \A a \in ToSet(sells) : a \in Ids /\ orders[a].side = "sell" /\ Base(orders[a]) > 0
    BY BookSays, HalfEntries DEF EngineInv, Structure, Entries
  <2>2. ToSet(sells) \cup {o} \in SUBSET Ids
    BY <2>1
  <2> QED BY <1>1, <2>1, <2>2, SideRanked
<1>3. With(orders, g, Heap(sells), o)
  <2>1. o \in DOMAIN orders \ ToSet(Heap(sells).arr) /\ Heap(sells).arr = sells
    BY <1>1 DEF Heap, Entries
  <2> QED BY <1>2, <2>1, HeapsAre, HeapPushFacts
<1> HIDE DEF g
<1>4. Parts(orders, sells, "sell", buys, "buy", index, Entries)
  BY HalvesAre, PartsSwap
<1>5. Parts(orders, g.arr, "sell", buys, "buy", g.index, Entries \cup {o})
  BY <1>1, <1>3, <1>4, PutIn DEF Heap
<1>6. Halves(orders, buys, g.arr, g.index, Entries \cup {o})
  BY <1>5, PartsSwap
<1> QED BY <1>6 DEF g


\* Leaving the loop finishes the AddOrder of the book.
LEMMA EndAddSteps ==
  ASSUME EngineInv, EndAdd
  PROVE  BookProofs!Finish /\ Structure'
<1> DEFINE o == incoming
           b == HeapPush(orders, Heap(buys), o)
           s == HeapPush(orders, Heap(sells), o)
           rests == RemainingBase(orders[o]) > 0 /\ orders[o].status # "filled"
<1>1. /\ o # NoOrder /\ LoopLeft /\ incoming' = NoOrder
      /\ UNCHANGED <<orders, seen, trades>>
      /\ IF rests
         THEN /\ orderMap' = orderMap \cup {o}
              /\ IF orders[o].side = "buy"
                 THEN buys' = b.arr /\ index' = b.index /\ UNCHANGED sells
                 ELSE sells' = s.arr /\ index' = s.index /\ UNCHANGED buys
         ELSE UNCHANGED <<orderMap, buys, sells, index>>
  BY DEF EndAdd
<1>2. /\ o \in Ids \ Entries /\ orders[o].side \in {"buy", "sell"}
      /\ RemainingBase(orders[o]) > 0 => Base(orders[o]) > 0
  BY <1>1, BookSays, SidesAre
<1>3. \A m \in BookProofs!Makers(o) : ~BookProofs!CanMatch(o, m)
  BY <1>1, LoopLeftFacts
<1>4. BookProofs!Remains(o) <=> rests
  BY SameArithmetic DEF BookProofs!Remains
<1>5. orderMap = Entries
  BY DEF EngineInv, Structure
<1> DEFINE E == IF rests THEN Entries \cup {o} ELSE Entries
<1>6. Halves(orders', buys', sells', index', E) /\ orderMap' = E
  <2>1. CASE rests /\ orders[o].side = "buy"
    <3>1. Halves(orders, b.arr, sells, b.index, Entries \cup {o})
      BY <1>2, <2>1, BidPushed
    <3> QED BY <1>1, <1>5, <2>1, <3>1
  <2>2. CASE rests /\ orders[o].side = "sell"
    <3>1. Halves(orders, buys, s.arr, s.index, Entries \cup {o})
      BY <1>2, <2>2, AskPushed
    <3> QED BY <1>1, <1>5, <2>2, <3>1
  <2>3. CASE ~rests
    BY <1>1, <1>5, <2>3, HalvesAre
  <2> QED BY <1>2, <2>1, <2>2, <2>3
<1> HIDE DEF E, rests, b, s
<1>7. Entries' = E
  BY <1>6 DEF Halves, Parts, Entries
<1>8. Structure'
  BY <1>6, <1>7, StructureIs
<1>9. BookProofs!Finish
  <2>1. Entries' = IF BookProofs!Remains(o) THEN Entries \cup {o} ELSE Entries
    BY <1>4, <1>7 DEF E
  <2> QED BY <1>1, <1>3, <2>1 DEF BookProofs!Finish
<1> QED BY <1>8, <1>9

\* Removing the entry of a bid, or of an ask, at its Index.
LEMMA BidRemoved ==
  ASSUME EngineInv, NEW o \in Entries, orders[o].side = "buy"
  PROVE  LET g == HeapRemove(orders, Heap(buys), index[o])
         IN  Halves(orders, g.arr, sells, g.index, Entries \ {o})
<1> DEFINE g == HeapRemove(orders, Heap(buys), index[o])
<1>1. /\ orders \in [Ids -> Order] /\ o \in ToSet(buys)
      /\ index[o] \in 1..Len(buys) /\ buys[index[o]] = o
  <2>1. o \in Ids
    BY BookSays
  <2>2. o \in ToSet(buys)
    BY <2>1, SidesAre
  <2> QED BY <2>2, BookSays, HalfEntries DEF EngineInv, Structure
<1>2. Without(orders, g, Heap(buys), o)
  <2>1. Heap(buys).arr = buys /\ Size(Heap(buys)) = Len(buys)
    BY DEF Heap, Size
  <2> QED BY <1>1, <2>1, HeapsAre, HeapRemoveFacts
<1> HIDE DEF g
<1>3. Parts(orders, g.arr, "buy", sells, "sell", g.index, Entries \ {o})
  BY <1>1, <1>2, HalvesAre, TakenOut DEF Heap, Halves
<1> QED BY <1>3 DEF Halves, g

\* The same for an ask.
LEMMA AskRemoved ==
  ASSUME EngineInv, NEW o \in Entries, orders[o].side = "sell"
  PROVE  LET g == HeapRemove(orders, Heap(sells), index[o])
         IN  Halves(orders, buys, g.arr, g.index, Entries \ {o})
<1> DEFINE g == HeapRemove(orders, Heap(sells), index[o])
<1>1. /\ orders \in [Ids -> Order] /\ o \in ToSet(sells)
      /\ index[o] \in 1..Len(sells) /\ sells[index[o]] = o
  <2>1. o \in Ids
    BY BookSays
  <2>2. o \in ToSet(sells)
    BY <2>1, SidesAre
  <2> QED BY <2>2, BookSays, HalfEntries DEF EngineInv, Structure
<1>2. Without(orders, g, Heap(sells), o)
  <2>1. Heap(sells).arr = sells /\ Size(Heap(sells)) = Len(sells)
    BY DEF Heap, Size
  <2> QED BY <1>1, <2>1, HeapsAre, HeapRemoveFacts
<1> HIDE DEF g
<1>3. Parts(orders, sells, "sell", buys, "buy", index, Entries)
  BY HalvesAre, PartsSwap
<1>4. Parts(orders, g.arr, "sell", buys, "buy", g.index, Entries \ {o})
  BY <1>1, <1>2, <1>3, TakenOut DEF Heap
<1>5. Halves(orders, buys, g.arr, g.index, Entries \ {o})
  BY <1>4, PartsSwap
<1> QED BY <1>5 DEF g

\* CancelOrder takes the very order off the book, wherever its entry is.
LEMMA CancelSteps ==
  ASSUME EngineInv, NEW o \in Ids, CancelOrder(o)
  PROVE  BookProofs!Cancel(o) /\ Structure'
<1> DEFINE b == HeapRemove(orders, Heap(buys), index[o])
           s == HeapRemove(orders, Heap(sells), index[o])
<1>1. /\ incoming = NoOrder /\ o \in orderMap
      /\ orders' = [orders EXCEPT ![o].status = "cancelled"]
      /\ orderMap' = orderMap \ {o}
      /\ IF orders[o].side = "buy"
         THEN buys' = b.arr /\ index' = b.index /\ UNCHANGED sells
         ELSE sells' = s.arr /\ index' = s.index /\ UNCHANGED buys
      /\ UNCHANGED <<seen, incoming, trades>>
  BY DEF CancelOrder
<1>2. o \in Entries /\ orderMap = Entries /\ orders[o].side \in {"buy", "sell"}
  BY <1>1, SidesAre DEF EngineInv, Structure
<1>3. Halves(orders, buys', sells', index', Entries \ {o})
  <2>1. CASE orders[o].side = "buy"
    BY <1>1, <1>2, <2>1, BidRemoved
  <2>2. CASE orders[o].side = "sell"
    BY <1>1, <1>2, <2>2, AskRemoved
  <2> QED BY <1>2, <2>1, <2>2
<1> HIDE DEF b, s
<1>4. SameRank(orders, orders')
  <2>1. orders \in [Ids -> Order]
    BY BookSays
  <2>2. ASSUME NEW id \in Ids
        PROVE  /\ orders'[id].side = orders[id].side
               /\ orders'[id].amountSell = orders[id].amountSell
               /\ orders'[id].amountBuy = orders[id].amountBuy
               /\ orders'[id].createdAt = orders[id].createdAt
    <3>1. orders[id] \in Order
      BY <2>1
    <3>2. orders'[id] = IF id = o THEN [orders[o] EXCEPT !.status = "cancelled"] ELSE orders[id]
      BY <1>1, <2>1
    <3> QED BY <3>1, <3>2 DEF Order
  <2> QED BY <2>2 DEF SameRank
<1>5. Halves(orders', buys', sells', index', Entries \ {o})
  BY <1>3, <1>4, HalvesKept
<1>6. Entries' = Entries \ {o}
  BY <1>5 DEF Halves, Parts, Entries
<1>7. Structure'
  BY <1>1, <1>2, <1>5, <1>6, StructureIs
<1>8. BookProofs!Cancel(o)
  BY <1>1, <1>2, <1>6 DEF BookProofs!Cancel, BookProofs!Found
<1> QED BY <1>7, <1>8


\* The engine starts as an empty book with empty heaps.
LEMMA EngineStart == Init => BookProofs!BookInit /\ EngineInv
<1> SUFFICES ASSUME Init PROVE BookProofs!BookInit /\ EngineInv
  OBVIOUS
<1>1. ToSet(buys) = {} /\ ToSet(sells) = {} /\ buys \in Seq(Ids) /\ sells \in Seq(Ids)
  BY SliceFacts DEF Init, ToSet
<1>2. Entries = {}
  BY <1>1 DEF Entries
<1>3. BookProofs!BookInit
  BY <1>2 DEF Init, BookProofs!BookInit
<1>4. Structure
  BY <1>1, <1>2 DEF Init, Structure, Half, NoOther, Ordered
<1> QED BY <1>3, <1>4, BookStart DEF EngineInv

\* Every step of the engine is one of the book, or none, and keeps the invariant.
LEMMA EngineStep ==
  EngineInv /\ [Next]_vars => EngineInv' /\ [BookProofs!BookNext]_BookProofs!bookVars
<1> SUFFICES ASSUME EngineInv, [Next]_vars
             PROVE  EngineInv' /\ [BookProofs!BookNext]_BookProofs!bookVars
  OBVIOUS
<1>1. CASE UNCHANGED vars
  <2>1. UNCHANGED <<orders, seen, incoming, trades, buys, sells, orderMap, index>>
    BY <1>1 DEF vars
  <2>2. Entries' = Entries
    BY <2>1 DEF Entries
  <2>3. UNCHANGED BookProofs!bookVars
    BY <2>1, <2>2 DEF BookProofs!bookVars
  <2>4. Structure'
    BY <2>1, <2>2 DEF EngineInv, Structure, Half, NoOther, Ordered
  <2> QED BY <2>3, <2>4, BookStep DEF EngineInv
<1>2. ASSUME NEW o \in Ids, Begin(o) \/ BeginPanics(o) \/ CancelOrder(o)
      PROVE  BookProofs!BookNext /\ Structure'
  BY <1>2, BeginSteps, CancelSteps DEF BookProofs!BookNext
<1>3. ASSUME MatchBuy PROVE BookProofs!BookNext /\ Structure'
  BY <1>3, MatchBuySteps DEF BookProofs!BookNext
<1>4. ASSUME MatchSell PROVE BookProofs!BookNext /\ Structure'
  BY <1>4, MatchSellSteps DEF BookProofs!BookNext
<1>5. ASSUME EndAdd PROVE BookProofs!BookNext /\ Structure'
  BY <1>5, EndAddSteps DEF BookProofs!BookNext
<1>6. CASE Next
  <2>1. BookProofs!BookNext /\ Structure'
    BY <1>2, <1>3, <1>4, <1>5, <1>6 DEF Next
  <2> QED BY <2>1, BookStep DEF EngineInv
<1> QED BY <1>1, <1>6

--------------------------------------------------------------------------------
(***************************************************************************)
(* Theorems.                                                               *)
(***************************************************************************)

\* The invariant holds of every behaviour of the engine.
LEMMA EngineAlways ==
  Spec => []EngineInv /\ BookProofs!BookInit /\ [][BookProofs!BookNext]_BookProofs!bookVars
BY EngineStart, EngineStep, PTL DEF Spec

\* The book of the refinement is the book of the proofs.
LEMMA SameBook ==
  /\ Book!BookInit <=> BookProofs!BookInit
  /\ [Book!BookNext]_Book!bookVars <=> [BookProofs!BookNext]_BookProofs!bookVars
  /\ Book!BookTypeOK <=> BookProofs!BookTypeOK
<1>1. Book!Order = BookProofs!Order
  BY DEF Book!Order, Book!Sides, Book!Statuses, Book!LiveStatuses, BookProofs!Order,
         BookProofs!Sides, BookProofs!Statuses, BookProofs!LiveStatuses
<1>2. \A o : /\ Book!RemainingBase(o) = BookProofs!RemainingBase(o)
             /\ Book!Price(o) = BookProofs!Price(o)
             /\ Book!PricePanics(o) <=> BookProofs!PricePanics(o)
  BY DEF Book!RemainingBase, Book!Price, Book!PricePanics, Book!Base, Book!Quote,
         Book!RoundHalfEven, BookProofs!RemainingBase, BookProofs!Price,
         BookProofs!PricePanics, BookProofs!Base, BookProofs!Quote, BookProofs!RoundHalfEven
<1>3. \A o, p : /\ Book!Ahead(o, p) <=> BookProofs!Ahead(o, p)
                /\ Book!Compatible(o, p) <=> BookProofs!Compatible(o, p)
  BY <1>2 DEF Book!Ahead, Book!Compatible, BookProofs!Ahead, BookProofs!Compatible
<1>4. \A o, n : /\ Book!Filled(o, n) = BookProofs!Filled(o, n)
                /\ Book!SellerReceives(o, n) = BookProofs!SellerReceives(o, n)
                /\ Book!MinBigInt(o, n) = BookProofs!MinBigInt(o, n)
  <2>1. \A o : Book!RemainingBase(o) = BookProofs!RemainingBase(o)
    BY <1>2
  <2>2. \A o, n : Book!Filled(o, n) = BookProofs!Filled(o, n)
    <3> TAKE o, n
    <3> DEFINE p == [o EXCEPT !.filledBase = @ + n]
    <3>1. Book!RemainingBase(p) = BookProofs!RemainingBase(p)
      BY <2>1
    <3> QED BY <3>1, Zenon DEF Book!Filled, BookProofs!Filled
  <2>3. \A o, n : /\ Book!SellerReceives(o, n) = BookProofs!SellerReceives(o, n)
                  /\ Book!MinBigInt(o, n) = BookProofs!MinBigInt(o, n)
    BY DEF Book!SellerReceives, Book!MinBigInt, BookProofs!SellerReceives,
           BookProofs!MinBigInt
  <2> QED BY <2>2, <2>3
<1>5. \A a, b : /\ Book!BuyOf(a, b) = BookProofs!BuyOf(a, b)
                /\ Book!SellOf(a, b) = BookProofs!SellOf(a, b)
  BY DEF Book!BuyOf, Book!SellOf, BookProofs!BuyOf, BookProofs!SellOf
<1>6. \A o : Book!Makers(o) = BookProofs!Makers(o)
  BY DEF Book!Makers, BookProofs!Makers
<1>7. \A o, m : Book!CanMatch(o, m) <=> BookProofs!CanMatch(o, m)
  BY <1>2, <1>3, <1>5 DEF Book!CanMatch, BookProofs!CanMatch
<1>8. \A m : Book!Match(m) <=> BookProofs!Match(m)
  BY <1>2, <1>3, <1>4, <1>5, <1>6, <1>7 DEF Book!Match, BookProofs!Match
<1>9. Book!Finish <=> BookProofs!Finish
  BY <1>2, <1>6, <1>7 DEF Book!Finish, Book!Remains, BookProofs!Finish, BookProofs!Remains
<1>10. \A o : /\ Book!Begin(o) <=> BookProofs!Begin(o)
              /\ Book!BeginPanics(o) <=> BookProofs!BeginPanics(o)
              /\ Book!Cancel(o) <=> BookProofs!Cancel(o)
  BY <1>2 DEF Book!Begin, Book!BeginPanics, Book!AfterPanic, Book!Cancel, Book!Found,
              BookProofs!Begin, BookProofs!BeginPanics, BookProofs!AfterPanic,
              BookProofs!Cancel, BookProofs!Found
<1>11. Book!BookInit <=> BookProofs!BookInit
  BY DEF Book!BookInit, BookProofs!BookInit
<1>12. Book!BookNext <=> BookProofs!BookNext
  BY <1>8, <1>9, <1>10 DEF Book!BookNext, BookProofs!BookNext
<1>13. Book!bookVars = BookProofs!bookVars /\ (Book!bookVars)' = (BookProofs!bookVars)'
  BY DEF Book!bookVars, BookProofs!bookVars
<1>14. Book!BookTypeOK <=> BookProofs!BookTypeOK
  BY <1>1 DEF Book!BookTypeOK, Book!MatchResult, BookProofs!BookTypeOK, BookProofs!MatchResult
<1> QED BY <1>11, <1>12, <1>13, <1>14

\* The engine, with its two heaps, their Index fields and orderMap, implements the
\* set-based book.
THEOREM EngineImplementsBook == Spec => BookImplemented
BY EngineAlways, SameBook, PTL DEF BookImplemented, Book!BookSpec

\* Types, and the range of every Index.
THEOREM EngineTypes == Spec => []EngineTypeOK
<1>1. EngineInv => EngineTypeOK
  <2> SUFFICES ASSUME EngineInv PROVE EngineTypeOK
    OBVIOUS
  <2>1. Book!BookTypeOK
    BY SameBook DEF EngineInv, BookProofs!BookInv, BookProofs!BookCore
  <2>2. buys \in Seq(Ids) /\ sells \in Seq(Ids) /\ index \in [Ids -> Nat]
    BY DEF EngineInv, Structure, Half
  <2>3. orderMap \subseteq Ids
    BY BookSays DEF EngineInv, Structure
  <2>4. ASSUME NEW id \in Ids PROVE index[id] \in 0..(Len(buys) + Len(sells))
    <3>1. CASE id \in ToSet(buys)
      <4>1. index[id] \in 1..Len(buys)
        BY <3>1, HalfEntries DEF EngineInv, Structure
      <4> QED BY <2>2, <4>1
    <3>2. CASE id \in ToSet(sells)
      <4>1. index[id] \in 1..Len(sells)
        BY <3>2, HalfEntries DEF EngineInv, Structure
      <4> QED BY <2>2, <4>1
    <3>3. CASE id \notin Entries
      <4>1. index[id] = 0
        BY <3>3 DEF EngineInv, Structure, NoOther
      <4> QED BY <2>2, <4>1
    <3> QED BY <3>1, <3>2, <3>3 DEF Entries
  <2> QED BY <2>1, <2>2, <2>3, <2>4 DEF EngineTypeOK
<1> QED BY <1>1, EngineAlways, PTL

\* Both slices are heaps after every push, pop and removal.
THEOREM HeapsStayOrdered == Spec => []HeapsOrdered
<1>1. EngineInv => HeapsOrdered
  BY DEF EngineInv, Structure, Half, HeapsOrdered
<1> QED BY <1>1, EngineAlways, PTL

\* orderMap, the heaps and the Index fields agree, so CancelOrder removes the right entry.
THEOREM IndicesAgree == Spec => []IndexAgrees
<1>1. EngineInv => IndexAgrees
  BY DEF EngineInv, Structure, Half, NoOther, IndexAgrees
<1> QED BY <1>1, EngineAlways, PTL

\* The engine lets nobody trade beyond its limit but by the rounding of prices, and by no
\* more than a point of their grid.
THEOREM EngineNearLimits == Spec => []TradesNearLimits
<1>1. BookProofs!BookInit => BookProofs!AllPriced
  BY BookConstants, PriceScaleAssumption, BookProofs!AllPricedInit
<1>2. BookProofs!BookInv /\ BookProofs!AllPriced /\ [BookProofs!BookNext]_BookProofs!bookVars
        => BookProofs!AllPriced'
  BY BookConstants, PriceScaleAssumption, BookProofs!AllPricedStep DEF BookProofs!BookInv
<1>3. BookProofs!BookInv /\ BookProofs!AllPriced => BookProofs!TradesNearLimits
  BY BookConstants, PriceScaleAssumption, BookProofs!NearTrades DEF BookProofs!BookInv
<1>4. BookProofs!TradesNearLimits => TradesNearLimits
  <2>1. \A o : BookProofs!Price(o) = Book!Price(o)
    BY DEF BookProofs!Price, BookProofs!Base, BookProofs!Quote, BookProofs!RoundHalfEven,
           Book!Price, Book!Base, Book!Quote, Book!RoundHalfEven
  <2>2. \A b, s : /\ BookProofs!LimitsMeet(b, s) <=> Book!LimitsMeet(b, s)
                  /\ BookProofs!MeetOnlyRounded(b, s) <=> Book!MeetOnlyRounded(b, s)
    BY <2>1 DEF BookProofs!LimitsMeet, BookProofs!MeetOnlyRounded, Book!LimitsMeet,
                Book!MeetOnlyRounded
  <2> QED BY <2>2 DEF TradesNearLimits, BookProofs!TradesNearLimits, Book!TradesNearLimits
<1>5. EngineInv => BookProofs!BookInv
  BY DEF EngineInv
<1> QED BY <1>1, <1>2, <1>3, <1>4, <1>5, EngineAlways, PTL


\* While an order rests, no resting order of its side that it is ahead of is filled.
THEOREM PriceTimePriorityKept == Spec => PriceTimePriority
<1> DEFINE Kept == \A a, b \in Entries :
                     /\ orders[a].side = orders[b].side
                     /\ Ahead(orders[a], orders[b])
                     => orders'[b].filledBase = orders[b].filledBase
<1>1. ASSUME EngineInv, [Next]_vars PROVE [Kept]_vars
  <2>1. \A b \in Entries : b \in Ids /\ b # incoming
    BY <1>1, BookSays
  <2>2. ASSUME NEW m \in Ids, BookProofs!Match(m) PROVE Kept
    <3> SUFFICES ASSUME NEW a \in Entries, NEW b \in Entries,
                        orders[a].side = orders[b].side, Ahead(orders[a], orders[b])
                 PROVE  orders'[b].filledBase = orders[b].filledBase
      OBVIOUS
    <3>1. /\ m \in BookProofs!Makers(incoming)
          /\ \A k \in BookProofs!Makers(incoming) : ~BookProofs!Ahead(orders[k], orders[m])
          /\ \E f, g : orders' = [orders EXCEPT ![incoming] = f, ![m] = g]
      BY <2>2 DEF BookProofs!Match
    <3>2. orders \in [Ids -> Order] /\ b \in Ids /\ b # incoming
      BY <1>1, <2>1, BookSays
    <3>3. b # m
      <4> SUFFICES ASSUME b = m PROVE FALSE
        OBVIOUS
      <4>1. a \in BookProofs!Makers(incoming)
        BY <3>1 DEF BookProofs!Makers
      <4> QED BY <3>1, <4>1, SameArithmetic
    <3> QED BY <3>1, <3>2, <3>3
  <2>3. CASE UNCHANGED orders
    BY <2>3
  <2>4. ASSUME NEW o \in Ids, CancelOrder(o) PROVE Kept
    <3>1. orders \in [Ids -> Order] /\ orders' = [orders EXCEPT ![o].status = "cancelled"]
      BY <1>1, <2>4, BookSays DEF CancelOrder
    <3>2. ASSUME NEW b \in Ids PROVE orders'[b].filledBase = orders[b].filledBase
      <4>1. orders[b] \in Order
        BY <3>1
      <4>2. orders'[b] = IF b = o THEN [orders[b] EXCEPT !.status = "cancelled"] ELSE orders[b]
        BY <3>1
      <4> QED BY <4>1, <4>2 DEF Order
    <3> QED BY <2>1, <3>2
  <2>5. ASSUME MatchBuy PROVE Kept
    BY <1>1, <2>2, <2>5, MatchBuySteps
  <2>6. ASSUME MatchSell PROVE Kept
    BY <1>1, <2>2, <2>6, MatchSellSteps
  <2>7. ASSUME NEW o \in Ids, Begin(o) \/ BeginPanics(o) PROVE UNCHANGED orders
    BY <2>7 DEF Begin, BeginPanics
  <2>8. ASSUME EndAdd PROVE UNCHANGED orders
    BY <2>8 DEF EndAdd
  <2>9. ASSUME Next PROVE Kept
    BY <2>3, <2>4, <2>5, <2>6, <2>7, <2>8, <2>9 DEF Next
  <2> QED BY <1>1, <2>9
<1> QED BY <1>1, EngineAlways, PTL DEF Spec, PriceTimePriority

--------------------------------------------------------------------------------
(***************************************************************************)
(* The snapshot: its prices, sorted, and what its levels add up to.        *)
(***************************************************************************)

\* No price twice.
Distinct(s) == \A k, l \in 1..Len(s) : s[k] = s[l] => k = l

\* Everything left of a position up to i is better than what is there.
SortedTo(side, s, i) ==
  \A k, l \in 1..Len(s) : k < l /\ l <= i => Better(side, s[k], s[l])

\* The slices with the prices of s, each once.
Shuffles(s) ==
  { t \in Seq(Int) : Len(t) = Len(s) /\ Distinct(t) /\ ToSet(t) = ToSet(s) }

\* Better is a strict order on different prices.
LEMMA BetterOrders ==
  ASSUME NEW side
  PROVE  /\ \A x, y \in Int : x # y => Better(side, x, y) \/ Better(side, y, x)
         /\ \A x, y, z \in Int : Better(side, x, y) /\ Better(side, y, z) => Better(side, x, z)
BY DEF Better

\* The inner loop: the price at the loop's position is the only one that may be worse than
\* a price to its right, up to i; what it has passed it is better than.
SinkStates(side, s, i) ==
  { c \in PriceLoops :
      /\ c.slice \in Shuffles(s) /\ c.at \in 1..i
      /\ \A k, l \in 1..i : k < l /\ l # c.at => Better(side, c.slice[k], c.slice[l]) }

\* The exchange of two neighbours.
Exchanged(t, i) == [t EXCEPT ![i] = t[i - 1], ![i - 1] = t[i]]

\* It keeps the prices, and no others move.
LEMMA ExchangedFacts ==
  ASSUME NEW s, NEW t \in Shuffles(s), NEW i \in 2..Len(t)
  PROVE  /\ Exchanged(t, i) \in Shuffles(s)
         /\ \A k \in 1..Len(t) : Exchanged(t, i)[k] = IF k = i THEN t[i - 1]
                                                     ELSE IF k = i - 1 THEN t[i] ELSE t[k]
<1> DEFINE n == Len(t)
           u == Exchanged(t, i)
<1>1. /\ t \in [1..n -> Int] /\ n \in Nat /\ n = Len(s) /\ Distinct(t) /\ ToSet(t) = ToSet(s)
      /\ i \in Nat /\ i \in 1..n /\ i - 1 \in 1..n
  BY SliceFacts DEF Shuffles
<1>2. \A k \in 1..n : u[k] = IF k = i THEN t[i - 1] ELSE IF k = i - 1 THEN t[i] ELSE t[k]
  BY <1>1 DEF Exchanged
<1>3. u \in [1..n -> Int]
  BY <1>1 DEF Exchanged
<1> HIDE DEF u, n
<1>4. u \in Seq(Int) /\ Len(u) = n
  BY <1>1, <1>3, ArrayIsSlice
<1>5. Distinct(u)
  <2> SUFFICES ASSUME NEW k \in 1..n, NEW l \in 1..n, u[k] = u[l] PROVE k = l
    BY <1>4 DEF Distinct
  <2>1. \A x, y \in 1..n : t[x] = t[y] => x = y
    BY <1>1 DEF Distinct, n
  <2> QED BY <1>1, <1>2, <2>1
<1>6. ToSet(u) = ToSet(t)
  <2>1. ToSet(u) = { u[k] : k \in 1..n } /\ ToSet(t) = { t[k] : k \in 1..n }
    BY <1>1, <1>3 DEF ToSet
  <2>2. \A k \in 1..n : \E l \in 1..n : u[k] = t[l]
    BY <1>1, <1>2
  <2>3. \A k \in 1..n : \E l \in 1..n : t[k] = u[l]
    BY <1>1, <1>2
  <2> QED BY <2>1, <2>2, <2>3
<1>7. u \in Shuffles(s)
  BY <1>1, <1>4, <1>5, <1>6 DEF Shuffles
<1> QED BY <1>2, <1>7 DEF u, n

\* A turn of the inner loop: the price is in its place, or it moves left.
LEMMA SinkTurnFacts ==
  ASSUME NEW side, NEW s, NEW i \in 1..Len(s), Len(s) \in Nat, NEW c \in SinkStates(side, s, i)
  PROVE  /\ SinkTurn(side)[c] \in SinkStates(side, s, i)
         /\ \/ SinkTurn(side)[c] = c /\ SortedTo(side, c.slice, i)
            \/ SinkTurn(side)[c].at < c.at
<1> DEFINE j == c.at
           t == c.slice
<1>1. /\ c \in PriceLoops /\ t \in Shuffles(s) /\ t \in Seq(Int) /\ Len(t) = Len(s)
      /\ j \in 1..i /\ j \in Nat /\ i \in Nat
      /\ \A k, l \in 1..i : k < l /\ l # j => Better(side, t[k], t[l])
  BY DEF SinkStates, Shuffles, PriceLoops
<1>2. /\ Distinct(t) /\ \A k \in 1..i : t[k] \in Int /\ k \in 1..Len(t)
  BY <1>1 DEF Shuffles
<1>3. SinkTurn(side)[c] = IF j > 1 /\ Better(side, t[j], t[j - 1])
                          THEN [slice |-> Exchanged(t, j), at |-> j - 1] ELSE c
  BY <1>1 DEF SinkTurn, Exchanged
<1> HIDE DEF j, t
<1>4. CASE j = 1
  <2>1. SortedTo(side, t, i)
    BY <1>1, <1>4 DEF SortedTo
  <2> QED BY <1>3, <1>4, <2>1 DEF j, t
<1>5. CASE j > 1 /\ ~Better(side, t[j], t[j - 1])
  <2>1. j - 1 \in 1..i /\ j \in 1..i /\ t[j] # t[j - 1] /\ t[j] \in Int /\ t[j - 1] \in Int
    <3>1. j - 1 \in 1..i /\ j \in 1..i
      BY <1>1, <1>5
    <3> QED BY <1>2, <3>1 DEF Distinct
  <2>2. Better(side, t[j - 1], t[j])
    BY <1>5, <2>1, BetterOrders
  <2>3. ASSUME NEW k \in 1..i, k < j PROVE Better(side, t[k], t[j])
    <3>1. CASE k = j - 1
      BY <2>2, <3>1
    <3>2. CASE k # j - 1
      <4>1. k < j - 1 /\ j - 1 # j
        BY <1>1, <2>3, <3>2
      <4>2. Better(side, t[k], t[j - 1])
        BY <1>1, <2>1, <4>1
      <4> QED BY <1>2, <2>1, <2>2, <4>2, BetterOrders
    <3> QED BY <3>1, <3>2
  <2>4. SortedTo(side, t, i)
    <3> SUFFICES ASSUME NEW k \in 1..Len(t), NEW l \in 1..Len(t), k < l, l <= i
                 PROVE  Better(side, t[k], t[l])
      BY DEF SortedTo
    <3>1. k \in 1..i /\ l \in 1..i
      BY <1>1
    <3> QED BY <1>1, <2>3, <3>1
  <2> QED BY <1>3, <1>5, <2>4 DEF j, t
<1>6. CASE j > 1 /\ Better(side, t[j], t[j - 1])
  <2> DEFINE u == Exchanged(t, j)
             d == [slice |-> u, at |-> j - 1]
  <2>1. j \in 2..Len(t) /\ j \in 1..i /\ j - 1 \in 1..i /\ j - 1 \in Nat
    BY <1>1, <1>6
  <2>2. /\ u \in Shuffles(s)
        /\ \A k \in 1..Len(t) : u[k] = IF k = j THEN t[j - 1]
                                       ELSE IF k = j - 1 THEN t[j] ELSE t[k]
    BY <1>1, <2>1, ExchangedFacts
  <2> HIDE DEF u
  <2>3. ASSUME NEW k \in 1..i, NEW l \in 1..i, k < l, l # j - 1
        PROVE  Better(side, u[k], u[l])
    <3>1. /\ u[k] = IF k = j THEN t[j - 1] ELSE IF k = j - 1 THEN t[j] ELSE t[k]
          /\ u[l] = IF l = j THEN t[j - 1] ELSE t[l]
      BY <1>2, <2>2, <2>3
    <3>2. CASE l = j
      <4>1. CASE k = j - 1
        BY <1>1, <1>6, <3>1, <3>2, <4>1
      <4>2. CASE k # j - 1
        <5>1. k < j - 1 /\ u[k] = t[k] /\ u[l] = t[j - 1] /\ j - 1 # j
          BY <1>1, <2>3, <3>1, <3>2, <4>2
        <5> QED BY <1>1, <2>1, <5>1
      <4> QED BY <4>1, <4>2
    <3>3. CASE l # j
      <4>1. u[l] = t[l]
        BY <3>1, <3>3
      <4>2. PICK m \in 1..i : u[k] = t[m] /\ m < l
        <5>1. CASE k = j
          <6>1. j - 1 < l
            BY <1>1, <2>3, <5>1
          <6> QED BY <2>1, <3>1, <5>1, <6>1
        <5>2. CASE k = j - 1
          <6>1. j < l /\ k # j
            BY <1>1, <2>3, <3>3, <5>2
          <6> QED BY <2>1, <3>1, <5>2, <6>1
        <5>3. CASE k # j /\ k # j - 1
          BY <2>3, <3>1, <5>3
        <5> QED BY <5>1, <5>2, <5>3
      <4> QED BY <1>1, <3>3, <4>1, <4>2
    <3> QED BY <3>2, <3>3
  <2>4. d \in SinkStates(side, s, i)
    <3>1. d.slice = u /\ d.at = j - 1 /\ d \in PriceLoops
      BY <2>1, <2>2 DEF PriceLoops, Shuffles
    <3> HIDE DEF d
    <3> QED BY <2>1, <2>2, <2>3, <3>1 DEF SinkStates
  <2>5. SinkTurn(side)[c] = d /\ d.at < j
    BY <1>1, <1>3, <1>6 DEF u
  <2> QED BY <2>4, <2>5 DEF j
<1> QED BY <1>1, <1>4, <1>5, <1>6

\* With the prices before i in order, the one at i sinks to its place.
LEMMA SinkFacts ==
  ASSUME NEW side, NEW s, NEW t \in Shuffles(s), Len(s) \in Nat, NEW i \in 1..Len(s),
         SortedTo(side, t, i - 1)
  PROVE  Sink(side, t, i) \in Shuffles(s) /\ SortedTo(side, Sink(side, t, i), i)
<1> DEFINE S == SinkStates(side, s, i)
           Done == { d \in S : SortedTo(side, d.slice, i) }
           u == SinkTurn(side)
           c == [slice |-> t, at |-> i]
<1>1. c \in S
  <2>1. c \in PriceLoops /\ c.slice = t /\ c.at = i /\ i \in 1..i /\ Len(t) = Len(s)
    BY DEF PriceLoops, Shuffles
  <2>2. ASSUME NEW k \in 1..i, NEW l \in 1..i, k < l, l # i PROVE Better(side, t[k], t[l])
    <3>1. k \in 1..Len(t) /\ l \in 1..Len(t) /\ l <= i - 1
      BY <2>1, <2>2
    <3> QED BY <2>2, <3>1 DEF SortedTo
  <2> HIDE DEF c
  <2> QED BY <2>1, <2>2 DEF SinkStates
<1>2. \A d \in S : d.at \in Nat /\ d.at >= 1 /\ d.slice \in Shuffles(s)
  BY DEF SinkStates
<1>3. \A d \in S : /\ u[d] \in S /\ d.at \in Nat /\ d.at >= 1
                   /\ (u[d] = d /\ d \in Done) \/ u[d].at < d.at
  BY <1>2, SinkTurnFacts
<1> DEFINE e == Repeat(u, c, c.at)
<1>4. Sink(side, t, i) = e.slice
  BY DEF Sink
<1>5. e \in S /\ e \in Done
  <2> HIDE DEF S, Done, u, c
  <2> QED BY <1>1, <1>3, LoopEnds
<1> HIDE DEF e
<1> QED BY <1>2, <1>4, <1>5

\* The sort keeps the prices and puts the better ones first.
LEMMA SortFacts ==
  ASSUME NEW side, NEW s \in Seq(Int), Distinct(s)
  PROVE  /\ InsertionSort(side, s) \in Shuffles(s)
         /\ SortedTo(side, InsertionSort(side, s), Len(s))
<1> DEFINE n == Len(s)
           S == { d \in PriceLoops : d.slice \in Shuffles(s) /\ SortedTo(side, d.slice, d.at) }
           u == SortTurn(side)
           c == [slice |-> s, at |-> 1]
<1>1. n \in Nat /\ s \in Shuffles(s)
  BY DEF Shuffles
<1>2. c \in S
  <2>1. SortedTo(side, s, 1)
    BY <1>1 DEF SortedTo
  <2> QED BY <1>1, <2>1 DEF PriceLoops
<1>3. ASSUME NEW d \in S
      PROVE  /\ u[d] \in S /\ d.at \in Nat
             /\ u[d].at = IF d.at < n THEN d.at + 1 ELSE d.at
  <2>1. /\ d \in PriceLoops /\ d.slice \in Shuffles(s) /\ Len(d.slice) = n /\ d.at \in Nat
        /\ SortedTo(side, d.slice, d.at)
    BY DEF Shuffles, PriceLoops
  <2>2. CASE d.at < n
    <3> DEFINE i == d.at + 1
               t == Sink(side, d.slice, i)
    <3>1. i \in 1..n /\ i - 1 = d.at /\ i \in Nat
      BY <1>1, <2>1, <2>2
    <3> HIDE DEF i
    <3>2. t \in Shuffles(s) /\ SortedTo(side, t, i)
      BY <1>1, <2>1, <3>1, SinkFacts
    <3>3. u[d] = [slice |-> t, at |-> i]
      BY <2>1, <2>2 DEF SortTurn, i
    <3> HIDE DEF t
    <3>4. [slice |-> t, at |-> i] \in S
      BY <3>1, <3>2 DEF PriceLoops, Shuffles
    <3>5. u[d].at = i
      BY <3>3
    <3> QED BY <2>1, <2>2, <3>3, <3>4, <3>5 DEF i
  <2>3. CASE ~(d.at < n)
    BY <2>1, <2>3 DEF SortTurn
  <2> QED BY <2>2, <2>3
<1> DEFINE e == Repeat(u, c, n)
<1>4. e \in S /\ e.at >= n
  <2> HIDE DEF S, u, c, n
  <2> QED BY <1>1, <1>2, <1>3, LoopCounts
<1>5. InsertionSort(side, s) = e.slice
  BY DEF InsertionSort
<1> HIDE DEF e
<1>6. e.slice \in Shuffles(s) /\ SortedTo(side, e.slice, e.at) /\ e.at \in Nat
  BY <1>4 DEF PriceLoops
<1>7. SortedTo(side, e.slice, n)
  <2>1. Len(e.slice) = n
    BY <1>6 DEF Shuffles
  <2> QED BY <1>1, <1>4, <1>6, <2>1 DEF SortedTo
<1> QED BY <1>5, <1>6, <1>7

\* PricesOf shows every price of the slice once.
LEMMA PricesFacts ==
  ASSUME NEW arr \in Seq(Ids), \A k \in 1..Len(arr) : Price(orders[arr[k]]) \in Int
  PROVE  /\ PricesOf(arr) \in Seq(Int) /\ Distinct(PricesOf(arr))
         /\ ToSet(PricesOf(arr)) = { Price(orders[arr[k]]) : k \in 1..Len(arr) }
<1> DEFINE n == Len(arr)
           P(k) == Price(orders[arr[k]])
           S == { d \in PriceLoops :
                    /\ d.at \in 0..n /\ Distinct(d.slice)
                    /\ ToSet(d.slice) = { P(k) : k \in 1..d.at } }
           u == PriceTurn(arr)
           c == [slice |-> << >>, at |-> 0]
<1>1. n \in Nat
  OBVIOUS
<1>2. c \in S
  <2>1. << >> \in Seq(Int) /\ Len(<< >>) = 0 /\ ToSet(<< >>) = {} /\ 1..0 = {}
    BY DEF ToSet
  <2>2. Distinct(<< >>) /\ { P(k) : k \in 1..0 } = {}
    BY <2>1 DEF Distinct
  <2> QED BY <1>1, <2>1, <2>2 DEF PriceLoops
<1>3. ASSUME NEW d \in S
      PROVE  /\ u[d] \in S /\ d.at \in Nat
             /\ u[d].at = IF d.at < n THEN d.at + 1 ELSE d.at
  <2> DEFINE i == d.at + 1
             s == d.slice
             t == IF P(i) \in ToSet(s) THEN s ELSE Append(s, P(i))
  <2>1. /\ d \in PriceLoops /\ s \in Seq(Int) /\ d.at \in Nat /\ d.at \in 0..n /\ Distinct(s)
        /\ ToSet(s) = { P(k) : k \in 1..d.at }
    BY DEF PriceLoops
  <2>2. CASE d.at < n
    <3>1. i \in 1..n /\ P(i) \in Int
      BY <1>1, <2>1, <2>2
    <3>2. u[d] = [slice |-> t, at |-> i]
      BY <2>1, <2>2 DEF PriceTurn
    <3>3. { P(k) : k \in 1..i } = { P(k) : k \in 1..d.at } \cup {P(i)}
      <4>1. 1..i = 1..d.at \cup {i}
        BY <2>1
      <4> HIDE DEF i, P
      <4> QED BY <4>1
    <3> HIDE DEF P
    <3>4. t \in Seq(Int) /\ Distinct(t) /\ ToSet(t) = ToSet(s) \cup {P(i)}
      <4>1. CASE P(i) \in ToSet(s)
        BY <2>1, <4>1
      <4>2. CASE P(i) \notin ToSet(s)
        <5> DEFINE p == P(i)
        <5> HIDE DEF p
        <5>1. /\ t = Append(s, p) /\ p \in Int /\ p \notin ToSet(s)
          BY <3>1, <4>2 DEF p
        <5>2. /\ t \in Seq(Int) /\ Len(t) = Len(s) + 1 /\ Len(s) \in Nat
              /\ t[Len(s) + 1] = p /\ \A k \in 1..Len(s) : t[k] = s[k]
          BY <2>1, <5>1
        <5> HIDE DEF t
        <5>3. ASSUME NEW k \in 1..Len(t), NEW l \in 1..Len(t), t[k] = t[l] PROVE k = l
          <6>1. \A m \in 1..Len(s) : s[m] # p
            BY <2>1, <5>1, SliceFacts
          <6>2. (k \in 1..Len(s) \/ k = Len(s) + 1) /\ (l \in 1..Len(s) \/ l = Len(s) + 1)
            BY <5>2
          <6>3. CASE k \in 1..Len(s) /\ l \in 1..Len(s)
            BY <2>1, <5>2, <5>3, <6>3 DEF Distinct
          <6>4. CASE k \in 1..Len(s) /\ l = Len(s) + 1
            BY <5>2, <5>3, <6>1, <6>4
          <6>5. CASE k = Len(s) + 1 /\ l \in 1..Len(s)
            BY <5>2, <5>3, <6>1, <6>5
          <6> QED BY <6>2, <6>3, <6>4, <6>5
        <5>4. ToSet(t) = ToSet(s) \cup {p}
          <6>1. /\ ToSet(t) = { t[k] : k \in 1..Len(t) }
                /\ ToSet(s) = { s[k] : k \in 1..Len(s) }
            BY <2>1, <5>2 DEF ToSet
          <6>2. \A k \in 1..Len(t) : k \in 1..Len(s) \/ k = Len(s) + 1
            BY <5>2
          <6>3. \A k \in 1..Len(s) : k \in 1..Len(t)
            BY <5>2
          <6>4. Len(s) + 1 \in 1..Len(t)
            BY <5>2
          <6> QED BY <5>2, <6>1, <6>2, <6>3, <6>4
        <5> QED BY <5>2, <5>3, <5>4 DEF Distinct, p
      <4> QED BY <4>1, <4>2
    <3> HIDE DEF t
    <3>5. [slice |-> t, at |-> i] \in S
      <4>1. ToSet(t) = { P(k) : k \in 1..i }
        BY <2>1, <3>3, <3>4
      <4>2. i \in Nat /\ i \in 0..n
        BY <1>1, <3>1
      <4> HIDE DEF i, n
      <4> QED BY <3>4, <4>1, <4>2 DEF PriceLoops
    <3> QED BY <2>1, <2>2, <3>2, <3>5
  <2>3. CASE ~(d.at < n)
    BY <2>1, <2>3 DEF PriceTurn
  <2> QED BY <2>2, <2>3
<1> DEFINE e == Repeat(u, c, n)
<1>4. e \in S /\ e.at >= n
  <2> HIDE DEF S, u, c, n
  <2> QED BY <1>1, <1>2, <1>3, LoopCounts
<1>5. PricesOf(arr) = e.slice
  BY DEF PricesOf
<1> HIDE DEF e
<1>6. /\ e.slice \in Seq(Int) /\ Distinct(e.slice) /\ e.at = n
      /\ ToSet(e.slice) = { P(k) : k \in 1..e.at }
  BY <1>1, <1>4 DEF PriceLoops
<1> QED BY <1>5, <1>6

\* What a level list shows of a slice whose entries have prices and amounts: best price
\* first, each a price in the slice, and all of the amounts.
LEMMA LevelsFacts ==
  ASSUME NEW side, NEW arr \in Seq(Ids),
         \A k \in 1..Len(arr) : /\ Price(orders[arr[k]]) \in Int
                                /\ RemainingBase(orders[arr[k]]) \in Nat
  PROVE  LET levels == Levels(side, arr)
         IN  /\ Len(levels) \in Nat /\ (levels # << >> => Len(levels) >= 1)
             /\ \A i \in 1..Len(levels) :
                  \E k \in 1..Len(arr) : levels[i].price = Price(orders[arr[k]])
             /\ \A i \in 2..Len(levels) : Better(side, levels[i - 1].price, levels[i].price)
             /\ Total(levels)
                  = SumFunction([k \in 1..Len(arr) |-> RemainingBase(orders[arr[k]])])
<1> DEFINE n == Len(arr)
           P(k) == Price(orders[arr[k]])
           a == [k \in 1..n |-> RemainingBase(orders[arr[k]])]
           ps == PricesOf(arr)
           s == InsertionSort(side, ps)
           m == Len(s)
           At(i) == AtPrice(arr, s[i])
           amount(i) == SumFunction([k \in At(i) |-> RemainingBase(orders[arr[k]])])
           level(i) == [price |-> s[i], amount |-> amount(i), count |-> Cardinality(At(i))]
           levels == [i \in 1..m |-> level(i)]
<1>1. /\ ps \in Seq(Int) /\ Distinct(ps) /\ ToSet(ps) = { P(k) : k \in 1..n }
  BY PricesFacts
<1>2. s \in Shuffles(ps) /\ SortedTo(side, s, Len(ps))
  <2> HIDE DEF ps
  <2> QED BY <1>1, SortFacts
<1>3. Levels(side, arr) = levels
  BY DEF Levels
<1> HIDE DEF s
<1>4. /\ s \in Seq(Int) /\ m \in Nat /\ m = Len(ps) /\ Distinct(s) /\ ToSet(s) = ToSet(ps)
  BY <1>2 DEF Shuffles
<1> HIDE DEF ps
<1>5. Len(levels) = m /\ (levels # << >> => m >= 1)
  <2>1. Len(levels) = m
    <3> HIDE DEF level, m
    <3>1. levels \in [1..m -> { level(i) : i \in 1..m }]
      OBVIOUS
    <3> HIDE DEF levels
    <3> QED BY <1>4, <3>1, ArrayIsSlice
  <2>2. m = 0 => levels = << >>
    <3> HIDE DEF level
    <3> QED OBVIOUS
  <2> HIDE DEF levels
  <2> QED BY <1>4, <2>1, <2>2
<1>6. \A i \in 1..m : levels[i].price = s[i] /\ levels[i].amount = amount(i)
  <2>1. \A i \in 1..m : levels[i] = level(i)
    <3> HIDE DEF level
    <3> QED OBVIOUS
  <2>2. \A i \in 1..m : level(i).price = s[i] /\ level(i).amount = amount(i)
    OBVIOUS
  <2> HIDE DEF levels, level, amount
  <2> QED BY <2>1, <2>2
<1> HIDE DEF level, levels
<1>7. \A i \in 1..m : \E k \in 1..n : s[i] = P(k)
  <2> HIDE DEF P
  <2> QED BY <1>1, <1>4, SliceFacts
<1>8. \A k \in 1..n : \E i \in 1..m : s[i] = P(k)
  <2> HIDE DEF P
  <2> QED BY <1>1, <1>4, SliceFacts
<1>9. ASSUME NEW i \in 2..m PROVE Better(side, levels[i - 1].price, levels[i].price)
  <2>1. i - 1 \in 1..m /\ i \in 1..m /\ i - 1 < i /\ i <= Len(ps)
    BY <1>4
  <2> QED BY <1>2, <1>6, <2>1 DEF SortedTo
<1>10. Total(levels) = SumFunction(a)
  <2> DEFINE f == [k \in 1..n |-> CHOOSE i \in 1..m : s[i] = P(k)]
             b == [i \in 1..m |-> levels[i].amount]
  <2>1. /\ f \in [1..n -> 1..m] /\ \A k \in 1..n : s[f[k]] = P(k)
    <3> HIDE DEF P
    <3> QED BY <1>8
  <2>2. a \in [1..n -> Nat]
    OBVIOUS
  <2>3. ASSUME NEW i \in 1..m
        PROVE  b[i] = SumFunction([k \in { x \in 1..n : f[x] = i } |-> a[k]])
    <3>1. At(i) = { x \in 1..n : f[x] = i }
      <4>1. \A x \in 1..n : P(x) = s[i] <=> f[x] = i
        <5> HIDE DEF f, P
        <5> QED BY <1>4, <2>1 DEF Distinct
      <4>2. At(i) = { x \in 1..n : P(x) = s[i] }
        BY DEF AtPrice
      <4> HIDE DEF f, P, At
      <4> QED BY <4>1, <4>2
    <3>2. [k \in At(i) |-> RemainingBase(orders[arr[k]])] = [k \in { x \in 1..n : f[x] = i } |-> a[k]]
      <4> HIDE DEF f, At
      <4> QED BY <3>1
    <3>3. b[i] = amount(i)
      BY <1>6
    <3> QED BY <3>2, <3>3
  <2>4. IsFiniteSet(1..n) /\ IsFiniteSet(1..m)
    <3>1. 1 \in Int /\ n \in Int /\ m \in Int
      BY <1>4
    <3> HIDE DEF n, m
    <3> QED BY <3>1, FS_Interval
  <2>5. b \in [1..m -> Nat]
    <3>1. ASSUME NEW i \in 1..m PROVE b[i] \in Nat
      <4> DEFINE Q == { x \in 1..n : f[x] = i }
                 r == [k \in Q |-> a[k]]
      <4>1. IsFiniteSet(Q) /\ r \in [Q -> Nat]
        <5>1. Q \subseteq 1..n
          OBVIOUS
        <5> QED BY <2>2, <2>4, <5>1, FS_Subset
      <4> HIDE DEF Q, r
      <4>2. SumFunction(r) \in Nat
        BY <4>1, SumCounts
      <4> QED BY <2>3, <4>2 DEF Q, r
    <3>2. b = [i \in 1..m |-> b[i]]
      OBVIOUS
    <3> HIDE DEF b
    <3> QED BY <3>1, <3>2
  <2>6. Total(levels) = SumFunction(b)
    <3>1. Len(levels) = m
      BY <1>5
    <3> QED BY <3>1, Zenon DEF Total
  <2>7. SumsParts(b, 1..m, a, 1..n, f)
    <3> HIDE DEF a, b, f, m, n
    <3> QED BY <2>1, <2>3, Zenon DEF SumsParts
  <2> DEFINE N == 1..n
             M == 1..m
  <2>8. SumFunction(b) = SumFunction(a)
    <3>1. /\ IsFiniteSet(N) /\ IsFiniteSet(M) /\ a \in [N -> Nat]
          /\ b \in [M -> Nat] /\ SumsParts(b, M, a, N, f)
      BY <2>2, <2>4, <2>5, <2>7
    <3> HIDE DEF a, b, f, M, N
    <3> QED BY ONLY <3>1, SumByParts
  <2> QED BY <2>6, <2>8
<1>11. \A i \in 1..m : \E k \in 1..n : levels[i].price = P(k)
  BY <1>7, <1>6
<1> QED
  <2> HIDE DEF P, a, n, m
  <2>1. /\ Len(levels) \in Nat /\ (levels # << >> => Len(levels) >= 1)
        /\ \A i \in 1..Len(levels) : \E k \in 1..n : levels[i].price = P(k)
        /\ \A i \in 2..Len(levels) : Better(side, levels[i - 1].price, levels[i].price)
        /\ Total(levels) = SumFunction(a)
    BY <1>4, <1>5, <1>9, <1>10, <1>11
  <2> QED BY <1>3, <2>1 DEF P, a, n

\* A slice adds up to what is live on its side when no AddOrder is running.
LEMMA SliceAddsUp ==
  ASSUME EngineInv, incoming = NoOrder, NEW arr, NEW side, Half(orders, arr, index, side),
         ToSet(arr) = { id \in Entries : orders[id].side = side }
  PROVE  SumFunction([k \in 1..Len(arr) |-> RemainingBase(orders[arr[k]])]) = Depth(side)
<1> DEFINE n == Len(arr)
           a == [k \in 1..n |-> RemainingBase(orders[arr[k]])]
           b == [id \in Live(side) |-> RemainingBase(orders[id])]
           f == [k \in 1..n |-> arr[k]]
<1>1. arr \in Seq(Ids) /\ n \in Nat /\ \A k \in 1..n : index[arr[k]] = k
  BY DEF Half
<1>2. Live(side) = ToSet(arr)
  <2>1. /\ Entries \subseteq seen /\ incoming \notin seen
    BY BookSays
  <2>2. \A id \in seen : id \in Entries <=> /\ orders[id].status \in LiveStatuses
                                            /\ RemainingBase(orders[id]) > 0
    BY <2>1, SameArithmetic
       DEF EngineInv, BookProofs!BookInv, BookProofs!BookCore, BookProofs!RestingExactlyLive
  <2> QED BY <2>1, <2>2 DEF Live
<1>3. \A k \in 1..n : arr[k] \in Live(side) /\ RemainingBase(orders[arr[k]]) \in Nat
  <2>1. \A k \in 1..n : arr[k] \in ToSet(arr)
    BY <1>1, SliceFacts
  <2>2. \A id \in ToSet(arr) : RemainingBase(orders[id]) \in Nat
    <3>1. \A id \in ToSet(arr) : id \in Entries /\ id \in Ids
      BY BookSays
    <3>2. \A id \in ToSet(arr) : RemainingBase(orders[id]) > 0 /\ RemainingBase(orders[id]) \in Int
      BY <3>1, BookSays
    <3> QED BY <3>2
  <2> QED BY <1>2, <2>1, <2>2
<1>4. \A id \in Live(side) : \E k \in 1..n : { x \in 1..n : f[x] = id } = {k}
  <2> SUFFICES ASSUME NEW id \in Live(side)
               PROVE  \E k \in 1..n : { x \in 1..n : f[x] = id } = {k}
    OBVIOUS
  <2>1. PICK k \in 1..n : arr[k] = id
    BY <1>1, <1>2, SliceFacts
  <2>2. \A x \in 1..n : arr[x] = id <=> x = k
    BY <1>1, <2>1
  <2> QED BY <2>2
<1>5. f \in [1..n -> Live(side)] /\ a \in [1..n -> Nat]
  BY <1>3
<1>6. b \in [Live(side) -> Nat] /\ \A k \in 1..n : a[k] = b[f[k]]
  <2>1. \A id \in Live(side) : \E k \in 1..n : id = arr[k]
    BY <1>1, <1>2, SliceFacts
  <2>2. \A id \in Live(side) : RemainingBase(orders[id]) \in Nat
    BY <1>3, <2>1
  <2> QED BY <1>3, <2>2
<1>7. IsFiniteSet(1..n) /\ IsFiniteSet(Live(side))
  <2>1. IsFiniteSet(1..n)
    <3>1. 1 \in Int /\ n \in Int
      BY <1>1
    <3> HIDE DEF n
    <3> QED BY <3>1, FS_Interval
  <2>2. Live(side) = { f[k] : k \in 1..n }
    <3>1. Live(side) = { arr[k] : k \in 1..n }
      BY <1>1, <1>2 DEF ToSet
    <3> QED BY <3>1
  <2>3. IsFiniteSet({ f[k] : k \in 1..n })
    <3>1. f \in Surjection(1..n, { f[k] : k \in 1..n })
      BY DEF Surjection
    <3> HIDE DEF f
    <3> QED BY <2>1, <3>1, FS_Surjection
  <2> QED BY <2>1, <2>2, <2>3
<1>8. Renames(f, 1..n, Live(side), a, b)
  <2> HIDE DEF a, b, f, n
  <2> QED BY <1>4, <1>5, <1>6 DEF Renames
<1> DEFINE N == 1..n
           L == Live(side)
<1>9. SumFunction(b) = SumFunction(a)
  <2>1. /\ IsFiniteSet(N) /\ IsFiniteSet(L) /\ a \in [N -> Nat] /\ b \in [L -> Nat]
        /\ Renames(f, N, L, a, b)
    BY <1>5, <1>6, <1>7, <1>8
  <2> HIDE DEF a, b, f, N, L
  <2> QED BY ONLY <2>1, SumRenamed
<1> QED BY <1>9 DEF Depth

\* While no AddOrder is running, a snapshot shows every live order and nothing else, best
\* price first, one level per price, and the best bid below the best ask.
THEOREM SnapshotsFaithful == Spec => []SnapshotFaithful
<1>1. ASSUME EngineInv PROVE SnapshotFaithful
  <2> SUFFICES ASSUME incoming = NoOrder
               PROVE  LET s == GetSnapshot
                      IN  /\ \A i \in 2..Len(s.bids) : s.bids[i].price < s.bids[i - 1].price
                          /\ \A i \in 2..Len(s.asks) : s.asks[i].price > s.asks[i - 1].price
                          /\ Total(s.bids) = Depth("buy") /\ Total(s.asks) = Depth("sell")
                          /\ s.bids # << >> /\ s.asks # << >>
                             => s.bids[1].price < s.asks[1].price
    BY DEF SnapshotFaithful
  <2> DEFINE bids == Levels("buy", buys)
             asks == Levels("sell", sells)
  <2>1. Half(orders, buys, index, "buy") /\ Half(orders, sells, index, "sell")
    BY <1>1 DEF EngineInv, Structure
  <2>2. buys \in Seq(Ids) /\ sells \in Seq(Ids)
    BY <2>1 DEF Half
  <2>3. ASSUME NEW id \in Entries
        PROVE  Price(orders[id]) \in Int /\ RemainingBase(orders[id]) \in Nat
    <3>1. /\ id \in Ids /\ orders[id] \in Order /\ RemainingBase(orders[id]) > 0
          /\ RemainingBase(orders[id]) \in Int /\ Base(orders[id]) > 0
      BY <1>1, BookSays
    <3> QED BY <3>1, PriceOnGrid
  <2>4. /\ \A k \in 1..Len(buys) : buys[k] \in ToSet(buys) /\ buys[k] \in Entries
        /\ \A k \in 1..Len(sells) : sells[k] \in ToSet(sells) /\ sells[k] \in Entries
    BY <2>2, SliceFacts DEF Entries
  <2>5. /\ Len(bids) \in Nat /\ (bids # << >> => Len(bids) >= 1)
        /\ \A i \in 1..Len(bids) :
             \E k \in 1..Len(buys) : bids[i].price = Price(orders[buys[k]])
        /\ \A i \in 2..Len(bids) : Better("buy", bids[i - 1].price, bids[i].price)
        /\ Total(bids) = SumFunction([k \in 1..Len(buys) |-> RemainingBase(orders[buys[k]])])
    BY <2>2, <2>3, <2>4, LevelsFacts
  <2>6. /\ Len(asks) \in Nat /\ (asks # << >> => Len(asks) >= 1)
        /\ \A i \in 1..Len(asks) :
             \E k \in 1..Len(sells) : asks[i].price = Price(orders[sells[k]])
        /\ \A i \in 2..Len(asks) : Better("sell", asks[i - 1].price, asks[i].price)
        /\ Total(asks) = SumFunction([k \in 1..Len(sells) |-> RemainingBase(orders[sells[k]])])
    BY <2>2, <2>3, <2>4, LevelsFacts
  <2> HIDE DEF bids, asks
  <2>7. Total(bids) = Depth("buy") /\ Total(asks) = Depth("sell")
    <3>1. /\ ToSet(buys) = { id \in Entries : orders[id].side = "buy" }
          /\ ToSet(sells) = { id \in Entries : orders[id].side = "sell" }
      <4>1. ToSet(buys) \subseteq Ids /\ ToSet(sells) \subseteq Ids
        BY <2>2, SliceFacts
      <4>2. Entries \subseteq Ids
        BY <1>1, BookSays
      <4> QED BY <1>1, <4>1, <4>2, SidesAre
    <3> QED BY <1>1, <2>1, <2>5, <2>6, <3>1, SliceAddsUp
  <2>8. \A i \in 1..Len(bids) : bids[i].price \in Int
    BY <2>3, <2>4, <2>5
  <2>9. \A i \in 1..Len(asks) : asks[i].price \in Int
    BY <2>3, <2>4, <2>6
  <2>10. ASSUME NEW i \in 2..Len(bids) PROVE bids[i].price < bids[i - 1].price
    <3>1. i \in 1..Len(bids) /\ i - 1 \in 1..Len(bids)
      BY <2>5
    <3> QED BY <2>5, <2>8, <3>1 DEF Better
  <2>11. ASSUME NEW i \in 2..Len(asks) PROVE asks[i].price > asks[i - 1].price
    <3>1. i \in 1..Len(asks) /\ i - 1 \in 1..Len(asks)
      BY <2>6
    <3> QED BY <2>6, <2>9, <3>1 DEF Better
  <2>12. ASSUME bids # << >>, asks # << >> PROVE bids[1].price < asks[1].price
    <3>1. 1 \in 1..Len(bids) /\ 1 \in 1..Len(asks)
      BY <2>5, <2>6, <2>12
    <3>2. PICK k \in 1..Len(buys) : bids[1].price = Price(orders[buys[k]])
      BY <2>5, <3>1
    <3>3. PICK l \in 1..Len(sells) : asks[1].price = Price(orders[sells[l]])
      BY <2>6, <3>1
    <3>4. orders[buys[k]].side = "buy" /\ orders[sells[l]].side = "sell"
      BY <2>1 DEF Half
    <3>5. ~Compatible(orders[buys[k]], orders[sells[l]])
      BY <1>1, <2>4, <3>4, SameArithmetic
         DEF EngineInv, BookProofs!BookInv, BookProofs!BookCore, BookProofs!BookUncrossed
    <3> QED BY <2>8, <2>9, <3>1, <3>2, <3>3, <3>5 DEF Compatible
  <2>13. GetSnapshot = [bids |-> bids, asks |-> asks]
    BY DEF GetSnapshot, bids, asks
  <2> QED BY <2>7, <2>10, <2>11, <2>12, <2>13
<1> QED BY <1>1, EngineAlways, PTL
================================================================================
