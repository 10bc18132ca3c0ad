------------------------------- MODULE Sums_proofs -----------------------------
(***************************************************************************)
(* Sums over finite sets.  A sum is the number of its units, from which    *)
(* its laws follow without the order in which SumFunction adds.            *)
(***************************************************************************)
EXTENDS Functions, FiniteSetTheorems, WellFoundedInduction, TLAPS

\* One pair for each unit of the amounts a over S.
Units(a, S) == { p \in S \X Nat : p[2] \in 1..a[p[1]] }

\* The units depend on the amounts over S only.
LEMMA UnitsSame ==
  ASSUME NEW S, NEW a, NEW b, \A x \in S : a[x] = b[x]
  PROVE  Units(a, S) = Units(b, S)
<1>1. \A p \in S \X Nat : a[p[1]] = b[p[1]]
  OBVIOUS
<1> QED BY <1>1 DEF Units

\* One more member brings as many units as its amount.
LEMMA UnitsMore ==
  ASSUME NEW S, NEW a, NEW x, x \notin S, a[x] \in Nat, IsFiniteSet(Units(a, S))
  PROVE  /\ IsFiniteSet(Units(a, S \cup {x}))
         /\ Cardinality(Units(a, S \cup {x})) = a[x] + Cardinality(Units(a, S))
<1> DEFINE n == a[x]
           new == {x} \X (1..n)
<1>1. IsFiniteSet(1..n) /\ Cardinality(1..n) = n
  <2>1. /\ IsFiniteSet(1..n)
        /\ Cardinality(1..n) = IF 1 > n THEN 0 ELSE n - 1 + 1
    <3>1. 1 \in Int /\ n \in Int
      OBVIOUS
    <3> HIDE DEF n
    <3> QED BY <3>1, FS_Interval
  <2> QED BY <2>1
<1>2. IsFiniteSet({x}) /\ Cardinality({x}) = 1
  BY FS_Singleton
<1>3. IsFiniteSet(new) /\ Cardinality(new) = Cardinality({x}) * Cardinality(1..n)
  BY <1>1, <1>2, FS_Product
<1>4. Cardinality(new) = n
  BY <1>1, <1>2, <1>3
<1>5. Units(a, S \cup {x}) = Units(a, S) \cup new
  BY DEF Units
<1>6. Units(a, S) \cap new = {}
  BY DEF Units
<1>7. Cardinality({}) = 0
  BY FS_EmptySet
<1>8. Cardinality(Units(a, S)) \in Nat
  BY FS_CardinalityType
<1> HIDE DEF new, n
<1>9. /\ IsFiniteSet(Units(a, S) \cup new)
      /\ Cardinality(Units(a, S) \cup new)
           = Cardinality(Units(a, S)) + Cardinality(new) - Cardinality(Units(a, S) \cap new)
  BY <1>3, FS_Union
<1>10. n \in Nat
  BY DEF n
<1>11. Cardinality(Units(a, S) \cap new) = 0
  BY <1>6, <1>7
<1>12. Cardinality(Units(a, S) \cup new) = Cardinality(Units(a, S)) + n - 0
  BY <1>4, <1>9, <1>11
<1>13. Cardinality(Units(a, S) \cup new) = n + Cardinality(Units(a, S))
  BY <1>8, <1>10, <1>12
<1> QED BY <1>5, <1>9, <1>13 DEF n

\* Among subsets of a finite set there is one none of whose parts is among them.
LEMMA LeastSubset ==
  ASSUME NEW S, IsFiniteSet(S), NEW T, T \subseteq SUBSET S, T # {}
  PROVE  \E s \in T : \A x \in s : s \ {x} \notin T
<1> DEFINE R == StrictSubsetOrdering(S)
<1>1. IsWellFoundedOn(R, SUBSET S)
  BY FS_StrictSubsetOrderingWellFounded, FS_FiniteSubsetsOfFinite
<1>2. \E s \in T : \A t \in T : <<t, s>> \notin R
  <2> HIDE DEF R
  <2> QED BY <1>1, WFMin
<1>3. PICK s \in T : \A t \in T : <<t, s>> \notin R
  BY <1>2
<1>4. ASSUME NEW x \in s PROVE s \ {x} \notin T
  <2>1. s \ {x} \subseteq s /\ s \ {x} # s /\ s \in SUBSET S /\ s \ {x} \in SUBSET S
    BY <1>3
  <2> QED BY <1>3, <2>1 DEF StrictSubsetOrdering
<1> QED BY <1>3, <1>4

\* A finite set of amounts has finitely many units.
LEMMA UnitsFinite ==
  ASSUME NEW S, IsFiniteSet(S), NEW a, \A x \in S : a[x] \in Nat
  PROVE  IsFiniteSet(Units(a, S))
<1> DEFINE T == { s \in SUBSET S : ~IsFiniteSet(Units(a, s)) }
<1> SUFFICES ASSUME T # {} PROVE FALSE
  OBVIOUS
<1>1. PICK s \in T : \A x \in s : s \ {x} \notin T
  <2> HIDE DEF T
  <2>1. T \subseteq SUBSET S
    BY DEF T
  <2> QED BY <2>1, LeastSubset
<1>2. s # {}
  <2>1. Units(a, {}) = {}
    BY DEF Units
  <2> QED BY <1>1, <2>1, FS_EmptySet
<1>3. PICK x \in s : TRUE
  BY <1>2
<1>4. IsFiniteSet(Units(a, s \ {x})) /\ s = (s \ {x}) \cup {x} /\ a[x] \in Nat
  BY <1>1
<1>5. IsFiniteSet(Units(a, s))
  BY <1>4, UnitsMore
<1> QED BY <1>1, <1>5

\* The member SumFunction takes next.
Some(s) == CHOOSE x \in s : TRUE

\* f adds up the amounts a over the subsets of S, one member after another.
AddsUp(f, a, S) ==
  f = [ s \in SUBSET S |-> IF s = {} THEN 0 ELSE a[Some(s)] + f[s \ {Some(s)}] ]

\* Counting units is such a function.
LEMMA CountAddsUp ==
  ASSUME NEW S, IsFiniteSet(S), NEW a, \A x \in S : a[x] \in Nat
  PROVE  AddsUp([ s \in SUBSET S |-> Cardinality(Units(a, s)) ], a, S)
<1> DEFINE f == [ s \in SUBSET S |-> Cardinality(Units(a, s)) ]
<1>1. ASSUME NEW s \in SUBSET S, s # {} PROVE f[s] = a[Some(s)] + f[s \ {Some(s)}]
  <2> DEFINE x == Some(s)
  <2>1. x \in s
    BY <1>1 DEF Some
  <2>2. IsFiniteSet(s \ {x})
    BY FS_Subset
  <2> HIDE DEF x
  <2>3. IsFiniteSet(Units(a, s \ {x}))
    BY <2>2, UnitsFinite
  <2>4. Cardinality(Units(a, (s \ {x}) \cup {x})) = a[x] + Cardinality(Units(a, s \ {x}))
    BY <2>1, <2>3, UnitsMore
  <2>5. s = (s \ {x}) \cup {x} /\ s \ {x} \in SUBSET S
    BY <2>1
  <2> QED BY <2>4, <2>5 DEF x
<1>2. f[{}] = 0
  <2>1. Units(a, {}) = {}
    BY DEF Units
  <2> QED BY <2>1, FS_EmptySet
<1> DEFINE g == [ s \in SUBSET S |-> IF s = {} THEN 0 ELSE a[Some(s)] + f[s \ {Some(s)}] ]
<1>3. \A s \in SUBSET S : f[s] = g[s]
  <2> TAKE s \in SUBSET S
  <2>1. CASE s = {}
    BY <1>2, <2>1
  <2>2. CASE s # {}
    BY <1>1, <2>2
  <2> QED BY <2>1, <2>2
<1>4. f = g
  BY <1>3
<1> QED BY <1>4 DEF AddsUp

\* And the only one.
LEMMA AddsUpOnce ==
  ASSUME NEW S, IsFiniteSet(S), NEW a, NEW f, NEW g, AddsUp(f, a, S), AddsUp(g, a, S)
  PROVE  f[S] = g[S]
<1> DEFINE T == { s \in SUBSET S : f[s] # g[s] }
<1> SUFFICES ASSUME T # {} PROVE FALSE
  OBVIOUS
<1>1. PICK s \in T : \A x \in s : s \ {x} \notin T
  <2> HIDE DEF T
  <2>1. T \subseteq SUBSET S
    BY DEF T
  <2> QED BY <2>1, LeastSubset
<1>2. /\ f[s] = IF s = {} THEN 0 ELSE a[Some(s)] + f[s \ {Some(s)}]
      /\ g[s] = IF s = {} THEN 0 ELSE a[Some(s)] + g[s \ {Some(s)}]
  <2>1. s \in SUBSET S
    BY <1>1
  <2>2. f[s] = [ t \in SUBSET S |-> IF t = {} THEN 0 ELSE a[Some(t)] + f[t \ {Some(t)}] ][s]
    BY DEF AddsUp
  <2>3. g[s] = [ t \in SUBSET S |-> IF t = {} THEN 0 ELSE a[Some(t)] + g[t \ {Some(t)}] ][s]
    BY DEF AddsUp
  <2> QED BY <2>1, <2>2, <2>3
<1>3. s # {} => Some(s) \in s
  BY DEF Some
<1>4. s # {} => f[s \ {Some(s)}] = g[s \ {Some(s)}]
  BY <1>1, <1>3
<1> QED BY <1>1, <1>2, <1>4

\* So a sum is a number of units.
LEMMA SumCounts ==
  ASSUME NEW S, IsFiniteSet(S), NEW a \in [S -> Nat]
  PROVE  /\ SumFunction(a) = Cardinality(Units(a, S)) /\ SumFunction(a) \in Nat
         /\ IsFiniteSet(Units(a, S))
<1> DEFINE F(f) == f = [ s \in SUBSET S |-> IF s = {} THEN 0
                          ELSE a[CHOOSE x \in s : TRUE] + f[s \ {CHOOSE x \in s : TRUE}] ]
           it == CHOOSE f : F(f)
           cnt == [ s \in SUBSET S |-> Cardinality(Units(a, s)) ]
<1>1. SumFunction(a) = it[S]
  BY DEF SumFunction, SumFunctionOnSet, FoldFunctionOnSet, MapThenFoldSet
<1>2. ASSUME NEW f PROVE F(f) <=> AddsUp(f, a, S)
  BY DEF AddsUp, Some
<1>3. AddsUp(cnt, a, S)
  BY CountAddsUp
<1> HIDE DEF F, cnt
<1>4. F(it)
  BY <1>2, <1>3
<1> HIDE DEF it
<1>5. it[S] = cnt[S]
  BY <1>2, <1>3, <1>4, AddsUpOnce
<1>6. IsFiniteSet(Units(a, S))
  BY UnitsFinite
<1> QED BY <1>1, <1>5, <1>6, FS_CardinalityType DEF cnt

\* b sums the part of a that f sends to each member of T.
SumsParts(b, T, a, S, f) ==
  /\ f \in [S -> T]
  /\ \A t \in T : b[t] = SumFunction([s \in { x \in S : f[x] = t } |-> a[s]])

\* A sum may be taken part by part.
LEMMA SumByParts ==
  ASSUME NEW S, IsFiniteSet(S), NEW T, IsFiniteSet(T), NEW f,
         NEW a \in [S -> Nat], NEW b \in [T -> Nat], SumsParts(b, T, a, S, f)
  PROVE  SumFunction(b) = SumFunction(a)
<1> DEFINE Part(U) == { x \in S : f[x] \in U }
           Bad == { U \in SUBSET T : Cardinality(Units(b, U)) # Cardinality(Units(a, Part(U))) }
<1>0. f \in [S -> T]
  BY DEF SumsParts
<1>1. ASSUME NEW t \in T
      PROVE  b[t] = Cardinality(Units(a, Part({t})))
  <2> DEFINE P == { x \in S : f[x] = t }
             r == [s \in P |-> a[s]]
  <2>1. IsFiniteSet(P) /\ r \in [P -> Nat]
    BY FS_Subset
  <2>2. b[t] = SumFunction(r)
    BY DEF SumsParts
  <2>3. Units(r, P) = Units(a, P)
    BY DEF Units
  <2>4. P = Part({t})
    OBVIOUS
  <2> HIDE DEF P, r
  <2>5. SumFunction(r) = Cardinality(Units(r, P))
    BY <2>1, SumCounts
  <2> QED BY <2>2, <2>3, <2>4, <2>5
<1>2. ASSUME NEW U \in SUBSET T
      PROVE  IsFiniteSet(Units(b, U)) /\ IsFiniteSet(Units(a, Part(U)))
  <2>1. IsFiniteSet(U) /\ IsFiniteSet(Part(U))
    BY FS_Subset
  <2>2. (\A x \in U : b[x] \in Nat) /\ (\A x \in Part(U) : a[x] \in Nat)
    OBVIOUS
  <2> HIDE DEF Part
  <2> QED BY <2>1, <2>2, UnitsFinite
<1>3. Bad = {}
  <2> SUFFICES ASSUME Bad # {} PROVE FALSE
    OBVIOUS
  <2>1. PICK U \in Bad : \A t \in U : U \ {t} \notin Bad
    <3> HIDE DEF Bad
    <3>1. Bad \subseteq SUBSET T
      BY DEF Bad
    <3> QED BY <3>1, LeastSubset
  <2>2. U # {}
    <3>1. Units(b, {}) = {} /\ Units(a, Part({})) = {}
      BY DEF Units
    <3> QED BY <2>1, <3>1
  <2>3. PICK t \in U : TRUE
    BY <2>2
  <2> DEFINE V == U \ {t}
  <2>4. /\ t \in T /\ U \in SUBSET T /\ V \in SUBSET T /\ t \notin V /\ U = V \cup {t}
        /\ b[t] \in Nat
    BY <2>1
  <2>5. Cardinality(Units(b, V)) = Cardinality(Units(a, Part(V)))
    BY <2>1, <2>4
  <2> HIDE DEF V
  <2>6. Cardinality(Units(b, U)) = b[t] + Cardinality(Units(b, V))
    BY <1>2, <2>4, UnitsMore
  <2>7. /\ Units(a, Part(U)) = Units(a, Part(V)) \cup Units(a, Part({t}))
        /\ Units(a, Part(V)) \cap Units(a, Part({t})) = {}
    BY <2>4 DEF Units
  <2>8. IsFiniteSet(Units(a, Part(V))) /\ IsFiniteSet(Units(a, Part({t})))
    <3>1. {t} \in SUBSET T
      BY <2>4
    <3> QED BY <1>2, <2>4, <3>1
  <2> DEFINE old == Units(a, Part(V))
             more == Units(a, Part({t}))
             all == Units(a, Part(U))
  <2> HIDE DEF Part, old, more, all
  <2>9. Cardinality(all) = Cardinality(old) + Cardinality(more) - Cardinality({})
    <3>1. IsFiniteSet(old) /\ IsFiniteSet(more) /\ all = old \cup more /\ old \cap more = {}
      BY <2>7, <2>8 DEF old, more, all
    <3> QED BY <3>1, FS_Union
  <2>10. Cardinality(old) \in Nat /\ Cardinality(more) \in Nat
    BY <2>8, FS_CardinalityType DEF old, more
  <2>11. Cardinality(Units(a, Part(U))) = Cardinality(Units(b, U))
    BY <1>1, <2>4, <2>5, <2>6, <2>9, <2>10, FS_EmptySet DEF old, more, all
  <2> QED BY <2>1, <2>11
<1>4. Cardinality(Units(b, T)) = Cardinality(Units(a, S))
  <2>1. T \in SUBSET T /\ Part(T) = S
    BY <1>0
  <2> HIDE DEF Part
  <2> QED BY <1>3, <2>1
<1> QED BY <1>4, SumCounts

\* The sum of one amount is that amount.
LEMMA SumOfOne ==
  ASSUME NEW x, NEW a \in [{x} -> Nat]
  PROVE  SumFunction(a) = a[x]
<1>1. IsFiniteSet({x}) /\ a[x] \in Nat
  BY FS_Singleton
<1>2. Units(a, {}) = {} /\ IsFiniteSet({}) /\ Cardinality({}) = 0
  BY FS_EmptySet DEF Units
<1>3. Cardinality(Units(a, {} \cup {x})) = a[x] + Cardinality(Units(a, {}))
  BY <1>1, <1>2, UnitsMore
<1>4. {} \cup {x} = {x}
  OBVIOUS
<1> QED BY <1>1, <1>2, <1>3, <1>4, SumCounts

\* f renames the members of S to those of T, the amounts a to b.
Renames(f, S, T, a, b) ==
  /\ f \in [S -> T]
  /\ \A t \in T : \E s \in S : { x \in S : f[x] = t } = {s}
  /\ \A s \in S : a[s] = b[f[s]]

\* A sum does not depend on how its members are named.
LEMMA SumRenamed ==
  ASSUME NEW S, IsFiniteSet(S), NEW T, IsFiniteSet(T), NEW f,
         NEW a \in [S -> Nat], NEW b \in [T -> Nat], Renames(f, S, T, a, b)
  PROVE  SumFunction(b) = SumFunction(a)
<1>1. ASSUME NEW t \in T
      PROVE  b[t] = SumFunction([s \in { x \in S : f[x] = t } |-> a[s]])
  <2>1. PICK s \in S : { x \in S : f[x] = t } = {s}
    BY DEF Renames
  <2>2. f[s] = t /\ a[s] = b[t]
    BY <2>1 DEF Renames
  <2> DEFINE r == [x \in {s} |-> a[x]]
  <2>3. r \in [{s} -> Nat] /\ r[s] = a[s]
    OBVIOUS
  <2> HIDE DEF r
  <2>4. SumFunction(r) = a[s]
    BY <2>3, SumOfOne
  <2> QED BY <2>1, <2>2, <2>4 DEF r
<1>2. SumsParts(b, T, a, S, f)
  BY <1>1 DEF Renames, SumsParts
<1> QED BY <1>2, SumByParts
================================================================================
