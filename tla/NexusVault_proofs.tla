--------------------------- MODULE NexusVault_proofs ---------------------------
(***************************************************************************)
(* Theorems about NexusVault, for every set of users, tokens and orders,   *)
(* every amount and every MaxUint.                                         *)
(***************************************************************************)
EXTENDS NexusVault, FiniteSetTheorems, TLAPS

Balances == [Users -> [Tokens -> Uint]]

--------------------------------------------------------------------------------
(***************************************************************************)
(* Claims: how crediting and debiting one account changes their number.    *)
(***************************************************************************)

\* The claims that a credit of n units adds to those of a user who has i.
Units(u, i, n) == {u} \X ((i + 1)..(i + n))

\* They are n.
LEMMA UnitsCardinality ==
  ASSUME NEW u \in Users, NEW i \in Nat, NEW n \in Nat
  PROVE  IsFiniteSet(Units(u, i, n)) /\ Cardinality(Units(u, i, n)) = n
<1>1. IsFiniteSet((i + 1)..(i + n)) /\ Cardinality((i + 1)..(i + n)) = n
  <2>1. i + 1 \in Int /\ i + n \in Int
    OBVIOUS
  <2>2. /\ IsFiniteSet((i + 1)..(i + n))
        /\ Cardinality((i + 1)..(i + n)) = IF i + 1 > i + n THEN 0 ELSE (i + n) - (i + 1) + 1
    BY <2>1, FS_Interval
  <2> QED BY <2>2
<1>2. IsFiniteSet({u}) /\ Cardinality({u}) = 1
  BY FS_Singleton
<1>3. /\ IsFiniteSet({u} \X ((i + 1)..(i + n)))
      /\ Cardinality({u} \X ((i + 1)..(i + n))) = Cardinality({u}) * Cardinality((i + 1)..(i + n))
  BY <1>1, <1>2, FS_Product
<1> QED BY <1>1, <1>2, <1>3 DEF Units

\* Crediting an account with n units adds n claims.
LEMMA CreditClaims ==
  ASSUME NEW bal \in Balances, NEW u \in Users, NEW t \in Tokens, NEW n \in Nat,
         bal[u][t] + n <= MaxUint,
         IsFiniteSet(Claims(bal, t))
  PROVE  /\ Credit(bal, u, t, n) \in Balances
         /\ IsFiniteSet(Claims(Credit(bal, u, t, n), t))
         /\ Cardinality(Claims(Credit(bal, u, t, n), t)) = Cardinality(Claims(bal, t)) + n
<1> DEFINE i == bal[u][t]
           new == Units(u, i, n)
           bal2 == Credit(bal, u, t, n)
<1>1. MaxUint \in Nat /\ i \in Nat /\ i + n <= MaxUint
  BY VaultAssumption DEF Balances, Uint
<1>2. /\ bal2 \in Balances /\ bal2[u][t] = i + n
      /\ \A v \in Users : v # u => bal2[v][t] = bal[v][t]
  BY <1>1 DEF Credit, Balances, Uint
<1>3. Claims(bal2, t) = Claims(bal, t) \cup new
  <2> HIDE DEF bal2, i
  <2>1. ASSUME NEW c \in Claims(bal2, t) PROVE c \in Claims(bal, t) \cup new
    <3>1. c \in Users \X (1..MaxUint) /\ c[2] <= bal2[c[1]][t]
      BY <2>1 DEF Claims
    <3>2. CASE c[1] # u
      BY <1>2, <3>1, <3>2 DEF Claims
    <3>3. CASE c[1] = u
      <4>1. CASE c[2] <= i
        BY <3>1, <3>3, <4>1 DEF Claims, i
      <4>2. CASE c[2] > i
        <5>1. c[2] \in (i + 1)..(i + n)
          BY <1>1, <1>2, <3>1, <3>3, <4>2
        <5> QED BY <3>1, <3>3, <5>1 DEF Units
      <4> QED BY <1>1, <3>1, <4>1, <4>2
    <3> QED BY <3>2, <3>3
  <2>2. ASSUME NEW c \in Claims(bal, t) PROVE c \in Claims(bal2, t)
    <3>1. c \in Users \X (1..MaxUint) /\ c[2] <= bal[c[1]][t]
      BY <2>2 DEF Claims
    <3>2. c[2] <= bal2[c[1]][t]
      BY <1>1, <1>2, <3>1 DEF i
    <3> QED BY <3>1, <3>2 DEF Claims
  <2>3. ASSUME NEW c \in new PROVE c \in Claims(bal2, t)
    <3>1. c = <<c[1], c[2]>> /\ c[1] = u /\ c[2] \in (i + 1)..(i + n)
      BY <2>3 DEF Units
    <3>2. c[2] \in 1..MaxUint /\ c[2] <= bal2[u][t]
      BY <1>1, <1>2, <3>1
    <3>3. c \in Users \X (1..MaxUint)
      BY <3>1, <3>2
    <3> QED BY <3>1, <3>2, <3>3 DEF Claims
  <2> QED BY <2>1, <2>2, <2>3
<1>4. Claims(bal, t) \cap new = {}
  BY <1>1 DEF Claims, Units
<1>5. IsFiniteSet(new) /\ Cardinality(new) = n
  <2>1. i \in Nat /\ n \in Nat
    BY <1>1
  <2> HIDE DEF i
  <2> QED BY <2>1, UnitsCardinality DEF new
<1>6. Cardinality(Claims(bal, t)) \in Nat
  BY FS_CardinalityType
<1>7. /\ IsFiniteSet(Claims(bal, t) \cup new)
      /\ Cardinality(Claims(bal, t) \cup new) =
           Cardinality(Claims(bal, t)) + Cardinality(new) - Cardinality(Claims(bal, t) \cap new)
  BY <1>5, FS_Union
<1>8. Cardinality(Claims(bal, t) \cap new) = 0
  BY <1>4, FS_EmptySet
<1> HIDE DEF new, i, bal2
<1>9. /\ IsFiniteSet(Claims(bal2, t))
      /\ Cardinality(Claims(bal2, t)) = Cardinality(Claims(bal, t)) + n
  <2>1. /\ IsFiniteSet(Claims(bal2, t))
        /\ Cardinality(Claims(bal2, t)) =
             Cardinality(Claims(bal, t)) + Cardinality(new) - Cardinality(Claims(bal, t) \cap new)
    BY <1>3, <1>7
  <2> QED BY <1>5, <1>6, <1>8, <2>1
<1> QED BY <1>2, <1>9 DEF bal2

\* Debiting an account by n units it holds takes n claims away: crediting them again
\* gives the same account back.
LEMMA DebitClaims ==
  ASSUME NEW bal \in Balances, NEW u \in Users, NEW t \in Tokens, NEW n \in Nat,
         bal[u][t] >= n,
         IsFiniteSet(Claims(bal, t))
  PROVE  /\ Debit(bal, u, t, n) \in Balances
         /\ IsFiniteSet(Claims(Debit(bal, u, t, n), t))
         /\ Cardinality(Claims(Debit(bal, u, t, n), t)) = Cardinality(Claims(bal, t)) - n
<1> DEFINE bal2 == Debit(bal, u, t, n)
<1>1. MaxUint \in Nat /\ bal[u][t] \in 0..MaxUint
  BY VaultAssumption DEF Balances, Uint
<1>2. /\ bal2 \in Balances /\ bal2[u][t] = bal[u][t] - n
      /\ \A v \in Users : bal2[v][t] <= bal[v][t]
  BY <1>1 DEF Debit, Balances, Uint
<1>3. Credit(bal2, u, t, n) = bal
  <2>1. /\ bal2 = [bal EXCEPT ![u] = [bal[u] EXCEPT ![t] = bal[u][t] - n]]
        /\ Credit(bal2, u, t, n) = [bal2 EXCEPT ![u] = [bal2[u] EXCEPT ![t] = bal2[u][t] + n]]
    BY DEF Credit, Debit
  <2>2. [bal2[u] EXCEPT ![t] = bal2[u][t] + n] = bal[u]
    <3>1. bal[u] \in [Tokens -> Uint] /\ bal2[u] = [bal[u] EXCEPT ![t] = bal[u][t] - n]
      BY <2>1 DEF Balances
    <3>2. bal2[u][t] + n = bal[u][t]
      BY <1>1, <1>2
    <3> QED BY <3>1, <3>2
  <2>3. [bal2 EXCEPT ![u] = bal[u]] = bal
    BY <2>1 DEF Balances
  <2> QED BY <2>1, <2>2, <2>3
<1>4. Claims(bal2, t) \subseteq Claims(bal, t)
  <2> HIDE DEF bal2
  <2> SUFFICES ASSUME NEW c \in Claims(bal2, t) PROVE c \in Claims(bal, t)
    OBVIOUS
  <2>1. c \in Users \X (1..MaxUint) /\ c[2] <= bal2[c[1]][t]
    BY DEF Claims
  <2>2. bal2[c[1]][t] \in Int /\ bal[c[1]][t] \in Int
    BY <1>2, <2>1, VaultAssumption DEF Balances, Uint
  <2>3. c[2] <= bal[c[1]][t]
    BY <1>2, <2>1, <2>2
  <2> QED BY <2>1, <2>3 DEF Claims
<1>5. IsFiniteSet(Claims(bal2, t))
  BY <1>4, FS_Subset
<1>6. Cardinality(Claims(bal2, t)) \in Nat
  BY <1>5, FS_CardinalityType
<1> HIDE DEF bal2
<1>7. bal2[u][t] + n <= MaxUint
  BY <1>1, <1>2
<1>8. Cardinality(Claims(Credit(bal2, u, t, n), t)) = Cardinality(Claims(bal2, t)) + n
  BY <1>2, <1>5, <1>7, CreditClaims
<1>9. Cardinality(Claims(bal2, t)) = Cardinality(Claims(bal, t)) - n
  BY <1>3, <1>6, <1>8
<1> QED BY <1>2, <1>5, <1>9 DEF bal2

\* Neither touches the claims on another token.
LEMMA OtherClaims ==
  ASSUME NEW bal \in Balances, NEW u \in Users, NEW t \in Tokens, NEW n \in Int,
         NEW k \in Tokens, k # t
  PROVE  /\ Claims(Credit(bal, u, t, n), k) = Claims(bal, k)
         /\ Claims(Debit(bal, u, t, n), k) = Claims(bal, k)
<1>1. \A v \in Users : /\ Credit(bal, u, t, n)[v][k] = bal[v][k]
                       /\ Debit(bal, u, t, n)[v][k] = bal[v][k]
  BY DEF Credit, Debit, Balances
<1>2. \A c \in Users \X (1..MaxUint) : c[1] \in Users
  OBVIOUS
<1> QED BY <1>1, <1>2 DEF Claims

\* Every token has finitely many claims.
Finite(bal) == \A k \in Tokens : IsFiniteSet(Claims(bal, k))

\* A credit, seen on all tokens at once.
LEMMA CreditEffect ==
  ASSUME NEW bal \in Balances, Finite(bal),
         NEW u \in Users, NEW t \in Tokens, NEW n \in Nat,
         bal[u][t] + n <= MaxUint
  PROVE  /\ Credit(bal, u, t, n) \in Balances
         /\ Finite(Credit(bal, u, t, n))
         /\ \A k \in Tokens : Cardinality(Claims(Credit(bal, u, t, n), k)) =
              IF k = t THEN Cardinality(Claims(bal, k)) + n ELSE Cardinality(Claims(bal, k))
<1>1. /\ Credit(bal, u, t, n) \in Balances
      /\ IsFiniteSet(Claims(Credit(bal, u, t, n), t))
      /\ Cardinality(Claims(Credit(bal, u, t, n), t)) = Cardinality(Claims(bal, t)) + n
  BY CreditClaims DEF Finite
<1>2. \A k \in Tokens \ {t} : Claims(Credit(bal, u, t, n), k) = Claims(bal, k)
  BY OtherClaims
<1> QED BY <1>1, <1>2 DEF Finite

\* A debit, seen on all tokens at once.
LEMMA DebitEffect ==
  ASSUME NEW bal \in Balances, Finite(bal),
         NEW u \in Users, NEW t \in Tokens, NEW n \in Nat,
         bal[u][t] >= n
  PROVE  /\ Debit(bal, u, t, n) \in Balances
         /\ Finite(Debit(bal, u, t, n))
         /\ \A k \in Tokens : Cardinality(Claims(Debit(bal, u, t, n), k)) =
              IF k = t THEN Cardinality(Claims(bal, k)) - n ELSE Cardinality(Claims(bal, k))
<1>1. /\ Debit(bal, u, t, n) \in Balances
      /\ IsFiniteSet(Claims(Debit(bal, u, t, n), t))
      /\ Cardinality(Claims(Debit(bal, u, t, n), t)) = Cardinality(Claims(bal, t)) - n
  BY DebitClaims DEF Finite
<1>2. \A k \in Tokens \ {t} : Claims(Debit(bal, u, t, n), k) = Claims(bal, k)
  BY OtherClaims
<1> QED BY <1>1, <1>2 DEF Finite

--------------------------------------------------------------------------------
(***************************************************************************)
(* The arithmetic of a settlement.                                         *)
(***************************************************************************)

\* Division rounds down, by less than one divisor.
LEMMA Floor ==
  ASSUME NEW n \in Nat, NEW d \in Nat \ {0}
  PROVE  /\ n \div d \in Nat
         /\ (n \div d) * d <= n
         /\ n < (n \div d) * d + d
OBVIOUS

\* What the buyer pays for f units stays within its limit when it is at most what the
\* contract computes as buyerPays.
LEMMA BuyerLimit ==
  ASSUME NEW paid \in Nat, NEW bought \in Nat, NEW q \in Nat, NEW f \in Nat,
         NEW aS \in Nat, NEW aB \in Nat \ {0},
         paid * aB <= bought * aS,
         q <= (f * aS) \div aB
  PROVE  (paid + q) * aB <= (bought + f) * aS
<1> DEFINE c == (f * aS) \div aB
<1>1. f * aS \in Nat
  OBVIOUS
<1>2. c \in Nat /\ c * aB <= f * aS
  BY <1>1, Floor
<1> HIDE DEF c
<1>3. q * aB <= c * aB
  BY <1>2, q <= c DEF c
<1>4. (paid + q) * aB = paid * aB + q * aB /\ (bought + f) * aS = bought * aS + f * aS
  OBVIOUS
<1>5. /\ paid * aB \in Nat /\ q * aB \in Nat /\ bought * aS \in Nat
      /\ f * aS \in Nat /\ c * aB \in Nat
  BY <1>2
<1> QED BY <1>2, <1>3, <1>4, <1>5

\* What the seller receives for f units is its limit but for the rounding.
LEMMA SellerLimit ==
  ASSUME NEW sold \in Nat, NEW due \in Nat, NEW f \in Nat, NEW k \in Nat,
         NEW aB \in Nat, NEW aS \in Nat \ {0},
         sold * aB <= due * aS,
         f > 0 => k >= 1
  PROVE  (sold + f) * aB <= (due + (f * aB) \div aS + k) * aS
<1> DEFINE c == (f * aB) \div aS
<1>1. f * aB \in Nat
  OBVIOUS
<1>2. c \in Nat /\ f * aB < c * aS + aS
  BY <1>1, Floor
<1> HIDE DEF c
<1>3. f * aB <= c * aS + k * aS
  <2>1. CASE f = 0
    BY <1>2, <2>1
  <2>2. CASE f > 0
    <3>1. k * aS >= aS
      BY <2>2
    <3>2. k * aS \in Nat /\ c * aS \in Nat
      BY <1>2
    <3> QED BY <1>1, <1>2, <3>1, <3>2
  <2> QED BY <2>1, <2>2
<1>4. /\ (sold + f) * aB = sold * aB + f * aB
      /\ (due + c + k) * aS = due * aS + c * aS + k * aS
  BY <1>2
<1>5. /\ sold * aB \in Nat /\ due * aS \in Nat /\ c * aS \in Nat /\ k * aS \in Nat
  BY <1>2
<1>6. (sold + f) * aB <= (due + c + k) * aS
  BY <1>1, <1>3, <1>4, <1>5
<1> QED BY <1>6 DEF c

--------------------------------------------------------------------------------
(***************************************************************************)
(* The inductive invariant.                                                *)
(***************************************************************************)

\* orderFills counts both roles an order can take in a settlement.
FillsSplit == \A o \in Orders : orderFills[o] = ledger[o].bought + ledger[o].sold

VaultInv ==
  /\ VaultTypeOK
  /\ Finite(balances)
  /\ Solvency
  /\ FillsSplit
  /\ NoOverfill
  /\ LimitPrice

\* What the assumptions on the constants say of one order.
LEMMA OrderTypes ==
  ASSUME NEW o \in Orders
  PROVE  /\ o \in Order /\ o.maker \in Users /\ o.tokenSell \in Tokens /\ o.tokenBuy \in Tokens
         /\ o.amountSell \in Nat /\ o.amountBuy \in Nat
         /\ o.nonce \in Nat /\ o.expiry \in Nat
BY VaultAssumption DEF Order, Uint

\* The empty vault satisfies the invariant.
LEMMA InitInv == Init => VaultInv
<1> SUFFICES ASSUME Init PROVE VaultInv
  OBVIOUS
<1>1. VaultTypeOK
  <2>1. 0 \in Uint /\ Supply \in Nat
    BY VaultAssumption DEF Uint
  <2> QED BY <2>1 DEF Init, VaultTypeOK, Ledger
<1>2. \A t \in Tokens : Claims(balances, t) = {}
  <2>1. \A u \in Users, t \in Tokens : balances[u][t] = 0
    BY DEF Init
  <2> QED BY <2>1, VaultAssumption DEF Claims
<1>3. Finite(balances) /\ Solvency
  BY <1>2, FS_EmptySet DEF Finite, Solvency, Init
<1>4. FillsSplit /\ NoOverfill /\ LimitPrice
  BY OrderTypes DEF Init, FillsSplit, NoOverfill, LimitPrice
<1> QED BY <1>1, <1>3, <1>4 DEF VaultInv

\* A deposit keeps the invariant.
LEMMA DepositInv ==
  ASSUME VaultInv, NEW u \in Users, NEW t \in Tokens, NEW n \in Amounts, Deposit(u, t, n)
  PROVE  VaultInv'
<1>1. /\ n \in Nat /\ wallet[u][t] >= n /\ balances[u][t] + n <= MaxUint
      /\ wallet' = Debit(wallet, u, t, n)
      /\ reserve' = [reserve EXCEPT ![t] = @ + n]
      /\ balances' = Credit(balances, u, t, n)
      /\ UNCHANGED <<orderFills, orderCancelled, minNonce, signed, now, ledger>>
  BY VaultAssumption DEF Deposit, Uint
<1>2. /\ balances' \in Balances /\ Finite(balances')
      /\ \A k \in Tokens : Cardinality(Claims(balances', k)) =
           IF k = t THEN Cardinality(Claims(balances, k)) + n ELSE Cardinality(Claims(balances, k))
  <2>1. balances \in Balances /\ Finite(balances)
    BY DEF VaultInv, VaultTypeOK, Balances
  <2> QED BY <1>1, <2>1, CreditEffect
<1>3. wallet' \in [Users -> [Tokens -> Nat]]
  BY <1>1 DEF VaultInv, VaultTypeOK, Debit
<1>4. VaultTypeOK'
  BY <1>1, <1>2, <1>3 DEF VaultInv, VaultTypeOK, Balances
<1>5. Solvency'
  BY <1>1, <1>2 DEF VaultInv, VaultTypeOK, Solvency
<1>6. FillsSplit' /\ NoOverfill' /\ LimitPrice'
  BY <1>1 DEF VaultInv, FillsSplit, NoOverfill, LimitPrice
<1>7. Finite(balances)'
  BY <1>2 DEF Finite, Claims
<1> QED BY <1>4, <1>5, <1>6, <1>7 DEF VaultInv

\* A withdrawal keeps the invariant.
LEMMA WithdrawInv ==
  ASSUME VaultInv, NEW u \in Users, NEW t \in Tokens, NEW n \in Amounts, Withdraw(u, t, n)
  PROVE  VaultInv'
<1>1. /\ n \in Nat /\ balances[u][t] >= n /\ reserve[t] >= n
      /\ balances' = Debit(balances, u, t, n)
      /\ reserve' = [reserve EXCEPT ![t] = @ - n]
      /\ wallet' = Credit(wallet, u, t, n)
      /\ UNCHANGED <<orderFills, orderCancelled, minNonce, signed, now, ledger>>
  BY VaultAssumption DEF Withdraw, Uint
<1>2. /\ balances' \in Balances /\ Finite(balances')
      /\ \A k \in Tokens : Cardinality(Claims(balances', k)) =
           IF k = t THEN Cardinality(Claims(balances, k)) - n ELSE Cardinality(Claims(balances, k))
  <2>1. balances \in Balances /\ Finite(balances)
    BY DEF VaultInv, VaultTypeOK, Balances
  <2> QED BY <1>1, <2>1, DebitEffect
<1>3. wallet' \in [Users -> [Tokens -> Nat]]
  BY <1>1 DEF VaultInv, VaultTypeOK, Credit
<1>4. VaultTypeOK'
  BY <1>1, <1>2, <1>3 DEF VaultInv, VaultTypeOK, Balances
<1>5. Solvency'
  BY <1>1, <1>2 DEF VaultInv, VaultTypeOK, Solvency
<1>6. FillsSplit' /\ NoOverfill' /\ LimitPrice'
  BY <1>1 DEF VaultInv, FillsSplit, NoOverfill, LimitPrice
<1>7. Finite(balances)'
  BY <1>2 DEF Finite, Claims
<1> QED BY <1>4, <1>5, <1>6, <1>7 DEF VaultInv

\* The four assignments of _executeTransfers move credit and change no token's total.
LEMMA TransferEffect ==
  ASSUME VaultInv, NEW b \in Orders, NEW s \in Orders, NEW f \in Nat, NEW q \in Nat,
         b.tokenBuy = s.tokenSell, b.tokenSell = s.tokenBuy,
         Transferable(b, s, f, q)
  PROVE  /\ Transferred(b, s, f, q) \in Balances
         /\ Finite(Transferred(b, s, f, q))
         /\ \A k \in Tokens :
              Cardinality(Claims(Transferred(b, s, f, q), k)) = Cardinality(Claims(balances, k))
<1> DEFINE Same(x, y) == \A k \in Tokens : Cardinality(Claims(x, k)) = Cardinality(Claims(y, k))
           b1 == Paid(b, s, f, q)
           b2 == PaidOver(b, s, f, q)
           b3 == Delivered(b, s, f, q)
           b4 == Transferred(b, s, f, q)
<1>1. balances \in Balances /\ Finite(balances)
  BY DEF VaultInv, VaultTypeOK, Balances
<1>2. /\ b.maker \in Users /\ s.maker \in Users
      /\ b.tokenSell \in Tokens /\ b.tokenBuy \in Tokens
      /\ s.tokenSell \in Tokens /\ s.tokenBuy \in Tokens
  BY OrderTypes
<1>3. /\ balances[b.maker][b.tokenSell] >= q
      /\ b2[s.maker][s.tokenBuy] <= MaxUint
      /\ b3[s.maker][s.tokenSell] >= 0
      /\ b4[b.maker][b.tokenBuy] <= MaxUint
  BY DEF Transferable
<1>4. /\ b1 \in Balances /\ Finite(b1)
      /\ \A k \in Tokens : Cardinality(Claims(b1, k)) =
           IF k = b.tokenSell THEN Cardinality(Claims(balances, k)) - q
                              ELSE Cardinality(Claims(balances, k))
  BY <1>1, <1>2, <1>3, DebitEffect DEF Paid
<1> HIDE DEF b1, b2, b3, b4
<1>5. /\ b2 \in Balances /\ Finite(b2)
      /\ \A k \in Tokens : Cardinality(Claims(b2, k)) =
           IF k = s.tokenBuy THEN Cardinality(Claims(b1, k)) + q
                             ELSE Cardinality(Claims(b1, k))
  <2>1. b2 = Credit(b1, s.maker, s.tokenBuy, q)
    BY DEF b1, b2, PaidOver
  <2>2. b1[s.maker][s.tokenBuy] + q <= MaxUint
    <3>1. b2[s.maker][s.tokenBuy] = b1[s.maker][s.tokenBuy] + q
      BY <1>2, <1>4, <2>1 DEF Credit, Balances
    <3> QED BY <1>3, <3>1
  <2> QED BY <1>2, <1>4, <2>1, <2>2, CreditEffect
<1>6. /\ b3 \in Balances /\ Finite(b3)
      /\ \A k \in Tokens : Cardinality(Claims(b3, k)) =
           IF k = s.tokenSell THEN Cardinality(Claims(b2, k)) - f
                              ELSE Cardinality(Claims(b2, k))
  <2>1. b3 = Debit(b2, s.maker, s.tokenSell, f)
    BY DEF b2, b3, Delivered
  <2>2. b2[s.maker][s.tokenSell] >= f
    <3>1. b3[s.maker][s.tokenSell] = b2[s.maker][s.tokenSell] - f
      BY <1>2, <1>5, <2>1 DEF Debit, Balances
    <3>2. b2[s.maker][s.tokenSell] \in Int
      BY <1>2, <1>5, VaultAssumption DEF Balances, Uint
    <3> QED BY <1>3, <3>1, <3>2
  <2> QED BY <1>2, <1>5, <2>1, <2>2, DebitEffect
<1>7. /\ b4 \in Balances /\ Finite(b4)
      /\ \A k \in Tokens : Cardinality(Claims(b4, k)) =
           IF k = b.tokenBuy THEN Cardinality(Claims(b3, k)) + f
                             ELSE Cardinality(Claims(b3, k))
  <2>1. b4 = Credit(b3, b.maker, b.tokenBuy, f)
    BY DEF b3, b4, Transferred
  <2>2. b3[b.maker][b.tokenBuy] + f <= MaxUint
    <3>1. b4[b.maker][b.tokenBuy] = b3[b.maker][b.tokenBuy] + f
      BY <1>2, <1>6, <2>1 DEF Credit, Balances
    <3> QED BY <1>3, <3>1
  <2> QED BY <1>2, <1>6, <2>1, <2>2, CreditEffect
<1>8. ASSUME NEW k \in Tokens
      PROVE  Cardinality(Claims(b4, k)) = Cardinality(Claims(balances, k))
  <2>1. Cardinality(Claims(balances, k)) \in Nat /\ Cardinality(Claims(b2, k)) \in Nat
    BY <1>1, <1>5, FS_CardinalityType DEF Finite
  <2>2. Cardinality(Claims(b2, k)) = Cardinality(Claims(balances, k))
    BY <1>4, <1>5, <2>1
  <2>3. Cardinality(Claims(b4, k)) = Cardinality(Claims(b2, k))
    BY <1>6, <1>7, <2>1
  <2> QED BY <2>2, <2>3
<1> QED BY <1>7, <1>8 DEF b4

\* One credit is no more than all credits of its token.
LEMMA OneOfMany ==
  ASSUME NEW bal \in Balances, Finite(bal), NEW u \in Users, NEW t \in Tokens
  PROVE  bal[u][t] <= Cardinality(Claims(bal, t))
<1> DEFINE n == bal[u][t]
           own == Units(u, 0, n)
<1>1. n \in Nat /\ n <= MaxUint /\ MaxUint \in Nat
  BY VaultAssumption DEF Balances, Uint
<1>2. own \subseteq Claims(bal, t)
  BY <1>1 DEF Units, Claims
<1> HIDE DEF n
<1>3. Cardinality(own) = n
  BY <1>1, UnitsCardinality
<1>4. IsFiniteSet(Claims(bal, t))
  BY DEF Finite
<1>5. Cardinality(own) <= Cardinality(Claims(bal, t))
  BY <1>2, <1>4, FS_Subset
<1> QED BY <1>3, <1>5 DEF n

\* If both sides can pay, the credits have room for the payments, as there is no more of
\* a token than a word can count, whoever trades with whom in which tokens.
LEMMA TransferFits ==
  ASSUME VaultInv, NEW b \in Orders, NEW s \in Orders, NEW f \in Nat, NEW q \in Nat,
         b.tokenBuy = s.tokenSell, b.tokenSell = s.tokenBuy,
         \A k \in Tokens : reserve[k] <= MaxUint,
         balances[b.maker][b.tokenSell] >= q, balances[s.maker][s.tokenSell] >= f
  PROVE  Transferable(b, s, f, q)
<1> DEFINE b1 == Paid(b, s, f, q)
           b2 == PaidOver(b, s, f, q)
           b3 == Delivered(b, s, f, q)
           b4 == Transferred(b, s, f, q)
<1>1. /\ balances \in Balances /\ Finite(balances) /\ reserve \in [Tokens -> Nat] /\ MaxUint \in Nat
      /\ \A k \in Tokens : Cardinality(Claims(balances, k)) <= MaxUint
  BY VaultAssumption DEF VaultInv, VaultTypeOK, Balances, Solvency
<1>2. /\ b.maker \in Users /\ s.maker \in Users
      /\ b.tokenSell \in Tokens /\ b.tokenBuy \in Tokens
      /\ s.tokenSell \in Tokens /\ s.tokenBuy \in Tokens
  BY OrderTypes
<1>3. /\ b1 \in Balances /\ Finite(b1)
      /\ Cardinality(Claims(b1, b.tokenSell)) = Cardinality(Claims(balances, b.tokenSell)) - q
      /\ \A k \in Tokens \ {b.tokenSell} : Cardinality(Claims(b1, k)) = Cardinality(Claims(balances, k))
  BY <1>1, <1>2, DebitEffect DEF Paid
<1>4. b1 = Debit(balances, b.maker, b.tokenSell, q)
  BY DEF Paid
<1> HIDE DEF b1, b2, b3, b4
<1>5. b2 = Credit(b1, s.maker, s.tokenBuy, q)
  BY DEF b1, b2, PaidOver
<1>6. b3 = Debit(b2, s.maker, s.tokenSell, f)
  BY DEF b2, b3, Delivered
<1>7. b4 = Credit(b3, b.maker, b.tokenBuy, f)
  BY DEF b3, b4, Transferred
<1>8. b1[s.maker][s.tokenBuy] + q <= MaxUint
  <2>1. b1[s.maker][s.tokenBuy] <= Cardinality(Claims(b1, s.tokenBuy))
    BY <1>2, <1>3, OneOfMany
  <2>2. Cardinality(Claims(balances, s.tokenBuy)) \in Nat
    BY <1>1, <1>2, FS_CardinalityType DEF Finite
  <2>3. b1[s.maker][s.tokenBuy] \in Nat
    BY <1>2, <1>3 DEF Balances, Uint
  <2> QED BY <1>1, <1>2, <1>3, <2>1, <2>2, <2>3
<1>9. /\ b2 \in Balances /\ Finite(b2)
      /\ \A k \in Tokens : Cardinality(Claims(b2, k)) = Cardinality(Claims(balances, k))
  <2>1. /\ b2 \in Balances /\ Finite(b2)
        /\ \A k \in Tokens : Cardinality(Claims(b2, k)) =
             IF k = s.tokenBuy THEN Cardinality(Claims(b1, k)) + q ELSE Cardinality(Claims(b1, k))
    BY <1>2, <1>3, <1>5, <1>8, CreditEffect
  <2>2. \A k \in Tokens : Cardinality(Claims(balances, k)) \in Nat
    BY <1>1, FS_CardinalityType DEF Finite
  <2> QED BY <1>2, <1>3, <2>1, <2>2
<1>10. b2[s.maker][s.tokenSell] >= f /\ b2[s.maker][s.tokenBuy] <= MaxUint
  <2>1. b2[s.maker][s.tokenBuy] = b1[s.maker][s.tokenBuy] + q
    BY <1>2, <1>3, <1>5 DEF Credit, Balances
  <2>2. s.tokenSell # s.tokenBuy => b2[s.maker][s.tokenSell] = balances[s.maker][s.tokenSell]
    BY <1>1, <1>2, <1>3, <1>4, <1>5 DEF Credit, Debit, Balances
  <2>3. b1[s.maker][s.tokenBuy] \in {balances[s.maker][s.tokenBuy],
                                     balances[s.maker][s.tokenBuy] - q}
    BY <1>1, <1>2, <1>4 DEF Debit, Balances
  <2>4. balances[s.maker][s.tokenBuy] \in Nat
    BY <1>1, <1>2 DEF Balances, Uint
  <2> QED BY <1>8, <2>1, <2>2, <2>3, <2>4
<1>11. /\ b3 \in Balances /\ Finite(b3)
       /\ Cardinality(Claims(b3, b.tokenBuy)) = Cardinality(Claims(balances, b.tokenBuy)) - f
  BY <1>2, <1>6, <1>9, <1>10, DebitEffect
<1>12. b4[b.maker][b.tokenBuy] <= MaxUint
  <2>1. b3[b.maker][b.tokenBuy] <= Cardinality(Claims(b3, b.tokenBuy))
    BY <1>2, <1>11, OneOfMany
  <2>2. Cardinality(Claims(balances, b.tokenBuy)) \in Nat
    BY <1>1, <1>2, FS_CardinalityType DEF Finite
  <2>3. b3[b.maker][b.tokenBuy] \in Nat
    BY <1>2, <1>11 DEF Balances, Uint
  <2>4. b4[b.maker][b.tokenBuy] = b3[b.maker][b.tokenBuy] + f
    BY <1>2, <1>7, <1>11 DEF Credit, Balances
  <2> QED BY <1>1, <1>2, <1>11, <2>1, <2>2, <2>3, <2>4
<1>13. b3[s.maker][s.tokenSell] >= 0
  BY <1>2, <1>11 DEF Balances, Uint
<1> QED BY <1>10, <1>12, <1>13 DEF Transferable, b2, b3, b4

\* One side of a settlement in an order's ledger.
LEMMA LedgerSides ==
  ASSUME NEW l \in Ledger, NEW f \in Nat, NEW q \in Nat
  PROVE  /\ Bought(l, f, q) \in Ledger /\ Sold(l, f, q) \in Ledger
         /\ Bought(l, f, q).bought = l.bought + f /\ Bought(l, f, q).paid = l.paid + q
         /\ Bought(l, f, q).sold = l.sold         /\ Bought(l, f, q).received = l.received
         /\ Bought(l, f, q).fills = l.fills + Positive(f)
         /\ Sold(l, f, q).bought = l.bought       /\ Sold(l, f, q).paid = l.paid
         /\ Sold(l, f, q).sold = l.sold + f       /\ Sold(l, f, q).received = l.received + q
         /\ Sold(l, f, q).fills = l.fills + Positive(f)
<1>1. Positive(f) \in Nat
  BY DEF Positive
<1>2. /\ l.bought + f \in Nat /\ l.paid + q \in Nat /\ l.sold + f \in Nat
      /\ l.received + q \in Nat /\ l.fills + Positive(f) \in Nat
  BY <1>1 DEF Ledger
<1>3. /\ Bought(l, f, q) \in Ledger
      /\ Bought(l, f, q).bought = l.bought + f /\ Bought(l, f, q).paid = l.paid + q
      /\ Bought(l, f, q).sold = l.sold         /\ Bought(l, f, q).received = l.received
      /\ Bought(l, f, q).fills = l.fills + Positive(f)
  BY <1>2 DEF Bought, Ledger
<1>4. /\ Sold(l, f, q) \in Ledger
      /\ Sold(l, f, q).bought = l.bought       /\ Sold(l, f, q).paid = l.paid
      /\ Sold(l, f, q).sold = l.sold + f       /\ Sold(l, f, q).received = l.received + q
      /\ Sold(l, f, q).fills = l.fills + Positive(f)
  BY <1>2 DEF Sold, Ledger
<1> QED BY <1>3, <1>4

\* The ledger after a settlement, order by order; an order settled against itself takes
\* both roles.
LEMMA RecordedLedger ==
  ASSUME VaultInv, NEW b \in Orders, NEW s \in Orders, NEW f \in Nat, NEW q \in Nat
  PROVE  /\ Recorded(b, s, f, q) \in [Orders -> Ledger]
         /\ \A o \in Orders : Recorded(b, s, f, q)[o] =
              IF o = b /\ o = s THEN Bought(Sold(ledger[o], f, q), f, q)
              ELSE IF o = b THEN Bought(ledger[o], f, q)
              ELSE IF o = s THEN Sold(ledger[o], f, q)
              ELSE ledger[o]
<1>1. ledger \in [Orders -> Ledger]
  BY DEF VaultInv, VaultTypeOK
<1>2. \A l \in Ledger : Bought(l, f, q) \in Ledger /\ Sold(l, f, q) \in Ledger
  BY LedgerSides
<1> QED BY <1>1, <1>2 DEF Recorded

\* A purchase keeps an order's ledger within the order's limits, when the order's fills
\* stay within its amounts and the price within its limit; so does a sale.
WithinLimits(o, l) ==
  /\ l.paid * o.amountBuy <= l.bought * o.amountSell
  /\ l.sold * o.amountBuy <= (l.received + l.fills) * o.amountSell

\* A settlement keeps its buy order within its limit.
LEMMA BoughtWithinLimits ==
  ASSUME NEW o \in Orders, NEW l \in Ledger, NEW f \in Nat, NEW q \in Nat,
         WithinLimits(o, l), o.amountBuy > 0, q <= BuyerPays(o, f)
  PROVE  WithinLimits(o, Bought(l, f, q))
<1>1. /\ l.bought \in Nat /\ l.paid \in Nat /\ l.sold \in Nat /\ l.received \in Nat
      /\ l.fills \in Nat /\ Positive(f) \in Nat
      /\ o.amountSell \in Nat /\ o.amountBuy \in Nat \ {0}
  BY OrderTypes DEF Ledger, Positive
<1>2. (l.paid + q) * o.amountBuy <= (l.bought + f) * o.amountSell
  BY <1>1, BuyerLimit DEF WithinLimits, BuyerPays
<1>3. l.sold * o.amountBuy <= (l.received + (l.fills + Positive(f))) * o.amountSell
  <2>1. /\ (l.received + (l.fills + Positive(f))) * o.amountSell =
             (l.received + l.fills) * o.amountSell + Positive(f) * o.amountSell
        /\ Positive(f) * o.amountSell \in Nat
        /\ (l.received + l.fills) * o.amountSell \in Nat /\ l.sold * o.amountBuy \in Nat
    BY <1>1
  <2> QED BY <2>1 DEF WithinLimits
<1> QED BY <1>2, <1>3, LedgerSides DEF WithinLimits

\* A settlement keeps its sell order within its limit.
LEMMA SoldWithinLimits ==
  ASSUME NEW o \in Orders, NEW l \in Ledger, NEW f \in Nat,
         WithinLimits(o, l), o.amountSell > 0
  PROVE  /\ SellerReceives(o, f) \in Nat
         /\ WithinLimits(o, Sold(l, f, SellerReceives(o, f)))
<1> DEFINE q == SellerReceives(o, f)
<1>1. /\ l.bought \in Nat /\ l.paid \in Nat /\ l.sold \in Nat /\ l.received \in Nat
      /\ l.fills \in Nat /\ Positive(f) \in Nat /\ (f > 0 => Positive(f) >= 1)
      /\ o.amountSell \in Nat \ {0} /\ o.amountBuy \in Nat
  BY OrderTypes DEF Ledger, Positive
<1>2. q \in Nat
  <2>1. f * o.amountBuy \in Nat
    BY <1>1
  <2> QED BY <1>1, <2>1, Floor DEF SellerReceives
<1>3. (l.sold + f) * o.amountBuy <= ((l.received + l.fills) + q + Positive(f)) * o.amountSell
  <2>1. l.received + l.fills \in Nat
    BY <1>1
  <2> QED BY <1>1, <2>1, SellerLimit DEF WithinLimits, SellerReceives
<1> HIDE DEF q
<1>4. (l.received + l.fills) + q + Positive(f) = (l.received + q) + (l.fills + Positive(f))
  BY <1>1, <1>2
<1>5. /\ Sold(l, f, q).paid = l.paid /\ Sold(l, f, q).bought = l.bought
      /\ Sold(l, f, q).sold = l.sold + f /\ Sold(l, f, q).received = l.received + q
      /\ Sold(l, f, q).fills = l.fills + Positive(f)
  BY <1>2, LedgerSides
<1>6. WithinLimits(o, Sold(l, f, q))
  BY <1>3, <1>4, <1>5 DEF WithinLimits
<1> QED BY <1>2, <1>6 DEF q

\* A settlement keeps the invariant, also between two orders of one maker.
LEMMA SettleInv ==
  ASSUME VaultInv, NEW u \in Users, NEW b \in Orders, NEW s \in Orders, NEW f \in Fills,
         SettleMatch(u, b, s, f)
  PROVE  VaultInv'
<1> DEFINE q == SellerReceives(s, f)
<1>1. /\ b.tokenBuy = s.tokenSell /\ b.tokenSell = s.tokenBuy
      /\ s.amountSell > 0 /\ b.amountBuy > 0
      /\ q <= BuyerPays(b, f)
      /\ orderFills[s] + f <= s.amountSell /\ orderFills[b] + f <= b.amountBuy
      /\ b = s => orderFills[b] + f + f <= MaxUint
      /\ Transferable(b, s, f, q)
      /\ orderFills' = [[orderFills EXCEPT ![s] = @ + f] EXCEPT ![b] = @ + f]
      /\ balances' = Transferred(b, s, f, q)
      /\ ledger' = Recorded(b, s, f, q)
      /\ UNCHANGED <<orderCancelled, minNonce, wallet, reserve, signed, now>>
  <2>1. BuyerPays(b, f) >= q <=> q <= BuyerPays(b, f)
    OBVIOUS
  <2> QED BY <2>1 DEF SettleMatch, Accepted, Validated, Computable, WithinAmounts
<1>2. f \in Nat /\ MaxUint \in Nat
  BY VaultAssumption DEF Uint
<1>3. \A o \in Orders : ledger[o] \in Ledger /\ WithinLimits(o, ledger[o])
  BY DEF VaultInv, VaultTypeOK, LimitPrice, WithinLimits
<1>4. q \in Nat
  BY <1>1, <1>2, <1>3, SoldWithinLimits
<1>5. /\ balances' \in Balances /\ Finite(balances')
      /\ \A k \in Tokens : Cardinality(Claims(balances', k)) = Cardinality(Claims(balances, k))
  BY <1>1, <1>2, <1>4, TransferEffect
<1>6. /\ ledger' \in [Orders -> Ledger]
      /\ \A o \in Orders : ledger'[o] =
           IF o = b /\ o = s THEN Bought(Sold(ledger[o], f, q), f, q)
           ELSE IF o = b THEN Bought(ledger[o], f, q)
           ELSE IF o = s THEN Sold(ledger[o], f, q)
           ELSE ledger[o]
  BY <1>1, <1>2, <1>4, RecordedLedger
<1>7. \A o \in Orders : orderFills[o] \in Nat
  BY VaultAssumption DEF VaultInv, VaultTypeOK, Uint
<1>8. \A o \in Orders : orderFills'[o] =
        IF o = b /\ o = s THEN orderFills[o] + f + f
        ELSE IF o = b \/ o = s THEN orderFills[o] + f ELSE orderFills[o]
  BY <1>1 DEF VaultInv, VaultTypeOK
<1>9. orderFills' \in [Orders -> Uint]
  <2>1. /\ s.amountSell <= MaxUint /\ b.amountBuy <= MaxUint
        /\ s.amountSell \in Nat /\ b.amountBuy \in Nat
    BY VaultAssumption DEF Order, Uint
  <2>2. \A o \in Orders : orderFills'[o] \in Uint
    <3> TAKE o \in Orders
    <3>1. orderFills[o] \in Uint
      BY DEF VaultInv, VaultTypeOK
    <3>2. CASE o = b /\ o = s
      <4>1. orderFills'[o] = orderFills[o] + f + f /\ orderFills[o] + f + f <= MaxUint
        BY <1>1, <1>8, <3>2
      <4> QED BY <1>2, <1>7, <4>1 DEF Uint
    <3>3. CASE o = b /\ o # s
      <4>1. orderFills'[o] = orderFills[o] + f /\ orderFills[o] + f <= b.amountBuy
        BY <1>1, <1>8, <3>3
      <4> QED BY <1>2, <1>7, <2>1, <4>1 DEF Uint
    <3>4. CASE o # b /\ o = s
      <4>1. orderFills'[o] = orderFills[o] + f /\ orderFills[o] + f <= s.amountSell
        BY <1>1, <1>8, <3>4
      <4> QED BY <1>2, <1>7, <2>1, <4>1 DEF Uint
    <3> QED BY <1>8, <3>1, <3>2, <3>3, <3>4
  <2> QED BY <1>1, <2>2 DEF VaultInv, VaultTypeOK
<1>10. VaultTypeOK'
  BY <1>1, <1>5, <1>6, <1>9 DEF VaultInv, VaultTypeOK, Balances
<1>11. Finite(balances)' /\ Solvency'
  BY <1>1, <1>5 DEF VaultInv, Solvency, Finite, Claims
<1> HIDE DEF q
<1>12. ASSUME NEW o \in Orders
       PROVE  /\ ledger'[o].bought = ledger[o].bought + (IF o = b THEN f ELSE 0)
              /\ ledger'[o].sold = ledger[o].sold + (IF o = s THEN f ELSE 0)
              /\ ledger[o].bought \in Nat /\ ledger[o].sold \in Nat
  <2>1. ledger[o] \in Ledger /\ Sold(ledger[o], f, q) \in Ledger
    BY <1>2, <1>3, <1>4, LedgerSides
  <2>2. ledger[o].bought \in Nat /\ ledger[o].sold \in Nat
    BY <2>1 DEF Ledger
  <2>3. \A l \in Ledger :
          /\ Bought(l, f, q).bought = l.bought + f /\ Bought(l, f, q).sold = l.sold
          /\ Sold(l, f, q).bought = l.bought       /\ Sold(l, f, q).sold = l.sold + f
    BY <1>2, <1>4, LedgerSides
  <2>4. CASE o = b /\ o = s
    BY <1>6, <2>1, <2>2, <2>3, <2>4
  <2>5. CASE o = b /\ o # s
    BY <1>6, <2>1, <2>2, <2>3, <2>5
  <2>6. CASE o # b /\ o = s
    BY <1>6, <2>1, <2>2, <2>3, <2>6
  <2>7. CASE o # b /\ o # s
    BY <1>6, <2>2, <2>7
  <2> QED BY <2>2, <2>4, <2>5, <2>6, <2>7
<1>13. FillsSplit'
  <2> SUFFICES ASSUME NEW o \in Orders
               PROVE  orderFills'[o] = ledger'[o].bought + ledger'[o].sold
    BY DEF FillsSplit
  <2>1. orderFills[o] = ledger[o].bought + ledger[o].sold
    BY DEF VaultInv, FillsSplit
  <2> QED BY <1>2, <1>7, <1>8, <1>12, <2>1
<1>14. NoOverfill'
  <2> SUFFICES ASSUME NEW o \in Orders
               PROVE  ledger'[o].bought <= o.amountBuy /\ ledger'[o].sold <= o.amountSell
    BY DEF NoOverfill
  <2>1. /\ orderFills[o] = ledger[o].bought + ledger[o].sold
        /\ ledger[o].bought <= o.amountBuy /\ ledger[o].sold <= o.amountSell
    BY DEF VaultInv, FillsSplit, NoOverfill
  <2>2. o.amountBuy \in Nat /\ o.amountSell \in Nat
    BY OrderTypes
  <2>3. /\ ledger'[o].bought = ledger[o].bought + (IF o = b THEN f ELSE 0)
        /\ ledger'[o].sold = ledger[o].sold + (IF o = s THEN f ELSE 0)
        /\ ledger[o].bought \in Nat /\ ledger[o].sold \in Nat
    BY <1>12
  <2>4. o = b => orderFills[o] + f <= o.amountBuy
    BY <1>1
  <2>5. o = s => orderFills[o] + f <= o.amountSell
    BY <1>1
  <2>6. ledger'[o].bought <= o.amountBuy
    BY <1>2, <2>1, <2>2, <2>3, <2>4
  <2>7. ledger'[o].sold <= o.amountSell
    BY <1>2, <2>1, <2>2, <2>3, <2>5
  <2> QED BY <2>6, <2>7
<1>15. LimitPrice'
  <2>1. ASSUME NEW o \in Orders PROVE WithinLimits(o, ledger'[o])
    <3>1. CASE o # b /\ o # s
      BY <1>3, <1>6, <3>1
    <3>2. CASE o = b /\ o # s
      BY <1>1, <1>2, <1>3, <1>4, <1>6, <3>2, BoughtWithinLimits
    <3>3. CASE o # b /\ o = s
      BY <1>1, <1>2, <1>3, <1>6, <3>3, SoldWithinLimits DEF q
    <3>4. CASE o = b /\ o = s
      <4>1. WithinLimits(o, Sold(ledger[o], f, q))
        BY <1>1, <1>2, <1>3, <3>4, SoldWithinLimits DEF q
      <4>2. Sold(ledger[o], f, q) \in Ledger
        BY <1>2, <1>3, <1>4, LedgerSides
      <4>3. WithinLimits(o, Bought(Sold(ledger[o], f, q), f, q))
        BY <1>1, <1>2, <1>4, <3>4, <4>1, <4>2, BoughtWithinLimits
      <4> QED BY <1>6, <3>4, <4>3
    <3> QED BY <3>1, <3>2, <3>3, <3>4
  <2> QED BY <2>1 DEF LimitPrice, WithinLimits
<1> QED BY <1>10, <1>11, <1>13, <1>14, <1>15 DEF VaultInv

\* Every transaction keeps the invariant.
LEMMA VaultStepInv == VaultInv /\ [Next]_vars => VaultInv'
<1> SUFFICES ASSUME VaultInv, [Next]_vars PROVE VaultInv'
  OBVIOUS
<1> USE DEF Finite, Solvency, Claims, FillsSplit, NoOverfill, LimitPrice
<1>1. CASE UNCHANGED vars
  BY <1>1 DEF vars, VaultInv, VaultTypeOK
<1>2. ASSUME NEW u \in Users, NEW o \in Orders, CancelOrder(u, o) PROVE VaultInv'
  BY <1>2 DEF CancelOrder, VaultInv, VaultTypeOK
<1>3. ASSUME NEW u \in Users, NEW n \in 1..MaxNonce, IncrementMinNonce(u, n) PROVE VaultInv'
  <2>1. n \in Nat
    BY VaultAssumption
  <2>2. /\ minNonce' \in [Users -> Nat]
        /\ UNCHANGED <<balances, orderFills, orderCancelled, wallet, reserve, signed, now, ledger>>
    BY <1>3, <2>1 DEF IncrementMinNonce, VaultInv, VaultTypeOK
  <2>3. VaultTypeOK'
    BY <2>2 DEF VaultInv, VaultTypeOK
  <2> QED BY <2>2, <2>3 DEF VaultInv
<1>4. ASSUME NEW o \in Orders, SignOrder(o) PROVE VaultInv'
  BY <1>4 DEF SignOrder, contract, VaultInv, VaultTypeOK
<1>5. CASE Tick
  BY <1>5 DEF Tick, contract, VaultInv, VaultTypeOK
<1>6. CASE Next
  BY <1>2, <1>3, <1>4, <1>5, <1>6, DepositInv, WithdrawInv, SettleInv DEF Next
<1> QED BY <1>1, <1>6

--------------------------------------------------------------------------------
(***************************************************************************)
(* The theorems.                                                           *)
(***************************************************************************)

\* The inductive invariant holds of every behaviour of the contract.
THEOREM VaultInvariant == Spec => []VaultInv
BY InitInv, VaultStepInv, PTL DEF Spec

\* Types, with every uint256 of the contract within its range.
THEOREM VaultTypes == Spec => []VaultTypeOK
BY VaultInvariant, PTL DEF VaultInv

\* The contract always holds exactly what it owes.
THEOREM Solvent == Spec => []Solvency
BY VaultInvariant, PTL DEF VaultInv

\* On each side an order exchanges at most what it signed for there.
THEOREM NeverOverfilled == Spec => []NoOverfill
BY VaultInvariant, PTL DEF VaultInv

\* Both sides keep their limit price over all partial fills, up to the seller's rounding.
THEOREM LimitsKept == Spec => []LimitPrice
BY VaultInvariant, PTL DEF VaultInv

\* Dead orders stay dead and are never filled.
THEOREM DeadStayDead == Spec => DeadOrdersFrozen
<1> DEFINE Frozen == \A o \in Orders : ~Live(o) => ~Live(o)' /\ orderFills'[o] = orderFills[o]
<1>1. ASSUME VaultInv, [Next]_vars PROVE [Frozen]_vars
  <2>1. ASSUME NEW u \in Users, NEW b \in Orders, NEW s \in Orders, NEW f \in Fills,
               SettleMatch(u, b, s, f)
        PROVE  Frozen
    BY <1>1, <2>1 DEF SettleMatch, Accepted, Validated, Live, VaultInv, VaultTypeOK
  <2>2. ASSUME NEW u \in Users, NEW o \in Orders, CancelOrder(u, o) PROVE Frozen
    BY <2>2 DEF CancelOrder, Live
  <2>3. ASSUME NEW u \in Users, NEW n \in 1..MaxNonce, IncrementMinNonce(u, n) PROVE Frozen
    <3> SUFFICES ASSUME NEW o \in Orders, ~Live(o) PROVE ~Live(o)' /\ orderFills'[o] = orderFills[o]
      OBVIOUS
    <3>1. o.maker \in Users /\ o.nonce \in Nat /\ minNonce[o.maker] \in Nat /\ minNonce[u] \in Nat
      BY <1>1, OrderTypes DEF VaultInv, VaultTypeOK
    <3>2. /\ n \in Nat /\ n > minNonce[u] /\ minNonce' = [minNonce EXCEPT ![u] = n]
          /\ UNCHANGED <<orderFills, orderCancelled, now>>
      BY <2>3, VaultAssumption DEF IncrementMinNonce
    <3>3. minNonce'[o.maker] \in Nat /\ minNonce'[o.maker] >= minNonce[o.maker]
      BY <1>1, <3>1, <3>2 DEF VaultInv, VaultTypeOK
    <3> QED BY <3>1, <3>2, <3>3 DEF Live
  <2>4. ASSUME Tick PROVE Frozen
    <3>1. \A o \in Orders : o.expiry \in Nat
      BY OrderTypes
    <3>2. now \in Nat
      BY <1>1 DEF VaultInv, VaultTypeOK
    <3> QED BY <2>4, <3>1, <3>2 DEF Tick, contract, Live
  <2>5. ASSUME NEW u \in Users, NEW t \in Tokens, NEW n \in Amounts,
               Deposit(u, t, n) \/ Withdraw(u, t, n)
        PROVE  Frozen
    BY <2>5 DEF Deposit, Withdraw, Live
  <2>6. ASSUME NEW o \in Orders, SignOrder(o) PROVE Frozen
    BY <2>6 DEF SignOrder, contract, Live
  <2> QED BY <1>1, <2>1, <2>2, <2>3, <2>4, <2>5, <2>6 DEF Next
<1>2. VaultInv /\ [Next]_vars => [Frozen]_vars
  BY <1>1
<1>3. DeadOrdersFrozen <=> [][Frozen]_vars
  BY PTL DEF DeadOrdersFrozen
<1> QED BY <1>2, <1>3, VaultInvariant, PTL DEF Spec

\* A transfer lowers no account but the buyer's quote and the seller's base, and none at
\* all when nothing is exchanged.
LEMMA TransferDebits ==
  ASSUME VaultInv, NEW b \in Orders, NEW s \in Orders, NEW f \in Nat, NEW q \in Nat,
         NEW u \in Users, NEW t \in Tokens,
         Transferred(b, s, f, q)[u][t] < balances[u][t]
  PROVE  /\ \/ u = b.maker /\ t = b.tokenSell
            \/ u = s.maker /\ t = s.tokenSell
         /\ f > 0 \/ q > 0
<1> DEFINE Int2 == [Users -> [Tokens -> Int]]
           At(v, k, n) == IF u = v /\ t = k THEN n ELSE 0
<1>1. balances \in Int2
  BY VaultAssumption DEF VaultInv, VaultTypeOK, Uint
<1>2. /\ b.maker \in Users /\ s.maker \in Users
      /\ b.tokenSell \in Tokens /\ b.tokenBuy \in Tokens
      /\ s.tokenSell \in Tokens /\ s.tokenBuy \in Tokens
  BY OrderTypes
<1>c. ASSUME NEW x \in Int2, NEW v \in Users, NEW k \in Tokens, NEW n \in Nat
      PROVE  Credit(x, v, k, n) \in Int2 /\ Credit(x, v, k, n)[u][t] = x[u][t] + At(v, k, n)
  BY DEF Credit
<1>d. ASSUME NEW x \in Int2, NEW v \in Users, NEW k \in Tokens, NEW n \in Nat
      PROVE  Debit(x, v, k, n) \in Int2 /\ Debit(x, v, k, n)[u][t] = x[u][t] - At(v, k, n)
  BY DEF Debit
<1> HIDE DEF Int2, At
<1>4. /\ Paid(b, s, f, q) \in Int2
      /\ Paid(b, s, f, q)[u][t] = balances[u][t] - At(b.maker, b.tokenSell, q)
  <2> DEFINE x == balances
             v == b.maker
             k == b.tokenSell
  <2>1. x \in Int2 /\ v \in Users /\ k \in Tokens
    BY <1>2, <1>1
  <2>2. Paid(b, s, f, q) = Debit(x, v, k, q)
    BY DEF Paid
  <2> HIDE DEF x, v, k
  <2>3. Debit(x, v, k, q) \in Int2 /\ Debit(x, v, k, q)[u][t] = x[u][t] - At(v, k, q)
    BY <2>1, <1>d
  <2> QED BY <2>2, <2>3 DEF x, v, k
<1>5. /\ PaidOver(b, s, f, q) \in Int2
      /\ PaidOver(b, s, f, q)[u][t] = Paid(b, s, f, q)[u][t] + At(s.maker, s.tokenBuy, q)
  <2> DEFINE x == Paid(b, s, f, q)
             v == s.maker
             k == s.tokenBuy
  <2>1. x \in Int2 /\ v \in Users /\ k \in Tokens
    BY <1>2, <1>4
  <2>2. PaidOver(b, s, f, q) = Credit(x, v, k, q)
    BY DEF PaidOver
  <2> HIDE DEF x, v, k
  <2>3. Credit(x, v, k, q) \in Int2 /\ Credit(x, v, k, q)[u][t] = x[u][t] + At(v, k, q)
    BY <2>1, <1>c
  <2> QED BY <2>2, <2>3 DEF x, v, k
<1>6. /\ Delivered(b, s, f, q) \in Int2
      /\ Delivered(b, s, f, q)[u][t] = PaidOver(b, s, f, q)[u][t] - At(s.maker, s.tokenSell, f)
  <2> DEFINE x == PaidOver(b, s, f, q)
             v == s.maker
             k == s.tokenSell
  <2>1. x \in Int2 /\ v \in Users /\ k \in Tokens
    BY <1>2, <1>5
  <2>2. Delivered(b, s, f, q) = Debit(x, v, k, f)
    BY DEF Delivered
  <2> HIDE DEF x, v, k
  <2>3. Debit(x, v, k, f) \in Int2 /\ Debit(x, v, k, f)[u][t] = x[u][t] - At(v, k, f)
    BY <2>1, <1>d
  <2> QED BY <2>2, <2>3 DEF x, v, k
<1>7. /\ Transferred(b, s, f, q) \in Int2
      /\ Transferred(b, s, f, q)[u][t] = Delivered(b, s, f, q)[u][t] + At(b.maker, b.tokenBuy, f)
  <2> DEFINE x == Delivered(b, s, f, q)
             v == b.maker
             k == b.tokenBuy
  <2>1. x \in Int2 /\ v \in Users /\ k \in Tokens
    BY <1>2, <1>6
  <2>2. Transferred(b, s, f, q) = Credit(x, v, k, f)
    BY DEF Transferred
  <2> HIDE DEF x, v, k
  <2>3. Credit(x, v, k, f) \in Int2 /\ Credit(x, v, k, f)[u][t] = x[u][t] + At(v, k, f)
    BY <2>1, <1>c
  <2> QED BY <2>2, <2>3 DEF x, v, k
<1>8. balances[u][t] \in Int
  BY <1>1 DEF Int2
<1> QED BY <1>4, <1>5, <1>6, <1>7, <1>8 DEF At

\* Credit falls only by its owner's withdrawal or by filling its owner's live order.
THEOREM DebitsAuthorised == Spec => DebitAuthorised
<1>1. ASSUME VaultInv, [Next]_vars PROVE [Authorised]_vars
  <2>0. /\ \A u \in Users, t \in Tokens : balances[u][t] \in Nat /\ wallet[u][t] \in Nat
        /\ \A o \in Orders : orderFills[o] \in Nat
    BY <1>1, VaultAssumption DEF VaultInv, VaultTypeOK, Uint
  <2>1. ASSUME NEW v \in Users, NEW b \in Orders, NEW s \in Orders, NEW f \in Fills,
               SettleMatch(v, b, s, f)
        PROVE  Authorised
    <3> SUFFICES ASSUME NEW u \in Users, NEW t \in Tokens, balances'[u][t] < balances[u][t]
                 PROVE  Sells(u, t)
      BY DEF Authorised
    <3> DEFINE q == SellerReceives(s, f)
    <3>1. /\ f \in Nat /\ s.amountSell \in Nat \ {0} /\ s.amountBuy \in Nat
      BY <2>1, OrderTypes, VaultAssumption DEF SettleMatch, Accepted, Computable, Uint
    <3>2. q \in Nat /\ (f = 0 => q = 0)
      <4>1. f * s.amountBuy \in Nat /\ (f = 0 => f * s.amountBuy = 0)
        BY <3>1
      <4>2. 0 \div s.amountSell = 0
        BY <3>1
      <4>3. (f * s.amountBuy) \div s.amountSell \in Nat
        BY <3>1, <4>1, Floor
      <4> QED BY <4>1, <4>2, <4>3 DEF SellerReceives
    <3>3. balances' = Transferred(b, s, f, q)
      BY <2>1 DEF SettleMatch
    <3> HIDE DEF q
    <3>4. /\ \/ u = b.maker /\ t = b.tokenSell
             \/ u = s.maker /\ t = s.tokenSell
          /\ f > 0 \/ q > 0
      BY <1>1, <3>1, <3>2, <3>3, TransferDebits
    <3>5. f > 0
      BY <3>1, <3>2, <3>4
    <3>6. /\ b \in signed /\ s \in signed /\ Live(b) /\ Live(s)
          /\ orderFills' = [[orderFills EXCEPT ![s] = @ + f] EXCEPT ![b] = @ + f]
      BY <2>1 DEF SettleMatch, Accepted, Validated, ValidSignature
    <3>7. orderFills'[b] > orderFills[b] /\ orderFills'[s] > orderFills[s]
      BY <1>1, <2>0, <3>1, <3>5, <3>6 DEF VaultInv, VaultTypeOK
    <3> QED BY <3>4, <3>6, <3>7 DEF Sells
  <2>2. ASSUME NEW v \in Users, NEW k \in Tokens, NEW n \in Amounts, Deposit(v, k, n)
        PROVE  Authorised
    <3>1. n \in Nat
      BY VaultAssumption DEF Uint
    <3>2. \A u \in Users, t \in Tokens : balances'[u][t] >= balances[u][t]
      BY <1>1, <2>0, <2>2, <3>1 DEF Deposit, Credit, VaultInv, VaultTypeOK
    <3>3. \A u \in Users, t \in Tokens : balances'[u][t] \in Int
      BY <1>1, <2>0, <2>2, <3>1 DEF Deposit, Credit, VaultInv, VaultTypeOK
    <3> QED BY <2>0, <3>2, <3>3 DEF Authorised
  <2>3. ASSUME NEW v \in Users, NEW k \in Tokens, NEW n \in Amounts, Withdraw(v, k, n)
        PROVE  Authorised
    <3>1. n \in Nat
      BY VaultAssumption DEF Uint
    <3>2. ASSUME NEW u \in Users, NEW t \in Tokens PROVE Withdrawn(u, t)
      BY <1>1, <2>0, <2>3, <3>1 DEF Withdraw, Withdrawn, Credit, Debit, VaultInv, VaultTypeOK
    <3> QED BY <3>2 DEF Authorised
  <2>4. ASSUME UNCHANGED balances PROVE Authorised
    BY <2>0, <2>4 DEF Authorised
  <2> QED BY <1>1, <2>1, <2>2, <2>3, <2>4
          DEF Next, CancelOrder, IncrementMinNonce, SignOrder, Tick, contract
<1>2. VaultInv /\ [Next]_vars => [Authorised]_vars
  BY <1>1
<1> QED BY <1>2, VaultInvariant, PTL DEF Spec, DebitAuthorised
================================================================================
