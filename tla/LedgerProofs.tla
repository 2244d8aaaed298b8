---------------------------- MODULE LedgerProofs ----------------------------
(***************************************************************************)
(* Who bears what a run costs, what the shopping list says is missing, and  *)
(* what the reports tell of a period, for any quantities, prices and number *)
(* of Orders, lots and runs.                                                *)
(*                                                                         *)
(* The method of largest remainders rounds twice: the fine cents in         *)
(* proportion to what each recipient got, then the cents in proportion to   *)
(* its fine cents.  One pass hands out the total exactly, because the       *)
(* remainders of the whole parts are worth fewer units than there are       *)
(* recipients with a remainder.  A larger weight never gets less of it, and *)
(* an equal one at most one unit less, so that after both passes a larger   *)
(* share of a run costs at most a cent less than a smaller one.             *)
(*                                                                         *)
(* CostInv adds to the invariants of the bills, the stock and Production    *)
(* what the ledger needs: what Orders and lots bear of baking is what the   *)
(* finished runs cost, and a lot not stocked yet bears nothing.             *)
(*                                                                         *)
(* What is reserved through a day is a sum over the dates until then, and   *)
(* no two runs in production are for one date: so the shortages told grow   *)
(* with the day, and the flour of the runs is within what is reserved.      *)
(*                                                                         *)
(* An Order that ended keeps its bill, its ledger and its day, and whoever  *)
(* ends later ends on a later day: what the reports of a past period say of *)
(* sales is a function of rows that stand, and what they say of payments    *)
(* moves with the payments, which only grow.  Every key figure of a set of Orders is a   *)
(* sum of what each contributes, so reports that share out the same Orders  *)
(* tell the same: the buckets share out the days of a period (the walk that *)
(* makes them exists, one step for each day at most), the customers and the *)
(* guests share out the Orders, and the lines share out the bill and what   *)
(* the ledger books, which is only on lines the Order has.                  *)
(***************************************************************************)
EXTENDS Reports, BooksProofs, SequenceTheorems

----------------------------------------------------------------------------
(* Largest remainders.                                                      *)

(* Order is kept strictly by multiplication with a positive number.          *)
LEMMA StrictProducts ==
  ASSUME NEW a \in Int, NEW b \in Int, NEW n \in Nat \ {0}, a < b
  PROVE  a * n < b * n
<1>1. (a + 1) * n <= b * n
  <2>1. a + 1 \in Int /\ a + 1 <= b /\ n \in Nat
    OBVIOUS
  <2> QED
    BY ONLY <2>1, b \in Int, ProductOrder
<1>2. (a + 1) * n = a * n + n
  OBVIOUS
<1>3. a * n \in Int
  OBVIOUS
<1> QED
  BY <1>1, <1>2, <1>3

(* A larger number has no smaller quotient.                                 *)
LEMMA QuotientOrder ==
  ASSUME NEW p \in Nat, NEW q \in Nat, NEW x \in Nat, NEW y \in Nat, NEW m \in Nat \ {0},
         q * m + y <= p * m + x, x < m
  PROVE  q <= p
<1>1. (p + 1) * m = p * m + m /\ p * m \in Int /\ q * m \in Int
  OBVIOUS
<1>2. q * m < (p + 1) * m
  BY <1>1
<1>3. q < p + 1
  <2>1. q \in Int /\ p + 1 \in Int
    OBVIOUS
  <2> QED
    BY ONLY <1>2, <2>1, m \in Nat \ {0}, MultiplesApart
<1> QED
  BY <1>3

(* A number is its quotient and its remainder.                              *)
LEMMA Division ==
  ASSUME NEW a \in Nat, NEW b \in Nat \ {0}
  PROVE  /\ a \div b \in Nat /\ a % b \in Nat
         /\ a = (a \div b) * b + (a % b)
         /\ a % b < b
<1>1. a % b \in Nat /\ a % b < b
  OBVIOUS
<1>2. a \div b \in Nat
  <2>1. a \div b \in Int /\ (a \div b) * b <= a /\ a < (a \div b) * b + b
    BY QuotientBounds
  <2>2. (0 - 1) * b < (a \div b) * b
    BY <2>1
  <2>3. 0 - 1 < a \div b
    BY <2>1, <2>2, MultiplesApart
  <2> QED
    BY <2>1, <2>3
<1>3. a = b * (a \div b) + (a % b)
  OBVIOUS
<1>4. b * (a \div b) = (a \div b) * b
  BY <1>2
<1> QED
  BY <1>1, <1>2, <1>3, <1>4

(* The highest index of every set of indices: where a left fold goes on.     *)
Highest(D) == [t \in SUBSET D |-> CHOOSE x \in t : \A y \in t : x >= y]

(* A finite set of indices has a highest one.                               *)
LEMMA HighestChooses ==
  ASSUME NEW D \in SUBSET Nat, IsFiniteSet(D)
  PROVE  Chooses(Highest(D), D)
<1> DEFINE R == {p \in D \X D : p[1] < p[2]}
<1>1. \A x, y \in D : <<x, y>> \in R <=> x < y
  OBVIOUS
<1> HIDE DEF R
<1>2. Linear(R, D)
  BY <1>1 DEF Linear
<1>3. ASSUME NEW t \in SUBSET D, t # {} PROVE Highest(D)[t] \in t
  <2>1. PICK x \in t : IsLast(x, R, t)
    BY <1>2, <1>3, LastExists
  <2>2. ASSUME NEW y \in t PROVE x >= y
    <3>1. x \in D /\ y \in D /\ x \in Nat /\ y \in Nat
      OBVIOUS
    <3>2. y = x \/ <<y, x>> \in R
      BY <2>1 DEF IsLast
    <3> QED
      BY <1>1, <3>1, <3>2
  <2> QED
    BY <2>2 DEF Highest
<1> QED
  BY <1>3 DEF Chooses

(* A sequence adds up to the sum over its indices, whatever the order.      *)
LEMMA AddUpIsSum ==
  ASSUME NEW n \in Nat, NEW s, DOMAIN s = 1..n, Integral(s, 1..n)
  PROVE  AddUp(s) = Added(s, 1..n) /\ AddUp(s) \in Int
<1> DEFINE D == 1..n
           c == Highest(D)
           F == [p \in D \X Int |-> p[2] + s[p[1]]]
           Is(f) == f = [t \in SUBSET D |->
                           IF t = {} THEN 0
                           ELSE LET x == CHOOSE x \in t : \A y \in t : x >= y
                                IN  f[t \ {x}] + s[x]]
           it == CHOOSE f : Is(f)
<1>1. AddUp(s) = it[D]
  BY DEF AddUp, FoldLeft, MapThenFoldSet, Max
<1>2. IsFiniteSet(D) /\ D \in SUBSET Nat
  BY FS_Interval
<1>3. Chooses(c, D)
  BY <1>2, HighestChooses
<1>4. /\ \A x \in D, v \in Int : F[<<x, v>>] = v + s[x]
      /\ \A x \in D, v \in Int : F[<<x, v>>] \in Int
  BY DEF Integral
<1>5. \A t \in SUBSET D : c[t] = CHOOSE x \in t : \A y \in t : x >= y
  BY DEF Highest
<1>i. Integral(s, D)
  OBVIOUS
<1> HIDE DEF F, c, D
<1>6. PICK f \in [SUBSET D -> Int] : IsFold(f, D, c, 0, F)
  <2>1. 0 \in Int
    OBVIOUS
  <2> QED
    BY <1>2, <1>3, <1>4, <2>1, FoldExists
<1>7. \A t \in SUBSET D : t # {} => c[t] \in D /\ c[t] \in t /\ t \ {c[t]} \in SUBSET D
  BY <1>3 DEF Chooses
<1>8. f[{}] = 0 /\ \A t \in SUBSET D : t # {} => f[t] = f[t \ {c[t]}] + s[c[t]]
  <2>1. f[{}] = 0
    BY <1>6 DEF IsFold
  <2>2. ASSUME NEW t \in SUBSET D, t # {} PROVE f[t] = f[t \ {c[t]}] + s[c[t]]
    <3>1. f[t] = F[<<c[t], f[t \ {c[t]}]>>]
      BY <1>6, <2>2 DEF IsFold
    <3>2. c[t] \in D /\ f[t \ {c[t]}] \in Int
      BY <1>6, <1>7, <2>2
    <3> QED
      BY <1>4, <3>1, <3>2
  <2> QED
    BY <2>1, <2>2
<1>9. \A t \in SUBSET D : f[t] = IF t = {} THEN 0
                                 ELSE LET x == CHOOSE x \in t : \A y \in t : x >= y
                                      IN  f[t \ {x}] + s[x]
  BY <1>5, <1>8
<1>10. Is(f)
  BY <1>6, <1>9
<1> HIDE DEF Is
<1>11. Is(it)
  BY <1>10
<1> USE DEF Is
<1> HIDE DEF it
<1>12. it[{}] = 0 /\ \A t \in SUBSET D : t # {} => it[t] = it[t \ {c[t]}] + s[c[t]]
  BY <1>5, <1>11
<1> HIDE DEF Is
<1> DEFINE P == {t \in SUBSET D : it[t] = Added(s, t)}
<1>13. {} \in P
  BY <1>12, SumEmpty
<1>14. ASSUME NEW t \in SUBSET D, t # {}, t \ {c[t]} \in P PROVE t \in P
  <2>1. IsFiniteSet(t) /\ Integral(s, t) /\ c[t] \in t
    BY <1>2, <1>7, <1>i, <1>14, FS_Subset DEF Integral
  <2>2. Added(s, t) = s[c[t]] + Added(s, t \ {c[t]})
    BY <2>1, SumPick
  <2>3. s[c[t]] \in Int /\ Added(s, t \ {c[t]}) \in Int
    <3>1. IsFiniteSet(t \ {c[t]}) /\ Integral(s, t \ {c[t]})
      BY <2>1, FS_Subset DEF Integral
    <3> QED
      BY <2>1, <3>1, SumType DEF Integral
  <2>4. it[t] = it[t \ {c[t]}] + s[c[t]]
    BY <1>12, <1>14
  <2>5. it[t \ {c[t]}] = Added(s, t \ {c[t]})
    BY <1>14
  <2>6. it[t] = Added(s, t)
    BY <2>2, <2>3, <2>4, <2>5
  <2> QED
    BY <2>6
<1> HIDE DEF P
<1>15. SUBSET D \subseteq P
  BY <1>2, <1>3, <1>13, <1>14, Descent
<1>16. it[D] = Added(s, D) /\ Added(s, D) \in Int
  BY <1>2, <1>15, <1>i, SumType DEF P
<1> QED
  BY <1>1, <1>16 DEF D

Bases(total, w) == [i \in DOMAIN w |-> (total * w[i]) \div AddUp(w)]
Rests(total, w) == [i \in DOMAIN w |-> (total * w[i]) % AddUp(w)]

(* Who is served before whom with what is left over.                        *)
Favoured(r, D) == {p \in D \X D : r[p[1]] > r[p[2]] \/ (r[p[1]] = r[p[2]] /\ p[1] < p[2])}

(* Those before an index: a larger remainder, or the same and earlier.      *)
LEMMA FavouredPairs ==
  ASSUME NEW r, NEW D, NEW i \in D
  PROVE  Earlier(i, Favoured(r, D), D) = {j \in D : r[j] > r[i] \/ (r[j] = r[i] /\ j < i)}
<1>1. ASSUME NEW j \in D
      PROVE  <<j, i>> \in Favoured(r, D) <=> r[j] > r[i] \/ (r[j] = r[i] /\ j < i)
  BY DEF Favoured
<1> QED
  BY <1>1, Zenon DEF Earlier

(* A share is the whole part of a quota, and one more for the most favoured. *)
LEMMA HamiltonRanks ==
  ASSUME NEW total, NEW w
  PROVE  LET b == Bases(total, w)
             R == Favoured(Rests(total, w), DOMAIN w)
         IN  Hamilton(total, w) =
               [i \in DOMAIN w |->
                  IF RankOf(i, R, DOMAIN w) < total - AddUp(b) THEN b[i] + 1 ELSE b[i]]
<1> DEFINE b == Bases(total, w)
           r == Rests(total, w)
           R == Favoured(r, DOMAIN w)
           before(i) == {j \in DOMAIN w : r[j] > r[i] \/ (r[j] = r[i] /\ j < i)}
<1>1. Hamilton(total, w) =
        [i \in DOMAIN w |-> IF Cardinality(before(i)) < total - AddUp(b) THEN b[i] + 1 ELSE b[i]]
  BY DEF Hamilton, Bases, Rests
<1> HIDE DEF b, r
<1>2. \A i \in DOMAIN w : RankOf(i, R, DOMAIN w) = Cardinality(before(i))
  BY FavouredPairs DEF RankOf
<1> HIDE DEF R, before
<1>3. Hamilton(total, w) =
        [i \in DOMAIN w |-> IF RankOf(i, R, DOMAIN w) < total - AddUp(b)
                            THEN b[i] + 1 ELSE b[i]]
  BY <1>1, <1>2
<1> QED
  BY <1>3 DEF b, r, R

(* What is left over once everyone has the whole part of its quota: more     *)
(* than nothing is missing for no one, and less than one for everyone.       *)
LEMMA LeftOver ==
  ASSUME NEW n \in Nat \ {0}, NEW w \in [1..n -> Nat], AddUp(w) > 0, NEW total \in Nat
  PROVE  LET b == Bases(total, w)
             r == Rests(total, w)
         IN  /\ b \in [1..n -> Nat] /\ r \in [1..n -> Nat]
             /\ \A i \in 1..n : total * w[i] = b[i] * AddUp(w) + r[i] /\ r[i] < AddUp(w)
             /\ AddUp(b) \in Int /\ 0 <= total - AddUp(b) /\ total - AddUp(b) < n
<1> DEFINE D == 1..n
           W == AddUp(w)
           b == Bases(total, w)
           r == Rests(total, w)
<1>1. IsFiniteSet(D) /\ Cardinality(D) = n /\ DOMAIN w = D /\ Integral(w, D)
  BY FS_Interval DEF Integral
<1>2. W = Added(w, D) /\ W \in Nat \ {0}
  BY <1>1, AddUpIsSum
<1>3. ASSUME NEW i \in D
      PROVE  /\ b[i] \in Nat /\ r[i] \in Nat
             /\ total * w[i] = b[i] * W + r[i] /\ r[i] < W
  <2>1. total * w[i] \in Nat /\ w[i] \in Nat
    OBVIOUS
  <2>2. b[i] = (total * w[i]) \div W /\ r[i] = (total * w[i]) % W
    BY <1>1 DEF Bases, Rests
  <2>3. PICK a : a = total * w[i]
    OBVIOUS
  <2>4. a \in Nat /\ b[i] = a \div W /\ r[i] = a % W
    BY <2>1, <2>2, <2>3
  <2> HIDE DEF W, b, r
  <2>5. /\ a \div W \in Nat /\ a % W \in Nat
        /\ a = (a \div W) * W + (a % W) /\ a % W < W
    BY <1>2, <2>4, Division
  <2> QED
    BY <2>3, <2>4, <2>5
<1>4. b \in [D -> Nat] /\ r \in [D -> Nat]
  <2>1. b = [i \in D |-> b[i]] /\ r = [i \in D |-> r[i]]
    BY <1>1 DEF Bases, Rests
  <2> HIDE DEF b, r
  <2> QED
    BY <1>3, <2>1
<1> HIDE DEF D, W, b, r
<1>5. Integral(b, D) /\ Integral(r, D) /\ DOMAIN b = D
  BY <1>4 DEF Integral
<1>6. AddUp(b) = Added(b, D) /\ AddUp(b) \in Int
  BY <1>5, AddUpIsSum DEF D
<1> DEFINE B == Added(b, D)
           scaled == [i \in D |-> total * w[i]]
           whole == [i \in D |-> W * b[i]]
           ones == [i \in D |-> 1]
           full == [i \in D |-> (W - 1) * ones[i]]
<1>7. /\ \A i \in D : scaled[i] = total * w[i]
      /\ \A i \in D : whole[i] = W * b[i]
      /\ \A i \in D : ones[i] = 1
      /\ \A i \in D : full[i] = (W - 1) * ones[i]
  OBVIOUS
<1>8. /\ Integral(scaled, D) /\ Integral(whole, D) /\ Integral(ones, D) /\ Integral(full, D)
  BY <1>1, <1>2, <1>3 DEF Integral
<1>9. \A i \in D : scaled[i] = whole[i] + r[i] /\ r[i] <= full[i]
  <2> SUFFICES ASSUME NEW i \in D PROVE scaled[i] = whole[i] + r[i] /\ r[i] <= full[i]
    OBVIOUS
  <2>1. whole[i] = b[i] * W
    BY <1>2, <1>3
  <2>2. full[i] = W - 1
    BY <1>2
  <2> QED
    BY <1>2, <1>3, <1>7, <2>1, <2>2
<1> HIDE DEF scaled, whole, ones, full
<1>10. Added(scaled, D) = total * W
  <2>1. IsFiniteSet(D) /\ Integral(w, D) /\ total \in Int /\ \A i \in D : scaled[i] = total * w[i]
    BY <1>1, <1>7
  <2>2. Added(scaled, D) = total * Added(w, D)
    BY ONLY <2>1, SumTimes
  <2> QED
    BY <1>2, <2>2
<1>11. Added(whole, D) = W * B
  <2>1. IsFiniteSet(D) /\ Integral(b, D) /\ W \in Int /\ \A i \in D : whole[i] = W * b[i]
    BY <1>1, <1>2, <1>5, <1>7
  <2> QED
    BY ONLY <2>1, SumTimes
<1>12. Added(scaled, D) = Added(whole, D) + Added(r, D)
  BY <1>1, <1>5, <1>8, <1>9, SumPlus
<1>13. Added(r, D) <= Added(full, D)
  BY <1>1, <1>5, <1>8, <1>9, SumOrder
<1>14. Added(full, D) = (W - 1) * n
  <2>1. Added(ones, D) = n
    BY <1>1, <1>7, SumOnes
  <2>2. Added(full, D) = (W - 1) * Added(ones, D)
    <3>1. PICK c : c = W - 1
      OBVIOUS
    <3>2. IsFiniteSet(D) /\ Integral(ones, D) /\ c \in Int /\ \A i \in D : full[i] = c * ones[i]
      BY <1>1, <1>2, <1>7, <1>8, <3>1
    <3>3. Added(full, D) = c * Added(ones, D)
      BY ONLY <3>2, SumTimes
    <3> QED
      BY <3>1, <3>3
  <2> QED
    BY <2>1, <2>2
<1>15. Added(r, D) \in Nat
  BY <1>1, <1>4, SumNat
<1> DEFINE k == total - B
<1>16. B \in Int /\ k \in Int
  BY <1>6
<1>17. Added(r, D) = k * W
  <2>1. total * W = W * B + Added(r, D)
    BY <1>10, <1>11, <1>12
  <2>2. k * W = total * W - W * B
    BY <1>2, <1>16
  <2>3. total * W \in Int /\ W * B \in Int
    BY <1>2, <1>16
  <2> QED
    BY <1>15, <2>1, <2>2, <2>3
<1>18. k * W < n * W
  <2>1. (W - 1) * n = n * W - n
    BY <1>2
  <2> QED
    BY <1>2, <1>13, <1>14, <1>15, <1>17, <2>1
<1> HIDE DEF k, B
<1>19. k < n
  BY <1>2, <1>16, <1>18, MultiplesApart
<1>20. 0 <= k
  <2>1. (0 - 1) * W < k * W
    BY <1>2, <1>15, <1>17
  <2>2. 0 - 1 < k
    BY <1>2, <1>16, <2>1, MultiplesApart
  <2> QED
    BY <1>16, <2>2
<1>21. 0 <= total - AddUp(b) /\ total - AddUp(b) < n
  BY <1>6, <1>19, <1>20 DEF k, B
<1> QED
  BY <1>3, <1>4, <1>6, <1>21 DEF D, W, b, r

(* The order of the remainders is total and strict.                         *)
LEMMA FavouredLinear ==
  ASSUME NEW D \in SUBSET Nat, NEW r, \A i \in D : r[i] \in Nat
  PROVE  /\ Linear(Favoured(r, D), D) /\ Strict(Favoured(r, D), D)
         /\ \A i, j \in D : r[i] > r[j] => <<i, j>> \in Favoured(r, D)
<1> DEFINE R == Favoured(r, D)
<1>1. \A i, j \in D : <<i, j>> \in R <=> r[i] > r[j] \/ (r[i] = r[j] /\ i < j)
  BY DEF Favoured
<1>2. \A i \in D : i \in Nat
  OBVIOUS
<1> HIDE DEF R
<1>3. ASSUME NEW x \in D, NEW y \in D, x # y PROVE <<x, y>> \in R \/ <<y, x>> \in R
  <2>1. r[x] \in Nat /\ r[y] \in Nat /\ x \in Nat /\ y \in Nat
    BY <1>2
  <2>2. \/ r[x] > r[y] \/ (r[x] = r[y] /\ x < y)
        \/ r[y] > r[x] \/ (r[y] = r[x] /\ y < x)
    BY <1>3, <2>1
  <2> QED
    BY <1>1, <2>2
<1>4. ASSUME NEW x \in D, NEW y \in D, NEW z \in D, <<x, y>> \in R, <<y, z>> \in R
      PROVE  <<x, z>> \in R
  <2>1. /\ r[x] \in Nat /\ r[y] \in Nat /\ r[z] \in Nat
        /\ x \in Nat /\ y \in Nat /\ z \in Nat
    BY <1>2
  <2>2. /\ r[x] > r[y] \/ (r[x] = r[y] /\ x < y)
        /\ r[y] > r[z] \/ (r[y] = r[z] /\ y < z)
    BY <1>1, <1>4
  <2>3. r[x] > r[z] \/ (r[x] = r[z] /\ x < z)
    BY <2>1, <2>2
  <2> QED
    BY <1>1, <2>3
<1>5. ASSUME NEW x \in D PROVE <<x, x>> \notin R
  <2>1. r[x] \in Nat /\ x \in Nat
    BY <1>2
  <2>2. ~(r[x] > r[x]) /\ ~(x < x)
    BY <2>1
  <2> QED
    BY <1>1, <2>2
<1>6. Linear(R, D)
  BY <1>3, <1>4 DEF Linear
<1>7. Strict(R, D)
  BY <1>5 DEF Strict
<1> QED
  BY <1>1, <1>6, <1>7 DEF R

(* The method of largest remainders: the shares add up to the total, a       *)
(* larger weight never gets less, and the same weight at most one less.      *)
LEMMA HamiltonShares ==
  ASSUME NEW n \in Nat \ {0}, NEW w \in [1..n -> Nat], AddUp(w) > 0, NEW total \in Nat
  PROVE  LET h == Hamilton(total, w)
         IN  /\ h \in [1..n -> Nat]
             /\ AddUp(h) = total
             /\ \A i, j \in 1..n : w[i] > w[j] => h[i] >= h[j]
             /\ \A i, j \in 1..n : w[i] >= w[j] => h[i] + 1 >= h[j]
<1> DEFINE D == 1..n
           W == AddUp(w)
           b == Bases(total, w)
           r == Rests(total, w)
           k == total - AddUp(b)
           R == Favoured(r, D)
           h == Hamilton(total, w)
<1>1. DOMAIN w = D /\ IsFiniteSet(D) /\ Cardinality(D) = n /\ D \in SUBSET Nat
  BY FS_Interval
<1>2. /\ b \in [D -> Nat] /\ r \in [D -> Nat]
      /\ \A i \in D : total * w[i] = b[i] * W + r[i] /\ r[i] < W
      /\ AddUp(b) \in Int /\ 0 <= k /\ k < n
  BY LeftOver
<1>3. k \in Nat
  BY <1>2
<1>4. h = [i \in D |-> IF RankOf(i, R, D) < k THEN b[i] + 1 ELSE b[i]]
  BY <1>1, HamiltonRanks
<1>5. W \in Nat \ {0}
  <2>1. Integral(w, D) /\ DOMAIN w = D
    BY <1>1 DEF Integral
  <2>2. W \in Int
    BY <2>1, AddUpIsSum
  <2> QED
    BY <2>2
<1>b. AddUp(b) = Added(b, D)
  <2>1. Integral(b, D) /\ DOMAIN b = D
    BY <1>2 DEF Integral
  <2> HIDE DEF b
  <2> QED
    BY <2>1, AddUpIsSum
<1>w. \A i \in D : w[i] \in Nat
  OBVIOUS
<1> HIDE DEF b, r, k, W, h
<1>6. Linear(R, D) /\ Strict(R, D) /\ \A i, j \in D : r[i] > r[j] => <<i, j>> \in R
  BY <1>1, <1>2, FavouredLinear
<1> HIDE DEF R, D
<1>7. \A i \in D : RankOf(i, R, D) \in Nat
  BY <1>1, <1>6, RankOrder
<1>8. h \in [D -> Nat]
  BY <1>2, <1>4
<1> DEFINE bonus == [i \in D |-> IF i \in Firsts(k, R, D) THEN 1 ELSE 0]
           ones == [i \in D |-> 1]
<1>9. AddUp(h) = total
  <2>1. \A i \in D : h[i] = b[i] + bonus[i]
    BY <1>2, <1>4 DEF Firsts
  <2>2. Masks(bonus, ones, Firsts(k, R, D), D) /\ Firsts(k, R, D) \in SUBSET D
    BY DEF Masks, Firsts
  <2>3. Integral(bonus, D) /\ Integral(ones, D) /\ Integral(b, D) /\ Integral(h, D)
        /\ DOMAIN h = D
    BY <1>2, <1>8 DEF Integral
  <2>4. \A i \in Firsts(k, R, D) : ones[i] = 1
    BY <2>2
  <2> HIDE DEF bonus, ones
  <2>5. Added(bonus, D) = Added(ones, Firsts(k, R, D))
    BY <1>1, <2>2, <2>3, SumPart
  <2>6. Added(ones, Firsts(k, R, D)) = Cardinality(Firsts(k, R, D))
    <3>1. IsFiniteSet(Firsts(k, R, D))
      BY <1>1, <2>2, FS_Subset
    <3> QED
      BY <2>4, <3>1, SumOnes
  <2>7. Cardinality(Firsts(k, R, D)) = k
    BY <1>1, <1>2, <1>3, <1>6, FirstsCount
  <2>8. Added(h, D) = Added(b, D) + Added(bonus, D)
    BY <1>1, <2>1, <2>3, SumPlus
  <2>9. AddUp(h) = Added(h, D)
    BY <2>3, AddUpIsSum DEF D
  <2> QED
    BY <1>2, <1>b, <2>5, <2>6, <2>7, <2>8, <2>9 DEF k
<1>10. ASSUME NEW i \in D, NEW j \in D, w[i] >= w[j]
       PROVE  b[i] >= b[j]
  <2>1. /\ b[i] \in Nat /\ b[j] \in Nat /\ r[i] \in Nat /\ r[j] \in Nat
        /\ w[i] \in Nat /\ w[j] \in Nat
    BY <1>2, <1>w
  <2>2. PICK x, y : x = w[i] /\ y = w[j]
    OBVIOUS
  <2>3. y * total <= x * total
    <3>1. x \in Int /\ y \in Int /\ y <= x /\ total \in Nat
      BY <1>10, <2>1, <2>2
    <3> QED
      BY ONLY <3>1, ProductOrder
  <2>4. b[j] * W + r[j] <= b[i] * W + r[i] /\ r[i] < W
    BY <1>2, <2>1, <2>2, <2>3
  <2> QED
    BY <1>5, <2>1, <2>4, QuotientOrder
<1>11. ASSUME NEW i \in D, NEW j \in D, w[i] >= w[j]
       PROVE  h[i] + 1 >= h[j]
  BY <1>2, <1>4, <1>10, <1>11
<1>12. ASSUME NEW i \in D, NEW j \in D, w[i] > w[j]
       PROVE  h[i] >= h[j]
  <2>1. /\ b[i] \in Nat /\ b[j] \in Nat /\ r[i] \in Nat /\ r[j] \in Nat
        /\ w[i] \in Nat /\ w[j] \in Nat
    BY <1>2, <1>w
  <2>2. b[i] >= b[j]
    BY <1>10, <1>12, <2>1
  <2>3. CASE b[i] > b[j]
    BY <1>4, <2>1, <2>3
  <2>4. CASE b[i] = b[j] /\ total = 0
    <3>1. Added(b, D) \in Nat
      BY <1>1, <1>2, SumNat
    <3>2. k <= 0
      BY <1>b, <2>4, <3>1 DEF k
    <3>3. ~(RankOf(j, R, D) < k) /\ ~(RankOf(i, R, D) < k)
      BY <1>3, <1>7, <3>2
    <3> QED
      BY <1>4, <2>1, <2>4, <3>3
  <2>5. CASE b[i] = b[j] /\ total # 0
    <3>1. w[j] * total < w[i] * total
      <4>1. PICK x, y : x = w[i] /\ y = w[j]
        OBVIOUS
      <4>2. x \in Int /\ y \in Int /\ y < x /\ total \in Nat \ {0}
        BY <1>12, <2>1, <2>5, <4>1
      <4>3. y * total < x * total
        BY ONLY <4>2, StrictProducts
      <4> QED
        BY <4>1, <4>3
    <3>2. b[j] * W + r[j] < b[i] * W + r[i]
      BY <1>2, <2>1, <3>1
    <3>3. r[j] < r[i]
      <4>1. b[j] * W \in Int
        BY <1>5, <2>1
      <4> QED
        BY <2>1, <2>5, <3>2, <4>1
    <3>4. RankOf(i, R, D) < RankOf(j, R, D)
      BY <1>1, <1>6, <2>1, <3>3, RankOrder
    <3>5. RankOf(j, R, D) < k => RankOf(i, R, D) < k
      BY <1>3, <1>7, <3>4
    <3> QED
      BY <1>4, <2>1, <2>5, <3>5
  <2> QED
    BY <2>1, <2>2, <2>3, <2>4, <2>5
<1> QED
  BY <1>8, <1>9, <1>11, <1>12 DEF D, h

(* The cents of a run: they add up to its cost in cents, whoever gets how    *)
(* much, and nobody bears two cents more than someone with a larger weight.  *)
LEMMA ApportionedCents ==
  ASSUME NEW n \in Nat \ {0}, NEW w \in [1..n -> Nat], AddUp(w) > 0, NEW fine \in Nat
  PROVE  LET c == Apportioned(fine, w)
         IN  /\ c \in [1..n -> Nat]
             /\ Added(c, 1..n) = Cents(fine)
             /\ \A i, j \in 1..n : w[i] > w[j] => c[i] + 1 >= c[j]
             /\ Cents(fine) \in Nat
<1> DEFINE s == Hamilton(fine, w)
           c == Apportioned(fine, w)
<1>1. Cents(fine) \in Nat /\ (fine = 0 => Cents(fine) = 0)
  <2>1. Fine \in Nat \ {0}
    BY CostingAssumption
  <2>2. 2 * fine + Fine \in Nat /\ 2 * Fine \in Nat \ {0}
    BY <2>1
  <2>3. (2 * fine + Fine) \div (2 * Fine) \in Nat
    BY <2>2, Division
  <2>4. ASSUME fine = 0 PROVE (2 * fine + Fine) \div (2 * Fine) = 0
    <3> DEFINE q == Fine \div (2 * Fine)
    <3>1. Fine \in Int /\ 2 * Fine \in Nat \ {0}
      BY <2>1
    <3>2. q \in Int /\ q * (2 * Fine) <= Fine /\ Fine < q * (2 * Fine) + 2 * Fine
      BY <3>1, QuotientBounds
    <3>3. q \in Nat
      BY <3>1, <2>1, Division
    <3>4. q * (2 * Fine) < 1 * (2 * Fine)
      BY <2>1, <3>2
    <3>5. q < 1
      <4> HIDE DEF q
      <4> QED
        BY <3>1, <3>2, <3>4, MultiplesApart
    <3>6. 2 * fine + Fine = Fine
      BY <2>1, <2>4
    <3> QED
      BY <3>3, <3>5, <3>6
  <2> QED
    BY <2>3, <2>4 DEF Cents, RoundDiv
<1>2. CASE fine = 0
  <2>1. c = [i \in 1..n |-> 0]
    BY <1>2 DEF Apportioned
  <2>2. c \in [1..n -> Nat] /\ \A i \in 1..n : c[i] = 0
    BY <2>1
  <2> HIDE DEF c
  <2>3. Masks(c, c, {}, 1..n) /\ Integral(c, 1..n) /\ {} \in SUBSET (1..n) /\ IsFiniteSet(1..n)
    <3>1. IsFiniteSet(1..n)
      BY FS_Interval
    <3> QED
      BY <2>2, <3>1 DEF Masks, Integral
  <2>4. Added(c, 1..n) = Added(c, {})
    BY <2>3, SumPart
  <2>5. Added(c, 1..n) = 0
    BY <2>4, SumEmpty
  <2> QED
    BY <1>1, <1>2, <2>2, <2>5 DEF c
<1>3. CASE fine # 0
  <2>1. /\ s \in [1..n -> Nat] /\ AddUp(s) = fine
        /\ \A i, j \in 1..n : w[i] > w[j] => s[i] >= s[j]
    BY HamiltonShares
  <2>2. c = Hamilton(Cents(fine), s)
    BY <1>3 DEF Apportioned
  <2> HIDE DEF s, c
  <2>3. AddUp(s) > 0
    BY <1>3, <2>1
  <2>4. PICK t : t = Cents(fine)
    OBVIOUS
  <2>5. /\ c \in [1..n -> Nat] /\ AddUp(c) = t
        /\ \A i, j \in 1..n : s[i] >= s[j] => c[i] + 1 >= c[j]
    BY <1>1, <2>1, <2>2, <2>3, <2>4, HamiltonShares
  <2>6. AddUp(c) = Added(c, 1..n)
    <3>1. Integral(c, 1..n) /\ DOMAIN c = 1..n
      BY <2>5 DEF Integral
    <3> QED
      BY <3>1, AddUpIsSum
  <2> QED
    BY <1>1, <2>1, <2>4, <2>5, <2>6 DEF c
<1> QED
  BY <1>2, <1>3

----------------------------------------------------------------------------
(* What a finished run makes each Order bear.                               *)

(* s lists the n members of S, each once.                                   *)
Lists(s, n, S) ==
  /\ n \in Nat
  /\ DOMAIN s = 1..n
  /\ \A i \in 1..n : s[i] \in S
  /\ \A o \in S : \E i \in 1..n : s[i] = o
  /\ \A i, j \in 1..n : s[i] = s[j] => i = j

(* Members in deadline order: each once, none left out.                     *)
LEMMA DeadlineOrder ==
  ASSUME QuantitiesTyped, NEW S \in SUBSET Orders
  PROVE  Lists(InDeadlineOrder(S, due), Cardinality(S), S)
<1> DEFINE s == InDeadlineOrder(S, due)
           n == Cardinality(S)
           R == {p \in S \X S : Sooner(due, p[1], p[2])}
<1>1. IsFiniteSet(S)
  BY Finiteness, FS_Subset
<1>2. n \in Nat
  BY <1>1, FS_CardinalityType
<1>3. Linear(R, S) /\ Strict(R, S)
  <2>1. due \in [Orders -> Nat]
    BY DEF QuantitiesTyped
  <2> QED
    BY <2>1, SoonerOrders DEF Linear, Strict
<1>4. ASSUME NEW o \in S
      PROVE  Cardinality({u \in S : Sooner(due, u, o)}) = RankOf(o, R, S)
  <2>1. {u \in S : Sooner(due, u, o)} = Earlier(o, R, S)
    BY DEF Earlier
  <2> QED
    BY <2>1 DEF RankOf
<1>5. s = [i \in 1..n |-> CHOOSE o \in S : RankOf(o, R, S) = i - 1]
  BY <1>4 DEF InDeadlineOrder
<1> HIDE DEF R, n, s
<1>6. /\ \A k \in Nat : k < n => \E o \in S : RankOf(o, R, S) = k
      /\ \A o \in S : RankOf(o, R, S) \in Nat /\ RankOf(o, R, S) < n
      /\ \A o, u \in S : <<o, u>> \in R => RankOf(o, R, S) < RankOf(u, R, S)
  BY <1>1, <1>3, FirstsCount, RankOrder DEF n
<1>7. ASSUME NEW i \in 1..n PROVE s[i] \in S /\ RankOf(s[i], R, S) = i - 1
  <2>1. i - 1 \in Nat /\ i - 1 < n
    BY <1>2
  <2>2. \E o \in S : RankOf(o, R, S) = i - 1
    BY <1>6, <2>1
  <2> QED
    BY <1>5, <2>2
<1>8. ASSUME NEW o \in S, NEW u \in S, RankOf(o, R, S) = RankOf(u, R, S) PROVE o = u
  <2>1. ~(RankOf(o, R, S) < RankOf(u, R, S)) /\ ~(RankOf(u, R, S) < RankOf(o, R, S))
    BY <1>6, <1>8
  <2>2. <<o, u>> \notin R /\ <<u, o>> \notin R
    BY <1>6, <2>1
  <2> QED
    BY <1>3, <2>2 DEF Linear
<1>9. ASSUME NEW o \in S PROVE \E i \in 1..n : s[i] = o
  <2>1. PICK i : i = RankOf(o, R, S) + 1
    OBVIOUS
  <2>2. i \in 1..n /\ RankOf(o, R, S) = i - 1
    BY <1>2, <1>6, <2>1
  <2> QED
    BY <1>7, <1>8, <2>2
<1>10. ASSUME NEW i \in 1..n, NEW j \in 1..n, s[i] = s[j] PROVE i = j
  BY <1>2, <1>7, <1>10
<1>11. DOMAIN s = 1..n
  BY <1>5
<1> QED
  BY <1>2, <1>7, <1>9, <1>10, <1>11 DEF n, s, Lists

(* A sum of one term.                                                       *)
LEMMA SumOne ==
  ASSUME NEW g, NEW x, g[x] \in Int
  PROVE  Added(g, {x}) = g[x]
<1>1. IsFiniteSet({x}) /\ Integral(g, {x})
  BY FS_Singleton DEF Integral
<1>2. Added(g, {x}) = g[x] + Added(g, {x} \ {x})
  BY <1>1, SumPick
<1>3. {x} \ {x} = {}
  OBVIOUS
<1> QED
  BY <1>2, <1>3, SumEmpty

(* What is added to nothing negative is no larger than the sum.              *)
LEMMA SumCovers ==
  ASSUME NEW S, IsFiniteSet(S), NEW g, \A y \in S : g[y] \in Nat, NEW x \in S
  PROVE  g[x] <= Added(g, S)
<1>1. Integral(g, S) /\ IsFiniteSet(S \ {x})
  BY FS_RemoveElement DEF Integral
<1>2. Added(g, S) = g[x] + Added(g, S \ {x})
  BY <1>1, SumPick
<1>3. Added(g, S \ {x}) \in Nat
  BY <1>1, SumNat
<1> QED
  BY <1>2, <1>3

Receivers(share) == {o \in Orders : share.given[o] > 0}

(* The weights of a run that produced something: those served, each with     *)
(* what it got, then what is left.                                          *)
LEMMA WeightsOfShare ==
  ASSUME QuantitiesTyped, NEW share \in Shares, NEW out \in Nat, Handed(share, out)
  PROVE  LET n == Cardinality(Receivers(share))
             m == IF share.left > 0 THEN n + 1 ELSE n
             w == Weights(share)
         IN  /\ n \in Nat /\ m \in Nat
             /\ w \in [1..m -> Nat]
             /\ \A i \in 1..n : w[i] = share.given[Served(share)[i]]
             /\ out > 0 => m > 0 /\ AddUp(w) > 0
             /\ out = 0 => n = 0 /\ share.left = 0
<1> DEFINE S == Receivers(share)
           n == Cardinality(S)
           m == IF share.left > 0 THEN n + 1 ELSE n
           w == Weights(share)
           s == Served(share)
           direct == [i \in 1..n |-> share.given[s[i]]]
<1>0. share.given \in [Orders -> Nat] /\ share.left \in Nat /\ S \in SUBSET Orders
  BY DEF Shares, Receivers
<1>1. /\ n \in Nat
      /\ DOMAIN s = 1..n
      /\ \A i \in 1..n : s[i] \in S
      /\ \A o \in S : \E i \in 1..n : s[i] = o
  <2>1. s = InDeadlineOrder(S, due)
    BY DEF Served, Receivers
  <2>2. Lists(s, n, S)
    BY <1>0, <2>1, DeadlineOrder
  <2> HIDE DEF s, n, S
  <2> QED
    BY <2>2 DEF Lists
<1>2. m \in Nat /\ n <= m
  BY <1>0, <1>1
<1> HIDE DEF n, s
<1>3. direct \in [1..n -> Nat]
  BY <1>0, <1>1
<1>4. w = IF share.left > 0 THEN Append(direct, share.left) ELSE direct
  BY <1>1 DEF Weights, s
<1>5. /\ w \in [1..m -> Nat]
      /\ \A i \in 1..n : w[i] = share.given[s[i]]
      /\ share.left > 0 => w[m] = share.left
  <2>1. CASE share.left > 0
    <3>1. direct \in Seq(Nat) /\ Len(direct) = n
      BY <1>1, <1>3, IsASeq, LenProperties
    <3>2. PICK a : a = Append(direct, share.left)
      OBVIOUS
    <3>3. /\ a \in Seq(Nat) /\ Len(a) = n + 1
          /\ a[n + 1] = share.left
          /\ \A i \in 1..n : a[i] = direct[i]
      <4>1. PICK k \in Nat : k = share.left
        BY <1>0
      <4>2. PICK e \in Seq(Nat) : e = direct /\ Len(e) = n
        BY <3>1
      <4>3. /\ Append(e, k) \in Seq(Nat)
            /\ Len(Append(e, k)) = Len(e) + 1
            /\ Append(e, k)[Len(e) + 1] = k
            /\ \A i \in 1..Len(e) : Append(e, k)[i] = e[i]
        BY ONLY AppendProperties
      <4>4. a = Append(e, k)
        BY <3>2, <4>1, <4>2
      <4> QED
        BY <4>1, <4>2, <4>3, <4>4
    <3>4. a \in [1..(n + 1) -> Nat]
      BY <3>3, LenProperties
    <3>5. w = a /\ m = n + 1
      BY <1>4, <2>1, <3>2
    <3> HIDE DEF w, m, direct
    <3>6. \A i \in 1..n : w[i] = direct[i]
      BY <3>3, <3>5
    <3>7. w \in [1..m -> Nat] /\ w[m] = share.left
      BY <3>3, <3>4, <3>5
    <3> QED
      BY <3>6, <3>7 DEF direct
  <2>2. CASE ~(share.left > 0)
    BY <1>3, <1>4, <2>2
  <2> QED
    BY <2>1, <2>2
<1>6. Integral(share.given, Orders)
  BY <1>0 DEF Integral
<1>7. Added(share.given, Orders) + share.left = out /\ Added(share.given, Orders) \in Nat
  BY <1>0, Finiteness, SumNat DEF Handed
<1>8. ASSUME out = 0 PROVE n = 0 /\ share.left = 0
  <2>1. Added(share.given, Orders) = 0 /\ share.left = 0
    BY <1>0, <1>7, <1>8
  <2>2. S = {}
    <3>1. ASSUME NEW o \in S PROVE FALSE
      <4>1. o \in Orders /\ share.given[o] > 0 /\ share.given[o] \in Nat
        BY <1>0, <3>1 DEF Receivers
      <4>2. share.given[o] <= Added(share.given, Orders)
        BY <1>0, <4>1, Finiteness, SumCovers
      <4> QED
        BY <2>1, <4>1, <4>2
    <3> QED
      BY <3>1
  <2> QED
    BY <2>1, <2>2, FS_EmptySet DEF n
<1>9. ASSUME out > 0 PROVE m > 0 /\ AddUp(w) > 0
  <2>1. \E i \in 1..m : w[i] > 0
    <3>1. CASE share.left > 0
      BY <1>0, <1>1, <1>5, <3>1
    <3>2. CASE ~(share.left > 0)
      <4>1. Added(share.given, Orders) > 0
        BY <1>0, <1>7, <1>9, <3>2
      <4>2. S # {}
        <5>1. SUFFICES ASSUME S = {} PROVE FALSE
          OBVIOUS
        <5>2. Masks(share.given, share.given, {}, Orders) /\ {} \in SUBSET Orders
          BY <1>0, <5>1 DEF Masks, Receivers
        <5>3. Added(share.given, Orders) = 0
          BY <1>6, <5>2, Finiteness, SumPart, SumEmpty
        <5> QED
          BY <4>1, <5>3
      <4>3. PICK o \in S : TRUE
        BY <4>2
      <4>4. PICK i \in 1..n : s[i] = o
        BY <1>1
      <4>5. share.given[o] > 0
        BY <4>3 DEF Receivers
      <4>6. w[i] > 0
        BY <1>5, <4>4, <4>5
      <4>7. i \in 1..m
        BY <1>1, <1>2
      <4> QED
        BY <4>6, <4>7
    <3> QED
      BY <3>1, <3>2
  <2> HIDE DEF w, m
  <2>2. PICK i \in 1..m : w[i] > 0
    BY <2>1
  <2>3. DOMAIN w = 1..m /\ Integral(w, 1..m) /\ \A j \in 1..m : w[j] \in Nat
    BY <1>5 DEF Integral
  <2>4. AddUp(w) = Added(w, 1..m)
    BY <1>2, <2>3, AddUpIsSum
  <2>5. IsFiniteSet(1..m)
    BY <1>2, FS_Interval
  <2>6. w[i] <= Added(w, 1..m) /\ Added(w, 1..m) \in Nat
    BY <2>3, <2>5, SumCovers, SumNat
  <2>7. m > 0 /\ w[i] \in Nat
    BY <1>2, <2>2, <2>3
  <2> QED
    BY <2>2, <2>4, <2>6, <2>7
<1> QED
  BY <1>1, <1>2, <1>5, <1>8, <1>9 DEF n, s

(* The cents an Order bears, as a sum.                                      *)
LEMMA BurdenIs ==
  ASSUME NEW s, NEW c, NEW o \in Orders
  PROVE  Burden(s, c)[o] = Added(c, {i \in DOMAIN s : s[i] = o})
<1>1. Over({i \in DOMAIN s : s[i] = o}, LAMBDA i : c[i]) = Added(c, {i \in DOMAIN s : s[i] = o})
  BY DEF Over, MapThenSumSet, MapThenFoldSet, Added, Adder
<1> QED
  BY <1>1 DEF Burden

(* Intervals from one are finite.                                           *)
LEMMA UpTo == ASSUME NEW n \in Nat PROVE IsFiniteSet(1..n)
  BY FS_Interval

(* Recipients that are all different: each bears its own cents, others none, *)
(* and together they bear what was shared out.                              *)
Bears(b, s, n, S, c) ==
  /\ b \in [Orders -> Nat]
  /\ Added(b, Orders) = Added(c, 1..n)
  /\ \A o \in S : \E i \in 1..n : s[i] = o /\ b[o] = c[i]
  /\ \A o \in Orders \ S : b[o] = 0

(* The cents of those served, Order by Order, add up to the same.           *)
LEMMA BurdenAdds ==
  ASSUME NEW S \in SUBSET Orders, NEW n, NEW s, Lists(s, n, S),
         NEW c, \A i \in 1..n : c[i] \in Nat, NEW b, b = Burden(s, c)
  PROVE  Bears(b, s, n, S, c)
<1>0. n \in Nat /\ DOMAIN s = 1..n
  BY DEF Lists
<1>1. ASSUME NEW o \in Orders PROVE b[o] = Added(c, {i \in 1..n : s[i] = o})
  <2>1. Burden(s, c)[o] = Added(c, {i \in DOMAIN s : s[i] = o})
    BY BurdenIs
  <2> QED
    BY <1>0, <2>1
<1>2. IsFiniteSet(1..n) /\ Integral(c, 1..n)
  BY <1>0, UpTo DEF Integral
<1>3. ASSUME NEW o \in Orders PROVE b[o] \in Nat
  <2>1. PICK T \in SUBSET (1..n) : T = {i \in 1..n : s[i] = o}
    OBVIOUS
  <2>2. IsFiniteSet(T) /\ \A i \in T : c[i] \in Nat
    BY <1>2, <2>1, FS_Subset
  <2>3. Added(c, T) \in Nat
    BY <2>2, SumNat
  <2> QED
    BY <1>1, <2>1, <2>3
<1>4. b \in [Orders -> Nat]
  <2>1. b = [o \in Orders |-> b[o]]
    BY DEF Burden
  <2> QED
    BY <1>3, <2>1
<1>5. Added(b, Orders) = Added(c, 1..n)
  <2>1. /\ IsFiniteSet(1..n) /\ Integral(c, 1..n) /\ IsFiniteSet(Orders)
        /\ \A i \in 1..n : s[i] \in Orders
        /\ \A o \in Orders : b[o] = Added(c, {i \in 1..n : s[i] = o})
    BY <1>1, <1>2, Finiteness DEF Lists
  <2>2. PICK D : D = 1..n
    OBVIOUS
  <2>3. /\ IsFiniteSet(D) /\ Integral(c, D) /\ IsFiniteSet(Orders)
        /\ \A x \in D : s[x] \in Orders
        /\ \A k \in Orders : b[k] = Added(c, Class(D, s, k))
    BY <2>1, <2>2 DEF Class
  <2>4. Added(b, Orders) = Added(c, D)
    BY ONLY <2>3, SumClasses
  <2> QED
    BY <2>2, <2>4
<1>6. ASSUME NEW o \in S PROVE \E i \in 1..n : s[i] = o /\ b[o] = c[i]
  <2>1. PICK i \in 1..n : s[i] = o
    BY DEF Lists
  <2>2. {j \in 1..n : s[j] = o} = {i}
    BY <2>1 DEF Lists
  <2>3. c[i] \in Int
    OBVIOUS
  <2>4. b[o] = Added(c, {i})
    BY <1>1, <2>2
  <2> QED
    BY <2>1, <2>3, <2>4, SumOne
<1>7. ASSUME NEW o \in Orders \ S PROVE b[o] = 0
  <2>1. {i \in 1..n : s[i] = o} = {}
    BY <1>7 DEF Lists
  <2>2. b[o] = Added(c, {})
    BY <1>1, <2>1
  <2> QED
    BY <2>2, SumEmpty
<1> QED
  BY <1>4, <1>5, <1>6, <1>7 DEF Bears

(* A cost in cents is no less than nothing.                                 *)
LEMMA CentsType == ASSUME NEW fine \in Nat PROVE Cents(fine) \in Nat
<1>1. PICK f : f = [i \in 1..1 |-> 1]
  OBVIOUS
<1>2. 1 \in Nat \ {0} /\ f \in [1..1 -> Nat]
  BY <1>1
<1>3. DOMAIN f = 1..1 /\ Integral(f, 1..1) /\ f[1] \in Int /\ f[1] = 1 /\ 1..1 = {1}
  BY <1>1 DEF Integral
<1>4. AddUp(f) = Added(f, 1..1)
  BY <1>3, AddUpIsSum
<1>5. Added(f, {1}) = 1
  BY <1>3, SumOne
<1>6. AddUp(f) > 0
  BY <1>3, <1>4, <1>5
<1> QED
  BY <1>2, <1>6, ApportionedCents

(* The cents of a run: when it produced anything, the Orders bear what the   *)
(* Surplus lot, if there is one, does not; and who got more bears no less    *)
(* but for a cent.                                                          *)
Borne(share, out, fine, c, b) ==
  /\ b \in [Orders -> Nat]
  /\ out = 0 => share.left = 0 /\ Added(b, Orders) = 0
  /\ out > 0 /\ share.left = 0 => Added(b, Orders) = Cents(fine)
  /\ share.left > 0 => /\ out > 0 /\ c[Len(c)] \in Nat
                       /\ Added(b, Orders) + c[Len(c)] = Cents(fine)
  /\ \A o, u \in Orders : share.given[o] > share.given[u] => b[o] + 1 >= b[u]

(* What a share of a run makes its recipients bear.                         *)
LEMMA Burdens ==
  ASSUME QuantitiesTyped, NEW share \in Shares, NEW out \in Nat, Handed(share, out),
         NEW fine \in Nat, NEW c, c = Apportioned(fine, Weights(share)),
         NEW b, b = Burden(Served(share), c)
  PROVE  Borne(share, out, fine, c, b)
<1>0. /\ share.given \in [Orders -> Nat] /\ share.left \in Nat
      /\ Receivers(share) \in SUBSET Orders
      /\ \A o \in Orders : o \in Receivers(share) <=> share.given[o] > 0
  BY DEF Shares, Receivers
<1> DEFINE nn == Cardinality(Receivers(share))
           mm == IF share.left > 0 THEN nn + 1 ELSE nn
<1>1. PICK S \in SUBSET Orders : S = Receivers(share)
  BY <1>0
<1>2. PICK n, m, w, s :
        /\ n = nn /\ m = mm
        /\ w = Weights(share) /\ s = Served(share)
  OBVIOUS
<1>3. Lists(s, n, S) /\ n \in Nat
  <2>1. s = InDeadlineOrder(S, due) /\ n = Cardinality(S)
    BY <1>1, <1>2 DEF Served, Receivers
  <2>2. Lists(s, n, S)
    BY <1>0, <2>1, DeadlineOrder
  <2> QED
    BY <2>2 DEF Lists
<1>4. /\ m \in Nat /\ w \in [1..m -> Nat]
      /\ \A i \in 1..n : w[i] = share.given[s[i]]
      /\ out > 0 => m > 0 /\ AddUp(w) > 0
      /\ out = 0 => n = 0 /\ share.left = 0
  BY <1>2, WeightsOfShare
<1>5. n <= m /\ (share.left = 0 => m = n) /\ (share.left > 0 => m = n + 1)
  BY <1>0, <1>2, <1>3
<1>6. b = Burden(s, c) /\ c = Apportioned(fine, w)
  BY <1>2
<1>7. CASE out = 0
  <2>1. n = 0 /\ share.left = 0
    BY <1>4, <1>7
  <2>2. S = {}
    BY <1>3, <2>1 DEF Lists
  <2>3. \A i \in 1..n : c[i] \in Nat
    BY <2>1
  <2>4. /\ b \in [Orders -> Nat]
        /\ Added(b, Orders) = Added(c, 1..n)
        /\ \A o \in Orders \ S : b[o] = 0
    <3>1. /\ S \in SUBSET Orders /\ Lists(s, n, S) /\ b = Burden(s, c)
          /\ \A i \in 1..n : c[i] \in Nat
      BY <1>3, <1>6, <2>3
    <3>2. Bears(b, s, n, S, c)
      BY ONLY <3>1, BurdenAdds
    <3> QED
      BY <3>2 DEF Bears
  <2>5. 1..n = {}
    BY <2>1
  <2>6. Added(b, Orders) = 0
    BY <2>4, <2>5, SumEmpty
  <2>7. \A o, u \in Orders : b[o] + 1 >= b[u]
    BY <2>2, <2>4
  <2> QED
    BY <1>0, <1>7, <2>1, <2>4, <2>6, <2>7 DEF Borne
<1>8. CASE out > 0
  <2>1. /\ c \in [1..m -> Nat]
        /\ Added(c, 1..m) = Cents(fine)
        /\ \A i, j \in 1..m : w[i] > w[j] => c[i] + 1 >= c[j]
    <3>1. m \in Nat \ {0} /\ w \in [1..m -> Nat] /\ AddUp(w) > 0
      BY <1>4, <1>8
    <3>2. /\ m \in Nat \ {0} /\ w \in [1..m -> Nat] /\ AddUp(w) > 0
          /\ fine \in Nat /\ c = Apportioned(fine, w)
      BY <1>6, <3>1
    <3> QED
      BY ONLY <3>2, ApportionedCents
  <2>2. IsFiniteSet(1..m) /\ 1..n \subseteq 1..m
    BY <1>3, <1>4, <1>5, UpTo
  <2>3. \A i \in 1..n : c[i] \in Nat
    BY <2>1, <2>2
  <2>4. /\ b \in [Orders -> Nat]
        /\ Added(b, Orders) = Added(c, 1..n)
        /\ \A o \in S : \E i \in 1..n : s[i] = o /\ b[o] = c[i]
        /\ \A o \in Orders \ S : b[o] = 0
    <3>1. /\ S \in SUBSET Orders /\ Lists(s, n, S) /\ b = Burden(s, c)
          /\ \A i \in 1..n : c[i] \in Nat
      BY <1>3, <1>6, <2>3
    <3>2. Bears(b, s, n, S, c)
      BY ONLY <3>1, BurdenAdds
    <3> QED
      BY <3>2 DEF Bears
  <2>5. ASSUME share.left = 0 PROVE Added(b, Orders) = Cents(fine)
    BY <1>5, <2>1, <2>4, <2>5
  <2>6. ASSUME share.left > 0
        PROVE  c[Len(c)] \in Nat /\ Added(b, Orders) + c[Len(c)] = Cents(fine)
    <3>1. m = n + 1
      BY <1>5, <2>6
    <3>2. Len(c) = m
      <4>1. c \in Seq(Nat)
        BY <1>4, <2>1, IsASeq
      <4>2. DOMAIN c = 1..Len(c) /\ DOMAIN c = 1..m /\ Len(c) \in Nat
        BY <2>1, <4>1, LenProperties
      <4> QED
        BY <1>4, <4>2
    <3>3. (1..m) \ {m} = 1..n /\ m \in 1..m
      BY <1>3, <3>1
    <3>4. Integral(c, 1..m) /\ Integral(c, 1..n) /\ IsFiniteSet(1..n)
      BY <1>3, <2>1, <2>2, UpTo DEF Integral
    <3>5. Added(c, 1..m) = c[m] + Added(c, 1..n)
      <4>1. PICK D, x : D = 1..m /\ x = m
        OBVIOUS
      <4>2. IsFiniteSet(D) /\ Integral(c, D) /\ x \in D /\ D \ {x} = 1..n
        BY <2>2, <3>3, <3>4, <4>1
      <4>3. Added(c, D) = c[x] + Added(c, D \ {x})
        BY ONLY <4>2, SumPick
      <4> QED
        BY <4>1, <4>2, <4>3
    <3>6. c[m] \in Nat
      BY <2>1, <3>3
    <3>7. Added(c, 1..n) \in Int
      BY <3>4, SumType
    <3> QED
      BY <2>1, <2>4, <3>2, <3>5, <3>6, <3>7
  <2>7. ASSUME NEW o \in Orders, NEW u \in Orders, share.given[o] > share.given[u]
        PROVE  b[o] + 1 >= b[u]
    <3>1. share.given[o] \in Nat /\ share.given[u] \in Nat
      BY <1>0
    <3>2. o \in S
      BY <1>0, <1>1, <2>7, <3>1
    <3>3. PICK i \in 1..n : s[i] = o /\ b[o] = c[i]
      BY <2>4, <3>2
    <3>4. CASE u \in S
      <4>1. PICK j \in 1..n : s[j] = u /\ b[u] = c[j]
        BY <2>4, <3>4
      <4>2. i \in 1..m /\ j \in 1..m
        BY <2>2
      <4>3. w[i] = share.given[o] /\ w[j] = share.given[u]
        BY <1>4, <3>3, <4>1
      <4>4. c[i] + 1 >= c[j]
        BY <2>1, <2>7, <4>2, <4>3
      <4> QED
        BY <3>3, <4>1, <4>4
    <3>5. CASE u \notin S
      <4>1. b[u] = 0 /\ b[o] \in Nat
        BY <2>4, <3>5
      <4> QED
        BY <4>1
    <3> QED
      BY <3>4, <3>5
  <2> QED
    BY <1>0, <1>8, <2>4, <2>5, <2>6, <2>7 DEF Borne
<1> QED
  BY <1>7, <1>8

----------------------------------------------------------------------------
(* The cost of the runs, and who bears it.                                  *)

Baked == <<"PRODUCTION", "bread">>
BorneBy(le) == [o \in Orders |-> le[o][Baked]]
BasisOf(lc) == [l \in Lots |-> lc[l].basis]

(* RunCostConserved as an equation of sums.                                 *)
Conserved == Added(BorneBy(ledger), Orders) + Added(BasisOf(lotCost), Lots) = capitalised

LotCosts == [unit : Nat, basis : Nat]

CostInv ==
  /\ ledger \in [Orders -> [CostRows -> Nat]]
  /\ lotCost \in [Lots -> LotCosts]
  /\ \A l \in Lots : lot[l].until = 0 => lotCost[l].basis = 0
  /\ runCost \in [Runs -> RunSnapshots \cup {Unknown}]
  /\ \A r \in Runs : runState[r] = "FREE" <=> runCost[r] = Unknown
  /\ capitalised \in Nat
  /\ Conserved

(* What CostFollowsGoods says of one step.                                  *)
Follows ==
  LET got(o) == completed'[o] - completed[o]
      bears(o) == ledger'[o][Baked] - ledger[o][Baked]
  IN  \A o, u \in Orders : got(o) > got(u) => bears(o) + 1 >= bears(u)

(* Both ways of writing the sum are the same.                               *)
LEMMA ConservedMeans == RunCostConserved <=> Conserved
<1>1. Over(Orders, LAMBDA o : ledger[o][<<"PRODUCTION", "bread">>])
        = Added(BorneBy(ledger), Orders)
  BY ZenonT(60) DEF Over, MapThenSumSet, MapThenFoldSet, Added, Adder, BorneBy, Baked
<1>2. Over(Lots, LAMBDA l : lotCost[l].basis) = Added(BasisOf(lotCost), Lots)
  BY ZenonT(60) DEF Over, MapThenSumSet, MapThenFoldSet, Added, Adder, BasisOf
<1> QED
  BY <1>1, <1>2 DEF RunCostConserved, Conserved

(* Rounding keeps a natural number one.                                     *)
LEMMA RoundDivType == ASSUME NEW a \in Nat, NEW b \in Nat \ {0} PROVE RoundDiv(a, b) \in Nat
<1>1. 0 * b <= a /\ a <= a * b
  <2>1. 1 <= b /\ b \in Int
    OBVIOUS
  <2>2. 1 * a <= b * a
    BY <2>1, ProductOrder
  <2> QED
    BY <2>2
<1> QED
  BY <1>1, RoundDivBetween

(* Sums of what was borne before.                                           *)
LEMMA BorneTypes ==
  ASSUME CostInv
  PROVE  /\ BorneBy(ledger) \in [Orders -> Nat] /\ Integral(BorneBy(ledger), Orders)
         /\ BasisOf(lotCost) \in [Lots -> Nat] /\ Integral(BasisOf(lotCost), Lots)
         /\ Added(BorneBy(ledger), Orders) \in Nat /\ Added(BasisOf(lotCost), Lots) \in Nat
<1>0. Baked \in CostRows
  BY DEF Baked, CostRows
<1>1. BorneBy(ledger) \in [Orders -> Nat]
  BY <1>0 DEF CostInv, BorneBy
<1>2. BasisOf(lotCost) \in [Lots -> Nat]
  BY DEF CostInv, BasisOf, LotCosts
<1>3. Integral(BorneBy(ledger), Orders) /\ Integral(BasisOf(lotCost), Lots)
  BY <1>1, <1>2 DEF Integral
<1>4. Added(BorneBy(ledger), Orders) \in Nat
  BY <1>1, Finiteness, SumNat
<1>5. Added(BasisOf(lotCost), Lots) \in Nat
  BY <1>2, Finiteness, SumNat
<1> QED
  BY <1>1, <1>2, <1>3, <1>4, <1>5

(* A step that moves nothing a cost depends on.                             *)
LEMMA CostsRest ==
  ASSUME ProdInv, CostInv, UNCHANGED costVars, Calm
  PROVE  CostInv' /\ Follows
<1>1. completed' = completed /\ completed \in [Orders -> Nat]
  BY InvTypes DEF Calm
<1>2. \A o, u \in Orders : ~(completed'[o] - completed[o] > completed'[u] - completed[u])
  BY <1>1
<1>3. Follows
  BY <1>2 DEF Follows
<1>4. ledger' = ledger /\ lotCost' = lotCost /\ capitalised' = capitalised /\ runCost' = runCost
  BY DEF costVars
<1>5. Conserved'
  BY <1>4 DEF CostInv, Conserved
<1> QED
  BY <1>3, <1>4, <1>5 DEF CostInv, Calm, SameRuns, SameLots

(* What is left to show after a step that leaves the runs alone.            *)
LEMMA CostsAfter ==
  ASSUME CostInv, SameRuns, runCost' = runCost, ledger' \in [Orders -> [CostRows -> Nat]],
         lotCost' \in [Lots -> LotCosts],
         \A m \in Lots : lot'[m].until = 0 => lotCost'[m].basis = 0,
         capitalised' \in Nat, Conserved'
  PROVE  CostInv'
  BY DEF CostInv, SameRuns

(* The start of a run captures a snapshot.                                  *)
LEMMA StartCosts ==
  ASSUME ProdInv, StockInv, CostInv, NEW r \in Runs, NEW d \in Dates, NEW n \in Batches,
         BookStart(r, d, n)
  PROVE  CostInv' /\ Follows
<1>0. /\ n \in Nat /\ FlourPerBatch \in Nat /\ Minutes \in Nat /\ LaborRate \in Nat
      /\ Unknown \notin RunSnapshots
  BY BooksAssumption
<1>1. /\ completed' = completed /\ lot' = lot /\ runState[r] = "FREE"
      /\ runState' = [runState EXCEPT ![r] = "IN_PRODUCTION"]
  BY BakingCourse DEF BookStart
<1>2. PlannedUnitCost(flour) \in Nat
  <2>1. flour \in FlourRows /\ PlannedUnitCost(flour) # Unknown
    BY DEF StockInv, BookStart
  <2> QED
    BY <2>1 DEF FlourRows, PlannedUnitCost, EffectiveReplacement
<1>3. LaborCost(n, Minutes, LaborRate) \in Nat
  <2>1. Scaled(Minutes, n) * LaborRate \in Nat
    <3>1. PICK k \in Nat : k = Minutes * n
      BY <1>0
    <3> QED
      BY <1>0, <3>1 DEF Scaled
  <2> QED
    BY <2>1, RoundDivType DEF LaborCost
<1>4. FlourOf(n) \in Nat
  BY <1>0 DEF FlourOf, Scaled
<1>5. PICK snap \in RunSnapshots : runCost' = [runCost EXCEPT ![r] = snap]
  <2> DEFINE snap == [batches |-> n, flour |-> FlourOf(n), unit |-> PlannedUnitCost(flour),
                      source |-> IF flour.qty > 0 THEN "WAC" ELSE "FALLBACK",
                      labor |-> LaborCost(n, Minutes, LaborRate)]
  <2>1. snap \in RunSnapshots
    BY <1>0, <1>2, <1>3, <1>4 DEF RunSnapshots
  <2>2. runCost' = [runCost EXCEPT ![r] = snap]
    BY DEF BookStart
  <2> QED
    BY <2>1, <2>2
<1>6. UNCHANGED <<ledger, lotCost, capitalised>>
  BY DEF BookStart
<1>7. Conserved'
  BY <1>6 DEF CostInv, Conserved
<1>8. \A s \in Runs : runState'[s] = "FREE" <=> runCost'[s] = Unknown
  BY <1>0, <1>1, <1>5, InvTypes DEF CostInv, RunTypes
<1>9. runCost' \in [Runs -> RunSnapshots \cup {Unknown}]
  BY <1>5 DEF CostInv
<1>10. Follows
  <2>1. completed \in [Orders -> Nat]
    BY InvTypes
  <2>2. \A o, u \in Orders : ~(completed'[o] - completed[o] > completed'[u] - completed[u])
    BY <1>1, <2>1
  <2> QED
    BY <2>2 DEF Follows
<1> QED
  BY <1>1, <1>6, <1>7, <1>8, <1>9, <1>10 DEF CostInv

(* A lot that comes to the shelf with a basis moves the sum by that basis.   *)
LEMMA NewBasis ==
  ASSUME CostInv, NEW l \in Lots, lot[l].until = 0, NEW new \in LotCosts
  PROVE  LET lc == [lotCost EXCEPT ![l] = new]
         IN  /\ lc \in [Lots -> LotCosts]
             /\ Added(BasisOf(lc), Lots) = Added(BasisOf(lotCost), Lots) + new.basis
<1>1. PICK lc : lc = [lotCost EXCEPT ![l] = new]
  OBVIOUS
<1>2. lc \in [Lots -> LotCosts] /\ lc[l] = new /\ \A m \in Lots \ {l} : lc[m] = lotCost[m]
  BY <1>1 DEF CostInv
<1>3. PICK f, g : f = BasisOf(lotCost) /\ g = BasisOf(lc)
  OBVIOUS
<1>4. /\ Integral(f, Lots)
      /\ Integral(g, Lots)
      /\ \A m \in Lots \ {l} : g[m] = f[m]
      /\ f[l] = 0 /\ g[l] = new.basis /\ new.basis \in Nat
  BY <1>2, <1>3 DEF CostInv, BasisOf, LotCosts, Integral
<1>5. Added(g, Lots) = Added(f, Lots) + (g[l] - f[l])
  BY <1>4, Finiteness, SumPoint
<1>6. Added(f, Lots) \in Int
  BY <1>4, Finiteness, SumType
<1> QED
  BY <1>1, <1>2, <1>3, <1>4, <1>5, <1>6

(* A lot entered by hand takes over the cost of no run.                     *)
LEMMA SurplusCosts ==
  ASSUME ProdInv, CostInv, NEW n \in Outputs, NEW u \in Expiries, NEW c \in EnteredCosts,
         BookSurplus(n, u, c)
  PROVE  CostInv' /\ Follows
<1>0. c \in Nat /\ u \in Nat \ {0} /\ n \in Nat
  BY BooksAssumption, ProductionAssumption
<1>1. completed' = completed /\ SameRuns /\ lot' = Shelved(lot, n, u) /\ HasShelf
  BY BakingCourse DEF BookSurplus
<1>2. PICK l \in Lots : l = NextLot(lot) /\ lot[l] = Unused
  BY <1>1, NextLotFree
<1>3. PICK new \in LotCosts : new = [unit |-> c, basis |-> 0]
  BY <1>0 DEF LotCosts
<1>4. /\ lotCost' = [lotCost EXCEPT ![l] = new]
      /\ UNCHANGED <<ledger, capitalised, runCost>>
  BY <1>2, <1>3 DEF BookSurplus
<1>5. /\ lotCost' \in [Lots -> LotCosts]
      /\ Added(BasisOf(lotCost'), Lots) = Added(BasisOf(lotCost), Lots) + new.basis
  <2>1. PICK lc : lc = [lotCost EXCEPT ![l] = new]
    OBVIOUS
  <2>2. lot[l].until = 0
    BY <1>2 DEF Unused
  <2>3. /\ lc \in [Lots -> LotCosts]
        /\ Added(BasisOf(lc), Lots) = Added(BasisOf(lotCost), Lots) + new.basis
    BY <2>1, <2>2, NewBasis
  <2> QED
    BY <1>4, <2>1, <2>3
<1>6. Conserved'
  <2>1. Added(BasisOf(lotCost'), Lots) = Added(BasisOf(lotCost), Lots)
    BY <1>3, <1>5, BorneTypes
  <2> QED
    BY <1>4, <2>1 DEF CostInv, Conserved
<1>7. \A m \in Lots : lot'[m].until = 0 => lotCost'[m].basis = 0
  BY <1>0, <1>1, <1>2, <1>3, <1>4 DEF CostInv, Shelved
<1>8. Follows
  <2>1. completed \in [Orders -> Nat]
    BY InvTypes
  <2>2. \A o, v \in Orders : ~(completed'[o] - completed[o] > completed'[v] - completed[v])
    BY <1>1, <2>1
  <2> QED
    BY <2>2 DEF Follows
<1> QED
  BY <1>1, <1>4, <1>5, <1>6, <1>7, <1>8 DEF CostInv, SameRuns

(* A run that ends gives its cost to those it served and to the lot of what  *)
(* is left over.                                                            *)
LEMMA FinishCosts ==
  ASSUME ProdInv, CostInv, NEW r \in Runs, NEW out \in Outputs, NEW used,
         used \in Usages \/ used = runCost[r].flour, BookFinish(r, out, used)
  PROVE  CostInv' /\ Follows
<1>0. /\ QuantitiesTyped /\ completed \in [Orders -> Nat] /\ out \in Nat
      /\ today + UsableDays \in Nat \ {0}
      /\ ledger \in [Orders -> [CostRows -> Nat]] /\ Baked \in CostRows
      /\ lotCost \in [Lots -> LotCosts] /\ lot \in Shelves
  <2>1. today \in 1..Horizon /\ Horizon \in Nat /\ UsableDays \in Nat
    BY InvTypes, ProductionAssumption
  <2> QED
    BY <2>1, InvTypes, TypedQuantities, ProductionAssumption DEF ProdInv, CostInv, Baked, CostRows
<1>1. PICK share, cost, c, b :
        /\ share = SharedOut(out) /\ cost = ActualCost(r, used)
        /\ c = Apportioned(cost, Weights(share)) /\ b = Burden(Served(share), c)
  OBVIOUS
<1>2. share \in Shares /\ Handed(share, out)
  <2>1. Shared(SharedOut(out), Supplied) /\ Handed(SharedOut(out), out)
    BY <1>0, SharedOutShares
  <2> QED
    BY <1>1, <2>1 DEF Shared
<1>3. cost \in Nat
  <2>1. runState[r] # "FREE"
    BY DEF BookFinish, Finish
  <2>2. runCost[r] \in RunSnapshots
    BY <2>1 DEF CostInv
  <2>3. used \in Nat
    BY <2>2, BooksAssumption DEF RunSnapshots
  <2>4. PICK k \in Nat, j \in Nat : k = runCost[r].unit /\ j = runCost[r].labor
    BY <2>2 DEF RunSnapshots
  <2>5. used * k + j \in Nat
    BY <2>3
  <2> QED
    BY <1>1, <2>4, <2>5 DEF ActualCost
<1>4. /\ b \in [Orders -> Nat]
      /\ out = 0 => share.left = 0 /\ Added(b, Orders) = 0
      /\ out > 0 /\ share.left = 0 => Added(b, Orders) = Cents(cost)
      /\ share.left > 0 => /\ out > 0 /\ c[Len(c)] \in Nat
                           /\ Added(b, Orders) + c[Len(c)] = Cents(cost)
      /\ \A o, u \in Orders : share.given[o] > share.given[u] => b[o] + 1 >= b[u]
  <2>1. /\ QuantitiesTyped /\ share \in Shares /\ out \in Nat /\ Handed(share, out)
        /\ cost \in Nat /\ c = Apportioned(cost, Weights(share)) /\ b = Burden(Served(share), c)
    BY <1>0, <1>1, <1>2, <1>3
  <2>2. Borne(share, out, cost, c, b)
    BY ONLY <2>1, Burdens
  <2> QED
    BY <2>2 DEF Borne
<1>5. /\ ledger' = [o \in Orders |-> [ledger[o] EXCEPT ![Baked] = @ + b[o]]]
      /\ capitalised' = capitalised + IF out > 0 THEN Cents(cost) ELSE 0
      /\ lotCost' = IF share.left = 0 THEN lotCost
                    ELSE [lotCost EXCEPT ![NextLot(lot)] =
                            [unit |-> RoundDiv(cost, out), basis |-> c[Len(c)]]]
      /\ runCost' = runCost
      /\ Finish(r, out)
  BY <1>1 DEF BookFinish, Baked
<1>6. /\ completed' = [o \in Orders |-> completed[o] + share.given[o]]
      /\ lot' = IF share.left = 0 THEN lot ELSE Shelved(lot, share.left, today + UsableDays)
      /\ share.left > 0 => HasShelf
  BY <1>1, <1>5 DEF Finish, Settle
<1>7. SameRuns
  BY <1>5, BakingCourse
<1>8. share.left \in Nat /\ share.given \in [Orders -> Nat]
  BY <1>2 DEF Shares
<1>9. /\ ledger' \in [Orders -> [CostRows -> Nat]]
      /\ \A o \in Orders : ledger'[o][Baked] = ledger[o][Baked] + b[o]
  BY <1>0, <1>4, <1>5
<1>10. Added(BorneBy(ledger'), Orders) = Added(BorneBy(ledger), Orders) + Added(b, Orders)
  <2>1. PICK f, g : f = BorneBy(ledger) /\ g = BorneBy(ledger')
    OBVIOUS
  <2>2. /\ Integral(f, Orders) /\ Integral(b, Orders)
        /\ \A o \in Orders : g[o] = f[o] + b[o]
    BY <1>4, <1>9, <2>1, BorneTypes DEF BorneBy, Integral
  <2>3. Added(g, Orders) = Added(f, Orders) + Added(b, Orders)
    BY <2>2, Finiteness, SumPlus
  <2> QED
    BY <2>1, <2>3
<1>11. PICK k \in Nat :
         k = Cents(cost) /\ capitalised' = capitalised + IF out > 0 THEN k ELSE 0
  BY <1>3, <1>5, CentsType
<1>c. capitalised \in Nat /\ capitalised' \in Nat
  BY <1>11 DEF CostInv
<1>s. PICK x \in Nat, y \in Nat :
        /\ x = Added(BorneBy(ledger), Orders) /\ y = Added(BasisOf(lotCost), Lots)
        /\ x + y = capitalised
  BY BorneTypes DEF CostInv, Conserved
<1>12. Added(b, Orders) \in Nat
  BY <1>4, Finiteness, SumNat
<1>z. PICK z \in Nat : z = Added(b, Orders)
  BY <1>12
<1>13. ASSUME share.left = 0 PROVE CostInv'
  <2>1. lotCost' = lotCost /\ lot' = lot
    BY <1>5, <1>6, <1>13
  <2>2. z = IF out > 0 THEN k ELSE 0
    BY <1>0, <1>4, <1>11, <1>13, <1>z
  <2>3. x + z + y = capitalised'
    BY <1>11, <1>s, <1>z, <2>2
  <2>4. Conserved'
    BY <1>10, <1>s, <1>z, <2>1, <2>3 DEF Conserved
  <2>5. \A m \in Lots : lot'[m].until = 0 => lotCost'[m].basis = 0
    BY <2>1 DEF CostInv
  <2> QED
    BY <1>0, <1>5, <1>7, <1>9, <1>c, <2>1, <2>4, <2>5, CostsAfter
<1>14. ASSUME share.left > 0 PROVE CostInv'
  <2>1. PICK l \in Lots : l = NextLot(lot) /\ lot[l] = Unused
    BY <1>6, <1>14, NextLotFree
  <2>2. out \in Nat \ {0}
    BY <1>0, <1>4, <1>14
  <2>3. PICK new \in LotCosts : new = [unit |-> RoundDiv(cost, out), basis |-> c[Len(c)]]
    <3>1. RoundDiv(cost, out) \in Nat
      BY <1>3, <2>2, RoundDivType
    <3>2. c[Len(c)] \in Nat
      BY <1>4, <1>14
    <3> QED
      BY <3>1, <3>2 DEF LotCosts
  <2>4. lotCost' = [lotCost EXCEPT ![l] = new]
    BY <1>5, <1>14, <2>1, <2>3
  <2>5. /\ lotCost' \in [Lots -> LotCosts]
        /\ Added(BasisOf(lotCost'), Lots) = Added(BasisOf(lotCost), Lots) + new.basis
    <3>1. PICK lc : lc = [lotCost EXCEPT ![l] = new]
      OBVIOUS
    <3>2. lot[l].until = 0
      BY <2>1 DEF Unused
    <3>3. /\ lc \in [Lots -> LotCosts]
          /\ Added(BasisOf(lc), Lots) = Added(BasisOf(lotCost), Lots) + new.basis
      BY <3>1, <3>2, NewBasis
    <3> QED
      BY <2>4, <3>1, <3>3
  <2>6. \A m \in Lots : lot'[m].until = 0 => lotCost'[m].basis = 0
    <3>1. lot' = Shelved(lot, share.left, today + UsableDays)
      BY <1>6, <1>14
    <3>2. lot'[l].until = today + UsableDays
      BY <1>0, <2>1, <3>1 DEF Shelved, Shelves
    <3>3. \A m \in Lots \ {l} : lot'[m] = lot[m] /\ lotCost'[m] = lotCost[m]
      BY <1>0, <2>1, <2>4, <3>1 DEF Shelved, Shelves
    <3> QED
      BY <1>0, <3>2, <3>3 DEF CostInv
  <2>7. PICK w \in Nat : w = new.basis /\ z + w = k
    BY <1>4, <1>11, <1>14, <1>z, <2>3
  <2>8. capitalised' = capitalised + k
    BY <1>11, <2>2
  <2>9. (x + z) + (y + w) = capitalised'
    BY <1>s, <2>7, <2>8
  <2>10. Conserved'
    BY <1>10, <1>s, <1>z, <2>5, <2>7, <2>9 DEF Conserved
  <2> QED
    BY <1>5, <1>7, <1>9, <1>c, <2>5, <2>6, <2>10, CostsAfter
<1>15. Follows
  <2>1. ASSUME NEW o \in Orders
        PROVE  /\ completed'[o] - completed[o] = share.given[o]
               /\ ledger'[o][Baked] - ledger[o][Baked] = b[o]
    <3>1. completed'[o] = completed[o] + share.given[o]
      BY <1>6
    <3>2. ledger'[o][Baked] = ledger[o][Baked] + b[o]
      BY <1>9
    <3>3. PICK m \in Nat, n \in Nat, p \in Nat, q \in Nat :
            /\ m = completed[o] /\ n = share.given[o] /\ p = ledger[o][Baked] /\ q = b[o]
      BY <1>0, <1>4, <1>8
    <3> QED
      BY <3>1, <3>2, <3>3
  <2> QED
    BY <1>4, <2>1 DEF Follows
<1> QED
  BY <1>8, <1>13, <1>14, <1>15

(* Completion adds rows to the ledger, none of them the cost of a run.       *)
LEMMA CompletionCostType ==
  ASSUME ProdInv, StockInv, CostInv, NEW o \in Orders, Shaped(o, bill[o])
  PROVE  /\ \A k \in CostRows : CompletionCost(o, k) \in Nat
         /\ CompletionCost(o, Baked) = 0
<1>0. /\ alloc \in Allocs /\ lotCost \in [Lots -> LotCosts]
      /\ goods \in GoodsRows /\ goods.wac \in Nat
      /\ bill[o] \in Bills /\ bill[o].lines \in [LineKeys(o) -> BillLines]
  BY InvTypes DEF CostInv, StockInv, Shaped, GoodsRows
<1>1. SurplusCost(o) \in Nat
  <2> DEFINE T == {l \in Lots : alloc[l][o] > 0}
             f == [l \in T |-> Cents(alloc[l][o] * lotCost[l].unit)]
  <2>1. SurplusCost(o) = Added(f, T)
    BY ZenonT(60) DEF SurplusCost, Over, MapThenSumSet, MapThenFoldSet, Added, Adder
  <2>2. IsFiniteSet(T)
    BY Finiteness, FS_Subset
  <2>3. ASSUME NEW l \in T PROVE f[l] \in Nat
    <3>1. PICK a \in Nat, u \in Nat : a = alloc[l][o] /\ u = lotCost[l].unit
      BY <1>0 DEF Allocs, LotCosts
    <3>2. a * u \in Nat
      OBVIOUS
    <3>3. Cents(a * u) \in Nat
      BY <3>2, CentsType
    <3> QED
      BY <3>1, <3>3
  <2> HIDE DEF T, f
  <2>4. Added(f, T) \in Nat
    BY <2>2, <2>3, SumNat
  <2> QED
    BY <2>1, <2>4
<1>2. \A k \in DOMAIN bill[o].lines : PackagingTotal(bill[o].lines[k]) \in Nat
  <2> SUFFICES ASSUME NEW k \in DOMAIN bill[o].lines
               PROVE  PackagingTotal(bill[o].lines[k]) \in Nat
    OBVIOUS
  <2>1. bill[o].lines[k] \in BillLines
    BY <1>0
  <2>2. PICK n \in Nat, p \in Nat :
          n = bill[o].lines[k].packages /\ p = bill[o].lines[k].packaging
    BY <2>1 DEF BillLines
  <2>3. n * p \in Nat
    OBVIOUS
  <2> QED
    BY <2>2, <2>3 DEF PackagingTotal
<1>3. Cents(CupsOf(o) * goods.wac) \in Nat
  <2>1. CupsOf(o) \in Nat
    <3>1. "cups" \in DOMAIN bill[o].lines => bill[o].lines["cups"] \in BillLines
      BY <1>0
    <3> QED
      BY <3>1 DEF CupsOf, BillLines
  <2>2. PICK n \in Nat, p \in Nat : n = CupsOf(o) /\ p = goods.wac
    BY <1>0, <2>1
  <2>3. n * p \in Nat
    OBVIOUS
  <2> QED
    BY <2>2, <2>3, CentsType
<1>4. bill[o].direct = Unknown \/ bill[o].direct \in Nat
  BY <1>0 DEF Bills
<1>5. ASSUME NEW k \in CostRows PROVE CompletionCost(o, k) \in Nat
  <2>1. k[1] \in {"PRODUCTION", "SURPLUS", "PACKAGING", "PURCHASED_GOOD", "CUSTOM_DIRECT"}
    BY DEF CostRows
  <2> QED
    BY <1>1, <1>2, <1>3, <1>4, <2>1 DEF CompletionCost
<1>6. CompletionCost(o, Baked) = 0
  BY DEF CompletionCost, Baked
<1> QED
  BY <1>5, <1>6

(* Completion moves no cost of baking.                                      *)
LEMMA CompleteCosts ==
  ASSUME ProdInv, BillInv, StockInv, CostInv, NEW o \in Orders, BookComplete(o)
  PROVE  CostInv' /\ Follows
<1>1. Calm /\ status[o] = "READY"
  BY OrderCourse DEF BookComplete
<1>2. PICK cc \in [CostRows -> Nat] :
        cc = [k \in CostRows |-> CompletionCost(o, k)] /\ cc[Baked] = 0
  <2>1. Shaped(o, bill[o])
    BY <1>1 DEF BillInv
  <2>2. Baked \in CostRows
    BY DEF Baked, CostRows
  <2>3. /\ \A k \in CostRows : CompletionCost(o, k) \in Nat
        /\ CompletionCost(o, Baked) = 0
    BY <2>1, CompletionCostType
  <2>4. PICK cc : cc = [k \in CostRows |-> CompletionCost(o, k)]
    OBVIOUS
  <2> QED
    BY <2>2, <2>3, <2>4
<1>3. /\ ledger' = [ledger EXCEPT ![o] = [k \in CostRows |-> ledger[o][k] + cc[k]]]
      /\ UNCHANGED <<lotCost, capitalised, runCost>>
  BY <1>2 DEF BookComplete
<1>4. ledger \in [Orders -> [CostRows -> Nat]] /\ Baked \in CostRows
  BY DEF CostInv, Baked, CostRows
<1>5. /\ ledger' \in [Orders -> [CostRows -> Nat]]
      /\ \A u \in Orders : ledger'[u][Baked] = ledger[u][Baked]
  BY <1>2, <1>3, <1>4
<1>6. Conserved'
  <2>1. BorneBy(ledger') = BorneBy(ledger)
    BY <1>5 DEF BorneBy
  <2> QED
    BY <1>3, <2>1 DEF CostInv, Conserved
<1>7. Follows
  <2>1. completed' = completed /\ completed \in [Orders -> Nat]
    BY <1>1, InvTypes DEF Calm
  <2>2. \A u, v \in Orders : ~(completed'[u] - completed[u] > completed'[v] - completed[v])
    BY <2>1
  <2> QED
    BY <2>2 DEF Follows
<1> QED
  BY <1>1, <1>3, <1>5, <1>6, <1>7 DEF CostInv, Calm, SameRuns, SameLots

(* The operations on one Order.                                             *)
LEMMA SellingCosts ==
  ASSUME ProdInv, BillInv, StockInv, CostInv, NEW o \in Orders, Selling(o)
  PROVE  CostInv' /\ Follows
<1>0. UNCHANGED vars => Calm
  BY BakingCourse
<1>1. ASSUME NEW req, NEW c, WriteDraft(o, req, c) PROVE CostInv' /\ Follows
  BY <1>0, <1>1, CostsRest DEF WriteDraft
<1>2. ASSUME NEW n, NEW p, NEW a, NEW r, NEW c, ReviseDraft(o, n, p, a, r, c)
      PROVE  CostInv' /\ Follows
  BY <1>0, <1>2, CostsRest DEF ReviseDraft, Rewrite
<1>3. ASSUME NEW n, NEW p, NEW a, NEW d, NEW c, Revise(o, n, d, p, a, c)
      PROVE  CostInv' /\ Follows
  <2>1. UNCHANGED costVars /\ Calm
    BY <1>3, OrderCourse DEF Revise, Rewrite
  <2> QED
    BY <2>1, CostsRest
<1>4. ASSUME NEW p, NEW a, NEW c, Reprice(o, p, a, c) PROVE CostInv' /\ Follows
  BY <1>0, <1>4, CostsRest DEF Reprice, Rewrite
<1>5. ASSUME NEW a, NEW c, Pay(o, a, c) PROVE CostInv' /\ Follows
  BY <1>0, <1>5, CostsRest DEF Pay
<1>6. ASSUME NEW c, DropDraft(o, c) PROVE CostInv' /\ Follows
  BY <1>0, <1>6, CostsRest DEF DropDraft
<1>7. ASSUME BookConfirm(o) PROVE CostInv' /\ Follows
  <2>1. UNCHANGED costVars /\ Calm
    BY <1>7, OrderCourse DEF BookConfirm
  <2> QED
    BY <2>1, CostsRest
<1>8. ASSUME BookCancel(o) PROVE CostInv' /\ Follows
  <2>1. UNCHANGED costVars /\ Calm
    BY <1>8, OrderCourse DEF BookCancel
  <2> QED
    BY <2>1, CostsRest
<1>9. ASSUME BookComplete(o) PROVE CostInv' /\ Follows
  BY <1>9, CompleteCosts
<1>10. ASSUME BookRest(o) PROVE CostInv' /\ Follows
  <2>1. UNCHANGED costVars /\ Calm
    BY <1>10, OrderCourse DEF BookRest
  <2> QED
    BY <2>1, CostsRest
<1> QED
  BY <1>1, <1>2, <1>3, <1>4, <1>5, <1>6, <1>7, <1>8, <1>9, <1>10 DEF Selling

(* The operations on runs and lots.                                         *)
LEMMA BakingCosts ==
  ASSUME ProdInv, StockInv, CostInv, Baking
  PROVE  CostInv' /\ Follows
<1>1. ASSUME NEW r \in Runs, NEW d \in Dates, NEW n \in Batches, BookStart(r, d, n)
      PROVE  CostInv' /\ Follows
  BY <1>1, StartCosts
<1>2. ASSUME NEW r \in Runs, NEW out \in Outputs,
             NEW used \in Usages \cup {IF runCost[r] = Unknown THEN 0 ELSE runCost[r].flour},
             runState[r] = "IN_PRODUCTION", BookFinish(r, out, used)
      PROVE  CostInv' /\ Follows
  <2>1. runCost[r] # Unknown
    BY <1>2 DEF CostInv
  <2>2. used \in Usages \/ used = runCost[r].flour
    BY <2>1
  <2> QED
    BY <1>2, <2>2, FinishCosts
<1>3. ASSUME NEW r \in Runs, BookCancelRun(r) PROVE CostInv' /\ Follows
  <2>1. UNCHANGED costVars /\ Calm
    BY <1>3, BakingCourse DEF BookCancelRun, bookVars
  <2> QED
    BY <2>1, CostsRest
<1>4. ASSUME NEW n \in Outputs, NEW u \in Expiries, NEW c \in EnteredCosts, BookSurplus(n, u, c)
      PROVE  CostInv' /\ Follows
  BY <1>4, SurplusCosts
<1>5. ASSUME NEW l \in Lots, NEW n \in Outputs, BookReduction(l, n) PROVE CostInv' /\ Follows
  <2>1. UNCHANGED costVars /\ Calm
    BY <1>5, BakingCourse DEF BookReduction
  <2> QED
    BY <2>1, CostsRest
<1> QED
  BY <1>1, <1>2, <1>3, <1>4, <1>5 DEF Baking

(* No step loses or doubles a cost, and none makes more bear less.          *)
LEMMA CostSteps ==
  ASSUME ProdInv, BillInv, StockInv, CostInv, [BooksNext]_booksVars
  PROVE  CostInv' /\ Follows
<1>0. UNCHANGED vars => Calm
  BY BakingCourse
<1>1. CASE Stocking
  <2>1. UNCHANGED costVars /\ UNCHANGED vars
    BY <1>1 DEF Stocking, BeginStock, CommitStock, OpenBalance, RestockGoods, AdjustGoods
  <2> QED
    BY <1>0, <2>1, CostsRest
<1>2. ASSUME NEW option \in Catalogues, ChangeCatalogue(option) PROVE CostInv' /\ Follows
  BY <1>0, <1>2, CostsRest DEF ChangeCatalogue
<1>3. CASE BookDay
  <2>1. UNCHANGED costVars /\ Calm
    BY <1>3, BakingCourse DEF BookDay
  <2> QED
    BY <2>1, CostsRest
<1>4. CASE UNCHANGED booksVars
  BY <1>0, <1>4, CostsRest DEF booksVars, bookVars
<1> QED
  BY <1>1, <1>2, <1>3, <1>4, SellingCosts, BakingCosts DEF BooksNext

(* The books open without costs.                                            *)
LEMMA CostsOpen == BooksInit => CostInv
<1> SUFFICES ASSUME BooksInit PROVE CostInv
  OBVIOUS
<1>1. /\ ledger = [o \in Orders |-> [k \in CostRows |-> 0]]
      /\ lotCost = [l \in Lots |-> NoCost]
      /\ capitalised = 0
      /\ runCost = [r \in Runs |-> Unknown]
      /\ runState = [r \in Runs |-> "FREE"]
  BY DEF BooksInit, Init
<1>2. /\ ledger \in [Orders -> [CostRows -> Nat]]
      /\ lotCost \in [Lots -> LotCosts] /\ \A l \in Lots : lotCost[l].basis = 0
      /\ Baked \in CostRows
  BY <1>1 DEF NoCost, LotCosts, Baked, CostRows
<1>3. PICK f, g : f = BorneBy(ledger) /\ g = BasisOf(lotCost)
  OBVIOUS
<1>4. /\ Integral(f, Orders) /\ Masks(f, f, {}, Orders) /\ {} \in SUBSET Orders
      /\ Integral(g, Lots) /\ Masks(g, g, {}, Lots) /\ {} \in SUBSET Lots
  BY <1>1, <1>2, <1>3 DEF BorneBy, BasisOf, Integral, Masks
<1>5. Added(f, Orders) = 0 /\ Added(g, Lots) = 0
  <2>1. Added(f, Orders) = Added(f, {}) /\ Added(g, Lots) = Added(g, {})
    <3>1. Added(f, Orders) = Added(f, {})
      BY <1>4, Finiteness, SumPart
    <3>2. Added(g, Lots) = Added(g, {})
      BY <1>4, Finiteness, SumPart
    <3> QED
      BY <3>1, <3>2
  <2> QED
    BY <2>1, SumEmpty
<1>6. Conserved
  BY <1>1, <1>3, <1>5 DEF Conserved
<1> QED
  BY <1>1, <1>2, <1>6 DEF CostInv

----------------------------------------------------------------------------
(* The invariants together.                                                 *)

BooksInv == BillInv /\ StockInv /\ ProdInv /\ FlowInv /\ CostInv

(* All of it holds throughout.                                              *)
LEMMA BooksInvHolds == BooksSpec => []BooksInv
<1>1. BooksInit => BooksInv
  BY BillsOpen, StockOpens, FlowOpens, CostsOpen DEF BooksInv
<1>2. BooksInv /\ [BooksNext]_booksVars => BooksInv'
  BY BillSteps, BillInvKept, StockInvKept, FlowSteps, CostSteps DEF BooksInv
<1> QED
  BY <1>1, <1>2, PTL DEF BooksSpec

(* The books have their types: a bill has the lines of its Order and can be  *)
(* charged, what is charged for after confirmation is what Production makes, *)
(* only an Order that ended has a day of its end, and every run that left    *)
(* the planning stage has its snapshot of costs.                            *)
THEOREM BooksTypeCorrect == BooksSpec => []BooksTypeOK
<1>1. ASSUME BooksInv PROVE BooksTypeOK
  <2>1. BillInv /\ StockInv /\ ProdInv /\ FlowInv /\ CostInv /\ Unknown \notin Bills
    BY <1>1, BooksAssumption DEF BooksInv
  <2>2. ASSUME NEW o \in Orders, bill[o] # Unknown
        PROVE  DOMAIN bill[o].lines = LineKeys(o) /\ Chargeable(bill[o])
    <3>1. Shaped(o, bill[o])
      BY <2>1, <2>2 DEF BillInv
    <3> QED
      BY <3>1 DEF Shaped
  <2>3. ASSUME NEW o \in Orders, bill[o] = Unknown PROVE paid[o] = 0 /\ status[o] = "DRAFT"
    BY <2>1, <2>3 DEF BillInv, Shaped
  <2>4. /\ flour.qty \in Int /\ flour.wac \in Nat
        /\ goods.qty \in Nat /\ goods.wac \in Nat
    BY <2>1 DEF StockInv, FlourRows, GoodsRows
  <2>5. \A l \in Lots : lotCost[l].unit \in Nat /\ lotCost[l].basis \in Nat
    BY <2>1 DEF CostInv, LotCosts
  <2>6. /\ \A o \in Orders, k \in CostRows : ledger[o][k] \in Nat
        /\ \A r \in Runs : runState[r] # "FREE" <=> runCost[r] # Unknown
    BY <2>1 DEF CostInv
  <2>7. \A o \in Orders : status[o] # "DRAFT" => bill[o].lines["bread"].units = qty[o]
    BY <2>1 DEF FlowInv
  <2>8. \A o \in Orders : closedOn[o] > 0 <=> status[o] \in {"COMPLETED", "CANCELED"}
    BY <2>1 DEF FlowInv, Ended
  <2>9. catalogue \in Catalogues
    BY <2>1 DEF BillInv
  <2> QED
    BY <2>2, <2>3, <2>4, <2>5, <2>6, <2>7, <2>8, <2>9 DEF BooksTypeOK
<1> QED
  BY <1>1, BooksInvHolds, PTL

(* Every cent of the runs that produced something is borne once: the two     *)
(* roundings of Apportioned hand out exactly the cents of the run, to the    *)
(* Orders it served and the lot of what is left, and no other workflow moves *)
(* what they bear.                                                          *)
THEOREM RunCostIsConserved == BooksSpec => []RunCostConserved
<1>1. BooksInv => RunCostConserved
  BY ConservedMeans DEF BooksInv, CostInv
<1> QED
  BY <1>1, BooksInvHolds, PTL

(* Who gets more of a run bears more of its cost, but for a cent, however    *)
(* the two roundings of Apportioned fall.                                   *)
THEOREM CostsFollowGoods == BooksSpec => CostFollowsGoods
<1>1. BooksInv /\ [BooksNext]_booksVars => [Follows]_booksVars
  BY CostSteps DEF BooksInv
<1>2. CostFollowsGoods <=> [][Follows]_booksVars
  BY DEF CostFollowsGoods, Follows, Baked
<1> HIDE DEF Follows
<1> QED
  BY <1>1, <1>2, BooksInvHolds, PTL DEF BooksSpec


----------------------------------------------------------------------------
(* Flour: what the requirements reserve, and what is missing.               *)

Through(day) == {d \in Dates : d <= day}
InProduction(day) == {r \in Runs : runState[r] = "IN_PRODUCTION" /\ runDate[r] <= day}

(* What is reserved through a day is a sum over the dates until then.       *)
LEMMA ReservedIs ==
  ASSUME NEW day
  PROVE  ReservedThrough(Stream, day) = Added(Stream, Through(day))
<1>1. {d \in DOMAIN Stream : d <= day} = Through(day)
  BY DEF Stream, Through
<1>2. ReservedThrough(Stream, day) = MapThenSumSet(LAMBDA d : Stream[d], Through(day))
  BY <1>1 DEF ReservedThrough
<1> QED
  BY <1>2, SumIsAdded

(* A demand takes at least one batch.                                       *)
LEMMA BatchesNeeded ==
  ASSUME NEW n \in Nat
  PROVE  WholeBatches(n, Yield) \in Nat /\ (n > 0 => WholeBatches(n, Yield) > 0)
<1> DEFINE q == (n + Yield - 1) \div Yield
<1>1. Yield \in Nat \ {0}
  BY ReportsAssumption
<1>2. q \in Int /\ q * Yield <= n + Yield - 1 /\ n + Yield - 1 < q * Yield + Yield
  <2>1. n + Yield - 1 \in Int
    BY <1>1
  <2> QED
    BY <1>1, <2>1, QuotientBounds
<1> HIDE DEF q
<1>3. CASE q <= -1
  <2>1. q * Yield <= (-1) * Yield
    BY <1>1, <1>2, <1>3, ProductOrder
  <2>2. (-1) * Yield = -Yield /\ q * Yield \in Int
    BY <1>1, <1>2
  <2> QED
    BY <1>1, <1>2, <2>1, <2>2
<1>4. CASE q = 0
  BY <1>1, <1>2, <1>4 DEF WholeBatches, q
<1>5. CASE q > 0
  BY <1>2, <1>5 DEF WholeBatches, q
<1> QED
  BY <1>2, <1>3, <1>4, <1>5

(* Every date reserves something, or nothing.                               *)
LEMMA StreamType ==
  ASSUME ProductionTypeOK
  PROVE  /\ Stream \in [Dates -> Nat]
         /\ \A d \in Dates : planned[d] > 0 => Stream[d] > 0
<1>1. ASSUME NEW d \in Dates
      PROVE  Stream[d] \in Nat /\ (planned[d] > 0 => Stream[d] > 0)
  <2>1. planned[d] \in Nat
    BY DEF ProductionTypeOK
  <2>2. PICK b \in Nat : b = WholeBatches(planned[d], Yield) /\ (planned[d] > 0 => b > 0)
    BY <2>1, BatchesNeeded
  <2>3. Stream[d] = FlourPerBatch * b /\ FlourPerBatch \in Nat \ {0}
    BY <2>2, ReportsAssumption DEF Stream, Reserved, FlourOf, Scaled
  <2>4. b > 0 => FlourPerBatch * b >= FlourPerBatch * 1
    BY <2>3
  <2> QED
    BY <2>2, <2>3, <2>4
<1>2. Stream = [d \in Dates |-> Stream[d]]
  BY DEF Stream
<1> QED
  BY <1>1, <1>2

(* The later the day, the more is reserved, each date's share included.     *)
LEMMA ReservedGrows ==
  ASSUME ProductionTypeOK, NEW d \in Nat, NEW e \in Nat, d <= e
  PROVE  /\ Added(Stream, Through(d)) \in Nat /\ Added(Stream, Through(e)) \in Nat
         /\ Added(Stream, Through(d)) <= Added(Stream, Through(e))
         /\ d \in Dates => Stream[d] <= Added(Stream, Through(d))
<1> DEFINE S == Through(d)
           T == Through(e)
           h == [x \in T |-> IF x \in S THEN Stream[x] ELSE 0]
<1>0. Dates \subseteq Nat
  BY ProductionAssumption
<1>1. S \in SUBSET T /\ IsFiniteSet(S) /\ IsFiniteSet(T)
  <2>0. \A x \in Dates : x \in Nat /\ (x <= d => x <= e)
    BY <1>0
  <2>1. S \subseteq T /\ S \in SUBSET Nat /\ T \in SUBSET Nat
    BY <2>0 DEF Through
  <2>2. (\A s \in S : s <= d) /\ (\A s \in T : s <= e)
    BY DEF Through
  <2> HIDE DEF S, T
  <2> QED
    BY <2>1, <2>2, FS_BoundedSetOfNaturals
<1>2. /\ \A x \in T : Stream[x] \in Nat
      /\ Integral(Stream, S) /\ Integral(Stream, T)
  BY StreamType DEF Integral, Through
<1>3. Integral(h, T) /\ Masks(h, Stream, S, T) /\ \A x \in T : h[x] <= Stream[x]
  BY <1>2 DEF Integral, Masks
<1>4. d \in Dates => d \in S
  BY DEF Through
<1> HIDE DEF S, T, h
<1>5. Added(h, T) = Added(Stream, S)
  BY <1>1, <1>2, <1>3, SumPart
<1>6. Added(h, T) <= Added(Stream, T)
  BY <1>1, <1>2, <1>3, SumOrder
<1>7. Added(Stream, S) \in Nat /\ Added(Stream, T) \in Nat
  BY <1>1, <1>2, SumNat
<1>8. ASSUME d \in S PROVE Stream[d] <= Added(Stream, S)
  <2>1. Added(Stream, S) = Stream[d] + Added(Stream, S \ {d})
    BY <1>1, <1>2, <1>8, SumPick
  <2>2. IsFiniteSet(S \ {d}) /\ \A x \in S \ {d} : Stream[x] \in Nat
    BY <1>1, <1>2, FS_Subset
  <2>3. Added(Stream, S \ {d}) \in Nat /\ Stream[d] \in Nat
    BY <1>1, <1>2, <1>8, <2>2, SumNat
  <2> QED
    BY <2>1, <2>3
<1> QED
  BY <1>4, <1>5, <1>6, <1>7, <1>8 DEF S, T

(* The shortage through a day, in sums.                                     *)
LEMMA ShortageIs ==
  ASSUME NEW stock \in Int, NEW day
  PROVE  LET r == Added(Stream, Through(day))
         IN  ShortageThrough(Stream, stock, day) = IF r > stock THEN r - stock ELSE 0
  BY ReservedIs DEF ShortageThrough

(* What the alerts and the shopping list say of one state.                  *)
LEMMA ShortageIsTold ==
  ASSUME ProductionTypeOK, flour.qty \in Int
  PROVE  AlertsFollowInsight
<1> DEFINE far == today + ShoppingDays
           asked == ShoppingList[far]
           R(day) == Added(Stream, Through(day))
<1>1. today \in Nat /\ far \in Nat /\ today <= far
  BY ReportsAssumption, ProductionAssumption DEF ProductionTypeOK
<1>2. \A day \in Nat : ShortOn(day) = IF R(day) > flour.qty THEN R(day) - flour.qty ELSE 0
  BY ShortageIs DEF ShortOn
<1>3. \A day \in Nat : R(day) \in Nat
  BY ReservedGrows
<1>4. Listed <=> R(far) > 0
  BY ReservedIs DEF Listed
<1>5. \A day \in today..far : ShoppingList[day] = IF Listed THEN ShortOn(day) ELSE 0
  BY DEF ShoppingList
<1>6. asked = IF Listed THEN ShortOn(far) ELSE 0
  BY <1>1, <1>5
<1> SUFFICES ASSUME NEW d \in OpenRequirements, d <= far
             PROVE  /\ Insight(d) > 0 =>
                         <<"INGREDIENT_SHORTAGE", "flour">> \in Alerts /\ NeededBy # {}
                    /\ ShortageThrough(Stream, flour.qty + asked, d) = 0
  BY DEF AlertsFollowInsight
<1>7. d \in Dates /\ d \in Nat /\ planned[d] > 0
  BY ProductionAssumption DEF OpenRequirements
<1>8. 0 < R(d) /\ R(d) <= R(far)
  <2>1. R(d) <= R(far) /\ Stream[d] <= R(d)
    BY <1>1, <1>7, ReservedGrows
  <2>2. Stream[d] > 0 /\ Stream[d] \in Nat
    BY <1>7, StreamType
  <2> QED
    BY <1>3, <1>7, <2>1, <2>2
<1>9. Listed /\ asked = ShortOn(far)
  BY <1>1, <1>3, <1>4, <1>6, <1>7, <1>8
<1>10. asked = (IF R(far) > flour.qty THEN R(far) - flour.qty ELSE 0)
  BY <1>1, <1>2, <1>9
<1>11. ASSUME Insight(d) > 0
       PROVE  <<"INGREDIENT_SHORTAGE", "flour">> \in Alerts /\ NeededBy # {}
  <2>1. R(d) > flour.qty
    BY <1>2, <1>3, <1>7, <1>11 DEF Insight
  <2>2. asked > 0
    BY <1>1, <1>3, <1>7, <1>8, <1>10, <2>1
  <2>3. <<"INGREDIENT_SHORTAGE", "flour">> \in Alerts
    BY <2>2 DEF Alerts, StockAlerts
  <2>4. DOMAIN ShoppingList = today..far /\ far \in today..far
    BY <1>1 DEF ShoppingList
  <2> DEFINE D == {day \in today..far : ShoppingList[day] > 0}
  <2>5. D \subseteq Nat /\ far \in D
    BY <1>1, <2>2, <2>4
  <2>6. PICK first \in D : \A m \in D : first <= m
    <3> HIDE DEF D
    <3> QED
      BY <2>5, LeastExists
  <2>7. ASSUME NEW e \in today..(first - 1) PROVE ShoppingList[e] = 0
    <3>1. e \in today..far /\ e \notin D
      BY <1>1, <2>6, <2>7
    <3>2. ShoppingList[e] \in Nat
      <4>1. e \in Nat
        BY <1>1, <3>1
      <4> QED
        BY <1>2, <1>3, <1>5, <3>1, <4>1
    <3> QED
      BY <3>1, <3>2
  <2>8. first \in NeededBy
    BY <2>4, <2>6, <2>7 DEF NeededBy
  <2> QED
    BY <2>3, <2>8
<1>12. ShortageThrough(Stream, flour.qty + asked, d) = 0
  <2>1. flour.qty + asked \in Int /\ R(d) <= flour.qty + asked
    BY <1>1, <1>3, <1>7, <1>8, <1>10
  <2>2. ShortageThrough(Stream, flour.qty + asked, d)
          = IF R(d) > flour.qty + asked THEN R(d) - (flour.qty + asked) ELSE 0
    BY <2>1, ShortageIs
  <2> QED
    BY <1>3, <1>7, <2>1, <2>2
<1> QED
  BY <1>11, <1>12

(* Every dashboard tells the shortage an insight shows, for any horizon and  *)
(* any dates: the cumulative shortage of a day is never hidden by the sums   *)
(* of the days around it, and buying what the shopping list asks for ends it. *)
THEOREM ShortagesAreTold == BooksSpec => []AlertsFollowInsight
<1>1. BooksInv => AlertsFollowInsight
  <2>1. BooksInv => ProductionTypeOK
    BY DEF BooksInv, ProdInv, Types
  <2>2. BooksInv => flour.qty \in Int
    BY DEF BooksInv, StockInv, FlourRows
  <2> QED
    BY <2>1, <2>2, ShortageIsTold
<1> QED
  BY <1>1, BooksInvHolds, PTL

(* The flour of a run is that of its batches.                               *)
Measured == \A r \in Runs : runCost[r] # Unknown => runCost[r].flour = FlourOf(runCost[r].batches)

LEMMA RunsMeasured == BooksSpec => []Measured
<1>1. BooksInit => Measured
  BY DEF BooksInit, Measured
<1>2. BooksInv /\ Measured /\ [BooksNext]_booksVars => Measured'
  <2> SUFFICES ASSUME BooksInv, Measured, [BooksNext]_booksVars PROVE Measured'
    OBVIOUS
  <2>0. runCost' = runCost => Measured'
    BY DEF Measured
  <2>1. ASSUME NEW o \in Orders, Selling(o) PROVE Measured'
    <3>1. \A new, c : Rewrite(o, new, c) => runCost' = runCost
      BY DEF Rewrite, costVars
    <3>2. \A req, c : WriteDraft(o, req, c) => runCost' = runCost
      BY DEF WriteDraft, costVars
    <3>3. \A n, p, a, rep, c : ReviseDraft(o, n, p, a, rep, c) => runCost' = runCost
      BY <3>1 DEF ReviseDraft
    <3>4. /\ \A n, d, p, a, c : Revise(o, n, d, p, a, c) => runCost' = runCost
          /\ \A p, a, c : Reprice(o, p, a, c) => runCost' = runCost
      BY <3>1 DEF Revise, Reprice
    <3>5. /\ \A a, c : Pay(o, a, c) => runCost' = runCost
          /\ \A c : DropDraft(o, c) => runCost' = runCost
      BY DEF Pay, DropDraft, costVars
    <3>6. BookConfirm(o) \/ BookCancel(o) \/ BookComplete(o) \/ BookRest(o) => runCost' = runCost
      BY DEF BookConfirm, BookCancel, BookComplete, BookRest, costVars
    <3> QED
      BY <2>0, <2>1, <3>2, <3>3, <3>4, <3>5, <3>6 DEF Selling
  <2>2. CASE Stocking
    BY <2>0, <2>2 DEF Stocking, BeginStock, CommitStock, OpenBalance, RestockGoods, AdjustGoods,
                      costVars
  <2>3. ASSUME NEW r \in Runs, NEW d \in Dates, NEW n \in Batches, BookStart(r, d, n)
        PROVE  Measured'
    <3>1. runCost \in [Runs -> RunSnapshots \cup {Unknown}]
      BY DEF BooksInv, CostInv
    <3> DEFINE snap ==
          [batches |-> n, flour |-> FlourOf(n), unit |-> PlannedUnitCost(flour),
           source |-> IF flour.qty > 0 THEN "WAC" ELSE "FALLBACK",
           labor |-> LaborCost(n, Minutes, LaborRate)]
    <3>2. runCost' = [runCost EXCEPT ![r] = snap] /\ snap.flour = FlourOf(snap.batches)
      BY <2>3 DEF BookStart
    <3> HIDE DEF snap
    <3> QED
      BY <3>1, <3>2 DEF Measured
  <2>4. ASSUME NEW r, NEW out, NEW used, BookFinish(r, out, used) PROVE Measured'
    BY <2>0, <2>4 DEF BookFinish
  <2>5. ASSUME NEW r, BookCancelRun(r) PROVE Measured'
    BY <2>0, <2>5 DEF BookCancelRun, bookVars, costVars
  <2>6. ASSUME NEW n, NEW u, NEW c, BookSurplus(n, u, c) PROVE Measured'
    BY <2>0, <2>6 DEF BookSurplus
  <2>7. ASSUME NEW l, NEW n, BookReduction(l, n) PROVE Measured'
    BY <2>0, <2>7 DEF BookReduction, costVars
  <2>8. ASSUME NEW option, ChangeCatalogue(option) PROVE Measured'
    BY <2>0, <2>8 DEF ChangeCatalogue, costVars
  <2>9. CASE BookDay
    BY <2>0, <2>9 DEF BookDay, costVars
  <2>10. CASE UNCHANGED booksVars
    BY <2>0, <2>10 DEF booksVars, bookVars, costVars
  <2>11. CASE Baking
    BY <2>11, <2>3, <2>4, <2>5, <2>6, <2>7 DEF Baking
  <2> QED
    BY <2>1, <2>2, <2>8, <2>9, <2>10, <2>11 DEF BooksNext
<1> QED
  BY <1>1, <1>2, BooksInvHolds, PTL DEF BooksSpec

(* The flour of runs started with no more batches than their dates call for  *)
(* is what those dates reserve, at most: no two runs are for one date.       *)
LEMMA RunsReserve ==
  ASSUME ProductionTypeOK, RunsApart, Measured, NEW day \in Dates,
         \A r \in Runs : runState[r] = "IN_PRODUCTION" => runCost[r] \in RunSnapshots,
         \A r \in InProduction(day) :
           runCost[r].batches <= WholeBatches(planned[runDate[r]], Yield),
         Unknown \notin RunSnapshots
  PROVE  LET bound == Over(InProduction(day), LAMBDA r : runCost[r].flour)
         IN  bound \in Nat /\ bound <= Added(Stream, Through(day))
<1> DEFINE S == InProduction(day)
           K == Through(day)
           g == [r \in S |-> runCost[r].flour]
           kind == [r \in S |-> runDate[r]]
           h == [d \in K |-> Added(g, Class(S, kind, d))]
<1>0. Dates \subseteq Nat
  BY ProductionAssumption
<1>1. IsFiniteSet(K)
  <2>1. K \in SUBSET Nat /\ (\A s \in K : s <= day) /\ day \in Nat
    BY <1>0 DEF Through
  <2> HIDE DEF K
  <2> QED
    BY <2>1, FS_BoundedSetOfNaturals
<1>2. (\A r \in S : r \in Runs /\ runState[r] = "IN_PRODUCTION" /\ kind[r] \in K) /\ S \subseteq Runs
  BY DEF RunsApart, InProduction, Through
<1>3. \A r, s \in S : kind[r] = kind[s] => r = s
  BY <1>2 DEF RunsApart
<1>4. IsFiniteSet(S)
  <2>1. kind \in Injection(S, K)
    <3>1. kind \in [S -> K] /\ DOMAIN kind = S
      BY <1>2
    <3> HIDE DEF S, K, kind
    <3> QED
      BY <1>3, <3>1 DEF Injection, IsInjective
  <2> HIDE DEF S, K, kind
  <2> QED
    BY <1>1, <2>1, FS_Injection
<1>5. ASSUME NEW r \in S PROVE g[r] \in Nat /\ g[r] <= Stream[kind[r]]
  <2>1. runCost[r] \in RunSnapshots /\ runCost[r] # Unknown
    BY <1>2
  <2>2. PICK b \in Nat : b = runCost[r].batches /\ g[r] = FlourPerBatch * b
    BY <1>2, <2>1 DEF Measured, RunSnapshots, FlourOf, Scaled
  <2>3. kind[r] \in Dates /\ kind[r] = runDate[r]
    BY <1>2 DEF Through
  <2>4. PICK w \in Nat : w = WholeBatches(planned[kind[r]], Yield)
    BY <2>3, BatchesNeeded DEF ProductionTypeOK
  <2>5. Stream[kind[r]] = FlourPerBatch * w /\ b <= w /\ FlourPerBatch \in Nat
    BY <2>2, <2>3, <2>4, ReportsAssumption DEF Stream, Reserved, FlourOf, Scaled
  <2>6. b * FlourPerBatch <= w * FlourPerBatch
    BY <2>2, <2>4, <2>5, ProductOrder
  <2> HIDE DEF g, kind, S, K
  <2> QED
    BY <2>2, <2>4, <2>5, <2>6
<1>6. Integral(g, S)
  BY <1>5 DEF Integral
<1>7. ASSUME NEW d \in K PROVE h[d] \in Nat /\ h[d] <= Stream[d]
  <2> DEFINE C == Class(S, kind, d)
  <2>1. h[d] = Added(g, C) /\ C \subseteq S
    BY DEF Class
  <2>2. Stream[d] \in Nat
    BY StreamType DEF Through
  <2>3. CASE C = {}
    <3>1. Added(g, {}) = 0
      BY SumEmpty
    <3> HIDE DEF C, S, K, g, kind, h
    <3> QED
      BY <2>1, <2>2, <2>3, <3>1
  <2>4. CASE C # {}
    <3>1. PICK r \in C : TRUE
      BY <2>4
    <3>2. r \in S /\ kind[r] = d
      BY <3>1 DEF Class
    <3>3. C = {r}
      BY <1>3, <3>1, <3>2 DEF Class
    <3> HIDE DEF C, S, K, g, kind, h
    <3>4. Integral(g, C) /\ IsFiniteSet(C) /\ C \ {r} = {}
      BY <1>6, <3>2, <3>3, FS_Singleton DEF Integral
    <3>5. Added(g, C) = g[r] + Added(g, {}) /\ Added(g, {}) = 0
      BY <3>1, <3>4, SumPick, SumEmpty
    <3> QED
      BY <1>5, <2>1, <3>2, <3>5
  <2> QED
    BY <2>3, <2>4
<1>8. Over(S, LAMBDA r : runCost[r].flour) = Added(g, S)
  BY ZenonT(60) DEF Over, MapThenSumSet, MapThenFoldSet, Added, Adder
<1>9. Integral(h, K) /\ Integral(Stream, K) /\ \A d \in K : h[d] <= Stream[d]
  BY <1>7, StreamType DEF Integral, Through
<1>10. \A d \in K : h[d] = Added(g, Class(S, kind, d))
  OBVIOUS
<1>11. \A r \in S : kind[r] \in K
  BY <1>2
<1> HIDE DEF S, K, g, kind, h
<1>12. Added(h, K) = Added(g, S)
  BY <1>1, <1>4, <1>6, <1>10, <1>11, SumClasses
<1>13. Added(h, K) <= Added(Stream, K)
  BY <1>1, <1>9, SumOrder
<1>14. Added(g, S) \in Nat
  BY <1>4, <1>5, SumNat
<1> QED
  BY <1>8, <1>12, <1>13, <1>14 DEF S, K

(* When no shortage is shown through a day, and no run was started with more *)
(* batches than its demand calls for, the flour of the runs for the dates     *)
(* until then is there, however many they are and whenever they started.     *)
THEOREM PlansAreStocked == BooksSpec => []PlannedRunIsStocked
<1>1. ASSUME BooksInv, Measured PROVE PlannedRunIsStocked
  <2>1. ProductionTypeOK /\ RunsApart /\ flour.qty \in Int
    BY <1>1 DEF BooksInv, ProdInv, Types, StockInv, FlourRows
  <2>2. \A r \in Runs : runState[r] = "IN_PRODUCTION" => runCost[r] \in RunSnapshots
    BY <1>1 DEF BooksInv, CostInv
  <2>3. Unknown \notin RunSnapshots
    BY BooksAssumption
  <2> SUFFICES ASSUME NEW day \in Dates, ShortOn(day) = 0,
                      \A r \in InProduction(day) :
                        runCost[r].batches <= WholeBatches(planned[runDate[r]], Yield)
               PROVE  flour.qty >= Over(InProduction(day), LAMBDA r : runCost[r].flour)
    BY DEF PlannedRunIsStocked, InProduction
  <2>4. PICK bound \in Nat : /\ bound = Over(InProduction(day), LAMBDA r : runCost[r].flour)
                              /\ bound <= Added(Stream, Through(day))
    BY <1>1, <2>1, <2>2, <2>3, RunsReserve
  <2>5. day \in Nat
    BY ProductionAssumption
  <2>6. Added(Stream, Through(day)) \in Nat
    BY <2>1, <2>5, ReservedGrows
  <2>7. Added(Stream, Through(day)) <= flour.qty
    BY <2>1, <2>6, ShortageIs DEF ShortOn
  <2> QED
    BY <2>1, <2>4, <2>6, <2>7
<1> QED
  BY <1>1, BooksInvHolds, RunsMeasured, PTL

----------------------------------------------------------------------------
(* The rows of an Order that ended stay as they are.                        *)

Stands(o) ==
  /\ status'[o] = status[o] /\ closedOn'[o] = closedOn[o]
  /\ bill'[o] = bill[o] /\ ledger'[o] = ledger[o]

(* And whoever ends now, ends today.                                        *)
EndsStand ==
  \A o \in Orders :
    /\ status[o] \in Ended => Stands(o)
    /\ status[o] \notin Ended /\ status'[o] \in Ended => closedOn'[o] = today

(* Steps that end no Order.                                                 *)
LEMMA StandsKept ==
  ASSUME Course(status), closedOn' = closedOn,
         \A o \in Orders : status[o] \in Ended => bill'[o] = bill[o] /\ ledger'[o] = ledger[o]
  PROVE  EndsStand
  BY DEF EndsStand, Stands, Course

(* Steps that end one.                                                      *)
LEMMA StandsEnding ==
  ASSUME BooksInv, NEW o \in Orders, NEW s, Course([status EXCEPT ![o] = s]),
         ClosedNow(o), status[o] \notin Ended, bill' = bill,
         \A u \in Orders \ {o} : ledger'[u] = ledger[u]
  PROVE  EndsStand
<1>1. PICK st : st = [status EXCEPT ![o] = s]
  OBVIOUS
<1>2. status \in [Orders -> Statuses] /\ closedOn = [u \in Orders |-> closedOn[u]]
  BY InvTypes DEF BooksInv, FlowInv
<1>3. \A u \in Orders \ {o} : st[u] = status[u]
  BY <1>1, <1>2
<1>4. closedOn'[o] = today /\ \A u \in Orders \ {o} : closedOn'[u] = closedOn[u]
  BY <1>2 DEF ClosedNow
<1>5. Course(st)
  BY <1>1
<1> QED
  BY <1>3, <1>4, <1>5 DEF EndsStand, Stands, Course

(* The operations on an Order: none writes the bill or the ledger of one     *)
(* that ended, payments stand apart.                                        *)
LEMMA SellingStands ==
  ASSUME BooksInv, NEW o \in Orders, Selling(o)
  PROVE  EndsStand
<1>0. /\ ProdInv /\ status \in [Orders -> Statuses]
      /\ bill = [u \in Orders |-> bill[u]]
      /\ ledger \in [Orders -> [CostRows -> Nat]]
  BY InvTypes DEF BooksInv, BillInv, CostInv
<1>1. UNCHANGED vars => Course(status)
  BY <1>0, BakingCourse
<1>2. ASSUME NEW req, NEW c, WriteDraft(o, req, c) PROVE EndsStand
  <2>1. PICK b : bill' = [bill EXCEPT ![o] = b]
    BY <1>2 DEF WriteDraft
  <2> QED
    BY <1>0, <1>1, <1>2, <2>1, StandsKept DEF WriteDraft, costVars, Ended
<1>3. ASSUME NEW n, NEW p, NEW a, NEW r, NEW c, ReviseDraft(o, n, p, a, r, c) PROVE EndsStand
  <2>1. PICK b : bill' = [bill EXCEPT ![o] = b]
    BY <1>3 DEF ReviseDraft, Rewrite
  <2> QED
    BY <1>0, <1>1, <1>3, <2>1, StandsKept DEF ReviseDraft, Rewrite, costVars, Ended
<1>4. ASSUME NEW n, NEW p, NEW a, NEW d, NEW c, Revise(o, n, d, p, a, c) PROVE EndsStand
  <2>1. PICK b : bill' = [bill EXCEPT ![o] = b]
    BY <1>4 DEF Revise, Rewrite
  <2>2. Course(status) /\ status[o] = "CONFIRMED"
    BY <1>0, <1>4, OrderCourse DEF Revise
  <2>3. closedOn' = closedOn /\ ledger' = ledger
    BY <1>4 DEF Revise, Rewrite, costVars
  <2> QED
    BY <1>0, <2>1, <2>2, <2>3, StandsKept DEF Ended
<1>5. ASSUME NEW p, NEW a, NEW c, Reprice(o, p, a, c) PROVE EndsStand
  <2>1. PICK b : bill' = [bill EXCEPT ![o] = b]
    BY <1>5 DEF Reprice, Rewrite
  <2> QED
    BY <1>0, <1>1, <1>5, <2>1, StandsKept DEF Reprice, Rewrite, costVars, Ended
<1>6. ASSUME NEW a, NEW c, Pay(o, a, c) PROVE EndsStand
  BY <1>1, <1>6, StandsKept DEF Pay, costVars
<1>7. ASSUME NEW c, DropDraft(o, c) PROVE EndsStand
  <2>1. PICK b : bill' = [bill EXCEPT ![o] = b]
    BY <1>7 DEF DropDraft
  <2> QED
    BY <1>0, <1>1, <1>7, <2>1, StandsKept DEF DropDraft, costVars, Ended
<1>8. ASSUME BookConfirm(o) PROVE EndsStand
  <2>1. PICK st : st = [status EXCEPT ![o] = "CONFIRMED"]
    OBVIOUS
  <2>2. Course(st) /\ status[o] = "DRAFT"
    BY <1>0, <1>8, <2>1, OrderCourse DEF BookConfirm
  <2>3. \A u \in Orders : u # o => st[u] = status[u]
    BY <1>0, <2>1
  <2>4. st[o] = "CONFIRMED"
    BY <1>0, <2>1
  <2>5. closedOn' = closedOn /\ bill' = bill /\ ledger' = ledger
    BY <1>8 DEF BookConfirm, billVars, costVars
  <2> QED
    BY <2>2, <2>3, <2>4, <2>5 DEF EndsStand, Stands, Course, Ended
<1>9. ASSUME BookCancel(o) PROVE EndsStand
  <2>1. Course([status EXCEPT ![o] = "CANCELED"])
    BY <1>0, <1>9, OrderCourse DEF BookCancel
  <2>2. status[o] \notin Ended
    BY <1>9 DEF BookCancel, Cancel, Live, Ended
  <2>3. ClosedNow(o) /\ bill' = bill /\ ledger' = ledger
    BY <1>9 DEF BookCancel, billVars, costVars
  <2> QED
    BY <2>1, <2>2, <2>3, StandsEnding
<1>10. ASSUME BookComplete(o) PROVE EndsStand
  <2>1. Course([status EXCEPT ![o] = "COMPLETED"]) /\ status[o] = "READY"
    BY <1>0, <1>10, OrderCourse DEF BookComplete
  <2>2. status[o] \notin Ended
    BY <2>1 DEF Ended
  <2>3. ClosedNow(o) /\ bill' = bill
    BY <1>10 DEF BookComplete, billVars
  <2>4. PICK rows : ledger' = [ledger EXCEPT ![o] = rows]
    BY <1>10 DEF BookComplete
  <2>5. \A u \in Orders \ {o} : ledger'[u] = ledger[u]
    BY <1>0, <2>4
  <2> QED
    BY <2>1, <2>2, <2>3, <2>5, StandsEnding
<1>11. ASSUME BookRest(o) PROVE EndsStand
  <2>1. Course(status)
    BY <1>0, <1>11, OrderCourse DEF BookRest
  <2> QED
    BY <1>11, <2>1, StandsKept DEF BookRest, billVars, costVars
<1> QED
  BY <1>2, <1>3, <1>4, <1>5, <1>6, <1>7, <1>8, <1>9, <1>10, <1>11 DEF Selling

(* A run gives its output and its cost to live Orders only.                  *)
LEMMA FinishStands ==
  ASSUME BooksInv, NEW r \in Runs, NEW out \in Outputs, NEW used, BookFinish(r, out, used)
  PROVE  EndsStand
<1>0. /\ ProdInv /\ QuantitiesTyped /\ out \in Nat
      /\ ledger \in [Orders -> [CostRows -> Nat]]
  BY TypedQuantities, ProductionAssumption DEF BooksInv, CostInv, ProdInv
<1>1. PICK share, c : share = SharedOut(out) /\ c = Apportioned(ActualCost(r, used), Weights(share))
  OBVIOUS
<1>2. share \in Shares /\ \A o \in Orders \ Supplied : share.given[o] = 0
  BY <1>0, <1>1, SharedOutShares DEF Shared
<1>3. PICK S \in SUBSET Orders : S = {o \in Orders : share.given[o] > 0}
  OBVIOUS
<1>4. Lists(Served(share), Cardinality(S), S)
  BY <1>0, <1>3, DeadlineOrder DEF Served
<1>5. ASSUME NEW o \in Orders, status[o] \in Ended PROVE ledger'[o] = ledger[o]
  <2>1. o \notin S
    BY <1>2, <1>3, <1>5 DEF Supplied, Ended, Live
  <2>2. {i \in DOMAIN Served(share) : Served(share)[i] = o} = {}
    BY <1>4, <2>1 DEF Lists
  <2>3. Burden(Served(share), c)[o] = 0
    BY <2>2, BurdenIs, SumEmpty
  <2>4. ledger'[o] = [ledger[o] EXCEPT ![Baked] = @ + Burden(Served(share), c)[o]]
    BY <1>1 DEF BookFinish, Baked
  <2>5. ledger[o] \in [CostRows -> Nat]
    BY <1>0
  <2> QED
    BY <2>3, <2>4, <2>5
<1>6. Course(status)
  BY <1>0, BakingCourse DEF BookFinish
<1> QED
  BY <1>5, <1>6, StandsKept DEF BookFinish, billVars

(* The operations on runs and lots.                                         *)
LEMMA BakingStands == ASSUME BooksInv, Baking PROVE EndsStand
<1>0. ProdInv
  BY DEF BooksInv
<1>1. ASSUME NEW r \in Runs, NEW d \in Dates, NEW n \in Batches, BookStart(r, d, n)
      PROVE  EndsStand
  <2>1. Course(status)
    BY <1>0, <1>1, BakingCourse DEF BookStart
  <2> QED
    BY <1>1, <2>1, StandsKept DEF BookStart, billVars
<1>2. ASSUME NEW r \in Runs, NEW out \in Outputs, NEW used, BookFinish(r, out, used)
      PROVE  EndsStand
  BY <1>2, FinishStands
<1>3. ASSUME NEW r \in Runs, BookCancelRun(r) PROVE EndsStand
  <2>1. Course(status)
    BY <1>0, <1>3, BakingCourse DEF BookCancelRun
  <2> QED
    BY <1>3, <2>1, StandsKept DEF BookCancelRun, bookVars, billVars, costVars
<1>4. ASSUME NEW n \in Outputs, NEW u \in Expiries, NEW c \in EnteredCosts, BookSurplus(n, u, c)
      PROVE  EndsStand
  <2>1. Course(status)
    BY <1>0, <1>4, BakingCourse DEF BookSurplus
  <2> QED
    BY <1>4, <2>1, StandsKept DEF BookSurplus, billVars
<1>5. ASSUME NEW l \in Lots, NEW n \in Outputs, BookReduction(l, n) PROVE EndsStand
  <2>1. Course(status)
    BY <1>0, <1>5, BakingCourse DEF BookReduction
  <2> QED
    BY <1>5, <2>1, StandsKept DEF BookReduction, billVars, costVars
<1> QED
  BY <1>1, <1>2, <1>3, <1>4, <1>5 DEF Baking

(* An Order that ended keeps what the reports look at, whatever happens, and *)
(* no Order ends on a day that has passed.                                  *)
LEMMA EndedStand == BooksInv /\ [BooksNext]_booksVars => EndsStand
<1> SUFFICES ASSUME BooksInv, [BooksNext]_booksVars PROVE EndsStand
  OBVIOUS
<1>0. ProdInv
  BY DEF BooksInv
<1>1. UNCHANGED vars => Course(status)
  BY <1>0, BakingCourse
<1>2. CASE Stocking
  <2>1. UNCHANGED <<vars, billVars, ledger, closedOn>>
    BY <1>2 DEF Stocking, BeginStock, CommitStock, OpenBalance, RestockGoods, AdjustGoods, costVars
  <2> QED
    BY <1>1, <2>1, StandsKept DEF billVars
<1>3. ASSUME NEW option \in Catalogues, ChangeCatalogue(option) PROVE EndsStand
  BY <1>1, <1>3, StandsKept DEF ChangeCatalogue, billVars, costVars
<1>4. CASE BookDay
  <2>1. Course(status)
    BY <1>0, <1>4, BakingCourse DEF BookDay
  <2> QED
    BY <1>4, <2>1, StandsKept DEF BookDay, billVars, costVars
<1>5. CASE UNCHANGED booksVars
  BY <1>1, <1>5, StandsKept DEF booksVars, bookVars, billVars, costVars
<1> QED
  BY <1>2, <1>3, <1>4, <1>5, SellingStands, BakingStands DEF BooksNext

(* So a period that is over keeps its Orders, and these their rows.          *)
LEMMA ClosedStand ==
  ASSUME EndsStand, today \in Int, NEW p, p.from \in Int, p.to \in Int, p.to < today,
         NEW st \in Ended
  PROVE  /\ ClosedIn(p, st)' = ClosedIn(p, st)
         /\ \A o \in ClosedIn(p, st) : Stands(o)
<1>1. ASSUME NEW o \in Orders PROVE o \in ClosedIn(p, st)' <=> o \in ClosedIn(p, st)
  BY DEF EndsStand, Stands, ClosedIn
<1>2. \A o \in ClosedIn(p, st) : Stands(o)
  BY DEF EndsStand, ClosedIn
<1>3. ClosedIn(p, st) \subseteq Orders /\ ClosedIn(p, st)' \subseteq Orders
  BY DEF ClosedIn
<1> QED
  BY <1>1, <1>2, <1>3

(* What an Order cost, by the rows of its ledger.                           *)
CostAt(rows) == Over({k \in CostRows : rows[k] # 0}, LAMBDA k : rows[k])
CostAtLine(rows, line) ==
  Over({k \in {j \in CostRows : rows[j] # 0} : k[2] = line}, LAMBDA k : rows[k])
CostBeside(rows, lines) ==
  Over({k \in {j \in CostRows : rows[j] # 0} : k[2] \notin lines}, LAMBDA k : rows[k])
BesideLines(o) == CostOf(o, {k \in RowsOf(o) : k[2] \notin DOMAIN bill[o].lines})

LEMMA CostIs ==
  ASSUME NEW o
  PROVE  /\ Cost(o) = CostAt(ledger[o])
         /\ Cost(o)' = CostAt(ledger'[o])
         /\ \A line : CostOfLine(o, line) = CostAtLine(ledger[o], line)
         /\ \A line : CostOfLine(o, line)' = CostAtLine(ledger'[o], line)
         /\ BesideLines(o) = CostBeside(ledger[o], DOMAIN bill[o].lines)
         /\ BesideLines(o)' = CostBeside(ledger'[o], DOMAIN bill'[o].lines)
  BY DEF Cost, CostOf, RowsOf, CostAt, CostOfLine, CostAtLine, BesideLines, CostBeside, Over,
         MapThenSumSet, MapThenFoldSet

(* Sums over Orders whose rows stand.                                       *)
LEMMA RevenueStands ==
  ASSUME NEW S, \A o \in S : Stands(o)
  PROVE  Over(S, Revenue)' = Over(S, Revenue)
<1>1. PICK g : g = [o \in S |-> Revenue(o)]
  OBVIOUS
<1>2. g = [o \in S |-> Total(bill'[o])]
  BY <1>1 DEF Revenue, Stands
<1>3. Over(S, Revenue) = Added(g, S)
  BY <1>1, ZenonT(60) DEF Over, MapThenSumSet, MapThenFoldSet, Added, Adder, Revenue
<1>4. Over(S, Revenue)' = Added(g, S)
  BY <1>2, ZenonT(60) DEF Over, MapThenSumSet, MapThenFoldSet, Added, Adder, Revenue
<1> QED
  BY <1>3, <1>4

LEMMA CostStands ==
  ASSUME NEW S, \A o \in S : Stands(o)
  PROVE  Over(S, Cost)' = Over(S, Cost)
<1>1. PICK g : g = [o \in S |-> CostAt(ledger[o])]
  OBVIOUS
<1>2. g = [o \in S |-> CostAt(ledger'[o])]
  BY <1>1 DEF Stands
<1>3. g = [o \in S |-> Cost(o)]
  BY <1>1, CostIs
<1>4. g = [o \in S |-> Cost(o)']
  BY <1>2, CostIs
<1>5. Over(S, Cost) = Added(g, S)
  BY ONLY <1>3, ZenonT(60) DEF Over, MapThenSumSet, MapThenFoldSet, Added, Adder
<1>6. Over(S, Cost)' = Added(g, S)
  BY ONLY <1>4, ZenonT(60) DEF Over, MapThenSumSet, MapThenFoldSet, Added, Adder
<1> QED
  BY <1>5, <1>6

(* The key figures of a period.                                             *)
LEMMA KpisStand ==
  ASSUME NEW q, Done(q)' = Done(q), \A o \in Done(q) : Stands(o)
  PROVE  Kpis(Done(q))' = Kpis(Done(q))
<1>1. PICK S : S = Done(q) /\ S = Done(q)'
  OBVIOUS
<1>2. \A o \in S : Stands(o)
  BY <1>1
<1>3. Over(S, Revenue)' = Over(S, Revenue) /\ Over(S, Cost)' = Over(S, Cost)
  BY <1>2, RevenueStands, CostStands
<1>4. Kpis(S)' = Kpis(S)
  BY <1>3 DEF Kpis
<1>5. Kpis(Done(q)) = Kpis(S)
  BY <1>1
<1>6. Kpis(Done(q))' = Kpis(S)'
  BY <1>1
<1> QED
  BY <1>4, <1>5, <1>6

(* What a line of Orders that stand comes to.                               *)
Sold(S, line) ==
  [figures |-> Figures(Over(S, LAMBDA o : Subtotal(bill[o].lines[line])),
                       Over(S, LAMBDA o : CostOfLine(o, line)), Cardinality(S)),
   packages |-> Over(S, LAMBDA o : bill[o].lines[line].packages),
   units |-> Over(S, LAMBDA o : bill[o].lines[line].units)]

LEMMA LinesStand ==
  ASSUME NEW S, NEW line, \A o \in S : Stands(o)
  PROVE  Sold(S, line)' = Sold(S, line)
<1>1. Over(S, LAMBDA o : Subtotal(bill[o].lines[line]))'
        = Over(S, LAMBDA o : Subtotal(bill[o].lines[line]))
  <2>1. PICK g : g = [o \in S |-> Subtotal(bill[o].lines[line])]
    OBVIOUS
  <2>2. g = [o \in S |-> Subtotal(bill'[o].lines[line])]
    BY <2>1 DEF Stands
  <2>3. Over(S, LAMBDA o : Subtotal(bill[o].lines[line])) = Added(g, S)
    BY ONLY <2>1, ZenonT(60) DEF Over, MapThenSumSet, MapThenFoldSet, Added, Adder
  <2>4. Over(S, LAMBDA o : Subtotal(bill[o].lines[line]))' = Added(g, S)
    BY ONLY <2>2, ZenonT(60) DEF Over, MapThenSumSet, MapThenFoldSet, Added, Adder
  <2> QED
    BY <2>3, <2>4
<1>2. Over(S, LAMBDA o : CostOfLine(o, line))' = Over(S, LAMBDA o : CostOfLine(o, line))
  <2>1. PICK g : g = [o \in S |-> CostAtLine(ledger[o], line)]
    OBVIOUS
  <2>2. g = [o \in S |-> CostAtLine(ledger'[o], line)]
    BY <2>1 DEF Stands
  <2>3. g = [o \in S |-> CostOfLine(o, line)]
    BY <2>1, CostIs
  <2>4. g = [o \in S |-> CostOfLine(o, line)']
    BY <2>2, CostIs
  <2>5. Over(S, LAMBDA o : CostOfLine(o, line)) = Added(g, S)
    BY ONLY <2>3, ZenonT(60) DEF Over, MapThenSumSet, MapThenFoldSet, Added, Adder
  <2>6. Over(S, LAMBDA o : CostOfLine(o, line))' = Added(g, S)
    BY ONLY <2>4, ZenonT(60) DEF Over, MapThenSumSet, MapThenFoldSet, Added, Adder
  <2> QED
    BY <2>5, <2>6
<1>3. Over(S, LAMBDA o : bill[o].lines[line].packages)'
        = Over(S, LAMBDA o : bill[o].lines[line].packages)
  <2>1. PICK g : g = [o \in S |-> bill[o].lines[line].packages]
    OBVIOUS
  <2>2. g = [o \in S |-> bill'[o].lines[line].packages]
    BY <2>1 DEF Stands
  <2>3. Over(S, LAMBDA o : bill[o].lines[line].packages) = Added(g, S)
    BY ONLY <2>1, ZenonT(60) DEF Over, MapThenSumSet, MapThenFoldSet, Added, Adder
  <2>4. Over(S, LAMBDA o : bill[o].lines[line].packages)' = Added(g, S)
    BY ONLY <2>2, ZenonT(60) DEF Over, MapThenSumSet, MapThenFoldSet, Added, Adder
  <2> QED
    BY <2>3, <2>4
<1>4. Over(S, LAMBDA o : bill[o].lines[line].units)'
        = Over(S, LAMBDA o : bill[o].lines[line].units)
  <2>1. PICK g : g = [o \in S |-> bill[o].lines[line].units]
    OBVIOUS
  <2>2. g = [o \in S |-> bill'[o].lines[line].units]
    BY <2>1 DEF Stands
  <2>3. Over(S, LAMBDA o : bill[o].lines[line].units) = Added(g, S)
    BY ONLY <2>1, ZenonT(60) DEF Over, MapThenSumSet, MapThenFoldSet, Added, Adder
  <2>4. Over(S, LAMBDA o : bill[o].lines[line].units)' = Added(g, S)
    BY ONLY <2>2, ZenonT(60) DEF Over, MapThenSumSet, MapThenFoldSet, Added, Adder
  <2> QED
    BY <2>3, <2>4
<1> QED
  BY <1>1, <1>2, <1>3, <1>4 DEF Sold

(* So the row of a product stands.                                          *)
LEMMA RowStands ==
  ASSUME NEW p, NEW line, Done(p)' = Done(p), \A o \in Done(p) : Stands(o)
  PROVE  Row(p, line)' = Row(p, line)
<1>1. PICK S : /\ S = {o \in Done(p) : line \in DOMAIN bill[o].lines}
               /\ S = {o \in Done(p)' : line \in DOMAIN bill'[o].lines}
  BY DEF Stands
<1>2. \A o \in S : Stands(o)
  BY <1>1
<1>3. Row(p, line) = Sold(S, line)
  BY <1>1 DEF Row, Sold
<1>4. Row(p, line)' = Sold(S, line)'
  BY <1>1 DEF Row, Sold
<1> QED
  BY <1>2, <1>3, <1>4, LinesStand

(* The report of the products.                                              *)
ProductsOf(rows, a, t, u, v) ==
  [rows |-> rows, adjustments |-> a, tax |-> t, unattributed |-> u,
   unreconciled |-> v - a - t - Over(Shown, LAMBDA k : rows[k].figures.revenue)]

LEMMA ProductsStand ==
  ASSUME NEW p, Done(p)' = Done(p), \A o \in Done(p) : Stands(o)
  PROVE  Products(p)' = Products(p)
<1>1. PICK S : S = Done(p) /\ S = Done(p)'
  OBVIOUS
<1>2. \A o \in S : Stands(o)
  BY <1>1
<1>3. PICK R : R = [k \in Shown |-> Row(p, k)] /\ R = [k \in Shown |-> Row(p, k)']
  BY RowStands
<1>4. PICK a : a = Over(S, LAMBDA o : bill[o].adjustment) /\ a = Over(S, LAMBDA o : bill[o].adjustment)'
  <2>1. PICK g : g = [o \in S |-> bill[o].adjustment]
    OBVIOUS
  <2>2. g = [o \in S |-> bill'[o].adjustment]
    BY <1>2, <2>1 DEF Stands
  <2>3. Over(S, LAMBDA o : bill[o].adjustment) = Added(g, S)
    BY ONLY <2>1, ZenonT(60) DEF Over, MapThenSumSet, MapThenFoldSet, Added, Adder
  <2>4. Over(S, LAMBDA o : bill[o].adjustment)' = Added(g, S)
    BY ONLY <2>2, ZenonT(60) DEF Over, MapThenSumSet, MapThenFoldSet, Added, Adder
  <2> QED
    BY <2>3, <2>4
<1>5. PICK t : t = Over(S, LAMBDA o : bill[o].tax) /\ t = Over(S, LAMBDA o : bill[o].tax)'
  <2>1. PICK g : g = [o \in S |-> bill[o].tax]
    OBVIOUS
  <2>2. g = [o \in S |-> bill'[o].tax]
    BY <1>2, <2>1 DEF Stands
  <2>3. Over(S, LAMBDA o : bill[o].tax) = Added(g, S)
    BY ONLY <2>1, ZenonT(60) DEF Over, MapThenSumSet, MapThenFoldSet, Added, Adder
  <2>4. Over(S, LAMBDA o : bill[o].tax)' = Added(g, S)
    BY ONLY <2>2, ZenonT(60) DEF Over, MapThenSumSet, MapThenFoldSet, Added, Adder
  <2> QED
    BY <2>3, <2>4
<1>6. PICK u : u = Over(S, BesideLines) /\ u = Over(S, BesideLines)'
  <2>1. PICK g : g = [o \in S |-> CostBeside(ledger[o], DOMAIN bill[o].lines)]
    OBVIOUS
  <2>2. g = [o \in S |-> CostBeside(ledger'[o], DOMAIN bill'[o].lines)]
    BY <1>2, <2>1 DEF Stands
  <2>3. g = [o \in S |-> BesideLines(o)]
    BY <2>1, CostIs
  <2>4. g = [o \in S |-> BesideLines(o)']
    BY <2>2, CostIs
  <2>5. Over(S, BesideLines) = Added(g, S)
    BY ONLY <2>3, ZenonT(60) DEF Over, MapThenSumSet, MapThenFoldSet, Added, Adder
  <2>6. Over(S, BesideLines)' = Added(g, S)
    BY ONLY <2>4, ZenonT(60) DEF Over, MapThenSumSet, MapThenFoldSet, Added, Adder
  <2> QED
    BY <2>5, <2>6
<1>7. PICK v : v = Over(S, Revenue) /\ v = Over(S, Revenue)'
  BY <1>2, RevenueStands
<1>8. Products(p) = ProductsOf(R, a, t, u, v)
  BY <1>1, <1>3, <1>4, <1>5, <1>6, <1>7 DEF Products, ProductsOf, BesideLines
<1>9. Products(p)' = ProductsOf(R, a, t, u, v)
  <2>1. Over(Shown, LAMBDA k : [j \in Shown |-> Row(p, j)][k].figures.revenue)'
          = Over(Shown, LAMBDA k : R[k].figures.revenue)
    <3>1. PICK g : g = [k \in Shown |-> R[k].figures.revenue]
      OBVIOUS
    <3>2. g = [k \in Shown |-> [j \in Shown |-> Row(p, j)'][k].figures.revenue]
      BY <1>3, <3>1
    <3>3. Over(Shown, LAMBDA k : R[k].figures.revenue) = Added(g, Shown)
      BY ONLY <3>1, ZenonT(60) DEF Over, MapThenSumSet, MapThenFoldSet, Added, Adder
    <3>4. Over(Shown, LAMBDA k : [j \in Shown |-> Row(p, j)][k].figures.revenue)' = Added(g, Shown)
      BY ONLY <3>2, ZenonT(60) DEF Over, MapThenSumSet, MapThenFoldSet, Added, Adder
    <3> QED
      BY <3>3, <3>4
  <2> QED
    BY <1>1, <1>3, <1>4, <1>5, <1>6, <1>7, <2>1 DEF Products, ProductsOf, BesideLines
<1> QED
  BY <1>8, <1>9

(* The report of the customers.                                             *)
LEMMA CustomersStand ==
  ASSUME EndsStand, today \in Int, NEW p, p.from \in Int, p.to \in Int, p.from <= p.to, p.to < today
  PROVE  CustomersReport(p)' = CustomersReport(p)
<1>1. PICK S : S = Done(p) /\ S = Done(p)' /\ \A o \in S : Stands(o)
  BY ClosedStand DEF Done, Ended
<1>2. PICK B : /\ B = {o \in Orders : status[o] = "COMPLETED" /\ closedOn[o] < p.from}
               /\ B = {o \in Orders : status'[o] = "COMPLETED" /\ closedOn'[o] < p.from}
               /\ \A o \in B : Stands(o)
  <2>0. PICK B : B = {o \in Orders : status[o] = "COMPLETED" /\ closedOn[o] < p.from}
    OBVIOUS
  <2>1. ASSUME NEW o \in Orders
        PROVE  status'[o] = "COMPLETED" /\ closedOn'[o] < p.from
                 <=> status[o] = "COMPLETED" /\ closedOn[o] < p.from
    BY DEF EndsStand, Stands, Ended
  <2>2. \A o \in Orders : status[o] = "COMPLETED" => Stands(o)
    BY DEF EndsStand, Ended
  <2>3. B = {o \in Orders : status'[o] = "COMPLETED" /\ closedOn'[o] < p.from}
    BY <2>0, <2>1
  <2>4. \A o \in B : Stands(o)
    BY <2>0, <2>2
  <2> QED
    BY <2>0, <2>3, <2>4
<1>3. ASSUME NEW T, \A o \in T : Stands(o), NEW c
      PROVE  OrdersOf(T, c)' = OrdersOf(T, c) /\ \A o \in OrdersOf(T, c) : Stands(o)
  BY <1>3 DEF OrdersOf, Stands
<1>4. ASSUME NEW c
      PROVE  /\ OrdersOf(S, c)' = OrdersOf(S, c)
             /\ Over(OrdersOf(S, c), Revenue)' = Over(OrdersOf(S, c), Revenue)
  <2>1. PICK T : T = OrdersOf(S, c) /\ T = OrdersOf(S, c)' /\ \A o \in T : Stands(o)
    BY <1>1, <1>3
  <2>2. Over(T, Revenue)' = Over(T, Revenue)
    BY <2>1, RevenueStands
  <2> QED
    BY <2>1, <2>2
<1>5. ASSUME NEW c PROVE CustomerRow(p, c)' = CustomerRow(p, c)
  BY <1>1, <1>2, <1>3, <1>4 DEF CustomerRow
<1>6. CustomersSeen(p)' = CustomersSeen(p)
  BY <1>1, <1>4 DEF CustomersSeen
<1> QED
  BY <1>1, <1>4, <1>5, <1>6 DEF CustomersReport

(* The report of the Orders: its rows, but for what the payments decide, and *)
(* all of them when no payment was made.                                    *)
SoldRow(o) == [k \in SaleColumns |-> OrderRow(o)[k]]
SoldRows(p) == [o \in DOMAIN OrdersReport(p).rows |-> SoldRow(o)]
SoldSummary(p) == [k \in {"completed", "canceled", "revenue"} |-> OrdersReport(p).summary[k]]

LEMMA SalesAre ==
  ASSUME NEW p, NEW rows, rows = SoldRows(p), NEW summary, summary = SoldSummary(p)
  PROVE  Sales(p) = [overview |-> Overview(p), trends |-> Trends(p), products |-> Products(p),
                     customers |-> CustomersReport(p), rows |-> rows, summary |-> summary]
<1>1. PICK R : R = OrdersReport(p).rows
  OBVIOUS
<1>2. R = [o \in DOMAIN R |-> OrderRow(o)]
  BY <1>1 DEF OrdersReport
<1>3. [o \in DOMAIN R |-> [k \in SaleColumns |-> R[o][k]]]
        = [o \in DOMAIN R |-> SoldRow(o)]
  BY <1>2 DEF SoldRow
<1> QED
  BY <1>1, <1>3 DEF Sales, SoldRows, SoldSummary

(* The same after a step.                                                   *)
LEMMA SalesAreNext ==
  ASSUME NEW p, NEW rows, rows = SoldRows(p)', NEW summary, summary = SoldSummary(p)'
  PROVE  Sales(p)' = [overview |-> Overview(p)', trends |-> Trends(p)', products |-> Products(p)',
                      customers |-> CustomersReport(p)', rows |-> rows, summary |-> summary]
<1>1. PICK R : R = OrdersReport(p).rows'
  OBVIOUS
<1>2. R = [o \in DOMAIN R |-> OrderRow(o)']
  BY <1>1 DEF OrdersReport
<1>3. [o \in DOMAIN R |-> [k \in SaleColumns |-> R[o][k]]]
        = [o \in DOMAIN R |-> SoldRow(o)']
  BY <1>2 DEF SoldRow
<1> QED
  BY <1>1, <1>3 DEF Sales, SoldRows, SoldSummary

LEMMA OrdersStand ==
  ASSUME EndsStand, today \in Int, NEW p, p.from \in Int, p.to \in Int, p.to < today
  PROVE  /\ SoldRows(p)' = SoldRows(p) /\ SoldSummary(p)' = SoldSummary(p)
         /\ (\A o \in Done(p) \cup ClosedIn(p, "CANCELED") : paid'[o] = paid[o])
              => OrdersReport(p)' = OrdersReport(p)
<1>1. PICK D, C : /\ D = Done(p) /\ D = Done(p)'
                  /\ C = ClosedIn(p, "CANCELED") /\ C = ClosedIn(p, "CANCELED")'
                  /\ \A o \in D \cup C : Stands(o)
  BY ClosedStand DEF Done, Ended
<1>2. \A o \in D \cup C : /\ Revenue(o)' = Revenue(o) /\ Cost(o)' = Cost(o)
                          /\ status'[o] = status[o] /\ closedOn'[o] = closedOn[o]
  BY <1>1, CostIs DEF Stands, Revenue
<1>3. \A o \in D \cup C : SoldRow(o)' = SoldRow(o)
  <2>1. ASSUME NEW o \in D \cup C PROVE SoldRow(o)' = SoldRow(o)
    <3>1. PICK s, d, r, x : /\ s = status[o] /\ s = status'[o]
                            /\ d = closedOn[o] /\ d = closedOn'[o]
                            /\ r = Revenue(o) /\ r = Revenue(o)'
                            /\ x = Cost(o) /\ x = Cost(o)'
      BY <1>2
    <3>2. ASSUME NEW k \in SaleColumns PROVE OrderRow(o)[k]' = OrderRow(o)[k]
      BY <3>1 DEF SaleColumns, OrderRow
    <3> QED
      BY <3>2 DEF SoldRow
  <2> QED
    BY <2>1
<1>4. DOMAIN OrdersReport(p).rows = D \cup C /\ (DOMAIN OrdersReport(p).rows)' = D \cup C
  BY <1>1 DEF OrdersReport
<1>5. SoldRows(p)' = SoldRows(p)
  BY <1>3, <1>4 DEF SoldRows
<1>6. Over(D, Revenue)' = Over(D, Revenue)
  BY <1>1, RevenueStands
<1>7. ASSUME NEW k \in {"completed", "canceled", "revenue"}
      PROVE  OrdersReport(p).summary[k]' = OrdersReport(p).summary[k]
  BY <1>1, <1>6 DEF OrdersReport
<1>8. ASSUME \A o \in D \cup C : paid'[o] = paid[o]
      PROVE  OrdersReport(p)' = OrdersReport(p)
  <2>1. \A o \in D \cup C : OrderRow(o)' = OrderRow(o) /\ Balance(o)' = Balance(o)
    BY <1>2, <1>8 DEF OrderRow, Balance
  <2>2. PICK U : U = Unpaid(p) /\ U = Unpaid(p)' /\ U \subseteq D
    BY <1>1, <2>1 DEF Unpaid
  <2>3. Over(U, Balance)' = Over(U, Balance)
    <3>1. PICK g : g = [o \in U |-> Balance(o)]
      OBVIOUS
    <3>2. g = [o \in U |-> Balance(o)']
      BY <2>1, <2>2, <3>1
    <3>3. Over(U, Balance) = Added(g, U)
      BY ONLY <3>1, ZenonT(60) DEF Over, MapThenSumSet, MapThenFoldSet, Added, Adder
    <3>4. Over(U, Balance)' = Added(g, U)
      BY ONLY <3>2, ZenonT(60) DEF Over, MapThenSumSet, MapThenFoldSet, Added, Adder
    <3> QED
      BY <3>3, <3>4
  <2>4. Outstanding(p)' = Outstanding(p)
    BY <2>2, <2>3 DEF Outstanding
  <2> QED
    BY <1>1, <1>6, <2>1, <2>4 DEF OrdersReport
<1>9. SoldSummary(p)' = SoldSummary(p)
  BY <1>7 DEF SoldSummary
<1> QED
  BY <1>1, <1>5, <1>8, <1>9

----------------------------------------------------------------------------
(* The buckets of a period.                                                 *)

Segment(day, p) == [from |-> day, to |-> SegmentEnd(day, p)]
Walks(w, p) ==
  w = [day \in Nat |-> IF day > p.to THEN <<>>
                       ELSE <<Segment(day, p)>> \o w[SegmentEnd(day, p) + 1]]

(* A bucket ends no sooner than it begins, and within the period.            *)
LEMMA SegmentEnds ==
  ASSUME NEW p \in Periods, NEW day \in Nat, day <= p.to
  PROVE  SegmentEnd(day, p) \in Nat /\ day <= SegmentEnd(day, p) /\ SegmentEnd(day, p) <= p.to
<1>1. p.from \in Nat /\ p.to \in Nat
  BY ProductionAssumption DEF Periods
<1>2. DaysInWeek \in Nat \ {0} /\ DaysInMonth \in Nat \ {0}
  BY ReportsAssumption
<1>3. PICK a \in Int, b \in Int : /\ a = ((day - 1) % DaysInWeek) /\ a < DaysInWeek
                                  /\ b = ((day - 1) % DaysInMonth) /\ b < DaysInMonth
  BY <1>2
<1>4. PICK stop \in Int :
        /\ stop >= day
        /\ stop = CASE DaysOf(p) <= DailyMax -> day
                    [] DaysOf(p) > DailyMax /\ DaysOf(p) <= WeeklyMax -> day + DaysInWeek - 1 - a
                    [] OTHER -> day + DaysInMonth - 1 - b
  BY <1>2, <1>3
<1>5. SegmentEnd(day, p) = MinOf(stop, p.to)
  BY <1>3, <1>4 DEF SegmentEnd
<1> QED
  BY <1>1, <1>4, <1>5 DEF MinOf

(* The walk over the days of a period exists: from any day it ends.          *)
LEMMA WalkExists == ASSUME NEW p \in Periods PROVE \E w : Walks(w, p)
<1>1. p.to \in Nat
  BY ProductionAssumption DEF Periods
<1> DEFINE Body(day, w) == IF day > p.to THEN <<>>
                           ELSE <<Segment(day, p)>> \o w[SegmentEnd(day, p) + 1]
           Good(w, k) == \A day \in Nat : day + k > p.to => w[day] = Body(day, w)
           P == {k \in Nat : \E w : w = [day \in Nat |-> w[day]] /\ Good(w, k)}
<1>2. 0 \in P
  <2>1. PICK w : w = [day \in Nat |-> <<>>]
    OBVIOUS
  <2>2. w = [day \in Nat |-> w[day]] /\ Good(w, 0)
    BY <1>1, <2>1
  <2> QED
    BY <2>2
<1>3. ASSUME NEW k \in P PROVE k + 1 \in P
  <2>1. k \in Nat
    OBVIOUS
  <2>2. PICK w : w = [day \in Nat |-> w[day]] /\ Good(w, k)
    OBVIOUS
  <2>3. PICK v : v = [day \in Nat |-> IF day + k > p.to THEN w[day] ELSE Body(day, w)]
    OBVIOUS
  <2>4. ASSUME NEW day \in Nat, day + (k + 1) > p.to PROVE v[day] = Body(day, w)
    BY <2>2, <2>3
  <2>5. ASSUME NEW day \in Nat, day + (k + 1) > p.to PROVE Body(day, w) = Body(day, v)
    <3>1. CASE day > p.to
      BY <3>1
    <3>2. CASE day <= p.to
      <4>1. PICK e \in Nat : e = SegmentEnd(day, p) /\ day <= e
        BY <3>2, SegmentEnds
      <4>2. e + 1 \in Nat /\ e + 1 + k > p.to
        BY <1>1, <2>1, <2>5, <4>1
      <4>3. v[e + 1] = w[e + 1]
        BY <2>3, <4>2
      <4> QED
        BY <4>1, <4>3
    <3> QED
      BY <1>1, <3>1, <3>2
  <2>6. Good(v, k + 1)
    BY <2>4, <2>5
  <2>7. v = [day \in Nat |-> v[day]]
    BY <2>3
  <2> HIDE DEF Good
  <2> QED
    BY <2>1, <2>6, <2>7
<1>4. P \subseteq Nat
  OBVIOUS
<1> HIDE DEF P
<1>5. p.to + 1 \in P
  BY <1>1, <1>2, <1>3, <1>4, AllNaturals
<1> USE DEF P
<1>6. PICK w : w = [day \in Nat |-> w[day]] /\ Good(w, p.to + 1)
  BY <1>5
<1>7. ASSUME NEW day \in Nat PROVE w[day] = Body(day, w)
  <2>1. day + (p.to + 1) > p.to
    BY <1>1
  <2> HIDE DEF Body
  <2> QED
    BY <1>6, <2>1
<1>8. Walks(w, p)
  BY <1>6, <1>7 DEF Walks
<1> QED
  BY <1>8

(* The buckets are what the walk collects.                                  *)
LEMMA BucketsWalk ==
  ASSUME NEW p \in Periods
  PROVE  \E w : Walks(w, p) /\ Buckets(p) = w[p.from]
<1>1. PICK w : w = CHOOSE v : Walks(v, p)
  OBVIOUS
<1>2. Walks(w, p)
  BY <1>1, WalkExists
<1>3. Buckets(p) = w[p.from]
  BY <1>1 DEF Buckets, Walks, Segment
<1> QED
  BY <1>2, <1>3

Segments(p) == {b \in [from : Nat, to : Nat] : b.from <= b.to /\ b.to <= p.to}

(* From whatever day the walk starts, the buckets are within the period.     *)
LEMMA WalkType ==
  ASSUME NEW p \in Periods, NEW w, Walks(w, p)
  PROVE  \A day \in Nat : w[day] \in Seq(Segments(p))
<1>1. p.to \in Nat
  BY ProductionAssumption DEF Periods
<1> DEFINE P == {k \in Nat : \A day \in Nat : day + k > p.to => w[day] \in Seq(Segments(p))}
<1>0. \A day \in Nat : w[day] = IF day > p.to THEN <<>>
                                ELSE <<Segment(day, p)>> \o w[SegmentEnd(day, p) + 1]
  BY Zenon DEF Walks
<1>2. ASSUME NEW day \in Nat, day > p.to PROVE w[day] = <<>> /\ w[day] \in Seq(Segments(p))
  <2>1. w[day] = <<>>
    BY <1>0, <1>2
  <2> QED
    BY <2>1, EmptySeq
<1>3. ASSUME NEW day \in Nat, day <= p.to
      PROVE  \E e \in Nat : /\ day <= e /\ e = SegmentEnd(day, p)
                            /\ Segment(day, p) \in Segments(p)
                            /\ w[day] = <<Segment(day, p)>> \o w[e + 1]
  <2>1. PICK e \in Nat : e = SegmentEnd(day, p) /\ day <= e /\ e <= p.to
    BY <1>3, SegmentEnds
  <2>2. w[day] = <<Segment(day, p)>> \o w[e + 1]
    <3>1. ~(day > p.to)
      BY <1>1, <1>3
    <3>2. w[day] = <<Segment(day, p)>> \o w[SegmentEnd(day, p) + 1]
      BY <1>0, <3>1, Zenon
    <3> QED
      BY <2>1, <3>2
  <2>3. Segment(day, p) \in Segments(p)
    BY <2>1 DEF Segment, Segments
  <2> QED
    BY <2>1, <2>2, <2>3
<1>4. 0 \in P
  BY <1>1, <1>2
<1>5. ASSUME NEW k \in Nat, k \in P PROVE k + 1 \in P
  <2>1. ASSUME NEW day \in Nat, day + (k + 1) > p.to PROVE w[day] \in Seq(Segments(p))
    <3>1. CASE day > p.to
      BY <1>2, <3>1
    <3>2. CASE day <= p.to
      <4>1. PICK e \in Nat : /\ day <= e /\ Segment(day, p) \in Segments(p)
                             /\ w[day] = <<Segment(day, p)>> \o w[e + 1]
        BY <1>3, <3>2
      <4>2. e + 1 + k > p.to /\ e + 1 \in Nat
        BY <1>1, <2>1, <4>1
      <4>3. w[e + 1] \in Seq(Segments(p))
        BY <1>5, <4>2
      <4> QED
        BY <4>1, <4>3
    <3> QED
      BY <1>1, <3>1, <3>2
  <2> QED
    BY <2>1
<1> HIDE DEF P
<1>6. p.to + 1 \in P
  BY <1>1, <1>4, <1>5, AllNaturals
<1> QED
  BY <1>1, <1>6 DEF P

(* The trends of a period that is over.                                     *)
LEMMA TrendsStand ==
  ASSUME EndsStand, today \in Int, NEW p \in Periods, p.to < today
  PROVE  Trends(p)' = Trends(p)
<1>1. PICK w : Walks(w, p) /\ Buckets(p) = w[p.from]
  BY BucketsWalk
<1>2. p.from \in Nat /\ p.to \in Nat
  BY ProductionAssumption DEF Periods
<1>3. PICK b \in Seq(Segments(p)) : b = Buckets(p)
  BY <1>1, <1>2, WalkType
<1>4. ASSUME NEW i \in DOMAIN b PROVE Kpis(Done(b[i]))' = Kpis(Done(b[i]))
  <2>1. PICK q : q = b[i]
    OBVIOUS
  <2>2. q \in Segments(p)
    BY <2>1
  <2>3. q.from \in Int /\ q.to \in Int /\ q.to < today
    BY <1>2, <2>2 DEF Segments
  <2>4. Done(q)' = Done(q) /\ \A o \in Done(q) : Stands(o)
    BY <2>3, ClosedStand DEF Done, Ended
  <2> QED
    BY <2>1, <2>4, KpisStand
<1>5. Trends(p) = [i \in DOMAIN b |-> Kpis(Done(b[i]))]
  BY <1>3 DEF Trends
<1>6. Trends(p)' = [i \in DOMAIN b |-> Kpis(Done(b[i]))']
  BY <1>3 DEF Trends
<1> QED
  BY <1>4, <1>5, <1>6

(* What the reports of a period that has ended say of sales is final, and so *)
(* is the rest while nobody pays.                                           *)
LEMMA ReportStands ==
  ASSUME EndsStand, today \in Int, NEW p \in Periods, p.to < today
  PROVE  /\ Sales(p)' = Sales(p)
         /\ (\A o \in Done(p) \cup ClosedIn(p, "CANCELED") : paid'[o] = paid[o])
              => FullReport(p)' = FullReport(p)
<1>1. p.from \in Int /\ p.to \in Int /\ p.from <= p.to
  BY ProductionAssumption DEF Periods
<1>2. Done(p)' = Done(p) /\ \A o \in Done(p) : Stands(o)
  BY <1>1, ClosedStand DEF Done, Ended
<1>3. PICK q : q = Previous(p)
  OBVIOUS
<1>4. q.from \in Int /\ q.to \in Int /\ q.to < today
  BY <1>1, <1>3 DEF Previous, DaysOf
<1>5. Done(q)' = Done(q) /\ \A o \in Done(q) : Stands(o)
  BY <1>4, ClosedStand DEF Done, Ended
<1>6. Overview(p)' = Overview(p)
  BY <1>2, <1>3, <1>5, KpisStand DEF Overview
<1>7. Trends(p)' = Trends(p) /\ Products(p)' = Products(p)
  BY <1>2, TrendsStand, ProductsStand
<1>8. CustomersReport(p)' = CustomersReport(p)
  BY <1>1, CustomersStand
<1>9. /\ SoldRows(p)' = SoldRows(p) /\ SoldSummary(p)' = SoldSummary(p)
      /\ (\A o \in Done(p) \cup ClosedIn(p, "CANCELED") : paid'[o] = paid[o])
           => OrdersReport(p)' = OrdersReport(p)
  BY <1>1, OrdersStand
<1>10. Sales(p)' = Sales(p)
  <2>1. PICK O, T, P, C, S, M :
          /\ O = Overview(p) /\ T = Trends(p) /\ P = Products(p) /\ C = CustomersReport(p)
          /\ S = SoldRows(p) /\ M = SoldSummary(p)
    OBVIOUS
  <2>2. /\ O = Overview(p)' /\ T = Trends(p)' /\ P = Products(p)' /\ C = CustomersReport(p)'
        /\ S = SoldRows(p)' /\ M = SoldSummary(p)'
    BY <1>6, <1>7, <1>8, <1>9, <2>1
  <2>3. Sales(p) = [overview |-> O, trends |-> T, products |-> P, customers |-> C,
                    rows |-> S, summary |-> M]
    BY <2>1, SalesAre
  <2>4. Sales(p)' = [overview |-> O, trends |-> T, products |-> P, customers |-> C,
                     rows |-> S, summary |-> M]
    BY <2>2, SalesAreNext
  <2> QED
    BY <2>3, <2>4
<1>11. ASSUME OrdersReport(p)' = OrdersReport(p) PROVE FullReport(p)' = FullReport(p)
  BY <1>6, <1>7, <1>8, <1>11 DEF FullReport
<1> QED
  BY <1>9, <1>10, <1>11

----------------------------------------------------------------------------
(* What the reports need of the rows they add up.                           *)

(* An Order that ended has a day of its end; what is paid is never negative; *)
(* and a cost is booked on a line the Order has.                            *)
Dated == \A o \in Orders : status[o] \in Ended => closedOn[o] \in Nat
Collected == \A o \in Orders : paid[o] \in Nat
Attributed == \A o \in Orders, k \in CostRows : ledger[o][k] # 0 => k[2] \in LineKeys(o)

(* The day of an end is the day it happened.                                *)
LEMMA DatesKept == BooksInv /\ Dated /\ [BooksNext]_booksVars => Dated'
<1> SUFFICES ASSUME BooksInv, Dated, [BooksNext]_booksVars PROVE Dated'
  OBVIOUS
<1>1. EndsStand
  BY EndedStand
<1>2. today \in Nat
  BY InvTypes, ProductionAssumption DEF BooksInv
<1> QED
  BY <1>1, <1>2 DEF Dated, EndsStand, Stands

(* Payments add up, and go with their draft.                                *)
LEMMA PaymentsKept == BooksInv /\ Collected /\ [BooksNext]_booksVars => Collected'
<1> SUFFICES ASSUME BooksInv, Collected, [BooksNext]_booksVars PROVE Collected'
  OBVIOUS
<1>0. paid = [o \in Orders |-> paid[o]]
  BY DEF BooksInv, BillInv
<1>1. paid' = paid => Collected'
  BY DEF Collected
<1>2. ASSUME NEW o \in Orders, NEW n \in Nat, paid' = [paid EXCEPT ![o] = n] PROVE Collected'
  BY <1>0, <1>2 DEF Collected
<1>3. ASSUME NEW o \in Orders, Selling(o) PROVE Collected'
  <2>1. ASSUME NEW req \in Requests[o], NEW c, WriteDraft(o, req, c) PROVE Collected'
    <3>1. req.payment \in Nat
      BY BooksAssumption DEF DraftRequests
    <3> QED
      BY <1>2, <2>1, <3>1 DEF WriteDraft
  <2>2. ASSUME NEW n, NEW p, NEW a, NEW r, NEW c, ReviseDraft(o, n, p, a, r, c) PROVE Collected'
    BY <1>1, <2>2 DEF ReviseDraft, Rewrite
  <2>3. ASSUME NEW n, NEW p, NEW a, NEW d, NEW c, Revise(o, n, d, p, a, c) PROVE Collected'
    BY <1>1, <2>3 DEF Revise, Rewrite
  <2>4. ASSUME NEW p, NEW a, NEW c, Reprice(o, p, a, c) PROVE Collected'
    BY <1>1, <2>4 DEF Reprice, Rewrite
  <2>5. ASSUME NEW a \in Payments, NEW c, Pay(o, a, c) PROVE Collected'
    <3>1. PICK n : n = paid[o] + a
      OBVIOUS
    <3>2. n \in Nat
      BY <3>1, BooksAssumption DEF Collected
    <3> QED
      BY <1>2, <2>5, <3>1, <3>2 DEF Pay
  <2>6. ASSUME NEW c, DropDraft(o, c) PROVE Collected'
    BY <1>2, <2>6 DEF DropDraft
  <2>7. BookConfirm(o) \/ BookCancel(o) \/ BookComplete(o) \/ BookRest(o) => paid' = paid
    BY DEF BookConfirm, BookCancel, BookComplete, BookRest, billVars
  <2> QED
    BY <1>1, <1>3, <2>1, <2>2, <2>3, <2>4, <2>5, <2>6, <2>7 DEF Selling
<1>4. Stocking => paid' = paid
  BY DEF Stocking, BeginStock, CommitStock, OpenBalance, RestockGoods, AdjustGoods, billVars
<1>5. Baking => paid' = paid
  BY DEF Baking, BookStart, BookFinish, BookCancelRun, BookSurplus, BookReduction, bookVars, billVars
<1>6. ASSUME NEW option \in Catalogues, ChangeCatalogue(option) PROVE Collected'
  BY <1>1, <1>6 DEF ChangeCatalogue, billVars
<1>7. BookDay \/ UNCHANGED booksVars => paid' = paid
  BY DEF BookDay, booksVars, bookVars, billVars
<1> QED
  BY <1>1, <1>3, <1>4, <1>5, <1>6, <1>7 DEF BooksNext

(* Output is bread, and completion books what the lines of the bill ask for. *)
LEMMA AttributionKept == BooksInv /\ Attributed /\ [BooksNext]_booksVars => Attributed'
<1> SUFFICES ASSUME BooksInv, Attributed, [BooksNext]_booksVars PROVE Attributed'
  OBVIOUS
<1>0. ledger \in [Orders -> [CostRows -> Nat]]
  BY DEF BooksInv, CostInv
<1>1. ledger' = ledger => Attributed'
  BY DEF Attributed
<1>2. ASSUME NEW o \in Orders, Selling(o) PROVE Attributed'
  <2>1. CASE BookComplete(o)
    <3>1. ledger' = [ledger EXCEPT ![o] = [k \in CostRows |-> ledger[o][k] + CompletionCost(o, k)]]
      BY <2>1 DEF BookComplete
    <3>2. DOMAIN bill[o].lines = LineKeys(o)
      <4>1. status[o] = "READY"
        BY <2>1 DEF BookComplete, CompleteOrder
      <4> QED
        BY <4>1 DEF BooksInv, BillInv, Shaped
    <3>3. ASSUME NEW k \in CostRows, k[2] \notin LineKeys(o) PROVE ledger'[o][k] = 0
      <4>1. CompletionCost(o, k) = 0
        BY <3>2, <3>3 DEF CompletionCost
      <4>2. ledger[o][k] = 0
        BY <3>3 DEF Attributed
      <4>3. ledger'[o][k] = ledger[o][k] + CompletionCost(o, k)
        BY <1>0, <3>1
      <4> QED
        BY <4>1, <4>2, <4>3
    <3>4. \A u \in Orders \ {o} : ledger'[u] = ledger[u]
      BY <1>0, <3>1
    <3> QED
      BY <3>3, <3>4 DEF Attributed
  <2>2. CASE ~BookComplete(o)
    <3>1. \A req, c : WriteDraft(o, req, c) => ledger' = ledger
      BY DEF WriteDraft, costVars
    <3>2. \A new, c : Rewrite(o, new, c) => ledger' = ledger
      BY DEF Rewrite, costVars
    <3>3. \A n, p, a, r, c : ReviseDraft(o, n, p, a, r, c) => ledger' = ledger
      BY <3>2, Zenon DEF ReviseDraft
    <3>4. \A n, p, a, d, c : Revise(o, n, d, p, a, c) => ledger' = ledger
      BY <3>2, Zenon DEF Revise
    <3>5. \A p, a, c : Reprice(o, p, a, c) => ledger' = ledger
      BY <3>2, Zenon DEF Reprice
    <3>6. \A a, c : Pay(o, a, c) \/ DropDraft(o, c) => ledger' = ledger
      BY DEF Pay, DropDraft, costVars
    <3>7. BookConfirm(o) \/ BookCancel(o) \/ BookRest(o) => ledger' = ledger
      BY DEF BookConfirm, BookCancel, BookRest, costVars
    <3>8. ledger' = ledger
      BY <1>2, <2>2, <3>1, <3>3, <3>4, <3>5, <3>6, <3>7 DEF Selling
    <3> QED
      BY <1>1, <3>8
  <2> QED
    BY <2>1, <2>2
<1>3. CASE Baking
  <2>1. ASSUME NEW r, NEW out, NEW used, BookFinish(r, out, used) PROVE Attributed'
    <3>1. PICK b : ledger' = [o \in Orders |-> [ledger[o] EXCEPT ![Baked] = ledger[o][Baked] + b[o]]]
      BY <2>1 DEF BookFinish, Baked
    <3>2. ASSUME NEW o \in Orders, NEW k \in CostRows, k # Baked PROVE ledger'[o][k] = ledger[o][k]
      BY <1>0, <3>1, <3>2
    <3>3. \A o \in Orders : Baked[2] \in LineKeys(o)
      BY DEF Baked, LineKeys
    <3> QED
      BY <3>2, <3>3 DEF Attributed
  <2>2. ASSUME \A r, out, used : ~BookFinish(r, out, used) PROVE ledger' = ledger
    BY <1>3, <2>2 DEF Baking, BookStart, BookCancelRun, BookSurplus, BookReduction, bookVars, costVars
  <2> QED
    BY <1>1, <2>1, <2>2
<1>4. Stocking => ledger' = ledger
  BY DEF Stocking, BeginStock, CommitStock, OpenBalance, RestockGoods, AdjustGoods, costVars
<1>5. ASSUME NEW option \in Catalogues, ChangeCatalogue(option) PROVE Attributed'
  BY <1>1, <1>5 DEF ChangeCatalogue, costVars
<1>6. BookDay \/ UNCHANGED booksVars => ledger' = ledger
  BY DEF BookDay, booksVars, bookVars, costVars
<1> QED
  BY <1>1, <1>2, <1>3, <1>4, <1>5, <1>6 DEF BooksNext

(* The rows of every Order are fit to be reported.                          *)
Reportable == Dated /\ Collected /\ Attributed

LEMMA RowsReportable == BooksSpec => []Reportable
<1>1. BooksInit => Reportable
  <2> SUFFICES ASSUME BooksInit PROVE Reportable
    OBVIOUS
  <2>1. /\ status = [o \in Orders |-> "DRAFT"] /\ paid = [o \in Orders |-> 0]
        /\ ledger = [o \in Orders |-> [k \in CostRows |-> 0]]
    BY DEF BooksInit, Init
  <2> QED
    BY <2>1 DEF Reportable, Dated, Collected, Attributed, Ended
<1>2. BooksInv /\ Reportable /\ [BooksNext]_booksVars => Reportable'
  BY DatesKept, PaymentsKept, AttributionKept DEF Reportable
<1> QED
  BY <1>1, <1>2, BooksInvHolds, PTL DEF BooksSpec

----------------------------------------------------------------------------
(* What an Order asked for and cost, line by line.                          *)

LEMMA RowsFinite == IsFiniteSet(CostRows) /\ IsFiniteSet(Shown)
<1> DEFINE A == {<<"PRODUCTION", "bread">>, <<"SURPLUS", "bread">>}
           B == A \cup {<<"PACKAGING", "bread">>}
           C == B \cup {<<"PURCHASED_GOOD", "cups">>}
           D == C \cup {<<"PACKAGING", "cups">>}
           E == D \cup {<<"PACKAGING", "cake">>}
           F == E \cup {<<"CUSTOM_DIRECT", "cake">>}
<1>1. IsFiniteSet(A)
  <2>1. IsFiniteSet({<<"PRODUCTION", "bread">>}) /\ A = {<<"PRODUCTION", "bread">>} \cup {<<"SURPLUS", "bread">>}
    BY FS_Singleton
  <2> QED
    BY <2>1, FS_AddElement
<1>2. IsFiniteSet(B)
  BY <1>1, FS_AddElement
<1>3. IsFiniteSet(C)
  BY <1>2, FS_AddElement
<1>4. IsFiniteSet(D)
  BY <1>3, FS_AddElement
<1>5. IsFiniteSet(E)
  BY <1>4, FS_AddElement
<1>6. IsFiniteSet(F)
  BY <1>5, FS_AddElement
<1>7. F = CostRows
  BY DEF CostRows
<1>8. IsFiniteSet(Shown)
  <2>1. IsFiniteSet({"bread"})
    BY FS_Singleton
  <2>2. IsFiniteSet({"bread"} \cup {"cups"})
    BY <2>1, FS_AddElement
  <2>3. IsFiniteSet(({"bread"} \cup {"cups"}) \cup {"cake"})
    BY <2>2, FS_AddElement
  <2>4. Shown = ({"bread"} \cup {"cups"}) \cup {"cake"}
    BY DEF Shown
  <2> QED
    BY <2>3, <2>4
<1> QED
  BY <1>6, <1>7, <1>8

(* A sum over what an Order may have lines of.                              *)
LEMMA SumThree ==
  ASSUME NEW g, Integral(g, Shown)
  PROVE  Added(g, Shown) = g["bread"] + g["cups"] + g["cake"]
<1>1. IsFiniteSet(Shown) /\ "bread" \in Shown /\ g["bread"] \in Int /\ g["cups"] \in Int /\ g["cake"] \in Int
  BY RowsFinite DEF Shown, Integral
<1>2. Added(g, Shown) = g["bread"] + Added(g, Shown \ {"bread"})
  BY <1>1, SumPick
<1>3. PICK T : T = Shown \ {"bread"}
  OBVIOUS
<1>4. IsFiniteSet(T) /\ Integral(g, T) /\ "cups" \in T /\ T \ {"cups"} = {"cake"}
  BY <1>1, <1>3, FS_Subset DEF Shown, Integral
<1>5. Added(g, T) = g["cups"] + Added(g, T \ {"cups"})
  BY <1>4, SumPick
<1>6. Added(g, {"cake"}) = g["cake"]
  BY <1>1, SumOne
<1>7. Added(g, T) = g["cups"] + g["cake"]
  BY <1>4, <1>5, <1>6
<1>8. Added(g, Shown) = g["bread"] + Added(g, T)
  BY <1>2, <1>3
<1> QED
  BY ONLY <1>1, <1>7, <1>8

(* What a line of an Order comes to, nothing if it has no such line.         *)
LineRevenue(o, k) == IF k \in LineKeys(o) THEN Subtotal(bill[o].lines[k]) ELSE 0

LEMMA RevenueByLine ==
  ASSUME NEW o \in Orders, Shaped(o, bill[o])
  PROVE  /\ \A k \in Shown : LineRevenue(o, k) \in Nat
         /\ bill[o].adjustment \in Int /\ bill[o].tax \in Int
         /\ Revenue(o) \in Nat
         /\ Revenue(o) = LineRevenue(o, "bread") + LineRevenue(o, "cups") + LineRevenue(o, "cake")
                           + bill[o].adjustment + bill[o].tax
<1>1. PICK ls, a, t : ls = bill[o].lines /\ a = bill[o].adjustment /\ t = bill[o].tax
  OBVIOUS
<1>2. /\ ls \in [LineKeys(o) -> BillLines] /\ a \in Int /\ t \in Int
      /\ LineKeys(o) \subseteq Shown
  BY <1>1 DEF Shaped, Bills, LineKeys, Shown
<1>3. ASSUME NEW k \in LineKeys(o) PROVE Subtotal(ls[k]) \in Nat
  <2>1. PICK x \in Nat, y \in Nat : x = ls[k].packages /\ y = ls[k].price
    BY <1>2 DEF BillLines
  <2> QED
    BY <2>1 DEF Subtotal
<1>4. PICK g, h : /\ g = [k \in LineKeys(o) |-> Subtotal(ls[k])]
                  /\ h = [k \in Shown |-> LineRevenue(o, k)]
  OBVIOUS
<1>5. \A k \in Shown : h[k] = (IF k \in LineKeys(o) THEN g[k] ELSE 0) /\ h[k] \in Nat
  BY <1>1, <1>3, <1>4 DEF LineRevenue
<1>6. /\ IsFiniteSet(Shown) /\ Integral(h, Shown) /\ LineKeys(o) \in SUBSET Shown
      /\ Masks(h, h, LineKeys(o), Shown) /\ IsFiniteSet(LineKeys(o)) /\ Integral(h, LineKeys(o))
      /\ \A k \in LineKeys(o) : h[k] = g[k]
  BY <1>2, <1>5, RowsFinite, FS_Subset DEF Integral, Masks
<1>7. Added(h, Shown) = Added(h, LineKeys(o))
  BY <1>6, SumPart
<1>8. Added(h, LineKeys(o)) = Added(g, LineKeys(o))
  BY <1>6, SumSame
<1>9. Added(h, Shown) = h["bread"] + h["cups"] + h["cake"]
  BY <1>6, SumThree
<1>10. Revenue(o) = Added(g, LineKeys(o)) + a + t
  <2>1. DOMAIN ls = LineKeys(o)
    BY <1>2
  <2>2. MapThenSumSet(LAMBDA k : Subtotal(ls[k]), LineKeys(o)) = Added(g, LineKeys(o))
    BY ONLY <1>4, ZenonT(60) DEF MapThenSumSet, MapThenFoldSet, Added, Adder
  <2> QED
    BY <1>1, <2>1, <2>2 DEF Revenue, Total, FinalTotal
<1>11. Revenue(o) >= 0
  BY DEF Shaped, Chargeable, Revenue
<1>12. h["bread"] \in Nat /\ h["cups"] \in Nat /\ h["cake"] \in Nat
       /\ h["bread"] = LineRevenue(o, "bread") /\ h["cups"] = LineRevenue(o, "cups")
       /\ h["cake"] = LineRevenue(o, "cake")
  BY <1>4, <1>5 DEF Shown
<1> QED
  BY <1>1, <1>2, <1>4, <1>5, <1>7, <1>8, <1>9, <1>10, <1>11, <1>12

(* Every cost of an Order is on one of its lines.                           *)
LEMMA CostByLine ==
  ASSUME CostInv, Attributed, NEW o \in Orders, DOMAIN bill[o].lines = LineKeys(o)
  PROVE  /\ Cost(o) \in Nat
         /\ \A k \in Shown : /\ CostOfLine(o, k) \in Nat
                             /\ k \notin LineKeys(o) => CostOfLine(o, k) = 0
         /\ Cost(o) = CostOfLine(o, "bread") + CostOfLine(o, "cups") + CostOfLine(o, "cake")
         /\ BesideLines(o) = 0
<1>1. PICK g \in [CostRows -> Nat] : g = ledger[o]
  BY DEF CostInv
<1>2. PICK S : S = {k \in CostRows : g[k] # 0}
  OBVIOUS
<1>3. /\ S \subseteq CostRows /\ IsFiniteSet(S) /\ Integral(g, S)
      /\ \A k \in S : g[k] \in Nat /\ k[2] \in LineKeys(o)
  BY <1>1, <1>2, RowsFinite, FS_Subset DEF Integral, Attributed
<1>4. Cost(o) = Added(g, S)
  <2>1. Over(S, LAMBDA k : g[k]) = Added(g, S)
    BY DEF Over, MapThenSumSet, MapThenFoldSet, Added, Adder
  <2> QED
    BY <1>1, <1>2, <2>1 DEF Cost, CostOf, RowsOf
<1>5. ASSUME NEW line
      PROVE  CostOfLine(o, line) = Added(g, {k \in S : k[2] = line})
  <2>1. PICK T : T = {k \in S : k[2] = line}
    OBVIOUS
  <2>2. Over(T, LAMBDA k : g[k]) = Added(g, T)
    BY DEF Over, MapThenSumSet, MapThenFoldSet, Added, Adder
  <2> QED
    BY <1>1, <1>2, <2>1, <2>2 DEF CostOfLine, CostOf, RowsOf
<1>6. PICK kind, h : /\ kind = [k \in CostRows |-> k[2]]
                     /\ h = [line \in Shown |-> CostOfLine(o, line)]
  OBVIOUS
<1>7. ASSUME NEW line \in Shown
      PROVE  /\ h[line] = Added(g, Class(S, kind, line))
             /\ h[line] \in Nat
             /\ line \notin LineKeys(o) => h[line] = 0
  <2>1. PICK T : T = {k \in S : k[2] = line}
    OBVIOUS
  <2>2. T = Class(S, kind, line)
    BY <1>3, <1>6, <2>1 DEF Class
  <2>3. IsFiniteSet(T) /\ \A k \in T : g[k] \in Nat
    BY <1>3, <2>1, FS_Subset
  <2>4. Added(g, T) \in Nat
    BY <2>3, SumNat
  <2>5. h[line] = Added(g, T)
    BY <1>5, <1>6, <2>1
  <2>6. line \notin LineKeys(o) => T = {}
    BY <1>3, <2>1
  <2> QED
    BY <2>2, <2>4, <2>5, <2>6, SumEmpty
<1>8. /\ IsFiniteSet(S) /\ Integral(g, S) /\ IsFiniteSet(Shown) /\ Integral(h, Shown)
      /\ \A k \in S : kind[k] \in Shown
      /\ \A line \in Shown : h[line] = Added(g, Class(S, kind, line))
  <2>1. LineKeys(o) \subseteq Shown
    BY DEF LineKeys, Shown
  <2> QED
    BY <1>3, <1>6, <1>7, <2>1, RowsFinite DEF Integral
<1>9. Added(h, Shown) = Added(g, S)
  BY ONLY <1>8, SumClasses
<1>10. Added(h, Shown) = h["bread"] + h["cups"] + h["cake"]
  BY <1>8, SumThree
<1>11. Added(g, S) \in Nat
  BY <1>3, SumNat
<1>12. BesideLines(o) = 0
  <2>1. {k \in RowsOf(o) : k[2] \notin DOMAIN bill[o].lines} = {}
    BY <1>1, <1>2, <1>3 DEF RowsOf
  <2>2. Over({}, LAMBDA k : g[k]) = Added(g, {})
    BY DEF Over, MapThenSumSet, MapThenFoldSet, Added, Adder
  <2> QED
    BY <1>1, <2>1, <2>2, SumEmpty DEF BesideLines, CostOf
<1>13. /\ h["bread"] = CostOfLine(o, "bread") /\ h["cups"] = CostOfLine(o, "cups")
       /\ h["cake"] = CostOfLine(o, "cake")
  BY <1>6 DEF Shown
<1> QED
  BY <1>4, <1>6, <1>7, <1>9, <1>10, <1>11, <1>12, <1>13

----------------------------------------------------------------------------
(* The key figures as sums over Orders.                                     *)

KeyFigures == {"revenue", "cost", "orders", "contribution"}

(* What one Order contributes to a key figure.                              *)
Part(k, o) ==
  CASE k = "revenue" -> Revenue(o)
    [] k = "cost" -> Cost(o)
    [] k = "orders" -> 1
    [] k = "contribution" -> Revenue(o) - Cost(o)
Parts(k) == [o \in Orders |-> Part(k, o)]

(* Orders that ended have what the reports ask of them.                     *)
Fit(S) ==
  /\ S \subseteq Orders /\ IsFiniteSet(S)
  /\ \A o \in S : /\ Shaped(o, bill[o]) /\ DOMAIN bill[o].lines = LineKeys(o)
                  /\ closedOn[o] \in Nat /\ paid[o] \in Nat

LEMMA DoneFit == ASSUME BooksInv, Reportable, NEW q PROVE Fit(Done(q))
<1>1. Done(q) \subseteq Orders /\ \A o \in Done(q) : status[o] = "COMPLETED"
  BY DEF Done, ClosedIn
<1>2. IsFiniteSet(Done(q))
  BY <1>1, Finiteness, FS_Subset
<1>3. \A o \in Done(q) : Shaped(o, bill[o])
  BY <1>1 DEF BooksInv, BillInv
<1>4. \A o \in Done(q) : DOMAIN bill[o].lines = LineKeys(o)
  BY <1>3 DEF Shaped
<1>5. \A o \in Done(q) : closedOn[o] \in Nat /\ paid[o] \in Nat
  BY <1>1 DEF Reportable, Dated, Collected, Ended
<1> QED
  BY <1>1, <1>2, <1>3, <1>4, <1>5 DEF Fit

LEMMA PartsType ==
  ASSUME BooksInv, Reportable, NEW S, Fit(S)
  PROVE  /\ \A k \in KeyFigures : Integral(Parts(k), S)
         /\ \A o \in S : Revenue(o) \in Nat /\ Cost(o) \in Nat
<1>1. ASSUME NEW o \in S PROVE Revenue(o) \in Nat /\ Cost(o) \in Nat
  <2>1. o \in Orders /\ Shaped(o, bill[o]) /\ DOMAIN bill[o].lines = LineKeys(o)
    BY DEF Fit
  <2>2. CostInv /\ Attributed
    BY DEF BooksInv, Reportable
  <2> QED
    BY <2>1, <2>2, RevenueByLine, CostByLine
<1>2. ASSUME NEW k \in KeyFigures, NEW o \in S PROVE Parts(k)[o] \in Int
  <2>1. Parts(k)[o] = Part(k, o)
    BY DEF Parts, Fit
  <2> QED
    BY <1>1, <2>1 DEF KeyFigures, Part
<1> QED
  BY <1>1, <1>2 DEF Integral

LEMMA KpisAdd ==
  ASSUME BooksInv, Reportable, NEW S, Fit(S)
  PROVE  \A k \in KeyFigures : Kpis(S)[k] = Added(Parts(k), S) /\ Kpis(S)[k] \in Int
<1>1. /\ S \subseteq Orders /\ IsFiniteSet(S) /\ \A k \in KeyFigures : Integral(Parts(k), S)
      /\ \A o \in S : Revenue(o) \in Nat /\ Cost(o) \in Nat
  BY PartsType DEF Fit
<1>2. Over(S, Revenue) = Added(Parts("revenue"), S)
  <2>1. PICK g : g = [o \in S |-> Revenue(o)]
    OBVIOUS
  <2>2. Over(S, Revenue) = Added(g, S)
    BY ONLY <2>1, ZenonT(60) DEF Over, MapThenSumSet, MapThenFoldSet, Added, Adder
  <2>3. Integral(g, S) /\ \A o \in S : g[o] = Parts("revenue")[o]
    BY <1>1, <2>1 DEF Integral, Parts, Part
  <2> QED
    BY <1>1, <2>2, <2>3, SumSame
<1>3. Over(S, Cost) = Added(Parts("cost"), S)
  <2>1. PICK g : g = [o \in S |-> Cost(o)]
    OBVIOUS
  <2>2. Over(S, Cost) = Added(g, S)
    BY ONLY <2>1, ZenonT(60) DEF Over, MapThenSumSet, MapThenFoldSet, Added, Adder
  <2>3. Integral(g, S) /\ \A o \in S : g[o] = Parts("cost")[o]
    BY <1>1, <2>1 DEF Integral, Parts, Part
  <2> QED
    BY <1>1, <2>2, <2>3, SumSame
<1>4. Cardinality(S) = Added(Parts("orders"), S)
  <2>1. \A o \in S : Parts("orders")[o] = 1
    BY <1>1 DEF Parts, Part
  <2> QED
    BY <1>1, <2>1, SumOnes
<1>5. Added(Parts("revenue"), S) = Added(Parts("contribution"), S) + Added(Parts("cost"), S)
  <2>1. PICK f, g, h : f = Parts("revenue") /\ g = Parts("contribution") /\ h = Parts("cost")
    OBVIOUS
  <2>2. Integral(g, S) /\ Integral(h, S)
    BY <1>1, <2>1 DEF KeyFigures
  <2>3. \A o \in S : f[o] = g[o] + h[o]
    BY <1>1, <2>1 DEF Parts, Part
  <2> QED
    BY <1>1, <2>1, <2>2, <2>3, SumPlus
<1>6. \A k \in KeyFigures : Added(Parts(k), S) \in Int
  BY <1>1, SumType
<1>7. PICK r \in Int, c \in Int, n \in Int, m \in Int :
        /\ r = Added(Parts("revenue"), S) /\ c = Added(Parts("cost"), S)
        /\ n = Added(Parts("orders"), S) /\ m = Added(Parts("contribution"), S)
  BY <1>6 DEF KeyFigures
<1>8. Kpis(S) = Figures(r, c, n)
  BY <1>2, <1>3, <1>4, <1>7 DEF Kpis
<1>9. m = r - c
  BY <1>5, <1>7
<1>10. /\ Kpis(S)["revenue"] = r /\ Kpis(S)["cost"] = c
       /\ Kpis(S)["orders"] = n /\ Kpis(S)["contribution"] = m
  BY <1>8, <1>9 DEF Figures
<1> QED
  BY <1>7, <1>10 DEF KeyFigures

----------------------------------------------------------------------------
(* The buckets share out the days of a period.                              *)

FallsIn(x, b) == b.from <= x /\ x <= b.to

(* Every day from a to z is in one bucket of s, and none before a.           *)
Tiles(s, a, z) ==
  /\ \A i \in DOMAIN s : a <= s[i].from
  /\ \A x \in Nat : a <= x /\ x <= z => \E i \in DOMAIN s : FallsIn(x, s[i])
  /\ \A x \in Nat : \A i, j \in DOMAIN s : FallsIn(x, s[i]) /\ FallsIn(x, s[j]) => i = j

LEMMA TilesCons ==
  ASSUME NEW p \in Periods, NEW t \in Seq(Segments(p)), NEW a \in Nat, NEW e \in Nat,
         NEW z \in Nat, a <= e, Tiles(t, e + 1, z), NEW s, s = <<[from |-> a, to |-> e]>> \o t
  PROVE  Tiles(s, a, z)
<1>1. PICK n \in Nat : n = Len(t) /\ DOMAIN t = 1..n
  BY LenProperties
<1>2. /\ DOMAIN s = 1..(n + 1)
      /\ s[1] = [from |-> a, to |-> e]
      /\ \A i \in 1..n : s[i + 1] = t[i]
  BY <1>1
<1>3. \A i \in 1..n : t[i].from \in Nat /\ t[i].to \in Nat
  BY <1>1 DEF Segments
<1>4. ASSUME NEW i \in 1..(n + 1), i # 1
      PROVE  \E j \in 1..n : i = j + 1 /\ s[i] = t[j] /\ s[i].from \in Nat /\ e + 1 <= s[i].from
  <2>1. PICK j \in 1..n : i = j + 1
    <3>1. i - 1 \in 1..n /\ i = (i - 1) + 1
      BY ONLY <1>4, n \in Nat
    <3> QED
      BY ONLY <3>1
  <2>2. s[i] = t[j]
    BY ONLY <1>2, <2>1
  <2>3. t[j].from \in Nat
    BY ONLY <1>3, <2>1
  <2>4. e + 1 <= t[j].from
    BY ONLY <1>1, <2>1, Tiles(t, e + 1, z) DEF Tiles
  <2> QED
    BY ONLY <2>1, <2>2, <2>3, <2>4
<1>5. ASSUME NEW i \in DOMAIN s PROVE a <= s[i].from
  BY <1>2, <1>4
<1>6. ASSUME NEW x \in Nat, a <= x, x <= z PROVE \E i \in DOMAIN s : FallsIn(x, s[i])
  <2>1. CASE x <= e
    BY <1>2, <1>6, <2>1 DEF FallsIn
  <2>2. CASE x > e
    <3>1. PICK j \in 1..n : FallsIn(x, t[j])
      BY <1>1, <1>6, <2>2 DEF Tiles
    <3>2. j + 1 \in DOMAIN s /\ FallsIn(x, s[j + 1])
      BY <1>2, <3>1
    <3> QED
      BY <3>2
  <2> QED
    BY <2>1, <2>2
<1>7. ASSUME NEW x \in Nat, NEW i \in DOMAIN s, NEW j \in DOMAIN s, FallsIn(x, s[i]), FallsIn(x, s[j])
      PROVE  i = j
  <2>1. i \in 1..(n + 1) /\ j \in 1..(n + 1)
    BY <1>2
  <2>2. CASE x <= e
    <3>1. i = 1
      BY <1>4, <1>7, <2>1, <2>2 DEF FallsIn
    <3>2. j = 1
      BY <1>4, <1>7, <2>1, <2>2 DEF FallsIn
    <3> QED
      BY <3>1, <3>2
  <2>3. CASE x > e
    <3>1. i # 1 /\ j # 1
      BY <1>2, <1>7, <2>3 DEF FallsIn
    <3>2. PICK k \in 1..n : i = k + 1 /\ s[i] = t[k]
      BY <1>4, <2>1, <3>1
    <3>3. PICK l \in 1..n : j = l + 1 /\ s[j] = t[l]
      BY <1>4, <2>1, <3>1
    <3>4. k = l
      BY <1>1, <1>7, <3>2, <3>3 DEF Tiles
    <3> QED
      BY <3>2, <3>3, <3>4
  <2> QED
    BY <2>2, <2>3
<1> QED
  BY <1>5, <1>6, <1>7 DEF Tiles

LEMMA BucketsTile ==
  ASSUME NEW p \in Periods
  PROVE  Buckets(p) \in Seq(Segments(p)) /\ Tiles(Buckets(p), p.from, p.to)
<1>1. PICK w : Walks(w, p) /\ Buckets(p) = w[p.from]
  BY BucketsWalk
<1>2. p.from \in Nat /\ p.to \in Nat
  BY ProductionAssumption DEF Periods
<1>3. \A day \in Nat : w[day] \in Seq(Segments(p))
  BY <1>1, WalkType
<1>4. \A day \in Nat : w[day] = IF day > p.to THEN <<>>
                                ELSE <<Segment(day, p)>> \o w[SegmentEnd(day, p) + 1]
  BY <1>1, Zenon DEF Walks
<1> DEFINE P == {k \in Nat : \A day \in Nat : day + k > p.to => Tiles(w[day], day, p.to)}
<1>5. ASSUME NEW day \in Nat, day > p.to PROVE Tiles(w[day], day, p.to)
  <2>1. w[day] = <<>> /\ DOMAIN w[day] = {}
    <3>1. w[day] = <<>>
      BY <1>4, <1>5
    <3>2. DOMAIN w[day] = 1..0
      BY <3>1, EmptySeq, LenProperties
    <3> QED
      BY <3>1, <3>2
  <2>2. \A x \in Nat : ~(day <= x /\ x <= p.to)
    BY <1>2, <1>5
  <2> QED
    BY ONLY <2>1, <2>2 DEF Tiles
<1>6. 0 \in P
  BY <1>2, <1>5
<1>7. ASSUME NEW k \in Nat, k \in P PROVE k + 1 \in P
  <2>1. ASSUME NEW day \in Nat, day + (k + 1) > p.to PROVE Tiles(w[day], day, p.to)
    <3>1. CASE day > p.to
      BY <1>5, <3>1
    <3>2. CASE day <= p.to
      <4>1. PICK e \in Nat : e = SegmentEnd(day, p) /\ day <= e
        BY <3>2, SegmentEnds
      <4>2. ~(day > p.to)
        BY <1>2, <3>2
      <4>3. w[day] = <<Segment(day, p)>> \o w[SegmentEnd(day, p) + 1]
        BY <1>4, <4>2, Zenon
      <4>4. PICK t : t = w[e + 1]
        OBVIOUS
      <4>5. e + 1 \in Nat /\ e + 1 + k > p.to
        BY <1>2, <2>1, <4>1
      <4>6. t \in Seq(Segments(p)) /\ Tiles(t, e + 1, p.to)
        BY <1>3, <1>7, <4>4, <4>5
      <4>7. w[day] = <<[from |-> day, to |-> e]>> \o t
        BY <4>1, <4>3, <4>4 DEF Segment
      <4> QED
        BY <1>2, <4>1, <4>6, <4>7, TilesCons
    <3> QED
      BY <1>2, <3>1, <3>2
  <2> QED
    BY <2>1
<1> HIDE DEF P
<1>8. p.to + 1 \in P
  BY <1>2, <1>6, <1>7, AllNaturals
<1> QED
  BY <1>1, <1>2, <1>3, <1>8 DEF P

(* The trends, bucket by bucket, add up to the key figures of the period.    *)
LEMMA TrendsAdd ==
  ASSUME BooksInv, Reportable, NEW p \in Periods, NEW k \in KeyFigures
  PROVE  AddUp([i \in DOMAIN Trends(p) |-> Trends(p)[i][k]]) = Added(Parts(k), Done(p))
<1>1. PICK b \in Seq(Segments(p)) : b = Buckets(p) /\ Tiles(b, p.from, p.to)
  BY BucketsTile
<1>2. PICK n \in Nat : n = Len(b) /\ DOMAIN b = 1..n
  BY <1>1, LenProperties
<1>3. p.from \in Nat /\ p.to \in Nat
  BY ProductionAssumption DEF Periods
<1>4. PICK D, g, N : D = Done(p) /\ g = Parts(k) /\ N = 1..n
  OBVIOUS
<1>5. Fit(D) /\ IsFiniteSet(D) /\ Integral(g, D) /\ IsFiniteSet(N)
  BY <1>2, <1>4, DoneFit, PartsType, UpTo DEF Fit
<1>6. /\ \A o \in D : closedOn[o] \in Nat /\ p.from <= closedOn[o] /\ closedOn[o] <= p.to
      /\ D = {o \in Orders : status[o] = "COMPLETED" /\ FallsIn(closedOn[o], p)}
  BY <1>4, <1>5 DEF Fit, Done, ClosedIn, FallsIn
<1>7. \A i \in N : b[i].from \in Nat /\ b[i].to \in Nat /\ b[i].to <= p.to /\ p.from <= b[i].from
  BY <1>1, <1>2, <1>4 DEF Segments, Tiles
<1>8. PICK kind : kind = [o \in D |-> CHOOSE i \in N : FallsIn(closedOn[o], b[i])]
  OBVIOUS
<1>9. ASSUME NEW o \in D PROVE kind[o] \in N /\ FallsIn(closedOn[o], b[kind[o]])
  <2>1. \E i \in N : FallsIn(closedOn[o], b[i])
    BY <1>1, <1>2, <1>4, <1>6 DEF Tiles
  <2> QED
    BY <1>8, <2>1
<1>10. ASSUME NEW i \in N PROVE Done(b[i]) = Class(D, kind, i)
  <2>1. ASSUME NEW o \in Done(b[i]) PROVE o \in D /\ kind[o] = i
    <3>1. o \in Orders /\ status[o] = "COMPLETED" /\ FallsIn(closedOn[o], b[i])
      BY DEF Done, ClosedIn, FallsIn
    <3>2. closedOn[o] \in Nat
      BY <3>1 DEF Reportable, Dated, Ended
    <3>3. o \in D
      BY <1>3, <1>6, <1>7, <3>1, <3>2 DEF FallsIn
    <3>4. kind[o] = i
      BY <1>1, <1>2, <1>4, <1>9, <3>1, <3>2, <3>3 DEF Tiles
    <3> QED
      BY <3>3, <3>4
  <2>2. ASSUME NEW o \in D, kind[o] = i PROVE o \in Done(b[i])
    BY <1>6, <1>9, <2>2 DEF Done, ClosedIn, FallsIn
  <2> QED
    BY <2>1, <2>2 DEF Class
<1>11. PICK h : h = [i \in N |-> Trends(p)[i][k]]
  OBVIOUS
<1>12. ASSUME NEW i \in N PROVE h[i] = Added(g, Class(D, kind, i)) /\ h[i] \in Int
  <2>1. Fit(Done(b[i]))
    BY DoneFit
  <2>2. Kpis(Done(b[i]))[k] = Added(g, Done(b[i])) /\ Kpis(Done(b[i]))[k] \in Int
    BY <1>4, <2>1, KpisAdd
  <2>3. Trends(p)[i] = Kpis(Done(b[i]))
    BY <1>1, <1>2, <1>4 DEF Trends
  <2> QED
    BY <1>10, <1>11, <2>2, <2>3
<1>13. DOMAIN h = 1..n /\ Integral(h, 1..n)
  BY <1>4, <1>11, <1>12 DEF Integral
<1>14. AddUp(h) = Added(h, N)
  BY <1>4, <1>13, AddUpIsSum
<1>15. Added(h, N) = Added(g, D)
  <2>1. /\ IsFiniteSet(D) /\ Integral(g, D) /\ IsFiniteSet(N)
        /\ \A o \in D : kind[o] \in N
        /\ \A i \in N : h[i] = Added(g, Class(D, kind, i))
    BY <1>5, <1>9, <1>12
  <2> QED
    BY ONLY <2>1, SumClasses
<1>16. DOMAIN Trends(p) = N
  BY <1>1, <1>2, <1>4 DEF Trends
<1> QED
  BY <1>4, <1>11, <1>14, <1>15, <1>16

(* A row of the products report adds up what its Orders asked for and cost.  *)
LineParts(k) == [o \in Orders |-> LineRevenue(o, k)]
LineCosts(k) == [o \in Orders |-> CostOfLine(o, k)]

LEMMA RowAdds ==
  ASSUME BooksInv, Reportable, NEW p, NEW k \in Shown
  PROVE  /\ Row(p, k).figures.revenue = Added(LineParts(k), Done(p))
         /\ Row(p, k).figures.cost = Added(LineCosts(k), Done(p))
<1>1. PICK D, S : D = Done(p) /\ S = {o \in D : k \in DOMAIN bill[o].lines}
  OBVIOUS
<1>2. /\ D \subseteq Orders /\ IsFiniteSet(D) /\ S \subseteq D /\ IsFiniteSet(S)
      /\ \A o \in D : Shaped(o, bill[o]) /\ DOMAIN bill[o].lines = LineKeys(o)
  BY <1>1, DoneFit, FS_Subset DEF Fit
<1>3. ASSUME NEW o \in D
      PROVE  /\ LineParts(k)[o] = LineRevenue(o, k) /\ LineRevenue(o, k) \in Nat
             /\ LineCosts(k)[o] = CostOfLine(o, k) /\ CostOfLine(o, k) \in Nat
             /\ o \notin S => LineRevenue(o, k) = 0 /\ CostOfLine(o, k) = 0
             /\ o \in S => LineRevenue(o, k) = Subtotal(bill[o].lines[k])
  <2>1. o \in Orders /\ Shaped(o, bill[o]) /\ DOMAIN bill[o].lines = LineKeys(o)
    BY <1>2
  <2>2. CostInv /\ Attributed
    BY DEF BooksInv, Reportable
  <2>3. LineRevenue(o, k) \in Nat
    BY <2>1, RevenueByLine
  <2>4. CostOfLine(o, k) \in Nat /\ (k \notin LineKeys(o) => CostOfLine(o, k) = 0)
    BY <2>1, <2>2, CostByLine
  <2>5. o \in S <=> k \in LineKeys(o)
    BY <1>1, <2>1
  <2> QED
    BY <2>1, <2>3, <2>4, <2>5 DEF LineParts, LineCosts, LineRevenue
<1>4. PICK f, c : f = LineParts(k) /\ c = LineCosts(k)
  OBVIOUS
<1>5. /\ Integral(f, D) /\ Integral(c, D) /\ Integral(f, S) /\ Integral(c, S)
      /\ Masks(f, f, S, D) /\ Masks(c, c, S, D) /\ S \in SUBSET D
  BY <1>2, <1>3, <1>4 DEF Integral, Masks
<1>6. Added(f, D) = Added(f, S) /\ Added(c, D) = Added(c, S)
  <2>1. Added(f, D) = Added(f, S)
    BY <1>2, <1>5, SumPart
  <2>2. Added(c, D) = Added(c, S)
    BY <1>2, <1>5, SumPart
  <2> QED
    BY <2>1, <2>2
<1>7. Over(S, LAMBDA o : Subtotal(bill[o].lines[k])) = Added(f, S)
  <2>1. PICK g : g = [o \in S |-> Subtotal(bill[o].lines[k])]
    OBVIOUS
  <2>2. Over(S, LAMBDA o : Subtotal(bill[o].lines[k])) = Added(g, S)
    BY ONLY <2>1, ZenonT(60) DEF Over, MapThenSumSet, MapThenFoldSet, Added, Adder
  <2>3. \A o \in S : f[o] = g[o]
    BY <1>2, <1>3, <1>4, <2>1
  <2>4. Added(f, S) = Added(g, S)
    BY <1>2, <1>5, <2>3, SumSame
  <2> QED
    BY <2>2, <2>4
<1>8. Over(S, LAMBDA o : CostOfLine(o, k)) = Added(c, S)
  <2>1. PICK g : g = [o \in S |-> CostOfLine(o, k)]
    OBVIOUS
  <2>2. Over(S, LAMBDA o : CostOfLine(o, k)) = Added(g, S)
    BY ONLY <2>1, ZenonT(60) DEF Over, MapThenSumSet, MapThenFoldSet, Added, Adder
  <2>3. \A o \in S : c[o] = g[o]
    BY <1>2, <1>3, <1>4, <2>1
  <2>4. Added(c, S) = Added(g, S)
    BY <1>2, <1>5, <2>3, SumSame
  <2> QED
    BY <2>2, <2>4
<1>9. Row(p, k) = Sold(S, k)
  BY <1>1 DEF Row, Sold
<1>10. /\ Sold(S, k).figures.revenue = Over(S, LAMBDA o : Subtotal(bill[o].lines[k]))
       /\ Sold(S, k).figures.cost = Over(S, LAMBDA o : CostOfLine(o, k))
  BY DEF Sold, Figures
<1> QED
  BY <1>1, <1>4, <1>6, <1>7, <1>8, <1>9, <1>10

(* A sum of sums of five.                                                   *)
FiveFit(S, h, a, b, c, d, e) ==
  /\ IsFiniteSet(S)
  /\ Integral(a, S) /\ Integral(b, S) /\ Integral(c, S) /\ Integral(d, S) /\ Integral(e, S)
  /\ \A x \in S : h[x] = a[x] + b[x] + c[x] + d[x] + e[x]

FiveAdd(S, h, a, b, c, d, e) ==
  /\ Added(h, S) = Added(a, S) + Added(b, S) + Added(c, S) + Added(d, S) + Added(e, S)
  /\ {Added(a, S), Added(b, S), Added(c, S), Added(d, S), Added(e, S)} \subseteq Int

LEMMA SumOfFive ==
  ASSUME NEW S, NEW h, NEW a, NEW b, NEW c, NEW d, NEW e, FiveFit(S, h, a, b, c, d, e)
  PROVE  FiveAdd(S, h, a, b, c, d, e)
<1> USE DEF FiveFit
<1>1. PICK u, v, w : /\ u = [x \in S |-> a[x] + b[x]]
                     /\ v = [x \in S |-> u[x] + c[x]]
                     /\ w = [x \in S |-> v[x] + d[x]]
  OBVIOUS
<1>2. Integral(u, S) /\ Integral(v, S) /\ Integral(w, S) /\ \A x \in S : h[x] = w[x] + e[x]
  BY <1>1 DEF Integral
<1>3. Added(u, S) = Added(a, S) + Added(b, S)
  BY <1>1, SumPlus
<1>4. Added(v, S) = Added(u, S) + Added(c, S)
  BY <1>1, <1>2, SumPlus
<1>5. Added(w, S) = Added(v, S) + Added(d, S)
  BY <1>1, <1>2, SumPlus
<1>6. Added(h, S) = Added(w, S) + Added(e, S)
  BY <1>2, SumPlus
<1>7. /\ Added(a, S) \in Int /\ Added(b, S) \in Int /\ Added(c, S) \in Int
      /\ Added(d, S) \in Int /\ Added(e, S) \in Int
  BY SumType
<1> QED
  BY <1>3, <1>4, <1>5, <1>6, <1>7 DEF FiveAdd

(* The products report loses and makes up nothing.                          *)
LEMMA ProductsAdd ==
  ASSUME BooksInv, Reportable, NEW p
  PROVE  /\ Products(p).unreconciled = 0 /\ Products(p).unattributed = 0
         /\ Over(Shown, LAMBDA k : Products(p).rows[k].figures.cost) = Added(Parts("cost"), Done(p))
<1>1. PICK D : D = Done(p)
  OBVIOUS
<1>2. /\ Fit(D) /\ IsFiniteSet(D) /\ D \subseteq Orders /\ CostInv /\ Attributed
      /\ \A o \in D : Shaped(o, bill[o]) /\ DOMAIN bill[o].lines = LineKeys(o)
  BY <1>1, DoneFit DEF Fit, BooksInv, Reportable
<1>3. /\ Integral(Parts("revenue"), D) /\ Integral(Parts("cost"), D)
      /\ Over(D, Revenue) = Added(Parts("revenue"), D)
  <2>1. Kpis(D)["revenue"] = Over(D, Revenue)
    BY DEF Kpis, Figures
  <2> QED
    BY <1>2, <2>1, PartsType, KpisAdd DEF KeyFigures
<1>4. PICK f1, f2, f3, c1, c2, c3 :
        /\ f1 = LineParts("bread") /\ f2 = LineParts("cups") /\ f3 = LineParts("cake")
        /\ c1 = LineCosts("bread") /\ c2 = LineCosts("cups") /\ c3 = LineCosts("cake")
  OBVIOUS
<1>5. PICK a, t, z : /\ a = [o \in D |-> bill[o].adjustment] /\ t = [o \in D |-> bill[o].tax]
                     /\ z = [o \in D |-> 0]
  OBVIOUS
<1>6. ASSUME NEW o \in D
      PROVE  /\ {f1[o], f2[o], f3[o], c1[o], c2[o], c3[o], a[o], t[o], z[o]} \subseteq Int
             /\ Parts("revenue")[o] = f1[o] + f2[o] + f3[o] + a[o] + t[o]
             /\ Parts("cost")[o] = c1[o] + c2[o] + c3[o] + z[o] + z[o]
             /\ BesideLines(o) = 0
  <2>1. o \in Orders /\ Shaped(o, bill[o]) /\ DOMAIN bill[o].lines = LineKeys(o)
    BY <1>2
  <2>2. /\ f1[o] = LineRevenue(o, "bread") /\ f2[o] = LineRevenue(o, "cups")
        /\ f3[o] = LineRevenue(o, "cake") /\ c1[o] = CostOfLine(o, "bread")
        /\ c2[o] = CostOfLine(o, "cups") /\ c3[o] = CostOfLine(o, "cake")
        /\ a[o] = bill[o].adjustment /\ t[o] = bill[o].tax /\ z[o] = 0
        /\ Parts("revenue")[o] = Revenue(o) /\ Parts("cost")[o] = Cost(o)
    BY <1>4, <1>5, <2>1 DEF LineParts, LineCosts, Parts, Part
  <2>3. {"bread", "cups", "cake"} \subseteq Shown
    BY DEF Shown
  <2>4. /\ {LineRevenue(o, "bread"), LineRevenue(o, "cups"), LineRevenue(o, "cake")} \subseteq Nat
        /\ bill[o].adjustment \in Int /\ bill[o].tax \in Int
        /\ Revenue(o) = LineRevenue(o, "bread") + LineRevenue(o, "cups") + LineRevenue(o, "cake")
                          + bill[o].adjustment + bill[o].tax
    BY <2>1, <2>3, RevenueByLine
  <2>5. /\ {CostOfLine(o, "bread"), CostOfLine(o, "cups"), CostOfLine(o, "cake")} \subseteq Nat
        /\ Cost(o) = CostOfLine(o, "bread") + CostOfLine(o, "cups") + CostOfLine(o, "cake")
        /\ BesideLines(o) = 0
    BY <1>2, <2>1, <2>3, CostByLine
  <2> QED
    BY <2>2, <2>4, <2>5
<1>7. /\ Integral(f1, D) /\ Integral(f2, D) /\ Integral(f3, D) /\ Integral(a, D) /\ Integral(t, D)
      /\ Integral(c1, D) /\ Integral(c2, D) /\ Integral(c3, D) /\ Integral(z, D)
  BY <1>6 DEF Integral
<1>8. PICK r, s : r = Parts("revenue") /\ s = Parts("cost")
  OBVIOUS
<1>9. /\ Added(r, D) = Added(f1, D) + Added(f2, D) + Added(f3, D) + Added(a, D) + Added(t, D)
      /\ {Added(f1, D), Added(f2, D), Added(f3, D), Added(a, D), Added(t, D)} \subseteq Int
  <2>1. FiveFit(D, r, f1, f2, f3, a, t)
    BY <1>2, <1>6, <1>7, <1>8 DEF FiveFit
  <2>2. FiveAdd(D, r, f1, f2, f3, a, t)
    BY <2>1, SumOfFive
  <2> QED
    BY <2>2 DEF FiveAdd
<1>10. /\ Added(s, D) = Added(c1, D) + Added(c2, D) + Added(c3, D)
       /\ {Added(c1, D), Added(c2, D), Added(c3, D)} \subseteq Int
  <2>1. FiveFit(D, s, c1, c2, c3, z, z)
    BY <1>2, <1>6, <1>7, <1>8 DEF FiveFit
  <2>2. FiveAdd(D, s, c1, c2, c3, z, z)
    BY <2>1, SumOfFive
  <2>3. Added(z, D) = 0
    <3>1. Masks(z, z, {}, D) /\ {} \in SUBSET D
      BY <1>5 DEF Masks
    <3>2. Added(z, D) = Added(z, {})
      BY <1>2, <1>7, <3>1, SumPart
    <3> QED
      BY <3>2, SumEmpty
  <2> QED
    BY ONLY <2>2, <2>3 DEF FiveAdd
<1>11. PICK R : R = [k \in Shown |-> Row(p, k)]
  OBVIOUS
<1>12. PICK h, c : /\ h = [k \in Shown |-> R[k].figures.revenue]
                   /\ c = [k \in Shown |-> R[k].figures.cost]
  OBVIOUS
<1>13. /\ h["bread"] = Added(f1, D) /\ h["cups"] = Added(f2, D) /\ h["cake"] = Added(f3, D)
       /\ c["bread"] = Added(c1, D) /\ c["cups"] = Added(c2, D) /\ c["cake"] = Added(c3, D)
  <2>1. \A k \in Shown : h[k] = Added(LineParts(k), D) /\ c[k] = Added(LineCosts(k), D)
    BY <1>1, <1>11, <1>12, RowAdds
  <2> QED
    BY <1>4, <2>1 DEF Shown
<1>14. Integral(h, Shown) /\ Integral(c, Shown)
  BY <1>9, <1>10, <1>13 DEF Integral, Shown
<1>15. /\ Added(h, Shown) = Added(f1, D) + Added(f2, D) + Added(f3, D)
       /\ Added(c, Shown) = Added(c1, D) + Added(c2, D) + Added(c3, D)
  BY <1>13, <1>14, SumThree
<1>16. Over(Shown, LAMBDA k : R[k].figures.revenue) = Added(h, Shown)
  BY ONLY <1>12, ZenonT(60) DEF Over, MapThenSumSet, MapThenFoldSet, Added, Adder
<1>17. Over(Shown, LAMBDA k : R[k].figures.cost) = Added(c, Shown)
  BY ONLY <1>12, ZenonT(60) DEF Over, MapThenSumSet, MapThenFoldSet, Added, Adder
<1>18. Over(D, LAMBDA o : bill[o].adjustment) = Added(a, D)
  BY ONLY <1>5, ZenonT(60) DEF Over, MapThenSumSet, MapThenFoldSet, Added, Adder
<1>19. Over(D, LAMBDA o : bill[o].tax) = Added(t, D)
  BY ONLY <1>5, ZenonT(60) DEF Over, MapThenSumSet, MapThenFoldSet, Added, Adder
<1>20. Over(D, BesideLines) = 0
  <2>1. z = [o \in D |-> BesideLines(o)]
    BY <1>5, <1>6
  <2>2. Over(D, BesideLines) = Added(z, D)
    BY ONLY <2>1, ZenonT(60) DEF Over, MapThenSumSet, MapThenFoldSet, Added, Adder
  <2>3. Masks(z, z, {}, D) /\ {} \in SUBSET D
    BY <1>5 DEF Masks
  <2>4. Added(z, D) = Added(z, {})
    BY <1>2, <1>7, <2>3, SumPart
  <2> QED
    BY <2>2, <2>4, SumEmpty
<1>21. PICK x, y, u, v : /\ x = Over(D, LAMBDA o : bill[o].adjustment)
                         /\ y = Over(D, LAMBDA o : bill[o].tax)
                         /\ u = Over(D, BesideLines) /\ v = Over(D, Revenue)
  OBVIOUS
<1>22. Products(p) = ProductsOf(R, x, y, u, v)
  BY <1>1, <1>11, <1>21 DEF Products, ProductsOf, BesideLines
<1>23. /\ Products(p).unattributed = u /\ Products(p).rows = R
       /\ Products(p).unreconciled = v - x - y - Over(Shown, LAMBDA k : R[k].figures.revenue)
  BY <1>22 DEF ProductsOf
<1>24. v - x - y - Added(h, Shown) = 0
  <2>1. v = Added(r, D) /\ x = Added(a, D) /\ y = Added(t, D)
    BY <1>3, <1>8, <1>18, <1>19, <1>21
  <2> QED
    BY ONLY <1>9, <1>15, <2>1
<1> QED
  BY <1>1, <1>8, <1>10, <1>15, <1>16, <1>17, <1>20, <1>21, <1>23, <1>24

----------------------------------------------------------------------------
(* The same Orders, by who bought them.                                     *)

LEMMA OrdersFit ==
  ASSUME BooksInv, Reportable, NEW p, NEW c
  PROVE  Fit(OrdersOf(Done(p), c))
<1>1. PICK D : D = Done(p)
  OBVIOUS
<1>2. Fit(D)
  BY <1>1, DoneFit
<1>3. OrdersOf(D, c) \subseteq D
  BY DEF OrdersOf
<1>4. IsFiniteSet(OrdersOf(D, c))
  BY <1>2, <1>3, FS_Subset DEF Fit
<1> QED
  BY <1>1, <1>2, <1>3, <1>4 DEF Fit

BySeen(p, k) == [c \in CustomersSeen(p) |-> Added(Parts(k), OrdersOf(Done(p), c))]

(* Every Order is one of a customer who is seen, or of a guest.             *)
LEMMA CustomersShare ==
  ASSUME BooksInv, Reportable, NEW p, NEW k \in KeyFigures
  PROVE  /\ Added(Parts(k), Done(p))
              = Added(BySeen(p, k), CustomersSeen(p)) + Added(Parts(k), OrdersOf(Done(p), Guest))
         /\ Added(BySeen(p, k), CustomersSeen(p)) \in Int
         /\ Integral(BySeen(p, k), CustomersSeen(p)) /\ IsFiniteSet(CustomersSeen(p))
<1>1. PICK D, g, C : D = Done(p) /\ g = Parts(k) /\ C = CustomersSeen(p)
  OBVIOUS
<1>2. Fit(D) /\ IsFiniteSet(D) /\ Integral(g, D)
  BY <1>1, DoneFit, PartsType DEF Fit
<1>3. PICK kind : kind = [o \in D |-> bill[o].customer]
  OBVIOUS
<1>4. PICK T : T = {kind[o] : o \in D}
  OBVIOUS
<1>5. IsFiniteSet(T)
  <2>1. kind \in Surjection(D, T)
    BY <1>3, <1>4 DEF Surjection
  <2> QED
    BY <1>2, <2>1, FS_Surjection
<1>6. PICK K : K = C \cup {Guest}
  OBVIOUS
<1>7. C \subseteq T /\ Guest \notin C
  BY <1>1, <1>3, <1>4, BooksAssumption DEF CustomersSeen, OrdersOf
<1>8. IsFiniteSet(C) /\ IsFiniteSet(K)
  BY <1>5, <1>6, <1>7, FS_Subset, FS_AddElement
<1>9. \A o \in D : kind[o] \in K
  <2> SUFFICES ASSUME NEW o \in D PROVE bill[o].customer \in K
    BY <1>3
  <2>1. bill[o] \in Bills
    BY <1>2 DEF Fit, Shaped
  <2>2. bill[o].customer \in Customers \cup {Guest}
    BY <2>1 DEF Bills
  <2>3. bill[o].customer \in Customers => bill[o].customer \in C
    BY <1>1 DEF CustomersSeen, OrdersOf
  <2> QED
    BY <1>6, <2>2, <2>3
<1>10. PICK h : h = [c \in K |-> Added(g, OrdersOf(D, c))]
  OBVIOUS
<1>11. \A c \in K : h[c] = Added(g, Class(D, kind, c))
  <2> SUFFICES ASSUME NEW c \in K PROVE OrdersOf(D, c) = Class(D, kind, c)
    BY <1>10
  <2> QED
    BY <1>3 DEF OrdersOf, Class
<1>12. Added(h, K) = Added(g, D)
  BY <1>2, <1>8, <1>9, <1>11, SumClasses
<1>13. Integral(h, K)
  <2> SUFFICES ASSUME NEW c \in K PROVE Added(g, OrdersOf(D, c)) \in Int
    BY <1>10 DEF Integral
  <2>1. Fit(OrdersOf(D, c))
    BY <1>1, OrdersFit
  <2>2. IsFiniteSet(OrdersOf(D, c)) /\ Integral(g, OrdersOf(D, c))
    BY <1>1, <2>1, PartsType DEF Fit
  <2> QED
    BY <2>2, SumType
<1>14. Guest \in K /\ K \ {Guest} = C
  BY <1>6, <1>7
<1>15. Added(h, K) = h[Guest] + Added(h, C)
  BY <1>8, <1>13, <1>14, SumPick
<1>16. PICK b : b = BySeen(p, k)
  OBVIOUS
<1>17. Integral(h, C) /\ Integral(b, C) /\ \A c \in C : b[c] = h[c]
  BY <1>1, <1>6, <1>10, <1>13, <1>16 DEF Integral, BySeen
<1>18. Added(b, C) = Added(h, C) /\ Added(h, C) \in Int
  BY <1>8, <1>17, SumSame, SumType
<1>19. h[Guest] = Added(g, OrdersOf(D, Guest)) /\ h[Guest] \in Int
  BY <1>10, <1>13, <1>14 DEF Integral
<1> QED
  BY <1>1, <1>8, <1>12, <1>15, <1>16, <1>17, <1>18, <1>19

(* The customers report, with its guests, tells the revenue and the Orders.  *)
LEMMA CustomersAdd ==
  ASSUME BooksInv, Reportable, NEW p
  PROVE  /\ Over(CustomersSeen(p), LAMBDA c : CustomersReport(p).rows[c].revenue)
              + CustomersReport(p).guest.revenue = Added(Parts("revenue"), Done(p))
         /\ Over(CustomersSeen(p), LAMBDA c : CustomersReport(p).rows[c].orders)
              + CustomersReport(p).guest.orders = Added(Parts("orders"), Done(p))
         /\ DOMAIN CustomersReport(p).rows = CustomersSeen(p)
<1>1. PICK C, D : C = CustomersSeen(p) /\ D = Done(p)
  OBVIOUS
<1>2. ASSUME NEW c
      PROVE  /\ Over(OrdersOf(D, c), Revenue) = Added(Parts("revenue"), OrdersOf(D, c))
             /\ Cardinality(OrdersOf(D, c)) = Added(Parts("orders"), OrdersOf(D, c))
  <2>1. PICK S : S = OrdersOf(D, c)
    OBVIOUS
  <2>2. Fit(S)
    BY <1>1, <2>1, OrdersFit
  <2>3. /\ Kpis(S)["revenue"] = Added(Parts("revenue"), S)
        /\ Kpis(S)["orders"] = Added(Parts("orders"), S)
    BY <2>2, KpisAdd DEF KeyFigures
  <2>4. Kpis(S)["revenue"] = Over(S, Revenue) /\ Kpis(S)["orders"] = Cardinality(S)
    BY DEF Kpis, Figures
  <2> QED
    BY <2>1, <2>3, <2>4
<1>3. PICK R : R = CustomersReport(p).rows
  OBVIOUS
<1>4. R = [c \in C |-> CustomerRow(p, c)]
  BY <1>1, <1>3 DEF CustomersReport
<1>5. \A c \in C : /\ R[c].revenue = Added(Parts("revenue"), OrdersOf(D, c))
                   /\ R[c].orders = Added(Parts("orders"), OrdersOf(D, c))
  <2> SUFFICES ASSUME NEW c \in C
               PROVE  /\ CustomerRow(p, c).revenue = Over(OrdersOf(D, c), Revenue)
                      /\ CustomerRow(p, c).orders = Cardinality(OrdersOf(D, c))
    BY <1>2, <1>4
  <2> QED
    BY <1>1 DEF CustomerRow
<1>6. PICK x, y : x = [c \in C |-> R[c].revenue] /\ y = [c \in C |-> R[c].orders]
  OBVIOUS
<1>7. x = BySeen(p, "revenue") /\ y = BySeen(p, "orders")
  BY <1>1, <1>5, <1>6 DEF BySeen
<1>8. Over(C, LAMBDA c : R[c].revenue) = Added(x, C)
  BY ONLY <1>6, ZenonT(60) DEF Over, MapThenSumSet, MapThenFoldSet, Added, Adder
<1>9. Over(C, LAMBDA c : R[c].orders) = Added(y, C)
  BY ONLY <1>6, ZenonT(60) DEF Over, MapThenSumSet, MapThenFoldSet, Added, Adder
<1>10. /\ CustomersReport(p).guest.revenue = Added(Parts("revenue"), OrdersOf(D, Guest))
       /\ CustomersReport(p).guest.orders = Added(Parts("orders"), OrdersOf(D, Guest))
  BY <1>1, <1>2 DEF CustomersReport
<1>11. /\ Added(Parts("revenue"), D) = Added(x, C) + Added(Parts("revenue"), OrdersOf(D, Guest))
       /\ Added(Parts("orders"), D) = Added(y, C) + Added(Parts("orders"), OrdersOf(D, Guest))
  BY <1>1, <1>7, CustomersShare DEF KeyFigures
<1>12. DOMAIN R = C
  BY <1>4
<1> QED
  BY <1>1, <1>3, <1>8, <1>9, <1>10, <1>11, <1>12

----------------------------------------------------------------------------
(* Order by Order, and what is owed.                                        *)

(* The contributions of the completed Orders in the list are all there is.   *)
LEMMA OrdersAdd ==
  ASSUME BooksInv, Reportable, NEW p
  PROVE  Over({o \in DOMAIN OrdersReport(p).rows : OrdersReport(p).rows[o].status = "COMPLETED"},
              LAMBDA o : OrdersReport(p).rows[o].contribution) = Added(Parts("contribution"), Done(p))
<1>1. PICK rows, D : rows = OrdersReport(p).rows /\ D = Done(p)
  OBVIOUS
<1>2. Fit(D) /\ IsFiniteSet(D) /\ D \subseteq Orders /\ Integral(Parts("contribution"), D)
  BY <1>1, DoneFit, PartsType DEF Fit, KeyFigures
<1>3. {o \in DOMAIN rows : rows[o].status = "COMPLETED"} = D
  <2>1. rows = [o \in D \cup ClosedIn(p, "CANCELED") |-> OrderRow(o)]
    BY <1>1 DEF OrdersReport
  <2>2. \A o \in D : status[o] = "COMPLETED"
    BY <1>1 DEF Done, ClosedIn
  <2>3. \A o \in ClosedIn(p, "CANCELED") : status[o] = "CANCELED"
    BY DEF ClosedIn
  <2>4. \A o : OrderRow(o).status = status[o]
    BY DEF OrderRow
  <2> QED
    BY <2>1, <2>2, <2>3, <2>4
<1>4. PICK g : g = [o \in D |-> rows[o].contribution]
  OBVIOUS
<1>5. Over(D, LAMBDA o : rows[o].contribution) = Added(g, D)
  BY ONLY <1>4, ZenonT(60) DEF Over, MapThenSumSet, MapThenFoldSet, Added, Adder
<1>6. \A o \in D : g[o] = Parts("contribution")[o]
  <2> SUFFICES ASSUME NEW o \in D
               PROVE  rows[o].contribution = Parts("contribution")[o]
    BY <1>4
  <2>1. rows[o] = OrderRow(o) /\ status[o] = "COMPLETED"
    BY <1>1 DEF OrdersReport, Done, ClosedIn
  <2> QED
    BY <1>2, <2>1 DEF OrderRow, Parts, Part
<1>7. PICK c : c = Parts("contribution")
  OBVIOUS
<1>8. Integral(c, D) /\ Integral(g, D) /\ \A o \in D : g[o] = c[o]
  BY <1>2, <1>6, <1>7 DEF Integral
<1>9. Added(g, D) = Added(c, D)
  BY <1>2, <1>8, SumSame
<1> QED
  BY <1>1, <1>3, <1>5, <1>7, <1>9

(* What is outstanding is what was asked and not paid.                      *)
LEMMA DebtsAdd ==
  ASSUME BooksInv, Reportable, NEW p
  PROVE  OrdersReport(p).summary.outstanding.balance = Added(Parts("revenue"), Done(p))
           - Over(Done(p), LAMBDA o : MinOf(paid[o], Revenue(o)))
<1>1. PICK D, U, r : D = Done(p) /\ U = Unpaid(p) /\ r = Parts("revenue")
  OBVIOUS
<1>2. /\ IsFiniteSet(D) /\ D \subseteq Orders /\ Integral(r, D)
      /\ \A o \in D : paid[o] \in Nat /\ Revenue(o) \in Nat /\ r[o] = Revenue(o)
  BY <1>1, DoneFit, PartsType DEF Fit, KeyFigures, Parts, Part
<1>3. PICK b, m, u : /\ b = [o \in D |-> Balance(o)]
                     /\ m = [o \in D |-> MinOf(paid[o], Revenue(o))]
                     /\ u = [o \in U |-> Balance(o)]
  OBVIOUS
<1>4. \A o \in D : /\ b[o] = Balance(o) /\ b[o] \in Nat /\ m[o] \in Nat
                   /\ r[o] = b[o] + m[o]
  <2> SUFFICES ASSUME NEW o \in D
               PROVE  /\ Balance(o) \in Nat /\ MinOf(paid[o], Revenue(o)) \in Nat
                      /\ Revenue(o) = Balance(o) + MinOf(paid[o], Revenue(o))
    BY <1>2, <1>3
  <2>1. PICK x \in Nat, y \in Nat : x = Revenue(o) /\ y = paid[o]
    BY <1>2
  <2> QED
    BY <2>1 DEF Balance, Minus, MinOf
<1>5. Integral(b, D) /\ Integral(m, D)
  BY <1>4 DEF Integral
<1>6. Added(r, D) = Added(b, D) + Added(m, D) /\ Added(b, D) \in Int /\ Added(m, D) \in Int
  BY <1>2, <1>4, <1>5, SumPlus, SumType
<1>7. U \in SUBSET D /\ \A o \in D : o \notin U => b[o] = 0
  BY <1>1, <1>4 DEF Unpaid
<1>8. Added(b, D) = Added(b, U)
  <2>1. Masks(b, b, U, D)
    BY <1>7 DEF Masks
  <2> QED
    BY <1>2, <1>5, <1>7, <2>1, SumPart
<1>9. Added(u, U) = Added(b, U)
  <2>1. IsFiniteSet(U) /\ Integral(b, U) /\ Integral(u, U) /\ \A o \in U : u[o] = b[o]
    BY <1>2, <1>3, <1>5, <1>7, FS_Subset DEF Integral
  <2> QED
    BY <2>1, SumSame
<1>10. Over(U, Balance) = Added(u, U)
  BY ONLY <1>3, ZenonT(60) DEF Over, MapThenSumSet, MapThenFoldSet, Added, Adder
<1>11. Over(D, LAMBDA o : MinOf(paid[o], Revenue(o))) = Added(m, D)
  BY ONLY <1>3, ZenonT(60) DEF Over, MapThenSumSet, MapThenFoldSet, Added, Adder
<1>12. OrdersReport(p).summary.outstanding.balance = Over(U, Balance)
  BY <1>1 DEF Outstanding, OrdersReport
<1> QED
  BY <1>1, <1>6, <1>8, <1>9, <1>10, <1>11, <1>12

(* Of the Orders that cost something, those not PAID are the ones that owe.   *)
LEMMA DebtorsOwe ==
  ASSUME BooksInv, Reportable, NEW p, NEW o \in Done(p), Revenue(o) > 0
  PROVE  o \in Unpaid(p) <=> OrdersReport(p).rows[o].payment # "PAID"
<1>1. Revenue(o) \in Nat /\ paid[o] \in Nat
  BY DoneFit, PartsType DEF Fit
<1>2. PICK x \in Nat, y \in Nat : x = Revenue(o) /\ y = paid[o] /\ x > 0
  BY <1>1
<1>3. o \in Unpaid(p) <=> Minus(x, y) > 0
  BY <1>2 DEF Unpaid, Balance
<1>4. Minus(x, y) > 0 <=> y < x
  BY DEF Minus
<1>5. OrdersReport(p).rows[o].payment = PaymentStatus(y, x)
  BY <1>2 DEF OrdersReport, OrderRow, Done, ClosedIn
<1>6. PaymentStatus(y, x) # "PAID" <=> y < x
  BY <1>2 DEF PaymentStatus
<1> QED
  BY <1>3, <1>4, <1>5, <1>6

(* However the Orders of a period are grouped, by day, by Product, by        *)
(* customer, one by one or by what they owe, the reports tell one revenue,   *)
(* one cost and one number of Orders.                                       *)
LEMMA ReportsSum == BooksInv /\ Reportable => ReportsAgree
<1> SUFFICES ASSUME BooksInv, Reportable, NEW p \in Periods
             PROVE  LET cur == Overview(p).current
                        bought == Products(p)
                        people == CustomersReport(p)
                        rows == OrdersReport(p).rows
                        owed == OrdersReport(p).summary.outstanding
                    IN  /\ \A k \in KeyFigures :
                             AddUp([i \in DOMAIN Trends(p) |-> Trends(p)[i][k]]) = cur[k]
                        /\ bought.unreconciled = 0 /\ bought.unattributed = 0
                        /\ Over(Shown, LAMBDA k : bought.rows[k].figures.cost) = cur.cost
                        /\ Over(DOMAIN people.rows, LAMBDA c : people.rows[c].revenue)
                             + people.guest.revenue = cur.revenue
                        /\ Over(DOMAIN people.rows, LAMBDA c : people.rows[c].orders)
                             + people.guest.orders = cur.orders
                        /\ Over({o \in DOMAIN rows : rows[o].status = "COMPLETED"},
                                LAMBDA o : rows[o].contribution) = cur.contribution
                        /\ owed.balance
                             = cur.revenue - Over(Done(p), LAMBDA o : MinOf(paid[o], Revenue(o)))
                        /\ \A o \in Done(p) : Revenue(o) > 0 =>
                             (o \in Unpaid(p) <=> rows[o].payment # "PAID")
  BY DEF ReportsAgree, KeyFigures
<1>1. Fit(Done(p))
  BY DoneFit
<1>2. \A k \in KeyFigures : Overview(p).current[k] = Added(Parts(k), Done(p))
  BY <1>1, KpisAdd DEF Overview
<1>3. /\ Overview(p).current.revenue = Added(Parts("revenue"), Done(p))
      /\ Overview(p).current.cost = Added(Parts("cost"), Done(p))
      /\ Overview(p).current.orders = Added(Parts("orders"), Done(p))
      /\ Overview(p).current.contribution = Added(Parts("contribution"), Done(p))
  BY <1>2 DEF KeyFigures
<1>4. \A k \in KeyFigures :
        AddUp([i \in DOMAIN Trends(p) |-> Trends(p)[i][k]]) = Overview(p).current[k]
  BY <1>2, TrendsAdd
<1>5. DOMAIN CustomersReport(p).rows = CustomersSeen(p)
  BY CustomersAdd
<1>6. \A o \in Done(p) : Revenue(o) > 0 => (o \in Unpaid(p) <=> OrdersReport(p).rows[o].payment # "PAID")
  BY DebtorsOwe
<1> QED
  BY <1>3, <1>4, <1>5, <1>6, ProductsAdd, CustomersAdd, OrdersAdd, DebtsAdd

(* The reports of a period agree with one another in every state.           *)
THEOREM ReportsReconcile == BooksSpec => []ReportsAgree
  BY ReportsSum, BooksInvHolds, RowsReportable, PTL

----------------------------------------------------------------------------
(* The reports of the past.                                                 *)

(* Who ended is paid more or nothing, and who was canceled nothing.          *)
PaymentsGrow ==
  \A o \in Orders : status[o] \in Ended =>
    paid'[o] = paid[o] \/ (status[o] = "COMPLETED" /\ paid[o] < paid'[o] /\ paid'[o] \in Nat)

LEMMA EndedPay == BooksInv /\ Collected /\ [BooksNext]_booksVars => PaymentsGrow
<1> SUFFICES ASSUME BooksInv, Collected, [BooksNext]_booksVars PROVE PaymentsGrow
  OBVIOUS
<1>0. paid = [o \in Orders |-> paid[o]]
  BY DEF BooksInv, BillInv
<1>1. paid' = paid => PaymentsGrow
  BY DEF PaymentsGrow
<1>2. ASSUME NEW o \in Orders, status[o] \notin Ended, NEW n, paid' = [paid EXCEPT ![o] = n]
      PROVE  PaymentsGrow
  BY <1>0, <1>2 DEF PaymentsGrow
<1>3. ASSUME NEW o \in Orders, Selling(o) PROVE PaymentsGrow
  <2>1. ASSUME NEW req, NEW c, WriteDraft(o, req, c) PROVE PaymentsGrow
    BY <1>2, <2>1 DEF WriteDraft, Ended
  <2>2. ASSUME NEW n, NEW p, NEW a, NEW r, NEW c, ReviseDraft(o, n, p, a, r, c) PROVE PaymentsGrow
    BY <1>1, <2>2 DEF ReviseDraft, Rewrite
  <2>3. ASSUME NEW n, NEW p, NEW a, NEW d, NEW c, Revise(o, n, d, p, a, c) PROVE PaymentsGrow
    BY <1>1, <2>3 DEF Revise, Rewrite
  <2>4. ASSUME NEW p, NEW a, NEW c, Reprice(o, p, a, c) PROVE PaymentsGrow
    BY <1>1, <2>4 DEF Reprice, Rewrite
  <2>5. ASSUME NEW a \in Payments, NEW c, Pay(o, a, c) PROVE PaymentsGrow
    <3>1. PICK n : n = paid[o] + a
      OBVIOUS
    <3>2. n \in Nat /\ paid[o] < n
      BY <3>1, BooksAssumption DEF Collected
    <3>3. paid' = [paid EXCEPT ![o] = n] /\ status[o] # "CANCELED"
      BY <2>5, <3>1 DEF Pay
    <3> QED
      BY <1>0, <3>2, <3>3 DEF PaymentsGrow, Ended
  <2>6. ASSUME NEW c, DropDraft(o, c) PROVE PaymentsGrow
    BY <1>2, <2>6 DEF DropDraft, Ended
  <2>7. BookConfirm(o) \/ BookCancel(o) \/ BookComplete(o) \/ BookRest(o) => paid' = paid
    BY DEF BookConfirm, BookCancel, BookComplete, BookRest, billVars
  <2> QED
    BY <1>1, <1>3, <2>1, <2>2, <2>3, <2>4, <2>5, <2>6, <2>7 DEF Selling
<1>4. Stocking => paid' = paid
  BY DEF Stocking, BeginStock, CommitStock, OpenBalance, RestockGoods, AdjustGoods, billVars
<1>5. Baking => paid' = paid
  BY DEF Baking, BookStart, BookFinish, BookCancelRun, BookSurplus, BookReduction, bookVars, billVars
<1>6. ASSUME NEW option \in Catalogues, ChangeCatalogue(option) PROVE PaymentsGrow
  BY <1>1, <1>6 DEF ChangeCatalogue, billVars
<1>7. BookDay \/ UNCHANGED booksVars => paid' = paid
  BY DEF BookDay, booksVars, bookVars, billVars
<1> QED
  BY <1>1, <1>3, <1>4, <1>5, <1>6, <1>7 DEF BooksNext

(* What the Orders of a past period owe shrinks.                            *)
LEMMA DebtsShrink ==
  ASSUME BooksInv, Reportable, EndsStand, PaymentsGrow, today \in Int,
         NEW p \in Periods, p.to < today
  PROVE  /\ \A o \in Done(p) : Balance(o)' <= Balance(o)
         /\ Outstanding(p).count' <= Outstanding(p).count
         /\ Outstanding(p).balance' <= Outstanding(p).balance
<1>0. p.from \in Int /\ p.to \in Int
  BY ProductionAssumption DEF Periods
<1>1. PICK D : D = Done(p) /\ D = Done(p)' /\ \A o \in D : Stands(o)
  BY <1>0, ClosedStand DEF Done, Ended
<1>2. /\ IsFiniteSet(D) /\ D \subseteq Orders
      /\ \A o \in D : paid[o] \in Nat /\ Revenue(o) \in Nat /\ status[o] = "COMPLETED"
  BY <1>1, DoneFit, PartsType DEF Fit, Done, ClosedIn
<1>3. ASSUME NEW o \in D
      PROVE  Balance(o) \in Nat /\ Balance(o)' \in Nat /\ Balance(o)' <= Balance(o)
  <2>1. PICK x \in Nat, y \in Nat, z \in Nat :
          x = Revenue(o) /\ x = Revenue(o)' /\ y = paid[o] /\ z = paid'[o] /\ y <= z
    BY <1>1, <1>2 DEF PaymentsGrow, Ended, Stands, Revenue
  <2>2. Balance(o) = Minus(x, y) /\ Balance(o)' = Minus(x, z)
    BY <2>1 DEF Balance
  <2> QED
    BY <2>1, <2>2 DEF Minus
<1>4. PICK U, V : U = Unpaid(p) /\ V = Unpaid(p)' /\ V \subseteq U /\ U \subseteq D
  <2>1. PICK U, V : U = Unpaid(p) /\ V = Unpaid(p)'
    OBVIOUS
  <2>2. U = {o \in D : Balance(o) > 0}
    BY <1>1, <2>1 DEF Unpaid
  <2>3. V = {o \in D : Balance(o)' > 0}
    BY <1>1, <2>1 DEF Unpaid
  <2>4. ASSUME NEW o \in V PROVE o \in U
    <3>1. o \in D /\ Balance(o)' > 0
      BY <2>3
    <3>2. PICK x \in Nat, y \in Nat : x = Balance(o) /\ y = Balance(o)' /\ y <= x
      BY <1>3, <3>1
    <3> QED
      BY <2>2, <3>1, <3>2
  <2> QED
    BY <2>1, <2>2, <2>4
<1>5. IsFiniteSet(U) /\ IsFiniteSet(V)
  BY <1>2, <1>4, FS_Subset
<1>6. Cardinality(V) <= Cardinality(U)
  BY <1>4, <1>5, FS_Subset
<1>7. PICK u, v, d : /\ u = [o \in U |-> Balance(o)] /\ v = [o \in V |-> Balance(o)']
                     /\ d = [o \in U |-> Balance(o)']
  OBVIOUS
<1>8. PICK w : w = [o \in U |-> IF o \in V THEN d[o] ELSE 0]
  OBVIOUS
<1>9. /\ Integral(u, U) /\ Integral(v, V) /\ Integral(w, U) /\ Integral(d, U)
      /\ \A o \in U : w[o] <= u[o]
  BY <1>3, <1>4, <1>7, <1>8 DEF Integral
<1>10. Added(w, U) <= Added(u, U)
  BY <1>5, <1>9, SumOrder
<1>11. Added(w, U) = Added(d, V)
  <2>1. Masks(w, d, V, U)
    BY <1>4, <1>8 DEF Masks
  <2> QED
    BY <1>4, <1>5, <1>9, <2>1, SumPart
<1>12. Added(v, V) = Added(d, V)
  <2>1. \A o \in V : v[o] = d[o]
    BY <1>4, <1>7
  <2> QED
    BY <1>5, <1>9, <2>1, SumSame
<1>13. Over(U, Balance) = Added(u, U)
  BY ONLY <1>7, ZenonT(60) DEF Over, MapThenSumSet, MapThenFoldSet, Added, Adder
<1>14. Over(V, Balance)' = Added(v, V)
  BY ONLY <1>7, ZenonT(60) DEF Over, MapThenSumSet, MapThenFoldSet, Added, Adder
<1>15. /\ Outstanding(p).count = Cardinality(U) /\ Outstanding(p).balance = Over(U, Balance)
       /\ Outstanding(p).count' = Cardinality(V) /\ Outstanding(p).balance' = Over(V, Balance)'
  BY <1>4 DEF Outstanding
<1> QED
  BY <1>1, <1>3, <1>6, <1>10, <1>11, <1>12, <1>13, <1>14, <1>15

(* Whatever happens after a period, its reports say the same of its sales: an *)
(* Order of it is over, nothing writes its bill, its ledger or its day any    *)
(* more, and whoever ends later ends on a later day.  Only a payment on one   *)
(* of its completed Orders changes them, and nobody comes to owe more.        *)
THEOREM PastReportsAreFinal == BooksSpec => PastReportsStand
<1>1. BooksInv /\ Reportable /\ [BooksNext]_booksVars
        => [\A p \in Periods : p.to < today =>
              /\ Sales(p)' = Sales(p)
              /\ \/ FullReport(p)' = FullReport(p)
                 \/ \E o \in Done(p) : paid[o] < paid'[o]
              /\ \A o \in Done(p) : Balance(o)' <= Balance(o)
              /\ Outstanding(p).count' <= Outstanding(p).count
              /\ Outstanding(p).balance' <= Outstanding(p).balance]_booksVars
  <2> SUFFICES ASSUME BooksInv, Reportable, [BooksNext]_booksVars, NEW p \in Periods, p.to < today
               PROVE  /\ Sales(p)' = Sales(p)
                      /\ \/ FullReport(p)' = FullReport(p)
                         \/ \E o \in Done(p) : paid[o] < paid'[o]
                      /\ \A o \in Done(p) : Balance(o)' <= Balance(o)
                      /\ Outstanding(p).count' <= Outstanding(p).count
                      /\ Outstanding(p).balance' <= Outstanding(p).balance
    OBVIOUS
  <2>1. EndsStand /\ PaymentsGrow
    BY EndedStand, EndedPay DEF Reportable
  <2>2. today \in Int
    BY InvTypes, ProductionAssumption DEF BooksInv
  <2>3. \A o \in Done(p) \cup ClosedIn(p, "CANCELED") :
          paid'[o] = paid[o] \/ (o \in Done(p) /\ paid[o] < paid'[o])
    BY <2>1 DEF PaymentsGrow, Done, ClosedIn, Ended
  <2>4. /\ Sales(p)' = Sales(p)
        /\ (\A o \in Done(p) \cup ClosedIn(p, "CANCELED") : paid'[o] = paid[o])
             => FullReport(p)' = FullReport(p)
    BY <2>1, <2>2, ReportStands
  <2>5. /\ \A o \in Done(p) : Balance(o)' <= Balance(o)
        /\ Outstanding(p).count' <= Outstanding(p).count
        /\ Outstanding(p).balance' <= Outstanding(p).balance
    BY <2>1, <2>2, DebtsShrink
  <2> QED
    BY <2>3, <2>4, <2>5
<1> QED
  BY <1>1, BooksInvHolds, RowsReportable, PTL DEF BooksSpec, PastReportsStand
=============================================================================
