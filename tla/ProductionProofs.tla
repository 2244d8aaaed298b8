------------------------- MODULE ProductionProofs -------------------------
(***************************************************************************)
(* Proofs about the quantities of one produced Product: types, that no lot  *)
(* is promised beyond what it holds, that no line is served twice, that      *)
(* nothing is planned beyond what is needed, and what no step may do to a    *)
(* promise.                                                                *)
(*                                                                         *)
(* The allocator and the sharing of output are folds.  What each of their   *)
(* servings keeps (Fair, Shared) is shown once per serving and holds of the  *)
(* result; the actions then only have to say what they hand to Settle.      *)
(***************************************************************************)
EXTENDS Production, FoldProofs

Allocs == [Lots -> [Orders -> Nat]]
Shelves == [Lots -> [physical : Nat, until : Nat]]

Column(al, o) == [l \in Lots |-> al[l][o]]

LEMMA OnOrderIs ==
  ASSUME NEW al, NEW o
  PROVE  OnOrder(al, o) = Added(Column(al, o), Lots)
  BY DEF OnOrder, Over, MapThenSumSet, MapThenFoldSet, Added, Adder, Column

LEMMA OnLotIs ==
  ASSUME NEW al, NEW l
  PROVE  OnLot(al, l) = Added(al[l], Orders)
  BY DEF OnLot, Over, MapThenSumSet, MapThenFoldSet, Added, Adder

LEMMA Finiteness == IsFiniteSet(Orders) /\ IsFiniteSet(Lots)
  BY ProductionAssumption

LEMMA TotalsType ==
  ASSUME NEW al \in Allocs
  PROVE  /\ \A o \in Orders : OnOrder(al, o) \in Nat /\ Integral(Column(al, o), Lots)
         /\ \A l \in Lots : OnLot(al, l) \in Nat /\ Integral(al[l], Orders)
<1>1. ASSUME NEW o \in Orders
      PROVE  OnOrder(al, o) \in Nat /\ Integral(Column(al, o), Lots)
  <2>1. \A l \in Lots : Column(al, o)[l] \in Nat
    BY DEF Column, Allocs
  <2>2. Added(Column(al, o), Lots) \in Nat
    BY <2>1, SumNat, Finiteness
  <2> QED
    BY <2>1, <2>2, OnOrderIs DEF Integral
<1>2. ASSUME NEW l \in Lots
      PROVE  OnLot(al, l) \in Nat /\ Integral(al[l], Orders)
  <2>1. \A o \in Orders : al[l][o] \in Nat
    BY DEF Allocs
  <2>2. Added(al[l], Orders) \in Nat
    BY <2>1, SumNat, Finiteness
  <2> QED
    BY <2>1, <2>2, OnLotIs DEF Integral
<1> QED
  BY <1>1, <1>2

(* A line that is promised less of every lot is promised less.              *)
LEMMA OrderTotals ==
  ASSUME NEW al \in Allocs, NEW bl \in Allocs, NEW o \in Orders,
         \A l \in Lots : al[l][o] <= bl[l][o]
  PROVE  OnOrder(al, o) <= OnOrder(bl, o)
<1>1. \A l \in Lots : Column(al, o)[l] <= Column(bl, o)[l]
  BY DEF Column
<1>2. Integral(Column(al, o), Lots) /\ Integral(Column(bl, o), Lots)
  BY TotalsType
<1>3. Added(Column(al, o), Lots) <= Added(Column(bl, o), Lots)
  BY <1>1, <1>2, SumOrder, Finiteness
<1> QED
  BY <1>3, OnOrderIs

(* A lot less of which is promised to every line is promised less.          *)
LEMMA LotTotals ==
  ASSUME NEW al \in Allocs, NEW bl \in Allocs, NEW l \in Lots,
         \A o \in Orders : al[l][o] <= bl[l][o]
  PROVE  OnLot(al, l) <= OnLot(bl, l)
<1>1. Integral(al[l], Orders) /\ Integral(bl[l], Orders)
  BY TotalsType
<1>2. Added(al[l], Orders) <= Added(bl[l], Orders)
  BY <1>1, SumOrder, Finiteness
<1> QED
  BY <1>2, OnLotIs

(* A promise is part of both totals.                                        *)
LEMMA PartOfTotals ==
  ASSUME NEW al \in Allocs, NEW o \in Orders, NEW l \in Lots
  PROVE  al[l][o] <= OnLot(al, l) /\ al[l][o] <= OnOrder(al, o)
<1>1. /\ Integral(al[l], Orders) /\ Integral(Column(al, o), Lots)
      /\ Column(al, o)[l] = al[l][o] /\ al[l][o] \in Nat
  BY TotalsType DEF Column, Allocs
<1>2. Added(al[l], Orders) = al[l][o] + Added(al[l], Orders \ {o})
  BY <1>1, SumPick, Finiteness
<1>3. Added(Column(al, o), Lots) = al[l][o] + Added(Column(al, o), Lots \ {l})
  BY <1>1, SumPick, Finiteness
<1>4. Added(al[l], Orders \ {o}) \in Nat
  <2>1. IsFiniteSet(Orders \ {o}) /\ \A u \in Orders \ {o} : al[l][u] \in Nat
    BY Finiteness, FS_RemoveElement DEF Allocs
  <2> QED
    BY <2>1, SumNat
<1>5. Added(Column(al, o), Lots \ {l}) \in Nat
  <2>1. IsFiniteSet(Lots \ {l}) /\ \A m \in Lots \ {l} : Column(al, o)[m] \in Nat
    BY Finiteness, FS_RemoveElement DEF Allocs, Column
  <2> QED
    BY <2>1, SumNat
<1> QED
  BY <1>1, <1>2, <1>3, <1>4, <1>5, OnLotIs, OnOrderIs

Raised(al, l, o, n) == [al EXCEPT ![l][o] = @ + n]

(* The promise of lot l to line o is n more, and with it their totals.       *)
Gains(al, bl, l, o, n) ==
  /\ bl \in Allocs
  /\ bl[l][o] = al[l][o] + n
  /\ \A m \in Lots, u \in Orders : <<m, u>> # <<l, o>> => bl[m][u] = al[m][u]
  /\ OnOrder(bl, o) = OnOrder(al, o) + n
  /\ \A u \in Orders \ {o} : OnOrder(bl, u) = OnOrder(al, u)
  /\ OnLot(bl, l) = OnLot(al, l) + n
  /\ \A m \in Lots \ {l} : OnLot(bl, m) = OnLot(al, m)

LEMMA Promise ==
  ASSUME NEW al \in Allocs, NEW o \in Orders, NEW l \in Lots, NEW n \in Nat
  PROVE  Gains(al, Raised(al, l, o, n), l, o, n)
<1>0. PICK bl : bl = Raised(al, l, o, n)
  OBVIOUS
<1>1. bl \in Allocs
  BY <1>0 DEF Allocs, Raised
<1>2. bl[l][o] = al[l][o] + n
  BY <1>0 DEF Allocs, Raised
<1>3. ASSUME NEW m \in Lots, NEW u \in Orders, <<m, u>> # <<l, o>>
      PROVE  bl[m][u] = al[m][u]
  BY <1>0, <1>3 DEF Allocs, Raised
<1>4. OnOrder(bl, o) = OnOrder(al, o) + n
  <2>1. Integral(Column(al, o), Lots) /\ Integral(Column(bl, o), Lots)
    BY <1>1, TotalsType
  <2>2. \A m \in Lots \ {l} : Column(bl, o)[m] = Column(al, o)[m]
    BY <1>3 DEF Column
  <2>3. Added(Column(bl, o), Lots)
          = Added(Column(al, o), Lots) + (Column(bl, o)[l] - Column(al, o)[l])
    BY <2>1, <2>2, SumPoint, Finiteness
  <2>4. Column(bl, o)[l] = al[l][o] + n /\ Column(al, o)[l] = al[l][o] /\ al[l][o] \in Nat
    BY <1>2 DEF Column, Allocs
  <2>5. OnOrder(al, o) \in Nat
    BY TotalsType
  <2> QED
    BY <2>3, <2>4, <2>5, OnOrderIs
<1>5. ASSUME NEW u \in Orders \ {o} PROVE OnOrder(bl, u) = OnOrder(al, u)
  <2>1. Column(bl, u) = Column(al, u)
    BY <1>3 DEF Column
  <2> QED
    BY <2>1, OnOrderIs
<1>6. OnLot(bl, l) = OnLot(al, l) + n
  <2>1. Integral(al[l], Orders) /\ Integral(bl[l], Orders)
    BY <1>1, TotalsType
  <2>2. \A u \in Orders \ {o} : bl[l][u] = al[l][u]
    BY <1>3
  <2>3. Added(bl[l], Orders) = Added(al[l], Orders) + (bl[l][o] - al[l][o])
    BY <2>1, <2>2, SumPoint, Finiteness
  <2>4. al[l][o] \in Nat /\ OnLot(al, l) \in Nat
    BY TotalsType DEF Allocs
  <2> QED
    BY <1>2, <2>3, <2>4, OnLotIs
<1>7. ASSUME NEW m \in Lots \ {l} PROVE OnLot(bl, m) = OnLot(al, m)
  <2>1. bl[m] = al[m]
    BY <1>0 DEF Allocs, Raised
  <2> QED
    BY <2>1, OnLotIs
<1>8. Gains(al, bl, l, o, n)
  BY <1>1, <1>2, <1>3, <1>4, <1>5, <1>6, <1>7 DEF Gains
<1> QED
  BY <1>0, <1>8

----------------------------------------------------------------------------
(* The allocator.                                                           *)

(* One serving: lot x[2] gives line x[1] what it can.                       *)
Serving(q, d, comp, lt, now, al, x) ==
  IF Eligible(lt, x[2], d[x[1]], now)
  THEN Raised(al, x[2], x[1], MinOf(Open(q, comp, al, x[1]), Room(lt, al, x[2])))
  ELSE al

(* What every serving keeps, relative to the allocations `kept` the pass    *)
(* started from: it adds, only to demand and only from eligible lots, and    *)
(* overdraws neither the lot nor the line.                                  *)
Fair(kept, demand, q, d, comp, lt, now, al) ==
  /\ al \in Allocs
  /\ \A l \in Lots : OnLot(al, l) <= lt[l].physical
  /\ \A o \in Orders : OnOrder(al, o) <= Minus(q[o], comp[o])
  /\ \A l \in Lots, o \in Orders :
       /\ kept[l][o] <= al[l][o]
       /\ kept[l][o] # al[l][o] => o \in demand /\ Eligible(lt, l, d[o], now)

LEMMA MinusType ==
  ASSUME NEW a \in Int, NEW b \in Int
  PROVE  /\ Minus(a, b) \in Nat
         /\ a - b <= Minus(a, b)
         /\ a <= b => Minus(a, b) = 0
         /\ b <= a => Minus(a, b) = a - b
  BY DEF Minus

LEMMA MinOfType ==
  ASSUME NEW a \in Nat, NEW b \in Nat
  PROVE  MinOf(a, b) \in Nat /\ MinOf(a, b) <= a /\ MinOf(a, b) <= b
         /\ (MinOf(a, b) = a \/ MinOf(a, b) = b)
  BY DEF MinOf

LEMMA OpenRoomType ==
  ASSUME NEW q \in [Orders -> Nat], NEW comp \in [Orders -> Nat], NEW lt \in Shelves,
         NEW al \in Allocs
  PROVE  /\ \A o \in Orders : Open(q, comp, al, o) \in Nat
         /\ \A l \in Lots : Room(lt, al, l) \in Nat
<1>1. ASSUME NEW o \in Orders PROVE Open(q, comp, al, o) \in Nat
  <2>1. q[o] \in Nat /\ comp[o] \in Nat /\ OnOrder(al, o) \in Nat
    BY TotalsType
  <2> QED
    BY <2>1 DEF Open, Minus
<1>2. ASSUME NEW l \in Lots PROVE Room(lt, al, l) \in Nat
  <2>1. lt[l].physical \in Nat /\ OnLot(al, l) \in Nat
    BY TotalsType DEF Shelves
  <2> QED
    BY <2>1 DEF Room, Minus
<1> QED
  BY <1>1, <1>2

LEMMA ServingType ==
  ASSUME NEW q \in [Orders -> Nat], NEW d, NEW comp \in [Orders -> Nat], NEW lt \in Shelves,
         NEW now, NEW al \in Allocs, NEW x \in Orders \X Lots
  PROVE  Serving(q, d, comp, lt, now, al, x) \in Allocs
<1>1. PICK o \in Orders, l \in Lots : x[1] = o /\ x[2] = l
  OBVIOUS
<1> DEFINE n == MinOf(Open(q, comp, al, o), Room(lt, al, l))
<1>2. n \in Nat
  BY OpenRoomType, MinOfType
<1> HIDE DEF n
<1>3. Raised(al, l, o, n) \in Allocs
  BY <1>2, Promise DEF Gains
<1> QED
  BY <1>1, <1>3 DEF Serving, n

LEMMA ServingFair ==
  ASSUME NEW kept, NEW demand \in SUBSET Orders, NEW q \in [Orders -> Nat], NEW d,
         NEW comp \in [Orders -> Nat], NEW lt \in Shelves, NEW now,
         NEW al, Fair(kept, demand, q, d, comp, lt, now, al), NEW x \in demand \X Lots,
         kept \in Allocs
  PROVE  Fair(kept, demand, q, d, comp, lt, now, Serving(q, d, comp, lt, now, al, x))
<1>1. PICK o \in demand, l \in Lots : x[1] = o /\ x[2] = l
  OBVIOUS
<1>2. o \in Orders /\ al \in Allocs
  BY DEF Fair
<1>3. CASE ~Eligible(lt, l, d[o], now)
  BY <1>1, <1>3 DEF Serving
<1>4. CASE Eligible(lt, l, d[o], now)
  <2>1. PICK n : n = MinOf(Open(q, comp, al, o), Room(lt, al, l))
    OBVIOUS
  <2>0. n \in Nat
    BY <1>2, <2>1, OpenRoomType, MinOfType
  <2>2. n \in Nat /\ n <= Open(q, comp, al, o) /\ n <= Room(lt, al, l)
    BY <1>2, <2>1, OpenRoomType, MinOfType
  <2>3. PICK bl : bl = Raised(al, l, o, n)
    OBVIOUS
  <2>4. /\ bl \in Allocs
        /\ bl[l][o] = al[l][o] + n
        /\ \A m \in Lots, u \in Orders : <<m, u>> # <<l, o>> => bl[m][u] = al[m][u]
        /\ OnOrder(bl, o) = OnOrder(al, o) + n
        /\ \A u \in Orders \ {o} : OnOrder(bl, u) = OnOrder(al, u)
        /\ OnLot(bl, l) = OnLot(al, l) + n
        /\ \A m \in Lots \ {l} : OnLot(bl, m) = OnLot(al, m)
    <3>1. al \in Allocs /\ o \in Orders /\ l \in Lots /\ n \in Nat
      BY <1>2, <2>0
    <3>2. Gains(al, Raised(al, l, o, n), l, o, n)
      BY <3>1, Promise
    <3>3. Gains(al, bl, l, o, n)
      BY <2>3, <3>2
    <3> QED
      BY <3>3 DEF Gains
  <2>5. OnLot(bl, l) <= lt[l].physical
    <3>1. OnLot(al, l) \in Nat /\ lt[l].physical \in Nat /\ OnLot(al, l) <= lt[l].physical
      BY <1>2, TotalsType DEF Fair, Shelves
    <3>2. Room(lt, al, l) = lt[l].physical - OnLot(al, l)
      BY <3>1 DEF Room, Minus
    <3> QED
      BY <2>2, <2>4, <3>1, <3>2
  <2>6. OnOrder(bl, o) <= Minus(q[o], comp[o])
    <3>1. /\ OnOrder(al, o) \in Nat /\ q[o] \in Nat /\ comp[o] \in Nat
          /\ OnOrder(al, o) <= Minus(q[o], comp[o])
      BY <1>2, TotalsType DEF Fair
    <3>2. CASE n = 0
      BY <2>4, <3>1, <3>2
    <3>3. CASE n > 0
      <4>1. comp[o] + OnOrder(al, o) <= q[o]
        BY <2>2, <3>1, <3>3 DEF Open, Minus
      <4>2. Open(q, comp, al, o) = q[o] - (comp[o] + OnOrder(al, o))
        BY <3>1, <4>1 DEF Open, Minus
      <4>3. Minus(q[o], comp[o]) = q[o] - comp[o]
        BY <3>1, <4>1 DEF Minus
      <4> QED
        BY <2>2, <2>4, <3>1, <4>2, <4>3
    <3> QED
      BY <2>2, <3>2, <3>3
  <2>7. \A m \in Lots : OnLot(bl, m) <= lt[m].physical
    BY <2>4, <2>5 DEF Fair
  <2>8. \A u \in Orders : OnOrder(bl, u) <= Minus(q[u], comp[u])
    BY <2>4, <2>6 DEF Fair
  <2>9. ASSUME NEW m \in Lots, NEW u \in Orders
        PROVE  /\ kept[m][u] <= bl[m][u]
               /\ kept[m][u] # bl[m][u] => u \in demand /\ Eligible(lt, m, d[u], now)
    <3>1. kept[m][u] \in Nat /\ al[m][u] \in Nat /\ kept[m][u] <= al[m][u]
          /\ (kept[m][u] # al[m][u] => u \in demand /\ Eligible(lt, m, d[u], now))
      BY <1>2 DEF Fair, Allocs
    <3>2. CASE <<m, u>> = <<l, o>>
      BY <1>4, <2>2, <2>4, <3>1, <3>2
    <3>3. CASE <<m, u>> # <<l, o>>
      BY <2>4, <3>1, <3>3
    <3> QED
      BY <3>2, <3>3
  <2>10. Fair(kept, demand, q, d, comp, lt, now, bl)
    BY <2>4, <2>7, <2>8, <2>9 DEF Fair
  <2> QED
    BY <1>1, <1>4, <2>1, <2>3, <2>10 DEF Serving
<1> QED
  BY <1>3, <1>4

(* The order of the servings.                                               *)
Ahead(d, lt, x, y) ==
  Sooner(d, x[1], y[1]) \/ (x[1] = y[1] /\ Fresher(lt, x[2], y[2]))

Turns(d, lt, S) == {p \in S \X S : Ahead(d, lt, p[1], p[2])}

LEMMA SoonerOrders ==
  ASSUME NEW d \in [Orders -> Nat]
  PROVE  /\ \A o, u \in Orders : o # u => Sooner(d, o, u) \/ Sooner(d, u, o)
         /\ \A o, u, v \in Orders : Sooner(d, o, u) /\ Sooner(d, u, v) => Sooner(d, o, v)
         /\ \A o \in Orders : ~Sooner(d, o, o)
<1>1. \A o \in Orders : o \in Nat /\ d[o] \in Nat
  BY ProductionAssumption
<1> QED
  BY <1>1 DEF Sooner

LEMMA FresherOrders ==
  ASSUME NEW lt \in Shelves
  PROVE  /\ \A l, m \in Lots : l # m => Fresher(lt, l, m) \/ Fresher(lt, m, l)
         /\ \A l, m, k \in Lots : Fresher(lt, l, m) /\ Fresher(lt, m, k) => Fresher(lt, l, k)
<1>1. \A l \in Lots : l \in Nat /\ lt[l].until \in Nat
  BY ProductionAssumption DEF Shelves
<1> QED
  BY <1>1 DEF Fresher

LEMMA TurnsLinear ==
  ASSUME NEW d \in [Orders -> Nat], NEW lt \in Shelves, NEW demand \in SUBSET Orders
  PROVE  Linear(Turns(d, lt, demand \X Lots), demand \X Lots)
<1> DEFINE S == demand \X Lots
<1>1. ASSUME NEW x \in S, NEW y \in S, x # y
      PROVE  <<x, y>> \in Turns(d, lt, S) \/ <<y, x>> \in Turns(d, lt, S)
  <2>1. /\ x[1] \in Orders /\ y[1] \in Orders /\ x[2] \in Lots /\ y[2] \in Lots
        /\ x[1] # y[1] \/ x[2] # y[2]
    BY <1>1
  <2>2. Ahead(d, lt, x, y) \/ Ahead(d, lt, y, x)
    BY <2>1, SoonerOrders, FresherOrders DEF Ahead
  <2> QED
    BY <2>2 DEF Turns
<1>2. ASSUME NEW x \in S, NEW y \in S, NEW z \in S,
             <<x, y>> \in Turns(d, lt, S), <<y, z>> \in Turns(d, lt, S)
      PROVE  <<x, z>> \in Turns(d, lt, S)
  <2>1. /\ x[1] \in Orders /\ y[1] \in Orders /\ z[1] \in Orders
        /\ x[2] \in Lots /\ y[2] \in Lots /\ z[2] \in Lots
    OBVIOUS
  <2>2. Ahead(d, lt, x, y) /\ Ahead(d, lt, y, z)
    BY <1>2 DEF Turns
  <2>3. Ahead(d, lt, x, z)
    BY <2>1, <2>2, SoonerOrders, FresherOrders DEF Ahead
  <2> QED
    BY <2>3 DEF Turns
<1> HIDE DEF S
<1>3. Linear(Turns(d, lt, S), S)
  BY <1>1, <1>2 DEF Linear
<1> QED
  BY <1>3 DEF S

(* The last of a set of servings.                                           *)
LastTurn(d, lt, S) ==
  [s \in SUBSET S |-> CHOOSE x \in s : \A y \in s \ {x} : Ahead(d, lt, y, x)]

LEMMA LastTurnChooses ==
  ASSUME NEW d \in [Orders -> Nat], NEW lt \in Shelves, NEW demand \in SUBSET Orders
  PROVE  /\ IsFiniteSet(demand \X Lots)
         /\ Chooses(LastTurn(d, lt, demand \X Lots), demand \X Lots)
<1> DEFINE S == demand \X Lots
           R == Turns(d, lt, S)
<1>1. IsFiniteSet(S)
  BY Finiteness, FS_Subset, FS_Product
<1>2. Linear(R, S)
  BY TurnsLinear
<1> HIDE DEF R
<1>3. ASSUME NEW s \in SUBSET S, s # {} PROVE \E x \in s : \A y \in s \ {x} : Ahead(d, lt, y, x)
  <2> HIDE DEF S
  <2>1. PICK x \in s : IsLast(x, R, s)
    BY <1>1, <1>2, <1>3, LastExists
  <2>2. \A y \in s \ {x} : Ahead(d, lt, y, x)
    BY <2>1 DEF IsLast, R, Turns
  <2> QED
    BY <2>2
<1> HIDE DEF S
<1>4. Chooses(LastTurn(d, lt, S), S)
  BY <1>3 DEF Chooses, LastTurn
<1> QED
  BY <1>1, <1>4 DEF S

(* f is the allocator's fold over the servings S along c.                   *)
Serves(f, S, c, kept, q, d, comp, lt, now) ==
  f = [s \in SUBSET S |->
         IF s = {} THEN kept
         ELSE Serving(q, d, comp, lt, now, f[s \ {c[s]}], c[s])]

LEMMA AllocatedFolds ==
  ASSUME NEW kept \in Allocs, NEW demand \in SUBSET Orders, NEW q \in [Orders -> Nat],
         NEW d \in [Orders -> Nat], NEW comp \in [Orders -> Nat], NEW lt \in Shelves, NEW now
  PROVE  \E f : /\ Serves(f, demand \X Lots, LastTurn(d, lt, demand \X Lots),
                          kept, q, d, comp, lt, now)
                /\ Allocated(kept, demand, q, d, comp, lt, now) = f[demand \X Lots]
<1> DEFINE S == demand \X Lots
           c == LastTurn(d, lt, S)
           F == [p \in S \X Allocs |-> Serving(q, d, comp, lt, now, p[2], p[1])]
           it == CHOOSE iter : iter = [s \in SUBSET S |->
                   IF s = {} THEN kept
                   ELSE LET x == CHOOSE x \in s : \A y \in s \ {x} : Ahead(d, lt, y, x)
                        IN  Serving(q, d, comp, lt, now, iter[s \ {x}], x)]
<1>1. IsFiniteSet(S) /\ Chooses(c, S)
  BY LastTurnChooses
<1>2. \A x \in S, v \in Allocs : F[<<x, v>>] = Serving(q, d, comp, lt, now, v, x)
  OBVIOUS
<1>3. \A x \in S, v \in Allocs : F[<<x, v>>] \in Allocs
  <2> SUFFICES ASSUME NEW x \in S, NEW v \in Allocs
               PROVE  Serving(q, d, comp, lt, now, v, x) \in Allocs
    BY <1>2
  <2>1. x \in Orders \X Lots
    OBVIOUS
  <2> QED
    BY <2>1, ServingType
<1>4. \A s \in SUBSET S : c[s] = CHOOSE x \in s : \A y \in s \ {x} : Ahead(d, lt, y, x)
  BY DEF LastTurn
<1>5. Allocated(kept, demand, q, d, comp, lt, now) = it[S]
  BY DEF Allocated, InTurn, MapThenFoldSet, Serving, Raised, Ahead
<1> HIDE DEF F, c, S
<1>6. PICK f \in [SUBSET S -> Allocs] : IsFold(f, S, c, kept, F)
  BY <1>1, <1>3, FoldExists
<1>7. Serves(f, S, c, kept, q, d, comp, lt, now)
  <2>1. ASSUME NEW s \in SUBSET S, s # {}
        PROVE  F[<<c[s], f[s \ {c[s]}]>>] = Serving(q, d, comp, lt, now, f[s \ {c[s]}], c[s])
    <3>1. c[s] \in S /\ f[s \ {c[s]}] \in Allocs
      BY <1>1, <1>6, <2>1 DEF Chooses
    <3> QED
      BY <1>2, <3>1
  <2>2. f = [s \in SUBSET S |-> IF s = {} THEN kept ELSE F[<<c[s], f[s \ {c[s]}]>>]]
    BY <1>6 DEF IsFold
  <2>3. f = [s \in SUBSET S |->
               IF s = {} THEN kept
               ELSE Serving(q, d, comp, lt, now, f[s \ {c[s]}], c[s])]
    BY <2>1, <2>2
  <2> QED
    BY <2>3 DEF Serves
<1>8. f = [s \in SUBSET S |->
             IF s = {} THEN kept
             ELSE LET x == CHOOSE x \in s : \A y \in s \ {x} : Ahead(d, lt, y, x)
                  IN  Serving(q, d, comp, lt, now, f[s \ {x}], x)]
  BY <1>4, <1>7 DEF Serves
<1>9. it = [s \in SUBSET S |->
              IF s = {} THEN kept
              ELSE LET x == CHOOSE x \in s : \A y \in s \ {x} : Ahead(d, lt, y, x)
                   IN  Serving(q, d, comp, lt, now, it[s \ {x}], x)]
  BY ZenonT(60), <1>8
<1> HIDE DEF it
<1>10. Serves(it, S, c, kept, q, d, comp, lt, now)
  BY <1>4, <1>9 DEF Serves
<1> QED
  BY <1>5, <1>10 DEF S, c

(* The allocator is fair if what it starts from is.                         *)
LEMMA AllocatedFair ==
  ASSUME NEW kept \in Allocs, NEW demand \in SUBSET Orders, NEW q \in [Orders -> Nat],
         NEW d \in [Orders -> Nat], NEW comp \in [Orders -> Nat], NEW lt \in Shelves, NEW now,
         \A l \in Lots : OnLot(kept, l) <= lt[l].physical,
         \A o \in Orders : OnOrder(kept, o) <= Minus(q[o], comp[o])
  PROVE  Fair(kept, demand, q, d, comp, lt, now,
              Allocated(kept, demand, q, d, comp, lt, now))
<1> DEFINE S == demand \X Lots
           c == LastTurn(d, lt, S)
<1>1. IsFiniteSet(S) /\ Chooses(c, S)
  BY LastTurnChooses
<1>2. PICK f : /\ Serves(f, S, c, kept, q, d, comp, lt, now)
               /\ Allocated(kept, demand, q, d, comp, lt, now) = f[S]
  BY AllocatedFolds
<1> DEFINE P == {s \in SUBSET S : Fair(kept, demand, q, d, comp, lt, now, f[s])}
<1>3. {} \in P
  <2>1. f[{}] = kept
    BY <1>2 DEF Serves
  <2>2. \A l \in Lots, o \in Orders : kept[l][o] <= kept[l][o]
    BY DEF Allocs
  <2>3. Fair(kept, demand, q, d, comp, lt, now, kept)
    BY <2>2 DEF Fair
  <2> QED
    BY <2>1, <2>3
<1>4. ASSUME NEW s \in SUBSET S, s # {}, s \ {c[s]} \in P
      PROVE  s \in P
  <2>1. c[s] \in S
    BY <1>1, <1>4 DEF Chooses
  <2>2. f[s] = Serving(q, d, comp, lt, now, f[s \ {c[s]}], c[s])
    BY <1>2, <1>4 DEF Serves
  <2>3. Fair(kept, demand, q, d, comp, lt, now, f[s \ {c[s]}])
    BY <1>4
  <2> HIDE DEF c
  <2>4. PICK x, al : x \in S /\ x = c[s] /\ al = f[s \ {c[s]}]
    BY <2>1
  <2>5. Fair(kept, demand, q, d, comp, lt, now, Serving(q, d, comp, lt, now, al, x))
    BY <2>3, <2>4, ServingFair
  <2> QED
    BY <2>2, <2>4, <2>5
<1> HIDE DEF P, c
<1>5. SUBSET S \subseteq P
  BY SMTT(60), <1>1, <1>3, <1>4, Descent
<1>6. S \in P
  BY <1>5
<1> QED
  BY <1>2, <1>6 DEF P

----------------------------------------------------------------------------
(* The sharing of a run's output.                                           *)

QuantitiesTyped ==
  /\ qty \in [Orders -> Nat]
  /\ due \in [Orders -> Nat]
  /\ completed \in [Orders -> Nat]
  /\ lot \in Shelves
  /\ alloc \in Allocs

Shares == [given : [Orders -> Nat], left : Nat]
Needs(o) == Open(qty, completed, alloc, o)
Supplied == {o \in Orders : status[o] \in Live}

LEMMA NeedsType == QuantitiesTyped => \A o \in Orders : Needs(o) \in Nat
  BY OpenRoomType DEF QuantitiesTyped, Needs

LEMMA HandType ==
  ASSUME QuantitiesTyped, NEW acc \in Shares, NEW o \in Orders
  PROVE  /\ Hand(acc, o) \in Shares
         /\ Hand(acc, o).given[o] = MinOf(Needs(o), acc.left)
         /\ \A u \in Orders \ {o} : Hand(acc, o).given[u] = acc.given[u]
         /\ Hand(acc, o).left = acc.left - MinOf(Needs(o), acc.left)
<1>1. PICK n : n = MinOf(Needs(o), acc.left)
  OBVIOUS
<1>2. acc.left \in Nat /\ acc.given \in [Orders -> Nat]
  BY DEF Shares
<1>3. n \in Nat /\ n <= acc.left
  BY <1>1, <1>2, NeedsType, MinOfType
<1>4. acc.left - n \in Nat
  BY <1>2, <1>3
<1>5. PICK k : k = acc.left - n
  OBVIOUS
<1>6. PICK h : h = [acc EXCEPT !.given[o] = n, !.left = k]
  OBVIOUS
<1>7. /\ h \in [given : [Orders -> Nat], left : Nat]
      /\ h.given = [acc.given EXCEPT ![o] = n] /\ h.left = k
  BY <1>3, <1>4, <1>5, <1>6 DEF Shares
<1>8. Hand(acc, o) = h
  BY <1>1, <1>5, <1>6 DEF Hand, Needs
<1> QED
  BY <1>1, <1>2, <1>5, <1>7, <1>8 DEF Shares

(* What the lines of s have been handed so far, in deadline order.          *)
Shared(acc, s) ==
  /\ acc \in Shares
  /\ \A o \in Orders : acc.given[o] <= Needs(o) /\ (o \notin s => acc.given[o] = 0)
  /\ acc.left > 0 => \A o \in s : acc.given[o] = Needs(o)
  /\ \A o, u \in s : Sooner(due, o, u) /\ acc.given[u] > 0 => acc.given[o] = Needs(o)

(* Handing to a line later than all of s keeps the deadline order.          *)
LEMMA HandShares ==
  ASSUME QuantitiesTyped, NEW s \in SUBSET Orders, NEW o \in s,
         \A u \in s \ {o} : Sooner(due, u, o),
         NEW acc, Shared(acc, s \ {o})
  PROVE  Shared(Hand(acc, o), s)
<1>1. PICK n : n = MinOf(Needs(o), acc.left)
  OBVIOUS
<1>2. PICK new : new = Hand(acc, o)
  OBVIOUS
<1>3. acc \in Shares /\ acc.left \in Nat /\ Needs(o) \in Nat
  BY NeedsType DEF Shared, Shares
<1>4. /\ new \in Shares
      /\ new.given[o] = n
      /\ \A u \in Orders \ {o} : new.given[u] = acc.given[u]
      /\ new.left = acc.left - n
  BY <1>1, <1>2, <1>3, HandType
<1>5. /\ n \in Nat /\ n <= Needs(o) /\ n <= acc.left
      /\ n = Needs(o) \/ n = acc.left
  BY <1>1, <1>3, MinOfType
<1>6. ASSUME NEW u \in Orders
      PROVE  new.given[u] <= Needs(u) /\ (u \notin s => new.given[u] = 0)
  BY <1>4, <1>5 DEF Shared
<1>7. ASSUME new.left > 0, NEW u \in s PROVE new.given[u] = Needs(u)
  <2>1. acc.left > 0 /\ n # acc.left
    BY <1>3, <1>4, <1>5, <1>7
  <2>2. CASE u = o
    BY <1>4, <1>5, <2>1, <2>2
  <2>3. CASE u # o
    BY <1>4, <2>1, <2>3 DEF Shared
  <2> QED
    BY <2>2, <2>3
<1>8. ASSUME NEW u \in s, NEW v \in s, Sooner(due, u, v), new.given[v] > 0
      PROVE  new.given[u] = Needs(u)
  <2>1. CASE v # o
    <3>1. u # o
      <4>1. Sooner(due, v, o) /\ v \in Orders /\ o \in Orders
        BY <2>1
      <4>2. due \in [Orders -> Nat]
        BY DEF QuantitiesTyped
      <4> QED
        BY <1>8, <4>1, <4>2, SoonerOrders
    <3> QED
      BY <1>4, <1>8, <2>1, <3>1 DEF Shared
  <2>2. CASE v = o
    <3>1. acc.left > 0
      BY <1>3, <1>4, <1>5, <1>8, <2>2
    <3>2. u # o
      <4>1. due \in [Orders -> Nat] /\ o \in Orders
        BY DEF QuantitiesTyped
      <4> QED
        BY <1>8, <2>2, <4>1, SoonerOrders
    <3> QED
      BY <1>4, <3>1, <3>2 DEF Shared
  <2> QED
    BY <2>1, <2>2
<1>9. Shared(new, s)
  BY <1>4, <1>6, <1>7, <1>8 DEF Shared
<1> QED
  BY <1>2, <1>9

(* What was handed out and what is left make up the output.                 *)
Handed(acc, out) == Added(acc.given, Orders) + acc.left = out

(* The first hand-out to a line only moves output from what is left.         *)
LEMMA HandHands ==
  ASSUME QuantitiesTyped, NEW acc \in Shares, NEW o \in Orders, acc.given[o] = 0,
         NEW out, Handed(acc, out)
  PROVE  Handed(Hand(acc, o), out)
<1>1. PICK n, new : n = MinOf(Needs(o), acc.left) /\ new = Hand(acc, o)
  OBVIOUS
<1>2. /\ new \in Shares /\ new.given[o] = n /\ new.left = acc.left - n
      /\ \A u \in Orders \ {o} : new.given[u] = acc.given[u]
  BY <1>1, HandType
<1>3. /\ acc.given \in [Orders -> Nat] /\ new.given \in [Orders -> Nat]
      /\ acc.left \in Nat /\ n \in Nat
  BY <1>2 DEF Shares
<1>4. Integral(acc.given, Orders) /\ Integral(new.given, Orders)
  BY <1>3 DEF Integral
<1>5. Added(new.given, Orders) = Added(acc.given, Orders) + (new.given[o] - acc.given[o])
  BY <1>2, <1>4, Finiteness, SumPoint
<1>6. Added(acc.given, Orders) \in Int
  BY <1>4, Finiteness, SumType
<1>7. Handed(new, out)
  BY <1>2, <1>3, <1>5, <1>6 DEF Handed
<1> QED
  BY <1>1, <1>7

LatestOf(S) == [s \in SUBSET S |-> CHOOSE x \in s : \A y \in s \ {x} : Sooner(due, y, x)]

LEMMA LatestChooses ==
  ASSUME QuantitiesTyped, NEW S \in SUBSET Orders
  PROVE  /\ IsFiniteSet(S)
         /\ Chooses(LatestOf(S), S)
         /\ \A s \in SUBSET S : s # {} =>
              \A y \in s \ {LatestOf(S)[s]} : Sooner(due, y, LatestOf(S)[s])
<1> DEFINE R == {p \in S \X S : Sooner(due, p[1], p[2])}
<1>1. IsFiniteSet(S)
  BY Finiteness, FS_Subset
<1>2. Linear(R, S)
  <2>1. due \in [Orders -> Nat]
    BY DEF QuantitiesTyped
  <2> QED
    BY <2>1, SoonerOrders DEF Linear
<1>3. ASSUME NEW s \in SUBSET S, s # {} PROVE \E x \in s : \A y \in s \ {x} : Sooner(due, y, x)
  <2> HIDE DEF R
  <2>1. PICK x \in s : IsLast(x, R, s)
    BY <1>1, <1>2, <1>3, LastExists
  <2>2. \A y \in s \ {x} : Sooner(due, y, x)
    BY <2>1 DEF IsLast, R
  <2> QED
    BY <2>2
<1>4. Chooses(LatestOf(S), S)
  BY <1>3 DEF Chooses, LatestOf
<1>5. ASSUME NEW s \in SUBSET S, s # {}
      PROVE  \A y \in s \ {LatestOf(S)[s]} : Sooner(due, y, LatestOf(S)[s])
  BY <1>3, <1>5 DEF LatestOf
<1> QED
  BY <1>1, <1>4, <1>5

(* The whole output is shared as every hand-out is, and nothing of it is     *)
(* lost.                                                                    *)
LEMMA SharedOutShares ==
  ASSUME QuantitiesTyped, NEW out \in Nat
  PROVE  Shared(SharedOut(out), Supplied) /\ Handed(SharedOut(out), out)
<1> DEFINE S == Supplied
           c == LatestOf(S)
           F == [p \in S \X Shares |-> Hand(p[2], p[1])]
           it == CHOOSE iter : iter = [s \in SUBSET S |->
                   IF s = {} THEN Nothing(out)
                   ELSE LET x == CHOOSE x \in s : \A y \in s \ {x} : Sooner(due, y, x)
                        IN  Hand(iter[s \ {x}], x)]
<1>0. S \in SUBSET Orders
  BY DEF Supplied
<1>1. /\ IsFiniteSet(S) /\ Chooses(c, S)
      /\ \A s \in SUBSET S : s # {} => \A y \in s \ {c[s]} : Sooner(due, y, c[s])
  BY <1>0, LatestChooses
<1>2. \A x \in S, v \in Shares : F[<<x, v>>] = Hand(v, x)
  OBVIOUS
<1>3. \A x \in S, v \in Shares : F[<<x, v>>] \in Shares
  BY <1>0, <1>2, HandType
<1>4. \A s \in SUBSET S : c[s] = CHOOSE x \in s : \A y \in s \ {x} : Sooner(due, y, x)
  BY DEF LatestOf
<1>5. SharedOut(out) = it[S]
  BY DEF SharedOut, InTurn, MapThenFoldSet, Supplied
<1>6. Nothing(out) \in Shares
  BY DEF Nothing, Shares
<1> HIDE DEF F, c, S
<1>7. PICK f \in [SUBSET S -> Shares] : IsFold(f, S, c, Nothing(out), F)
  BY <1>1, <1>3, <1>6, FoldExists
<1>8. f = [s \in SUBSET S |->
             IF s = {} THEN Nothing(out)
             ELSE LET x == CHOOSE x \in s : \A y \in s \ {x} : Sooner(due, y, x)
                  IN  Hand(f[s \ {x}], x)]
  <2>1. ASSUME NEW s \in SUBSET S, s # {}
        PROVE  F[<<c[s], f[s \ {c[s]}]>>] = Hand(f[s \ {c[s]}], c[s])
    <3>1. c[s] \in S /\ f[s \ {c[s]}] \in Shares
      BY <1>1, <1>7, <2>1 DEF Chooses
    <3> QED
      BY <1>2, <3>1
  <2>2. f = [s \in SUBSET S |-> IF s = {} THEN Nothing(out) ELSE F[<<c[s], f[s \ {c[s]}]>>]]
    BY <1>7 DEF IsFold
  <2>3. f = [s \in SUBSET S |->
               IF s = {} THEN Nothing(out) ELSE Hand(f[s \ {c[s]}], c[s])]
    BY <2>1, <2>2
  <2> QED
    BY <1>4, <2>3
<1>9. it = [s \in SUBSET S |->
              IF s = {} THEN Nothing(out)
              ELSE LET x == CHOOSE x \in s : \A y \in s \ {x} : Sooner(due, y, x)
                   IN  Hand(it[s \ {x}], x)]
  BY <1>8
<1> HIDE DEF it
<1>10. it = [s \in SUBSET S |->
               IF s = {} THEN Nothing(out) ELSE Hand(it[s \ {c[s]}], c[s])]
  BY <1>4, <1>9
<1> DEFINE P == {s \in SUBSET S : Shared(it[s], s) /\ Handed(it[s], out)}
<1>11. {} \in P
  <2>1. it[{}] = Nothing(out)
    BY <1>10
  <2>2. \A o \in Orders : Nothing(out).given[o] = 0 /\ Needs(o) \in Nat
    BY NeedsType DEF Nothing
  <2>3. Shared(Nothing(out), {})
    BY <1>6, <2>2 DEF Shared
  <2>4. Handed(Nothing(out), out)
    <3>1. PICK z : z = Nothing(out).given
      OBVIOUS
    <3>2. Integral(z, Orders) /\ Masks(z, z, {}, Orders) /\ {} \in SUBSET Orders
      BY <2>2, <3>1 DEF Integral, Masks
    <3>3. Added(z, Orders) = 0
      BY <3>2, Finiteness, SumPart, SumEmpty
    <3>4. Nothing(out).left = out
      BY DEF Nothing
    <3> QED
      BY <3>1, <3>3, <3>4 DEF Handed
  <2> QED
    BY <2>1, <2>3, <2>4
<1>12. ASSUME NEW s \in SUBSET S, s # {}, s \ {c[s]} \in P PROVE s \in P
  <2>1. PICK x \in s : x = c[s] /\ \A y \in s \ {x} : Sooner(due, y, x)
    BY <1>1, <1>12 DEF Chooses
  <2>2. it[s] = Hand(it[s \ {x}], x)
    BY <1>10, <1>12, <2>1
  <2>3. Shared(it[s \ {x}], s \ {x})
    BY <1>12, <2>1
  <2>4. s \in SUBSET Orders
    BY <1>0
  <2>5. Shared(Hand(it[s \ {x}], x), s)
    BY <2>1, <2>3, <2>4, HandShares
  <2>6. PICK acc : acc = it[s \ {x}]
    OBVIOUS
  <2>7. acc \in Shares /\ x \in Orders /\ acc.given[x] = 0 /\ Handed(acc, out)
    BY <1>12, <2>1, <2>3, <2>4, <2>6 DEF Shared
  <2>8. Handed(Hand(acc, x), out)
    BY <2>7, HandHands
  <2> QED
    BY <2>2, <2>5, <2>6, <2>8
<1> HIDE DEF P
<1>13. SUBSET S \subseteq P
  BY <1>1, <1>11, <1>12, Descent
<1>14. S \in P
  BY <1>13
<1> QED
  BY <1>5, <1>14 DEF P, S

----------------------------------------------------------------------------
(* The invariant.                                                           *)

Statuses == Live \cup {"DRAFT", "CANCELED", "COMPLETED"}

Types ==
  /\ ProductionTypeOK
  /\ lot \in Shelves
  /\ alloc \in Allocs

(* No two runs in production are for one date, and each is for a date.      *)
RunsApart ==
  /\ \A r \in Runs : runState[r] = "IN_PRODUCTION" => runDate[r] \in Dates
  /\ \A r, s \in Runs :
       runState[r] = "IN_PRODUCTION" /\ runState[s] = "IN_PRODUCTION" /\ runDate[r] = runDate[s]
       => r = s

(* A READY Order is served in full.                                         *)
ReadyIsServed ==
  \A o \in Orders : status[o] = "READY" => rest[o] /\ completed[o] + OnOrder(alloc, o) >= qty[o]

ProdInv ==
  /\ Types
  /\ RunsApart
  /\ LotNotOverpromised
  /\ NoDoubleCover
  /\ NeverOverplanned
  /\ ReadyIsServed

LEMMA TypedQuantities == Types => QuantitiesTyped
  BY ProductionAssumption DEF Types, ProductionTypeOK, QuantitiesTyped

LEMMA ActivityDates == RunsApart => Activity \in SUBSET Dates
  BY DEF RunsApart, Activity, ActiveDates

(* Netting over a group never exceeds the shortages of its lines.           *)
LEMMA NettedBound ==
  ASSUME NEW G \in SUBSET Orders, NEW q \in [Orders -> Nat], NEW comp \in [Orders -> Nat],
         NEW al \in Allocs
  PROVE  /\ Netted(G, q, comp, al) \in Nat
         /\ Shortage(G, q, comp, al) \in Nat
         /\ Netted(G, q, comp, al) <= Shortage(G, q, comp, al)
<1> DEFINE a == [o \in G |-> q[o]]
           b == [o \in G |-> comp[o] + OnOrder(al, o)]
           s == [o \in G |-> Open(q, comp, al, o)]
           t == [o \in G |-> b[o] + s[o]]
<1>1. Over(G, LAMBDA o : q[o]) = Added(a, G)
  BY ZenonT(60) DEF Over, MapThenSumSet, MapThenFoldSet, Added, Adder
<1>2. Over(G, LAMBDA o : comp[o] + OnOrder(al, o)) = Added(b, G)
  BY ZenonT(60) DEF Over, MapThenSumSet, MapThenFoldSet, Added, Adder
<1>3. Shortage(G, q, comp, al) = Added(s, G)
  BY ZenonT(60) DEF Shortage, Over, MapThenSumSet, MapThenFoldSet, Added, Adder
<1>4. IsFiniteSet(G)
  BY Finiteness, FS_Subset
<1>5. ASSUME NEW o \in G
      PROVE  /\ a[o] \in Nat /\ b[o] \in Nat /\ s[o] \in Nat /\ t[o] = b[o] + s[o]
             /\ a[o] <= t[o]
  <2>1. q[o] \in Nat /\ comp[o] \in Nat /\ OnOrder(al, o) \in Nat
    BY TotalsType
  <2>2. s[o] = Minus(q[o], comp[o] + OnOrder(al, o)) /\ b[o] = comp[o] + OnOrder(al, o)
    BY DEF Open
  <2> QED
    BY <2>1, <2>2 DEF Minus
<1> HIDE DEF a, b, s, t
<1>6. Integral(a, G) /\ Integral(b, G) /\ Integral(s, G) /\ Integral(t, G)
  BY <1>5 DEF Integral
<1>7. Added(a, G) <= Added(t, G)
  BY <1>4, <1>5, <1>6, SumOrder
<1>8. Added(t, G) = Added(b, G) + Added(s, G)
  <2>1. \A o \in G : t[o] = b[o] + s[o]
    BY <1>5
  <2> QED
    BY <1>4, <1>6, <2>1, SumPlus
<1>9. Added(a, G) \in Nat /\ Added(b, G) \in Nat /\ Added(s, G) \in Nat
  BY <1>4, <1>5, SumNat
<1>10. Netted(G, q, comp, al) = Minus(Added(a, G), Added(b, G))
  BY <1>1, <1>2 DEF Netted
<1> QED
  BY <1>3, <1>7, <1>8, <1>9, <1>10 DEF Minus

(* A recalculation starts from what is there, or less.                      *)
LEMMA KeptPart ==
  ASSUME NEW st, NEW lk, NEW impaired, NEW al \in Allocs
  PROVE  /\ Kept(st, lk, impaired, al) \in Allocs
         /\ \A l \in Lots, o \in Orders :
              /\ Kept(st, lk, impaired, al)[l][o] <= al[l][o]
              /\ o \in lk \/ (st[o] = "READY" /\ l \notin impaired)
                 => Kept(st, lk, impaired, al)[l][o] = al[l][o]
              /\ ~(o \in lk \/ (st[o] = "READY" /\ l \notin impaired))
                 => Kept(st, lk, impaired, al)[l][o] = 0
  BY DEF Kept, Allocs

Demanded(st, fz, act) == {o \in Orders : st[o] \in Live /\ o \notin Locked(fz, act)}

(* What a workflow must bring to Settle.                                    *)
Prepared(st, q, d, comp, lt, al, fz, act, impaired) ==
  /\ st \in [Orders -> Statuses]
  /\ q \in [Orders -> Quantities]
  /\ d \in [Orders -> Dates]
  /\ comp \in [Orders -> Nat]
  /\ lt \in Shelves
  /\ al \in Allocs
  /\ fz \in [Dates -> SUBSET Orders]
  /\ act \in SUBSET Dates
  /\ \A l \in Lots : OnLot(Kept(st, Locked(fz, act), impaired, al), l) <= lt[l].physical
  /\ \A o \in Orders :
       OnOrder(Kept(st, Locked(fz, act), impaired, al), o) <= Minus(q[o], comp[o])

LEMMA SettleFair ==
  ASSUME NEW st, NEW q, NEW d, NEW comp, NEW lt, NEW al, NEW fz, NEW act, NEW impaired,
         Prepared(st, q, d, comp, lt, al, fz, act, impaired),
         Settle(st, q, d, comp, lt, al, fz, act, impaired)
  PROVE  Fair(Kept(st, Locked(fz, act), impaired, al), Demanded(st, fz, act),
              q, d, comp, lt, today, alloc')
<1> DEFINE kept == Kept(st, Locked(fz, act), impaired, al)
           demand == Demanded(st, fz, act)
<1>1. /\ q \in [Orders -> Nat] /\ d \in [Orders -> Nat] /\ comp \in [Orders -> Nat]
      /\ lt \in Shelves /\ al \in Allocs
  BY ProductionAssumption DEF Prepared
<1>2. kept \in Allocs /\ demand \in SUBSET Orders
  BY <1>1, KeptPart DEF Demanded
<1>3. /\ \A l \in Lots : OnLot(kept, l) <= lt[l].physical
      /\ \A o \in Orders : OnOrder(kept, o) <= Minus(q[o], comp[o])
  BY DEF Prepared
<1>4. alloc' = Allocated(kept, demand, q, d, comp, lt, today)
  BY DEF Settle, Demanded
<1> HIDE DEF kept, demand
<1>5. Fair(kept, demand, q, d, comp, lt, today, Allocated(kept, demand, q, d, comp, lt, today))
  BY <1>1, <1>2, <1>3, AllocatedFair
<1> QED
  BY <1>4, <1>5 DEF kept, demand

LEMMA EvaluatedType ==
  ASSUME NEW st \in [Orders -> Statuses], NEW q, NEW comp, NEW al, NEW rs
  PROVE  /\ Evaluated(st, q, comp, al, rs) \in [Orders -> Statuses]
         /\ \A o \in Orders :
              /\ Evaluated(st, q, comp, al, rs)[o] \in Live <=> st[o] \in Live
              /\ st[o] \notin Live => Evaluated(st, q, comp, al, rs)[o] = st[o]
              /\ Evaluated(st, q, comp, al, rs)[o] = "READY"
                   <=> st[o] \in Live /\ rs[o] /\ comp[o] + OnOrder(al, o) >= q[o]
  BY DEF Evaluated, Statuses, Live

RunTypes ==
  /\ runState \in [Runs -> {"FREE", "IN_PRODUCTION", "COMPLETED", "CANCELED"}]
  /\ runDate \in [Runs -> Dates \cup {NoDate}]

(* A workflow that brings what it must re-establishes the invariant.        *)
LEMMA SettleInv ==
  ASSUME Types,
         NEW st, NEW q, NEW d, NEW comp, NEW lt, NEW al, NEW fz, NEW act, NEW impaired,
         Prepared(st, q, d, comp, lt, al, fz, act, impaired),
         Settle(st, q, d, comp, lt, al, fz, act, impaired),
         Activity' = act, RunTypes', RunsApart', rest' = rest, today' = today
  PROVE  ProdInv'
<1>1. PICK kept, demand : kept = Kept(st, Locked(fz, act), impaired, al)
                          /\ demand = Demanded(st, fz, act)
  OBVIOUS
<1>2. Fair(kept, demand, q, d, comp, lt, today, alloc')
  BY <1>1, SettleFair
<1>3. /\ status' = Evaluated(st, q, comp, alloc', rest)
      /\ qty' = q /\ due' = d /\ completed' = comp /\ lot' = lt /\ frozen' = fz
      /\ planned' = [x \in Dates |->
                       IF x \in act THEN planned[x]
                       ELSE Netted({o \in demand : d[o] = x}, q, comp, alloc')]
  BY <1>1 DEF Settle, Demanded
<1>4. /\ st \in [Orders -> Statuses] /\ q \in [Orders -> Quantities] /\ d \in [Orders -> Dates]
      /\ comp \in [Orders -> Nat] /\ lt \in Shelves /\ fz \in [Dates -> SUBSET Orders]
      /\ q \in [Orders -> Nat] /\ alloc' \in Allocs
  BY <1>2, ProductionAssumption DEF Prepared, Fair
<1>5. demand \in SUBSET Orders
  BY <1>1 DEF Demanded
<1>6. ASSUME NEW G \in SUBSET Orders
      PROVE  /\ Netted(G, q, comp, alloc') \in Nat
             /\ Netted(G, q, comp, alloc') <= Shortage(G, q, comp, alloc')
  BY <1>4, NettedBound
<1>7. planned' \in [Dates -> Nat]
  <2>1. ASSUME NEW x \in Dates, x \notin act
        PROVE  Netted({o \in demand : d[o] = x}, q, comp, alloc') \in Nat
    BY <1>5, <1>6
  <2>2. planned \in [Dates -> Nat]
    BY DEF Types, ProductionTypeOK
  <2> QED
    BY <1>3, <2>1, <2>2
<1>8. status' \in [Orders -> Statuses]
  BY <1>3, <1>4, EvaluatedType
<1>9. Types'
  <2>1. rest' \in [Orders -> BOOLEAN] /\ today' \in 1..Horizon
    BY DEF Types, ProductionTypeOK
  <2>2. lot' \in Shelves /\ \A l \in Lots : lot'[l] \in [physical : Nat, until : Nat]
    BY <1>3, <1>4 DEF Shelves
  <2>3. alloc' \in Allocs /\ \A l \in Lots : alloc'[l] \in [Orders -> Nat]
    BY <1>4 DEF Allocs
  <2>4. due' \in [Orders -> Dates] /\ qty' \in [Orders -> Quantities]
        /\ completed' \in [Orders -> Nat] /\ frozen' \in [Dates -> SUBSET Orders]
    BY <1>3, <1>4
  <2> QED
    BY <1>7, <1>8, <2>1, <2>2, <2>3, <2>4 DEF Types, ProductionTypeOK, RunTypes, Statuses
<1>10. LotNotOverpromised'
  <2>1. \A l \in Lots : OnLot(alloc', l) <= lot'[l].physical
    BY <1>2, <1>3 DEF Fair
  <2> QED
    BY <2>1 DEF LotNotOverpromised
<1>11. NoDoubleCover'
  <2>1. \A o \in Orders : OnOrder(alloc', o) <= Minus(qty'[o], completed'[o])
    BY <1>2, <1>3 DEF Fair
  <2> QED
    BY <2>1 DEF NoDoubleCover
<1>12. NeverOverplanned'
  <2>1. ASSUME NEW x \in Dates \ act
        PROVE  planned'[x] <= Shortage(Linked(x)', q, comp, alloc')
    <3>1. \A o \in Orders : status'[o] \in Live <=> st[o] \in Live
      BY <1>3, <1>4, EvaluatedType
    <3>2. LockedNow' = Locked(fz, act)
      BY <1>3 DEF LockedNow
    <3>3. Linked(x)' = {o \in demand : d[o] = x}
      BY <1>1, <1>3, <3>1, <3>2 DEF Linked, Demanded
    <3>4. planned'[x] = Netted({o \in demand : d[o] = x}, q, comp, alloc')
      BY <1>3
    <3> QED
      BY <1>5, <1>6, <3>3, <3>4
  <2>2. \A x \in Dates \ Activity' : planned'[x] <= Shortage(Linked(x)', qty', completed', alloc')
    BY <1>3, <2>1
  <2> QED
    BY <2>2 DEF NeverOverplanned
<1>13. ReadyIsServed'
  <2>1. \A o \in Orders : status'[o] = "READY" => rest[o] /\ comp[o] + OnOrder(alloc', o) >= q[o]
    BY <1>3, <1>4, EvaluatedType
  <2> QED
    BY <1>3, <2>1 DEF ReadyIsServed
<1> QED
  BY <1>9, <1>10, <1>11, <1>12, <1>13 DEF ProdInv

(* There is a next id, of a lot that never was.                             *)
LEMMA NextLotFree == HasShelf => NextLot(lot) \in Lots /\ lot[NextLot(lot)] = Unused
<1> SUFFICES ASSUME HasShelf PROVE NextLot(lot) \in Lots /\ lot[NextLot(lot)] = Unused
  OBVIOUS
<1> DEFINE free == {l \in Lots : lot[l] = Unused}
<1>1. free \subseteq Nat /\ free # {}
  BY ProductionAssumption DEF HasShelf
<1> HIDE DEF free
<1>2. PICK k \in free : \A m \in free : k <= m
  BY <1>1, LeastExists
<1>3. k \in Lots /\ lot[k] = Unused /\ \A m \in Lots : lot[m] = Unused => k <= m
  BY <1>2 DEF free
<1> QED
  BY <1>3 DEF NextLot

(* A lot that takes the next id is put where there was none.                *)
LEMMA ShelvedFits ==
  ASSUME lot \in Shelves, HasShelf, NEW n \in Nat, NEW u \in Nat
  PROVE  /\ Shelved(lot, n, u) \in Shelves
         /\ \A l \in Lots : lot[l].physical <= Shelved(lot, n, u)[l].physical
<1>4. NextLot(lot) \in Lots /\ lot[NextLot(lot)] = Unused
  BY NextLotFree
<1>5. PICK x \in Lots : x = NextLot(lot) /\ lot[x] = Unused
  BY <1>4
<1>6. Shelved(lot, n, u) = [lot EXCEPT ![x] = [physical |-> n, until |-> u]]
  BY <1>5 DEF Shelved
<1>7. Shelved(lot, n, u) \in Shelves
  BY <1>6 DEF Shelves
<1>8. ASSUME NEW l \in Lots PROVE lot[l].physical <= Shelved(lot, n, u)[l].physical
  <2>1. CASE l = x
    <3>1. lot[l].physical = 0
      BY <1>5, <2>1 DEF Unused
    <3>2. Shelved(lot, n, u)[l].physical = n
      BY <1>6, <2>1 DEF Shelves
    <3> QED
      BY <3>1, <3>2
  <2>2. CASE l # x
    <3>1. Shelved(lot, n, u)[l] = lot[l] /\ lot[l].physical \in Nat
      BY <1>6, <2>2 DEF Shelves
    <3> QED
      BY <3>1
  <2> QED
    BY <2>1, <2>2
<1> QED
  BY <1>7, <1>8

LEMMA LockedOrders ==
  ASSUME NEW fz \in [Dates -> SUBSET Orders], NEW act \in SUBSET Dates
  PROVE  Locked(fz, act) \in SUBSET Orders
  BY DEF Locked

(* What is kept of an impaired lot is what the locked lines hold of it.     *)
LEMMA KeptOfImpaired ==
  ASSUME NEW st, NEW lk \in SUBSET Orders, NEW impaired, NEW al \in Allocs,
         NEW l \in Lots \cap impaired
  PROVE  OnLot(Kept(st, lk, impaired, al), l) = Added(al[l], lk)
<1>1. Masks(Kept(st, lk, impaired, al)[l], al[l], lk, Orders)
  BY KeptPart DEF Masks
<1>2. Integral(al[l], Orders)
  BY TotalsType
<1>3. Added(Kept(st, lk, impaired, al)[l], Orders) = Added(al[l], lk)
  BY <1>1, <1>2, SumPart, Finiteness
<1> QED
  BY <1>3, OnLotIs

(* Settle may be called when every lot holds what is promised of it, or, if  *)
(* it is impaired, what the locked lines hold; and when no line has more    *)
(* than it asks for, or it loses what it has.                               *)
LEMMA Prepare ==
  ASSUME NEW st \in [Orders -> Statuses], NEW q \in [Orders -> Quantities],
         NEW d \in [Orders -> Dates], NEW comp \in [Orders -> Nat], NEW lt \in Shelves,
         NEW al \in Allocs, NEW fz \in [Dates -> SUBSET Orders], NEW act \in SUBSET Dates,
         NEW impaired,
         \A l \in Lots :
           \/ OnLot(al, l) <= lt[l].physical
           \/ l \in impaired /\ Added(al[l], Locked(fz, act)) <= lt[l].physical,
         \A o \in Orders :
           \/ OnOrder(al, o) <= Minus(q[o], comp[o])
           \/ o \notin Locked(fz, act) /\ st[o] # "READY"
  PROVE  Prepared(st, q, d, comp, lt, al, fz, act, impaired)
<1>1. PICK lk : lk = Locked(fz, act)
  OBVIOUS
<1>2. lk \in SUBSET Orders
  BY <1>1, LockedOrders
<1>3. PICK kept : kept = Kept(st, lk, impaired, al)
  OBVIOUS
<1>4. kept \in Allocs /\ \A l \in Lots, o \in Orders :
        /\ kept[l][o] <= al[l][o]
        /\ o \notin lk /\ st[o] # "READY" => kept[l][o] = 0
  BY <1>3, KeptPart
<1>5. ASSUME NEW l \in Lots PROVE OnLot(kept, l) <= lt[l].physical
  <2>1. lt[l].physical \in Nat /\ OnLot(kept, l) \in Nat /\ OnLot(al, l) \in Nat
    BY <1>4, TotalsType DEF Shelves
  <2>2. CASE OnLot(al, l) <= lt[l].physical
    <3>1. OnLot(kept, l) <= OnLot(al, l)
      BY <1>4, LotTotals
    <3> QED
      BY <2>1, <2>2, <3>1
  <2>3. CASE l \in impaired /\ Added(al[l], lk) <= lt[l].physical
    <3>1. OnLot(kept, l) = Added(al[l], lk)
      BY <1>2, <1>3, <2>3, KeptOfImpaired
    <3> QED
      BY <2>3, <3>1
  <2> QED
    BY <1>1, <2>2, <2>3
<1>6. ASSUME NEW o \in Orders PROVE OnOrder(kept, o) <= Minus(q[o], comp[o])
  <2>1. /\ Minus(q[o], comp[o]) \in Nat /\ OnOrder(kept, o) \in Nat
        /\ OnOrder(al, o) \in Nat
    <3>1. q[o] \in Nat /\ comp[o] \in Nat
      BY ProductionAssumption
    <3> QED
      BY <1>4, <3>1, TotalsType DEF Minus
  <2>2. CASE OnOrder(al, o) <= Minus(q[o], comp[o])
    <3>1. OnOrder(kept, o) <= OnOrder(al, o)
      BY <1>4, OrderTotals
    <3> QED
      BY <2>1, <2>2, <3>1
  <2>3. CASE o \notin lk /\ st[o] # "READY"
    <3>1. Masks(Column(kept, o), Column(kept, o), {}, Lots)
      BY <1>4, <2>3 DEF Masks, Column
    <3>2. Integral(Column(kept, o), Lots) /\ {} \in SUBSET Lots
      BY <1>4, TotalsType
    <3>3. Added(Column(kept, o), Lots) = Added(Column(kept, o), {})
      BY <3>1, <3>2, SumPart, Finiteness
    <3>4. OnOrder(kept, o) = 0
      BY <3>3, SumEmpty, OnOrderIs
    <3> QED
      BY <2>1, <3>4
  <2> QED
    BY <1>1, <2>2, <2>3
<1> QED
  BY <1>1, <1>3, <1>5, <1>6 DEF Prepared

----------------------------------------------------------------------------
(* What a step may do to promises: the five action properties.              *)

Stays ==
  \A o \in LockedNow \cap LockedNow' : \A l \in Lots : alloc'[l][o] = alloc[l][o]

Usable ==
  \A l \in Lots, o \in Orders : alloc'[l][o] > alloc[l][o] =>
    lot'[l].until >= due'[o] /\ lot'[l].until >= today

Spares ==
  \A l \in Lots : lot'[l].physical < lot[l].physical /\ UNCHANGED completed
    => \A m \in Lots \ {l}, o \in Orders :
         status[o] = "READY" /\ status'[o] \in Live => alloc'[m][o] >= alloc[m][o]

KeepsPromises ==
  \A o \in Orders : status[o] = "READY" /\ status'[o] = "CONFIRMED" =>
    \/ rest[o] /\ ~rest'[o]
    \/ \E l \in Lots : alloc[l][o] > 0 /\ lot'[l].physical < OnLot(alloc, l)

SoonestFirst ==
  \A o, u \in Orders :
    /\ status[o] \in Live
    /\ Sooner(due, o, u)
    /\ completed'[u] > completed[u]
    => completed'[o] + OnOrder(alloc, o) >= qty[o]

Moves == Stays /\ Usable /\ Spares /\ KeepsPromises /\ SoonestFirst

(* How the arguments of Settle must relate to what is there.                *)
Gentle(st, q, comp, lt, al, fz, act, impaired) ==
  /\ \A l \in Lots, o \in Orders :
       /\ al[l][o] <= alloc[l][o]
       /\ o \in LockedNow => al[l][o] = alloc[l][o]
       /\ status[o] = "READY" /\ st[o] \in Live => al[l][o] = alloc[l][o]
  /\ \A o \in Orders : status[o] = "READY" /\ st[o] \in Live =>
       st[o] = "READY" /\ q[o] = qty[o] /\ comp[o] >= completed[o]
  /\ \A l \in Lots : lt[l].physical < lot[l].physical /\ comp = completed => impaired \subseteq {l}
  /\ \A l \in Lots \cap impaired : lt[l].physical < OnLot(alloc, l)
  /\ \A o, u \in Orders :
       status[o] \in Live /\ Sooner(due, o, u) /\ comp[u] > completed[u]
       => comp[o] + OnOrder(alloc, o) >= qty[o]

LEMMA SettleMoves ==
  ASSUME ProdInv,
         NEW st, NEW q, NEW d, NEW comp, NEW lt, NEW al, NEW fz, NEW act, NEW impaired,
         Prepared(st, q, d, comp, lt, al, fz, act, impaired),
         Gentle(st, q, comp, lt, al, fz, act, impaired),
         Settle(st, q, d, comp, lt, al, fz, act, impaired),
         Activity' = act
  PROVE  Moves
<1>1. PICK lk : lk = Locked(fz, act)
  OBVIOUS
<1>2. PICK kept, demand : kept = Kept(st, lk, impaired, al) /\ demand = Demanded(st, fz, act)
  OBVIOUS
<1>3. Fair(kept, demand, q, d, comp, lt, today, alloc')
  BY <1>1, <1>2, SettleFair
<1>4. /\ status' = Evaluated(st, q, comp, alloc', rest)
      /\ due' = d /\ completed' = comp /\ lot' = lt /\ frozen' = fz
  BY DEF Settle
<1>5. /\ st \in [Orders -> Statuses] /\ al \in Allocs /\ alloc' \in Allocs /\ alloc \in Allocs
      /\ q \in [Orders -> Nat] /\ comp \in [Orders -> Nat] /\ lt \in Shelves
      /\ completed \in [Orders -> Nat] /\ qty \in [Orders -> Nat]
  BY <1>3, ProductionAssumption DEF Prepared, Fair, ProdInv, Types, ProductionTypeOK
<1>6. ASSUME NEW l \in Lots, NEW o \in Orders
      PROVE  /\ o \in lk => alloc'[l][o] = al[l][o]
             /\ st[o] = "READY" /\ l \notin impaired => alloc'[l][o] >= al[l][o]
             /\ alloc'[l][o] > al[l][o] => Eligible(lt, l, d[o], today)
  <2>1. /\ kept[l][o] <= al[l][o]
        /\ o \in lk \/ (st[o] = "READY" /\ l \notin impaired) => kept[l][o] = al[l][o]
    BY <1>2, <1>5, KeptPart
  <2>2. /\ kept[l][o] <= alloc'[l][o]
        /\ kept[l][o] # alloc'[l][o] => o \in demand /\ Eligible(lt, l, d[o], today)
    BY <1>3 DEF Fair
  <2>3. o \in lk => o \notin demand
    BY <1>1, <1>2 DEF Demanded
  <2>4. alloc'[l][o] \in Nat /\ al[l][o] \in Nat
    BY <1>5 DEF Allocs
  <2>5. kept \in Allocs
    BY <1>2, <1>5, KeptPart
  <2>6. kept[l][o] \in Nat
    BY <2>5 DEF Allocs
  <2> QED
    BY <2>1, <2>2, <2>3, <2>4, <2>6
<1>7. \A o \in Orders :
        /\ status'[o] \in Live <=> st[o] \in Live
        /\ status'[o] = "READY" <=> st[o] \in Live /\ rest[o] /\ comp[o] + OnOrder(alloc', o) >= q[o]
  BY <1>4, <1>5, EvaluatedType
<1>8. Stays
  <2>1. LockedNow' = lk
    BY <1>1, <1>4 DEF LockedNow
  <2>2. ASSUME NEW o \in LockedNow, o \in lk, NEW l \in Lots PROVE alloc'[l][o] = alloc[l][o]
    <3>1. o \in Orders
      BY <1>1, <2>2, LockedOrders DEF Prepared
    <3>2. al[l][o] = alloc[l][o]
      BY <2>2, <3>1 DEF Gentle
    <3> QED
      BY <1>6, <2>2, <3>1, <3>2
  <2> QED
    BY <2>1, <2>2 DEF Stays
<1>9. Usable
  <2> SUFFICES ASSUME NEW l \in Lots, NEW o \in Orders, alloc'[l][o] > alloc[l][o]
               PROVE  lot'[l].until >= due'[o] /\ lot'[l].until >= today
    BY DEF Usable
  <2>1. al[l][o] <= alloc[l][o]
    BY DEF Gentle
  <2>2. alloc'[l][o] \in Nat /\ al[l][o] \in Nat /\ alloc[l][o] \in Nat
    BY <1>5 DEF Allocs
  <2>3. Eligible(lt, l, d[o], today)
    BY <1>6, <2>1, <2>2
  <2> QED
    BY <1>4, <2>3 DEF Eligible
<1>10. Spares
  <2> SUFFICES ASSUME NEW l \in Lots, lot'[l].physical < lot[l].physical, completed' = completed,
                      NEW m \in Lots \ {l}, NEW o \in Orders,
                      status[o] = "READY", status'[o] \in Live
               PROVE  alloc'[m][o] >= alloc[m][o]
    BY DEF Spares
  <2>1. impaired \subseteq {l}
    BY <1>4 DEF Gentle
  <2>2. st[o] \in Live
    BY <1>7
  <2>3. st[o] = "READY" /\ al[m][o] = alloc[m][o]
    BY <2>2 DEF Gentle
  <2> QED
    BY <1>6, <2>1, <2>3
<1>11. KeepsPromises
  <2> SUFFICES ASSUME NEW o \in Orders, status[o] = "READY", status'[o] = "CONFIRMED",
                      \A l \in Lots : ~(alloc[l][o] > 0 /\ lot'[l].physical < OnLot(alloc, l))
               PROVE  FALSE
    BY DEF KeepsPromises
  <2>1. st[o] \in Live
    BY <1>7 DEF Live
  <2>2. st[o] = "READY" /\ q[o] = qty[o] /\ comp[o] >= completed[o]
    BY <2>1 DEF Gentle
  <2>3. ASSUME NEW l \in Lots PROVE alloc[l][o] <= alloc'[l][o]
    <3>1. alloc[l][o] \in Nat /\ alloc'[l][o] \in Nat /\ al[l][o] = alloc[l][o]
      BY <1>5, <2>1 DEF Allocs, Gentle
    <3>2. CASE l \notin impaired
      BY <1>6, <2>2, <3>1, <3>2
    <3>3. CASE l \in impaired
      <4>1. lot'[l].physical < OnLot(alloc, l)
        BY <1>4, <3>3 DEF Gentle
      <4>2. ~(alloc[l][o] > 0)
        BY <4>1
      <4> QED
        BY <3>1, <4>2
    <3> QED
      BY <3>2, <3>3
  <2>4. OnOrder(alloc, o) <= OnOrder(alloc', o)
    BY <1>5, <2>3, OrderTotals
  <2>5. OnOrder(alloc, o) \in Nat /\ OnOrder(alloc', o) \in Nat
        /\ qty[o] \in Nat /\ completed[o] \in Nat /\ comp[o] \in Nat
    BY <1>5, TotalsType
  <2>6. rest[o] /\ completed[o] + OnOrder(alloc, o) >= qty[o]
    BY DEF ProdInv, ReadyIsServed
  <2>7. comp[o] + OnOrder(alloc', o) >= q[o]
    BY <2>2, <2>4, <2>5, <2>6
  <2> QED
    BY <1>7, <2>1, <2>6, <2>7
<1>12. SoonestFirst
  BY <1>4 DEF Gentle, SoonestFirst
<1> QED
  BY <1>8, <1>9, <1>10, <1>11, <1>12 DEF Moves

----------------------------------------------------------------------------
(* The actions.                                                             *)

LEMMA SettleGood ==
  ASSUME ProdInv,
         NEW st, NEW q, NEW d, NEW comp, NEW lt, NEW al, NEW fz, NEW act, NEW impaired,
         Prepared(st, q, d, comp, lt, al, fz, act, impaired),
         Gentle(st, q, comp, lt, al, fz, act, impaired),
         Settle(st, q, d, comp, lt, al, fz, act, impaired),
         Activity' = act, RunTypes', RunsApart', rest' = rest, today' = today
  PROVE  ProdInv' /\ Moves
<1>1. Types
  BY DEF ProdInv
<1>2. ProdInv'
  BY <1>1, SettleInv
<1>3. Moves
  BY SettleMoves
<1> QED
  BY <1>2, <1>3

LEMMA InvTypes ==
  ASSUME ProdInv
  PROVE  /\ status \in [Orders -> Statuses] /\ due \in [Orders -> Dates]
         /\ qty \in [Orders -> Quantities] /\ qty \in [Orders -> Nat]
         /\ rest \in [Orders -> BOOLEAN] /\ completed \in [Orders -> Nat]
         /\ lot \in Shelves /\ alloc \in Allocs
         /\ frozen \in [Dates -> SUBSET Orders] /\ planned \in [Dates -> Nat]
         /\ RunTypes /\ RunsApart /\ Activity \in SUBSET Dates /\ today \in 1..Horizon
         /\ QuantitiesTyped /\ Types
  BY TypedQuantities, ActivityDates, ProductionAssumption
     DEF ProdInv, Types, ProductionTypeOK, Statuses, RunTypes

(* Workflows that leave runs alone.                                         *)
LEMMA RunsUntouched ==
  ASSUME ProdInv, UNCHANGED runVars
  PROVE  Activity' = Activity /\ RunTypes' /\ RunsApart'
<1>1. RunTypes /\ RunsApart
  BY InvTypes
<1> QED
  BY <1>1 DEF runVars, Activity, RunTypes, RunsApart

(* Workflows that move no promise themselves and take nothing off a shelf.  *)
LEMMA PlainArgs ==
  ASSUME ProdInv, NEW st \in [Orders -> Statuses], NEW q \in [Orders -> Quantities],
         NEW d \in [Orders -> Dates], NEW lt \in Shelves,
         NEW fz \in [Dates -> SUBSET Orders], NEW act \in SUBSET Dates,
         \A l \in Lots : lot[l].physical <= lt[l].physical,
         \A o \in Orders :
           \/ q[o] = qty[o]
           \/ o \notin Locked(fz, act) /\ st[o] # "READY" /\ status[o] # "READY",
         \A o \in Orders : status[o] = "READY" /\ st[o] \in Live => st[o] = "READY"
  PROVE  /\ Prepared(st, q, d, completed, lt, alloc, fz, act, {})
         /\ Gentle(st, q, completed, lt, alloc, fz, act, {})
<1>1. completed \in [Orders -> Nat] /\ alloc \in Allocs /\ lot \in Shelves
  BY InvTypes
<1>2. ASSUME NEW l \in Lots PROVE OnLot(alloc, l) <= lt[l].physical
  <2>1. OnLot(alloc, l) <= lot[l].physical
    BY DEF ProdInv, LotNotOverpromised
  <2>2. OnLot(alloc, l) \in Nat /\ lot[l].physical \in Nat /\ lt[l].physical \in Nat
    BY <1>1, TotalsType DEF Shelves
  <2> QED
    BY <2>1, <2>2
<1>3. ASSUME NEW o \in Orders
      PROVE  \/ OnOrder(alloc, o) <= Minus(q[o], completed[o])
             \/ o \notin Locked(fz, act) /\ st[o] # "READY"
  BY DEF ProdInv, NoDoubleCover
<1>4. Prepared(st, q, d, completed, lt, alloc, fz, act, {})
  BY <1>1, <1>2, <1>3, Prepare
<1>5. ASSUME NEW l \in Lots, NEW o \in Orders PROVE alloc[l][o] <= alloc[l][o]
  BY <1>1 DEF Allocs
<1>6. ASSUME NEW o \in Orders PROVE completed[o] >= completed[o] /\ ~(completed[o] > completed[o])
  BY <1>1
<1>7. Gentle(st, q, completed, lt, alloc, fz, act, {})
  BY <1>5, <1>6 DEF Gentle
<1> QED
  BY <1>4, <1>7

(* A workflow that leaves the lots alone takes nothing out of them, the way *)
(* Gentle asks.                                                             *)
LEMMA LotsHold == ProdInv => \A l \in Lots : lot[l].physical <= lot[l].physical
<1> SUFFICES ASSUME ProdInv, NEW l \in Lots PROVE lot[l].physical <= lot[l].physical
  OBVIOUS
<1>1. lot[l].physical \in Nat
  BY InvTypes DEF Shelves
<1> QED
  BY <1>1

LEMMA ConfirmGood ==
  ASSUME ProdInv, NEW o \in Orders, Confirm(o)
  PROVE  ProdInv' /\ Moves
<1>1. PICK st : st = [status EXCEPT ![o] = "CONFIRMED"]
  OBVIOUS
<1>2. /\ st \in [Orders -> Statuses]
      /\ \A u \in Orders : status[u] = "READY" /\ st[u] \in Live => st[u] = "READY"
  BY <1>1, InvTypes DEF Confirm, Statuses, Live
<1>3. /\ Settle(st, qty, due, completed, lot, alloc, frozen, Activity, {})
      /\ UNCHANGED runVars /\ rest' = rest /\ today' = today
  BY <1>1 DEF Confirm
<1>4. /\ Prepared(st, qty, due, completed, lot, alloc, frozen, Activity, {})
      /\ Gentle(st, qty, completed, lot, alloc, frozen, Activity, {})
  BY <1>2, InvTypes, LotsHold, PlainArgs
<1> QED
  BY <1>3, <1>4, RunsUntouched, SettleGood

LEMMA CancelGood ==
  ASSUME ProdInv, NEW o \in Orders, Cancel(o)
  PROVE  ProdInv' /\ Moves
<1>1. PICK st : st = [status EXCEPT ![o] = "CANCELED"]
  OBVIOUS
<1>2. /\ st \in [Orders -> Statuses]
      /\ \A u \in Orders : status[u] = "READY" /\ st[u] \in Live => st[u] = "READY"
  BY <1>1, InvTypes DEF Statuses, Live
<1>3. /\ Settle(st, qty, due, completed, lot, alloc, frozen, Activity, {})
      /\ UNCHANGED runVars /\ rest' = rest /\ today' = today
  BY <1>1 DEF Cancel
<1>4. /\ Prepared(st, qty, due, completed, lot, alloc, frozen, Activity, {})
      /\ Gentle(st, qty, completed, lot, alloc, frozen, Activity, {})
  BY <1>2, InvTypes, LotsHold, PlainArgs
<1> QED
  BY <1>3, <1>4, RunsUntouched, SettleGood

LEMMA EditGood ==
  ASSUME ProdInv, NEW o \in Orders, NEW n \in Quantities, NEW t \in Dates, Edit(o, n, t)
  PROVE  ProdInv' /\ Moves
<1>1. PICK q, d : q = [qty EXCEPT ![o] = n] /\ d = [due EXCEPT ![o] = t]
  OBVIOUS
<1>2. /\ q \in [Orders -> Quantities] /\ d \in [Orders -> Dates]
      /\ \A u \in Orders \ {o} : q[u] = qty[u]
  BY <1>1, InvTypes
<1>3. /\ Settle(status, q, d, completed, lot, alloc, frozen, Activity, {})
      /\ UNCHANGED runVars /\ rest' = rest /\ today' = today
      /\ status[o] # "READY" /\ o \notin Locked(frozen, Activity)
  BY <1>1 DEF Edit, LockedNow
<1>4. /\ Prepared(status, q, d, completed, lot, alloc, frozen, Activity, {})
      /\ Gentle(status, q, completed, lot, alloc, frozen, Activity, {})
  BY <1>2, <1>3, InvTypes, LotsHold, PlainArgs
<1> QED
  BY <1>3, <1>4, RunsUntouched, SettleGood

LEMMA CreateSurplusGood ==
  ASSUME ProdInv, NEW n \in Outputs, NEW u \in Expiries, CreateSurplus(n, u)
  PROVE  ProdInv' /\ Moves
<1>1. PICK lt : lt = Shelved(lot, n, u)
  OBVIOUS
<1>2. lt \in Shelves /\ \A l \in Lots : lot[l].physical <= lt[l].physical
  <2>1. n \in Nat /\ u \in Nat /\ HasShelf
    BY ProductionAssumption DEF CreateSurplus
  <2> QED
    BY <1>1, <2>1, InvTypes, ShelvedFits
<1>3. /\ Settle(status, qty, due, completed, lt, alloc, frozen, Activity, {})
      /\ UNCHANGED runVars /\ rest' = rest /\ today' = today
  BY <1>1 DEF CreateSurplus
<1>4. /\ Prepared(status, qty, due, completed, lt, alloc, frozen, Activity, {})
      /\ Gentle(status, qty, completed, lt, alloc, frozen, Activity, {})
  BY <1>2, InvTypes, PlainArgs
<1> QED
  BY <1>3, <1>4, RunsUntouched, SettleGood

(* A run that ends takes its own date out of production, and no other.      *)
LEMMA RunEnds ==
  ASSUME ProdInv, NEW r \in Runs, runState[r] = "IN_PRODUCTION",
         NEW s \in {"COMPLETED", "CANCELED"},
         runState' = [runState EXCEPT ![r] = s], runDate' = runDate
  PROVE  /\ Activity' = Activity \ {runDate[r]} /\ RunTypes' /\ RunsApart'
         /\ Released(r) \in [Dates -> SUBSET Orders]
         /\ Activity \ {runDate[r]} \in SUBSET Dates
<1>1. RunTypes /\ RunsApart /\ frozen \in [Dates -> SUBSET Orders] /\ Activity \in SUBSET Dates
  BY InvTypes
<1>2. /\ runState'[r] # "IN_PRODUCTION"
      /\ \A q \in Runs \ {r} : runState'[q] = runState[q]
  BY <1>1 DEF RunTypes
<1>3. Activity' = Activity \ {runDate[r]}
  <2>1. ASSUME NEW d \in Activity' PROVE d \in Activity \ {runDate[r]}
    <3>1. PICK q \in Runs : runState'[q] = "IN_PRODUCTION" /\ d = runDate[q]
      BY <2>1 DEF Activity, ActiveDates
    <3>2. q # r /\ runState[q] = "IN_PRODUCTION"
      BY <1>2, <3>1
    <3>3. runDate[q] # runDate[r]
      BY <1>1, <3>2 DEF RunsApart
    <3> QED
      BY <3>1, <3>2, <3>3 DEF Activity, ActiveDates
  <2>2. ASSUME NEW d \in Activity, d # runDate[r] PROVE d \in Activity'
    <3>1. PICK q \in Runs : runState[q] = "IN_PRODUCTION" /\ d = runDate[q]
      BY DEF Activity, ActiveDates
    <3>2. runState'[q] = "IN_PRODUCTION"
      BY <1>2, <2>2, <3>1
    <3> QED
      BY <3>1, <3>2 DEF Activity, ActiveDates
  <2> QED
    BY <2>1, <2>2
<1>4. RunTypes'
  BY <1>1 DEF RunTypes
<1>5. RunsApart'
  BY <1>1, <1>2 DEF RunsApart
<1>6. Released(r) \in [Dates -> SUBSET Orders]
  BY <1>1 DEF Released
<1> QED
  BY <1>1, <1>3, <1>4, <1>5, <1>6

LEMMA CancelRunGood ==
  ASSUME ProdInv, NEW r \in Runs, CancelRun(r)
  PROVE  ProdInv' /\ Moves
<1>1. PICK fz, act : fz = Released(r) /\ act = Activity \ {runDate[r]}
  OBVIOUS
<1>2. /\ runState[r] = "IN_PRODUCTION" /\ runState' = [runState EXCEPT ![r] = "CANCELED"]
      /\ runDate' = runDate /\ rest' = rest /\ today' = today
      /\ Settle(status, qty, due, completed, lot, alloc, fz, act, {})
  BY <1>1 DEF CancelRun
<1>3. /\ Activity' = act /\ RunTypes' /\ RunsApart'
      /\ fz \in [Dates -> SUBSET Orders] /\ act \in SUBSET Dates
  BY <1>1, <1>2, RunEnds
<1>4. /\ Prepared(status, qty, due, completed, lot, alloc, fz, act, {})
      /\ Gentle(status, qty, completed, lot, alloc, fz, act, {})
  BY <1>3, InvTypes, LotsHold, PlainArgs
<1> QED
  BY <1>2, <1>3, <1>4, SettleGood

(* The rows the completion of an Order leaves.                              *)
CompletionRows(o, st, al, lt) ==
  /\ st = [status EXCEPT ![o] = "COMPLETED"]
  /\ al = [l \in Lots |-> [alloc[l] EXCEPT ![o] = 0]]
  /\ lt = Consumed(o)

LEMMA CompletionPrepared ==
  ASSUME ProdInv, NEW o \in Orders, CompleteOrder(o),
         NEW st, NEW al, NEW lt, CompletionRows(o, st, al, lt)
  PROVE  /\ Prepared(st, qty, due, completed, lt, al, frozen, Activity, {})
         /\ Gentle(st, qty, completed, lt, al, frozen, Activity, {})
         /\ st \in [Orders -> Statuses]
         /\ \A u \in Orders \ {o}, l \in Lots : al[l][u] = alloc[l][u]
<1>1. /\ st = [status EXCEPT ![o] = "COMPLETED"]
      /\ al = [l \in Lots |-> [alloc[l] EXCEPT ![o] = 0]]
      /\ lt = Consumed(o)
  BY DEF CompletionRows
<1>2. o \notin LockedNow
  BY DEF CompleteOrder
<1>3. /\ status \in [Orders -> Statuses] /\ alloc \in Allocs /\ lot \in Shelves
      /\ completed \in [Orders -> Nat] /\ qty \in [Orders -> Nat]
  BY InvTypes
<1>4. /\ st \in [Orders -> Statuses] /\ st[o] = "COMPLETED"
      /\ \A u \in Orders \ {o} : st[u] = status[u]
  BY <1>1, <1>3 DEF Statuses
<1>5. /\ al \in Allocs
      /\ \A l \in Lots : al[l][o] = 0 /\ \A u \in Orders \ {o} : al[l][u] = alloc[l][u]
  BY <1>1, <1>3 DEF Allocs
<1>6. /\ lt \in Shelves
      /\ \A l \in Lots : lt[l].physical = Minus(lot[l].physical, alloc[l][o])
  <2>1. ASSUME NEW l \in Lots
        PROVE  /\ lt[l] \in [physical : Nat, until : Nat]
               /\ lt[l].physical = Minus(lot[l].physical, alloc[l][o])
    <3>1. PICK p : p = Minus(lot[l].physical, alloc[l][o])
      OBVIOUS
    <3>2. lot[l] \in [physical : Nat, until : Nat] /\ alloc[l][o] \in Nat
      BY <1>3 DEF Shelves, Allocs
    <3>3. p \in Nat
      BY <3>1, <3>2 DEF Minus
    <3>4. lt[l] = [lot[l] EXCEPT !.physical = p]
      BY <1>1, <3>1 DEF Consumed
    <3> QED
      BY <3>1, <3>2, <3>3, <3>4
  <2>2. lt = [l \in Lots |-> lt[l]]
    BY <1>1 DEF Consumed
  <2> QED
    BY <2>1, <2>2 DEF Shelves
<1>7. ASSUME NEW l \in Lots, NEW u \in Orders
      PROVE  /\ al[l][u] <= alloc[l][u]
             /\ u # o => al[l][u] = alloc[l][u]
  <2>1. alloc[l][u] \in Nat
    BY <1>3 DEF Allocs
  <2> QED
    BY <1>5, <2>1
<1>8. ASSUME NEW l \in Lots PROVE OnLot(al, l) <= lt[l].physical
  <2>1. Integral(al[l], Orders) /\ Integral(alloc[l], Orders)
    BY <1>3, <1>5, TotalsType
  <2>2. \A u \in Orders \ {o} : al[l][u] = alloc[l][u]
    BY <1>5
  <2>3. Added(al[l], Orders) = Added(alloc[l], Orders) + (al[l][o] - alloc[l][o])
    BY <2>1, <2>2, SumPoint, Finiteness
  <2>4. OnLot(alloc, l) <= lot[l].physical
    BY DEF ProdInv, LotNotOverpromised
  <2>5. /\ OnLot(alloc, l) \in Nat /\ OnLot(al, l) \in Nat
        /\ alloc[l][o] \in Nat /\ lot[l].physical \in Nat /\ al[l][o] = 0
    BY <1>3, <1>5, TotalsType DEF Allocs, Shelves
  <2>6. OnLot(al, l) = OnLot(alloc, l) - alloc[l][o]
    BY <2>3, <2>5, OnLotIs
  <2>7. lt[l].physical = Minus(lot[l].physical, alloc[l][o])
    BY <1>6
  <2> QED
    BY <2>4, <2>5, <2>6, <2>7 DEF Minus
<1>9. ASSUME NEW u \in Orders PROVE OnOrder(al, u) <= Minus(qty[u], completed[u])
  <2>1. OnOrder(al, u) <= OnOrder(alloc, u)
    BY <1>3, <1>5, <1>7, OrderTotals
  <2>2. OnOrder(alloc, u) <= Minus(qty[u], completed[u])
    BY DEF ProdInv, NoDoubleCover
  <2>3. OnOrder(al, u) \in Nat /\ OnOrder(alloc, u) \in Nat /\ Minus(qty[u], completed[u]) \in Nat
    <3>1. qty[u] \in Nat /\ completed[u] \in Nat
      BY <1>3
    <3> QED
      BY <1>3, <1>5, <3>1, TotalsType DEF Minus
  <2> QED
    BY <2>1, <2>2, <2>3
<1>10. Prepared(st, qty, due, completed, lt, al, frozen, Activity, {})
  BY <1>4, <1>5, <1>6, <1>8, <1>9, InvTypes, Prepare
<1>11. Gentle(st, qty, completed, lt, al, frozen, Activity, {})
  <2>1. ASSUME NEW u \in Orders, st[u] \in Live PROVE u # o /\ st[u] = status[u]
    BY <1>4, <2>1 DEF Live
  <2>2. ASSUME NEW u \in Orders PROVE completed[u] >= completed[u] /\ ~(completed[u] > completed[u])
    BY <1>3
  <2>3. ASSUME NEW u \in Orders, status[u] = "READY", st[u] \in Live
        PROVE  st[u] = "READY" /\ qty[u] = qty[u] /\ completed[u] >= completed[u]
    BY <2>1, <2>2, <2>3
  <2>4. ASSUME NEW l \in Lots, NEW u \in Orders
        PROVE  /\ al[l][u] <= alloc[l][u]
               /\ u \in LockedNow => al[l][u] = alloc[l][u]
               /\ status[u] = "READY" /\ st[u] \in Live => al[l][u] = alloc[l][u]
    BY <1>2, <1>7, <2>1
  <2> QED
    BY <2>2, <2>3, <2>4 DEF Gentle
<1> QED
  BY <1>4, <1>5, <1>10, <1>11

LEMMA CompleteOrderGood ==
  ASSUME ProdInv, NEW o \in Orders, CompleteOrder(o)
  PROVE  ProdInv' /\ Moves
<1>1. PICK st, al, lt : CompletionRows(o, st, al, lt)
  BY DEF CompletionRows
<1>2. /\ Settle(st, qty, due, completed, lt, al, frozen, Activity, {})
      /\ UNCHANGED runVars /\ rest' = rest /\ today' = today
  BY <1>1 DEF CompletionRows, CompleteOrder
<1>3. /\ Prepared(st, qty, due, completed, lt, al, frozen, Activity, {})
      /\ Gentle(st, qty, completed, lt, al, frozen, Activity, {})
  BY <1>1, CompletionPrepared
<1> QED
  BY <1>2, <1>3, RunsUntouched, SettleGood

LEMMA FloorIs ==
  ASSUME NEW l
  PROVE  Floor(l) = Added(alloc[l], LockedNow)
  BY DEF Floor, Over, MapThenSumSet, MapThenFoldSet, Added, Adder

LEMMA ReductionPrepared ==
  ASSUME ProdInv, NEW k \in Lots, NEW n \in Outputs, ReducePromised(k, n),
         NEW lt, lt = [lot EXCEPT ![k].physical = n]
  PROVE  /\ Prepared(status, qty, due, completed, lt, alloc, frozen, Activity, {k})
         /\ Gentle(status, qty, completed, lt, alloc, frozen, Activity, {k})
<1>1. lt = [lot EXCEPT ![k].physical = n]
  OBVIOUS
<1>2. n >= Floor(k) /\ n < OnLot(alloc, k)
  BY DEF ReducePromised
<1>3. /\ lot \in Shelves /\ alloc \in Allocs /\ completed \in [Orders -> Nat] /\ n \in Nat
  BY InvTypes, ProductionAssumption
<1>4. lt \in Shelves /\ lt[k].physical = n /\ \A l \in Lots \ {k} : lt[l] = lot[l]
  BY <1>1, <1>3 DEF Shelves
<1>5. ASSUME NEW l \in Lots
      PROVE  \/ OnLot(alloc, l) <= lt[l].physical
             \/ l \in {k} /\ Added(alloc[l], Locked(frozen, Activity)) <= lt[l].physical
  <2>1. CASE l = k
    <3>1. Floor(k) = Added(alloc[k], Locked(frozen, Activity))
      BY FloorIs DEF LockedNow
    <3>2. Added(alloc[k], Locked(frozen, Activity)) <= lt[k].physical
      BY <1>2, <1>4, <3>1
    <3> QED
      BY <2>1, <3>2
  <2>2. CASE l # k
    BY <1>4, <2>2 DEF ProdInv, LotNotOverpromised
  <2> QED
    BY <2>1, <2>2
<1>6. \A o \in Orders : OnOrder(alloc, o) <= Minus(qty[o], completed[o])
  BY DEF ProdInv, NoDoubleCover
<1>7. Prepared(status, qty, due, completed, lt, alloc, frozen, Activity, {k})
  BY <1>3, <1>4, <1>5, <1>6, InvTypes, Prepare
<1>8. Gentle(status, qty, completed, lt, alloc, frozen, Activity, {k})
  <2>1. ASSUME NEW l \in Lots, NEW o \in Orders PROVE alloc[l][o] <= alloc[l][o]
    BY <1>3 DEF Allocs
  <2>2. ASSUME NEW o \in Orders PROVE completed[o] >= completed[o] /\ ~(completed[o] > completed[o])
    BY <1>3
  <2>3. ASSUME NEW l \in Lots, lt[l].physical < lot[l].physical PROVE {k} \subseteq {l}
    <3>1. CASE l # k
      <4>1. lt[l].physical = lot[l].physical /\ lot[l].physical \in Nat
        BY <1>3, <1>4, <3>1 DEF Shelves
      <4> QED
        BY <2>3, <4>1
    <3> QED
      BY <3>1
  <2>4. \A l \in Lots \cap {k} : lt[l].physical < OnLot(alloc, l)
    BY <1>2, <1>4
  <2> QED
    BY <2>1, <2>2, <2>3, <2>4 DEF Gentle
<1> QED
  BY <1>7, <1>8

LEMMA ReducePromisedGood ==
  ASSUME ProdInv, NEW k \in Lots, NEW n \in Outputs, ReducePromised(k, n)
  PROVE  ProdInv' /\ Moves
<1>1. PICK lt : lt = [lot EXCEPT ![k].physical = n]
  OBVIOUS
<1>2. /\ Settle(status, qty, due, completed, lt, alloc, frozen, Activity, {k})
      /\ UNCHANGED runVars /\ rest' = rest /\ today' = today
  BY <1>1 DEF ReducePromised
<1>3. /\ Prepared(status, qty, due, completed, lt, alloc, frozen, Activity, {k})
      /\ Gentle(status, qty, completed, lt, alloc, frozen, Activity, {k})
  BY <1>1, ReductionPrepared
<1> QED
  BY <1>2, <1>3, RunsUntouched, SettleGood

(* The rows a run leaves when it is finished with output out.               *)
FinishRows(r, out, comp, lt, fz, act) ==
  LET share == SharedOut(out)
  IN  /\ comp = [o \in Orders |-> completed[o] + share.given[o]]
      /\ lt = IF share.left = 0 THEN lot ELSE Shelved(lot, share.left, today + UsableDays)
      /\ fz = Released(r)
      /\ act = Activity \ {runDate[r]}

LEMMA FinishPrepared ==
  ASSUME ProdInv, NEW r \in Runs, NEW out \in Outputs, Finish(r, out),
         NEW comp, NEW lt, NEW fz, NEW act, FinishRows(r, out, comp, lt, fz, act)
  PROVE  /\ Prepared(status, qty, due, comp, lt, alloc, fz, act, {})
         /\ Gentle(status, qty, comp, lt, alloc, fz, act, {})
         /\ \A o \in Orders : comp[o] >= completed[o]
<1>1. PICK share : share = SharedOut(out)
  OBVIOUS
<1>2. /\ comp = [o \in Orders |-> completed[o] + share.given[o]]
      /\ lt = IF share.left = 0 THEN lot ELSE Shelved(lot, share.left, today + UsableDays)
      /\ fz = Released(r) /\ act = Activity \ {runDate[r]}
  BY <1>1 DEF FinishRows
<1>3. share.left > 0 => HasShelf
  BY <1>1 DEF Finish
<1>4. fz \in [Dates -> SUBSET Orders] /\ act \in SUBSET Dates
  BY <1>2, InvTypes DEF Released
<1>5. Shared(share, Supplied)
  <2>1. QuantitiesTyped /\ out \in Nat
    BY InvTypes, ProductionAssumption
  <2> QED
    BY <1>1, <2>1, SharedOutShares
<1>6. /\ share.left \in Nat /\ share.given \in [Orders -> Nat]
      /\ completed \in [Orders -> Nat] /\ qty \in [Orders -> Nat]
      /\ alloc \in Allocs /\ lot \in Shelves /\ today \in Nat
  BY <1>5, InvTypes DEF Shared, Shares
<1>7. /\ comp \in [Orders -> Nat]
      /\ \A o \in Orders : comp[o] = completed[o] + share.given[o]
  BY <1>2, <1>6
<1>8. lt \in Shelves /\ \A l \in Lots : lot[l].physical <= lt[l].physical
  <2>1. CASE share.left = 0
    BY <1>2, <1>6, <2>1, LotsHold
  <2>2. CASE share.left # 0
    <3>1. HasShelf /\ today + UsableDays \in Nat
      BY <1>3, <1>6, <2>2, ProductionAssumption
    <3> QED
      BY <1>2, <1>6, <2>2, <3>1, ShelvedFits
  <2> QED
    BY <2>1, <2>2
<1>9. ASSUME NEW o \in Orders
      PROVE  /\ OnOrder(alloc, o) <= Minus(qty[o], comp[o])
             /\ comp[o] >= completed[o]
             /\ share.given[o] = Needs(o) => comp[o] + OnOrder(alloc, o) >= qty[o]
  <2>1. /\ qty[o] \in Nat /\ completed[o] \in Nat /\ share.given[o] \in Nat
        /\ OnOrder(alloc, o) \in Nat /\ comp[o] = completed[o] + share.given[o]
    BY <1>6, <1>7, TotalsType
  <2>2. OnOrder(alloc, o) <= Minus(qty[o], completed[o])
    BY DEF ProdInv, NoDoubleCover
  <2>3. share.given[o] <= Minus(qty[o], completed[o] + OnOrder(alloc, o))
    BY <1>5 DEF Shared, Needs, Open
  <2>4. OnOrder(alloc, o) <= Minus(qty[o], comp[o])
    BY <2>1, <2>2, <2>3 DEF Minus
  <2>5. share.given[o] = Needs(o) => comp[o] + OnOrder(alloc, o) >= qty[o]
    BY <2>1 DEF Needs, Open, Minus
  <2> QED
    BY <2>1, <2>4, <2>5
<1>10. ASSUME NEW l \in Lots PROVE OnLot(alloc, l) <= lt[l].physical
  <2>1. OnLot(alloc, l) <= lot[l].physical
    BY DEF ProdInv, LotNotOverpromised
  <2>2. OnLot(alloc, l) \in Nat /\ lot[l].physical \in Nat /\ lt[l].physical \in Nat
    BY <1>6, <1>8, TotalsType DEF Shelves
  <2> QED
    BY <1>8, <2>1, <2>2
<1>11. Prepared(status, qty, due, comp, lt, alloc, fz, act, {})
  BY <1>4, <1>6, <1>7, <1>8, <1>9, <1>10, InvTypes, Prepare
<1>12. Gentle(status, qty, comp, lt, alloc, fz, act, {})
  <2>1. ASSUME NEW l \in Lots, NEW o \in Orders PROVE alloc[l][o] <= alloc[l][o]
    BY <1>6 DEF Allocs
  <2>2. ASSUME NEW o \in Orders, NEW u \in Orders,
               status[o] \in Live, Sooner(due, o, u), comp[u] > completed[u]
        PROVE  comp[o] + OnOrder(alloc, o) >= qty[o]
    <3>1. share.given[u] > 0 /\ share.given[u] \in Nat
      BY <1>6, <1>7, <2>2
    <3>2. o \in Supplied /\ u \in Supplied
      <4>1. u \in Supplied
        BY <1>5, <3>1 DEF Shared
      <4> QED
        BY <2>2, <4>1 DEF Supplied
    <3>3. share.given[o] = Needs(o)
      BY <1>5, <2>2, <3>1, <3>2 DEF Shared
    <3> QED
      BY <1>9, <3>3
  <2> QED
    BY <1>9, <2>1, <2>2 DEF Gentle
<1> QED
  BY <1>9, <1>11, <1>12

LEMMA FinishEnds ==
  ASSUME ProdInv, NEW r \in Runs, NEW out \in Outputs, Finish(r, out),
         NEW comp, NEW lt, NEW fz, NEW act, FinishRows(r, out, comp, lt, fz, act)
  PROVE  /\ runState[r] = "IN_PRODUCTION" /\ runState' = [runState EXCEPT ![r] = "COMPLETED"]
         /\ runDate' = runDate /\ rest' = rest /\ today' = today
         /\ Settle(status, qty, due, comp, lt, alloc, fz, act, {})
         /\ Activity' = act /\ RunTypes' /\ RunsApart'
<1>1. /\ runState[r] = "IN_PRODUCTION" /\ runState' = [runState EXCEPT ![r] = "COMPLETED"]
      /\ runDate' = runDate /\ rest' = rest /\ today' = today
      /\ Settle(status, qty, due, comp, lt, alloc, fz, act, {})
  BY DEF Finish, FinishRows
<1>2. act = Activity \ {runDate[r]}
  BY DEF FinishRows
<1> QED
  BY <1>1, <1>2, RunEnds

LEMMA FinishGood ==
  ASSUME ProdInv, NEW r \in Runs, NEW out \in Outputs, Finish(r, out)
  PROVE  ProdInv' /\ Moves
<1>1. PICK comp, lt, fz, act : FinishRows(r, out, comp, lt, fz, act)
  BY DEF FinishRows
<1>2. /\ Prepared(status, qty, due, comp, lt, alloc, fz, act, {})
      /\ Gentle(status, qty, comp, lt, alloc, fz, act, {})
  BY <1>1, FinishPrepared
<1>3. /\ Settle(status, qty, due, comp, lt, alloc, fz, act, {})
      /\ Activity' = act /\ RunTypes' /\ RunsApart' /\ rest' = rest /\ today' = today
  BY <1>1, FinishEnds
<1> QED
  BY <1>2, <1>3, SettleGood

(* Steps that move no promise and no supply below what is promised.         *)
LEMMA QuietMoves ==
  ASSUME ProdInv, alloc' = alloc, completed' = completed,
         \A o \in Orders : status[o] = "READY" /\ status'[o] = "CONFIRMED" => rest[o] /\ ~rest'[o]
  PROVE  Moves
<1>1. alloc \in Allocs /\ completed \in [Orders -> Nat]
  BY InvTypes
<1>2. \A l \in Lots, o \in Orders : ~(alloc[l][o] > alloc[l][o]) /\ alloc[l][o] >= alloc[l][o]
  BY <1>1 DEF Allocs
<1>3. \A o \in Orders : ~(completed[o] > completed[o])
  BY <1>1
<1> QED
  BY <1>2, <1>3 DEF Moves, Stays, Usable, Spares, KeepsPromises, SoonestFirst

LEMMA RestChangeGood ==
  ASSUME ProdInv, NEW o \in Orders, RestChange(o)
  PROVE  ProdInv' /\ Moves
<1>1. /\ rest' = [rest EXCEPT ![o] = ~@]
      /\ status' = Evaluated(status, qty, completed, alloc, rest')
      /\ UNCHANGED <<due, qty, completed, lot, alloc, frozen, planned, runState, runDate, today>>
  BY DEF RestChange, stockVars, runVars
<1>2. /\ status' \in [Orders -> Statuses]
      /\ \A u \in Orders :
           /\ status'[u] \in Live <=> status[u] \in Live
           /\ status'[u] = "READY"
                <=> status[u] \in Live /\ rest'[u] /\ completed[u] + OnOrder(alloc, u) >= qty[u]
  <2>1. PICK st, rs, after : st = status /\ rs = rest' /\ after = status'
    OBVIOUS
  <2>2. after = Evaluated(st, qty, completed, alloc, rs)
    BY <1>1, <2>1
  <2>3. st \in [Orders -> Statuses]
    BY <2>1, InvTypes
  <2>4. /\ Evaluated(st, qty, completed, alloc, rs) \in [Orders -> Statuses]
        /\ \A u \in Orders :
             /\ Evaluated(st, qty, completed, alloc, rs)[u] \in Live <=> st[u] \in Live
             /\ Evaluated(st, qty, completed, alloc, rs)[u] = "READY"
                  <=> st[u] \in Live /\ rs[u] /\ completed[u] + OnOrder(alloc, u) >= qty[u]
    BY <2>3, EvaluatedType
  <2> QED
    BY <2>1, <2>2, <2>4
<1>3. rest' \in [Orders -> BOOLEAN]
  BY <1>1, InvTypes
<1>4. Types'
  BY <1>1, <1>2, <1>3 DEF ProdInv, Types, ProductionTypeOK, Statuses
<1>5. RunsApart' /\ Activity' = Activity
  BY <1>1, RunsUntouched DEF runVars
<1>6. LotNotOverpromised' /\ NoDoubleCover'
  BY <1>1 DEF ProdInv, LotNotOverpromised, NoDoubleCover
<1>7. NeverOverplanned'
  <2>1. ASSUME NEW d \in Dates PROVE Linked(d)' = Linked(d)
    BY <1>1, <1>2, <1>5 DEF Linked, LockedNow
  <2> QED
    BY <1>1, <1>5, <2>1 DEF ProdInv, NeverOverplanned
<1>8. ReadyIsServed'
  BY <1>1, <1>2 DEF ReadyIsServed
<1>9. ASSUME NEW u \in Orders, status[u] = "READY", status'[u] = "CONFIRMED"
      PROVE  rest[u] /\ ~rest'[u]
  <2>1. rest[u] /\ completed[u] + OnOrder(alloc, u) >= qty[u]
    BY <1>9 DEF ProdInv, ReadyIsServed
  <2> QED
    BY <1>2, <1>9, <2>1 DEF Live
<1> QED
  BY <1>1, <1>4, <1>5, <1>6, <1>7, <1>8, <1>9, QuietMoves DEF ProdInv

(* A run that starts takes its date into production and locks its lines.    *)
LEMMA RunStarts ==
  ASSUME ProdInv, NEW r \in Runs, NEW d \in Dates, Start(r, d)
  PROVE  /\ Activity' = Activity \cup {d} /\ RunTypes' /\ RunsApart'
         /\ LockedNow' = LockedNow \cup Linked(d)
         /\ \A e \in Dates \ Activity' : Linked(e)' = Linked(e)
<1>1. /\ runState[r] = "FREE" /\ d \notin Activity
      /\ runState' = [runState EXCEPT ![r] = "IN_PRODUCTION"]
      /\ runDate' = [runDate EXCEPT ![r] = d]
      /\ frozen' = [frozen EXCEPT ![d] = Linked(d)]
      /\ UNCHANGED <<status, due, qty, rest, completed, lot, alloc, planned, today>>
  BY DEF Start, orderVars, stockVars
<1>2. RunTypes /\ RunsApart /\ frozen \in [Dates -> SUBSET Orders] /\ Activity \in SUBSET Dates
  BY InvTypes
<1>3. /\ runState'[r] = "IN_PRODUCTION" /\ runDate'[r] = d
      /\ \A q \in Runs \ {r} : runState'[q] = runState[q] /\ runDate'[q] = runDate[q]
  BY <1>1, <1>2 DEF RunTypes
<1>4. \A q \in Runs : runState[q] = "IN_PRODUCTION" => runDate[q] # d
  BY <1>1 DEF Activity, ActiveDates
<1>5. Activity' = Activity \cup {d}
  <2>1. ASSUME NEW e \in Activity' PROVE e \in Activity \cup {d}
    <3>1. PICK q \in Runs : runState'[q] = "IN_PRODUCTION" /\ e = runDate'[q]
      BY <2>1 DEF Activity, ActiveDates
    <3>2. CASE q = r
      BY <1>3, <3>1, <3>2
    <3>3. CASE q # r
      BY <1>3, <3>1, <3>3 DEF Activity, ActiveDates
    <3> QED
      BY <3>2, <3>3
  <2>2. ASSUME NEW e \in Activity PROVE e \in Activity'
    <3>1. PICK q \in Runs : runState[q] = "IN_PRODUCTION" /\ e = runDate[q]
      BY DEF Activity, ActiveDates
    <3>2. q # r
      BY <1>1, <3>1
    <3> QED
      BY <1>3, <3>1, <3>2 DEF Activity, ActiveDates
  <2>3. d \in Activity'
    BY <1>3 DEF Activity, ActiveDates
  <2> QED
    BY <2>1, <2>2, <2>3
<1>6. RunTypes' /\ RunsApart'
  <2>1. RunTypes'
    BY <1>1, <1>2 DEF RunTypes
  <2>2. RunsApart'
    BY <1>2, <1>3, <1>4 DEF RunsApart
  <2> QED
    BY <2>1, <2>2
<1>7. LockedNow' = LockedNow \cup Linked(d)
  <2>1. \A e \in Activity : frozen'[e] = frozen[e]
    BY <1>1, <1>2
  <2>2. frozen'[d] = Linked(d)
    BY <1>1, <1>2
  <2> QED
    BY <1>5, <2>1, <2>2 DEF LockedNow, Locked
<1>8. ASSUME NEW e \in Dates \ Activity' PROVE Linked(e)' = Linked(e)
  <2>1. e # d /\ e \notin Activity
    BY <1>5
  <2>2. \A o \in Linked(e) : o \notin Linked(d)
    BY <2>1 DEF Linked
  <2>3. Linked(e)' = {o \in Orders : status[o] \in Live /\ o \notin LockedNow' /\ due[o] = e}
    BY <1>1 DEF Linked
  <2> QED
    BY <1>7, <2>2, <2>3 DEF Linked
<1> QED
  BY <1>5, <1>6, <1>7, <1>8

LEMMA StartGood ==
  ASSUME ProdInv, NEW r \in Runs, NEW d \in Dates, Start(r, d)
  PROVE  ProdInv' /\ Moves
<1>1. /\ frozen' = [frozen EXCEPT ![d] = Linked(d)]
      /\ UNCHANGED <<status, due, qty, rest, completed, lot, alloc, planned, today>>
  BY DEF Start, orderVars, stockVars
<1>2. frozen \in [Dates -> SUBSET Orders]
  BY InvTypes
<1>3. /\ Activity' = Activity \cup {d} /\ RunTypes' /\ RunsApart'
      /\ \A e \in Dates \ Activity' : Linked(e)' = Linked(e)
  BY RunStarts
<1>4. Types'
  <2>1. frozen' \in [Dates -> SUBSET Orders]
    BY <1>1, <1>2 DEF Linked
  <2> QED
    BY <1>1, <1>3, <2>1 DEF ProdInv, Types, ProductionTypeOK, RunTypes
<1>5. LotNotOverpromised' /\ NoDoubleCover' /\ ReadyIsServed'
  BY <1>1 DEF ProdInv, LotNotOverpromised, NoDoubleCover, ReadyIsServed
<1>6. NeverOverplanned'
  BY <1>1, <1>3 DEF ProdInv, NeverOverplanned
<1> QED
  BY <1>1, <1>3, <1>4, <1>5, <1>6, QuietMoves DEF ProdInv

LEMMA ReduceSlackGood ==
  ASSUME ProdInv, NEW k \in Lots, NEW n \in Outputs, ReduceSlack(k, n)
  PROVE  ProdInv' /\ Moves
<1>1. /\ lot' = [lot EXCEPT ![k].physical = n] /\ n >= OnLot(alloc, k)
      /\ UNCHANGED <<status, due, qty, rest, completed, alloc, frozen, planned, runState, runDate, today>>
  BY DEF ReduceSlack, orderVars, runVars
<1>2. lot' \in Shelves /\ lot'[k].physical = n /\ \A l \in Lots \ {k} : lot'[l] = lot[l]
  <2>1. lot \in Shelves /\ n \in Nat
    BY InvTypes, ProductionAssumption
  <2> QED
    BY <1>1, <2>1 DEF Shelves
<1>3. Types'
  <2>1. \A l \in Lots : lot'[l] \in [physical : Nat, until : Nat]
    BY <1>2 DEF Shelves
  <2> QED
    BY <1>1, <1>2, <2>1 DEF ProdInv, Types, ProductionTypeOK
<1>4. LotNotOverpromised'
  BY <1>1, <1>2 DEF ProdInv, LotNotOverpromised
<1>5. RunsApart' /\ Activity' = Activity
  BY <1>1, RunsUntouched DEF runVars
<1>6. NoDoubleCover' /\ ReadyIsServed'
  BY <1>1 DEF ProdInv, NoDoubleCover, ReadyIsServed
<1>7. NeverOverplanned'
  <2>1. ASSUME NEW d \in Dates PROVE Linked(d)' = Linked(d)
    BY <1>1, <1>5 DEF Linked, LockedNow
  <2> QED
    BY <1>1, <1>5, <2>1 DEF ProdInv, NeverOverplanned
<1> QED
  BY <1>1, <1>3, <1>4, <1>5, <1>6, <1>7, QuietMoves DEF ProdInv

(* A step that only moves the clock, or nothing.                            *)
LEMMA ClockGood ==
  ASSUME ProdInv, today' \in 1..Horizon,
         UNCHANGED <<status, due, qty, rest, completed, lot, alloc, frozen, planned, runState, runDate>>
  PROVE  ProdInv' /\ Moves
<1>1. Types'
  BY DEF ProdInv, Types, ProductionTypeOK
<1>2. RunsApart' /\ Activity' = Activity
  BY RunsUntouched DEF runVars
<1>3. LotNotOverpromised' /\ NoDoubleCover' /\ ReadyIsServed'
  BY DEF ProdInv, LotNotOverpromised, NoDoubleCover, ReadyIsServed
<1>4. NeverOverplanned'
  <2>1. ASSUME NEW d \in Dates PROVE Linked(d)' = Linked(d)
    BY <1>2 DEF Linked, LockedNow
  <2> QED
    BY <1>2, <2>1 DEF ProdInv, NeverOverplanned
<1> QED
  BY <1>1, <1>2, <1>3, <1>4, QuietMoves DEF ProdInv

LEMMA InitGood == Init => ProdInv
<1> SUFFICES ASSUME Init PROVE ProdInv
  OBVIOUS
<1>1. alloc \in Allocs /\ \A l \in Lots, o \in Orders : alloc[l][o] = 0
  BY DEF Init, Allocs
<1>2. lot \in Shelves /\ \A l \in Lots : lot[l].physical = 0
  BY DEF Init, Shelves, Unused
<1>3. qty \in [Orders -> Nat] /\ completed \in [Orders -> Nat] /\ \A o \in Orders : completed[o] = 0
  BY ProductionAssumption DEF Init
<1>4. Types
  <2>1. today \in 1..Horizon
    BY ProductionAssumption DEF Init
  <2>2. planned \in [Dates -> Nat] /\ frozen \in [Dates -> SUBSET Orders]
        /\ rest \in [Orders -> BOOLEAN] /\ status \in [Orders -> Live \cup {"DRAFT", "CANCELED", "COMPLETED"}]
    BY DEF Init, Live
  <2>3. RunTypes
    BY DEF Init, RunTypes
  <2>4. due \in [Orders -> Dates] /\ qty \in [Orders -> Quantities]
    BY ProductionAssumption DEF Init
  <2>5. \A l \in Lots : lot[l] \in [physical : Nat, until : Nat] /\ alloc[l] \in [Orders -> Nat]
    BY <1>1, <1>2 DEF Shelves, Allocs
  <2> QED
    BY <1>1, <1>2, <1>3, <2>1, <2>2, <2>3, <2>4, <2>5 DEF Types, ProductionTypeOK, RunTypes
<1>5. RunsApart
  BY DEF Init, RunsApart
<1>6. ASSUME NEW l \in Lots PROVE OnLot(alloc, l) = 0
  <2>1. Masks(alloc[l], alloc[l], {}, Orders)
    BY <1>1 DEF Masks
  <2>2. Integral(alloc[l], Orders) /\ {} \in SUBSET Orders
    BY <1>1, TotalsType
  <2>3. Added(alloc[l], Orders) = Added(alloc[l], {})
    BY <2>1, <2>2, SumPart, Finiteness
  <2> QED
    BY <2>3, SumEmpty, OnLotIs
<1>7. ASSUME NEW o \in Orders PROVE OnOrder(alloc, o) = 0
  <2>1. Masks(Column(alloc, o), Column(alloc, o), {}, Lots)
    BY <1>1 DEF Masks, Column
  <2>2. Integral(Column(alloc, o), Lots) /\ {} \in SUBSET Lots
    BY <1>1, TotalsType
  <2>3. Added(Column(alloc, o), Lots) = Added(Column(alloc, o), {})
    BY <2>1, <2>2, SumPart, Finiteness
  <2> QED
    BY <2>3, SumEmpty, OnOrderIs
<1>8. LotNotOverpromised
  BY <1>2, <1>6 DEF LotNotOverpromised
<1>9. NoDoubleCover
  BY <1>3, <1>7 DEF NoDoubleCover, Minus
<1>10. NeverOverplanned
  <2>1. ASSUME NEW d \in Dates PROVE planned[d] <= Shortage(Linked(d), qty, completed, alloc)
    <3>1. Linked(d) \in SUBSET Orders /\ planned[d] = 0
      BY DEF Init, Linked
    <3>2. Shortage(Linked(d), qty, completed, alloc) \in Nat
      BY <1>1, <1>3, <3>1, NettedBound
    <3> QED
      BY <3>1, <3>2
  <2> QED
    BY <2>1 DEF NeverOverplanned
<1>11. ReadyIsServed
  BY DEF Init, ReadyIsServed
<1> QED
  BY <1>4, <1>5, <1>8, <1>9, <1>10, <1>11 DEF ProdInv

LEMMA NextGood == ProdInv /\ [Next]_vars => ProdInv' /\ (Moves \/ UNCHANGED vars)
<1> SUFFICES ASSUME ProdInv, [Next]_vars PROVE ProdInv' /\ (Moves \/ UNCHANGED vars)
  OBVIOUS
<1>1. ASSUME NEW o \in Orders,
             Confirm(o) \/ Cancel(o) \/ CompleteOrder(o) \/ RestChange(o)
      PROVE  ProdInv' /\ Moves
  BY <1>1, ConfirmGood, CancelGood, CompleteOrderGood, RestChangeGood
<1>2. ASSUME NEW o \in Orders, NEW n \in Quantities, NEW d \in Dates, Edit(o, n, d)
      PROVE  ProdInv' /\ Moves
  BY <1>2, EditGood
<1>3. ASSUME NEW r \in Runs, CancelRun(r) PROVE ProdInv' /\ Moves
  BY <1>3, CancelRunGood
<1>4. ASSUME NEW r \in Runs, NEW d \in Dates, Start(r, d) PROVE ProdInv' /\ Moves
  BY <1>4, StartGood
<1>5. ASSUME NEW r \in Runs, NEW n \in Outputs, Finish(r, n) PROVE ProdInv' /\ Moves
  BY <1>5, FinishGood
<1>6. ASSUME NEW n \in Outputs, NEW u \in Expiries, CreateSurplus(n, u) PROVE ProdInv' /\ Moves
  BY <1>6, CreateSurplusGood
<1>7. ASSUME NEW n \in Outputs, NEW l \in Lots, ReduceSlack(l, n) \/ ReducePromised(l, n)
      PROVE  ProdInv' /\ Moves
  BY <1>7, ReduceSlackGood, ReducePromisedGood
<1>8. ASSUME AdvanceDay PROVE ProdInv' /\ Moves
  <2>1. today \in 1..Horizon /\ Horizon \in Nat
    BY InvTypes, ProductionAssumption
  <2>2. today' \in 1..Horizon
    BY <1>8, <2>1 DEF AdvanceDay
  <2> QED
    BY <1>8, <2>2, ClockGood DEF AdvanceDay, orderVars, stockVars, runVars
<1>9. CASE UNCHANGED vars
  <2>1. today' \in 1..Horizon
    BY <1>9, InvTypes DEF vars
  <2> QED
    BY <1>9, <2>1, ClockGood DEF vars, orderVars, stockVars, runVars
<1>10. CASE Next
  BY <1>1, <1>2, <1>3, <1>4, <1>5, <1>6, <1>7, <1>8, <1>10 DEF Next
<1> QED
  BY <1>9, <1>10

(* The invariant of the quantities.                                         *)
THEOREM ProdInvAlways == Spec => []ProdInv
<1>1. ProdInv /\ [Next]_vars => ProdInv'
  BY NextGood
<1> QED
  BY <1>1, InitGood, PTL DEF Spec

(* Every quantity stays a natural number, and every row keeps its shape: no  *)
(* difference of the allocators is ever taken below zero.                   *)
THEOREM QuantitiesTypeCorrect == Spec => []ProductionTypeOK
<1>1. ProdInv => ProductionTypeOK
  BY DEF ProdInv, Types
<1> QED
  BY <1>1, ProdInvAlways, PTL

(* After any mix of reductions, completions, runs and reallocations no lot  *)
(* is promised beyond what is left of it.                                   *)
THEOREM LotsAreNotOverpromised == Spec => []LotNotOverpromised
<1>1. ProdInv => LotNotOverpromised
  BY DEF ProdInv
<1> QED
  BY <1>1, ProdInvAlways, PTL

(* Run output and Surplus together never give a line more than it asks for. *)
THEOREM LinesAreServedOnce == Spec => []NoDoubleCover
<1>1. ProdInv => NoDoubleCover
  BY DEF ProdInv
<1> QED
  BY <1>1, ProdInvAlways, PTL

(* Netting a date's demand as a group never plans beyond its shortages.     *)
THEOREM PlansAreNeeded == Spec => []NeverOverplanned
<1>1. ProdInv => NeverOverplanned
  BY DEF ProdInv
<1> QED
  BY <1>1, ProdInvAlways, PTL

(* No Order, run or new lot takes a promise away: a READY Order falls back   *)
(* only when the rest of it is lost or its lot is reduced.                  *)
THEOREM PromisesAreKept == Spec => PromisesKept
<1>1. ProdInv /\ [Next]_vars => [KeepsPromises]_vars
  BY NextGood DEF Moves
<1> QED
  BY <1>1, ProdInvAlways, PTL DEF Spec, PromisesKept, KeepsPromises

(* Reducing one lot leaves the promises of the others where they are.       *)
THEOREM OtherLotsAreSpared == Spec => ReductionSparesOtherLots
<1>1. ProdInv /\ [Next]_vars => [Spares]_vars
  BY NextGood DEF Moves
<1> QED
  BY <1>1, ProdInvAlways, PTL DEF Spec, ReductionSparesOtherLots, Spares

(* No recalculation moves the Surplus of a line that is in production.      *)
THEOREM LockedSurplusIsLeftAlone == Spec => LockedSurplusStays
<1>1. ProdInv /\ [Next]_vars => [Stays]_vars
  BY NextGood DEF Moves
<1> QED
  BY <1>1, ProdInvAlways, PTL DEF Spec, LockedSurplusStays, Stays

(* What is newly promised is usable on the day it is wanted, and today.     *)
THEOREM PromisesAreUsable == Spec => ExpiredNotPromised
<1>1. ProdInv /\ [Next]_vars => [Usable]_vars
  BY NextGood DEF Moves
<1> QED
  BY <1>1, ProdInvAlways, PTL DEF Spec, ExpiredNotPromised, Usable

(* Output goes to the soonest deadlines first, however dates were edited.   *)
THEOREM OutputGoesInDeadlineOrder == Spec => OutputGoesToSoonest
<1>1. ProdInv /\ [Next]_vars => [SoonestFirst]_vars
  BY NextGood DEF Moves
<1> QED
  BY <1>1, ProdInvAlways, PTL DEF Spec, OutputGoesToSoonest, SoonestFirst

============================================================================
