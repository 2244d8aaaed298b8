-------------------------- MODULE CoverageProofs --------------------------
(***************************************************************************)
(* Proof that the quantities implement the coverage bit: under the mapping  *)
(* of Production every step of the quantities is a step of Fulfillment, or  *)
(* changes nothing Fulfillment sees.                                        *)
(*                                                                         *)
(* Fulfillment lets a recalculation choose any coverage that keeps what     *)
(* must be kept (Coverings).  The proof says which choice the allocators    *)
(* make: the lines of Goods that are served in full, and, of what an Order  *)
(* needs besides, what it already had.                                      *)
(***************************************************************************)
EXTENDS ProductionProofs

(* The mapped variables as functions of the rows.                           *)
Keyed(rs, rd) == [r \in Runs |-> IF rs[r] = "FREE" THEN <<>> ELSE <<Goods, rd[r]>>]

Cover(st, q, comp, al, rs) ==
  {x \in Orders \X ({Goods} \cup Orders) :
     /\ st[x[1]] \in Live
     /\ \/ x[2] = Goods /\ comp[x[1]] + OnOrder(al, x[1]) >= q[x[1]]
        \/ x[2] = x[1] /\ rs[x[1]]}

Links(st, d, fz, act) ==
  [k \in {Goods} \X Dates |->
     IF k[2] \in act THEN fz[k[2]]
     ELSE {o \in Orders : st[o] \in Live /\ o \notin Locked(fz, act) /\ d[o] = k[2]}]

LEMMA GoodsApart == Goods \notin Orders
  BY ProductionAssumption DEF Goods

LEMMA CoverIs == CoveredLines = Cover(status, qty, completed, alloc, rest)
  BY DEF CoveredLines, Cover

LEMMA LinksAre == LinkedLines = Links(status, due, frozen, Activity)
  BY DEF LinkedLines, Links, Linked, LockedNow

LEMMA BitKeys == Bit!Keys = {Goods} \X Dates
  BY GoodsApart DEF Bit!Keys, Bit!Produced

LEMMA ActiveKeys ==
  ASSUME NEW rs, NEW rd
  PROVE  Bit!Active(rs, Keyed(rs, rd)) = {<<Goods, d>> : d \in ActiveDates(rs, rd)}
  BY DEF Bit!Active, Keyed, ActiveDates

LEMMA ProtectedGoods ==
  ASSUME NEW lk, NEW act \in SUBSET Dates, NEW o \in Orders, NEW p \in {Goods} \cup Orders
  PROVE  <<o, p>> \in Bit!ProtectedPairs(lk, {<<Goods, d>> : d \in act})
           <=> p = Goods /\ \E d \in act : o \in lk[<<Goods, d>>]
<1> DEFINE keys == {<<Goods, d>> : d \in act}
<1>1. <<o, p>> \in Bit!ProtectedPairs(lk, keys) <=> \E k \in keys : k[1] = p /\ o \in lk[k]
  BY DEF Bit!ProtectedPairs
<1>2. ASSUME NEW k \in keys, k[1] = p, o \in lk[k]
      PROVE  p = Goods /\ \E d \in act : o \in lk[<<Goods, d>>]
  <2>1. PICK d \in act : k = <<Goods, d>>
    OBVIOUS
  <2> QED
    BY <1>2, <2>1
<1>3. ASSUME NEW d \in act, o \in lk[<<Goods, d>>], p = Goods
      PROVE  \E k \in keys : k[1] = p /\ o \in lk[k]
  <2>1. <<Goods, d>> \in keys
    OBVIOUS
  <2> QED
    BY <1>3, <2>1
<1> QED
  BY <1>1, <1>2, <1>3

LEMMA BitDemand ==
  ASSUME NEW st
  PROVE  /\ Bit!Demand(st, AllLines, Goods) = {o \in Orders : st[o] \in Live}
         /\ \A o \in Orders, p \in {Goods} \cup Orders :
              /\ <<o, p>> \in Bit!DemandPairs(st, AllLines) <=> st[o] \in Live /\ p \in {Goods, o}
  BY DEF Bit!Demand, Bit!DemandPairs, Bit!Live, Live, AllLines

(* Sets of pairs with the same pairs are the same.                          *)
LEMMA SamePairs ==
  ASSUME NEW S, NEW T, NEW A \in SUBSET (S \X T), NEW C \in SUBSET (S \X T),
         \A s \in S, t \in T : <<s, t>> \in A <=> <<s, t>> \in C
  PROVE  A = C
<1> SUFFICES ASSUME NEW x \in S \X T PROVE x \in A <=> x \in C
  OBVIOUS
<1>1. PICK s \in S, t \in T : x = <<s, t>>
  OBVIOUS
<1> QED
  BY <1>1

LEMMA CoveringChoice ==
  ASSUME NEW cv, NEW fixed, NEW demand, NEW Ps, NEW stocked,
         NEW s \in SUBSET {x \in demand : x[2] \in Ps \cap Bit!Produced /\ x \notin fixed},
         NEW b \in SUBSET (Ps \cap stocked)
  PROVE  {x \in cv \cap demand : x[2] \notin Ps \/ (x \in fixed /\ x[2] \in Bit!Produced)}
           \cup s \cup {x \in demand : x[2] \in b}
         \in Bit!Coverings(cv, fixed, demand, Ps, stocked)
  BY DEF Bit!Coverings

(* A recalculation of Ps may leave exactly the lines that are served and    *)
(* the rest that is satisfied, if what it may not touch is as it was.       *)
LEMMA CoverFits ==
  ASSUME NEW st, NEW q, NEW comp, NEW al, NEW rs, NEW cv, NEW fixed,
         NEW Ps \in SUBSET ({Goods} \cup Orders),
         \A o \in Orders :
           st[o] \in Live /\ (Goods \notin Ps \/ <<o, Goods>> \in fixed) =>
             (<<o, Goods>> \in cv <=> comp[o] + OnOrder(al, o) >= q[o]),
         \A o \in Orders : st[o] \in Live /\ o \notin Ps => (<<o, o>> \in cv <=> rs[o])
  PROVE  Cover(st, q, comp, al, rs)
           \in Bit!Coverings(cv, fixed, Bit!DemandPairs(st, AllLines), Ps, Orders)
<1> DEFINE demand == Bit!DemandPairs(st, AllLines)
           kept == {x \in cv \cap demand :
                      x[2] \notin Ps \/ (x \in fixed /\ x[2] \in Bit!Produced)}
           free == {x \in demand : x[2] \in Ps \cap Bit!Produced /\ x \notin fixed}
           after == Cover(st, q, comp, al, rs)
           B == {o \in Ps \cap Orders : rs[o]}
           c == after \cap free
           others == {x \in demand : x[2] \in B}
<1>1. Bit!Produced = {Goods}
  BY GoodsApart DEF Bit!Produced
<1>2. /\ demand \subseteq Orders \X ({Goods} \cup Orders)
      /\ after \subseteq Orders \X ({Goods} \cup Orders)
  BY DEF Bit!DemandPairs, Cover
<1>3. ASSUME NEW o \in Orders, NEW p \in {Goods} \cup Orders
      PROVE  <<o, p>> \in after <=> <<o, p>> \in kept \cup c \cup others
  <2>1. /\ <<o, p>> \in demand <=> st[o] \in Live /\ p \in {Goods, o}
        /\ <<o, p>> \in after
             <=> /\ st[o] \in Live
                 /\ \/ p = Goods /\ comp[o] + OnOrder(al, o) >= q[o]
                    \/ p = o /\ rs[o]
    BY BitDemand DEF Cover
  <2> HIDE DEF demand, after
  <2>2. /\ <<o, p>> \in kept
             <=> /\ <<o, p>> \in cv /\ <<o, p>> \in demand
                 /\ p \notin Ps \/ (<<o, p>> \in fixed /\ p = Goods)
        /\ <<o, p>> \in c
             <=> <<o, p>> \in after /\ <<o, p>> \in demand /\ p \in Ps /\ p = Goods /\ <<o, p>> \notin fixed
        /\ <<o, p>> \in others <=> <<o, p>> \in demand /\ p \in Ps \cap Orders /\ rs[p]
    BY <1>1
  <2> HIDE DEF kept, c, others
  <2>3. CASE st[o] \notin Live \/ p \notin {Goods, o}
    BY <2>1, <2>2, <2>3
  <2>4. CASE st[o] \in Live /\ p = Goods
    <3>1. p \notin Orders /\ p # o
      BY <2>4, GoodsApart
    <3> QED
      BY <2>1, <2>2, <2>4, <3>1
  <2>5. CASE st[o] \in Live /\ p = o
    <3>1. p # Goods
      BY <2>5, GoodsApart
    <3> QED
      BY <2>1, <2>2, <2>5, <3>1
  <2> QED
    BY <2>3, <2>4, <2>5
<1>4. kept \cup c \cup others \subseteq Orders \X ({Goods} \cup Orders)
  BY <1>2
<1>5. after = kept \cup c \cup others
  <2>1. PICK A, C : A = after /\ C = kept \cup c \cup others
    OBVIOUS
  <2>2. \A o \in Orders, p \in {Goods} \cup Orders : <<o, p>> \in A <=> <<o, p>> \in C
    BY <1>3, <2>1
  <2>3. A \subseteq Orders \X ({Goods} \cup Orders) /\ C \subseteq Orders \X ({Goods} \cup Orders)
    BY <1>2, <1>4, <2>1
  <2>4. A = C
    BY <2>2, <2>3, SamePairs
  <2> QED
    BY <2>1, <2>4
<1>6. c \in SUBSET free /\ B \in SUBSET (Ps \cap Orders)
  OBVIOUS
<1>7. \A s \in SUBSET free, b \in SUBSET (Ps \cap Orders) :
        kept \cup s \cup {x \in demand : x[2] \in b}
          \in Bit!Coverings(cv, fixed, demand, Ps, Orders)
  <2> HIDE DEF demand
  <2> QED
    BY CoveringChoice
<1>8. others = {x \in demand : x[2] \in B}
  OBVIOUS
<1> HIDE DEF demand, kept, free, after, B, c, others
<1>9. kept \cup c \cup others \in Bit!Coverings(cv, fixed, demand, Ps, Orders)
  BY <1>6, <1>7, <1>8
<1>10. after \in Bit!Coverings(cv, fixed, demand, Ps, Orders)
  BY <1>5, <1>9
<1> QED
  BY <1>10 DEF after, demand

LEMMA ServedStatus ==
  ASSUME NEW st, NEW q, NEW comp, NEW al, NEW rs
  PROVE  Evaluated(st, q, comp, al, rs)
           = Bit!Evaluated(st, AllLines, Cover(st, q, comp, al, rs), Orders)
<1> DEFINE cov == Cover(st, q, comp, al, rs)
<1>1. ASSUME NEW o \in Orders, st[o] \in Live
      PROVE  Bit!Satisfied(AllLines, cov, o) <=> rs[o] /\ comp[o] + OnOrder(al, o) >= q[o]
  <2>1. AllLines[o] = {Goods, o} /\ o # Goods
    BY GoodsApart DEF AllLines
  <2>2. /\ <<o, Goods>> \in cov <=> comp[o] + OnOrder(al, o) >= q[o]
        /\ <<o, o>> \in cov <=> rs[o]
    BY <1>1, <2>1 DEF Cover
  <2> QED
    BY <2>1, <2>2 DEF Bit!Satisfied
<1> HIDE DEF cov
<1>2. ASSUME NEW o \in Orders
      PROVE  Evaluated(st, q, comp, al, rs)[o] = Bit!Evaluated(st, AllLines, cov, Orders)[o]
  <2>1. CASE st[o] \in Live
    BY <1>1, <2>1 DEF Evaluated, Bit!Evaluated, Live, Bit!Live
  <2>2. CASE st[o] \notin Live
    BY <2>2 DEF Evaluated, Bit!Evaluated, Live, Bit!Live
  <2> QED
    BY <2>1, <2>2
<1>3. /\ Evaluated(st, q, comp, al, rs) = [o \in Orders |-> Evaluated(st, q, comp, al, rs)[o]]
      /\ Bit!Evaluated(st, AllLines, cov, Orders)
           = [o \in Orders |-> Bit!Evaluated(st, AllLines, cov, Orders)[o]]
  BY DEF Evaluated, Bit!Evaluated
<1> QED
  BY <1>2, <1>3 DEF cov

(* The links before and after.                                              *)
LEMMA RebuiltLinks ==
  ASSUME NEW st, NEW d, NEW fz, NEW act \in SUBSET Dates, NEW lk, NEW Ps, Goods \in Ps,
         \A x \in act : lk[<<Goods, x>>] = fz[x]
  PROVE  Links(st, d, fz, act)
           = Bit!Rebuilt(lk, st, AllLines, d, {<<Goods, x>> : x \in act}, Ps)
<1> DEFINE keys == {<<Goods, x>> : x \in act}
           new == Bit!Rebuilt(lk, st, AllLines, d, keys, Ps)
<1>1. /\ Bit!Keys = {Goods} \X Dates
      /\ Bit!Demand(st, AllLines, Goods) = {o \in Orders : st[o] \in Live}
  BY BitKeys, BitDemand
<1>2. ASSUME NEW o \in Orders
      PROVE  <<o, Goods>> \in Bit!ProtectedPairs(lk, keys) <=> o \in Locked(fz, act)
  <2>1. <<o, Goods>> \in Bit!ProtectedPairs(lk, keys) <=> \E x \in act : o \in lk[<<Goods, x>>]
    BY ProtectedGoods
  <2> QED
    BY <2>1 DEF Locked
<1>3. ASSUME NEW x \in Dates
      PROVE  new[<<Goods, x>>] = Links(st, d, fz, act)[<<Goods, x>>]
  <2>1. <<Goods, x>> \in Bit!Keys
    BY <1>1
  <2>2. <<Goods, x>> \in keys <=> x \in act
    OBVIOUS
  <2>3. CASE x \in act
    BY <1>1, <2>1, <2>2, <2>3 DEF Bit!Rebuilt, Links
  <2>4. CASE x \notin act
    <3> HIDE DEF keys
    <3>1. new[<<Goods, x>>] = {o \in Bit!Demand(st, AllLines, Goods) :
                                 d[o] = x /\ <<o, Goods>> \notin Bit!ProtectedPairs(lk, keys)}
      BY <2>1, <2>2, <2>4 DEF Bit!Rebuilt
    <3>2. Links(st, d, fz, act)[<<Goods, x>>]
            = {o \in Orders : st[o] \in Live /\ o \notin Locked(fz, act) /\ d[o] = x}
      BY <1>1, <2>1, <2>4 DEF Links
    <3> QED
      BY <1>1, <1>2, <3>1, <3>2
  <2> QED
    BY <2>3, <2>4
<1>4. /\ new = [k \in {Goods} \X Dates |-> new[k]]
      /\ Links(st, d, fz, act) = [k \in {Goods} \X Dates |-> Links(st, d, fz, act)[k]]
  BY <1>1 DEF Bit!Rebuilt, Links
<1>5. ASSUME NEW k \in {Goods} \X Dates PROVE new[k] = Links(st, d, fz, act)[k]
  <2>1. PICK x \in Dates : k = <<Goods, x>>
    OBVIOUS
  <2> QED
    BY <1>3, <2>1
<1> HIDE DEF new
<1>6. new = Links(st, d, fz, act)
  BY <1>4, <1>5
<1> QED
  BY <1>6 DEF new

(* The end of a workflow of the quantities is the end of a workflow of      *)
(* Fulfillment that evaluates every Order.                                  *)
LEMMA SettleRefines ==
  ASSUME NEW st \in [Orders -> Statuses], NEW q, NEW d, NEW comp, NEW lt, NEW al, NEW fz,
         NEW act \in SUBSET Dates, NEW impaired,
         Settle(st, q, d, comp, lt, al, fz, act, impaired), Activity' = act, rest' = rest,
         NEW lk, NEW cv, NEW fixed, NEW Ps \in SUBSET ({Goods} \cup Orders), Goods \in Ps,
         \A x \in act : lk[<<Goods, x>>] = fz[x],
         \A o \in Orders :
           st[o] \in Live /\ (o \in Locked(fz, act) \/ <<o, Goods>> \in fixed) =>
             (<<o, Goods>> \in cv <=> comp[o] + OnOrder(alloc', o) >= q[o]),
         \A o \in Orders : st[o] \in Live /\ o \notin Ps => (<<o, o>> \in cv <=> rest[o])
  PROVE  Bit!Settle(st, AllLines, d, lk, cv, Ps, fixed, Orders)
<1> DEFINE keys == {<<Goods, x>> : x \in act}
           all == Bit!ProtectedPairs(lk, keys) \cup fixed
<1>1. PICK al2, rs2, rd2 : al2 = alloc' /\ rs2 = runState' /\ rd2 = runDate'
  OBVIOUS
<1>2. /\ status' = Evaluated(st, q, comp, al2, rest)
      /\ qty' = q /\ due' = d /\ completed' = comp /\ frozen' = fz
      /\ \A o \in Orders : st[o] \in Live /\ o \notin Locked(fz, act) => d[o] \notin act
  BY <1>1 DEF Settle
<1>3. \A o \in Orders : status'[o] \in Live <=> st[o] \in Live
  BY <1>2, EvaluatedType
<1>4. Bit!Active(rs2, Keyed(rs2, rd2)) = keys
  <2>1. ActiveDates(rs2, rd2) = act
    BY <1>1 DEF Activity
  <2> QED
    BY <2>1, ActiveKeys
<1>5. CoveredLines' = Cover(st, q, comp, al2, rest)
  BY <1>1, <1>2, <1>3 DEF CoveredLines, Cover
<1>6. LinkedLines' = Links(st, d, fz, act)
  BY <1>2, <1>3 DEF LinkedLines, Links, Linked, LockedNow
<1>7. ASSUME NEW o \in Orders
      PROVE  /\ <<o, Goods>> \in Bit!ProtectedPairs(lk, keys) <=> o \in Locked(fz, act)
             /\ \A p \in Orders : <<o, p>> \notin Bit!ProtectedPairs(lk, keys)
  <2>1. \A p \in {Goods} \cup Orders :
          <<o, p>> \in Bit!ProtectedPairs(lk, keys) <=> p = Goods /\ \E x \in act : o \in lk[<<Goods, x>>]
    BY ProtectedGoods
  <2>2. o \in Locked(fz, act) <=> \E x \in act : o \in lk[<<Goods, x>>]
    BY DEF Locked
  <2> HIDE DEF keys
  <2>3. <<o, Goods>> \in Bit!ProtectedPairs(lk, keys) <=> o \in Locked(fz, act)
    BY <2>1, <2>2
  <2>4. \A p \in Orders : <<o, p>> \notin Bit!ProtectedPairs(lk, keys)
    BY <2>1, GoodsApart
  <2> QED
    BY <2>3, <2>4
<1>8. ~Bit!Collides(st, AllLines, d, lk, keys, Ps)
  <2> SUFFICES ASSUME NEW x \in Bit!DemandPairs(st, AllLines),
                      <<x[2], d[x[1]]>> \in keys, x \notin Bit!ProtectedPairs(lk, keys)
               PROVE  FALSE
    BY DEF Bit!Collides
  <2>1. PICK o \in Orders, p \in {Goods} \cup Orders : x = <<o, p>>
    BY DEF Bit!DemandPairs
  <2>2. p = Goods /\ d[o] \in act
    BY <2>1
  <2>3. st[o] \in Live
    BY <2>1, BitDemand
  <2>4. o \notin Locked(fz, act)
    BY <1>7, <2>1, <2>2
  <2> QED
    BY <1>2, <2>2, <2>3, <2>4
<1>9. LinkedLines' = Bit!Rebuilt(lk, st, AllLines, d, keys, Ps)
  BY <1>6, RebuiltLinks
<1>10. CoveredLines' \in Bit!Coverings(cv, all, Bit!DemandPairs(st, AllLines), Ps, Orders)
  <2>1. \A o \in Orders :
          st[o] \in Live /\ (Goods \notin Ps \/ <<o, Goods>> \in all) =>
            (<<o, Goods>> \in cv <=> comp[o] + OnOrder(al2, o) >= q[o])
    BY <1>1, <1>7
  <2> HIDE DEF all
  <2>2. Cover(st, q, comp, al2, rest)
          \in Bit!Coverings(cv, all, Bit!DemandPairs(st, AllLines), Ps, Orders)
    BY <2>1, CoverFits
  <2> QED
    BY <1>5, <2>2
<1>11. status' = Bit!Evaluated(st, AllLines, CoveredLines', Orders)
  BY <1>2, <1>5, ServedStatus
<1>12. AllLines' = AllLines
  BY DEF AllLines
<1>13. [r \in Runs |-> IF runState'[r] = "FREE" THEN <<>> ELSE <<Goods, runDate'[r]>>] = Keyed(rs2, rd2)
  BY <1>1 DEF Keyed
<1> HIDE DEF keys
<1> QED
  BY <1>1, <1>2, <1>4, <1>8, <1>9, <1>10, <1>11, <1>12, <1>13 DEF Bit!Settle, all

(* A recalculation moves no Surplus of a locked line, and takes none from a *)
(* READY Order unless a lot is impaired.                                    *)
LEMMA PromisesStay ==
  ASSUME NEW st, NEW q, NEW d, NEW comp, NEW lt, NEW al, NEW fz, NEW act, NEW impaired,
         Prepared(st, q, d, comp, lt, al, fz, act, impaired),
         Settle(st, q, d, comp, lt, al, fz, act, impaired), NEW o \in Orders
  PROVE  /\ OnOrder(al, o) \in Nat /\ OnOrder(alloc', o) \in Nat
         /\ o \in Locked(fz, act) => OnOrder(alloc', o) = OnOrder(al, o)
         /\ impaired = {} /\ st[o] = "READY" => OnOrder(al, o) <= OnOrder(alloc', o)
<1>1. PICK lk, kept, demand, al2 :
        /\ lk = Locked(fz, act) /\ kept = Kept(st, lk, impaired, al)
        /\ demand = Demanded(st, fz, act) /\ al2 = alloc'
  OBVIOUS
<1>2. Fair(kept, demand, q, d, comp, lt, today, al2)
  BY <1>1, SettleFair
<1>3. al \in Allocs /\ al2 \in Allocs /\ kept \in Allocs
  BY <1>1, <1>2, KeptPart DEF Prepared, Fair
<1>4. OnOrder(al, o) \in Nat /\ OnOrder(al2, o) \in Nat
  BY <1>3, TotalsType
<1>5. ASSUME NEW l \in Lots
      PROVE  /\ o \in lk \/ (st[o] = "READY" /\ l \notin impaired) => kept[l][o] = al[l][o]
             /\ kept[l][o] <= al2[l][o]
             /\ o \in lk => kept[l][o] = al2[l][o]
  <2>1. o \in lk => o \notin demand
    BY <1>1 DEF Demanded
  <2> QED
    BY <1>1, <1>2, <1>3, <2>1, KeptPart DEF Fair
<1>6. ASSUME o \in lk PROVE OnOrder(al2, o) = OnOrder(al, o)
  <2>1. \A l \in Lots : al2[l][o] = al[l][o]
    BY <1>5, <1>6
  <2>2. Column(al2, o) = Column(al, o)
    BY <2>1 DEF Column
  <2> QED
    BY <2>2, OnOrderIs
<1>7. ASSUME impaired = {}, st[o] = "READY" PROVE OnOrder(al, o) <= OnOrder(al2, o)
  <2>1. \A l \in Lots : al[l][o] <= al2[l][o]
    BY <1>5, <1>7
  <2> QED
    BY <1>3, <2>1, OrderTotals
<1> QED
  BY <1>1, <1>4, <1>6, <1>7

LEMMA CoveredNow ==
  ASSUME NEW o \in Orders
  PROVE  /\ <<o, Goods>> \in CoveredLines
              <=> status[o] \in Live /\ completed[o] + OnOrder(alloc, o) >= qty[o]
         /\ <<o, o>> \in CoveredLines <=> status[o] \in Live /\ rest[o]
  BY GoodsApart DEF CoveredLines

LEMMA LockedLinks ==
  ASSUME NEW x \in Dates, x \in Activity
  PROVE  LinkedLines[<<Goods, x>>] = frozen[x]
  BY DEF LinkedLines

(* When the rows of a workflow relate to what is there so that a            *)
(* recalculation keeps what Fulfillment wants kept.                         *)
Follows(st, q, comp, al, fz, act, lk, cv, fixed, Ps) ==
  /\ \A x \in act : lk[<<Goods, x>>] = fz[x]
  /\ \A o \in Orders :
       st[o] \in Live /\ (o \in Locked(fz, act) \/ <<o, Goods>> \in fixed) =>
         /\ OnOrder(al, o) = OnOrder(alloc, o)
         /\ <<o, Goods>> \in cv <=> comp[o] + OnOrder(alloc, o) >= q[o]
  /\ \A o \in Orders :
       <<o, Goods>> \in fixed => st[o] = "READY" /\ (st[o] \in Live => <<o, Goods>> \in cv)
  /\ \A o \in Orders : st[o] \in Live /\ o \notin Ps => (<<o, o>> \in cv <=> rest[o])

LEMMA FollowsRefines ==
  ASSUME NEW st, NEW q, NEW d, NEW comp, NEW lt, NEW al, NEW fz, NEW act, NEW impaired,
         Prepared(st, q, d, comp, lt, al, fz, act, impaired),
         Settle(st, q, d, comp, lt, al, fz, act, impaired), Activity' = act, rest' = rest,
         NEW lk, NEW cv, NEW fixed, NEW Ps \in SUBSET ({Goods} \cup Orders), Goods \in Ps,
         impaired = {} \/ fixed = {},
         Follows(st, q, comp, al, fz, act, lk, cv, fixed, Ps)
  PROVE  Bit!Settle(st, AllLines, d, lk, cv, Ps, fixed, Orders)
<1>1. st \in [Orders -> Statuses] /\ act \in SUBSET Dates
      /\ q \in [Orders -> Nat] /\ comp \in [Orders -> Nat]
  BY ProductionAssumption DEF Prepared
<1>2. ASSUME NEW o \in Orders, st[o] \in Live,
             o \in Locked(fz, act) \/ <<o, Goods>> \in fixed
      PROVE  <<o, Goods>> \in cv <=> comp[o] + OnOrder(alloc', o) >= q[o]
  <2>1. PICK al2 : al2 = alloc'
    OBVIOUS
  <2>2. /\ OnOrder(al, o) \in Nat /\ OnOrder(al2, o) \in Nat
        /\ o \in Locked(fz, act) => OnOrder(al2, o) = OnOrder(al, o)
        /\ impaired = {} /\ st[o] = "READY" => OnOrder(al, o) <= OnOrder(al2, o)
    BY <2>1, PromisesStay
  <2>3. /\ OnOrder(al, o) = OnOrder(alloc, o)
        /\ <<o, Goods>> \in cv <=> comp[o] + OnOrder(alloc, o) >= q[o]
        /\ <<o, Goods>> \in fixed => st[o] = "READY" /\ <<o, Goods>> \in cv
    BY <1>2 DEF Follows
  <2>4. comp[o] \in Nat /\ q[o] \in Nat
    BY <1>1
  <2>5. CASE o \in Locked(fz, act)
    BY <2>1, <2>2, <2>3, <2>5
  <2>6. CASE <<o, Goods>> \in fixed
    <3>1. impaired = {}
      BY <2>6
    <3> QED
      BY <2>1, <2>2, <2>3, <2>4, <2>6, <3>1
  <2> QED
    BY <1>2, <2>5, <2>6
<1>3. /\ \A x \in act : lk[<<Goods, x>>] = fz[x]
      /\ \A o \in Orders : st[o] \in Live /\ o \notin Ps => (<<o, o>> \in cv <=> rest[o])
  BY DEF Follows
<1> QED
  BY <1>1, <1>2, <1>3, SettleRefines

----------------------------------------------------------------------------
(* The workflows.                                                           *)

(* A draft is linked to nothing in production.                              *)
DraftsUnlocked == \A o \in LockedNow : status[o] # "DRAFT"

CoverInv == ProdInv /\ DraftsUnlocked

LEMMA AllEvaluated ==
  ASSUME NEW st, NEW Ps
  PROVE  Orders \in Bit!Evaluations(st, AllLines, Ps)
  BY DEF Bit!Evaluations, Bit!Demand

LEMMA ReadyIsCovering ==
  ASSUME ProdInv, NEW o \in Orders, status[o] = "READY"
  PROVE  <<o, Goods>> \in CoveredLines
  BY CoveredNow DEF ProdInv, ReadyIsServed, Live

LEMMA FixedPairs ==
  ASSUME NEW st, NEW o \in Orders
  PROVE  <<o, Goods>> \in Bit!ReadyPairs(st) <=> st[o] = "READY"
  BY DEF Bit!ReadyPairs

LEMMA SettleUnlocks ==
  ASSUME NEW st \in [Orders -> Statuses], NEW q, NEW d, NEW comp, NEW lt, NEW al,
         NEW fz \in [Dates -> SUBSET Orders], NEW act \in SUBSET Dates, NEW impaired,
         Settle(st, q, d, comp, lt, al, fz, act, impaired), Activity' = act,
         \A o \in Locked(fz, act) : st[o] # "DRAFT"
  PROVE  DraftsUnlocked'
<1>1. PICK al2 : al2 = alloc'
  OBVIOUS
<1>2. LockedNow' = Locked(fz, act) /\ status' = Evaluated(st, q, comp, al2, rest)
  BY <1>1 DEF Settle, LockedNow
<1>3. Locked(fz, act) \in SUBSET Orders
  BY LockedOrders
<1>4. ASSUME NEW o \in Locked(fz, act) PROVE status'[o] # "DRAFT"
  <2>1. st[o] \notin Live => status'[o] = st[o]
    BY <1>2, <1>3, EvaluatedType
  <2>2. status'[o] \in Live <=> st[o] \in Live
    BY <1>2, <1>3, EvaluatedType
  <2> QED
    BY <2>1, <2>2 DEF Live
<1> QED
  BY <1>2, <1>4 DEF DraftsUnlocked

(* An Order of its own changes status, and with it possibly loses its       *)
(* Surplus; everything else is as it was.                                   *)
LEMMA OrderSettles ==
  ASSUME CoverInv, NEW o \in Orders, NEW s \in {"CONFIRMED", "CANCELED", "COMPLETED"},
         NEW st, st = [status EXCEPT ![o] = s], NEW lt, NEW al,
         s \in Live => o \notin LockedNow,
         \A u \in Orders \ {o} : OnOrder(al, u) = OnOrder(alloc, u),
         Prepared(st, qty, due, completed, lt, al, frozen, Activity, {}),
         Settle(st, qty, due, completed, lt, al, frozen, Activity, {}),
         UNCHANGED runVars, rest' = rest
  PROVE  /\ DraftsUnlocked'
         /\ \E E \in Bit!Evaluations(st, AllLines, AllLines[o]) :
              Bit!Settle(st, AllLines, due, LinkedLines, CoveredLines, AllLines[o],
                         Bit!ReadyPairs(st), E)
<1>1. /\ ProdInv /\ Activity' = Activity /\ status \in [Orders -> Statuses]
      /\ frozen \in [Dates -> SUBSET Orders] /\ Activity \in SUBSET Dates
  BY RunsUntouched, InvTypes DEF CoverInv
<1>2. st \in [Orders -> Statuses] /\ st[o] = s /\ \A u \in Orders \ {o} : st[u] = status[u]
  BY <1>1 DEF Statuses, Live
<1>3. AllLines[o] = {Goods, o}
  BY DEF AllLines
<1>4. DraftsUnlocked'
  <2>1. \A u \in Locked(frozen, Activity) : u \in Orders /\ status[u] # "DRAFT"
    BY <1>1, LockedOrders DEF CoverInv, DraftsUnlocked, LockedNow
  <2>2. \A u \in Locked(frozen, Activity) : st[u] # "DRAFT"
    BY <1>2, <2>1
  <2> QED
    BY <1>1, <1>2, <2>2, SettleUnlocks
<1>5. Follows(st, qty, completed, al, frozen, Activity, LinkedLines, CoveredLines,
              Bit!ReadyPairs(st), {Goods, o})
  <2>1. \A x \in Activity : LinkedLines[<<Goods, x>>] = frozen[x]
    BY <1>1, LockedLinks
  <2>2. ASSUME NEW u \in Orders, st[u] \in Live,
               u \in Locked(frozen, Activity) \/ <<u, Goods>> \in Bit!ReadyPairs(st)
        PROVE  u # o /\ st[u] = status[u]
    <3>1. u = o => s \in Live /\ o \notin Locked(frozen, Activity) /\ st[o] # "READY"
      BY <1>2, <2>2 DEF LockedNow
    <3> QED
      BY <1>2, <2>2, <3>1, FixedPairs
  <2>3. ASSUME NEW u \in Orders, st[u] \in Live,
               u \in Locked(frozen, Activity) \/ <<u, Goods>> \in Bit!ReadyPairs(st)
        PROVE  /\ OnOrder(al, u) = OnOrder(alloc, u)
               /\ <<u, Goods>> \in CoveredLines <=> completed[u] + OnOrder(alloc, u) >= qty[u]
    BY <2>2, <2>3, CoveredNow
  <2>4. ASSUME NEW u \in Orders, <<u, Goods>> \in Bit!ReadyPairs(st)
        PROVE  st[u] = "READY" /\ <<u, Goods>> \in CoveredLines
    <3>1. st[u] = "READY"
      BY <2>4, FixedPairs
    <3>2. u # o
      BY <1>2, <3>1
    <3>3. status[u] = "READY"
      BY <1>2, <3>1, <3>2
    <3> QED
      BY <1>1, <3>1, <3>3, ReadyIsCovering
  <2>5. ASSUME NEW u \in Orders, st[u] \in Live, u \notin {Goods, o}
        PROVE  <<u, u>> \in CoveredLines <=> rest[u]
    <3>1. status[u] \in Live
      BY <1>2, <2>5
    <3> QED
      BY <3>1, CoveredNow
  <2> QED
    BY <2>1, <2>3, <2>4, <2>5 DEF Follows
<1>6. Bit!Settle(st, AllLines, due, LinkedLines, CoveredLines, {Goods, o},
                 Bit!ReadyPairs(st), Orders)
  <2>1. {Goods, o} \in SUBSET ({Goods} \cup Orders) /\ Goods \in {Goods, o}
    OBVIOUS
  <2>2. PICK lk, cv, fixed, Ps : /\ lk = LinkedLines /\ cv = CoveredLines
                                 /\ fixed = Bit!ReadyPairs(st) /\ Ps = {Goods, o}
    OBVIOUS
  <2>3. Follows(st, qty, completed, al, frozen, Activity, lk, cv, fixed, Ps)
    BY <1>5, <2>2
  <2>4. Bit!Settle(st, AllLines, due, lk, cv, Ps, fixed, Orders)
    BY <1>1, <2>1, <2>2, <2>3, FollowsRefines
  <2> QED
    BY <2>2, <2>4
<1>7. Orders \in Bit!Evaluations(st, AllLines, {Goods, o})
  BY AllEvaluated
<1> QED
  BY <1>3, <1>4, <1>6, <1>7

LEMMA BitRunsUntouched ==
  ASSUME UNCHANGED runVars
  PROVE  [r \in Runs |-> IF runState'[r] = "FREE" THEN <<>> ELSE <<Goods, runDate'[r]>>]
           = [r \in Runs |-> IF runState[r] = "FREE" THEN <<>> ELSE <<Goods, runDate[r]>>]
  BY DEF runVars

LEMMA ConfirmRefines ==
  ASSUME CoverInv, NEW o \in Orders, Confirm(o)
  PROVE  DraftsUnlocked' /\ Bit!Confirm(o)
<1>1. PICK st : st = [status EXCEPT ![o] = "CONFIRMED"]
  OBVIOUS
<1>2. ProdInv
  BY DEF CoverInv
<1>3. /\ st \in [Orders -> Statuses]
      /\ \A u \in Orders : status[u] = "READY" /\ st[u] \in Live => st[u] = "READY"
  BY <1>1, <1>2, InvTypes DEF Confirm, Statuses, Live
<1>4. /\ Settle(st, qty, due, completed, lot, alloc, frozen, Activity, {})
      /\ UNCHANGED runVars /\ rest' = rest /\ status[o] = "DRAFT"
  BY <1>1 DEF Confirm
<1>5. Prepared(st, qty, due, completed, lot, alloc, frozen, Activity, {})
  BY <1>2, <1>3, InvTypes, LotsHold, PlainArgs
<1>6. o \notin LockedNow
  BY <1>4 DEF CoverInv, DraftsUnlocked
<1>7. /\ DraftsUnlocked'
      /\ \E E \in Bit!Evaluations(st, AllLines, AllLines[o]) :
           Bit!Settle(st, AllLines, due, LinkedLines, CoveredLines, AllLines[o],
                      Bit!ReadyPairs(st), E)
  BY <1>1, <1>4, <1>5, <1>6, OrderSettles
<1>8. AllLines[o] # {}
  BY DEF AllLines
<1> QED
  BY <1>1, <1>4, <1>7, <1>8, BitRunsUntouched DEF Bit!Confirm, Bit!runVars, runVars

LEMMA CancelRefines ==
  ASSUME CoverInv, NEW o \in Orders, Cancel(o)
  PROVE  DraftsUnlocked' /\ Bit!Cancel(o)
<1>1. PICK st : st = [status EXCEPT ![o] = "CANCELED"]
  OBVIOUS
<1>2. ProdInv
  BY DEF CoverInv
<1>3. /\ st \in [Orders -> Statuses]
      /\ \A u \in Orders : status[u] = "READY" /\ st[u] \in Live => st[u] = "READY"
  BY <1>1, <1>2, InvTypes DEF Statuses, Live
<1>4. /\ Settle(st, qty, due, completed, lot, alloc, frozen, Activity, {})
      /\ UNCHANGED runVars /\ rest' = rest /\ status[o] \in Live
  BY <1>1 DEF Cancel
<1>5. Prepared(st, qty, due, completed, lot, alloc, frozen, Activity, {})
  BY <1>2, <1>3, InvTypes, LotsHold, PlainArgs
<1>6. /\ DraftsUnlocked'
      /\ \E E \in Bit!Evaluations(st, AllLines, AllLines[o]) :
           Bit!Settle(st, AllLines, due, LinkedLines, CoveredLines, AllLines[o],
                      Bit!ReadyPairs(st), E)
  BY <1>1, <1>4, <1>5, OrderSettles DEF Live
<1> QED
  BY <1>1, <1>4, <1>6, BitRunsUntouched DEF Bit!Cancel, Bit!runVars, runVars, Live, Bit!Live

LEMMA CompleteOrderRefines ==
  ASSUME CoverInv, NEW o \in Orders, CompleteOrder(o)
  PROVE  DraftsUnlocked' /\ Bit!CompleteOrder(o)
<1>1. PICK st, al, lt : CompletionRows(o, st, al, lt)
  BY DEF CompletionRows
<1>2. st = [status EXCEPT ![o] = "COMPLETED"]
  BY <1>1 DEF CompletionRows
<1>3. /\ Settle(st, qty, due, completed, lt, al, frozen, Activity, {})
      /\ UNCHANGED runVars /\ rest' = rest /\ status[o] = "READY" /\ rest[o]
      /\ completed[o] + OnOrder(alloc, o) >= qty[o] /\ o \notin LockedNow
  BY <1>1 DEF CompletionRows, CompleteOrder
<1>4. ProdInv
  BY DEF CoverInv
<1>5. /\ Prepared(st, qty, due, completed, lt, al, frozen, Activity, {})
      /\ \A u \in Orders \ {o}, l \in Lots : al[l][u] = alloc[l][u]
  BY <1>1, <1>4, CompletionPrepared
<1>6. ASSUME NEW u \in Orders \ {o} PROVE OnOrder(al, u) = OnOrder(alloc, u)
  <2>1. Column(al, u) = Column(alloc, u)
    BY <1>5 DEF Column
  <2> QED
    BY <2>1, OnOrderIs
<1>7. /\ DraftsUnlocked'
      /\ \E E \in Bit!Evaluations(st, AllLines, AllLines[o]) :
           Bit!Settle(st, AllLines, due, LinkedLines, CoveredLines, AllLines[o],
                      Bit!ReadyPairs(st), E)
  BY <1>2, <1>3, <1>5, <1>6, OrderSettles DEF Live
<1>8. Bit!Satisfied(AllLines, CoveredLines, o)
  <2>1. AllLines[o] = {Goods, o}
    BY DEF AllLines
  <2>2. <<o, Goods>> \in CoveredLines /\ <<o, o>> \in CoveredLines
    BY <1>3, CoveredNow DEF Live
  <2> QED
    BY <2>1, <2>2 DEF Bit!Satisfied
<1>9. \A p \in AllLines[o] : <<o, p>> \notin Bit!ProtectedPairs(LinkedLines, Bit!Activity)
  <2>1. Activity \in SUBSET Dates
    BY <1>4, InvTypes
  <2>2. Bit!Activity = {<<Goods, d>> : d \in Activity}
    BY ActiveKeys DEF Bit!Activity, Keyed, Activity
  <2>3. \A p \in {Goods} \cup Orders :
          <<o, p>> \in Bit!ProtectedPairs(LinkedLines, Bit!Activity)
            => \E d \in Activity : o \in LinkedLines[<<Goods, d>>]
    BY <2>1, <2>2, ProtectedGoods
  <2>4. ASSUME NEW d \in Activity PROVE o \notin LinkedLines[<<Goods, d>>]
    <3>1. LinkedLines[<<Goods, d>>] = frozen[d]
      BY <2>1, LockedLinks
    <3> QED
      BY <1>3, <3>1 DEF LockedNow, Locked
  <2> QED
    BY <2>3, <2>4 DEF AllLines
<1> QED
  BY <1>2, <1>3, <1>7, <1>8, <1>9, BitRunsUntouched DEF Bit!CompleteOrder, Bit!runVars, runVars

(* What Fulfillment sees of an edit.                                        *)
Payload(o, n, t) ==
  [lines |-> {Goods, o}, date |-> t, resized |-> IF n = qty[o] THEN {} ELSE {Goods}]

LEMMA EditRefines ==
  ASSUME CoverInv, NEW o \in Orders, NEW n \in Quantities, NEW t \in Dates, Edit(o, n, t)
  PROVE  DraftsUnlocked' /\ Bit!Edit(o, Payload(o, n, t))
<1>1. PICK q, d, e : /\ q = [qty EXCEPT ![o] = n] /\ d = [due EXCEPT ![o] = t]
                     /\ e = Payload(o, n, t)
  OBVIOUS
<1>2. /\ ProdInv /\ status \in [Orders -> Statuses]
      /\ frozen \in [Dates -> SUBSET Orders] /\ Activity \in SUBSET Dates
  BY InvTypes DEF CoverInv
<1>3. /\ q \in [Orders -> Quantities] /\ d \in [Orders -> Dates]
      /\ \A u \in Orders \ {o} : q[u] = qty[u]
  BY <1>1, <1>2, InvTypes
<1>4. /\ Settle(status, q, d, completed, lot, alloc, frozen, Activity, {})
      /\ UNCHANGED runVars /\ rest' = rest /\ status[o] = "CONFIRMED"
      /\ o \notin Locked(frozen, Activity) /\ <<n, t>> # <<qty[o], due[o]>>
  BY <1>1 DEF Edit, LockedNow
<1>5. Prepared(status, q, d, completed, lot, alloc, frozen, Activity, {})
  BY <1>2, <1>3, <1>4, InvTypes, LotsHold, PlainArgs
<1>6. Activity' = Activity
  BY <1>2, <1>4, RunsUntouched
<1>7. DraftsUnlocked'
  <2>1. \A u \in Locked(frozen, Activity) : status[u] # "DRAFT"
    BY DEF CoverInv, DraftsUnlocked, LockedNow
  <2> QED
    BY <1>2, <1>4, <1>6, <2>1, SettleUnlocks
<1>8. /\ e.lines = {Goods, o} /\ e.date = t
      /\ e.resized = IF n = qty[o] THEN {} ELSE {Goods}
  BY <1>1 DEF Payload
<1>9. PICK lk, cv, fixed, Ps :
        /\ lk = Bit!Cascaded(LinkedLines, o, e.lines)
        /\ cv = CoveredLines \ ({o} \X e.resized)
        /\ fixed = Bit!ReadyPairs(status)
        /\ Ps = AllLines[o] \cup e.lines
  OBVIOUS
<1>10. Ps = {Goods, o}
  BY <1>8, <1>9 DEF AllLines
<1>11. \A u \in Orders \ {o}, p \in {Goods} \cup Orders :
         <<u, p>> \in cv <=> <<u, p>> \in CoveredLines
  BY <1>9
<1>12. Follows(status, q, completed, alloc, frozen, Activity, lk, cv, fixed, Ps)
  <2>1. ASSUME NEW x \in Activity PROVE lk[<<Goods, x>>] = frozen[x]
    <3>1. <<Goods, x>> \in Bit!Keys
      BY <1>2, BitKeys
    <3>2. lk[<<Goods, x>>] = LinkedLines[<<Goods, x>>]
      BY <1>8, <1>9, <3>1 DEF Bit!Cascaded
    <3> QED
      BY <1>2, <3>2, LockedLinks
  <2>2. ASSUME NEW u \in Orders, status[u] \in Live,
               u \in Locked(frozen, Activity) \/ <<u, Goods>> \in fixed
        PROVE  <<u, Goods>> \in cv <=> completed[u] + OnOrder(alloc, u) >= q[u]
    <3>1. u # o
      BY <1>4, <1>9, <2>2, FixedPairs
    <3>2. <<u, Goods>> \in cv <=> <<u, Goods>> \in CoveredLines
      BY <1>11, <3>1
    <3> QED
      BY <1>3, <2>2, <3>1, <3>2, CoveredNow
  <2>3. ASSUME NEW u \in Orders, <<u, Goods>> \in fixed
        PROVE  status[u] = "READY" /\ <<u, Goods>> \in cv
    <3>1. status[u] = "READY"
      BY <1>9, <2>3, FixedPairs
    <3>2. u # o
      BY <1>4, <3>1
    <3>3. <<u, Goods>> \in CoveredLines
      BY <1>2, <3>1, ReadyIsCovering
    <3> QED
      BY <1>11, <3>1, <3>2, <3>3
  <2>4. ASSUME NEW u \in Orders, status[u] \in Live, u \notin Ps
        PROVE  <<u, u>> \in cv <=> rest[u]
    <3>1. u # o
      BY <1>10, <2>4
    <3>2. <<u, u>> \in cv <=> <<u, u>> \in CoveredLines
      BY <1>11, <3>1
    <3> QED
      BY <2>4, <3>2, CoveredNow
  <2> QED
    BY <2>1, <2>2, <2>3, <2>4 DEF Follows
<1>13. Bit!Settle(status, AllLines, d, lk, cv, Ps, fixed, Orders)
  <2>1. Ps \in SUBSET ({Goods} \cup Orders) /\ Goods \in Ps
    BY <1>10
  <2> QED
    BY <1>4, <1>5, <1>6, <1>12, <2>1, FollowsRefines
<1>14. [AllLines EXCEPT ![o] = e.lines] = AllLines
  BY <1>8 DEF AllLines
<1>15. Orders \in Bit!Evaluations(status, AllLines, Ps)
  BY AllEvaluated
<1>16. Bit!DemandAffecting(AllLines[o], due[o], e)
  BY <1>4, <1>8 DEF Bit!DemandAffecting
<1>17. Bit!Edit(o, e)
  BY <1>1, <1>4, <1>8, <1>9, <1>13, <1>14, <1>15, <1>16, BitRunsUntouched
     DEF Bit!Edit, Bit!runVars, runVars
<1> QED
  BY <1>1, <1>7, <1>17

(* The supply of the goods moves, and no Order or run does.                 *)
LEMMA SupplyRefines ==
  ASSUME CoverInv, NEW lt, NEW impaired,
         Prepared(status, qty, due, completed, lt, alloc, frozen, Activity, impaired),
         Settle(status, qty, due, completed, lt, alloc, frozen, Activity, impaired),
         UNCHANGED runVars, rest' = rest
  PROVE  DraftsUnlocked' /\ Bit!AdjustSupply(Goods)
<1>1. /\ ProdInv /\ status \in [Orders -> Statuses] /\ Activity' = Activity
      /\ frozen \in [Dates -> SUBSET Orders] /\ Activity \in SUBSET Dates
  BY RunsUntouched, InvTypes DEF CoverInv
<1>2. DraftsUnlocked'
  <2>1. \A u \in Locked(frozen, Activity) : status[u] # "DRAFT"
    BY DEF CoverInv, DraftsUnlocked, LockedNow
  <2> QED
    BY <1>1, <2>1, SettleUnlocks
<1>3. PICK lk, cv, fixed, Ps : lk = LinkedLines /\ cv = CoveredLines /\ fixed = {} /\ Ps = {Goods}
  OBVIOUS
<1>4. Follows(status, qty, completed, alloc, frozen, Activity, lk, cv, fixed, Ps)
  <2>1. \A x \in Activity : lk[<<Goods, x>>] = frozen[x]
    BY <1>1, <1>3, LockedLinks
  <2>2. \A u \in Orders : /\ status[u] \in Live =>
                             (<<u, Goods>> \in cv <=> completed[u] + OnOrder(alloc, u) >= qty[u])
                          /\ status[u] \in Live => (<<u, u>> \in cv <=> rest[u])
                          /\ <<u, Goods>> \notin fixed
    BY <1>3, CoveredNow
  <2> QED
    BY <2>1, <2>2 DEF Follows
<1>5. Bit!Settle(status, AllLines, due, lk, cv, Ps, fixed, Orders)
  BY <1>1, <1>3, <1>4, FollowsRefines
<1>6. Orders \in Bit!Evaluations(status, AllLines, {Goods})
  BY AllEvaluated
<1>7. Goods \in Bit!Produced
  BY GoodsApart DEF Bit!Produced
<1> QED
  BY <1>2, <1>3, <1>5, <1>6, <1>7, BitRunsUntouched DEF Bit!AdjustSupply, Bit!runVars, runVars

LEMMA CreateSurplusRefines ==
  ASSUME CoverInv, NEW n \in Outputs, NEW u \in Expiries, CreateSurplus(n, u)
  PROVE  DraftsUnlocked' /\ Bit!AdjustSupply(Goods)
<1>1. PICK lt : lt = Shelved(lot, n, u)
  OBVIOUS
<1>2. ProdInv
  BY DEF CoverInv
<1>3. lt \in Shelves /\ \A l \in Lots : lot[l].physical <= lt[l].physical
  <2>1. n \in Nat /\ u \in Nat /\ HasShelf
    BY ProductionAssumption DEF CreateSurplus
  <2> QED
    BY <1>1, <1>2, <2>1, InvTypes, ShelvedFits
<1>4. /\ Settle(status, qty, due, completed, lt, alloc, frozen, Activity, {})
      /\ UNCHANGED runVars /\ rest' = rest
  BY <1>1 DEF CreateSurplus
<1>5. Prepared(status, qty, due, completed, lt, alloc, frozen, Activity, {})
  BY <1>2, <1>3, InvTypes, PlainArgs
<1> QED
  BY <1>4, <1>5, SupplyRefines

LEMMA ReducePromisedRefines ==
  ASSUME CoverInv, NEW k \in Lots, NEW n \in Outputs, ReducePromised(k, n)
  PROVE  DraftsUnlocked' /\ Bit!AdjustSupply(Goods)
<1>1. PICK lt : lt = [lot EXCEPT ![k].physical = n]
  OBVIOUS
<1>2. /\ Settle(status, qty, due, completed, lt, alloc, frozen, Activity, {k})
      /\ UNCHANGED runVars /\ rest' = rest
  BY <1>1 DEF ReducePromised
<1>3. Prepared(status, qty, due, completed, lt, alloc, frozen, Activity, {k})
  BY <1>1, ReductionPrepared DEF CoverInv
<1> QED
  BY <1>2, <1>3, SupplyRefines

(* What an Order needs besides moves; the goods stay where they are.        *)
LEMMA RestChangeRefines ==
  ASSUME CoverInv, NEW o \in Orders, RestChange(o)
  PROVE  DraftsUnlocked' /\ Bit!AdjustSupply(o)
<1>1. /\ rest' = [rest EXCEPT ![o] = ~@]
      /\ status' = Evaluated(status, qty, completed, alloc, rest')
      /\ UNCHANGED <<due, qty, completed, lot, alloc, frozen, planned, runState, runDate>>
  BY DEF RestChange, stockVars, runVars
<1>2. PICK rs : rs = rest'
  OBVIOUS
<1>3. /\ ProdInv /\ status \in [Orders -> Statuses] /\ Activity' = Activity
      /\ frozen \in [Dates -> SUBSET Orders] /\ Activity \in SUBSET Dates
      /\ rest \in [Orders -> BOOLEAN]
  BY <1>1, RunsUntouched, InvTypes DEF CoverInv, runVars
<1>4. status' = Evaluated(status, qty, completed, alloc, rs)
  BY <1>1, <1>2
<1>5. \A u \in Orders : /\ status'[u] \in Live <=> status[u] \in Live
                        /\ status[u] \notin Live => status'[u] = status[u]
  BY <1>3, <1>4, EvaluatedType
<1>6. DraftsUnlocked'
  <2>1. LockedNow' = LockedNow /\ LockedNow \in SUBSET Orders
    BY <1>1, <1>3, LockedOrders DEF LockedNow
  <2>2. ASSUME NEW u \in LockedNow PROVE status'[u] # "DRAFT"
    BY <1>5, <2>1 DEF CoverInv, DraftsUnlocked, Live
  <2> QED
    BY <2>1, <2>2 DEF DraftsUnlocked
<1>7. CoveredLines' = Cover(status, qty, completed, alloc, rs)
  BY <1>1, <1>2, <1>5 DEF CoveredLines, Cover
<1>8. LinkedLines' = LinkedLines
  <2>1. \A x \in Dates : Linked(x)' = Linked(x)
    BY <1>1, <1>3, <1>5 DEF Linked, LockedNow
  <2> QED
    BY <1>1, <1>3, <2>1 DEF LinkedLines
<1>9. PICK rs2, rd2, keys : /\ rs2 = runState' /\ rd2 = runDate'
                           /\ keys = {<<Goods, x>> : x \in Activity}
  OBVIOUS
<1>10. Bit!Active(rs2, Keyed(rs2, rd2)) = keys
  BY <1>1, <1>9, ActiveKeys DEF Activity
<1>11. \A k \in keys : k[1] # o
  BY <1>9, GoodsApart
<1>12. ~Bit!Collides(status, AllLines, due, LinkedLines, keys, {o})
  <2> SUFFICES ASSUME NEW x \in Bit!DemandPairs(status, AllLines), x[2] \in {o},
                      <<x[2], due[x[1]]>> \in keys
               PROVE  FALSE
    BY DEF Bit!Collides
  <2>1. PICK k \in keys : k = <<x[2], due[x[1]]>>
    OBVIOUS
  <2> QED
    BY <1>11, <2>1
<1>13. LinkedLines = Bit!Rebuilt(LinkedLines, status, AllLines, due, keys, {o})
  <2>1. /\ Bit!Keys = {Goods} \X Dates
        /\ \A k \in {Goods} \X Dates : k[1] \notin {o}
    BY BitKeys, GoodsApart
  <2>2. LinkedLines = [k \in {Goods} \X Dates |-> LinkedLines[k]]
    BY DEF LinkedLines
  <2> QED
    BY <2>1, <2>2 DEF Bit!Rebuilt
<1>14. \A fixed : Cover(status, qty, completed, alloc, rs)
         \in Bit!Coverings(CoveredLines, fixed, Bit!DemandPairs(status, AllLines), {o}, Orders)
  <2>1. \A u \in Orders \ {o} : rs[u] = rest[u]
    BY <1>1, <1>2, <1>3
  <2>2. PICK cv, Ps : cv = CoveredLines /\ Ps = {o}
    OBVIOUS
  <2>3. \A u \in Orders :
          /\ status[u] \in Live =>
               (<<u, Goods>> \in cv <=> completed[u] + OnOrder(alloc, u) >= qty[u])
          /\ status[u] \in Live /\ u \notin Ps => (<<u, u>> \in cv <=> rs[u])
    BY <2>1, <2>2, CoveredNow
  <2>4. Ps \in SUBSET ({Goods} \cup Orders)
    BY <2>2
  <2>5. \A fixed : Cover(status, qty, completed, alloc, rs)
          \in Bit!Coverings(cv, fixed, Bit!DemandPairs(status, AllLines), Ps, Orders)
    BY <2>3, <2>4, CoverFits
  <2> QED
    BY <2>2, <2>5
<1>15. status' = Bit!Evaluated(status, AllLines, CoveredLines', Orders)
  BY <1>4, <1>7, ServedStatus
<1>16. [r \in Runs |-> IF runState'[r] = "FREE" THEN <<>> ELSE <<Goods, runDate'[r]>>] = Keyed(rs2, rd2)
  BY <1>9 DEF Keyed
<1>17. AllLines' = AllLines
  BY DEF AllLines
<1>18. Bit!Settle(status, AllLines, due, LinkedLines, CoveredLines, {o}, {}, Orders)
  BY <1>1, <1>7, <1>8, <1>9, <1>10, <1>12, <1>13, <1>14, <1>15, <1>16, <1>17 DEF Bit!Settle
<1>19. Orders \in Bit!Evaluations(status, AllLines, {o})
  BY AllEvaluated
<1> QED
  BY <1>1, <1>6, <1>18, <1>19, BitRunsUntouched DEF Bit!AdjustSupply, Bit!runVars, runVars

LEMMA StartRefines ==
  ASSUME CoverInv, NEW r \in Runs, NEW t \in Dates, Start(r, t)
  PROVE  DraftsUnlocked' /\ Bit!Start(r, <<Goods, t>>)
<1>1. /\ runState[r] = "FREE" /\ t \notin Activity /\ Linked(t) # {}
      /\ runState' = [runState EXCEPT ![r] = "IN_PRODUCTION"]
      /\ runDate' = [runDate EXCEPT ![r] = t]
      /\ frozen' = [frozen EXCEPT ![t] = Linked(t)]
      /\ UNCHANGED <<status, due, qty, rest, completed, lot, alloc, planned, today>>
  BY DEF Start, orderVars, stockVars
<1>2. ProdInv /\ RunTypes /\ frozen \in [Dates -> SUBSET Orders] /\ Activity \in SUBSET Dates
  BY InvTypes DEF CoverInv
<1>3. /\ Activity' = Activity \cup {t}
      /\ LockedNow' = LockedNow \cup Linked(t)
      /\ \A e \in Dates \ Activity' : Linked(e)' = Linked(e)
  BY <1>2, RunStarts
<1>4. DraftsUnlocked'
  <2>1. \A u \in LockedNow' : status[u] # "DRAFT"
    BY <1>3 DEF CoverInv, DraftsUnlocked, Linked, Live
  <2> QED
    BY <1>1, <2>1 DEF DraftsUnlocked
<1>5. CoveredLines' = CoveredLines
  BY <1>1 DEF CoveredLines
<1>6. LinkedLines' = LinkedLines
  <2>1. ASSUME NEW e \in Dates
        PROVE  (IF e \in Activity' THEN frozen'[e] ELSE Linked(e)')
                 = IF e \in Activity THEN frozen[e] ELSE Linked(e)
    <3>1. CASE e = t
      BY <1>1, <1>2, <1>3, <3>1
    <3>2. CASE e # t
      BY <1>1, <1>2, <1>3, <3>2
    <3> QED
      BY <3>1, <3>2
  <2>2. \A k \in {Goods} \X Dates : k[2] \in Dates
    OBVIOUS
  <2>3. /\ LinkedLines = [k \in {Goods} \X Dates |->
                            IF k[2] \in Activity THEN frozen[k[2]] ELSE Linked(k[2])]
        /\ LinkedLines' = [k \in {Goods} \X Dates |->
                            IF k[2] \in Activity' THEN frozen'[k[2]] ELSE Linked(k[2])']
    BY DEF LinkedLines
  <2> QED
    BY <2>1, <2>2, <2>3
<1>7. PICK rk, rk2 :
        /\ rk = [q \in Runs |-> IF runState[q] = "FREE" THEN <<>> ELSE <<Goods, runDate[q]>>]
        /\ rk2 = [q \in Runs |-> IF runState'[q] = "FREE" THEN <<>> ELSE <<Goods, runDate'[q]>>]
  OBVIOUS
<1>8. rk2 = [rk EXCEPT ![r] = <<Goods, t>>]
  BY <1>1, <1>2, <1>7 DEF RunTypes
<1>9. LinkedLines[<<Goods, t>>] # {}
  BY <1>1 DEF LinkedLines
<1>10. <<Goods, t>> \notin Bit!Activity
  <2>1. Bit!Activity = {<<Goods, d>> : d \in Activity}
    BY ActiveKeys DEF Bit!Activity, Keyed, Activity
  <2> QED
    BY <1>1, <2>1
<1>11. AllLines' = AllLines
  BY DEF AllLines
<1>12. Bit!Start(r, <<Goods, t>>)
  BY <1>1, <1>5, <1>6, <1>7, <1>8, <1>9, <1>10, <1>11 DEF Bit!Start, Bit!orderVars
<1> QED
  BY <1>4, <1>12

(* A run ends, and the lines it handed enough to are covered.               *)
LEMMA RunEndRefines ==
  ASSUME CoverInv, NEW r \in Runs, NEW s \in {"COMPLETED", "CANCELED"},
         NEW comp, NEW lt, NEW fz, NEW act,
         fz = Released(r), act = Activity \ {runDate[r]},
         runState[r] = "IN_PRODUCTION", runState' = [runState EXCEPT ![r] = s],
         runDate' = runDate, rest' = rest,
         Prepared(status, qty, due, comp, lt, alloc, fz, act, {}),
         Settle(status, qty, due, comp, lt, alloc, fz, act, {}),
         \A o \in Orders : comp[o] >= completed[o],
         s = "CANCELED" => comp = completed
  PROVE  DraftsUnlocked' /\ Bit!EndRun(r, s)
<1>1. /\ ProdInv /\ status \in [Orders -> Statuses] /\ RunTypes
      /\ frozen \in [Dates -> SUBSET Orders] /\ Activity \in SUBSET Dates
      /\ qty \in [Orders -> Nat] /\ completed \in [Orders -> Nat] /\ alloc \in Allocs
      /\ comp \in [Orders -> Nat]
  BY InvTypes DEF CoverInv, Prepared
<1>2. Activity' = act /\ fz \in [Dates -> SUBSET Orders] /\ act \in SUBSET Dates
  BY <1>1, RunEnds
<1>3. \A x \in act : x \in Activity /\ fz[x] = frozen[x]
  BY <1>1 DEF Released
<1>4. \A u \in Locked(fz, act) : u \in LockedNow
  BY <1>3 DEF Locked, LockedNow
<1>5. DraftsUnlocked'
  <2>1. \A u \in Locked(fz, act) : status[u] # "DRAFT"
    BY <1>4 DEF CoverInv, DraftsUnlocked
  <2> QED
    BY <1>1, <1>2, <2>1, SettleUnlocks
<1>6. PICK served : served = {o \in Orders : /\ status[o] \in Live
                                             /\ comp[o] + OnOrder(alloc, o) >= qty[o]}
  OBVIOUS
<1>7. PICK gained : gained = (IF s = "CANCELED" THEN {} ELSE served \X {Goods})
  OBVIOUS
<1>8. gained \in SUBSET (Bit!Demand(status, AllLines, Goods) \X {Goods})
      /\ (s = "CANCELED" => gained = {})
  <2>1. served \subseteq Bit!Demand(status, AllLines, Goods)
    BY <1>6, BitDemand
  <2> QED
    BY <1>7, <2>1
<1>9. PICK lk, cv, fixed, Ps : /\ lk = LinkedLines /\ cv = CoveredLines \cup gained
                              /\ fixed = Bit!ReadyPairs(status) /\ Ps = {Goods}
  OBVIOUS
<1>10. ASSUME NEW u \in Orders
       PROVE  /\ status[u] \in Live =>
                   (<<u, Goods>> \in cv <=> comp[u] + OnOrder(alloc, u) >= qty[u])
              /\ <<u, u>> \in cv <=> <<u, u>> \in CoveredLines
  <2>1. /\ comp[u] \in Nat /\ completed[u] \in Nat /\ OnOrder(alloc, u) \in Nat
        /\ qty[u] \in Nat /\ comp[u] >= completed[u]
    BY <1>1, TotalsType
  <2>2. /\ <<u, Goods>> \in gained <=> s # "CANCELED" /\ u \in served
        /\ <<u, u>> \notin gained
    BY <1>7, GoodsApart
  <2>3. status[u] \in Live =>
          (<<u, Goods>> \in CoveredLines <=> completed[u] + OnOrder(alloc, u) >= qty[u])
    BY CoveredNow
  <2>4. u \in served <=> status[u] \in Live /\ comp[u] + OnOrder(alloc, u) >= qty[u]
    BY <1>6
  <2>5. <<u, Goods>> \in cv <=> <<u, Goods>> \in CoveredLines \/ <<u, Goods>> \in gained
    BY <1>9
  <2>6. s = "CANCELED" => comp[u] = completed[u]
    OBVIOUS
  <2>7. status[u] \in Live =>
          (<<u, Goods>> \in cv <=> comp[u] + OnOrder(alloc, u) >= qty[u])
    BY <2>1, <2>2, <2>3, <2>4, <2>5, <2>6
  <2> QED
    BY <1>9, <2>2, <2>7
<1>11. Follows(status, qty, comp, alloc, fz, act, lk, cv, fixed, Ps)
  <2>1. ASSUME NEW x \in act PROVE lk[<<Goods, x>>] = fz[x]
    <3>1. x \in Activity /\ x \in Dates /\ fz[x] = frozen[x]
      BY <1>2, <1>3
    <3>2. LinkedLines[<<Goods, x>>] = frozen[x]
      BY <3>1, LockedLinks
    <3> QED
      BY <1>9, <3>1, <3>2
  <2>2. ASSUME NEW u \in Orders, <<u, Goods>> \in fixed
        PROVE  status[u] = "READY" /\ <<u, Goods>> \in cv
    <3>1. status[u] = "READY"
      BY <1>9, <2>2, FixedPairs
    <3> QED
      BY <1>1, <1>9, <3>1, ReadyIsCovering
  <2>3. ASSUME NEW u \in Orders, status[u] \in Live PROVE <<u, u>> \in cv <=> rest[u]
    BY <1>10, <2>3, CoveredNow
  <2> QED
    BY <1>10, <2>1, <2>2, <2>3 DEF Follows
<1>12. Bit!Settle(status, AllLines, due, lk, cv, Ps, fixed, Orders)
  BY <1>1, <1>2, <1>9, <1>11, FollowsRefines
<1>13. Orders \in Bit!Evaluations(status, AllLines, {Goods})
  BY AllEvaluated
<1>14. PICK rk, rk2 :
        /\ rk = [q \in Runs |-> IF runState[q] = "FREE" THEN <<>> ELSE <<Goods, runDate[q]>>]
        /\ rk2 = [q \in Runs |-> IF runState'[q] = "FREE" THEN <<>> ELSE <<Goods, runDate'[q]>>]
  OBVIOUS
<1>15. rk[r][1] = Goods /\ rk2 = rk
  BY <1>1, <1>14 DEF RunTypes
<1>16. Bit!EndRun(r, s)
  BY <1>8, <1>9, <1>12, <1>13, <1>14, <1>15 DEF Bit!EndRun
<1> QED
  BY <1>5, <1>16

LEMMA FinishRefines ==
  ASSUME CoverInv, NEW r \in Runs, NEW out \in Outputs, Finish(r, out)
  PROVE  DraftsUnlocked' /\ Bit!EndRun(r, "COMPLETED")
<1>1. PICK comp, lt, fz, act : FinishRows(r, out, comp, lt, fz, act)
  BY DEF FinishRows
<1>2. ProdInv
  BY DEF CoverInv
<1>3. /\ Prepared(status, qty, due, comp, lt, alloc, fz, act, {})
      /\ \A o \in Orders : comp[o] >= completed[o]
  BY <1>1, <1>2, FinishPrepared
<1>4. /\ runState[r] = "IN_PRODUCTION" /\ runState' = [runState EXCEPT ![r] = "COMPLETED"]
      /\ runDate' = runDate /\ rest' = rest
      /\ Settle(status, qty, due, comp, lt, alloc, fz, act, {})
  BY <1>1, <1>2, FinishEnds
<1>5. fz = Released(r) /\ act = Activity \ {runDate[r]}
  BY <1>1 DEF FinishRows
<1> QED
  BY <1>3, <1>4, <1>5, RunEndRefines

LEMMA CancelRunRefines ==
  ASSUME CoverInv, NEW r \in Runs, CancelRun(r)
  PROVE  DraftsUnlocked' /\ Bit!EndRun(r, "CANCELED")
<1>1. PICK fz, act : fz = Released(r) /\ act = Activity \ {runDate[r]}
  OBVIOUS
<1>2. ProdInv
  BY DEF CoverInv
<1>3. /\ runState[r] = "IN_PRODUCTION" /\ runState' = [runState EXCEPT ![r] = "CANCELED"]
      /\ runDate' = runDate /\ rest' = rest
      /\ Settle(status, qty, due, completed, lot, alloc, fz, act, {})
  BY <1>1 DEF CancelRun
<1>4. fz \in [Dates -> SUBSET Orders] /\ act \in SUBSET Dates
  BY <1>1, <1>2, <1>3, RunEnds
<1>5. Prepared(status, qty, due, completed, lot, alloc, fz, act, {})
  BY <1>2, <1>4, InvTypes, LotsHold, PlainArgs
<1>6. \A o \in Orders : completed[o] >= completed[o]
  BY <1>2, InvTypes
<1> QED
  BY <1>1, <1>3, <1>5, <1>6, RunEndRefines

(* Steps Fulfillment does not see.                                          *)
LEMMA UnseenRefines ==
  ASSUME CoverInv,
         UNCHANGED <<status, due, qty, rest, completed, alloc, frozen, runState, runDate>>
  PROVE  DraftsUnlocked' /\ UNCHANGED Bit!vars
<1>1. Activity' = Activity
  BY DEF Activity
<1>2. LockedNow' = LockedNow
  BY <1>1 DEF LockedNow
<1>3. DraftsUnlocked'
  BY <1>2 DEF CoverInv, DraftsUnlocked
<1>4. \A x \in Dates : Linked(x)' = Linked(x)
  BY <1>2 DEF Linked
<1>5. CoveredLines' = CoveredLines
  BY DEF CoveredLines
<1>6. LinkedLines' = LinkedLines
  BY <1>1, <1>4 DEF LinkedLines
<1>7. AllLines' = AllLines
  BY DEF AllLines
<1>8. UNCHANGED runVars
  BY DEF runVars
<1> QED
  BY <1>3, <1>5, <1>6, <1>7, <1>8, BitRunsUntouched DEF Bit!vars, Bit!orderVars, Bit!runVars

LEMMA InitRefines == Init => CoverInv /\ Bit!Init
<1> SUFFICES ASSUME Init PROVE CoverInv /\ Bit!Init
  OBVIOUS
<1>1. ProdInv
  BY InitGood
<1>2. /\ status = [o \in Orders |-> "DRAFT"] /\ due = InitDue
      /\ runState = [r \in Runs |-> "FREE"] /\ runDate = [r \in Runs |-> NoDate]
  BY DEF Init
<1>3. Activity = {} /\ LockedNow = {}
  BY <1>2 DEF Activity, ActiveDates, LockedNow, Locked
<1>4. DraftsUnlocked
  BY <1>3 DEF DraftsUnlocked
<1>5. CoveredLines
        \in Bit!Coverings({}, {}, Bit!DemandPairs(status, AllLines), {Goods} \cup Orders, Orders)
  <2>1. \A o \in Orders : status[o] \notin Live
    BY <1>2 DEF Live
  <2>2. PICK Ps : Ps = {Goods} \cup Orders
    OBVIOUS
  <2>3. Ps \in SUBSET ({Goods} \cup Orders)
    BY <2>2
  <2>4. Cover(status, qty, completed, alloc, rest)
          \in Bit!Coverings({}, {}, Bit!DemandPairs(status, AllLines), Ps, Orders)
    BY <2>1, <2>3, CoverFits
  <2> QED
    BY <2>2, <2>4, CoverIs
<1>6. status = Bit!Evaluated(status, AllLines, CoveredLines, Orders)
  BY <1>2 DEF Bit!Evaluated, Bit!Live
<1>7. LinkedLines = Bit!Rebuilt([k \in Bit!Keys |-> {}], status, AllLines, due, {}, {Goods} \cup Orders)
  <2>1. PICK act, lk, Ps : act = {} /\ lk = [k \in Bit!Keys |-> {}] /\ Ps = {Goods} \cup Orders
    OBVIOUS
  <2>2. act \in SUBSET Dates /\ Goods \in Ps /\ \A x \in act : lk[<<Goods, x>>] = frozen[x]
    BY <2>1
  <2>3. Links(status, due, frozen, act)
          = Bit!Rebuilt(lk, status, AllLines, due, {<<Goods, x>> : x \in act}, Ps)
    BY <2>2, RebuiltLinks
  <2>4. {<<Goods, x>> : x \in act} = {}
    BY <2>1
  <2>5. LinkedLines = Links(status, due, frozen, act)
    BY <1>3, <2>1, LinksAre
  <2> QED
    BY <2>1, <2>3, <2>4, <2>5
<1>8. PICK rk : rk = [r \in Runs |-> IF runState[r] = "FREE" THEN <<>> ELSE <<Goods, runDate[r]>>]
  OBVIOUS
<1>9. rk = [r \in Runs |-> <<>>]
  BY <1>2, <1>8
<1>10. Bit!Init
  BY <1>2, <1>5, <1>6, <1>7, <1>8, <1>9 DEF Bit!Init, Bit!NoKey
<1> QED
  BY <1>1, <1>4, <1>10 DEF CoverInv

LEMMA StepRefines == CoverInv /\ [Next]_vars => CoverInv' /\ [Bit!Next]_(Bit!vars)
<1> SUFFICES ASSUME CoverInv, [Next]_vars
             PROVE  CoverInv' /\ (Bit!Next \/ UNCHANGED Bit!vars)
  OBVIOUS
<1>1. ProdInv'
  BY NextGood DEF CoverInv
<1>2. ASSUME NEW o \in Orders, Confirm(o) \/ Cancel(o) \/ CompleteOrder(o)
      PROVE  DraftsUnlocked' /\ Bit!Next
  <2>1. DraftsUnlocked' /\ (Bit!Confirm(o) \/ Bit!Cancel(o) \/ Bit!CompleteOrder(o))
    BY <1>2, ConfirmRefines, CancelRefines, CompleteOrderRefines
  <2> QED
    BY <2>1 DEF Bit!Next
<1>3. ASSUME NEW o \in Orders, RestChange(o) PROVE DraftsUnlocked' /\ Bit!Next
  BY <1>3, RestChangeRefines DEF Bit!Next
<1>4. ASSUME NEW o \in Orders, NEW n \in Quantities, NEW d \in Dates, Edit(o, n, d)
      PROVE  DraftsUnlocked' /\ Bit!Next
  <2>1. PICK e : e = Payload(o, n, d)
    OBVIOUS
  <2>2. DraftsUnlocked' /\ Bit!Edit(o, e)
    BY <1>4, <2>1, EditRefines
  <2>3. e \in [lines : {{Goods, u} : u \in Orders}, date : Dates, resized : {{}, {Goods}}]
    BY <2>1 DEF Payload
  <2> QED
    BY <2>2, <2>3 DEF Bit!Next
<1>5. ASSUME NEW r \in Runs, NEW d \in Dates, Start(r, d) PROVE DraftsUnlocked' /\ Bit!Next
  <2>1. <<Goods, d>> \in Bit!Keys
    BY BitKeys
  <2>2. DraftsUnlocked' /\ Bit!Start(r, <<Goods, d>>)
    BY <1>5, StartRefines
  <2> QED
    BY <2>1, <2>2 DEF Bit!Next
<1>6. ASSUME NEW r \in Runs, NEW n \in Outputs, CancelRun(r) \/ Finish(r, n)
      PROVE  DraftsUnlocked' /\ Bit!Next
  <2>1. DraftsUnlocked' /\ (Bit!EndRun(r, "COMPLETED") \/ Bit!EndRun(r, "CANCELED"))
    BY <1>6, CancelRunRefines, FinishRefines
  <2> QED
    BY <2>1 DEF Bit!Next
<1>7. ASSUME NEW r \in Runs, CancelRun(r) PROVE DraftsUnlocked' /\ Bit!Next
  <2>1. DraftsUnlocked' /\ Bit!EndRun(r, "CANCELED")
    BY <1>7, CancelRunRefines
  <2> QED
    BY <2>1 DEF Bit!Next
<1>8. ASSUME NEW n \in Outputs, NEW u \in Expiries, CreateSurplus(n, u)
      PROVE  DraftsUnlocked' /\ Bit!Next
  BY <1>8, CreateSurplusRefines DEF Bit!Next
<1>9. ASSUME NEW n \in Outputs, NEW l \in Lots, ReducePromised(l, n)
      PROVE  DraftsUnlocked' /\ Bit!Next
  BY <1>9, ReducePromisedRefines DEF Bit!Next
<1>10. ASSUME NEW n \in Outputs, NEW l \in Lots, ReduceSlack(l, n)
       PROVE  DraftsUnlocked' /\ UNCHANGED Bit!vars
  BY <1>10, UnseenRefines DEF ReduceSlack, orderVars, runVars
<1>11. ASSUME AdvanceDay PROVE DraftsUnlocked' /\ UNCHANGED Bit!vars
  BY <1>11, UnseenRefines DEF AdvanceDay, orderVars, stockVars, runVars
<1>12. ASSUME UNCHANGED vars PROVE DraftsUnlocked' /\ UNCHANGED Bit!vars
  BY <1>12, UnseenRefines DEF vars, orderVars, stockVars, runVars
<1>13. DraftsUnlocked' /\ (Bit!Next \/ UNCHANGED Bit!vars)
  BY <1>2, <1>3, <1>4, <1>5, <1>6, <1>7, <1>8, <1>9, <1>10, <1>11, <1>12 DEF Next
<1> QED
  BY <1>1, <1>13 DEF CoverInv

(* The quantities implement the coverage bit: whatever the allocators       *)
(* decide, Fulfillment allows, so all it promises of coverage, links and    *)
(* readiness holds of the quantities as well.                               *)
THEOREM QuantitiesImplementCoverage == Spec => CoverageSpec
<1>1. Init => CoverInv /\ Bit!Init
  BY InitRefines
<1>2. CoverInv /\ [Next]_vars => CoverInv' /\ [Bit!Next]_(Bit!vars)
  BY StepRefines
<1> QED
  BY <1>1, <1>2, PTL DEF Spec, CoverageSpec, Bit!Spec
============================================================================
