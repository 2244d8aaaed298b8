------------------------------ MODULE MCBooks ------------------------------
(* Small books: a plain Order and a mixed one, one run, six openings that  *)
(* each let one part of the business move.                                  *)
EXTENDS Reports

MCDue == [o \in Orders |-> o]

Line(packages, price, packaging) ==
  [packages |-> packages, units |-> packages, price |-> price, packaging |-> packaging]

MCExtras == [k \in {"cups", "cake"} |-> IF k = "cups" THEN Line(1, 3, 1) ELSE Line(1, 4, 0)]

Loaves == [price |-> 5, units |-> 1, packaging |-> 1]
Rolls == [price |-> 6, units |-> 2, packaging |-> 2]
MCCatalogues == {Loaves, Rolls}

Buy(n, c, f) == [kind |-> "restock", qty |-> n, cost |-> c, factor |-> f]
MCStockOps ==
  {Buy(1, 4, 2), Buy(2, 7, 1), [kind |-> "adjust", change |-> -3],
   [kind |-> "adjust", change |-> 1], [kind |-> "replacement", cost |-> 5]}
MCGoodsRestocks == {[qty |-> 1, cost |-> 9]}
MCGoodsChanges == {-1}
MCAdjustments == {0, -1}

Flour(n, c, known) ==
  [qty |-> n, wac |-> c, latest |-> IF known THEN c ELSE Unknown, repl |-> Unknown, version |-> 0]

Order(n, price, who, adj, paying) ==
  [packages |-> n, price |-> price, customer |-> who, adjustment |-> adj, tax |-> 1,
   direct |-> 2, payment |-> paying]
MCRequests ==
  [o \in Orders |-> IF o = 1 THEN {Order(1, Unknown, Guest, 0, 6), Order(2, 4, CHOOSE c \in Customers : TRUE, -1, 0)}
                   ELSE {Order(1, Unknown, CHOOSE c \in Customers : TRUE, 0, 0)}]

Opening(q, f, op, cups, l) ==
  [qty |-> q, rest |-> [o \in Orders |-> TRUE], catalogue |-> Loaves, flour |-> f, opened |-> op,
   goods |-> [qty |-> cups, wac |-> 6, latest |-> 6], left |-> l]

Budget(order, bll, stock, run, surplus, day) ==
  [order |-> order, bill |-> bll, stock |-> stock, run |-> run, surplus |-> surplus, day |-> day]

MCSymmetry == Permutations(Clerks)

MCScenarios ==
  {Opening(<<2, 1>>, Flour(2, 3, TRUE), TRUE, 1, Budget(5, 0, 0, 1, 0, 2)),   \* baking
   Opening(<<2, 1>>, Flour(2, 3, TRUE), TRUE, 1, Budget(4, 0, 0, 1, 1, 1)),   \* Surplus
   Opening(<<1, 1>>, Flour(2, 3, TRUE), TRUE, 1, Budget(3, 3, 0, 0, 0, 0)),   \* prices
   Opening(<<1, 1>>, Flour(2, 3, TRUE), TRUE, 1, Budget(2, 2, 0, 0, 1, 1)),   \* late payments
   Opening(<<1, 1>>, Flour(0, 0, FALSE), FALSE, 1, Budget(0, 0, 4, 0, 0, 0)), \* stock
   Opening(<<1, 1>>, Flour(0, 0, FALSE), FALSE, 1, Budget(2, 0, 2, 1, 0, 0))} \* its use
=============================================================================
