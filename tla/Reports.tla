------------------------------ MODULE Reports ------------------------------
(***************************************************************************)
(* What the read models make of the books: the five analytics reports of a  *)
(* period, the shopping list, the insight into a requirement, and the       *)
(* alerts of the dashboard.  All are functions of the state; they keep      *)
(* none, and lock nothing.                                                  *)
(***************************************************************************)
EXTENDS Books

CONSTANTS
  DailyMax,      \* a period of so many days is shown by days,
  WeeklyMax,     \* one of so many by weeks, a longer one by months
  DaysInWeek,
  DaysInMonth,   \* all months have the same length here
  RatioScale,    \* 10^6: the digits a ratio keeps
  ShoppingDays,  \* businesses.shopping_horizon_days
  ExpiryWindow   \* days ahead in which Surplus counts as expiring

(* A recipe yields something and needs something of its ingredient: both are *)
(* checked by the schema, and a reservation that would be stored as zero is  *)
(* refused.                                                                 *)
ASSUME ReportsAssumption ==
  /\ {DailyMax, WeeklyMax, DaysInWeek, DaysInMonth, RatioScale} \subseteq Nat \ {0}
  /\ {Yield, FlourPerBatch} \subseteq Nat \ {0}
  /\ ShoppingDays \in Nat

----------------------------------------------------------------------------
(* Periods and key figures.                                                 *)

Periods == {p \in [from : 1..Horizon, to : 1..Horizon] : p.from <= p.to}
DaysOf(p) == p.to - p.from + 1

(* The equally long period just before.                                     *)
Previous(p) == [from |-> p.from - DaysOf(p), to |-> p.from - 1]

SegmentEnd(day, p) ==
  LET stop == CASE DaysOf(p) <= DailyMax -> day
                [] DaysOf(p) > DailyMax /\ DaysOf(p) <= WeeklyMax ->
                     day + DaysInWeek - 1 - ((day - 1) % DaysInWeek)
                [] OTHER -> day + DaysInMonth - 1 - ((day - 1) % DaysInMonth)
  IN  MinOf(stop, p.to)

(* The fault of a walk that stops before the last day.                      *)
BucketsShort(p) ==
  LET walk[day \in Nat] ==
        IF day >= p.to THEN <<>>
        ELSE <<[from |-> day, to |-> SegmentEnd(day, p)]>> \o walk[SegmentEnd(day, p) + 1]
  IN  walk[p.from]

(* The buckets of a period, in order, each clipped to it.                   *)
Buckets(p) ==
  LET walk[day \in Nat] ==
        IF day > p.to THEN <<>>
        ELSE <<[from |-> day, to |-> SegmentEnd(day, p)]>> \o walk[SegmentEnd(day, p) + 1]
  IN  walk[p.from]

ClosedIn(p, st) == {o \in Orders : status[o] = st /\ p.from <= closedOn[o] /\ closedOn[o] <= p.to}
Done(p) == ClosedIn(p, "COMPLETED")

RowsOf(o) == {k \in CostRows : ledger[o][k] # 0}
CostOf(o, rows) == Over(rows, LAMBDA k : ledger[o][k])
Cost(o) == CostOf(o, RowsOf(o))
Revenue(o) == Total(bill[o])

(* ROUND_HALF_UP, away from zero on both sides.                             *)
Rounded(a, b) == IF a < 0 THEN -RoundDiv(-a, b) ELSE RoundDiv(a, b)
Ratio(a, b) == IF b <= 0 THEN Unknown ELSE Rounded(a * RatioScale, b)

(* A free period has no margin, and an empty one no average.                *)
Figures(revenue, cost, n) ==
  [revenue |-> revenue, cost |-> cost, orders |-> n, contribution |-> revenue - cost,
   margin |-> Ratio(revenue - cost, revenue),
   average |-> IF n = 0 THEN Unknown ELSE RoundDiv(revenue, n)]

Kpis(S) == Figures(Over(S, Revenue), Over(S, Cost), Cardinality(S))

(* A change, and its ratio to a previous value if that is positive.         *)
Change(cur, prev) ==
  [absolute |-> cur - prev, percent |-> Ratio(cur - prev, prev)]

(* A margin is compared in points, never as growth.                         *)
Points(cur, prev) == [absolute |-> cur - prev]

Compared(cur, prev) ==
  [k \in DOMAIN cur |->
     IF Unknown \in {cur[k], prev[k]} THEN Unknown
     ELSE IF k = "margin" THEN Points(cur[k], prev[k]) ELSE Change(cur[k], prev[k])]

Overview(p) ==
  LET cur == Kpis(Done(p))
      prev == Kpis(Done(Previous(p)))
  IN  [current |-> cur, previous |-> prev, deltas |-> Compared(cur, prev)]

Trends(p) == [i \in DOMAIN Buckets(p) |-> Kpis(Done(Buckets(p)[i]))]

----------------------------------------------------------------------------
(* Products, customers and Orders of a period.                              *)

CostOfLine(o, line) == CostOf(o, {k \in RowsOf(o) : k[2] = line})

(* Bread and cups are Products; the cake stands for the custom items.       *)
Row(p, line) ==
  LET S == {o \in Done(p) : line \in DOMAIN bill[o].lines}
  IN  [figures |-> Figures(Over(S, LAMBDA o : Subtotal(bill[o].lines[line])),
                           Over(S, LAMBDA o : CostOfLine(o, line)), Cardinality(S)),
       packages |-> Over(S, LAMBDA o : bill[o].lines[line].packages),
       units |-> Over(S, LAMBDA o : bill[o].lines[line].units)]

Shown == {"bread", "cups", "cake"}

Products(p) ==
  LET rows == [k \in Shown |-> Row(p, k)]
      adjusted == Over(Done(p), LAMBDA o : bill[o].adjustment)
      taxed == Over(Done(p), LAMBDA o : bill[o].tax)
  IN  [rows |-> rows, adjustments |-> adjusted, tax |-> taxed,
       unattributed |-> Over(Done(p), LAMBDA o :
          CostOf(o, {k \in RowsOf(o) : k[2] \notin DOMAIN bill[o].lines})),
       unreconciled |-> Over(Done(p), Revenue) - adjusted - taxed
                          - Over(Shown, LAMBDA k : rows[k].figures.revenue)]

OrdersOf(S, c) == {o \in S : bill[o].customer = c}

(* A customer is NEW in a period if nothing was completed for them before.   *)
CustomerRow(p, c) ==
  LET S == OrdersOf(Done(p), c)
      before == OrdersOf({o \in Orders : status[o] = "COMPLETED" /\ closedOn[o] < p.from}, c)
  IN  [orders |-> Cardinality(S), revenue |-> Over(S, Revenue),
       average |-> RoundDiv(Over(S, Revenue), Cardinality(S)),
       class |-> IF before = {} THEN "NEW" ELSE "RETURNING"]

CustomersSeen(p) == {c \in Customers : OrdersOf(Done(p), c) # {}}

CustomersReport(p) ==
  [rows |-> [c \in CustomersSeen(p) |-> CustomerRow(p, c)],
   guest |-> [orders |-> Cardinality(OrdersOf(Done(p), Guest)),
              revenue |-> Over(OrdersOf(Done(p), Guest), Revenue),
              share |-> Ratio(Cardinality(OrdersOf(Done(p), Guest)), Cardinality(Done(p)))]]

Balance(o) == Minus(Revenue(o), paid[o])

(* Completed Orders by the day they were completed, canceled ones by the day *)
(* they were canceled; only the former earn or owe anything.                *)
OrderRow(o) ==
  LET done == status[o] = "COMPLETED"
  IN  [status |-> status[o], on |-> closedOn[o], total |-> Revenue(o), paid |-> paid[o],
       contribution |-> IF done THEN Revenue(o) - Cost(o) ELSE Unknown,
       payment |-> IF done THEN PaymentStatus(paid[o], Revenue(o)) ELSE Unknown,
       balance |-> IF done THEN Balance(o) ELSE Unknown]

Unpaid(p) == {o \in Done(p) : Balance(o) > 0}
Outstanding(p) == [count |-> Cardinality(Unpaid(p)), balance |-> Over(Unpaid(p), Balance)]

(* The rows, and above them what they come to (the average, the largest      *)
(* Order and the sums by fulfilment method left out).                       *)
OrdersReport(p) ==
  [rows |-> [o \in Done(p) \cup ClosedIn(p, "CANCELED") |-> OrderRow(o)],
   summary |-> [completed |-> Cardinality(Done(p)),
                canceled |-> Cardinality(ClosedIn(p, "CANCELED")),
                revenue |-> Over(Done(p), Revenue), outstanding |-> Outstanding(p)]]

(* The five reports of the API.                                             *)
FullReport(p) ==
  [overview |-> Overview(p), trends |-> Trends(p), products |-> Products(p),
   customers |-> CustomersReport(p), orders |-> OrdersReport(p)]

----------------------------------------------------------------------------
(* Shortages and alerts.                                                    *)

(* The fault of releasing the flour of a run that has started.              *)
ReservedIdle(d) ==
  IF d \in Activity THEN 0 ELSE FlourOf(WholeBatches(planned[d], Yield))

(* Flour reserved by the requirement of a date; one in production keeps the  *)
(* reservation it had.                                                      *)
Reserved(d) == FlourOf(WholeBatches(planned[d], Yield))

Stream == [d \in Dates |-> Reserved(d)]

(* The shortage of flour through a day.                                     *)
ShortOn(day) == ShortageThrough(Stream, flour.qty, day)

(* Flour that nothing asks for by the end is on no list, even when overdrawn. *)
Listed == ReservedThrough(Stream, today + ShoppingDays) > 0

ShoppingList ==
  [day \in today..(today + ShoppingDays) |-> IF Listed THEN ShortOn(day) ELSE 0]
NeededBy == {day \in DOMAIN ShoppingList :
               ShoppingList[day] > 0 /\ \A e \in today..(day - 1) : ShoppingList[e] = 0}

OpenRequirements == {d \in Dates \ Activity : planned[d] > 0}

(* What the insight of an open requirement says is missing.                 *)
Insight(d) == ShortOn(d)

CupsShort ==
  Minus(Over({o \in Orders : status[o] \in Live}, CupsOf), goods.qty)

(* Live Orders past their day, and requirements past theirs with no run.     *)
Overdue == {o \in Orders : status[o] \in Live /\ due[o] < today}
LateStarts == {d \in OpenRequirements : d < today}

(* What is left of a lot, unpromised, and will not be good for long.         *)
Expiring(l) ==
  /\ Room(lot, alloc, l) > 0
  /\ today <= lot[l].until /\ lot[l].until <= today + ExpiryWindow

StockAlerts ==
  (IF ShoppingList[today + ShoppingDays] > 0 THEN {<<"INGREDIENT_SHORTAGE", "flour">>} ELSE {})
    \cup (IF CupsShort > 0 THEN {<<"PURCHASED_PRODUCT_SHORTAGE", "cups">>} ELSE {})
    \cup (IF flour.qty < 0 THEN {<<"NEGATIVE_INGREDIENT_INVENTORY", "flour">>} ELSE {})

Alerts ==
  {<<"FULFILLMENT_OVERDUE", o>> : o \in Overdue}
    \cup {<<"PRODUCTION_START_OVERDUE", d>> : d \in LateStarts}
    \cup {<<"SURPLUS_EXPIRING", l>> : l \in {m \in Lots : Expiring(m)}}
    \cup StockAlerts

----------------------------------------------------------------------------
(* The five reports, each grouped in its own way, tell the same revenue,     *)
(* cost and number of Orders, and leave nothing unreconciled; what is owed   *)
(* is what was asked and not paid, and exactly the Orders not PAID owe it.   *)
ReportsAgree ==
  \A p \in {q \in Periods : Done(q) # {}} :
    LET cur == Overview(p).current
        bought == Products(p)
        people == CustomersReport(p)
        rows == OrdersReport(p).rows
        owed == OrdersReport(p).summary.outstanding
    IN  /\ \A k \in {"revenue", "cost", "orders", "contribution"} :
             AddUp([i \in DOMAIN Trends(p) |-> Trends(p)[i][k]]) = cur[k]
        /\ bought.unreconciled = 0 /\ bought.unattributed = 0
        /\ Over(Shown, LAMBDA k : bought.rows[k].figures.cost) = cur.cost
        /\ Over(DOMAIN people.rows, LAMBDA c : people.rows[c].revenue)
             + people.guest.revenue = cur.revenue
        /\ Over(DOMAIN people.rows, LAMBDA c : people.rows[c].orders)
             + people.guest.orders = cur.orders
        /\ Over({o \in DOMAIN rows : rows[o].status = "COMPLETED"},
                LAMBDA o : rows[o].contribution) = cur.contribution
        /\ owed.balance
             = cur.revenue - Over(Done(p), LAMBDA o : MinOf(paid[o], Revenue(o)))
        /\ \A o \in Done(p) : Revenue(o) > 0 =>
             (o \in Unpaid(p) <=> rows[o].payment # "PAID")

(* The reports of a period without the columns and the total that say who    *)
(* has paid.                                                                *)
SaleColumns == {"status", "on", "total", "contribution"}
Sales(p) ==
  LET rows == OrdersReport(p).rows
      summary == OrdersReport(p).summary
  IN  [overview |-> Overview(p), trends |-> Trends(p), products |-> Products(p),
       customers |-> CustomersReport(p),
       rows |-> [o \in DOMAIN rows |-> [k \in SaleColumns |-> rows[o][k]]],
       summary |-> [k \in {"completed", "canceled", "revenue"} |-> summary[k]]]

(* Once a period has ended its sales never change, whatever is sold, edited, *)
(* paid, bought, produced or completed later.  Its reports change only when  *)
(* one of its completed Orders is paid more, and then that Order, and all    *)
(* of them together, owe no more than before.                               *)
PastReportsStand ==
  [][\A p \in Periods : p.to < today =>
       /\ Sales(p)' = Sales(p)
       /\ \/ FullReport(p)' = FullReport(p)
          \/ \E o \in Done(p) : paid[o] < paid'[o]
       /\ \A o \in Done(p) : Balance(o)' <= Balance(o)
       /\ Outstanding(p).count' <= Outstanding(p).count
       /\ Outstanding(p).balance' <= Outstanding(p).balance]_booksVars

(* A shortage that the insight shows for a requirement inside the shopping   *)
(* horizon is on the dashboard too, with a day it is needed by; and buying   *)
(* what the shopping list asks for makes both disappear.                    *)
AlertsFollowInsight ==
  LET asked == ShoppingList[today + ShoppingDays]
  IN  \A d \in OpenRequirements : d <= today + ShoppingDays =>
        /\ Insight(d) > 0 =>
             <<"INGREDIENT_SHORTAGE", "flour">> \in Alerts /\ NeededBy # {}
        /\ ShortageThrough(Stream, flour.qty + asked, d) = 0

(* When no shortage is shown through a day, and no run was started with more *)
(* batches than its demand called for, the flour of all the runs for that    *)
(* day and before it is there.                                              *)
PlannedRunIsStocked ==
  \A day \in Dates :
    LET rs == {r \in Runs : runState[r] = "IN_PRODUCTION" /\ runDate[r] <= day}
    IN  /\ ShortOn(day) = 0
        /\ \A r \in rs : runCost[r].batches <= WholeBatches(planned[runDate[r]], Yield)
        => flour.qty >= Over(rs, LAMBDA r : runCost[r].flour)
============================================================================
