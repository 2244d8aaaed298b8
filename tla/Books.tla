------------------------------- MODULE Books -------------------------------
(***************************************************************************)
(* Production with its money: prices and payments of Orders, the balances   *)
(* and average costs of stock, the cost a run captures and shares out, and  *)
(* the cost ledger that completion closes.  Every action here is an action  *)
(* of Production together with what the same transaction books, or touches  *)
(* the books only.                                                          *)
(*                                                                         *)
(* The Order's line in Production is its line of bread, a Product sold by a *)
(* Selling Option; an Order in Mixed also sells cups, a Purchased good, and *)
(* a cake, a custom item.  Bread is made of flour.  `qty` and `due` of a    *)
(* draft are what it will be confirmed with.                                *)
(***************************************************************************)
EXTENDS Production, Costing

CONSTANTS
  Packages,       \* how many packages of bread an Order may ask for
  Catalogues,     \* what the Selling Option may be: price, units, packaging
  Overrides,      \* the prices a seller may enter by hand
  Extras,         \* the lines of cups and cake
  Requests,       \* what each Order may be written as
  Adjustments,    \* adjustments of an Order's total
  Customers,      \* Customer ids
  Guest,          \* the NULL customer
  Payments,       \* amounts that may be paid
  Clerks,         \* concurrent requests about the flour
  StockOps,       \* what they may ask for
  GoodsRestocks,  \* purchases of cups: quantity and unit cost
  GoodsChanges,   \* manual adjustments of cups
  Yield,          \* units of bread a batch makes
  FlourPerBatch,
  Minutes,        \* of work in a batch
  LaborRate,      \* fine units an hour
  Batches,        \* how many a run may be started with
  Usages,         \* flour a seller may report at the end of a run
  EnteredCosts,   \* unit costs of Surplus entered by hand
  Scenarios       \* what the books open with, and how much happens

BillLines == [packages : Nat \ {0}, units : Nat \ {0}, price : Nat, packaging : Nat]
FlourRows ==
  [qty : Int, wac : Nat, latest : Nat \cup {Unknown}, repl : Nat \cup {Unknown}, version : Nat]
GoodsRows == [qty : Nat, wac : Nat, latest : Nat]
StockRequests ==
  [kind : {"restock"}, qty : Nat, cost : Nat, factor : Nat \ {0}]
    \cup [kind : {"adjust"}, change : Int]
    \cup [kind : {"replacement"}, cost : Nat]

LineKeys(o) == IF o \in Mixed THEN {"bread", "cups", "cake"} ELSE {"bread"}

DraftRequests ==
  [packages : Nat \ {0}, price : Overrides \cup {Unknown}, adjustment : Int, tax : Int,
   customer : Customers \cup {Guest}, direct : Nat \cup {Unknown}, payment : Nat]
Bills ==
  [lines : UNION {[LineKeys(o) -> BillLines] : o \in Orders}, adjustment : Int, tax : Int,
   customer : Customers \cup {Guest}, direct : Nat \cup {Unknown}]
RunSnapshots ==
  [batches : Nat, flour : Nat, unit : Nat, source : {"WAC", "FALLBACK"}, labor : Nat]

(* Quantities sold are positive, and so many packages are something a line   *)
(* may ask for; payments are positive and costs not negative, flour without  *)
(* a transaction has no balance, and NULL is no row and no customer.         *)
ASSUME BooksAssumption ==
  /\ Packages \subseteq Nat \ {0}
  /\ Catalogues \subseteq [price : Nat, units : Nat \ {0}, packaging : Nat]
  /\ \A n \in Packages, option \in Catalogues : n * option.units \in Quantities
  /\ Overrides \subseteq Nat
  /\ Extras \in [{"cups", "cake"} -> BillLines]
  /\ \A o \in Orders : Requests[o] \subseteq DraftRequests
  /\ Adjustments \subseteq Int
  /\ Payments \subseteq Nat \ {0}
  /\ Guest \notin Customers
  /\ StockOps \subseteq StockRequests
  /\ GoodsRestocks \subseteq [qty : Nat, cost : Nat]
  /\ GoodsChanges \subseteq Int
  /\ {FlourPerBatch, Minutes, LaborRate} \subseteq Nat
  /\ Batches \subseteq Nat /\ Usages \subseteq Nat /\ EnteredCosts \subseteq Nat
  /\ Unknown \notin Bills /\ Unknown \notin RunSnapshots
  /\ \A s \in Scenarios :
       /\ s.catalogue \in Catalogues
       /\ s.flour \in FlourRows /\ s.goods \in GoodsRows
       /\ s.opened \in BOOLEAN
       /\ ~s.opened => s.flour.qty = 0

VARIABLES
  catalogue,     \* the Selling Option of bread
  bill,          \* orders, order_lines: what is charged; Unknown before and after
  paid,          \* SUM(payments.amount)
  acknowledged,  \* history: the overpayment a person confirmed
  ledger,        \* order_cost_allocations, in cents
  closedOn,      \* the business-local day of completion or cancelation
  lotCost,       \* surplus_inventory: unit cost, and cost taken over from its run
  capitalised,   \* history: cents of the runs that produced something
  runCost,       \* production_runs, production_run_ingredients: the snapshot of Start
  flour,         \* the ingredients row
  opened,        \* flour has an inventory_transactions row
  pending,       \* requests about flour, between their read and their commit
  goods,         \* the purchased_product_inventory row of cups
  moved,         \* SUM(quantity_change) of both stock ledgers
  prices,        \* history: the unit costs entered for either stock
  left           \* how much more may happen, by kind

billVars == <<bill, paid, acknowledged>>
costVars == <<ledger, lotCost, capitalised, runCost>>
flourVars == <<flour, opened, pending>>
historyVars == <<moved, prices>>
bookVars == <<catalogue, billVars, costVars, closedOn, flourVars, goods, historyVars, left>>
booksVars == <<vars, bookVars>>

CostRows ==
  {<<"PRODUCTION", "bread">>, <<"SURPLUS", "bread">>, <<"PACKAGING", "bread">>,
   <<"PURCHASED_GOOD", "cups">>, <<"PACKAGING", "cups">>,
   <<"PACKAGING", "cake">>, <<"CUSTOM_DIRECT", "cake">>}

NoCost == [unit |-> 0, basis |-> 0]

Total(b) == FinalTotal(b.lines, b.adjustment, b.tax)
Overpayment(b, p) == IF p > Total(b) THEN p - Total(b) ELSE 0

(* Bounds the behaviours: `left` says how much more of each kind happens.    *)
Spend(kind) == left[kind] > 0 /\ left' = [left EXCEPT ![kind] = @ - 1]

BooksInit ==
  /\ Init
  /\ bill = [o \in Orders |-> Unknown]
  /\ paid = [o \in Orders |-> 0]
  /\ acknowledged = [o \in Orders |-> 0]
  /\ ledger = [o \in Orders |-> [k \in CostRows |-> 0]]
  /\ closedOn = [o \in Orders |-> 0]
  /\ lotCost = [l \in Lots |-> NoCost]
  /\ capitalised = 0
  /\ runCost = [r \in Runs |-> Unknown]
  /\ pending = [c \in Clerks |-> Unknown]
  /\ \E s \in Scenarios :
       /\ qty = s.qty /\ rest = s.rest
       /\ catalogue = s.catalogue
       /\ flour = s.flour
       /\ opened = s.opened
       /\ goods = s.goods
       /\ prices = [flour |-> IF s.opened THEN {s.flour.wac} ELSE {}, goods |-> {s.goods.wac}]
       /\ moved = [flour |-> s.flour.qty, goods |-> s.goods.qty]
       /\ left = s.left

----------------------------------------------------------------------------
(* Prices and payments.                                                     *)

(* What is charged must fit its columns, and an Order never costs less than  *)
(* nothing.                                                                 *)
Chargeable(b) ==
  /\ FitsMoney(Total(b) - b.adjustment - b.tax)
  /\ \A k \in DOMAIN b.lines : FitsMoney(Subtotal(b.lines[k]))
  /\ Total(b) >= 0
  /\ FitsMoney(Total(b))

(* The fault of an edit that does not look at what was already paid.        *)
AcceptedUnseen(b, p, confirm) == TRUE

(* The total may fall below what was paid only if the seller confirms it.    *)
Accepted(b, p, confirm) == p > Total(b) => confirm

Acknowledging(o, b, p, confirm) ==
  acknowledged' = [acknowledged EXCEPT ![o] =
    IF confirm THEN Overpayment(b, p) ELSE MinOf(@, Overpayment(b, p))]

NewLines(o, packages, price) ==
  [k \in LineKeys(o) |->
     IF k = "bread"
     THEN OptionLine(catalogue, packages, IF price = Unknown THEN catalogue.price ELSE price)
     ELSE Extras[k]]

(* An edit of the bread: its quantity, its price, or both; a price alone     *)
(* leaves the quantity columns as they are.                                 *)
EditedLine(line, packages, price) ==
  LET agreed == IF price = Unknown THEN line.price ELSE price
  IN  IF packages = line.packages THEN [line EXCEPT !.price = agreed]
      ELSE Rescaled(catalogue, line, packages, agreed)

Edited(o, packages, price, adjustment) ==
  [bill[o] EXCEPT !.lines["bread"] = EditedLine(@, packages, price),
                  !.adjustment = adjustment]

WriteDraft(o, req, confirm) ==
  LET new == [lines |-> NewLines(o, req.packages, req.price), adjustment |-> req.adjustment,
              tax |-> req.tax, customer |-> req.customer, direct |-> req.direct]
  IN  /\ status[o] = "DRAFT" /\ bill[o] = Unknown
      /\ Spend("order")
      /\ Chargeable(new)
      /\ Accepted(new, req.payment, confirm)
      /\ bill' = [bill EXCEPT ![o] = new]
      /\ paid' = [paid EXCEPT ![o] = req.payment]
      /\ Acknowledging(o, new, req.payment, confirm)
      /\ UNCHANGED <<vars, catalogue, costVars, closedOn, flourVars, goods, historyVars>>

(* What every edit of an existing Order does to its bill.                    *)
Rewrite(o, new, confirm) ==
  /\ Spend("bill")
  /\ Chargeable(new)
  /\ Accepted(new, paid[o], confirm)
  /\ bill' = [bill EXCEPT ![o] = new]
  /\ Acknowledging(o, new, paid[o], confirm)
  /\ UNCHANGED <<paid, catalogue, costVars, closedOn, flourVars, goods, historyVars>>

(* A draft may also drop its line for a new one, from today's catalogue.     *)
ReviseDraft(o, packages, price, adjustment, replace, confirm) ==
  /\ status[o] = "DRAFT" /\ bill[o] # Unknown
  /\ Rewrite(o, IF replace
                THEN [bill[o] EXCEPT !.lines = NewLines(o, packages, price),
                                     !.adjustment = adjustment]
                ELSE Edited(o, packages, price, adjustment), confirm)
  /\ UNCHANGED vars

(* Deleting a draft deletes its payments; the seller confirms that.         *)
DropDraft(o, confirm) ==
  /\ status[o] = "DRAFT" /\ bill[o] # Unknown
  /\ paid[o] > 0 => confirm
  /\ Spend("bill")
  /\ bill' = [bill EXCEPT ![o] = Unknown]
  /\ paid' = [paid EXCEPT ![o] = 0]
  /\ acknowledged' = [acknowledged EXCEPT ![o] = 0]
  /\ UNCHANGED <<vars, catalogue, costVars, closedOn, flourVars, goods, historyVars>>

Pay(o, amount, confirm) ==
  /\ bill[o] # Unknown
  /\ status[o] # "CANCELED"
  /\ Accepted(bill[o], paid[o] + amount, confirm)
  /\ Spend("bill")
  /\ paid' = [paid EXCEPT ![o] = @ + amount]
  /\ Acknowledging(o, bill[o], paid[o] + amount, confirm)
  /\ UNCHANGED <<vars, bill, catalogue, costVars, closedOn, flourVars, goods, historyVars>>

BookConfirm(o) ==
  /\ bill[o] # Unknown
  /\ bill[o].lines["bread"].units = qty[o]
  /\ Spend("order")
  /\ Confirm(o)
  /\ UNCHANGED <<catalogue, billVars, costVars, closedOn, flourVars, goods, historyVars>>

(* An edit of a CONFIRMED Order that changes its demand.                    *)
Revise(o, packages, d, price, adjustment, confirm) ==
  LET new == Edited(o, packages, price, adjustment)
  IN  /\ Edit(o, new.lines["bread"].units, d)
      /\ Rewrite(o, new, confirm)

(* An edit of a CONFIRMED Order that changes money only recalculates nothing. *)
Reprice(o, price, adjustment, confirm) ==
  /\ status[o] = "CONFIRMED"
  /\ Rewrite(o, Edited(o, bill[o].lines["bread"].packages, price, adjustment), confirm)
  /\ UNCHANGED vars

ChangeCatalogue(option) ==
  /\ option # catalogue
  /\ Spend("bill")
  /\ catalogue' = option
  /\ UNCHANGED <<vars, billVars, costVars, closedOn, flourVars, goods, historyVars>>

----------------------------------------------------------------------------
(* Stock.  An ordinary request about flour is not locked: it computes from   *)
(* the row it read, and its UPDATE names the version it read.               *)

Restocked(row, p) ==
  [row EXCEPT !.qty = @ + p.qty, !.wac = WeightedAverage(row.qty, row.wac, p), !.latest = p.cost]

(* The row a request leaves, and the quantity_change it records.            *)
Outcome(op, row) ==
  CASE op.kind = "restock" -> Restocked(row, Normalized(op))
    [] op.kind = "adjust" -> [row EXCEPT !.qty = @ + op.change]
    [] op.kind = "replacement" -> [row EXCEPT !.repl = op.cost]

(* The costs that enter the average: what was paid, and the zero of flour    *)
(* that was counted before any was bought.                                  *)
Entered(op, row) ==
  CASE op.kind = "restock" -> {Normalized(op).cost}
    [] op.kind = "adjust" -> IF prices.flour = {} THEN {row.wac} ELSE {}
    [] OTHER -> {}

(* Bought or adjusted, a quantity must fit its column; a purchase must not   *)
(* vanish in the conversion of its unit.                                    *)
Storable(op, row) ==
  /\ FitsAmount(Outcome(op, row).qty)
  /\ op.kind = "restock" => Normalized(op).qty > 0

BeginStock(c, op) ==
  /\ pending[c] = Unknown
  /\ Storable(op, flour)
  /\ Spend("stock")
  /\ pending' = [pending EXCEPT ![c] = [op |-> op, row |-> flour]]
  /\ UNCHANGED <<vars, catalogue, billVars, costVars, closedOn, flour, opened, goods, historyVars>>

(* The fault of an UPDATE that does not name the version it read.           *)
AnyRow(read, row) == TRUE

SameRow(read, row) == read.version = row.version

(* A request whose row has changed ends with 409 and changes nothing.       *)
CommitStock(c) ==
  LET req == pending[c]
      new == Outcome(req.op, req.row)
  IN  /\ req # Unknown
      /\ pending' = [pending EXCEPT ![c] = Unknown]
      /\ IF SameRow(req.row, flour)
         THEN /\ flour' = [new EXCEPT !.version = flour.version + 1]
              /\ opened' = (opened \/ req.op.kind # "replacement")
              /\ moved' = [moved EXCEPT !.flour = @ + new.qty - req.row.qty]
              /\ prices' = [prices EXCEPT !.flour = @ \cup Entered(req.op, req.row)]
         ELSE UNCHANGED <<flour, opened, historyVars>>
      /\ UNCHANGED <<vars, catalogue, billVars, costVars, closedOn, goods, left>>

(* The first balance of flour, once: the row is locked, and no transaction   *)
(* may precede it.  It is no purchase.                                      *)
OpenBalance(p) ==
  /\ ~opened
  /\ Spend("stock")
  /\ flour' = [flour EXCEPT !.qty = Normalized(p).qty, !.wac = Normalized(p).cost,
                            !.version = @ + 1]
  /\ opened' = TRUE
  /\ moved' = [moved EXCEPT !.flour = @ + Normalized(p).qty]
  /\ prices' = [prices EXCEPT !.flour = @ \cup {Normalized(p).cost}]
  /\ UNCHANGED <<vars, catalogue, billVars, costVars, closedOn, pending, goods>>

(* Cups are bought and counted under the lock of their row.  Readiness of    *)
(* the Orders that want cups follows as a RestChange.                       *)
RestockGoods(p) ==
  /\ Spend("stock")
  /\ FitsAmount(goods.qty + p.qty)
  /\ goods' = Restocked(goods, p)
  /\ moved' = [moved EXCEPT !.goods = @ + p.qty]
  /\ prices' = [prices EXCEPT !.goods = @ \cup {p.cost}]
  /\ UNCHANGED <<vars, catalogue, billVars, costVars, closedOn, flourVars>>

AdjustGoods(change) ==
  /\ Spend("stock")
  /\ goods.qty + change >= 0
  /\ goods' = [goods EXCEPT !.qty = @ + change]
  /\ moved' = [moved EXCEPT !.goods = @ + change]
  /\ UNCHANGED <<vars, catalogue, billVars, costVars, closedOn, flourVars, prices>>

----------------------------------------------------------------------------
(* Production.                                                              *)

(* The flour in so many batches of bread.                                   *)
FlourOf(batches) == Scaled(FlourPerBatch, batches)

(* A run captures what its flour is expected to cost, and where that comes   *)
(* from; without a cost it cannot start.                                    *)
BookStart(r, d, batches) ==
  /\ PlannedUnitCost(flour) # Unknown
  /\ Spend("run")
  /\ Start(r, d)
  /\ runCost' = [runCost EXCEPT ![r] =
       [batches |-> batches, flour |-> FlourOf(batches),
        unit |-> PlannedUnitCost(flour),
        source |-> IF flour.qty > 0 THEN "WAC" ELSE "FALLBACK",
        labor |-> LaborCost(batches, Minutes, LaborRate)]]
  /\ UNCHANGED <<catalogue, billVars, ledger, lotCost, capitalised, closedOn, flourVars,
                 goods, historyVars>>

(* The Orders that got output, soonest deadline first: the direct recipients *)
(* of the cost.                                                             *)
Served(share) == InDeadlineOrder({o \in Orders : share.given[o] > 0}, due)

Weights(share) ==
  LET direct == [i \in DOMAIN Served(share) |-> share.given[Served(share)[i]]]
  IN  IF share.left > 0 THEN Append(direct, share.left) ELSE direct

(* What each Order bears of the cents of those served.                      *)
Burden(served, cents) ==
  [o \in Orders |-> Over({i \in DOMAIN served : served[i] = o}, LAMBDA i : cents[i])]

(* The flour used is what was planned, unless the seller reports another     *)
(* amount; its price is the one captured at the start.  Nothing stops the    *)
(* balance from falling below zero.                                         *)
ActualCost(r, used) == used * runCost[r].unit + runCost[r].labor

BookFinish(r, out, used) ==
  LET share == SharedOut(out)
      cost == ActualCost(r, used)
      cents == Apportioned(cost, Weights(share))
  IN  /\ Finish(r, out)
      /\ flour' = [flour EXCEPT !.qty = @ - used, !.version = @ + 1]
      /\ moved' = [moved EXCEPT !.flour = @ - used]
      /\ capitalised' = capitalised + IF out > 0 THEN Cents(cost) ELSE 0
      /\ ledger' = [o \in Orders |->
                      [ledger[o] EXCEPT ![<<"PRODUCTION", "bread">>] =
                         @ + Burden(Served(share), cents)[o]]]
      /\ lotCost' = IF share.left = 0 THEN lotCost
                    ELSE [lotCost EXCEPT ![NextLot(lot)] =
                            [unit |-> RoundDiv(cost, out), basis |-> cents[Len(cents)]]]
      /\ opened' = TRUE
      /\ UNCHANGED <<catalogue, billVars, runCost, closedOn, pending, goods, prices, left>>

BookCancelRun(r) == CancelRun(r) /\ UNCHANGED bookVars

BookSurplus(n, until, unit) ==
  /\ Spend("surplus")
  /\ CreateSurplus(n, until)
  /\ lotCost' = [lotCost EXCEPT ![NextLot(lot)] = [unit |-> unit, basis |-> 0]]
  /\ UNCHANGED <<catalogue, billVars, ledger, capitalised, runCost, closedOn, flourVars,
                 goods, historyVars>>

BookReduction(l, n) ==
  /\ Spend("surplus")
  /\ ReduceSlack(l, n) \/ ReducePromised(l, n)
  /\ UNCHANGED <<catalogue, billVars, costVars, closedOn, flourVars, goods, historyVars>>

----------------------------------------------------------------------------
(* The end of an Order.                                                     *)

(* The fault of booking the day an Order was due.                           *)
ClosedWhenDue(o) == closedOn' = [closedOn EXCEPT ![o] = due[o]]

(* Stamped with the day it ends.                                            *)
ClosedNow(o) == closedOn' = [closedOn EXCEPT ![o] = today]

BookCancel(o) ==
  /\ Cancel(o)
  /\ ClosedNow(o)
  /\ UNCHANGED <<catalogue, billVars, costVars, flourVars, goods, historyVars, left>>

CupsOf(o) == IF "cups" \in DOMAIN bill[o].lines THEN bill[o].lines["cups"].units ELSE 0

(* The fault of trusting READY for what is physically there.                *)
ReadyMeansThere(o) == TRUE

(* What is promised is counted again.                                       *)
CupsSuffice(o) == CupsOf(o) <= goods.qty

(* The Surplus promised to an Order, at what its lots cost.                 *)
SurplusCost(o) ==
  Over({l \in Lots : alloc[l][o] > 0}, LAMBDA l : Cents(alloc[l][o] * lotCost[l].unit))

(* What completion adds to row k of the cost ledger of an Order.            *)
CompletionCost(o, k) ==
  LET b == bill[o]
  IN  IF k[2] \notin DOMAIN b.lines THEN 0
      ELSE CASE k[1] = "PRODUCTION" -> 0
             [] k[1] = "SURPLUS" -> SurplusCost(o)
             [] k[1] = "PACKAGING" -> PackagingTotal(b.lines[k[2]])
             [] k[1] = "PURCHASED_GOOD" -> Cents(CupsOf(o) * goods.wac)
             [] k[1] = "CUSTOM_DIRECT" -> IF b.direct = Unknown THEN 0 ELSE b.direct

(* Goods leave stock at their average cost, which stays what it was.        *)
BookComplete(o) ==
  /\ CompleteOrder(o)
  /\ CupsSuffice(o)
  /\ ClosedNow(o)
  /\ ledger' = [ledger EXCEPT ![o] = [k \in CostRows |-> @[k] + CompletionCost(o, k)]]
  /\ goods' = [goods EXCEPT !.qty = @ - CupsOf(o)]
  /\ moved' = [moved EXCEPT !.goods = @ - CupsOf(o)]
  /\ UNCHANGED <<catalogue, billVars, lotCost, capitalised, runCost, flourVars, prices, left>>

BookRest(o) ==
  /\ Spend("order")
  /\ RestChange(o)
  /\ UNCHANGED <<catalogue, billVars, costVars, closedOn, flourVars, goods, historyVars>>

BookDay == Spend("day") /\ AdvanceDay
           /\ UNCHANGED <<catalogue, billVars, costVars, closedOn, flourVars, goods, historyVars>>

----------------------------------------------------------------------------
Asked == Overrides \cup {Unknown}  \* a price by hand, or none

Selling(o) ==
  \/ \E req \in Requests[o], c \in BOOLEAN : WriteDraft(o, req, c)
  \/ \E n \in Packages, p \in Asked, a \in Adjustments, r, c \in BOOLEAN :
       ReviseDraft(o, n, p, a, r, c)
  \/ \E n \in Packages, p \in Asked, a \in Adjustments, d \in Dates, c \in BOOLEAN :
       Revise(o, n, d, p, a, c)
  \/ \E p \in Asked, a \in Adjustments, c \in BOOLEAN : Reprice(o, p, a, c)
  \/ \E a \in Payments, c \in BOOLEAN : Pay(o, a, c)
  \/ \E c \in BOOLEAN : DropDraft(o, c)
  \/ BookConfirm(o)
  \/ BookCancel(o)
  \/ BookComplete(o)
  \/ BookRest(o)

Stocking ==
  \/ \E c \in Clerks, op \in StockOps : BeginStock(c, op)
  \/ \E c \in Clerks : CommitStock(c)
  \/ \E op \in StockOps : op.kind = "restock" /\ OpenBalance(op)
  \/ \E p \in GoodsRestocks : RestockGoods(p)
  \/ \E n \in GoodsChanges : AdjustGoods(n)

Baking ==
  \/ \E r \in Runs, d \in Dates, n \in Batches : BookStart(r, d, n)
  \/ \E r \in Runs, out \in Outputs :
       \E used \in Usages \cup {IF runCost[r] = Unknown THEN 0 ELSE runCost[r].flour} :
         runState[r] = "IN_PRODUCTION" /\ BookFinish(r, out, used)
  \/ \E r \in Runs : BookCancelRun(r)
  \/ \E n \in Outputs, u \in Expiries, c \in EnteredCosts : BookSurplus(n, u, c)
  \/ \E l \in Lots, n \in Outputs : BookReduction(l, n)

BooksNext ==
  \/ \E o \in Orders : Selling(o)
  \/ Stocking
  \/ Baking
  \/ \E option \in Catalogues : ChangeCatalogue(option)
  \/ BookDay

BooksSpec == BooksInit /\ [][BooksNext]_booksVars
----------------------------------------------------------------------------
BooksTypeOK ==
  /\ catalogue \in Catalogues
  /\ \A o \in Orders : bill[o] # Unknown =>
       /\ DOMAIN bill[o].lines = LineKeys(o)
       /\ Chargeable(bill[o])
  /\ \A o \in Orders : bill[o] = Unknown => paid[o] = 0 /\ status[o] = "DRAFT"
  /\ \A o \in Orders : status[o] # "DRAFT" => bill[o].lines["bread"].units = qty[o]
  /\ \A o \in Orders, k \in CostRows : ledger[o][k] \in Nat
  /\ \A o \in Orders : closedOn[o] > 0 <=> status[o] \in {"COMPLETED", "CANCELED"}
  /\ \A l \in Lots : lotCost[l].unit \in Nat /\ lotCost[l].basis \in Nat
  /\ \A r \in Runs : runState[r] # "FREE" <=> runCost[r] # Unknown
  /\ flour.qty \in Int /\ flour.wac \in Nat
  /\ goods.qty \in Nat /\ goods.wac \in Nat

(* The balance of a stock is the sum of its ledger: no purchase, count, run  *)
(* or fulfilment is lost to another that was computed at the same time.     *)
BalanceIsLedgerSum == moved.flour = flour.qty /\ moved.goods = goods.qty

(* However often a stock is bought, used up, counted and overdrawn, what a   *)
(* unit of it is said to cost lies between the costs that were entered.     *)
CostBetweenPrices ==
  \A s \in {<<flour, prices.flour>>, <<goods, prices.goods>>} :
    s[2] # {} => /\ \E p \in s[2] : p <= s[1].wac
                 /\ \E p \in s[2] : s[1].wac <= p

(* Every cent of the runs that produced something is borne by an Order or    *)
(* by a lot, once: none is lost or made up in the rounding.                 *)
RunCostConserved ==
  Over(Orders, LAMBDA o : ledger[o][<<"PRODUCTION", "bread">>])
    + Over(Lots, LAMBDA l : lotCost[l].basis) = capitalised

(* What a run gives to one Order costs at most a cent more than a larger    *)
(* share of the same run costs another.  That cent is real: the cents are    *)
(* apportioned over shares that were rounded before, and shares that the     *)
(* rounding made equal are told apart by the deadline.                      *)
CostFollowsGoods ==
  [][LET got(o) == completed'[o] - completed[o]
         bears(o) == ledger'[o][<<"PRODUCTION", "bread">>] - ledger[o][<<"PRODUCTION", "bread">>]
     IN  \A o, u \in Orders : got(o) > got(u) => bears(o) + 1 >= bears(u)]_booksVars

(* Nobody has paid more than is asked unless a person confirmed exactly that *)
(* much: not after edits, payments and repricings in any order.             *)
OverpaymentAcknowledged ==
  \A o \in Orders :
    bill[o] # Unknown /\ Overpayment(bill[o], paid[o]) > 0 =>
      acknowledged[o] = Overpayment(bill[o], paid[o])

(* A change of the catalogue never reaches an Order that was agreed before:  *)
(* after confirmation its price moves only to one entered by hand, and a    *)
(* package stays what it was and is packed for what it was.                 *)
CatalogueDoesNotLeak ==
  [][\A o \in Orders : status[o] # "DRAFT" =>
       LET old == bill[o].lines["bread"]
           new == bill'[o].lines["bread"]
       IN  /\ new.price \in {old.price} \cup Overrides
           /\ new.packaging = old.packaging
           /\ new.units * old.packages = old.units * new.packages]_booksVars
============================================================================
