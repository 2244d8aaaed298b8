---------------------------- MODULE BooksProofs ----------------------------
(***************************************************************************)
(* What holds of the books for any catalogue, any prices and any number of  *)
(* Orders, runs and clerks.                                                 *)
(*                                                                         *)
(* Three invariants carry the proofs.  BillInv says what the bill of an Order *)
(* looks like: above all, that its line of bread holds a whole number of    *)
(* the same package.  StockInv ties what a request read before it commits   *)
(* to the row it will find, by the version of the row, and the average cost  *)
(* of a stock to the costs that were entered for it.  FlowInv ties the bills *)
(* to Production: what is charged for after confirmation is what is made.    *)
(***************************************************************************)
EXTENDS Books, ProductionProofs

----------------------------------------------------------------------------
(* Arithmetic.                                                              *)

(* A quotient is the last multiple that fits.                               *)
LEMMA QuotientBounds ==
  ASSUME NEW a \in Int, NEW b \in Nat \ {0}
  PROVE  /\ a \div b \in Int
         /\ (a \div b) * b <= a
         /\ a < (a \div b) * b + b
  OBVIOUS

(* Order is kept by multiplication with a number that is not negative.      *)
LEMMA ProductOrder ==
  ASSUME NEW a \in Int, NEW b \in Int, NEW n \in Nat, a <= b
  PROVE  a * n <= b * n
<1>1. (b - a) * n >= 0
  OBVIOUS
<1>2. (b - a) * n = b * n - a * n
  OBVIOUS
<1> QED
  BY <1>1, <1>2

(* A multiple that does not exceed a number that reaches the next one...     *)
LEMMA MultiplesApart ==
  ASSUME NEW a \in Int, NEW b \in Int, NEW n \in Nat \ {0}, a * n < b * n
  PROVE  a < b
<1>1. CASE b <= a
  BY <1>1, ProductOrder
<1> QED
  BY <1>1

(* Rounding stays between two numbers the quotient lies between.            *)
LEMMA RoundDivBetween ==
  ASSUME NEW a \in Int, NEW b \in Nat \ {0}, NEW lo \in Int, NEW hi \in Int,
         lo * b <= a, a <= hi * b
  PROVE  RoundDiv(a, b) \in Int /\ lo <= RoundDiv(a, b) /\ RoundDiv(a, b) <= hi
<1> DEFINE c == 2 * b
           q == (2 * a + b) \div c
<1>1. c \in Nat \ {0} /\ 2 * a + b \in Int
  OBVIOUS
<1>2. q \in Int /\ q * c <= 2 * a + b /\ 2 * a + b < q * c + c
  <2> HIDE DEF c
  <2> QED
    BY <1>1, QuotientBounds
<1>3. RoundDiv(a, b) = q
  BY DEF RoundDiv
<1>4. /\ lo * c = 2 * (lo * b) /\ hi * c = 2 * (hi * b)
      /\ (q + 1) * c = q * c + c /\ (hi + 1) * c = hi * c + c
  BY <1>2
<1>5. lo * c < (q + 1) * c
  BY <1>1, <1>2, <1>4
<1>6. q * c < (hi + 1) * c
  BY <1>1, <1>2, <1>4
<1> HIDE DEF c, q
<1>7. lo < q + 1 /\ q < hi + 1
  BY <1>1, <1>2, <1>5, <1>6, MultiplesApart
<1> QED
  BY <1>2, <1>3, <1>7

(* A share of a whole number of packages is a whole number of packages.      *)
LEMMA ExactQuotient ==
  ASSUME NEW n \in Nat, NEW k \in Nat, NEW m \in Nat \ {0}
  PROVE  (n * (m * k)) \div m = n * k
<1> DEFINE q == (n * (m * k)) \div m
<1>1. n * (m * k) = (n * k) * m /\ n * (m * k) \in Int
  OBVIOUS
<1>2. q \in Int /\ q * m <= (n * k) * m /\ (n * k) * m < q * m + m
  BY <1>1, QuotientBounds
<1>3. q * m + m = (q + 1) * m
  BY <1>2
<1>4. q * m < (n * k + 1) * m
  <2>1. (n * k + 1) * m = (n * k) * m + m
    OBVIOUS
  <2> QED
    BY <1>2, <2>1
<1> HIDE DEF q
<1>5. n * k < q + 1 /\ q < n * k + 1
  BY <1>2, <1>3, <1>4, MultiplesApart
<1> QED
  BY <1>2, <1>5 DEF q

(* An average lies between any two numbers that both costs lie between.      *)
LEMMA AverageBetween ==
  ASSUME NEW q \in Int, NEW wac \in Nat, NEW p, p.qty \in Nat, p.cost \in Nat,
         NEW lo \in Int, NEW hi \in Int,
         q > 0 => lo <= wac /\ wac <= hi, lo <= p.cost, p.cost <= hi
  PROVE  /\ WeightedAverage(q, wac, p) \in Int
         /\ lo <= WeightedAverage(q, wac, p)
         /\ WeightedAverage(q, wac, p) <= hi
<1>1. CASE q <= 0
  BY <1>1 DEF WeightedAverage
<1>2. CASE q > 0
  <2> DEFINE n == p.qty
             c == p.cost
             a == q * wac + n * c
  <2>1. q \in Nat /\ q + n \in Nat \ {0}
    BY <1>2
  <2>2. lo * q <= wac * q /\ wac * q <= hi * q
    BY <1>2, <2>1, ProductOrder
  <2>3. lo * n <= c * n /\ c * n <= hi * n
    BY ProductOrder
  <2>4. /\ lo * (q + n) = lo * q + lo * n
        /\ hi * (q + n) = hi * q + hi * n
        /\ a = wac * q + c * n
    OBVIOUS
  <2>5. a \in Int /\ lo * (q + n) <= a /\ a <= hi * (q + n)
    <3> DEFINE lq == lo * q
               wq == wac * q
               hq == hi * q
               ln == lo * n
               cn == c * n
               hn == hi * n
    <3>1. lq \in Int /\ wq \in Int /\ hq \in Int /\ ln \in Int /\ cn \in Int /\ hn \in Int
      OBVIOUS
    <3>2. lq <= wq /\ wq <= hq /\ ln <= cn /\ cn <= hn
      BY <2>2, <2>3
    <3>3. lo * (q + n) = lq + ln /\ hi * (q + n) = hq + hn /\ a = wq + cn
      BY <2>4
    <3> HIDE DEF lq, wq, hq, ln, cn, hn, a
    <3>4. lq + ln <= wq + cn /\ wq + cn <= hq + hn /\ wq + cn \in Int
      BY <3>1, <3>2
    <3> QED
      BY <3>3, <3>4
  <2>6. WeightedAverage(q, wac, p) = RoundDiv(a, q + n)
    BY <1>2 DEF WeightedAverage
  <2> HIDE DEF a, n, c
  <2> QED
    BY <2>1, <2>5, <2>6, RoundDivBetween DEF n, c
<1> QED
  BY <1>1, <1>2

(* The unit of a purchase costs something, or nothing, but never less.      *)
LEMMA NormalizedTypes ==
  ASSUME NEW p, p.qty \in Nat, p.cost \in Nat, p.factor \in Nat \ {0}
  PROVE  Normalized(p).qty \in Nat /\ Normalized(p).cost \in Nat
<1>1. p.cost <= p.cost * p.factor /\ 0 * p.factor <= p.cost
  <2>1. 1 <= p.factor
    OBVIOUS
  <2>2. 1 * p.cost <= p.factor * p.cost
    BY <2>1, ProductOrder
  <2> QED
    BY <2>2
<1>2. RoundDiv(p.cost, p.factor) \in Nat
  BY <1>1, RoundDivBetween
<1>3. p.qty * p.factor \in Nat
  OBVIOUS
<1> QED
  BY <1>2, <1>3 DEF Normalized

----------------------------------------------------------------------------
(* What a bill looks like.                                                  *)

(* So many packages, all of them what some option once was.                 *)
Packed(line) ==
  /\ line \in BillLines
  /\ \E option \in Catalogues : line.units = line.packages * option.units

Shaped(o, b) ==
  /\ b \in Bills
  /\ b.lines \in [LineKeys(o) -> BillLines]
  /\ Packed(b.lines["bread"])
  /\ Chargeable(b)

BillInv ==
  /\ catalogue \in Catalogues
  /\ DOMAIN status = Orders
  /\ bill = [o \in Orders |-> bill[o]]
  /\ paid = [o \in Orders |-> paid[o]]
  /\ acknowledged = [o \in Orders |-> acknowledged[o]]
  /\ \A o \in Orders : bill[o] # Unknown \/ status[o] # "DRAFT" => Shaped(o, bill[o])
  /\ \A o \in Orders : bill[o] = Unknown => paid[o] = 0

(* A line written from the catalogue is made of whole packages.             *)
LEMMA OptionLinePacked ==
  ASSUME NEW option \in Catalogues, NEW n \in Nat \ {0}, NEW price \in Nat
  PROVE  Packed(OptionLine(option, n, price))
<1>1. /\ option \in [price : Nat, units : Nat \ {0}, packaging : Nat]
  BY BooksAssumption
<1>2. n * option.units \in Nat \ {0}
  BY <1>1
<1> QED
  BY <1>1, <1>2 DEF OptionLine, Packed, BillLines

(* Another quantity keeps the package: its size, its packaging and, unless a *)
(* price was entered, its price.                                            *)
LEMMA EditedLineKeeps ==
  ASSUME NEW line, Packed(line), NEW n \in Nat \ {0}, NEW price \in Asked
  PROVE  LET new == EditedLine(line, n, price)
         IN  /\ Packed(new)
             /\ new.price \in {line.price} \cup Overrides
             /\ new.packaging = line.packaging
             /\ new.units * line.packages = line.units * new.packages
<1> DEFINE agreed == IF price = Unknown THEN line.price ELSE price
           new == EditedLine(line, n, price)
<1>1. line \in BillLines
  BY DEF Packed
<1>2. agreed \in {line.price} \cup Overrides
  BY DEF Asked
<1>3. agreed \in Nat
  BY <1>1, <1>2, BooksAssumption DEF BillLines
<1>4. PICK option \in Catalogues : line.units = line.packages * option.units
  BY DEF Packed
<1>7. PICK k \in Nat \ {0} : k = option.units
  BY BooksAssumption
<1> HIDE DEF agreed
<1>5. CASE n = line.packages
  <2>1. new = [line EXCEPT !.price = agreed]
    BY <1>5 DEF EditedLine, agreed
  <2>2. /\ new \in BillLines
        /\ new.price = agreed /\ new.packaging = line.packaging
        /\ new.units = line.units /\ new.packages = line.packages
    BY <1>1, <1>3, <2>1 DEF BillLines
  <2> HIDE DEF new
  <2>3. Packed(new)
    BY <1>4, <2>2 DEF Packed
  <2> QED
    BY <1>2, <2>2, <2>3 DEF new
<1>6. CASE n # line.packages
  <2>1. new = Rescaled(catalogue, line, n, agreed)
    BY <1>6 DEF EditedLine, agreed
  <2>2. line.packages \in Nat \ {0}
    BY <1>1 DEF BillLines
  <2>3. (n * line.units) \div line.packages = n * k
    BY <1>4, <1>7, <2>2, ExactQuotient
  <2>4. n * k \in Nat \ {0}
    OBVIOUS
  <2>5. /\ new = [packages |-> n, units |-> n * k, price |-> agreed,
                  packaging |-> line.packaging]
    BY <2>1, <2>3 DEF Rescaled
  <2>6. new \in BillLines
    BY <1>1, <1>3, <2>4, <2>5 DEF BillLines
  <2>7. new.units * line.packages = line.units * new.packages
    <3>1. (n * k) * line.packages = (line.packages * k) * n
      BY <2>2
    <3> QED
      BY <1>4, <1>7, <2>5, <3>1
  <2> HIDE DEF new
  <2>8. Packed(new)
    BY <1>7, <2>5, <2>6 DEF Packed
  <2> QED
    BY <1>2, <2>5, <2>7, <2>8 DEF new
<1> QED
  BY <1>5, <1>6

----------------------------------------------------------------------------
(* Nothing but a confirmation makes a draft anything else.                  *)

Steady ==
  /\ DOMAIN status' = Orders
  /\ \A o \in Orders : status'[o] # "DRAFT" => status[o] # "DRAFT" \/ bill[o] # Unknown

(* The evaluation of readiness moves no draft.                              *)
LEMMA EvaluatedKeepsDrafts ==
  ASSUME NEW st, NEW q, NEW comp, NEW al, NEW rs
  PROVE  /\ DOMAIN Evaluated(st, q, comp, al, rs) = Orders
         /\ \A o \in Orders : Evaluated(st, q, comp, al, rs)[o] # "DRAFT" => st[o] # "DRAFT"
  BY DEF Evaluated, Live

(* So the end of a workflow moves none.                                     *)
LEMMA SettleKeepsDrafts ==
  ASSUME NEW st, NEW q, NEW d, NEW comp, NEW lt, NEW al, NEW fz, NEW act, NEW impaired,
         Settle(st, q, d, comp, lt, al, fz, act, impaired)
  PROVE  /\ DOMAIN status' = Orders
         /\ \A o \in Orders : status'[o] # "DRAFT" => st[o] # "DRAFT"
<1>1. PICK al2 : status' = Evaluated(st, q, comp, al2, rest)
  BY DEF Settle
<1> QED
  BY <1>1, EvaluatedKeepsDrafts

(* The operations of Production, as far as drafts go.                       *)
LEMMA ProductionKeepsDrafts ==
  ASSUME DOMAIN status = Orders, NEW o \in Orders
  PROVE  /\ \A n, d : Edit(o, n, d) => Steady
         /\ Confirm(o) /\ bill[o] # Unknown => Steady
         /\ Cancel(o) => Steady
         /\ CompleteOrder(o) => Steady
         /\ RestChange(o) => Steady
<1>1. ASSUME NEW n, NEW d, Edit(o, n, d) PROVE Steady
  <2>1. Settle(status, [qty EXCEPT ![o] = n], [due EXCEPT ![o] = d], completed, lot, alloc,
               frozen, Activity, {})
    BY <1>1 DEF Edit
  <2> QED
    BY <2>1, SettleKeepsDrafts DEF Steady
<1>2. ASSUME Confirm(o), bill[o] # Unknown PROVE Steady
  <2> DEFINE st == [status EXCEPT ![o] = "CONFIRMED"]
  <2>1. Settle(st, qty, due, completed, lot, alloc, frozen, Activity, {})
    BY <1>2 DEF Confirm
  <2>2. \A u \in Orders : st[u] # "DRAFT" => u = o \/ status[u] # "DRAFT"
    OBVIOUS
  <2> HIDE DEF st
  <2> QED
    BY <1>2, <2>1, <2>2, SettleKeepsDrafts DEF Steady
<1>3. ASSUME Cancel(o) PROVE Steady
  <2> DEFINE st == [status EXCEPT ![o] = "CANCELED"]
  <2>1. /\ Settle(st, qty, due, completed, lot, alloc, frozen, Activity, {})
        /\ status[o] # "DRAFT"
    BY <1>3 DEF Cancel, Live
  <2>2. \A u \in Orders : st[u] # "DRAFT" => u = o \/ status[u] # "DRAFT"
    OBVIOUS
  <2> HIDE DEF st
  <2> QED
    BY <2>1, <2>2, SettleKeepsDrafts DEF Steady
<1>4. ASSUME CompleteOrder(o) PROVE Steady
  <2> DEFINE st == [status EXCEPT ![o] = "COMPLETED"]
             al == [l \in Lots |-> [alloc[l] EXCEPT ![o] = 0]]
  <2>1. /\ Settle(st, qty, due, completed, Consumed(o), al, frozen, Activity, {})
        /\ status[o] # "DRAFT"
    BY <1>4 DEF CompleteOrder
  <2>2. \A u \in Orders : st[u] # "DRAFT" => u = o \/ status[u] # "DRAFT"
    OBVIOUS
  <2> HIDE DEF st, al
  <2> QED
    BY <2>1, <2>2, SettleKeepsDrafts DEF Steady
<1>5. ASSUME RestChange(o) PROVE Steady
  <2>1. PICK rs : status' = Evaluated(status, qty, completed, alloc, rs)
    BY <1>5 DEF RestChange
  <2> QED
    BY <2>1, EvaluatedKeepsDrafts DEF Steady
<1> QED
  BY <1>1, <1>2, <1>3, <1>4, <1>5

(* The operations on runs and lots, likewise.                               *)
LEMMA BakingKeepsDrafts ==
  ASSUME DOMAIN status = Orders
  PROVE  /\ \A r, d : Start(r, d) => Steady
         /\ \A r, out : Finish(r, out) => Steady
         /\ \A r : CancelRun(r) => Steady
         /\ \A n, until : CreateSurplus(n, until) => Steady
         /\ \A l, n : ReduceSlack(l, n) => Steady
         /\ \A l, n : ReducePromised(l, n) => Steady
<1>1. ASSUME NEW r, NEW d, Start(r, d) PROVE Steady
  BY <1>1 DEF Start, orderVars, Steady
<1>2. ASSUME NEW r, NEW out, Finish(r, out) PROVE Steady
  <2>1. PICK comp, lt, act :
          Settle(status, qty, due, comp, lt, alloc, Released(r), act, {})
    BY <1>2 DEF Finish
  <2> QED
    BY <2>1, SettleKeepsDrafts DEF Steady
<1>3. ASSUME NEW r, CancelRun(r) PROVE Steady
  <2>1. Settle(status, qty, due, completed, lot, alloc, Released(r),
               Activity \ {runDate[r]}, {})
    BY <1>3 DEF CancelRun
  <2> QED
    BY <2>1, SettleKeepsDrafts DEF Steady
<1>4. ASSUME NEW n, NEW until, CreateSurplus(n, until) PROVE Steady
  <2>1. Settle(status, qty, due, completed, Shelved(lot, n, until), alloc, frozen, Activity, {})
    BY <1>4 DEF CreateSurplus
  <2> QED
    BY <2>1, SettleKeepsDrafts DEF Steady
<1>5. ASSUME NEW l, NEW n, ReduceSlack(l, n) PROVE Steady
  BY <1>5 DEF ReduceSlack, orderVars, Steady
<1>6. ASSUME NEW l, NEW n, ReducePromised(l, n) PROVE Steady
  <2>1. PICK lt : Settle(status, qty, due, completed, lt, alloc, frozen, Activity, {l})
    BY <1>6 DEF ReducePromised
  <2> QED
    BY <2>1, SettleKeepsDrafts DEF Steady
<1> QED
  BY <1>1, <1>2, <1>3, <1>4, <1>5, <1>6

----------------------------------------------------------------------------
(* What a step does to the bills: nothing, or it writes one Order's bill or  *)
(* payment, looking at what was paid, or it deletes a draft.                *)

Untouched == Steady /\ catalogue' \in Catalogues /\ UNCHANGED billVars

(* A bill keeps what was agreed, or is an edit of it.                       *)
Agreed(o, new) ==
  \/ new = bill[o]
  \/ \E n \in Nat \ {0}, p \in Asked : \E a : new = Edited(o, n, p, a)

Billed(o, new, p, confirm) ==
  /\ Steady /\ catalogue' = catalogue
  /\ Shaped(o, new)
  /\ status[o] # "DRAFT" => Agreed(o, new)
  /\ Accepted(new, p, confirm)
  /\ Acknowledging(o, new, p, confirm)
  /\ bill' = [bill EXCEPT ![o] = new]
  /\ paid' = [paid EXCEPT ![o] = p]

Dropped(o) ==
  /\ status[o] = "DRAFT" /\ status' = status /\ catalogue' = catalogue
  /\ bill' = [bill EXCEPT ![o] = Unknown]
  /\ paid' = [paid EXCEPT ![o] = 0]
  /\ acknowledged' = [acknowledged EXCEPT ![o] = 0]

BillStep ==
  \/ Untouched
  \/ \E o \in Orders : \E new, p, confirm : Billed(o, new, p, confirm)
  \/ \E o \in Orders : Dropped(o)

Relined(b, lines, a) == [b EXCEPT !.lines = lines, !.adjustment = a]

(* Other lines and another adjustment leave the rest of a bill alone.       *)
LEMMA BillFields ==
  ASSUME NEW o \in Orders, NEW b \in Bills, NEW ls, NEW a
  PROVE  /\ Relined(b, ls, a).lines = ls
         /\ ls \in [LineKeys(o) -> BillLines] /\ a \in Int => Relined(b, ls, a) \in Bills
<1>1. PICK new : new = [b EXCEPT !.lines = ls, !.adjustment = a]
  OBVIOUS
<1>2. /\ b = [lines |-> b.lines, adjustment |-> b.adjustment, tax |-> b.tax,
               customer |-> b.customer, direct |-> b.direct]
      /\ b.tax \in Int /\ b.customer \in Customers \cup {Guest}
      /\ b.direct \in Nat \cup {Unknown}
  BY DEF Bills
<1>3. new = [lines |-> ls, adjustment |-> a, tax |-> b.tax, customer |-> b.customer,
             direct |-> b.direct]
  BY <1>1, <1>2
<1>4. ASSUME ls \in [LineKeys(o) -> BillLines], a \in Int PROVE new \in Bills
  <2>1. ls \in UNION {[LineKeys(u1) -> BillLines] : u1 \in Orders}
    BY <1>4
  <2> QED
    BY <1>2, <1>3, <1>4, <2>1 DEF Bills
<1> QED
  BY <1>1, <1>3, <1>4 DEF Relined

(* An edited bill is a bill, if it may be charged.                          *)
LEMMA EditedShaped ==
  ASSUME NEW o \in Orders, Shaped(o, bill[o]), NEW n \in Nat \ {0}, NEW p \in Asked, NEW a
  PROVE  LET new == Edited(o, n, p, a)
         IN  /\ a \in Int /\ Chargeable(new) => Shaped(o, new)
             /\ new.lines["bread"] = EditedLine(bill[o].lines["bread"], n, p)
<1> DEFINE b == bill[o]
           line == EditedLine(b.lines["bread"], n, p)
           new == Edited(o, n, p, a)
<1>1. "bread" \in LineKeys(o)
  BY DEF LineKeys
<1>2. PICK ls : ls = [b.lines EXCEPT !["bread"] = line]
  OBVIOUS
<1>3. Packed(line)
  BY EditedLineKeeps DEF Shaped
<1>4. b \in Bills /\ b.lines \in [LineKeys(o) -> BillLines]
  BY DEF Shaped
<1>5. new = Relined(b, ls, a)
  BY <1>2 DEF Edited, Relined
<1> HIDE DEF line, new
<1>6. ls \in [LineKeys(o) -> BillLines] /\ ls["bread"] = line
  BY <1>1, <1>2, <1>3, <1>4 DEF Packed
<1>7. new.lines = ls /\ (a \in Int => new \in Bills)
  BY <1>4, <1>5, <1>6, BillFields
<1> QED
  BY <1>3, <1>6, <1>7 DEF Shaped, new, line

(* New lines are lines.                                                     *)
LEMMA NewLinesShaped ==
  ASSUME NEW o \in Orders, catalogue \in Catalogues, NEW n \in Nat \ {0}, NEW p \in Asked
  PROVE  /\ NewLines(o, n, p) \in [LineKeys(o) -> BillLines]
         /\ Packed(NewLines(o, n, p)["bread"])
<1> DEFINE price == IF p = Unknown THEN catalogue.price ELSE p
<1>1. price \in Nat
  BY BooksAssumption DEF Asked
<1> HIDE DEF price
<1>2. Packed(OptionLine(catalogue, n, price))
  BY <1>1, OptionLinePacked
<1>3. PICK ls : ls = NewLines(o, n, p)
  OBVIOUS
<1>4. ls = [k \in LineKeys(o) |-> IF k = "bread" THEN OptionLine(catalogue, n, price)
                                  ELSE Extras[k]]
  BY <1>3 DEF NewLines, price
<1>5. \A k \in LineKeys(o) : k # "bread" => Extras[k] \in BillLines
  <2>1. \A k \in LineKeys(o) : k # "bread" => k \in {"cups", "cake"}
    BY DEF LineKeys
  <2>2. Extras \in [{"cups", "cake"} -> BillLines]
    BY BooksAssumption
  <2> QED
    BY <2>1, <2>2
<1>6. "bread" \in LineKeys(o)
  BY DEF LineKeys
<1>7. OptionLine(catalogue, n, price) \in BillLines
  BY <1>2 DEF Packed
<1>8. ls \in [LineKeys(o) -> BillLines] /\ ls["bread"] = OptionLine(catalogue, n, price)
  BY <1>4, <1>5, <1>6, <1>7
<1> QED
  BY <1>2, <1>3, <1>8

(* The seller's operations on one Order.                                    *)
LEMMA SellingBills ==
  ASSUME BillInv, NEW o \in Orders, Selling(o)
  PROVE  BillStep
<1>0. /\ catalogue \in Catalogues /\ DOMAIN status = Orders
      /\ DOMAIN bill = Orders /\ DOMAIN paid = Orders
      /\ bill[o] # Unknown \/ status[o] # "DRAFT" => Shaped(o, bill[o])
      /\ UNCHANGED vars => Steady
  BY DEF BillInv, Steady, vars, orderVars
<1>s. bill = [bill EXCEPT ![o] = bill[o]] /\ paid = [paid EXCEPT ![o] = paid[o]]
  BY DEF BillInv
<1>p. (\A n \in Packages : n \in Nat \ {0}) /\ (\A a \in Adjustments : a \in Int)
  BY BooksAssumption
<1>1. ASSUME NEW req \in Requests[o], NEW c \in BOOLEAN, WriteDraft(o, req, c)
      PROVE  BillStep
  <2> DEFINE new == [lines |-> NewLines(o, req.packages, req.price),
                     adjustment |-> req.adjustment, tax |-> req.tax,
                     customer |-> req.customer, direct |-> req.direct]
  <2>1. /\ status[o] = "DRAFT" /\ UNCHANGED vars /\ catalogue' = catalogue
        /\ bill' = [bill EXCEPT ![o] = new]
        /\ paid' = [paid EXCEPT ![o] = req.payment]
        /\ Accepted(new, req.payment, c) /\ Chargeable(new)
        /\ Acknowledging(o, new, req.payment, c)
    BY <1>1 DEF WriteDraft
  <2>2. req \in DraftRequests
    BY BooksAssumption
  <2>3. /\ req.packages \in Nat \ {0} /\ req.price \in Asked
        /\ req.adjustment \in Int /\ req.tax \in Int
        /\ req.customer \in Customers \cup {Guest} /\ req.direct \in Nat \cup {Unknown}
    BY <2>2 DEF DraftRequests, Asked
  <2>6. PICK ls : ls = NewLines(o, req.packages, req.price)
    OBVIOUS
  <2>7. ls \in [LineKeys(o) -> BillLines] /\ Packed(ls["bread"])
    BY <1>0, <2>3, <2>6, NewLinesShaped
  <2>8. new.lines = ls /\ new \in Bills
    <3>1. ls \in UNION {[LineKeys(u) -> BillLines] : u \in Orders}
      BY <2>7
    <3> QED
      BY <2>3, <2>6, <3>1 DEF Bills
  <2> HIDE DEF new
  <2>4. Shaped(o, new)
    BY <2>1, <2>7, <2>8 DEF Shaped
  <2>5. Billed(o, new, req.payment, c)
    BY <1>0, <2>1, <2>4 DEF Billed
  <2> QED
    BY <2>5 DEF BillStep
<1>2. ASSUME NEW n \in Packages, NEW p \in Asked, NEW a \in Adjustments, NEW r \in BOOLEAN,
             NEW c \in BOOLEAN, ReviseDraft(o, n, p, a, r, c)
      PROVE  BillStep
  <2> DEFINE fresh == [bill[o] EXCEPT !.lines = NewLines(o, n, p), !.adjustment = a]
             new == IF r THEN fresh ELSE Edited(o, n, p, a)
  <2>1. /\ status[o] = "DRAFT" /\ bill[o] # Unknown
        /\ Rewrite(o, new, c) /\ UNCHANGED vars
    BY <1>2 DEF ReviseDraft
  <2>2. Shaped(o, new)
    <3>1. bill[o] \in Bills /\ a \in Int /\ Chargeable(new)
      BY <1>0, <1>p, <2>1 DEF Shaped, Rewrite
    <3>2. PICK ls : ls = NewLines(o, n, p) /\ fresh = Relined(bill[o], ls, a)
      BY DEF Relined
    <3> HIDE DEF fresh
    <3>3. ls \in [LineKeys(o) -> BillLines] /\ Packed(ls["bread"])
      BY <1>0, <1>p, <3>2, NewLinesShaped
    <3>4. fresh.lines = ls /\ fresh \in Bills
      BY <3>1, <3>2, <3>3, BillFields
    <3>5. Chargeable(fresh) => Shaped(o, fresh)
      BY <3>3, <3>4 DEF Shaped
    <3>6. Chargeable(Edited(o, n, p, a)) => Shaped(o, Edited(o, n, p, a))
      BY <1>0, <1>p, <2>1, <3>1, EditedShaped
    <3> QED
      BY <3>1, <3>5, <3>6
  <2> HIDE DEF new
  <2>3. Billed(o, new, paid[o], c)
    BY <1>0, <1>s, <2>1, <2>2 DEF Billed, Rewrite
  <2> QED
    BY <2>3 DEF BillStep
<1>3. ASSUME NEW n \in Packages, NEW p \in Asked, NEW a \in Adjustments, NEW d \in Dates,
             NEW c \in BOOLEAN, Revise(o, n, d, p, a, c)
      PROVE  BillStep
  <2> DEFINE new == Edited(o, n, p, a)
  <2>1. Edit(o, new.lines["bread"].units, d) /\ Rewrite(o, new, c)
    BY <1>3 DEF Revise
  <2>2. status[o] # "DRAFT"
    BY <2>1 DEF Edit
  <2>3. Shaped(o, new) /\ Agreed(o, new)
    <3>1. Chargeable(new) /\ a \in Int
      BY <1>p, <2>1 DEF Rewrite
    <3> QED
      BY <1>0, <1>p, <2>2, <3>1, EditedShaped DEF Agreed
  <2> HIDE DEF new
  <2>4. Steady
    BY <1>0, <2>1, ProductionKeepsDrafts
  <2>5. Billed(o, new, paid[o], c)
    BY <1>0, <1>s, <2>1, <2>3, <2>4 DEF Billed, Rewrite
  <2> QED
    BY <2>5 DEF BillStep
<1>4. ASSUME NEW p \in Asked, NEW a \in Adjustments, NEW c \in BOOLEAN, Reprice(o, p, a, c)
      PROVE  BillStep
  <2> DEFINE n == bill[o].lines["bread"].packages
             new == Edited(o, n, p, a)
  <2>1. status[o] = "CONFIRMED" /\ Rewrite(o, new, c) /\ UNCHANGED vars
    BY <1>4 DEF Reprice
  <2>2. n \in Nat \ {0}
    BY <1>0, <2>1 DEF Shaped, Packed, BillLines
  <2> HIDE DEF n
  <2>3. Shaped(o, new) /\ Agreed(o, new)
    <3>1. Chargeable(new) /\ a \in Int
      BY <1>p, <2>1 DEF Rewrite
    <3> QED
      BY <1>0, <2>1, <2>2, <3>1, EditedShaped DEF Agreed
  <2> HIDE DEF new
  <2>4. Billed(o, new, paid[o], c)
    BY <1>0, <1>s, <2>1, <2>3 DEF Billed, Rewrite
  <2> QED
    BY <2>4 DEF BillStep
<1>5. ASSUME NEW a \in Payments, NEW c \in BOOLEAN, Pay(o, a, c)
      PROVE  BillStep
  <2>1. /\ bill[o] # Unknown
        /\ Accepted(bill[o], paid[o] + a, c) /\ Acknowledging(o, bill[o], paid[o] + a, c)
        /\ paid' = [paid EXCEPT ![o] = paid[o] + a]
        /\ bill' = bill /\ catalogue' = catalogue /\ UNCHANGED vars
    BY <1>5 DEF Pay
  <2>2. Billed(o, bill[o], paid[o] + a, c)
    BY <1>0, <1>s, <2>1 DEF Billed, Agreed
  <2> QED
    BY <2>2 DEF BillStep
<1>6. ASSUME NEW c \in BOOLEAN, DropDraft(o, c) PROVE BillStep
  <2>1. Dropped(o)
    BY <1>6 DEF DropDraft, Dropped, vars, orderVars
  <2> QED
    BY <2>1 DEF BillStep
<1>7. ASSUME BookConfirm(o) PROVE BillStep
  <2>1. bill[o] # Unknown /\ Confirm(o) /\ catalogue' = catalogue /\ UNCHANGED billVars
    BY <1>7 DEF BookConfirm
  <2> QED
    BY <1>0, <2>1, ProductionKeepsDrafts DEF BillStep, Untouched
<1>8. ASSUME BookCancel(o) PROVE BillStep
  <2>1. Cancel(o) /\ catalogue' = catalogue /\ UNCHANGED billVars
    BY <1>8 DEF BookCancel
  <2> QED
    BY <1>0, <2>1, ProductionKeepsDrafts DEF BillStep, Untouched
<1>9. ASSUME BookComplete(o) PROVE BillStep
  <2>1. CompleteOrder(o) /\ catalogue' = catalogue /\ UNCHANGED billVars
    BY <1>9 DEF BookComplete
  <2> QED
    BY <1>0, <2>1, ProductionKeepsDrafts DEF BillStep, Untouched
<1>10. ASSUME BookRest(o) PROVE BillStep
  <2>1. RestChange(o) /\ catalogue' = catalogue /\ UNCHANGED billVars
    BY <1>10 DEF BookRest
  <2> QED
    BY <1>0, <2>1, ProductionKeepsDrafts DEF BillStep, Untouched
<1> QED
  BY <1>1, <1>2, <1>3, <1>4, <1>5, <1>6, <1>7, <1>8, <1>9, <1>10 DEF Selling

(* Stock and production leave the bills alone.                              *)
LEMMA OthersLeaveBills ==
  ASSUME BillInv, Stocking \/ Baking \/ BookDay \/ \E option \in Catalogues : ChangeCatalogue(option)
  PROVE  Untouched
<1>0. /\ catalogue \in Catalogues /\ DOMAIN status = Orders
      /\ UNCHANGED vars => Steady
  BY DEF BillInv, Steady, vars, orderVars
<1>1. ASSUME NEW option \in Catalogues, ChangeCatalogue(option) PROVE Untouched
  BY <1>0, <1>1 DEF ChangeCatalogue, Untouched
<1>2. CASE BookDay
  BY <1>0, <1>2 DEF BookDay, AdvanceDay, orderVars, Steady, Untouched
<1>3. CASE Stocking
  <2>1. UNCHANGED vars /\ UNCHANGED billVars /\ catalogue' = catalogue
    BY <1>3 DEF Stocking, BeginStock, CommitStock, OpenBalance, RestockGoods, AdjustGoods
  <2> QED
    BY <1>0, <2>1 DEF Untouched
<1>4. CASE Baking
  <2>1. ASSUME NEW r \in Runs, NEW d \in Dates, NEW n \in Batches, BookStart(r, d, n)
        PROVE  Untouched
    BY <1>0, <2>1, BakingKeepsDrafts DEF BookStart, Untouched
  <2>2. ASSUME NEW r \in Runs, NEW out \in Outputs, NEW used, BookFinish(r, out, used)
        PROVE  Untouched
    BY <1>0, <2>2, BakingKeepsDrafts DEF BookFinish, Untouched
  <2>3. ASSUME NEW r \in Runs, BookCancelRun(r) PROVE Untouched
    BY <1>0, <2>3, BakingKeepsDrafts DEF BookCancelRun, bookVars, Untouched
  <2>4. ASSUME NEW n \in Outputs, NEW u \in Expiries, NEW c \in EnteredCosts,
               BookSurplus(n, u, c)
        PROVE  Untouched
    BY <1>0, <2>4, BakingKeepsDrafts DEF BookSurplus, Untouched
  <2>5. ASSUME NEW l \in Lots, NEW n \in Outputs, BookReduction(l, n) PROVE Untouched
    BY <1>0, <2>5, BakingKeepsDrafts DEF BookReduction, Untouched
  <2> QED
    BY <1>4, <2>1, <2>2, <2>3, <2>4, <2>5 DEF Baking
<1> QED
  BY <1>1, <1>2, <1>3, <1>4

(* The books open with a bill for nobody.                                   *)
LEMMA BillsOpen ==
  ASSUME BooksInit
  PROVE  BillInv /\ OverpaymentAcknowledged
<1>1. /\ status = [o \in Orders |-> "DRAFT"]
      /\ bill = [o \in Orders |-> Unknown]
      /\ paid = [o \in Orders |-> 0]
      /\ acknowledged = [o \in Orders |-> 0]
  BY DEF BooksInit, Init
<1>2. catalogue \in Catalogues
  BY BooksAssumption DEF BooksInit
<1> QED
  BY <1>1, <1>2 DEF BillInv, OverpaymentAcknowledged

(* Every step is one of those.                                              *)
LEMMA BillSteps ==
  ASSUME BillInv, [BooksNext]_booksVars
  PROVE  BillStep
<1>1. CASE BooksNext
  BY <1>1, SellingBills, OthersLeaveBills DEF BooksNext, BillStep
<1>2. CASE UNCHANGED booksVars
  <2>1. UNCHANGED status /\ UNCHANGED billVars /\ catalogue' = catalogue
    BY <1>2 DEF booksVars, vars, orderVars, bookVars
  <2> QED
    BY <2>1 DEF BillInv, BillStep, Untouched, Steady
<1> QED
  BY <1>1, <1>2

(* A bill stays a bill.                                                     *)
LEMMA BillInvKept ==
  ASSUME BillInv, BillStep
  PROVE  BillInv'
<1>1. CASE Untouched
  BY <1>1 DEF Untouched, Steady, BillInv, billVars
<1>2. ASSUME NEW o \in Orders, NEW new, NEW p, NEW c, Billed(o, new, p, c)
      PROVE  BillInv'
  <2>1. /\ Steady /\ catalogue' \in Catalogues /\ Shaped(o, new)
        /\ bill' = [bill EXCEPT ![o] = new] /\ paid' = [paid EXCEPT ![o] = p]
        /\ \E x : acknowledged' = [acknowledged EXCEPT ![o] = x]
    BY <1>2 DEF Billed, Acknowledging, BillInv
  <2>2. /\ bill' = [u \in Orders |-> bill'[u]]
        /\ paid' = [u \in Orders |-> paid'[u]]
        /\ acknowledged' = [u \in Orders |-> acknowledged'[u]]
    BY <2>1 DEF BillInv
  <2>3. bill'[o] = new /\ \A u \in Orders \ {o} : bill'[u] = bill[u]
    BY <2>1 DEF BillInv
  <2>4. ASSUME NEW u \in Orders, bill'[u] # Unknown \/ status'[u] # "DRAFT"
        PROVE  Shaped(u, bill'[u])
    BY <2>1, <2>3, <2>4 DEF BillInv, Steady
  <2>5. ASSUME NEW u \in Orders, bill'[u] = Unknown PROVE paid'[u] = 0
    <3>1. new \in Bills /\ Unknown \notin Bills
      BY <2>1, BooksAssumption DEF Shaped
    <3>2. u # o
      BY <2>3, <2>5, <3>1
    <3> QED
      BY <2>1, <2>3, <2>5, <3>2 DEF BillInv
  <2> QED
    BY <2>1, <2>2, <2>4, <2>5 DEF BillInv, Steady
<1>3. ASSUME NEW o \in Orders, Dropped(o) PROVE BillInv'
  <2>1. /\ status[o] = "DRAFT" /\ status' = status /\ catalogue' \in Catalogues
        /\ bill' = [bill EXCEPT ![o] = Unknown] /\ paid' = [paid EXCEPT ![o] = 0]
        /\ acknowledged' = [acknowledged EXCEPT ![o] = 0]
    BY <1>3 DEF Dropped, BillInv
  <2>2. /\ bill' = [u \in Orders |-> bill'[u]]
        /\ paid' = [u \in Orders |-> paid'[u]]
        /\ acknowledged' = [u \in Orders |-> acknowledged'[u]]
    BY <2>1 DEF BillInv
  <2>3. bill'[o] = Unknown /\ \A u \in Orders \ {o} : bill'[u] = bill[u]
    BY <2>1 DEF BillInv
  <2>4. ASSUME NEW u \in Orders, bill'[u] # Unknown \/ status'[u] # "DRAFT"
        PROVE  Shaped(u, bill'[u])
    BY <2>1, <2>3, <2>4 DEF BillInv
  <2>5. ASSUME NEW u \in Orders, bill'[u] = Unknown PROVE paid'[u] = 0
    BY <2>1, <2>3, <2>5 DEF BillInv
  <2> QED
    BY <2>1, <2>2, <2>4, <2>5 DEF BillInv
<1> QED
  BY <1>1, <1>2, <1>3 DEF BillStep

(* Whoever let the total fall below what was paid has confirmed it.         *)
LEMMA AcknowledgedKept ==
  ASSUME BillInv, OverpaymentAcknowledged, BillStep
  PROVE  OverpaymentAcknowledged'
<1>1. CASE Untouched
  BY <1>1 DEF Untouched, billVars, OverpaymentAcknowledged, Overpayment, Total
<1>2. ASSUME NEW o \in Orders, NEW new, NEW p, NEW c, Billed(o, new, p, c)
      PROVE  OverpaymentAcknowledged'
  <2>1. /\ bill' = [bill EXCEPT ![o] = new] /\ paid' = [paid EXCEPT ![o] = p]
        /\ acknowledged' = [acknowledged EXCEPT ![o] =
             IF c THEN Overpayment(new, p) ELSE MinOf(@, Overpayment(new, p))]
        /\ p > Total(new) => c
    BY <1>2 DEF Billed, Acknowledging, Accepted
  <2>2. /\ bill'[o] = new /\ \A u \in Orders \ {o} : bill'[u] = bill[u]
        /\ paid'[o] = p /\ \A u \in Orders \ {o} : paid'[u] = paid[u]
        /\ c => acknowledged'[o] = Overpayment(new, p)
        /\ \A u \in Orders \ {o} : acknowledged'[u] = acknowledged[u]
    BY <2>1 DEF BillInv
  <2>3. Overpayment(new, p) > 0 => c
    BY <2>1 DEF Overpayment
  <2>4. ASSUME NEW u \in Orders, bill'[u] # Unknown, Overpayment(bill'[u], paid'[u]) > 0
        PROVE  acknowledged'[u] = Overpayment(bill'[u], paid'[u])
    BY <2>2, <2>3, <2>4 DEF OverpaymentAcknowledged
  <2> QED
    BY <2>4 DEF OverpaymentAcknowledged, Overpayment, Total
<1>3. ASSUME NEW o \in Orders, Dropped(o) PROVE OverpaymentAcknowledged'
  <2>1. /\ bill'[o] = Unknown /\ \A u \in Orders \ {o} : bill'[u] = bill[u]
        /\ \A u \in Orders \ {o} : paid'[u] = paid[u]
        /\ \A u \in Orders \ {o} : acknowledged'[u] = acknowledged[u]
    BY <1>3 DEF Dropped, BillInv
  <2>2. ASSUME NEW u \in Orders, bill'[u] # Unknown, Overpayment(bill'[u], paid'[u]) > 0
        PROVE  acknowledged'[u] = Overpayment(bill'[u], paid'[u])
    BY <2>1, <2>2 DEF OverpaymentAcknowledged
  <2> QED
    BY <2>2 DEF OverpaymentAcknowledged, Overpayment, Total
<1> QED
  BY <1>1, <1>2, <1>3 DEF BillStep

(* What was agreed survives any step: the price but for one entered by hand, *)
(* and the package.                                                         *)
LEMMA AgreementKept ==
  ASSUME BillInv, BillStep, NEW o \in Orders, status[o] # "DRAFT"
  PROVE  LET old == bill[o].lines["bread"]
             new == bill'[o].lines["bread"]
         IN  /\ new.price \in {old.price} \cup Overrides
             /\ new.packaging = old.packaging
             /\ new.units * old.packages = old.units * new.packages
<1> DEFINE old == bill[o].lines["bread"]
           new == bill'[o].lines["bread"]
<1>1. Shaped(o, bill[o])
  BY DEF BillInv
<1>2. CASE bill'[o] = bill[o]
  BY <1>2
<1>3. CASE bill'[o] # bill[o]
  <2>1. PICK u, b, p, c : u \in Orders /\ Billed(u, b, p, c)
    BY <1>3 DEF BillStep, Untouched, billVars, Dropped, BillInv
  <2>2. u = o /\ bill'[o] = b
    BY <1>3, <2>1 DEF Billed, BillInv
  <2>3. PICK n, q, a : n \in Nat \ {0} /\ q \in Asked /\ b = Edited(o, n, q, a)
    BY <1>3, <2>1, <2>2 DEF Billed, Agreed
  <2>4. new = EditedLine(old, n, q)
    BY <1>1, <2>2, <2>3, EditedShaped
  <2>5. Packed(old)
    BY <1>1 DEF Shaped
  <2> HIDE DEF old, new
  <2>6. /\ new.price \in {old.price} \cup Overrides
        /\ new.packaging = old.packaging
        /\ new.units * old.packages = old.units * new.packages
    BY <2>3, <2>4, <2>5, EditedLineKeeps
  <2> QED
    BY <2>6 DEF old, new
<1> QED
  BY <1>2, <1>3

(* Nobody has paid more than is asked unless a person confirmed exactly that *)
(* much, after any edits, payments and repricings (order_service and         *)
(* payment handling), whatever the catalogue and the amounts.               *)
THEOREM OverpaymentsAreConfirmed == BooksSpec => []OverpaymentAcknowledged
<1>1. BooksInit => BillInv /\ OverpaymentAcknowledged
  BY BillsOpen
<1>2. BillInv /\ OverpaymentAcknowledged /\ [BooksNext]_booksVars
        => (BillInv /\ OverpaymentAcknowledged)'
  BY BillSteps, BillInvKept, AcknowledgedKept
<1> QED
  BY <1>1, <1>2, PTL DEF BooksSpec

(* The bill of every Order that has left DRAFT is complete: it has its lines, *)
(* and its line of bread is made of whole packages.                         *)
LEMMA BillsHold == BooksSpec => []BillInv
<1>1. BooksInit => BillInv
  BY BillsOpen
<1>2. BillInv /\ [BooksNext]_booksVars => BillInv'
  BY BillSteps, BillInvKept
<1> QED
  BY <1>1, <1>2, PTL DEF BooksSpec

(* No step of anybody carries a change of the catalogue into an Order that   *)
(* was agreed: its price, its package and its packaging stay, but for a      *)
(* price entered by hand.                                                   *)
THEOREM AgreedOrdersKeepTheirTerms == BooksSpec => CatalogueDoesNotLeak
<1> DEFINE Stands(o) ==
             LET old == bill[o].lines["bread"]
                 new == bill'[o].lines["bread"]
             IN  /\ new.price \in {old.price} \cup Overrides
                 /\ new.packaging = old.packaging
                 /\ new.units * old.packages = old.units * new.packages
           Step == \A o \in Orders : status[o] # "DRAFT" => Stands(o)
<1>1. BillInv /\ [BooksNext]_booksVars => [Step]_booksVars
  <2> SUFFICES ASSUME BillInv, [BooksNext]_booksVars PROVE Step
    OBVIOUS
  <2>1. BillStep
    BY BillSteps
  <2> QED
    BY <2>1, AgreementKept
<1>2. CatalogueDoesNotLeak <=> [][Step]_booksVars
  BY DEF CatalogueDoesNotLeak
<1> HIDE DEF Step
<1> QED
  BY <1>1, <1>2, BillsHold, PTL DEF BooksSpec

----------------------------------------------------------------------------
(* What a stock looks like.                                                 *)

(* The average cost lies between entered costs, once there are any; a stock  *)
(* that holds something has been bought or counted.                         *)
Within(row, costs) ==
  /\ costs \subseteq Nat
  /\ row.qty > 0 => costs # {}
  /\ costs # {} => (\E p \in costs : p <= row.wac) /\ (\E p \in costs : row.wac <= p)

(* A request holds a row of flour that was current: while its version is,    *)
(* the row is.                                                              *)
Read(req) ==
  /\ req.op \in StockOps
  /\ req.row \in FlourRows
  /\ req.row.version <= flour.version
  /\ req.row.version = flour.version => req.row = flour

StockInv ==
  /\ flour \in FlourRows /\ Within(flour, prices.flour)
  /\ ~opened => flour.qty = 0
  /\ goods \in GoodsRows /\ Within(goods, prices.goods) /\ prices.goods # {}
  /\ prices = [flour |-> prices.flour, goods |-> prices.goods]
  /\ moved = [flour |-> flour.qty, goods |-> goods.qty]
  /\ pending = [c \in Clerks |-> pending[c]]
  /\ \A c \in Clerks : pending[c] # Unknown => Read(pending[c])
  /\ runCost = [r \in Runs |-> runCost[r]]
  /\ \A r \in Runs : runCost[r] # Unknown => runCost[r].flour \in Nat

(* A purchase moves the average no further than its own cost.               *)
LEMMA RestockedWithin ==
  ASSUME NEW row, row.qty \in Int, row.wac \in Nat, NEW costs, Within(row, costs),
         NEW p, p.qty \in Nat, p.cost \in Nat,
         NEW new, new.wac = WeightedAverage(row.qty, row.wac, p)
  PROVE  new.wac \in Nat /\ Within(new, costs \cup {p.cost})
<1>1. ASSUME NEW lo \in costs \cup {p.cost}, NEW hi \in costs \cup {p.cost},
             row.qty > 0 => lo <= row.wac /\ row.wac <= hi, lo <= p.cost, p.cost <= hi
      PROVE  new.wac \in Nat /\ Within(new, costs \cup {p.cost})
  <2>1. lo \in Nat /\ hi \in Nat
    BY DEF Within
  <2>2. lo \in Int /\ hi \in Int
    BY <2>1
  <2>3. /\ WeightedAverage(row.qty, row.wac, p) \in Int
        /\ lo <= WeightedAverage(row.qty, row.wac, p)
        /\ WeightedAverage(row.qty, row.wac, p) <= hi
    BY <1>1, <2>2, AverageBetween
  <2>4. new.wac \in Nat /\ lo <= new.wac /\ new.wac <= hi
    BY <2>1, <2>3
  <2> QED
    BY <2>4 DEF Within
<1>2. CASE row.qty > 0
  <2>1. PICK lo \in costs, hi \in costs : lo <= row.wac /\ row.wac <= hi
    BY <1>2 DEF Within
  <2>2. lo \in Nat /\ hi \in Nat
    BY DEF Within
  <2>3. PICK l \in costs \cup {p.cost} : l <= row.wac /\ l <= p.cost
    <3>1. CASE lo <= p.cost
      BY <2>1, <3>1
    <3>2. CASE p.cost <= lo
      BY <2>1, <2>2, <3>2
    <3> QED
      BY <2>2, <3>1, <3>2
  <2>4. PICK h \in costs \cup {p.cost} : row.wac <= h /\ p.cost <= h
    <3>1. CASE p.cost <= hi
      BY <2>1, <3>1
    <3>2. CASE hi <= p.cost
      BY <2>1, <2>2, <3>2
    <3> QED
      BY <2>2, <3>1, <3>2
  <2> QED
    BY <1>1, <2>3, <2>4
<1>3. CASE ~(row.qty > 0)
  <2>1. p.cost <= p.cost /\ p.cost \in costs \cup {p.cost}
    OBVIOUS
  <2> QED
    BY <1>1, <1>3, <2>1
<1> QED
  BY <1>2, <1>3

(* Rows of the same average cost share what it lies between.                *)
LEMMA SameAverageWithin ==
  ASSUME NEW row, NEW costs, Within(row, costs), NEW new, new.wac = row.wac,
         new.qty > 0 => costs # {}
  PROVE  Within(new, costs)
  BY DEF Within

(* The invariant says what was promised of the books.                       *)
LEMMA StockInvMeans ==
  ASSUME StockInv
  PROVE  BalanceIsLedgerSum /\ CostBetweenPrices
<1>1. BalanceIsLedgerSum
  BY DEF StockInv, BalanceIsLedgerSum
<1>2. CostBetweenPrices
  BY DEF StockInv, Within, CostBetweenPrices
<1> QED
  BY <1>1, <1>2

(* The books open with what was counted.                                    *)
LEMMA StockOpens ==
  ASSUME BooksInit
  PROVE  StockInv
<1>1. PICK s \in Scenarios :
        /\ flour = s.flour /\ opened = s.opened /\ goods = s.goods
        /\ prices = [flour |-> IF s.opened THEN {s.flour.wac} ELSE {}, goods |-> {s.goods.wac}]
        /\ moved = [flour |-> s.flour.qty, goods |-> s.goods.qty]
  BY DEF BooksInit
<1>2. /\ flour \in FlourRows /\ goods \in GoodsRows
      /\ ~opened => flour.qty = 0
  BY <1>1, BooksAssumption
<1>3. flour.wac \in Nat /\ goods.wac \in Nat /\ flour.qty \in Int
  BY <1>2 DEF FlourRows, GoodsRows
<1>4. Within(goods, prices.goods)
  BY <1>1, <1>3 DEF Within
<1>5. Within(flour, prices.flour)
  BY <1>1, <1>2, <1>3 DEF Within
<1>6. /\ pending = [c \in Clerks |-> Unknown]
      /\ runCost = [r \in Runs |-> Unknown]
  BY DEF BooksInit
<1>7. /\ prices = [flour |-> prices.flour, goods |-> prices.goods]
      /\ prices.goods # {}
      /\ moved = [flour |-> flour.qty, goods |-> goods.qty]
  BY <1>1
<1> QED
  BY <1>2, <1>4, <1>5, <1>6, <1>7 DEF StockInv

----------------------------------------------------------------------------
(* Each operation on flour leaves a row whose average its costs enclose.    *)
LEMMA OutcomeWithin ==
  ASSUME NEW op \in StockOps, NEW row \in FlourRows, Within(row, prices.flour)
  PROVE  /\ Outcome(op, row) \in FlourRows
         /\ Outcome(op, row).version = row.version
         /\ Within(Outcome(op, row), prices.flour \cup Entered(op, row))
<1> DEFINE new == Outcome(op, row)
           costs == prices.flour
<1>0. op \in StockRequests
  BY BooksAssumption
<1>r. row.qty \in Int /\ row.wac \in Nat
  BY DEF FlourRows
<1>1. CASE op.kind = "restock"
  <2> DEFINE n == Normalized(op)
  <2>1. op.qty \in Nat /\ op.cost \in Nat /\ op.factor \in Nat \ {0}
    BY <1>0, <1>1 DEF StockRequests
  <2>2. n.qty \in Nat /\ n.cost \in Nat
    BY <2>1, NormalizedTypes
  <2>3. new = Restocked(row, n) /\ Entered(op, row) = {n.cost}
    BY <1>1 DEF Outcome, Entered
  <2> HIDE DEF n, new
  <2>4. /\ new.wac = WeightedAverage(row.qty, row.wac, n)
        /\ new.qty = row.qty + n.qty /\ new.latest = n.cost
        /\ new.repl = row.repl /\ new.version = row.version
        /\ new = [qty |-> new.qty, wac |-> new.wac, latest |-> new.latest,
                  repl |-> new.repl, version |-> new.version]
    BY <2>3 DEF Restocked, FlourRows
  <2>5. new.wac \in Nat /\ Within(new, costs \cup {n.cost})
    BY <1>r, <2>2, <2>4, RestockedWithin
  <2>6. new \in FlourRows
    BY <1>r, <2>2, <2>4, <2>5 DEF FlourRows
  <2> QED
    BY <2>3, <2>4, <2>5, <2>6 DEF new
<1>2. CASE op.kind = "adjust"
  <2>1. op.change \in Int
    BY <1>0, <1>2 DEF StockRequests
  <2>2. /\ new = [row EXCEPT !.qty = @ + op.change]
        /\ Entered(op, row) = IF costs = {} THEN {row.wac} ELSE {}
    BY <1>2 DEF Outcome, Entered
  <2> HIDE DEF new
  <2>3. new \in FlourRows /\ new.wac = row.wac /\ new.version = row.version
    BY <2>1, <2>2 DEF FlourRows
  <2>4. CASE costs = {}
    <3>1. costs \cup Entered(op, row) = {row.wac}
      BY <2>2, <2>4
    <3>2. Within(new, {row.wac})
      BY <1>r, <2>3 DEF Within
    <3> QED
      BY <2>3, <3>1, <3>2 DEF new
  <2>5. CASE costs # {}
    <3>1. costs \cup Entered(op, row) = costs
      BY <2>2, <2>5
    <3>2. Within(new, costs)
      BY <2>3, <2>5, SameAverageWithin
    <3> QED
      BY <2>3, <3>1, <3>2 DEF new
  <2> QED
    BY <2>4, <2>5
<1>3. CASE op.kind = "replacement"
  <2>1. op.cost \in Nat
    BY <1>0, <1>3 DEF StockRequests
  <2>2. new = [row EXCEPT !.repl = op.cost] /\ Entered(op, row) = {}
    BY <1>3 DEF Outcome, Entered
  <2> HIDE DEF new
  <2>3. /\ new \in FlourRows /\ new.wac = row.wac /\ new.qty = row.qty
        /\ new.version = row.version
    BY <2>1, <2>2 DEF FlourRows
  <2>4. Within(new, costs)
    BY <2>3, SameAverageWithin DEF Within
  <2>5. costs \cup Entered(op, row) = costs
    BY <2>2
  <2> QED
    BY <2>3, <2>4, <2>5 DEF new
<1>4. op.kind \in {"restock", "adjust", "replacement"}
  BY <1>0 DEF StockRequests
<1> QED
  BY <1>1, <1>2, <1>3, <1>4

(* A waiting request keeps what it read, and the version of a row that       *)
(* changes tells it so.                                                     *)
LEMMA ReadKept ==
  ASSUME flour \in FlourRows, flour' \in FlourRows,
         flour' = flour \/ flour'.version = flour.version + 1,
         NEW req, Read(req)
  PROVE  /\ req.row.version <= flour'.version
         /\ req.row.version = flour'.version => req.row = flour'
<1>1. /\ req.row.version \in Nat /\ flour.version \in Nat
      /\ req.row.version <= flour.version
      /\ req.row.version = flour.version => req.row = flour
  BY DEF Read, FlourRows
<1>2. CASE flour' = flour
  BY <1>1, <1>2
<1>3. CASE flour'.version = flour.version + 1
  <2>1. req.row.version < flour'.version
    BY <1>1, <1>3
  <2> QED
    BY <1>1, <1>3, <2>1
<1> QED
  BY <1>2, <1>3

(* What a step on flour must do for the books to stay true.                 *)
LEMMA FlourStep ==
  ASSUME StockInv, flour' \in FlourRows, flour'.version = flour.version + 1,
         ~opened' => flour'.qty = 0,
         NEW costs, Within(flour', costs),
         prices' = [prices EXCEPT !.flour = costs],
         moved' = [moved EXCEPT !.flour = flour'.qty],
         UNCHANGED <<goods, runCost>>,
         pending' = [c \in Clerks |-> pending'[c]],
         \A c \in Clerks : pending'[c] = Unknown \/ pending'[c] = pending[c]
  PROVE  StockInv'
<1>1. /\ prices' = [flour |-> costs, goods |-> prices.goods]
      /\ moved' = [flour |-> flour'.qty, goods |-> goods.qty]
  BY DEF StockInv
<1>2. Within(flour, prices.flour)' /\ Within(goods, prices.goods)'
  BY <1>1 DEF StockInv, Within
<1>3. ASSUME NEW c \in Clerks, pending'[c] # Unknown PROVE Read(pending[c])'
  <2>1. pending'[c] = pending[c] /\ Read(pending[c])
    BY <1>3 DEF StockInv
  <2>2. flour \in FlourRows
    BY DEF StockInv
  <2> QED
    BY <2>1, <2>2, ReadKept DEF Read
<1> QED
  BY <1>1, <1>2, <1>3 DEF StockInv

(* And a step on cups.                                                      *)
LEMMA GoodsStep ==
  ASSUME StockInv, goods' \in GoodsRows,
         NEW costs, Within(goods', costs), costs # {},
         prices' = [prices EXCEPT !.goods = costs],
         moved' = [moved EXCEPT !.goods = goods'.qty],
         UNCHANGED <<flour, opened, runCost, pending>>
  PROVE  StockInv'
<1>1. /\ prices' = [flour |-> prices.flour, goods |-> costs]
      /\ moved' = [flour |-> flour.qty, goods |-> goods'.qty]
  BY DEF StockInv
<1>2. Within(flour, prices.flour)' /\ Within(goods, prices.goods)'
  BY <1>1 DEF StockInv, Within
<1> QED
  BY <1>1, <1>2 DEF StockInv, Read

----------------------------------------------------------------------------
(* Every step keeps the stocks.                                             *)

(* Steps that leave stock and runs' snapshots alone.                        *)
LEMMA QuietStock ==
  ASSUME StockInv, UNCHANGED <<flour, opened, goods, prices, moved, pending, runCost>>
  PROVE  StockInv'
  BY DEF StockInv, Within, Read

(* The operations on stock.                                                 *)
LEMMA StockingKeepsStock ==
  ASSUME StockInv, Stocking
  PROVE  StockInv'
<1>0. /\ flour \in FlourRows /\ Within(flour, prices.flour)
      /\ goods \in GoodsRows /\ Within(goods, prices.goods)
      /\ prices = [flour |-> prices.flour, goods |-> prices.goods]
      /\ moved = [flour |-> flour.qty, goods |-> goods.qty]
  BY DEF StockInv
<1>t. /\ flour.qty \in Int /\ flour.wac \in Nat /\ flour.version \in Nat
      /\ goods.qty \in Nat /\ goods.wac \in Nat
  BY <1>0 DEF FlourRows, GoodsRows
<1>1. ASSUME NEW c \in Clerks, NEW op \in StockOps, BeginStock(c, op) PROVE StockInv'
  <2> DEFINE req == [op |-> op, row |-> flour]
  <2>1. /\ pending' = [pending EXCEPT ![c] = req]
        /\ UNCHANGED <<flour, opened, goods, prices, moved, runCost>>
    BY <1>1 DEF BeginStock, historyVars, costVars
  <2>2. Read(req)
    BY <1>0, <1>t DEF Read
  <2> HIDE DEF req
  <2>3. pending' = [d \in Clerks |-> pending'[d]]
    BY <2>1 DEF StockInv
  <2>4. ASSUME NEW d \in Clerks, pending'[d] # Unknown PROVE Read(pending'[d])
    <3>1. CASE d = c
      BY <2>1, <2>2, <3>1 DEF StockInv
    <3>2. CASE d # c
      BY <2>1, <2>4, <3>2 DEF StockInv
    <3> QED
      BY <3>1, <3>2
  <2>5. \A d \in Clerks : pending'[d] # Unknown => Read(pending[d])'
    BY <2>1, <2>4 DEF Read
  <2> QED
    BY <2>1, <2>3, <2>5 DEF StockInv, Within
<1>2. ASSUME NEW c \in Clerks, CommitStock(c) PROVE StockInv'
  <2> DEFINE req == pending[c]
             new == Outcome(req.op, req.row)
             costs == prices.flour \cup Entered(req.op, req.row)
  <2>1. /\ req # Unknown /\ pending' = [pending EXCEPT ![c] = Unknown]
        /\ UNCHANGED goods /\ UNCHANGED runCost
    BY <1>2 DEF CommitStock, costVars
  <2>2. Read(req)
    BY <2>1 DEF StockInv
  <2>3. /\ pending' = [d \in Clerks |-> pending'[d]]
        /\ \A d \in Clerks : pending'[d] = Unknown \/ pending'[d] = pending[d]
    BY <2>1 DEF StockInv
  <2>4. CASE SameRow(req.row, flour)
    <3>1. /\ flour' = [new EXCEPT !.version = flour.version + 1]
          /\ moved' = [moved EXCEPT !.flour = @ + new.qty - req.row.qty]
          /\ prices' = [prices EXCEPT !.flour = costs]
      BY <1>2, <2>4 DEF CommitStock
    <3>2. req.row = flour /\ req.op \in StockOps
      BY <2>2, <2>4 DEF SameRow, Read
    <3>3. new \in FlourRows /\ Within(new, costs)
      BY <1>0, <3>2, OutcomeWithin
    <3>7. ~opened' => flour'.qty = 0
      <4>1. ASSUME ~opened' PROVE new.qty = flour.qty /\ ~opened
        <5>1. opened' = (opened \/ req.op.kind # "replacement")
          BY <1>2, <2>4 DEF CommitStock
        <5>2. ~opened /\ req.op.kind = "replacement"
          BY <4>1, <5>1
        <5>3. new = [flour EXCEPT !.repl = req.op.cost]
          BY <3>2, <5>2 DEF Outcome
        <5> QED
          BY <1>0, <5>2, <5>3 DEF FlourRows
      <4> HIDE DEF new, costs, req
      <4>2. flour'.qty = new.qty
        BY <3>1, <3>3 DEF FlourRows
      <4> QED
        BY <4>1, <4>2 DEF StockInv
    <3> HIDE DEF new, costs, req
    <3>4. /\ flour' \in FlourRows /\ flour'.version = flour.version + 1
          /\ flour'.qty = new.qty /\ flour'.wac = new.wac
      BY <1>t, <3>1, <3>3 DEF FlourRows
    <3>5. Within(flour', costs)
      BY <3>3, <3>4 DEF Within
    <3>6. moved' = [moved EXCEPT !.flour = flour'.qty]
      <4>1. new.qty \in Int /\ moved.flour = flour.qty
        BY <1>0, <3>3 DEF FlourRows
      <4>2. moved.flour + new.qty - req.row.qty = new.qty
        BY <1>t, <3>2, <4>1
      <4> QED
        BY <3>1, <3>4, <4>2
    <3> QED
      BY <2>1, <2>3, <3>1, <3>4, <3>5, <3>6, <3>7, FlourStep
  <2>5. CASE ~SameRow(req.row, flour)
    <3>1. UNCHANGED <<flour, opened, prices, moved>>
      BY <1>2, <2>5 DEF CommitStock, historyVars
    <3> HIDE DEF req
    <3>2. ASSUME NEW d \in Clerks, pending'[d] # Unknown PROVE Read(pending[d])'
      <4>1. pending'[d] = pending[d] /\ Read(pending[d])
        BY <2>3, <3>2 DEF StockInv
      <4> QED
        BY <3>1, <4>1 DEF Read
    <3> QED
      BY <2>1, <2>3, <3>1, <3>2 DEF StockInv, Within
  <2> QED
    BY <2>4, <2>5
<1>3. ASSUME NEW p \in StockOps, p.kind = "restock", OpenBalance(p) PROVE StockInv'
  <2> DEFINE n == Normalized(p)
             costs == prices.flour \cup {n.cost}
  <2>1. /\ flour' = [flour EXCEPT !.qty = n.qty, !.wac = n.cost, !.version = @ + 1]
        /\ ~opened /\ opened' = TRUE
        /\ moved' = [moved EXCEPT !.flour = @ + n.qty]
        /\ prices' = [prices EXCEPT !.flour = costs]
        /\ UNCHANGED <<goods, runCost, pending>>
    BY <1>3 DEF OpenBalance, costVars
  <2>2. p.qty \in Nat /\ p.cost \in Nat /\ p.factor \in Nat \ {0}
    BY <1>3, BooksAssumption DEF StockRequests
  <2>3. n.qty \in Nat /\ n.cost \in Nat
    BY <2>2, NormalizedTypes
  <2> HIDE DEF n
  <2>4. /\ flour' \in FlourRows /\ flour'.version = flour.version + 1
        /\ flour'.qty = n.qty /\ flour'.wac = n.cost
    <3>1. flour = [qty |-> flour.qty, wac |-> flour.wac, latest |-> flour.latest,
                   repl |-> flour.repl, version |-> flour.version]
      BY <1>0 DEF FlourRows
    <3>2. flour' = [qty |-> n.qty, wac |-> n.cost, latest |-> flour.latest,
                    repl |-> flour.repl, version |-> flour.version + 1]
      BY <2>1, <3>1
    <3>3. flour.latest \in Nat \cup {Unknown} /\ flour.repl \in Nat \cup {Unknown}
      BY <1>0 DEF FlourRows
    <3> QED
      BY <1>t, <2>3, <3>2, <3>3 DEF FlourRows
  <2>5. Within(flour', costs)
    BY <1>0, <2>3, <2>4 DEF Within
  <2>6. moved' = [moved EXCEPT !.flour = flour'.qty]
    <3>1. moved.flour = 0
      BY <1>0, <2>1 DEF StockInv
    <3> QED
      BY <2>1, <2>3, <2>4, <3>1
  <2>7. /\ pending' = [c \in Clerks |-> pending'[c]]
        /\ \A c \in Clerks : pending'[c] = pending[c]
    BY <2>1 DEF StockInv
  <2> HIDE DEF costs
  <2> QED
    BY <2>1, <2>4, <2>5, <2>6, <2>7, FlourStep
<1>4. ASSUME NEW p \in GoodsRestocks, RestockGoods(p) PROVE StockInv'
  <2> DEFINE costs == prices.goods \cup {p.cost}
  <2>1. /\ goods' = Restocked(goods, p)
        /\ moved' = [moved EXCEPT !.goods = @ + p.qty]
        /\ prices' = [prices EXCEPT !.goods = costs]
        /\ UNCHANGED <<flour, opened, runCost, pending>>
    BY <1>4 DEF RestockGoods, costVars, flourVars
  <2>2. p.qty \in Nat /\ p.cost \in Nat
    BY BooksAssumption
  <2>3. /\ goods'.wac = WeightedAverage(goods.qty, goods.wac, p)
        /\ goods'.qty = goods.qty + p.qty /\ goods'.latest = p.cost
        /\ goods' = [qty |-> goods'.qty, wac |-> goods'.wac, latest |-> goods'.latest]
    BY <1>0, <2>1 DEF Restocked, GoodsRows
  <2>4. goods'.wac \in Nat /\ Within(goods', costs)
    BY <1>0, <1>t, <2>2, <2>3, RestockedWithin
  <2>5. goods' \in GoodsRows
    BY <1>t, <2>2, <2>3, <2>4 DEF GoodsRows
  <2>6. moved' = [moved EXCEPT !.goods = goods'.qty]
    BY <1>0, <2>1, <2>3
  <2>7. costs # {}
    OBVIOUS
  <2> HIDE DEF costs
  <2> QED
    BY <2>1, <2>4, <2>5, <2>6, <2>7, GoodsStep
<1>5. ASSUME NEW change \in GoodsChanges, AdjustGoods(change) PROVE StockInv'
  <2>1. /\ goods.qty + change >= 0
        /\ goods' = [goods EXCEPT !.qty = @ + change]
        /\ moved' = [moved EXCEPT !.goods = @ + change]
        /\ UNCHANGED <<flour, opened, runCost, pending, prices>>
    BY <1>5 DEF AdjustGoods, costVars, flourVars
  <2>2. change \in Int
    BY BooksAssumption
  <2>3. goods' \in GoodsRows /\ goods'.wac = goods.wac /\ goods'.qty = goods.qty + change
    BY <1>0, <1>t, <2>1, <2>2 DEF GoodsRows
  <2>4. prices.goods # {}
    BY DEF StockInv
  <2>5. Within(goods', prices.goods)
    BY <1>0, <2>3, <2>4, SameAverageWithin
  <2>6. /\ moved' = [moved EXCEPT !.goods = goods'.qty]
        /\ prices' = [prices EXCEPT !.goods = prices.goods]
    BY <1>0, <2>1, <2>3
  <2> QED
    BY <2>1, <2>3, <2>4, <2>5, <2>6, GoodsStep
<1> QED
  BY <1>1, <1>2, <1>3, <1>4, <1>5 DEF Stocking

(* A run takes flour from the stock at its average cost.                    *)
LEMMA BakingKeepsStock ==
  ASSUME StockInv, Baking
  PROVE  StockInv'
<1>0. /\ flour \in FlourRows /\ Within(flour, prices.flour)
      /\ prices = [flour |-> prices.flour, goods |-> prices.goods]
      /\ moved = [flour |-> flour.qty, goods |-> goods.qty]
      /\ pending = [c \in Clerks |-> pending[c]]
  BY DEF StockInv
<1>t. flour.qty \in Int /\ flour.wac \in Nat /\ flour.version \in Nat
  BY <1>0 DEF FlourRows
<1>1. ASSUME NEW r \in Runs, NEW d \in Dates, NEW n \in Batches, BookStart(r, d, n)
      PROVE  StockInv'
  <2>1. /\ \E unit, source, labor :
             runCost' = [runCost EXCEPT ![r] =
               [batches |-> n, flour |-> FlourOf(n), unit |-> unit, source |-> source,
                labor |-> labor]]
        /\ UNCHANGED <<flour, opened, goods, prices, moved, pending>>
    BY <1>1 DEF BookStart, flourVars, historyVars
  <2>2. FlourOf(n) \in Nat
    BY BooksAssumption DEF FlourOf, Scaled
  <2>3. /\ runCost' = [q \in Runs |-> runCost'[q]]
        /\ runCost'[r].flour \in Nat
        /\ \A q \in Runs \ {r} : runCost'[q] = runCost[q]
    BY <2>1, <2>2 DEF StockInv
  <2> QED
    BY <2>1, <2>3 DEF StockInv, Within, Read
<1>2. ASSUME NEW r \in Runs, NEW out \in Outputs,
             NEW used \in Usages \cup {IF runCost[r] = Unknown THEN 0 ELSE runCost[r].flour},
             BookFinish(r, out, used)
      PROVE  StockInv'
  <2>1. /\ flour' = [flour EXCEPT !.qty = @ - used, !.version = @ + 1]
        /\ moved' = [moved EXCEPT !.flour = @ - used]
        /\ opened' = TRUE
        /\ UNCHANGED <<goods, runCost, pending, prices>>
    BY <1>2 DEF BookFinish
  <2>2. used \in Nat
    BY BooksAssumption DEF StockInv
  <2>3. flour' = [qty |-> flour.qty - used, wac |-> flour.wac, latest |-> flour.latest,
                  repl |-> flour.repl, version |-> flour.version + 1]
    BY <1>0, <2>1 DEF FlourRows
  <2>4. flour.latest \in Nat \cup {Unknown} /\ flour.repl \in Nat \cup {Unknown}
    BY <1>0 DEF FlourRows
  <2>5. flour' \in FlourRows
    BY <1>t, <2>2, <2>3, <2>4 DEF FlourRows
  <2>6. Within(flour', prices.flour)
    <3>1. flour'.qty > 0 => prices.flour # {}
      BY <1>0, <1>t, <2>2, <2>3 DEF Within
    <3>2. flour'.wac = flour.wac
      BY <2>3
    <3> QED
      BY <1>0, <3>1, <3>2, SameAverageWithin
  <2>7. /\ moved' = [moved EXCEPT !.flour = flour'.qty]
        /\ prices' = [prices EXCEPT !.flour = prices.flour]
        /\ pending' = [c \in Clerks |-> pending'[c]]
        /\ flour'.version = flour.version + 1
    BY <1>0, <2>1, <2>3
  <2> QED
    BY <2>1, <2>5, <2>6, <2>7, FlourStep
<1>3. ASSUME NEW r \in Runs, BookCancelRun(r) PROVE StockInv'
  BY <1>3, QuietStock DEF BookCancelRun, bookVars, costVars, flourVars, historyVars
<1>4. ASSUME NEW n \in Outputs, NEW u \in Expiries, NEW c \in EnteredCosts, BookSurplus(n, u, c)
      PROVE  StockInv'
  BY <1>4, QuietStock DEF BookSurplus, flourVars, historyVars
<1>5. ASSUME NEW l \in Lots, NEW n \in Outputs, BookReduction(l, n) PROVE StockInv'
  BY <1>5, QuietStock DEF BookReduction, costVars, flourVars, historyVars
<1> QED
  BY <1>1, <1>2, <1>3, <1>4, <1>5 DEF Baking

(* Completion takes no more cups than there are; nothing else a seller does  *)
(* moves stock.                                                             *)
LEMMA SellingKeepsStock ==
  ASSUME BillInv, StockInv, NEW o \in Orders, Selling(o)
  PROVE  StockInv'
<1> USE DEF costVars, flourVars, historyVars
<1>1. ASSUME NEW req \in Requests[o], NEW c \in BOOLEAN, WriteDraft(o, req, c)
      PROVE  StockInv'
  BY <1>1, QuietStock DEF WriteDraft
<1>2. ASSUME NEW n, NEW p, NEW a, NEW r, NEW c, ReviseDraft(o, n, p, a, r, c)
      PROVE  StockInv'
  BY <1>2, QuietStock DEF ReviseDraft, Rewrite
<1>3. ASSUME NEW n, NEW p, NEW a, NEW d, NEW c, Revise(o, n, d, p, a, c)
      PROVE  StockInv'
  BY <1>3, QuietStock DEF Revise, Rewrite
<1>4. ASSUME NEW p, NEW a, NEW c, Reprice(o, p, a, c) PROVE StockInv'
  BY <1>4, QuietStock DEF Reprice, Rewrite
<1>5. ASSUME NEW a, NEW c, Pay(o, a, c) PROVE StockInv'
  BY <1>5, QuietStock DEF Pay
<1>6. ASSUME NEW c, DropDraft(o, c) PROVE StockInv'
  BY <1>6, QuietStock DEF DropDraft
<1>7. ASSUME BookConfirm(o) PROVE StockInv'
  BY <1>7, QuietStock DEF BookConfirm
<1>8. ASSUME BookCancel(o) PROVE StockInv'
  BY <1>8, QuietStock DEF BookCancel
<1>9. ASSUME BookComplete(o) PROVE StockInv'
  <2> DEFINE n == CupsOf(o)
  <2>1. /\ status[o] = "READY" /\ n <= goods.qty
        /\ goods' = [goods EXCEPT !.qty = @ - n]
        /\ moved' = [moved EXCEPT !.goods = @ - n]
        /\ UNCHANGED <<flour, opened, runCost, pending, prices>>
    BY <1>9 DEF BookComplete, CompleteOrder, CupsSuffice
  <2>2. n \in Nat
    <3>1. Shaped(o, bill[o])
      BY <2>1 DEF BillInv
    <3>2. "cups" \in DOMAIN bill[o].lines => bill[o].lines["cups"] \in BillLines
      BY <3>1 DEF Shaped
    <3> QED
      BY <3>2 DEF CupsOf, BillLines
  <2> HIDE DEF n
  <2>3. /\ goods \in GoodsRows /\ Within(goods, prices.goods) /\ prices.goods # {}
        /\ prices = [flour |-> prices.flour, goods |-> prices.goods]
        /\ moved = [flour |-> flour.qty, goods |-> goods.qty]
    BY DEF StockInv
  <2>4. goods' \in GoodsRows /\ goods'.qty = goods.qty - n /\ goods'.wac = goods.wac
    BY <2>1, <2>2, <2>3 DEF GoodsRows
  <2>5. Within(goods', prices.goods)
    BY <2>3, <2>4, SameAverageWithin
  <2>6. /\ moved' = [moved EXCEPT !.goods = goods'.qty]
        /\ prices' = [prices EXCEPT !.goods = prices.goods]
    BY <2>1, <2>3, <2>4
  <2> QED
    BY <2>1, <2>3, <2>4, <2>5, <2>6, GoodsStep
<1>10. ASSUME BookRest(o) PROVE StockInv'
  BY <1>10, QuietStock DEF BookRest
<1> QED
  BY <1>1, <1>2, <1>3, <1>4, <1>5, <1>6, <1>7, <1>8, <1>9, <1>10 DEF Selling

(* So no step breaks the books.                                             *)
LEMMA StockInvKept ==
  ASSUME BillInv, StockInv, [BooksNext]_booksVars
  PROVE  StockInv'
<1>1. ASSUME NEW option \in Catalogues, ChangeCatalogue(option) PROVE StockInv'
  BY <1>1, QuietStock DEF ChangeCatalogue, costVars, flourVars, historyVars
<1>2. CASE BookDay
  BY <1>2, QuietStock DEF BookDay, costVars, flourVars, historyVars
<1>3. CASE UNCHANGED booksVars
  BY <1>3, QuietStock DEF booksVars, bookVars, costVars, flourVars, historyVars
<1> QED
  BY <1>1, <1>2, <1>3, SellingKeepsStock, StockingKeepsStock, BakingKeepsStock DEF BooksNext

(* The invariants of the books hold in every behaviour.                     *)
LEMMA BooksHold == BooksSpec => [](BillInv /\ StockInv)
<1>1. BooksInit => BillInv /\ StockInv
  BY BillsOpen, StockOpens
<1>2. BillInv /\ StockInv /\ [BooksNext]_booksVars => (BillInv /\ StockInv)'
  BY BillSteps, BillInvKept, StockInvKept
<1> QED
  BY <1>1, <1>2, PTL DEF BooksSpec

(* However many requests about flour are computed at the same time, the      *)
(* balance of either stock is the sum of its ledger: the version an UPDATE   *)
(* names keeps one request from overwriting another.                        *)
THEOREM BalancesAddUp == BooksSpec => []BalanceIsLedgerSum
<1>1. BillInv /\ StockInv => BalanceIsLedgerSum
  BY StockInvMeans
<1> QED
  BY <1>1, BooksHold, PTL

(* However often a stock is bought, used up, counted and overdrawn, at any   *)
(* prices, its average cost lies between costs that were entered: the        *)
(* rounding of WeightedAverage and a balance below zero never push it out.   *)
THEOREM AveragesStayBetweenPrices == BooksSpec => []CostBetweenPrices
<1>1. BillInv /\ StockInv => CostBetweenPrices
  BY StockInvMeans
<1> QED
  BY <1>1, BooksHold, PTL

----------------------------------------------------------------------------
(* What the operations of Production do to the rows the books look at.      *)

Ended == {"COMPLETED", "CANCELED"}

(* The drafts and the ended Orders are those of st, ended the same way.     *)
Course(st) ==
  \A u \in Orders : /\ status'[u] = "DRAFT" <=> st[u] = "DRAFT"
                    /\ status'[u] \in Ended <=> st[u] \in Ended
                    /\ st[u] \in Ended => status'[u] = st[u]

SameRuns == \A r \in Runs : runState'[r] = "FREE" <=> runState[r] = "FREE"
SameLots == \A l \in Lots : lot'[l].until = lot[l].until

(* Nothing a cost depends on moves.                                         *)
Calm == completed' = completed /\ SameRuns /\ SameLots

(* Satisfaction and readiness leave drafts and ended Orders what they are.  *)
LEMMA SettleCourse ==
  ASSUME NEW st \in [Orders -> Statuses], NEW q, NEW d, NEW comp, NEW lt, NEW al, NEW fz,
         NEW act, NEW impaired, Settle(st, q, d, comp, lt, al, fz, act, impaired)
  PROVE  Course(st) /\ qty' = q /\ completed' = comp /\ lot' = lt
<1>1. PICK al2 : status' = Evaluated(st, q, comp, al2, rest)
  BY DEF Settle
<1>2. ASSUME NEW u \in Orders
      PROVE  /\ status'[u] \in Live <=> st[u] \in Live
             /\ st[u] \notin Live => status'[u] = st[u]
  BY <1>1, EvaluatedType
<1>3. Course(st)
  BY <1>2 DEF Course, Ended, Live
<1> QED
  BY <1>3 DEF Settle

(* The operations on an Order.                                              *)
LEMMA OrderCourse ==
  ASSUME ProdInv, NEW o \in Orders
  PROVE  /\ Confirm(o) => /\ Calm /\ qty' = qty /\ status[o] = "DRAFT"
                          /\ Course([status EXCEPT ![o] = "CONFIRMED"])
         /\ Cancel(o) => Calm /\ qty' = qty /\ Course([status EXCEPT ![o] = "CANCELED"])
         /\ CompleteOrder(o) => /\ Calm /\ qty' = qty /\ status[o] = "READY"
                                /\ Course([status EXCEPT ![o] = "COMPLETED"])
         /\ \A n, d : Edit(o, n, d) => /\ Calm /\ qty' = [qty EXCEPT ![o] = n]
                                       /\ Course(status) /\ status[o] = "CONFIRMED"
         /\ RestChange(o) => Calm /\ qty' = qty /\ Course(status)
<1>0. /\ status \in [Orders -> Statuses] /\ lot \in Shelves
      /\ UNCHANGED runVars => SameRuns
      /\ lot' = lot => SameLots
  BY InvTypes DEF SameRuns, SameLots, runVars
<1>1. ASSUME Confirm(o)
      PROVE  /\ Calm /\ qty' = qty /\ status[o] = "DRAFT"
             /\ Course([status EXCEPT ![o] = "CONFIRMED"])
  <2>1. PICK st : st = [status EXCEPT ![o] = "CONFIRMED"]
    OBVIOUS
  <2>2. st \in [Orders -> Statuses]
    BY <1>0, <2>1 DEF Statuses, Live
  <2>3. /\ Settle(st, qty, due, completed, lot, alloc, frozen, Activity, {})
        /\ UNCHANGED runVars /\ status[o] = "DRAFT"
    BY <1>1, <2>1 DEF Confirm
  <2> QED
    BY <1>0, <2>1, <2>2, <2>3, SettleCourse DEF Calm
<1>2. ASSUME Cancel(o)
      PROVE  Calm /\ qty' = qty /\ Course([status EXCEPT ![o] = "CANCELED"])
  <2>1. PICK st : st = [status EXCEPT ![o] = "CANCELED"]
    OBVIOUS
  <2>2. st \in [Orders -> Statuses]
    BY <1>0, <2>1 DEF Statuses
  <2>3. /\ Settle(st, qty, due, completed, lot, alloc, frozen, Activity, {})
        /\ UNCHANGED runVars
    BY <1>2, <2>1 DEF Cancel
  <2> QED
    BY <1>0, <2>1, <2>2, <2>3, SettleCourse DEF Calm
<1>3. ASSUME CompleteOrder(o)
      PROVE  /\ Calm /\ qty' = qty /\ status[o] = "READY"
             /\ Course([status EXCEPT ![o] = "COMPLETED"])
  <2>1. PICK st, al : /\ st = [status EXCEPT ![o] = "COMPLETED"]
                      /\ al = [l \in Lots |-> [alloc[l] EXCEPT ![o] = 0]]
    OBVIOUS
  <2>2. st \in [Orders -> Statuses]
    BY <1>0, <2>1 DEF Statuses
  <2>3. /\ Settle(st, qty, due, completed, Consumed(o), al, frozen, Activity, {})
        /\ UNCHANGED runVars /\ status[o] = "READY"
    BY <1>3, <2>1 DEF CompleteOrder
  <2>4. Course(st) /\ qty' = qty /\ completed' = completed /\ lot' = Consumed(o)
    BY <2>2, <2>3, SettleCourse
  <2>5. SameLots
    <3>1. \A l \in Lots : Consumed(o)[l].until = lot[l].until
      BY <1>0 DEF Consumed, Shelves
    <3> QED
      BY <2>4, <3>1 DEF SameLots
  <2> QED
    BY <1>0, <2>1, <2>3, <2>4, <2>5 DEF Calm
<1>4. ASSUME NEW n, NEW d, Edit(o, n, d)
      PROVE  /\ Calm /\ qty' = [qty EXCEPT ![o] = n]
             /\ Course(status) /\ status[o] = "CONFIRMED"
  <2>1. PICK q, e : q = [qty EXCEPT ![o] = n] /\ e = [due EXCEPT ![o] = d]
    OBVIOUS
  <2>2. /\ Settle(status, q, e, completed, lot, alloc, frozen, Activity, {})
        /\ UNCHANGED runVars /\ status[o] = "CONFIRMED"
    BY <1>4, <2>1 DEF Edit
  <2> QED
    BY <1>0, <2>1, <2>2, SettleCourse DEF Calm
<1>5. ASSUME RestChange(o) PROVE Calm /\ qty' = qty /\ Course(status)
  <2>1. /\ status' = Evaluated(status, qty, completed, alloc, rest')
        /\ UNCHANGED <<qty, completed, lot, runVars>>
    BY <1>5 DEF RestChange, stockVars
  <2>2. \A u \in Orders : /\ status'[u] \in Live <=> status[u] \in Live
                          /\ status[u] \notin Live => status'[u] = status[u]
    BY <1>0, <2>1, EvaluatedType
  <2>3. Course(status)
    BY <2>2 DEF Course, Ended, Live
  <2> QED
    BY <1>0, <2>1, <2>3 DEF Calm
<1> QED
  BY <1>1, <1>2, <1>3, <1>4, <1>5

(* The operations on runs and lots, and the clock.                          *)
LEMMA BakingCourse ==
  ASSUME ProdInv
  PROVE  /\ \A r, d : Start(r, d) =>
              /\ Course(status) /\ qty' = qty /\ completed' = completed /\ lot' = lot
              /\ runState[r] = "FREE" /\ runState' = [runState EXCEPT ![r] = "IN_PRODUCTION"]
         /\ \A r, out : Finish(r, out) => Course(status) /\ qty' = qty /\ SameRuns
         /\ \A r : CancelRun(r) => Calm /\ qty' = qty /\ Course(status)
         /\ \A n, u : CreateSurplus(n, u) =>
              /\ Course(status) /\ qty' = qty /\ completed' = completed /\ SameRuns
              /\ lot' = Shelved(lot, n, u) /\ HasShelf
         /\ \A l \in Lots : \A n : ReduceSlack(l, n) \/ ReducePromised(l, n) =>
              Calm /\ qty' = qty /\ Course(status)
         /\ AdvanceDay \/ UNCHANGED vars => Calm /\ qty' = qty /\ Course(status)
<1>0. /\ status \in [Orders -> Statuses] /\ lot \in Shelves
      /\ runState \in [Runs -> {"FREE", "IN_PRODUCTION", "COMPLETED", "CANCELED"}]
      /\ UNCHANGED runVars => SameRuns
      /\ lot' = lot => SameLots
      /\ status' = status => Course(status)
  BY InvTypes DEF RunTypes, SameRuns, SameLots, runVars, Course
<1>1. ASSUME NEW r, NEW d, Start(r, d)
      PROVE  /\ Course(status) /\ qty' = qty /\ completed' = completed /\ lot' = lot
             /\ runState[r] = "FREE" /\ runState' = [runState EXCEPT ![r] = "IN_PRODUCTION"]
  BY <1>0, <1>1 DEF Start, orderVars, stockVars
<1>2. ASSUME NEW r, NEW out, Finish(r, out) PROVE Course(status) /\ qty' = qty /\ SameRuns
  <2>1. PICK comp, lt, act : Settle(status, qty, due, comp, lt, alloc, Released(r), act, {})
    BY <1>2 DEF Finish
  <2>2. runState[r] = "IN_PRODUCTION" /\ runState' = [runState EXCEPT ![r] = "COMPLETED"]
    BY <1>2 DEF Finish
  <2>3. SameRuns
    BY <1>0, <2>2 DEF SameRuns
  <2> QED
    BY <1>0, <2>1, <2>3, SettleCourse
<1>3. ASSUME NEW r, CancelRun(r) PROVE Calm /\ qty' = qty /\ Course(status)
  <2>1. /\ Settle(status, qty, due, completed, lot, alloc, Released(r),
                  Activity \ {runDate[r]}, {})
        /\ runState[r] = "IN_PRODUCTION" /\ runState' = [runState EXCEPT ![r] = "CANCELED"]
    BY <1>3 DEF CancelRun
  <2>2. SameRuns
    BY <1>0, <2>1 DEF SameRuns
  <2> QED
    BY <1>0, <2>1, <2>2, SettleCourse DEF Calm
<1>4. ASSUME NEW n, NEW u, CreateSurplus(n, u)
      PROVE  /\ Course(status) /\ qty' = qty /\ completed' = completed /\ SameRuns
             /\ lot' = Shelved(lot, n, u) /\ HasShelf
  <2>1. /\ Settle(status, qty, due, completed, Shelved(lot, n, u), alloc, frozen, Activity, {})
        /\ UNCHANGED runVars /\ HasShelf
    BY <1>4 DEF CreateSurplus
  <2> QED
    BY <1>0, <2>1, SettleCourse
<1>5. ASSUME NEW l \in Lots, NEW n, ReduceSlack(l, n) \/ ReducePromised(l, n)
      PROVE  Calm /\ qty' = qty /\ Course(status)
  <2>0. PICK lt : lt = [lot EXCEPT ![l].physical = n]
    OBVIOUS
  <2>1. \A m \in Lots : lt[m].until = lot[m].until
    BY <1>0, <2>0 DEF Shelves
  <2>2. lot' = lt => SameLots
    BY <2>1 DEF SameLots
  <2>3. CASE ReduceSlack(l, n)
    BY <1>0, <2>0, <2>2, <2>3 DEF ReduceSlack, orderVars, Calm
  <2>4. CASE ReducePromised(l, n)
    <3>1. /\ Settle(status, qty, due, completed, lt, alloc, frozen, Activity, {l})
          /\ UNCHANGED runVars
      BY <2>0, <2>4 DEF ReducePromised
    <3> QED
      BY <1>0, <2>2, <3>1, SettleCourse DEF Calm
  <2> QED
    BY <1>5, <2>3, <2>4
<1>6. ASSUME AdvanceDay \/ UNCHANGED vars PROVE Calm /\ qty' = qty /\ Course(status)
  BY <1>0, <1>6 DEF AdvanceDay, vars, orderVars, stockVars, Calm
<1> QED
  BY <1>1, <1>2, <1>3, <1>4, <1>5, <1>6

----------------------------------------------------------------------------
(* The books follow Production: what is charged for is what is asked for,    *)
(* and an Order has a day of its end once it ended (the second conjunct says *)
(* no more than that closedOn has a day for each Order).                     *)

FlowInv ==
  /\ \A o \in Orders : status[o] # "DRAFT" => bill[o].lines["bread"].units = qty[o]
  /\ closedOn = [o \in Orders |-> closedOn[o]]
  /\ \A o \in Orders : closedOn[o] > 0 <=> status[o] \in Ended

(* Steps that end no Order.                                                 *)
LEMMA FlowKept ==
  ASSUME FlowInv, Course(status), closedOn' = closedOn,
         \A u \in Orders : status[u] # "DRAFT" => bill'[u].lines["bread"].units = qty'[u]
  PROVE  FlowInv'
  BY DEF FlowInv, Course

(* Steps that end one.                                                      *)
LEMMA FlowEnds ==
  ASSUME ProdInv, FlowInv, NEW o \in Orders, NEW s \in Ended, Course([status EXCEPT ![o] = s]),
         ClosedNow(o), status[o] # "DRAFT", bill' = bill, qty' = qty
  PROVE  FlowInv'
<1>1. PICK st : st = [status EXCEPT ![o] = s]
  OBVIOUS
<1>2. status \in [Orders -> Statuses] /\ today \in 1..Horizon /\ Horizon \in Nat
  BY InvTypes, ProductionAssumption
<1>3. st[o] = s /\ \A u \in Orders \ {o} : st[u] = status[u]
  BY <1>1, <1>2
<1>4. /\ closedOn' = [u \in Orders |-> closedOn'[u]]
      /\ closedOn'[o] = today /\ \A u \in Orders \ {o} : closedOn'[u] = closedOn[u]
  BY DEF FlowInv, ClosedNow
<1>5. Course(st)
  BY <1>1
<1>6. ASSUME NEW u \in Orders PROVE closedOn'[u] > 0 <=> status'[u] \in Ended
  <2>1. CASE u = o
    BY <1>2, <1>3, <1>4, <1>5, <2>1 DEF Course
  <2>2. CASE u # o
    BY <1>3, <1>4, <1>5, <2>2 DEF Course, FlowInv
  <2> QED
    BY <2>1, <2>2
<1>7. ASSUME NEW u \in Orders, status'[u] # "DRAFT" PROVE status[u] # "DRAFT"
  <2>1. CASE u = o
    BY <2>1
  <2>2. CASE u # o
    BY <1>3, <1>5, <1>7, <2>2 DEF Course
  <2> QED
    BY <2>1, <2>2
<1> QED
  BY <1>4, <1>6, <1>7 DEF FlowInv

(* So many packages of what was agreed is a quantity.                       *)
LEMMA RevisedUnits ==
  ASSUME NEW line, Packed(line), NEW n \in Packages, NEW p
  PROVE  /\ EditedLine(line, n, p).units \in Quantities
         /\ EditedLine(line, line.packages, p).units = line.units
<1>1. line \in BillLines /\ n \in Nat \ {0}
  BY BooksAssumption DEF Packed
<1>2. PICK option \in Catalogues : line.units = line.packages * option.units
  BY DEF Packed
<1>3. PICK k \in Nat \ {0} : k = option.units
  BY BooksAssumption
<1>4. line.packages \in Nat \ {0}
  BY <1>1 DEF BillLines
<1>5. n * k \in Quantities
  BY <1>3, BooksAssumption
<1>6. EditedLine(line, line.packages, p).units = line.units
  BY <1>1 DEF EditedLine, BillLines
<1>7. CASE n = line.packages
  BY <1>2, <1>3, <1>5, <1>6, <1>7
<1>8. CASE n # line.packages
  <2>1. EditedLine(line, n, p).units = (n * line.units) \div line.packages
    BY <1>8 DEF EditedLine, Rescaled
  <2>2. (n * line.units) \div line.packages = n * k
    BY <1>1, <1>2, <1>3, <1>4, ExactQuotient
  <2> QED
    BY <1>5, <1>6, <2>1, <2>2
<1> QED
  BY <1>6, <1>7, <1>8

(* A step that leaves Production alone leaves its invariant alone.          *)
LEMMA StillProduction == ASSUME ProdInv, UNCHANGED vars PROVE ProdInv'
  BY NextGood

(* The seller's operations on one Order.                                    *)
LEMMA SellingFlows ==
  ASSUME ProdInv, BillInv, FlowInv, NEW o \in Orders, Selling(o)
  PROVE  ProdInv' /\ FlowInv'
<1>0. /\ DOMAIN bill = Orders
      /\ status[o] # "DRAFT" => Shaped(o, bill[o])
      /\ \A u \in Orders : status[u] # "DRAFT" => bill[u].lines["bread"].units = qty[u]
      /\ UNCHANGED vars => Course(status) /\ qty' = qty
  BY BakingCourse DEF BillInv, FlowInv
<1>1. ASSUME NEW req \in Requests[o], NEW c \in BOOLEAN, WriteDraft(o, req, c)
      PROVE  ProdInv' /\ FlowInv'
  <2>1. /\ status[o] = "DRAFT" /\ UNCHANGED vars /\ closedOn' = closedOn
        /\ \E new : bill' = [bill EXCEPT ![o] = new]
    BY <1>1 DEF WriteDraft
  <2>2. \A u \in Orders \ {o} : bill'[u] = bill[u]
    BY <2>1
  <2> QED
    BY <1>0, <2>1, <2>2, FlowKept, StillProduction
<1>2. ASSUME NEW n \in Packages, NEW p \in Asked, NEW a \in Adjustments, NEW r \in BOOLEAN,
             NEW c \in BOOLEAN, ReviseDraft(o, n, p, a, r, c)
      PROVE  ProdInv' /\ FlowInv'
  <2>1. /\ status[o] = "DRAFT" /\ UNCHANGED vars /\ closedOn' = closedOn
        /\ \E new : bill' = [bill EXCEPT ![o] = new]
    BY <1>2 DEF ReviseDraft, Rewrite
  <2>2. \A u \in Orders \ {o} : bill'[u] = bill[u]
    BY <2>1
  <2> QED
    BY <1>0, <2>1, <2>2, FlowKept, StillProduction
<1>3. ASSUME NEW n \in Packages, NEW p \in Asked, NEW a \in Adjustments, NEW d \in Dates,
             NEW c \in BOOLEAN, Revise(o, n, d, p, a, c)
      PROVE  ProdInv' /\ FlowInv'
  <2>1. PICK new : new = Edited(o, n, p, a)
    OBVIOUS
  <2>2. PICK k : k = new.lines["bread"].units
    OBVIOUS
  <2>3. Edit(o, k, d) /\ bill' = [bill EXCEPT ![o] = new] /\ closedOn' = closedOn
    BY <1>3, <2>1, <2>2 DEF Revise, Rewrite
  <2>4. Course(status) /\ status[o] = "CONFIRMED" /\ qty' = [qty EXCEPT ![o] = k]
    BY <2>3, OrderCourse
  <2>5. Shaped(o, bill[o]) /\ Packed(bill[o].lines["bread"]) /\ n \in Nat \ {0}
    BY <1>0, <2>4, BooksAssumption DEF Shaped
  <2>6. new.lines["bread"] = EditedLine(bill[o].lines["bread"], n, p)
    BY <2>1, <2>5, EditedShaped
  <2>7. k \in Quantities
    BY <2>2, <2>5, <2>6, RevisedUnits
  <2>8. ProdInv'
    BY <2>3, <2>7, EditGood
  <2>9. qty \in [Orders -> Quantities]
    BY InvTypes
  <2>10. \A u \in Orders : status[u] # "DRAFT" => bill'[u].lines["bread"].units = qty'[u]
    BY <1>0, <2>2, <2>3, <2>4, <2>9
  <2> QED
    BY <2>3, <2>4, <2>8, <2>10, FlowKept
<1>4. ASSUME NEW p \in Asked, NEW a \in Adjustments, NEW c \in BOOLEAN, Reprice(o, p, a, c)
      PROVE  ProdInv' /\ FlowInv'
  <2>1. PICK n : n = bill[o].lines["bread"].packages
    OBVIOUS
  <2>2. PICK new : new = Edited(o, n, p, a)
    OBVIOUS
  <2>3. /\ status[o] = "CONFIRMED" /\ UNCHANGED vars /\ closedOn' = closedOn
        /\ bill' = [bill EXCEPT ![o] = new]
    BY <1>4, <2>1, <2>2 DEF Reprice, Rewrite
  <2>4. Shaped(o, bill[o]) /\ Packed(bill[o].lines["bread"]) /\ n \in Nat \ {0}
    BY <1>0, <2>1, <2>3 DEF Shaped, Packed, BillLines
  <2>5. new.lines["bread"] = EditedLine(bill[o].lines["bread"], n, p)
    BY <2>2, <2>4, EditedShaped
  <2>6. new.lines["bread"].units = bill[o].lines["bread"].units
    BY <2>1, <2>4, <2>5 DEF EditedLine, Packed, BillLines
  <2>7. \A u \in Orders : status[u] # "DRAFT" => bill'[u].lines["bread"].units = qty[u]
    BY <1>0, <2>3, <2>6
  <2> QED
    BY <1>0, <2>3, <2>7, FlowKept, StillProduction
<1>5. ASSUME NEW a \in Payments, NEW c \in BOOLEAN, Pay(o, a, c) PROVE ProdInv' /\ FlowInv'
  <2>1. UNCHANGED vars /\ closedOn' = closedOn /\ bill' = bill
    BY <1>5 DEF Pay
  <2> QED
    BY <1>0, <2>1, FlowKept, StillProduction
<1>6. ASSUME NEW c \in BOOLEAN, DropDraft(o, c) PROVE ProdInv' /\ FlowInv'
  <2>1. /\ status[o] = "DRAFT" /\ UNCHANGED vars /\ closedOn' = closedOn
        /\ bill' = [bill EXCEPT ![o] = Unknown]
    BY <1>6 DEF DropDraft
  <2>2. \A u \in Orders \ {o} : bill'[u] = bill[u]
    BY <2>1
  <2> QED
    BY <1>0, <2>1, <2>2, FlowKept, StillProduction
<1>7. ASSUME BookConfirm(o) PROVE ProdInv' /\ FlowInv'
  <2>1. /\ bill[o].lines["bread"].units = qty[o] /\ Confirm(o)
        /\ closedOn' = closedOn /\ bill' = bill
    BY <1>7 DEF BookConfirm, billVars
  <2>2. PICK st : st = [status EXCEPT ![o] = "CONFIRMED"]
    OBVIOUS
  <2>3. ProdInv' /\ qty' = qty /\ Course(st) /\ status[o] = "DRAFT"
    BY <2>1, <2>2, OrderCourse, ConfirmGood
  <2>4. \A u \in Orders : st[u] = IF u = o THEN "CONFIRMED" ELSE status[u]
    BY <2>2, InvTypes
  <2>5. FlowInv'
    BY <1>0, <2>1, <2>3, <2>4 DEF FlowInv, Course, Ended
  <2> QED
    BY <2>3, <2>5
<1>8. ASSUME BookCancel(o) PROVE ProdInv' /\ FlowInv'
  <2>1. Cancel(o) /\ ClosedNow(o) /\ bill' = bill /\ status[o] # "DRAFT"
    BY <1>8 DEF BookCancel, billVars, Cancel, Live
  <2>2. ProdInv' /\ qty' = qty /\ Course([status EXCEPT ![o] = "CANCELED"])
    BY <2>1, OrderCourse, CancelGood
  <2> QED
    BY <2>1, <2>2, FlowEnds DEF Ended
<1>9. ASSUME BookComplete(o) PROVE ProdInv' /\ FlowInv'
  <2>1. CompleteOrder(o) /\ ClosedNow(o) /\ bill' = bill /\ status[o] # "DRAFT"
    BY <1>9 DEF BookComplete, billVars, CompleteOrder
  <2>2. ProdInv' /\ qty' = qty /\ Course([status EXCEPT ![o] = "COMPLETED"])
    BY <2>1, OrderCourse, CompleteOrderGood
  <2> QED
    BY <2>1, <2>2, FlowEnds DEF Ended
<1>10. ASSUME BookRest(o) PROVE ProdInv' /\ FlowInv'
  <2>1. RestChange(o) /\ closedOn' = closedOn /\ bill' = bill
    BY <1>10 DEF BookRest, billVars
  <2> QED
    BY <1>0, <2>1, OrderCourse, RestChangeGood, FlowKept
<1> QED
  BY <1>1, <1>2, <1>3, <1>4, <1>5, <1>6, <1>7, <1>8, <1>9, <1>10 DEF Selling

(* The outputs, runs and clock of Production, as the books take part in them. *)
LEMMA OthersFlow ==
  ASSUME ProdInv, BillInv, FlowInv,
         Stocking \/ Baking \/ BookDay \/ \E option \in Catalogues : ChangeCatalogue(option)
  PROVE  ProdInv' /\ FlowInv'
<1>0. \A u \in Orders : status[u] # "DRAFT" => bill[u].lines["bread"].units = qty[u]
  BY DEF FlowInv
<1>1. ASSUME NEW option \in Catalogues, ChangeCatalogue(option) PROVE ProdInv' /\ FlowInv'
  <2>1. UNCHANGED vars /\ closedOn' = closedOn /\ bill' = bill
    BY <1>1 DEF ChangeCatalogue, billVars
  <2> QED
    BY <1>0, <2>1, BakingCourse, FlowKept, StillProduction
<1>2. CASE BookDay
  <2>1. AdvanceDay /\ closedOn' = closedOn /\ bill' = bill
    BY <1>2 DEF BookDay, billVars
  <2>2. ProdInv'
    BY <2>1, NextGood DEF Next
  <2> QED
    BY <1>0, <2>1, <2>2, BakingCourse, FlowKept
<1>3. CASE Stocking
  <2>1. UNCHANGED vars /\ bill' = bill /\ closedOn' = closedOn
    BY <1>3 DEF Stocking, BeginStock, CommitStock, OpenBalance, RestockGoods, AdjustGoods, billVars
  <2> QED
    BY <1>0, <2>1, BakingCourse, FlowKept, StillProduction
<1>4. CASE Baking
  <2>1. ASSUME NEW r \in Runs, NEW d \in Dates, NEW n \in Batches, BookStart(r, d, n)
        PROVE  ProdInv' /\ FlowInv'
    <3>1. Start(r, d) /\ closedOn' = closedOn /\ bill' = bill
      BY <2>1 DEF BookStart, billVars
    <3> QED
      BY <1>0, <3>1, StartGood, BakingCourse, FlowKept
  <2>2. ASSUME NEW r \in Runs, NEW out \in Outputs, NEW used, BookFinish(r, out, used)
        PROVE  ProdInv' /\ FlowInv'
    <3>1. Finish(r, out) /\ closedOn' = closedOn /\ bill' = bill
      BY <2>2 DEF BookFinish, billVars
    <3> QED
      BY <1>0, <3>1, FinishGood, BakingCourse, FlowKept
  <2>3. ASSUME NEW r \in Runs, BookCancelRun(r) PROVE ProdInv' /\ FlowInv'
    <3>1. CancelRun(r) /\ closedOn' = closedOn /\ bill' = bill
      BY <2>3 DEF BookCancelRun, bookVars, billVars
    <3> QED
      BY <1>0, <3>1, CancelRunGood, BakingCourse, FlowKept
  <2>4. ASSUME NEW n \in Outputs, NEW u \in Expiries, NEW c \in EnteredCosts,
               BookSurplus(n, u, c)
        PROVE  ProdInv' /\ FlowInv'
    <3>1. CreateSurplus(n, u) /\ closedOn' = closedOn /\ bill' = bill
      BY <2>4 DEF BookSurplus, billVars
    <3> QED
      BY <1>0, <3>1, CreateSurplusGood, BakingCourse, FlowKept
  <2>5. ASSUME NEW l \in Lots, NEW n \in Outputs, BookReduction(l, n)
        PROVE  ProdInv' /\ FlowInv'
    <3>1. /\ ReduceSlack(l, n) \/ ReducePromised(l, n)
          /\ closedOn' = closedOn /\ bill' = bill
      BY <2>5 DEF BookReduction, billVars
    <3> QED
      BY <1>0, <3>1, ReduceSlackGood, ReducePromisedGood, BakingCourse, FlowKept
  <2> QED
    BY <1>4, <2>1, <2>2, <2>3, <2>4, <2>5 DEF Baking
<1> QED
  BY <1>1, <1>2, <1>3, <1>4

(* Every step of the books keeps what Production keeps.                     *)
LEMMA FlowSteps ==
  ASSUME ProdInv, BillInv, FlowInv, [BooksNext]_booksVars
  PROVE  ProdInv' /\ FlowInv'
<1>1. CASE BooksNext
  BY <1>1, SellingFlows, OthersFlow DEF BooksNext
<1>2. CASE UNCHANGED booksVars
  <2>1. UNCHANGED vars /\ bill' = bill /\ closedOn' = closedOn
    BY <1>2 DEF booksVars, bookVars, billVars
  <2>2. \A u \in Orders : status[u] # "DRAFT" => bill[u].lines["bread"].units = qty[u]
    BY DEF FlowInv
  <2> QED
    BY <2>1, <2>2, BakingCourse, FlowKept, StillProduction
<1> QED
  BY <1>1, <1>2

(* The books open with drafts only.                                         *)
LEMMA FlowOpens == BooksInit => ProdInv /\ FlowInv
<1> SUFFICES ASSUME BooksInit PROVE ProdInv /\ FlowInv
  OBVIOUS
<1>1. Init /\ closedOn = [o \in Orders |-> 0]
  BY DEF BooksInit
<1>2. ProdInv
  BY <1>1, InitGood
<1>3. FlowInv
  BY <1>1 DEF Init, FlowInv, Ended
<1> QED
  BY <1>2, <1>3

============================================================================
