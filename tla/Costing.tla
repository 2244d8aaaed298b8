------------------------------ MODULE Costing ------------------------------
(***************************************************************************)
(* The arithmetic of money and goods, without state.  Amounts are integers: *)
(* money in cents (NUMERIC(14,2)), unit costs and run totals in the finer   *)
(* unit of NUMERIC(18,6), of which Fine make a cent (10,000 in the code).   *)
(* Quantities are integers, of the quantum quantities are stored in.        *)
(***************************************************************************)
EXTENDS Integers, FiniteSets, FiniteSetsExt, SequencesExt

CONSTANTS
  Fine,       \* fine units of cost in a cent
  MaxMoney,   \* the largest amount a money column holds
  MaxAmount,  \* the largest quantity or fine amount a column holds
  Unknown     \* NULL

ASSUME CostingAssumption ==
  /\ {Fine, MaxMoney, MaxAmount} \subseteq Nat \ {0}
  /\ Unknown \notin Int

(* ROUND_HALF_UP of a / b, for a >= 0 and b > 0.                            *)
RoundDiv(a, b) == (2 * a + b) \div (2 * b)

Cents(fine) == RoundDiv(fine, Fine)
FitsMoney(x) == -MaxMoney <= x /\ x <= MaxMoney
FitsAmount(x) == -MaxAmount <= x /\ x <= MaxAmount

AddUp(s) == FoldLeft(LAMBDA x, y : x + y, 0, s)

----------------------------------------------------------------------------
(* Stock.                                                                   *)

(* A purchase in a unit of `factor` canonical units, normalized.            *)
Normalized(p) == [qty |-> p.qty * p.factor, cost |-> RoundDiv(p.cost, p.factor)]

(* The fault of blending whatever the balance is.                           *)
BlendedWithDebt(q, wac, p) ==
  IF q + p.qty = 0 THEN p.cost ELSE (q * wac + p.qty * p.cost) \div (q + p.qty)

(* A balance that is not positive carries no weight into the average.       *)
WeightedAverage(q, wac, p) ==
  IF q <= 0 THEN p.cost ELSE RoundDiv(q * wac + p.qty * p.cost, q + p.qty)

EffectiveReplacement(row) == IF row.repl # Unknown THEN row.repl ELSE row.latest

(* What an ingredient is expected to cost, NULL when nobody knows.          *)
PlannedUnitCost(row) == IF row.qty > 0 THEN row.wac ELSE EffectiveReplacement(row)

----------------------------------------------------------------------------
(* Recipes.                                                                 *)

(* The smallest number of batches that meets a demand.                      *)
WholeBatches(demand, yield) == (demand + yield - 1) \div yield

(* Every figure of a plan is per batch, times the batches.                  *)
Scaled(perBatch, batches) == perBatch * batches

(* Labour: minutes of work at an hourly rate.                               *)
LaborCost(batches, minutes, rate) == RoundDiv(Scaled(minutes, batches) * rate, 60)

----------------------------------------------------------------------------
(* A run's cost, shared out over what the run produced.                     *)

(* The fault of the bonus units left undistributed.                         *)
Truncated(total, weights) ==
  [i \in DOMAIN weights |-> (total * weights[i]) \div AddUp(weights)]

(* Largest remainder: everyone gets the whole part of its quota, and what is *)
(* left goes one by one to the largest remainders, ties to the earlier.     *)
Hamilton(total, weights) ==
  LET whole == AddUp(weights)
      base == [i \in DOMAIN weights |-> (total * weights[i]) \div whole]
      rem == [i \in DOMAIN weights |-> (total * weights[i]) % whole]
      before(i) == {j \in DOMAIN weights : rem[j] > rem[i] \/ (rem[j] = rem[i] /\ j < i)}
  IN  [i \in DOMAIN weights |->
         IF Cardinality(before(i)) < total - AddUp(base) THEN base[i] + 1 ELSE base[i]]

(* The fault of a cost per unit multiplied back out, what is left over with  *)
(* the last recipient.                                                      *)
MultipliedBackOut(fine, weights) ==
  LET whole == AddUp(weights)
      each == Cents(fine) \div whole
  IN  [i \in DOMAIN weights |->
         IF i < Len(weights) THEN each * weights[i]
         ELSE Cents(fine) - each * (whole - weights[i])]

(* The cents each recipient bears, first in fine units and then in cents;   *)
(* the Surplus recipient, if any, comes last.                               *)
Apportioned(fine, weights) ==
  LET shares == Hamilton(fine, weights)
  IN  IF fine = 0 THEN [i \in DOMAIN weights |-> 0] ELSE Hamilton(Cents(fine), shares)

----------------------------------------------------------------------------
(* Orders.                                                                  *)

(* A line of a Selling Option, as it is first written.                      *)
OptionLine(option, packages, price) ==
  [packages |-> packages, units |-> packages * option.units,
   price |-> price, packaging |-> option.packaging]

(* The fault of a quantity edit that looks the option up again.             *)
RescaledFromCatalogue(option, line, packages, price) ==
  OptionLine(option, packages, IF price = line.price THEN option.price ELSE price)

(* Another quantity of what is already agreed: the stored ratio, price and  *)
(* packaging, whatever the option has become.                               *)
Rescaled(option, line, packages, price) ==
  [packages |-> packages, units |-> (packages * line.units) \div line.packages,
   price |-> price, packaging |-> line.packaging]

Subtotal(line) == line.packages * line.price
PackagingTotal(line) == line.packages * line.packaging

(* orders.final_total.                                                      *)
FinalTotal(lines, adjustment, tax) ==
  MapThenSumSet(LAMBDA k : Subtotal(lines[k]), DOMAIN lines) + adjustment + tax

(* Nothing paid is UNPAID, even of a free Order.                            *)
PaymentStatus(paid, total) ==
  CASE paid = 0 -> "UNPAID"
    [] paid > 0 /\ paid < total -> "PARTIALLY_PAID"
    [] OTHER -> "PAID"

----------------------------------------------------------------------------
(* Shortages.                                                               *)

(* SUM(quantity WHERE demand_date <= through).                              *)
ReservedThrough(reserved, through) ==
  MapThenSumSet(LAMBDA d : reserved[d], {d \in DOMAIN reserved : d <= through})

(* The fault of a day's own reservations held against the whole stock.      *)
ShortageOfTheDay(reserved, physical, through) ==
  IF through \in DOMAIN reserved /\ reserved[through] > physical
  THEN reserved[through] - physical ELSE 0

ShortageThrough(reserved, physical, through) ==
  LET r == ReservedThrough(reserved, through)
  IN  IF r > physical THEN r - physical ELSE 0
============================================================================
