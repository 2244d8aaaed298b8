------------------------- MODULE FulfillmentData -------------------------
(***************************************************************************)
(* The rules of the operational core as pure operators over explicit       *)
(* arguments: which Orders are demand for a Product, what an active         *)
(* Production Run protects, what a recalculation rebuilds, which coverage   *)
(* it may leave, and when an Order is READY.  Both the atomic specification *)
(* (Fulfillment) and the locking protocol (FulfillmentTx) are built on them.*)
(*                                                                         *)
(* Quantities are abstracted to one bit per (Order, Product): `cv` holds    *)
(* <<o, p>> when o's line for p is satisfied.  A Produced line is satisfied *)
(* by completed output plus active Surplus, a Purchased one when the        *)
(* Product's aggregate shortage is zero, so all of its lines agree.         *)
(***************************************************************************)
EXTENDS Naturals, FiniteSets

CONSTANTS
  Orders,     \* Order ids, ordered as their UUIDs are
  Products,   \* Product ids, ordered as their UUIDs are
  Purchased,  \* the Products of type PURCHASED; every other one is PRODUCED
  Dates,      \* fulfilment dates
  Runs        \* identities available to ProductionRun rows

ASSUME DataAssumption ==
  /\ Orders \subseteq Nat
  /\ Products \subseteq Nat
  /\ Purchased \subseteq Products

Status == {"DRAFT", "CONFIRMED", "READY", "CANCELED", "COMPLETED"}
Live == {"CONFIRMED", "READY"}
RunStatus == {"FREE", "IN_PRODUCTION", "COMPLETED", "CANCELED"}
Produced == Products \ Purchased

(* A ProductionRequirement is keyed by (product, revision, date); one       *)
(* revision per Product is modelled, so the key is (product, date).         *)
Keys == Produced \X Dates

(* Every CONFIRMED/READY Order with a line for p, in state (st, ln).        *)
Demand(st, ln, p) == {o \in Orders : st[o] \in Live /\ p \in ln[o]}

DemandPairs(st, ln) ==
  {x \in Orders \X Products : st[x[1]] \in Live /\ x[2] \in ln[x[1]]}

(* The requirements referenced by an IN_PRODUCTION run.                     *)
Active(rs, rk) == {rk[r] : r \in {q \in Runs : rs[q] = "IN_PRODUCTION"}}

(* The (Order, Product) lines linked to a requirement in `act`.             *)
ProtectedPairs(lk, act) ==
  {x \in Orders \X Products : \E k \in act : k[1] = x[2] /\ x[1] \in lk[k]}

(* Rebuildable demand falls on a key an active run already owns: the        *)
(* recalculation refuses with PRODUCTION_LOCKED_DEMAND_DATE_CONFLICT.       *)
Collides(st, ln, dt, lk, act, Ps) ==
  \E x \in DemandPairs(st, ln) :
    /\ x[2] \in Ps
    /\ <<x[2], dt[x[1]]>> \in act
    /\ x \notin ProtectedPairs(lk, act)

(* The fault of a recalculation that adds the new rows and deletes none.    *)
RebuiltOnTop(lk, st, ln, dt, act, Ps) ==
  [k \in Keys |->
     IF k[1] \in Ps /\ k \notin act
     THEN lk[k] \cup {o \in Demand(st, ln, k[1]) :
                        dt[o] = k[2] /\ <<o, k[1]>> \notin ProtectedPairs(lk, act)}
     ELSE lk[k]]

(* Requirement links after the closures of Ps were rebuilt: rows of a       *)
(* protected requirement stay, every other row is deleted and regrouped by  *)
(* date from the demand of the moment.                                      *)
Rebuilt(lk, st, ln, dt, act, Ps) ==
  [k \in Keys |->
     IF k[1] \in Ps /\ k \notin act
     THEN {o \in Demand(st, ln, k[1]) :
             dt[o] = k[2] /\ <<o, k[1]>> \notin ProtectedPairs(lk, act)}
     ELSE lk[k]]

(* The coverage a recalculation of Ps may leave behind.  Outside Ps nothing *)
(* moves; in Ps a `fixed` Produced pair keeps what it has, the other        *)
(* Produced pairs compete for Surplus again, and a stocked Purchased        *)
(* Product is short for all of its demand or for none of it.                *)
Coverings(cv, fixed, demand, Ps, stocked) ==
  LET kept == {x \in cv \cap demand :
                 x[2] \notin Ps \/ (x \in fixed /\ x[2] \in Produced)}
      free == {x \in demand : x[2] \in Ps \cap Produced /\ x \notin fixed}
  IN  {kept \cup c \cup {x \in demand : x[2] \in B} :
         c \in SUBSET free, B \in SUBSET (Ps \cap stocked)}

(* Every line of the Order is satisfied; an Order without lines is not.     *)
Satisfied(ln, cv, o) == ln[o] # {} /\ \A p \in ln[o] : <<o, p>> \in cv

(* READY promotion and demotion of the Orders in E, nobody else.            *)
Evaluated(st, ln, cv, E) ==
  [o \in Orders |->
     IF o \in E /\ st[o] \in Live
     THEN IF Satisfied(ln, cv, o) THEN "READY" ELSE "CONFIRMED"
     ELSE st[o]]

(* The Surplus promises of READY Orders.                                    *)
ReadyPairs(st) == {x \in Orders \X Products : st[x[1]] = "READY"}

(* A confirmed edit removes lines, and with them (ON DELETE CASCADE) their  *)
(* requirement links, protected or not.                                     *)
Cascaded(lk, o, L) ==
  [k \in Keys |-> IF k[1] \in L THEN lk[k] ELSE lk[k] \ {o}]

(* Which edits are demand-affecting: a line added, removed or resized, or   *)
(* the fulfilment date changed.                                             *)
DemandAffecting(oldLines, oldDate, e) ==
  e.lines # oldLines \/ e.date # oldDate \/ e.resized # {}

(* The edits that would alter a protected line of an Order: its removal, a  *)
(* new quantity, or a new date for the whole Order.                         *)
TouchesProtected(oldDate, e, protectedProducts) ==
  /\ protectedProducts # {}
  /\ \/ e.date # oldDate
     \/ ~(protectedProducts \subseteq e.lines)
     \/ protectedProducts \cap e.resized # {}
==========================================================================
