--------------------------- MODULE Fulfillment ---------------------------
(***************************************************************************)
(* What the operational core promises: every workflow is one atomic step,  *)
(* and the step re-evaluates the readiness of every Order whose coverage it *)
(* may have changed.  FulfillmentTx implements it with row locks.           *)
(*                                                                         *)
(* The two workflows whose active-run check the code makes too early        *)
(* (Cancel and the confirmed edit) are not promised to be blocked by a run  *)
(* here: see CancelBlockedByRun and EditBlockedByRun in FulfillmentTx.      *)
(***************************************************************************)
EXTENDS FulfillmentData

CONSTANTS
  EditPayloads,  \* what a client may submit: [lines, date, resized]
  InitLines,     \* Products of each Order's lines at the start
  InitDate       \* fulfilment date of each Order at the start

ASSUME PayloadAssumption ==
  /\ EditPayloads \subseteq
       [lines : (SUBSET Products) \ {{}}, date : Dates, resized : SUBSET Products]
  /\ InitLines \in [Orders -> SUBSET Products]
  /\ InitDate \in [Orders -> Dates]

VARIABLES
  status,    \* orders.status
  lines,     \* the Products of the Order's lines
  date,      \* orders.fulfillment_date
  covered,   \* the satisfied (Order, Product) lines
  link,      \* production_requirement_orders, by requirement key
  runState,  \* production_runs.status
  runKey,    \* the requirement a run was started for
  stocked    \* Purchased Products that have an inventory row

orderVars == <<status, lines, date>>
runVars == <<runState, runKey>>
vars == <<orderVars, covered, link, runVars, stocked>>

NoKey == <<>>  \* production_runs row not created yet

TypeOK ==
  /\ status \in [Orders -> Status]
  /\ lines \in [Orders -> SUBSET Products]
  /\ date \in [Orders -> Dates]
  /\ covered \subseteq Orders \X Products
  /\ link \in [Keys -> SUBSET Orders]
  /\ runState \in [Runs -> RunStatus]
  /\ runKey \in [Runs -> Keys \cup {NoKey}]
  /\ \A r \in Runs : runState[r] = "FREE" <=> runKey[r] = NoKey
  /\ stocked \subseteq Purchased

Activity == Active(runState, runKey)

(* A database left by earlier requests: some Orders drafted, confirmed or   *)
(* ready, requirements rebuilt, some of them in production.                 *)
Init ==
  /\ status \in [Orders -> {"DRAFT", "CONFIRMED", "READY"}]
  /\ lines = InitLines
  /\ date = InitDate
  /\ stocked \in SUBSET Purchased
  /\ covered \in Coverings({}, {}, DemandPairs(status, lines), Products, stocked)
  /\ status = Evaluated(status, lines, covered, Orders)
  /\ link = Rebuilt([k \in Keys |-> {}], status, lines, date, {}, Products)
  /\ runState \in [Runs -> {"FREE", "IN_PRODUCTION"}]
  /\ runKey \in [Runs -> {k \in Keys : link[k] # {}} \cup {NoKey}]
  /\ \A r \in Runs : runState[r] = "FREE" <=> runKey[r] = NoKey
  /\ \A r, q \in Runs : runKey[r] = runKey[q] /\ r # q => runKey[r] = NoKey

(* The fault of a recalculation without the date-conflict rejection.        *)
SettleColliding(st, ln, dt, lk, cv, Ps, fixed, E) ==
  LET act == Active(runState', runKey')
      all == ProtectedPairs(lk, act) \cup fixed
  IN  /\ link' = Rebuilt(lk, st, ln, dt, act, Ps)
      /\ covered' \in Coverings(cv, all, DemandPairs(st, ln), Ps, stocked)
      /\ status' = Evaluated(st, ln, covered', E)
      /\ lines' = ln
      /\ date' = dt

(* The end of every workflow that can move coverage: recalculate the        *)
(* closures of Ps on the new rows (st, ln, dt), keep `fixed` Surplus where   *)
(* it is, and evaluate the readiness of E.                                  *)
Settle(st, ln, dt, lk, cv, Ps, fixed, E) ==
  LET act == Active(runState', runKey')
      all == ProtectedPairs(lk, act) \cup fixed
  IN  /\ ~Collides(st, ln, dt, lk, act, Ps)
      /\ link' = Rebuilt(lk, st, ln, dt, act, Ps)
      /\ covered' \in Coverings(cv, all, DemandPairs(st, ln), Ps, stocked)
      /\ status' = Evaluated(st, ln, covered', E)
      /\ lines' = ln
      /\ date' = dt

(* The Orders whose readiness is evaluated: any set with all the demand for *)
(* the recalculated Products in it.                                         *)
Evaluations(st, ln, Ps) ==
  {E \in SUBSET Orders : \A p \in Ps : Demand(st, ln, p) \subseteq E}

(* DRAFT -> CONFIRMED.                                                      *)
Confirm(o) ==
  LET st == [status EXCEPT ![o] = "CONFIRMED"]
  IN  /\ status[o] = "DRAFT"
      /\ lines[o] # {}
      /\ UNCHANGED <<runVars, stocked>>
      /\ \E E \in Evaluations(st, lines, lines[o]) :
           Settle(st, lines, date, link, covered, lines[o], ReadyPairs(st), E)

(* A draft's lines and date are replaced; drafts are nobody's demand.       *)
EditDraft(o, e) ==
  /\ status[o] = "DRAFT"
  /\ lines' = [lines EXCEPT ![o] = e.lines]
  /\ date' = [date EXCEPT ![o] = e.date]
  /\ UNCHANGED <<status, covered, link, runVars, stocked>>

(* A demand-affecting edit of a CONFIRMED Order (any other edit changes     *)
(* nothing this specification sees).  A resized line's coverage is open.    *)
Edit(o, e) ==
  LET ln == [lines EXCEPT ![o] = e.lines]
      Ps == lines[o] \cup e.lines
      lk == Cascaded(link, o, e.lines)
      cv == covered \ ({o} \X e.resized)
  IN  /\ status[o] = "CONFIRMED"
      /\ DemandAffecting(lines[o], date[o], e)
      /\ UNCHANGED <<runVars, stocked>>
      /\ \E E \in Evaluations(status, ln, Ps) :
           Settle(status, ln, [date EXCEPT ![o] = e.date], lk, cv, Ps,
                  ReadyPairs(status), E)

(* CONFIRMED or READY -> CANCELED; its claims are released.                 *)
Cancel(o) ==
  LET st == [status EXCEPT ![o] = "CANCELED"]
  IN  /\ status[o] \in Live
      /\ UNCHANGED <<runVars, stocked>>
      /\ \E E \in Evaluations(st, lines, lines[o]) :
           Settle(st, lines, date, link, covered, lines[o], ReadyPairs(st), E)

(* READY -> COMPLETED, only while covered and under no active run.          *)
CompleteOrder(o) ==
  LET st == [status EXCEPT ![o] = "COMPLETED"]
  IN  /\ status[o] = "READY"
      /\ Satisfied(lines, covered, o)
      /\ \A p \in lines[o] : <<o, p>> \notin ProtectedPairs(link, Activity)
      /\ UNCHANGED <<runVars, stocked>>
      /\ \E E \in Evaluations(st, lines, lines[o]) :
           Settle(st, lines, date, link, covered, lines[o], ReadyPairs(st), E)

(* A run is started for a requirement that has none.                        *)
Start(r, k) ==
  /\ runState[r] = "FREE"
  /\ link[k] # {}
  /\ k \notin Activity
  /\ runState' = [runState EXCEPT ![r] = "IN_PRODUCTION"]
  /\ runKey' = [runKey EXCEPT ![r] = k]
  /\ UNCHANGED <<orderVars, covered, link, stocked>>

(* A run ends.  Finished output goes to lines of the Product, whichever     *)
(* requirement they hang on (`gained`); canceled output does not exist.     *)
EndRun(r, outcome) ==
  LET p == runKey[r][1]
  IN  /\ runState[r] = "IN_PRODUCTION"
      /\ runState' = [runState EXCEPT ![r] = outcome]
      /\ UNCHANGED <<runKey, stocked>>
      /\ \E gained \in SUBSET (Demand(status, lines, p) \X {p}),
            E \in Evaluations(status, lines, {p}) :
           /\ outcome = "CANCELED" => gained = {}
           /\ Settle(status, lines, date, link, covered \cup gained, {p},
                     ReadyPairs(status), E)

(* Surplus reduced or created, or an existing Purchased balance changed: a  *)
(* READY Order may lose its coverage, and is then demoted.                  *)
AdjustSupply(p) ==
  /\ p \in Produced \cup stocked
  /\ UNCHANGED <<runVars, stocked>>
  /\ \E E \in Evaluations(status, lines, {p}) :
       Settle(status, lines, date, link, covered, {p}, {}, E)

(* The first inventory row of a Purchased Product (initial balance or first *)
(* restock): coverage may appear, and no Order is evaluated for it.         *)
OpenStock(p) ==
  /\ p \in Purchased \ stocked
  /\ stocked' = stocked \cup {p}
  /\ covered' \in {covered, covered \cup (Demand(status, lines, p) \X {p})}
  /\ UNCHANGED <<orderVars, link, runVars>>

(* The fault of a migration that takes Surplus promised to READY Orders.    *)
MigrateReady(p) ==
  LET fixed == ProtectedPairs(link, Activity)
  IN  /\ p \in Produced
      /\ ~Collides(status, lines, date, link, Activity, {p})
      /\ link' = Rebuilt(link, status, lines, date, Activity, {p})
      /\ covered' \in Coverings(covered, fixed, DemandPairs(status, lines), {p}, stocked)
      /\ UNCHANGED <<orderVars, runVars, stocked>>

(* A new Recipe Revision applied to existing demand: links are rebuilt,     *)
(* Surplus that is nobody's promise moves to the soonest of the CONFIRMED    *)
(* lines, and no Order is evaluated for what it gains or loses.             *)
Migrate(p) ==
  LET fixed == ReadyPairs(status) \cup ProtectedPairs(link, Activity)
  IN  /\ p \in Produced
      /\ ~Collides(status, lines, date, link, Activity, {p})
      /\ link' = Rebuilt(link, status, lines, date, Activity, {p})
      /\ covered' \in Coverings(covered, fixed, DemandPairs(status, lines), {p}, stocked)
      /\ UNCHANGED <<orderVars, runVars, stocked>>

Next ==
  \/ \E o \in Orders :
       \/ Confirm(o)
       \/ Cancel(o)
       \/ CompleteOrder(o)
       \/ \E e \in EditPayloads : EditDraft(o, e) \/ Edit(o, e)
  \/ \E r \in Runs :
       \/ \E k \in Keys : Start(r, k)
       \/ \E outcome \in {"COMPLETED", "CANCELED"} : EndRun(r, outcome)
  \/ \E p \in Products : AdjustSupply(p) \/ OpenStock(p) \/ Migrate(p)

Spec == Init /\ [][Next]_vars

----------------------------------------------------------------------------
(* A READY Order has every line satisfied, whatever other Orders, runs and  *)
(* stock changes did since it was promoted (order status vs. allocations).  *)
ReadyIsCovered ==
  \A o \in Orders : status[o] = "READY" => Satisfied(lines, covered, o)

(* No two IN_PRODUCTION runs share a source requirement (start_production's *)
(* re-check under the Product lock and its partial unique index).           *)
OneActiveRunPerRequirement ==
  \A r, q \in Runs :
    /\ runState[r] = "IN_PRODUCTION"
    /\ runState[q] = "IN_PRODUCTION"
    /\ runKey[r] = runKey[q]
    => r = q

(* Outside production, the links of a requirement are exactly the live      *)
(* demand for its Product and date that no other active run protects: no     *)
(* workflow forgets a rebuild after it changed demand.                      *)
LinksMirrorDemand ==
  \A k \in Keys \ Activity :
    link[k] = {o \in Demand(status, lines, k[1]) :
                 date[o] = k[2] /\ <<o, k[1]>> \notin ProtectedPairs(link, Activity)}

(* While a requirement is in production no other live Order has unprotected *)
(* demand for its Product and date (the date-conflict rejection is complete *)
(* whichever workflow brings the demand).                                   *)
NoUnprotectedDemandOnActiveKey ==
  \A k \in Activity : \A o \in Demand(status, lines, k[1]) :
    date[o] = k[2] => \E j \in Activity : j[1] = k[1] /\ o \in link[j]

(* An Order is completed only while no run is producing for it, and no run  *)
(* is started for it afterwards.                                            *)
NoCompletionUnderRun ==
  \A k \in Activity : \A o \in link[k] : status[o] # "COMPLETED"
============================================================================
