---------------------------- MODULE Production ----------------------------
(***************************************************************************)
(* The quantities behind the coverage bit of Fulfillment, for one PRODUCED  *)
(* Product: what each Order asks for, what finished runs gave it, which     *)
(* Surplus lots are promised to it, and what is planned to be produced.     *)
(* Workflows are atomic here; FulfillmentTx shows why they may be.          *)
(*                                                                         *)
(* `rest` says whether the other lines of an Order (Purchased goods, custom *)
(* items) are satisfied.  Lots are reusable ones, and one Recipe Revision   *)
(* is in force, so a requirement is keyed by its date.                      *)
(***************************************************************************)
EXTENDS Naturals, FiniteSets, FiniteSetsExt, SequencesExt

CONSTANTS
  Orders,      \* Order ids, ordered as their UUIDs are
  Mixed,       \* the Orders that have other lines as well
  Dates,       \* fulfilment dates
  Lots,        \* Surplus lot ids, in the order of produced_at
  Runs,        \* identities available to ProductionRun rows
  Quantities,  \* what a line may ask for
  Outputs,     \* what a run may yield, and what a lot may be created with
  Expiries,    \* the usable-through dates a lot may be entered with
  UsableDays,  \* Product.default_surplus_usable_days
  Horizon,     \* the last day of the calendar
  InitDue      \* fulfilment date of each Order at the start

ASSUME ProductionAssumption ==
  /\ Orders \subseteq Nat \ {0} /\ IsFiniteSet(Orders)
  /\ Mixed \subseteq Orders
  /\ Dates \subseteq Nat \ {0}
  /\ Lots \subseteq Nat /\ IsFiniteSet(Lots)
  /\ Quantities \subseteq Nat \ {0}
  /\ Outputs \subseteq Nat
  /\ Expiries \subseteq Nat \ {0}
  /\ UsableDays \in Nat
  /\ Horizon \in Nat \ {0}
  /\ InitDue \in [Orders -> Dates]

VARIABLES
  status,     \* orders.status
  due,        \* orders.fulfillment_date
  qty,        \* order_lines.underlying_quantity
  rest,       \* the Order's other lines are satisfied
  completed,  \* the line's sum of production_run_order_allocations
  lot,        \* surplus_inventory: physical quantity and usable-through date
  alloc,      \* surplus_allocations: alloc[l][o]
  frozen,     \* the lines linked to a requirement in production
  planned,    \* production_requirements.production_demand_quantity
  runState,   \* production_runs.status
  runDate,    \* demand date of the run's requirement
  today       \* the business-local date

orderVars == <<status, due, qty>>
stockVars == <<lot, alloc>>
runVars == <<runState, runDate>>
vars == <<orderVars, rest, completed, stockVars, frozen, planned, runVars, today>>

Live == {"CONFIRMED", "READY"}
NoDate == 0
Unused == [physical |-> 0, until |-> 0]

Over(S, f(_)) == MapThenSumSet(f, S)
MinOf(a, b) == IF a <= b THEN a ELSE b
Unchecked(a, b) == a - b  \* the fault of a difference without its floor
Minus(a, b) == IF a <= b THEN 0 ELSE a - b

OnOrder(al, o) == Over(Lots, LAMBDA l : al[l][o])
OnLot(al, l) == Over(Orders, LAMBDA o : al[l][o])

(* An Order's place in the deadline order: date, then line id.              *)
Sooner(d, o, u) == d[o] < d[u] \/ (d[o] = d[u] /\ o < u)
(* A lot's place in the first-expired-first-out order: usable-through, then *)
(* produced_at.                                                             *)
Fresher(lt, l, m) == lt[l].until < lt[m].until \/ (lt[l].until = lt[m].until /\ l < m)

(* The members of S as a sequence: the i-th is the one that i - 1 precede.   *)
InDeadlineOrder(S, d) ==
  [i \in 1..Cardinality(S) |->
     CHOOSE o \in S : Cardinality({u \in S : Sooner(d, u, o)}) = i - 1]

(* Serves the members of S one by one, the last of them last.               *)
InTurn(serve(_, _), start, before(_, _), S) ==
  MapThenFoldSet(LAMBDA x, acc : serve(acc, x), start, LAMBDA x : x,
                 LAMBDA s : CHOOSE x \in s : \A y \in s \ {x} : before(y, x), S)

ActiveDates(rs, rd) == {rd[r] : r \in {q \in Runs : rs[q] = "IN_PRODUCTION"}}
Locked(fz, act) == UNION {fz[d] : d \in act}

----------------------------------------------------------------------------
(* The fault of an allocator that only looks at the demand date.            *)
EligibleLate(lt, l, date, now) == lt[l].until >= date

(* A lot serves a line if it is usable on its date, and today.              *)
Eligible(lt, l, date, now) == lt[l].until >= date /\ lt[l].until >= now

(* The fault of an allocator that forgets what is already promised.         *)
RoomGross(lt, al, l) == lt[l].physical

(* What a line still needs, and what a lot still has.                       *)
Open(q, comp, al, o) == Minus(q[o], comp[o] + OnOrder(al, o))
Room(lt, al, l) == Minus(lt[l].physical, OnLot(al, l))

(* What the lines of G still need, in all.                                  *)
Shortage(G, q, comp, al) == Over(G, LAMBDA o : Open(q, comp, al, o))

(* The greedy allocator: demand in deadline order, lots first expired first *)
(* out, starting from the allocations this pass may not touch.              *)
Allocated(kept, demand, q, d, comp, lt, now) ==
  LET before(x, y) == \/ Sooner(d, x[1], y[1])
                      \/ x[1] = y[1] /\ Fresher(lt, x[2], y[2])
      serve(al, x) ==
        IF Eligible(lt, x[2], d[x[1]], now)
        THEN [al EXCEPT ![x[2]][x[1]] =
                @ + MinOf(Open(q, comp, al, x[1]), Room(lt, al, x[2]))]
        ELSE al
  IN  InTurn(serve, kept, before, demand \X Lots)

(* The fault of a recalculation that frees every allocation first.          *)
KeptNone(st, lk, impaired, al) ==
  [l \in Lots |-> [o \in Orders |-> IF o \in lk THEN al[l][o] ELSE 0]]

(* The fault of a reduction that reopens the promises of every lot.         *)
KeptUntargeted(st, lk, impaired, al) ==
  [l \in Lots |-> [o \in Orders |->
     IF o \in lk \/ (st[o] = "READY" /\ impaired = {}) THEN al[l][o] ELSE 0]]

(* The fault of forgetting what a run in production has claimed.            *)
KeptUnlocked(st, lk, impaired, al) ==
  [l \in Lots |-> [o \in Orders |->
     IF st[o] = "READY" /\ l \notin impaired THEN al[l][o] ELSE 0]]

(* The allocations a recalculation leaves alone: those of lines locked by a *)
(* run, and those of READY Orders except on an impaired lot.                *)
Kept(st, lk, impaired, al) ==
  [l \in Lots |-> [o \in Orders |->
     IF o \in lk \/ (st[o] = "READY" /\ l \notin impaired) THEN al[l][o] ELSE 0]]

(* The fault of planning for demand that Surplus already covers.            *)
NettedGross(G, q, comp, al) ==
  Minus(Over(G, LAMBDA o : q[o]), Over(G, LAMBDA o : comp[o]))

(* The demand of a date, less Surplus and completed production, netted over *)
(* the whole group.                                                         *)
Netted(G, q, comp, al) ==
  Minus(Over(G, LAMBDA o : q[o]), Over(G, LAMBDA o : comp[o] + OnOrder(al, o)))

(* The fault of promoting only.                                             *)
EvaluatedUpwards(st, q, comp, al, rs) ==
  [o \in Orders |->
     IF st[o] \in Live /\ rs[o] /\ comp[o] + OnOrder(al, o) >= q[o] THEN "READY" ELSE st[o]]

(* READY exactly when this line and the rest of the Order are satisfied.    *)
Evaluated(st, q, comp, al, rs) ==
  [o \in Orders |->
     IF st[o] \in Live
     THEN IF rs[o] /\ comp[o] + OnOrder(al, o) >= q[o] THEN "READY" ELSE "CONFIRMED"
     ELSE st[o]]

(* The end of a workflow: recalculate on the new rows, then evaluate the    *)
(* readiness of all live Orders.  `act` are the dates still in production.  *)
Settle(st, q, d, comp, lt, al, fz, act, impaired) ==
  LET lk == Locked(fz, act)
      demand == {o \in Orders : st[o] \in Live /\ o \notin lk}
      kept == Kept(st, lk, impaired, al)
      al2 == Allocated(kept, demand, q, d, comp, lt, today)
  IN  /\ \A o \in demand : d[o] \notin act
      /\ alloc' = al2
      /\ planned' = [x \in Dates |->
                       IF x \in act THEN planned[x]
                       ELSE Netted({o \in demand : d[o] = x}, q, comp, al2)]
      /\ status' = Evaluated(st, q, comp, al2, rest)
      /\ qty' = q
      /\ due' = d
      /\ completed' = comp
      /\ lot' = lt
      /\ frozen' = fz

Activity == ActiveDates(runState, runDate)
LockedNow == Locked(frozen, Activity)

Init ==
  /\ status = [o \in Orders |-> "DRAFT"]
  /\ due = InitDue
  /\ qty \in [Orders -> Quantities]
  /\ rest \in [Orders -> BOOLEAN] /\ \A o \in Orders \ Mixed : rest[o]
  /\ completed = [o \in Orders |-> 0]
  /\ lot = [l \in Lots |-> Unused]
  /\ alloc = [l \in Lots |-> [o \in Orders |-> 0]]
  /\ frozen = [d \in Dates |-> {}]
  /\ planned = [d \in Dates |-> 0]
  /\ runState = [r \in Runs |-> "FREE"]
  /\ runDate = [r \in Runs |-> NoDate]
  /\ today = 1

----------------------------------------------------------------------------
(* Orders.                                                                  *)

Confirm(o) ==
  LET st == [status EXCEPT ![o] = "CONFIRMED"]
  IN  /\ status[o] = "DRAFT"
      /\ Settle(st, qty, due, completed, lot, alloc, frozen, Activity, {})
      /\ UNCHANGED <<rest, runVars, today>>

(* The quantity or the date of a CONFIRMED Order whose line no run locks.   *)
Edit(o, n, d) ==
  /\ status[o] = "CONFIRMED"
  /\ <<n, d>> # <<qty[o], due[o]>>
  /\ o \notin LockedNow
  /\ Settle(status, [qty EXCEPT ![o] = n], [due EXCEPT ![o] = d], completed, lot, alloc,
            frozen, Activity, {})
  /\ UNCHANGED <<rest, runVars, today>>

Cancel(o) ==
  LET st == [status EXCEPT ![o] = "CANCELED"]
  IN  /\ status[o] \in Live
      /\ o \notin LockedNow
      /\ Settle(st, qty, due, completed, lot, alloc, frozen, Activity, {})
      /\ UNCHANGED <<rest, runVars, today>>

(* The lots after the Order's Surplus has been consumed.                    *)
Consumed(o) == [l \in Lots |-> [lot[l] EXCEPT !.physical = Minus(@, alloc[l][o])]]

CompleteOrder(o) ==
  LET st == [status EXCEPT ![o] = "COMPLETED"]
      al == [l \in Lots |-> [alloc[l] EXCEPT ![o] = 0]]
  IN  /\ status[o] = "READY"
      /\ rest[o]
      /\ completed[o] + OnOrder(alloc, o) >= qty[o]
      /\ \A l \in Lots : alloc[l][o] <= lot[l].physical
      /\ o \notin LockedNow
      /\ Settle(st, qty, due, completed, Consumed(o), al, frozen, Activity, {})
      /\ UNCHANGED <<rest, runVars, today>>

(* The other lines of an Order gain or lose what they need (Purchased stock *)
(* moves, a custom item is ticked): its readiness is evaluated, and this    *)
(* Product's allocations stay.  Of a draft, `rest` is unknown from the start. *)
RestChange(o) ==
  /\ o \in Mixed
  /\ status[o] \in Live
  /\ rest' = [rest EXCEPT ![o] = ~@]
  /\ status' = Evaluated(status, qty, completed, alloc, rest')
  /\ UNCHANGED <<due, qty, completed, stockVars, frozen, planned, runVars, today>>

----------------------------------------------------------------------------
(* Production runs.                                                         *)

Linked(d) == {o \in Orders : status[o] \in Live /\ o \notin LockedNow /\ due[o] = d}

(* A run is started for the requirement of date d, with any positive number *)
(* of batches; the linked lines are locked from now on.                     *)
Start(r, d) ==
  /\ runState[r] = "FREE"
  /\ d \notin Activity
  /\ Linked(d) # {}
  /\ runState' = [runState EXCEPT ![r] = "IN_PRODUCTION"]
  /\ runDate' = [runDate EXCEPT ![r] = d]
  /\ frozen' = [frozen EXCEPT ![d] = Linked(d)]
  /\ UNCHANGED <<orderVars, rest, completed, stockVars, planned, today>>

Released(r) == [frozen EXCEPT ![runDate[r]] = {}]

Nothing(out) == [given |-> [o \in Orders |-> 0], left |-> out]

(* The fault of handing output to a line that Surplus already serves.       *)
SharedOutTwice(out) ==
  LET hand(acc, o) ==
        LET n == MinOf(Minus(qty[o], completed[o]), acc.left)
        IN  [acc EXCEPT !.given[o] = n, !.left = @ - n]
  IN  InTurn(hand, Nothing(out), LAMBDA o, u : Sooner(due, o, u),
             {o \in Orders : status[o] \in Live})

(* Hands a line what it still needs, or what is left.                       *)
Hand(acc, o) ==
  LET n == MinOf(Open(qty, completed, alloc, o), acc.left)
  IN  [acc EXCEPT !.given[o] = n, !.left = @ - n]

(* The fault of serving lines in the order of their ids.                    *)
SharedOutById(out) ==
  InTurn(Hand, Nothing(out), <, {o \in Orders : status[o] \in Live})

(* Output goes to the open lines of all live Orders in deadline order; what *)
(* is left over is excess.                                                  *)
SharedOut(out) ==
  InTurn(Hand, Nothing(out), LAMBDA o, u : Sooner(due, o, u),
         {o \in Orders : status[o] \in Live})

(* A new lot takes the next id.                                             *)
NextLot(lt) == CHOOSE l \in Lots : lt[l] = Unused /\ \A m \in Lots : lt[m] = Unused => l <= m
Shelved(lt, n, until) == [lt EXCEPT ![NextLot(lt)] = [physical |-> n, until |-> until]]

HasShelf == \E l \in Lots : lot[l] = Unused  \* bound: lot ids are finite

Finish(r, out) ==
  LET share == SharedOut(out)
      comp == [o \in Orders |-> completed[o] + share.given[o]]
      act == Activity \ {runDate[r]}
  IN  /\ runState[r] = "IN_PRODUCTION"
      /\ share.left > 0 => HasShelf
      /\ runState' = [runState EXCEPT ![r] = "COMPLETED"]
      /\ UNCHANGED <<rest, runDate, today>>
      /\ Settle(status, qty, due, comp,
                IF share.left = 0 THEN lot ELSE Shelved(lot, share.left, today + UsableDays),
                alloc, Released(r), act, {})

CancelRun(r) ==
  /\ runState[r] = "IN_PRODUCTION"
  /\ runState' = [runState EXCEPT ![r] = "CANCELED"]
  /\ UNCHANGED <<rest, runDate, today>>
  /\ Settle(status, qty, due, completed, lot, alloc, Released(r),
            Activity \ {runDate[r]}, {})

----------------------------------------------------------------------------
(* Surplus.                                                                 *)

CreateSurplus(n, until) ==
  /\ HasShelf
  /\ n > 0
  /\ Settle(status, qty, due, completed, Shelved(lot, n, until), alloc, frozen, Activity, {})
  /\ UNCHANGED <<rest, runVars, today>>

(* What runs in production claim of a lot: the floor of every reduction.    *)
Floor(l) == Over(LockedNow, LAMBDA o : alloc[l][o])

(* A reduction within the unallocated slack: one row changes.               *)
ReduceSlack(l, n) ==
  /\ n < lot[l].physical
  /\ n >= OnLot(alloc, l)
  /\ lot' = [lot EXCEPT ![l].physical = n]
  /\ UNCHANGED <<orderVars, rest, completed, alloc, frozen, planned, runVars, today>>

(* A reduction below what is promised: only this lot's promises to READY    *)
(* Orders are reopened.                                                     *)
ReducePromised(l, n) ==
  /\ n < lot[l].physical
  /\ n >= Floor(l)
  /\ n < OnLot(alloc, l)
  /\ Settle(status, qty, due, completed, [lot EXCEPT ![l].physical = n], alloc,
            frozen, Activity, {l})
  /\ UNCHANGED <<rest, runVars, today>>

(* A day passes; nothing is recalculated.                                   *)
AdvanceDay ==
  /\ today < Horizon
  /\ today' = today + 1
  /\ UNCHANGED <<orderVars, rest, completed, stockVars, frozen, planned, runVars>>

Next ==
  \/ \E o \in Orders :
       \/ Confirm(o) \/ Cancel(o) \/ CompleteOrder(o) \/ RestChange(o)
       \/ \E n \in Quantities, d \in Dates : Edit(o, n, d)
  \/ \E r \in Runs :
       \/ CancelRun(r)
       \/ \E d \in Dates : Start(r, d)
       \/ \E n \in Outputs : Finish(r, n)
  \/ \E n \in Outputs :
       \/ \E u \in Expiries : CreateSurplus(n, u)
       \/ \E l \in Lots : ReduceSlack(l, n) \/ ReducePromised(l, n)
  \/ AdvanceDay

Spec == Init /\ [][Next]_vars
----------------------------------------------------------------------------
ProductionTypeOK ==
  /\ status \in [Orders -> Live \cup {"DRAFT", "CANCELED", "COMPLETED"}]
  /\ due \in [Orders -> Dates]
  /\ qty \in [Orders -> Quantities]
  /\ rest \in [Orders -> BOOLEAN]
  /\ completed \in [Orders -> Nat]
  /\ \A l \in Lots : lot[l] \in [physical : Nat, until : Nat]
  /\ \A l \in Lots : alloc[l] \in [Orders -> Nat]
  /\ frozen \in [Dates -> SUBSET Orders]
  /\ planned \in [Dates -> Nat]
  /\ runState \in [Runs -> {"FREE", "IN_PRODUCTION", "COMPLETED", "CANCELED"}]
  /\ runDate \in [Runs -> Dates \cup {NoDate}]
  /\ today \in 1..Horizon

(* No lot is promised beyond what is physically there, after any mix of     *)
(* reductions, completions and finished runs (the invariant adjust_surplus  *)
(* and complete_order assert with a 500).                                   *)
LotNotOverpromised == \A l \in Lots : OnLot(alloc, l) <= lot[l].physical

(* No line is served twice: completed production and Surplus together never *)
(* exceed what it asks for, so Surplus is never held by a line that run     *)
(* output already satisfied.                                                *)
NoDoubleCover ==
  \A o \in Orders : OnOrder(alloc, o) <= Minus(qty[o], completed[o])

(* Nothing is planned beyond what the date's open lines still need.         *)
NeverOverplanned ==
  \A d \in Dates \ Activity :
    planned[d] <= Shortage(Linked(d), qty, completed, alloc)

(* All that the open lines of a date still need is planned (RUN-012: unmet  *)
(* demand must remain active demand).                                       *)
EveryShortageIsPlanned ==
  \A d \in Dates \ Activity :
    planned[d] >= Shortage(Linked(d), qty, completed, alloc)

(* A READY Order falls back to CONFIRMED only when the rest of it is lost    *)
(* or the lot it was promised from is reduced: no Order, run or new lot      *)
(* takes a promise away.                                                    *)
PromisesKept ==
  [][\A o \in Orders : status[o] = "READY" /\ status'[o] = "CONFIRMED" =>
       \/ rest[o] /\ ~rest'[o]
       \/ \E l \in Lots : alloc[l][o] > 0 /\ lot'[l].physical < OnLot(alloc, l)]_vars

(* Reducing one lot leaves what READY Orders were promised from the others.  *)
ReductionSparesOtherLots ==
  [][\A l \in Lots : lot'[l].physical < lot[l].physical /\ UNCHANGED completed
       => \A m \in Lots \ {l}, o \in Orders :
            status[o] = "READY" /\ status'[o] \in Live => alloc'[m][o] >= alloc[m][o]]_vars

(* While a line is in production its Surplus does not move, whoever asks.    *)
LockedSurplusStays ==
  [][\A o \in LockedNow \cap LockedNow' :
       \A l \in Lots : alloc'[l][o] = alloc[l][o]]_vars

(* Surplus is promised to a line only if it is usable on the line's date     *)
(* and not expired on the day of the promise.                               *)
ExpiredNotPromised ==
  [][\A l \in Lots, o \in Orders : alloc'[l][o] > alloc[l][o] =>
       lot'[l].until >= due'[o] /\ lot'[l].until >= today]_vars

(* Output of a run goes to the soonest deadlines first (RUN-011): when a     *)
(* line gets some, every live line with a sooner deadline is satisfied.      *)
OutputGoesToSoonest ==
  [][\A o, u \in Orders :
       /\ status[o] \in Live
       /\ Sooner(due, o, u)
       /\ completed'[u] > completed[u]
       => completed'[o] + OnOrder(alloc, o) >= qty[o]]_vars

----------------------------------------------------------------------------
(* The coverage bit of Fulfillment: Product 0 stands for the produced goods, *)
(* Product o for the rest of Order o.                                       *)
Goods == 0
AllLines == [o \in Orders |-> {Goods, o}]

CoveredLines ==
  {x \in Orders \X ({Goods} \cup Orders) :
     /\ status[x[1]] \in Live
     /\ \/ x[2] = Goods /\ completed[x[1]] + OnOrder(alloc, x[1]) >= qty[x[1]]
        \/ x[2] = x[1] /\ rest[x[1]]}

LinkedLines ==
  [k \in {Goods} \X Dates |-> IF k[2] \in Activity THEN frozen[k[2]] ELSE Linked(k[2])]

Bit == INSTANCE Fulfillment WITH
  Products <- {Goods} \cup Orders,
  Purchased <- Orders,
  EditPayloads <- [lines : {{Goods, o} : o \in Orders}, date : Dates,
                   resized : {{}, {Goods}}],
  InitLines <- AllLines,
  InitDate <- InitDue,
  lines <- AllLines,
  date <- due,
  covered <- CoveredLines,
  link <- LinkedLines,
  runKey <- [r \in Runs |-> IF runState[r] = "FREE" THEN <<>> ELSE <<Goods, runDate[r]>>],
  stocked <- Orders

(* The quantities implement the coverage bit, workflow by workflow.         *)
CoverageSpec == Bit!Spec
==========================================================================
