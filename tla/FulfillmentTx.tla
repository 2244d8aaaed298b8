-------------------------- MODULE FulfillmentTx --------------------------
(***************************************************************************)
(* The operational core as the code runs it: HTTP requests, each one        *)
(* database transaction under READ COMMITTED with SELECT ... FOR UPDATE row *)
(* locks, following discover - lock - verify - bounded retry.  Writes are    *)
(* visible to others at commit, so one Commit action carries them; every    *)
(* lock, every read that precedes a wait, and every rollback is a step.     *)
(*                                                                         *)
(* Recipe, Ingredient, Surplus and Purchased locks come after the Product   *)
(* locks in every workflow and are left out.  Recipe, Surplus and Purchased *)
(* rows belong to one Product, whose lock is already held; Ingredients may  *)
(* be shared by several, and are taken in ascending order with nothing after *)
(* them that is shared, so that they add no circle of waiting requests.     *)
(***************************************************************************)
EXTENDS Fulfillment

CONSTANTS
  Requests,     \* the HTTP requests being served
  KindsOf,      \* the workflows each request may be for
  MaxAttempts,  \* _MAX_DISCOVERY_RETRIES
  Nobody        \* an unlocked row

(* The workflows, by what they lock first.                                  *)
OrderKinds == {"Confirm", "Edit", "Cancel", "Complete"}
RunKinds == {"Finish", "CancelRun"}
SupplyKinds == {"Adjust"}
DiscoveryKinds == OrderKinds \cup RunKinds \cup SupplyKinds
ProductKinds == {"Start", "Stock", "Migrate"}
Kinds == DiscoveryKinds \cup ProductKinds \cup {"EditDraft"}

ASSUME TxAssumption ==
  /\ KindsOf \in [Requests -> SUBSET Kinds]
  /\ MaxAttempts \in Nat \ {0}
  /\ Nobody \notin Requests

VARIABLES
  version,      \* orders.version (version_id_col)
  epoch,        \* how often a Product's requirement rows were rebuilt
  given,        \* the lines run output went to (production_run_order_allocations)
  orderLock,    \* the request holding the Order row FOR UPDATE
  orderShare,   \* requests holding it FOR KEY SHARE (foreign-key checks)
  productLock,  \* the request holding the Product row FOR UPDATE
  runLock,      \* the request holding the ProductionRun row FOR UPDATE
  pc,           \* where each request is
  req,          \* what it asks for
  seen,         \* the Order as its identity map holds it
  cand,         \* the discovered Order set it locks
  tries         \* attempts started

dataVars == <<vars, given>>
lockVars == <<orderLock, orderShare, productLock, runLock>>
localVars == <<pc, req, seen, cand, tries>>
txVars == <<dataVars, version, epoch, lockVars, localVars>>

PCs == {"idle", "lockRun", "discover", "lockOrders", "check", "lockProducts",
        "verify", "share", "write", "done"}

(* What a request carries; `target` is an Order, a Product, a run or a      *)
(* requirement key according to its kind.                                   *)
NoRequest == [kind |-> "none", target |-> 0, version |-> 0, edit |-> <<>>]
NoView == [version |-> 0, status |-> "DRAFT", lines |-> {}, date |-> 0]

Row(o) ==
  [version |-> version[o], status |-> status[o], lines |-> lines[o], date |-> date[o]]

TxInit ==
  /\ Init
  /\ version = [o \in Orders |-> 1]
  /\ epoch = [p \in Products |-> 0]
  /\ given = {}
  /\ orderLock = [o \in Orders |-> Nobody]
  /\ orderShare = [o \in Orders |-> {}]
  /\ productLock = [p \in Products |-> Nobody]
  /\ runLock = [r \in Runs |-> Nobody]
  /\ pc = [t \in Requests |-> "idle"]
  /\ req = [t \in Requests |-> NoRequest]
  /\ seen = [t \in Requests |-> NoView]
  /\ cand = [t \in Requests |-> {}]
  /\ tries = [t \in Requests |-> 0]

----------------------------------------------------------------------------
(* What a request t holds, wants and sees.                                  *)
HeldOrders(t) == {o \in Orders : orderLock[o] = t}
HeldProducts(t) == {p \in Products : productLock[p] = t}

(* Confirm and the confirmed edit keep the Order the preflight loaded: a    *)
(* locking SELECT does not refresh it.  Cancel and Complete expire it.      *)
View(t) == IF req[t].kind \in {"Confirm", "Edit"} THEN seen[t] ELSE Row(req[t].target)

(* The Products a workflow recalculates, and locks first.                   *)
ClosureProducts(t) ==
  CASE req[t].kind \in {"Confirm", "Cancel", "Complete"} -> View(t).lines
    [] req[t].kind = "Edit" ->
         IF DemandAffecting(View(t).lines, View(t).date, req[t].edit)
         THEN View(t).lines \cup req[t].edit.lines
         ELSE {}
    [] req[t].kind \in RunKinds -> {runKey[req[t].target][1]}
    [] req[t].kind = "Start" -> {req[t].target[1]}
    [] req[t].kind \in {"Adjust", "Stock", "Migrate"} -> {req[t].target}
    [] OTHER -> {}

(* The Products discovery looks at, before any lock.                        *)
PreflightProducts(t) ==
  CASE req[t].kind \in {"Confirm", "Cancel", "Complete"} -> lines[req[t].target]
    [] req[t].kind = "Edit" -> lines[req[t].target] \cup req[t].edit.lines
    [] OTHER -> ClosureProducts(t)

(* The Orders a workflow must hold: its own, and every CONFIRMED/READY one  *)
(* with a line for one of Ps.                                               *)
FullOrderSet(t, Ps) ==
  (IF req[t].kind \in OrderKinds THEN {req[t].target} ELSE {})
    \cup UNION {Demand(status, lines, p) : p \in Ps}

ProtectedProducts(o) ==
  {p \in Products : <<o, p>> \in ProtectedPairs(link, Activity)}

Goto(t, place) == pc' = [pc EXCEPT ![t] = place]

Without(lock, t) == [x \in DOMAIN lock |-> IF lock[x] = t THEN Nobody ELSE lock[x]]

ReleaseAll(t) ==
  /\ orderLock' = Without(orderLock, t)
  /\ orderShare' = [o \in Orders |-> orderShare[o] \ {t}]
  /\ productLock' = Without(productLock, t)
  /\ runLock' = Without(runLock, t)

(* The request is answered and its transaction over.                        *)
End(t) ==
  /\ Goto(t, "done")
  /\ ReleaseAll(t)
  /\ req' = [req EXCEPT ![t] = NoRequest]
  /\ seen' = [seen EXCEPT ![t] = NoView]
  /\ cand' = [cand EXCEPT ![t] = {}]
  /\ tries' = [tries EXCEPT ![t] = 0]

(* The fault of an error answer whose transaction is left open.             *)
RollBackLeaking(t) ==
  /\ Goto(t, "done")
  /\ UNCHANGED <<dataVars, version, epoch, lockVars, req, seen, cand, tries>>

(* Answered with an error: nothing it did is kept.                          *)
RollBack(t) == End(t) /\ UNCHANGED <<dataVars, version, epoch>>

----------------------------------------------------------------------------
(* A client's request.  It names the version of the Order, or (for Start)   *)
(* the generation of the requirement row, that the client was looking at.   *)
(* A request its target's present state already rules out is not sent: it   *)
(* could only be rejected, now or with STALE_VERSION later.                 *)
Arrivals(t) ==
  LET As(kind, target, v, e) == [kind |-> kind, target |-> target, version |-> v, edit |-> e]
      OnOrder(kind, sts) == {As(kind, o, version[o], <<>>) : o \in {x \in Orders : status[x] \in sts}}
      WithEdit(kind, st) ==
        {As(kind, o, version[o], e) : o \in {x \in Orders : status[x] = st}, e \in EditPayloads}
  IN  {r \in OnOrder("Confirm", {"DRAFT"}) \cup OnOrder("Cancel", Live)
               \cup OnOrder("Complete", {"READY"})
               \cup WithEdit("Edit", "CONFIRMED") \cup WithEdit("EditDraft", "DRAFT")
               \cup {As(k, x, 0, <<>>) : k \in RunKinds,
                                        x \in {q \in Runs : runState[q] = "IN_PRODUCTION"}}
               \cup {As("Start", k, epoch[k[1]], <<>>) : k \in {j \in Keys : link[j] # {}}}
               \cup {As("Adjust", p, 0, <<>>) : p \in Produced \cup stocked}
               \cup {As("Stock", p, 0, <<>>) : p \in Purchased \ stocked}
               \cup {As("Migrate", p, 0, <<>>) : p \in Produced} :
         r.kind \in KindsOf[t]}

FirstStep(kind) ==
  CASE kind \in RunKinds -> "lockRun"
    [] kind \in ProductKinds -> "lockProducts"
    [] kind = "EditDraft" -> "lockOrders"
    [] OTHER -> "discover"

Arrive(t) ==
  /\ pc[t] = "idle"
  /\ \E r \in Arrivals(t) :
       /\ req' = [req EXCEPT ![t] = r]
       /\ cand' = [cand EXCEPT ![t] = IF r.kind = "EditDraft" THEN {r.target} ELSE {}]
       /\ Goto(t, FirstStep(r.kind))
  /\ tries' = [tries EXCEPT ![t] = 1]
  /\ UNCHANGED <<dataVars, version, epoch, lockVars, seen>>

(* Finish and Cancel Run take the ProductionRun row first.                  *)
LockRun(t) ==
  LET r == req[t].target
  IN  /\ pc[t] = "lockRun"
      /\ runLock[r] = Nobody
      /\ runState[r] = "IN_PRODUCTION"
      /\ runLock' = [runLock EXCEPT ![r] = t]
      /\ Goto(t, "discover")
      /\ UNCHANGED <<dataVars, version, epoch, orderLock, orderShare, productLock,
                     req, seen, cand, tries>>

RejectRun(t) ==
  /\ pc[t] = "lockRun"
  /\ runLock[req[t].target] = Nobody
  /\ runState[req[t].target] # "IN_PRODUCTION"
  /\ RollBack(t)

(* The non-locking preflight: loads the Order and discovers the set S0.     *)
Discover(t) ==
  LET s0 == FullOrderSet(t, PreflightProducts(t))
  IN  /\ pc[t] = "discover"
      /\ seen' = [seen EXCEPT ![t] =
                    IF req[t].kind \in {"Confirm", "Edit"} THEN Row(req[t].target) ELSE NoView]
      /\ cand' = [cand EXCEPT ![t] = s0]
      /\ Goto(t, IF s0 = {} THEN "lockProducts" ELSE "lockOrders")
      /\ UNCHANGED <<dataVars, version, epoch, lockVars, req, tries>>

(* The fault of locking the Orders in whatever order they were found.       *)
LockOrderUnsorted(t) ==
  /\ pc[t] = "lockOrders"
  /\ \E o \in cand[t] \ HeldOrders(t) :
       /\ orderLock[o] = Nobody
       /\ orderShare[o] \subseteq {t}
       /\ orderLock' = [orderLock EXCEPT ![o] = t]
       /\ Goto(t, IF cand[t] \subseteq HeldOrders(t) \cup {o}
                  THEN IF req[t].kind \in OrderKinds \cup {"EditDraft"}
                       THEN "check" ELSE "lockProducts"
                  ELSE "lockOrders")
  /\ UNCHANGED <<dataVars, version, epoch, orderShare, productLock, runLock,
                 req, seen, cand, tries>>

(* One Order row of the sorted SELECT ... FOR UPDATE.                       *)
LockOrder(t) ==
  /\ pc[t] = "lockOrders"
  /\ \E o \in cand[t] \ HeldOrders(t) :
       /\ \A x \in cand[t] \ HeldOrders(t) : o <= x
       /\ orderLock[o] = Nobody
       /\ orderShare[o] \subseteq {t}
       /\ orderLock' = [orderLock EXCEPT ![o] = t]
       /\ Goto(t, IF cand[t] \subseteq HeldOrders(t) \cup {o}
                  THEN IF req[t].kind \in OrderKinds \cup {"EditDraft"}
                       THEN "check" ELSE "lockProducts"
                  ELSE "lockOrders")
  /\ UNCHANGED <<dataVars, version, epoch, orderShare, productLock, runLock,
                 req, seen, cand, tries>>

(* The fault of trusting the client's picture of the Order.                 *)
Trusted(t) == TRUE

(* The checks made with the Orders locked and no Product locked yet.        *)
Checked(t) ==
  LET o == req[t].target
      view == View(t)
  IN  /\ view.version = req[t].version
      /\ CASE req[t].kind = "Confirm" -> view.status = "DRAFT" /\ view.lines # {}
           [] req[t].kind = "EditDraft" -> view.status = "DRAFT"
           [] req[t].kind = "Edit" ->
                /\ view.status = "CONFIRMED"
                /\ ~TouchesProtected(view.date, req[t].edit, ProtectedProducts(o) \cap view.lines)
           [] req[t].kind = "Cancel" ->
                view.status \in Live /\ ProtectedProducts(o) \cap view.lines = {}
           [] OTHER -> view.status = "READY" /\ ProtectedProducts(o) \cap view.lines = {}

Check(t) ==
  /\ pc[t] = "check"
  /\ Checked(t)
  /\ Goto(t, IF ClosureProducts(t) = {} THEN "write" ELSE "lockProducts")
  /\ UNCHANGED <<dataVars, version, epoch, lockVars, req, seen, cand, tries>>

RejectCheck(t) ==
  /\ pc[t] = "check"
  /\ ~Checked(t)
  /\ RollBack(t)

(* One Product row, in sorted order.                                        *)
LockProduct(t) ==
  /\ pc[t] = "lockProducts"
  /\ \E p \in ClosureProducts(t) \ HeldProducts(t) :
       /\ \A x \in ClosureProducts(t) \ HeldProducts(t) : p <= x
       /\ productLock[p] = Nobody
       /\ productLock' = [productLock EXCEPT ![p] = t]
       /\ Goto(t, IF ClosureProducts(t) \subseteq HeldProducts(t) \cup {p}
                  THEN "verify" ELSE "lockProducts")
  /\ UNCHANGED <<dataVars, version, epoch, orderLock, orderShare, runLock,
                 req, seen, cand, tries>>

----------------------------------------------------------------------------
(* The fault of skipping the second discovery.                              *)
NeverGrew(t) == FALSE

(* Re-discovery under Product serialization: did S1 stay within S0?         *)
SetGrew(t) ==
  /\ req[t].kind \in DiscoveryKinds
  /\ ~(FullOrderSet(t, ClosureProducts(t)) \subseteq cand[t])

(* The fault of a Start that does not look for another run of the           *)
(* requirement under the Product lock.                                      *)
StillThereUnguarded(t) ==
  CASE req[t].kind = "Start" ->
         epoch[req[t].target[1]] = req[t].version /\ link[req[t].target] # {}
    [] req[t].kind = "Stock" -> req[t].target \notin stocked
    [] OTHER -> TRUE

(* What the workflows without discovery re-read under the Product lock.     *)
StillThere(t) ==
  CASE req[t].kind = "Start" ->
         /\ epoch[req[t].target[1]] = req[t].version
         /\ link[req[t].target] # {}
         /\ req[t].target \notin Activity
    [] req[t].kind = "Stock" -> req[t].target \notin stocked
    [] OTHER -> TRUE

Verify(t) ==
  /\ pc[t] = "verify"
  /\ ~SetGrew(t)
  /\ StillThere(t)
  /\ Goto(t, IF req[t].kind = "Migrate" THEN "share" ELSE "write")
  /\ UNCHANGED <<dataVars, version, epoch, lockVars, req, seen, cand, tries>>

RejectVerify(t) ==
  /\ pc[t] = "verify"
  /\ \/ SetGrew(t) /\ tries[t] >= MaxAttempts
     \/ ~StillThere(t)
  /\ RollBack(t)

(* The fault of retrying without a bound.                                   *)
RetryForever(t) ==
  /\ pc[t] = "verify"
  /\ SetGrew(t)
  /\ tries' = [tries EXCEPT ![t] = @ + 1]
  /\ ReleaseAll(t)
  /\ seen' = [seen EXCEPT ![t] = NoView]
  /\ cand' = [cand EXCEPT ![t] = {}]
  /\ Goto(t, FirstStep(req[t].kind))
  /\ UNCHANGED <<dataVars, version, epoch, req>>

(* The set grew: give everything back and start over from the preflight.    *)
Retry(t) ==
  /\ pc[t] = "verify"
  /\ SetGrew(t)
  /\ tries[t] < MaxAttempts
  /\ tries' = [tries EXCEPT ![t] = @ + 1]
  /\ ReleaseAll(t)
  /\ seen' = [seen EXCEPT ![t] = NoView]
  /\ cand' = [cand EXCEPT ![t] = {}]
  /\ Goto(t, FirstStep(req[t].kind))
  /\ UNCHANGED <<dataVars, version, epoch, req>>

(* A migration inserts links (and Surplus allocations) that reference Order *)
(* rows it does not hold: each insert takes FOR KEY SHARE on its Order and  *)
(* waits for whoever has it FOR UPDATE.                                     *)
Unshared(t) ==
  {o \in Demand(status, lines, req[t].target) :
     /\ t \notin orderShare[o]
     /\ <<o, req[t].target>> \notin ProtectedPairs(link, Activity)}

ShareOrder(t) ==
  /\ pc[t] = "share"
  /\ \E o \in Unshared(t) :
       /\ orderLock[o] = Nobody
       /\ orderShare' = [orderShare EXCEPT ![o] = @ \cup {t}]
  /\ UNCHANGED <<dataVars, version, epoch, orderLock, productLock, runLock, localVars>>

Shared(t) ==
  /\ pc[t] = "share"
  /\ Unshared(t) = {}
  /\ Goto(t, "write")
  /\ UNCHANGED <<dataVars, version, epoch, lockVars, req, seen, cand, tries>>

----------------------------------------------------------------------------
(* The commits.  An UPDATE of an Order row carries the version its session  *)
(* loaded, so a row another transaction changed in between is not matched   *)
(* (StaleDataError) and the request can only roll back.                     *)
Overwriting(t) == TRUE  \* the fault of an Order without version_id_col

Fresh(t) == version[req[t].target] = View(t).version

BumpVersions(touched) ==
  version' = [o \in Orders |->
                IF o \in touched \/ status'[o] # status[o] THEN version[o] + 1 ELSE version[o]]

BumpEpochs(Ps) ==
  epoch' = [p \in Products |-> IF p \in Ps \cap Produced THEN epoch[p] + 1 ELSE epoch[p]]

Writing(t, kind) == pc[t] = "write" /\ req[t].kind = kind

CommitConfirm(t) ==
  LET o == req[t].target
      st == [status EXCEPT ![o] = "CONFIRMED"]
      Ps == ClosureProducts(t)
  IN  /\ Writing(t, "Confirm")
      /\ Fresh(t)
      /\ UNCHANGED <<runVars, stocked, given>>
      /\ Settle(st, lines, date, link, covered, Ps, ReadyPairs(st), cand[t])
      /\ BumpVersions({o})
      /\ BumpEpochs(Ps)
      /\ End(t)

(* A line run output went to cannot be deleted (ON DELETE NO ACTION).       *)
CommitEdit(t) ==
  LET o == req[t].target
      e == req[t].edit
      Ps == ClosureProducts(t)
      ln == [lines EXCEPT ![o] = e.lines]
      cv == covered \ ({o} \X e.resized)
  IN  /\ Writing(t, "Edit")
      /\ Fresh(t)
      /\ Ps # {}
      /\ given \cap ({o} \X (lines[o] \ e.lines)) = {}
      /\ UNCHANGED <<runVars, stocked, given>>
      /\ Settle(status, ln, [date EXCEPT ![o] = e.date], Cascaded(link, o, e.lines), cv,
                Ps, ReadyPairs(status), cand[t])
      /\ BumpVersions({o})
      /\ BumpEpochs(Ps)
      /\ End(t)

(* Prices, notes or the customer only: no recalculation, no evaluation.     *)
CommitPlainEdit(t) ==
  /\ Writing(t, "Edit")
  /\ Fresh(t)
  /\ ClosureProducts(t) = {}
  /\ UNCHANGED <<dataVars, epoch>>
  /\ BumpVersions({req[t].target})
  /\ End(t)

(* The fault of a Cancel that evaluates no sibling.                         *)
CommitCancelAlone(t) ==
  LET o == req[t].target
      st == [status EXCEPT ![o] = "CANCELED"]
      Ps == ClosureProducts(t)
  IN  /\ Writing(t, "Cancel")
      /\ UNCHANGED <<runVars, stocked, given>>
      /\ Settle(st, lines, date, link, covered, Ps, ReadyPairs(st), {})
      /\ BumpVersions({o})
      /\ BumpEpochs(Ps)
      /\ End(t)

CommitCancel(t) ==
  LET o == req[t].target
      st == [status EXCEPT ![o] = "CANCELED"]
      Ps == ClosureProducts(t)
  IN  /\ Writing(t, "Cancel")
      /\ UNCHANGED <<runVars, stocked, given>>
      /\ Settle(st, lines, date, link, covered, Ps, ReadyPairs(st), cand[t] \ {o})
      /\ BumpVersions({o})
      /\ BumpEpochs(Ps)
      /\ End(t)

(* The fault of a completion whose only look at the runs is the early one.  *)
CommitCompleteEarly(t) ==
  LET o == req[t].target
      st == [status EXCEPT ![o] = "COMPLETED"]
      Ps == ClosureProducts(t)
  IN  /\ Writing(t, "Complete")
      /\ Satisfied(lines, covered, o)
      /\ UNCHANGED <<runVars, stocked, given>>
      /\ Settle(st, lines, date, link, covered, Ps, ReadyPairs(st), cand[t] \ {o})
      /\ BumpVersions({o})
      /\ BumpEpochs(Ps)
      /\ End(t)

(* Completion re-checks the runs and the coverage with everything locked.   *)
CommitComplete(t) ==
  LET o == req[t].target
      st == [status EXCEPT ![o] = "COMPLETED"]
      Ps == ClosureProducts(t)
  IN  /\ Writing(t, "Complete")
      /\ ProtectedProducts(o) \cap lines[o] = {}
      /\ Satisfied(lines, covered, o)
      /\ UNCHANGED <<runVars, stocked, given>>
      /\ Settle(st, lines, date, link, covered, Ps, ReadyPairs(st), cand[t] \ {o})
      /\ BumpVersions({o})
      /\ BumpEpochs(Ps)
      /\ End(t)

CommitEditDraft(t) ==
  LET o == req[t].target
      e == req[t].edit
  IN  /\ Writing(t, "EditDraft")
      /\ lines' = [lines EXCEPT ![o] = e.lines]
      /\ date' = [date EXCEPT ![o] = e.date]
      /\ UNCHANGED <<status, covered, link, runVars, stocked, given, epoch>>
      /\ BumpVersions({o})
      /\ End(t)

CommitStart(t) ==
  /\ Writing(t, "Start")
  /\ \E r \in Runs :
       /\ runState[r] = "FREE"
       /\ runState' = [runState EXCEPT ![r] = "IN_PRODUCTION"]
       /\ runKey' = [runKey EXCEPT ![r] = req[t].target]
  /\ UNCHANGED <<orderVars, covered, link, stocked, given, version, epoch>>
  /\ End(t)

(* Output goes to open lines of the Orders locked in discovery, whatever    *)
(* their status is by now; `given` keeps the lines it satisfied.            *)
CommitRunEnd(t) ==
  LET r == req[t].target
      p == runKey[r][1]
      outcome == IF req[t].kind = "Finish" THEN "COMPLETED" ELSE "CANCELED"
      open == {x \in cand[t] \X {p} : p \in lines[x[1]] /\ x \notin covered}
  IN  /\ pc[t] = "write"
      /\ req[t].kind \in RunKinds
      /\ runState' = [runState EXCEPT ![r] = outcome]
      /\ UNCHANGED <<runKey, stocked>>
      /\ \E gained \in SUBSET open :
           /\ outcome = "CANCELED" => gained = {}
           /\ given' = given \cup gained
           /\ Settle(status, lines, date, link, covered \cup gained, {p},
                     ReadyPairs(status), cand[t])
      /\ BumpVersions({})
      /\ BumpEpochs({p})
      /\ End(t)

CommitAdjust(t) ==
  LET p == req[t].target
  IN  /\ Writing(t, "Adjust")
      /\ UNCHANGED <<runVars, stocked, given>>
      /\ Settle(status, lines, date, link, covered, {p}, {}, cand[t])
      /\ BumpVersions({})
      /\ BumpEpochs({p})
      /\ End(t)

CommitStock(t) ==
  /\ Writing(t, "Stock")
  /\ OpenStock(req[t].target)
  /\ UNCHANGED <<given, version, epoch>>
  /\ End(t)

CommitMigrate(t) ==
  /\ Writing(t, "Migrate")
  /\ Migrate(req[t].target)
  /\ UNCHANGED <<given, version>>
  /\ BumpEpochs({req[t].target})
  /\ End(t)

(* Rejected with everything locked: unacknowledged warnings, a date         *)
(* conflict, lost coverage, a stale row, a value out of range.              *)
RejectWrite(t) == pc[t] = "write" /\ RollBack(t)

----------------------------------------------------------------------------
(* Who a request waits for.                                                 *)
Next1(S) == {x \in S : \A y \in S : x <= y}

Blockers(t) ==
  CASE pc[t] = "lockRun" -> {runLock[req[t].target]} \ {Nobody}
    [] pc[t] = "lockOrders" ->
         UNION {({orderLock[o]} \ {Nobody}) \cup (orderShare[o] \ {t}) :
                  o \in Next1(cand[t] \ HeldOrders(t))}
    [] pc[t] = "lockProducts" ->
         {productLock[p] : p \in Next1(ClosureProducts(t) \ HeldProducts(t))} \ {Nobody}
    [] pc[t] = "share" ->
         IF \A o \in Unshared(t) : orderLock[o] # Nobody
         THEN {orderLock[o] : o \in Unshared(t)}
         ELSE {}
    [] OTHER -> {}

Deadlocked(S) == S # {} /\ \A t \in S : Blockers(t) \cap S # {}

(* PostgreSQL aborts one transaction of a wait cycle.                       *)
DeadlockVictim(t) ==
  /\ \E S \in SUBSET Requests : t \in S /\ Deadlocked(S)
  /\ RollBack(t)

Commit(t) ==
  \/ CommitConfirm(t) \/ CommitEdit(t) \/ CommitPlainEdit(t) \/ CommitCancel(t)
  \/ CommitComplete(t) \/ CommitEditDraft(t) \/ CommitStart(t) \/ CommitRunEnd(t)
  \/ CommitAdjust(t) \/ CommitStock(t) \/ CommitMigrate(t)

Serve(t) ==
  \/ LockRun(t) \/ RejectRun(t) \/ Discover(t) \/ LockOrder(t)
  \/ Check(t) \/ RejectCheck(t) \/ LockProduct(t)
  \/ Verify(t) \/ RejectVerify(t) \/ Retry(t) \/ ShareOrder(t) \/ Shared(t)
  \/ Commit(t) \/ RejectWrite(t) \/ DeadlockVictim(t)

TxNext == \E t \in Requests : Arrive(t) \/ Serve(t)

(* A request that has arrived is served by its own worker and PostgreSQL    *)
(* grants a free lock to a waiter; nothing obliges a client to send one.    *)
Fairness == \A t \in Requests : WF_txVars(Serve(t))

TxSpec == TxInit /\ [][TxNext]_txVars /\ Fairness

----------------------------------------------------------------------------
TxTypeOK ==
  /\ TypeOK
  /\ version \in [Orders -> Nat]
  /\ epoch \in [Products -> Nat]
  /\ given \subseteq Orders \X Products
  /\ orderLock \in [Orders -> Requests \cup {Nobody}]
  /\ orderShare \in [Orders -> SUBSET Requests]
  /\ productLock \in [Products -> Requests \cup {Nobody}]
  /\ runLock \in [Runs -> Requests \cup {Nobody}]
  /\ pc \in [Requests -> PCs]
  /\ \A t \in Requests : req[t].kind \in Kinds \cup {"none"}
  /\ cand \in [Requests -> SUBSET Orders]
  /\ tries \in [Requests -> 0..MaxAttempts]

(* Between verification and commit, a workflow that evaluates readiness     *)
(* holds the row of every live Order with demand for the Products it        *)
(* recalculates: nobody joined the set, and nobody else may write to it     *)
(* (the discover-lock-verify protocol).                                     *)
CandidatesStayLocked ==
  \A t \in Requests :
    pc[t] = "write" /\ req[t].kind \in DiscoveryKinds =>
      FullOrderSet(t, ClosureProducts(t)) \subseteq HeldOrders(t)

(* Requests never wait for each other in a circle.                          *)
NoWaitCycle == \A S \in SUBSET Requests : ~Deadlocked(S)

(* No transaction overwrites an Order it judged by an outdated copy: when a *)
(* request changes its Order, the row still had the version the client      *)
(* named (stale identity maps are caught by version_id_col).                *)
NoLostUpdate ==
  [][\A t \in Requests :
       /\ req[t].kind \in OrderKinds \cup {"EditDraft"}
       /\ pc'[t] = "done"
       /\ version' # version
       => version[req[t].target] = req[t].version]_txVars

(* What the workflows promise when seen as single atomic steps.             *)
AtomicSpec == Spec

(* A request that arrived is answered.                                      *)
EveryRequestAnswered == \A t \in Requests : pc[t] # "idle" ~> pc[t] = "done"

(* Demand covered by an IN_PRODUCTION run hard-blocks Cancel (ADR-126).     *)
CancelBlockedByRun ==
  \A k \in Activity : \A o \in link[k] : status[o] # "CANCELED"

(* An edit never alters demand covered by an IN_PRODUCTION run: the line    *)
(* stays on its Order and the Order keeps the date the run was started for. *)
EditBlockedByRun ==
  \A k \in Activity : \A o \in link[k] : status[o] \in Live => date[o] = k[2]

(* Finished output is allocated to CONFIRMED and READY Orders only (RUN-011 *)
(* and the contract of allocate_production_output).                         *)
OutputGoesToDemand ==
  [][given' \ given \subseteq DemandPairs(status, lines)]_txVars

(* A CONFIRMED Order whose every line is satisfied has been promoted.       *)
SatisfiedIsReady ==
  \A o \in Orders : status[o] = "CONFIRMED" => ~Satisfied(lines, covered, o)
============================================================================
