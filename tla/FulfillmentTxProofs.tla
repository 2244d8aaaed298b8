------------------------ MODULE FulfillmentTxProofs ------------------------
(***************************************************************************)
(* Proofs about the locking protocol: that it implements the atomic         *)
(* specification, so every invariant of the latter is one of the former,    *)
(* that the candidate Orders of a recalculation stay locked, and that no    *)
(* update is lost; then about who waits for what.                           *)
(*                                                                         *)
(* The invariant says, request by request, what its place in the protocol   *)
(* entitles it to rely on.  A step of another request u keeps it because    *)
(* of one summary of what any step can do (Effect): it changes only Orders  *)
(* u holds, raises their versions when it does, lets demand grow and links  *)
(* change only for Products u holds, and ends only runs u holds.            *)
(*                                                                         *)
(* No Order is left CONFIRMED when all of its lines are satisfied, but for  *)
(* those with a Purchased Product that got its first inventory row or with  *)
(* a Produced one whose demand was migrated: the two workflows that can     *)
(* make coverage appear and evaluate no Order.                              *)
(*                                                                         *)
(* Requests never wait for each other in a circle unless a migration is     *)
(* part of it.  Locks are taken runs first, then Orders, then Products, and *)
(* Orders and Products each in ascending order.  In a circle, whoever waits *)
(* for a Product waits for somebody who also waits for one, and for a       *)
(* greater one: a finite set of naturals without a maximum.  A migration    *)
(* shares Orders after it took its Product and breaks the order.            *)
(***************************************************************************)
EXTENDS FulfillmentTx, FulfillmentProofs, FiniteSetTheorems, WellFoundedInduction

OnOrder == OrderKinds \cup {"EditDraft"}

WellFormed(r) ==
  /\ r.kind \in Kinds \cup {"none"}
  /\ r.kind \in OnOrder => r.target \in Orders /\ r.version \in Nat
  /\ r.kind \in {"Edit", "EditDraft"} => r.edit \in EditPayloads
  /\ r.kind \in RunKinds => r.target \in Runs
  /\ r.kind = "Start" => r.target \in Keys
  /\ r.kind \in {"Adjust", "Stock", "Migrate"} => r.target \in Products

DataTypes ==
  /\ version \in [Orders -> Nat]
  /\ epoch \in [Products -> Nat]
  /\ given \subseteq Orders \X Products

LocalTypes ==
  /\ orderLock \in [Orders -> Requests \cup {Nobody}]
  /\ orderShare \in [Orders -> SUBSET Requests]
  /\ productLock \in [Products -> Requests \cup {Nobody}]
  /\ runLock \in [Runs -> Requests \cup {Nobody}]
  /\ pc \in [Requests -> PCs]
  /\ cand \in [Requests -> SUBSET Orders]
  /\ tries \in [Requests -> 0..MaxAttempts]
  /\ req = [t \in Requests |-> req[t]]
  /\ seen = [t \in Requests |-> seen[t]]
  /\ \A t \in Requests :
       /\ WellFormed(req[t])
       /\ seen[t].lines \subseteq Products
       /\ seen[t].version \in Nat

TxTypes == TypeOK /\ DataTypes /\ LocalTypes

(* The workflow a request is for fits its place.                            *)
Placed(t) ==
  /\ pc[t] \in {"idle", "done"} <=> req[t].kind = "none"
  /\ pc[t] = "lockRun" => req[t].kind \in RunKinds
  /\ pc[t] = "discover" => req[t].kind \in DiscoveryKinds
  /\ pc[t] = "lockOrders" => req[t].kind \in DiscoveryKinds \cup {"EditDraft"}
  /\ pc[t] = "check" => req[t].kind \in OnOrder
  /\ pc[t] \in {"lockProducts", "verify"} => req[t].kind \in DiscoveryKinds \cup ProductKinds
  /\ pc[t] = "share" => req[t].kind = "Migrate"
  /\ req[t].kind = "Adjust" => req[t].target \in Produced \cup stocked

(* It has the Orders it discovered, its own among them, ...                 *)
HasOrders(t) ==
  /\ pc[t] \in {"check", "lockProducts", "verify", "share", "write"} =>
       cand[t] \subseteq HeldOrders(t)
  /\ pc[t] \in {"lockOrders", "check", "lockProducts", "verify", "share", "write"} =>
       (req[t].kind \in OnOrder => req[t].target \in cand[t])

(* ... from verification on the Products it recalculates, ...               *)
HasProducts(t) ==
  pc[t] \in {"verify", "share", "write"} => ClosureProducts(t) \subseteq HeldProducts(t)

(* ... and the run it ends, still in production.                            *)
HasRun(t) ==
  req[t].kind \in RunKinds /\ pc[t] # "lockRun" =>
    runLock[req[t].target] = t /\ runState[req[t].target] = "IN_PRODUCTION"

(* What it checked of its Order still holds of its view of it.              *)
Judged(t) ==
  pc[t] \in {"lockProducts", "verify", "share", "write"} /\ req[t].kind \in OnOrder =>
    /\ View(t).version = req[t].version
    /\ req[t].kind = "Confirm" => View(t).status = "DRAFT" /\ View(t).lines # {}
    /\ req[t].kind = "Edit" => View(t).status = "CONFIRMED"
    /\ req[t].kind = "EditDraft" => View(t).status = "DRAFT"
    /\ req[t].kind = "Cancel" => View(t).status \in Live
    /\ req[t].kind = "Complete" => View(t).status = "READY"

(* A remembered Order is the Order, or an earlier version of it.            *)
SeenEarlier(t) ==
  req[t].kind \in {"Confirm", "Edit"} /\ pc[t] # "discover" =>
    /\ seen[t].version <= version[req[t].target]
    /\ seen[t].version = version[req[t].target] => seen[t] = Row(req[t].target)

(* Nobody joined the set it verified.                                       *)
NobodyJoined(t) ==
  pc[t] = "write" /\ req[t].kind \in DiscoveryKinds =>
    FullOrderSet(t, ClosureProducts(t)) \subseteq cand[t]

(* A requirement about to be started still waits for a run.                 *)
Startable(t) ==
  pc[t] = "write" /\ req[t].kind = "Start" =>
    link[req[t].target] # {} /\ req[t].target \notin Activity

Entitled(t) ==
  /\ Placed(t)
  /\ HasOrders(t)
  /\ HasProducts(t)
  /\ HasRun(t)
  /\ Judged(t)
  /\ SeenEarlier(t)
  /\ NobodyJoined(t)
  /\ Startable(t)

TxInv == TxTypes /\ LinkInv /\ \A t \in Requests : Entitled(t)

----------------------------------------------------------------------------
(* A step of request u as the other requests see it: their places and locks *)
(* stay theirs, ...                                                         *)
LocalEffect(u) ==
  \A t \in Requests \ {u} :
    /\ pc'[t] = pc[t] /\ req'[t] = req[t] /\ seen'[t] = seen[t] /\ cand'[t] = cand[t]
    /\ \A o \in Orders : orderLock[o] = t => orderLock'[o] = t
    /\ \A p \in Products : productLock[p] = t => productLock'[p] = t
    /\ \A r \in Runs : runLock[r] = t => runLock'[r] = t

(* ... and data change only under the locks of u.                           *)
DataEffect(u) ==
  /\ \A o \in Orders :
       /\ version'[o] \in Nat /\ version[o] <= version'[o]
       /\ version'[o] = version[o] \/ orderLock[o] # u => Row(o)' = Row(o)
  /\ \A r \in Runs : runState[r] = "IN_PRODUCTION" =>
       /\ runKey'[r] = runKey[r]
       /\ runLock[r] # u => runState'[r] = "IN_PRODUCTION"
  /\ \A p \in Products : productLock[p] # u =>
       /\ Demand(status', lines', p) \subseteq Demand(status, lines, p)
       /\ \A k \in Keys : k[1] = p =>
            link'[k] = link[k] /\ (k \in Activity' => k \in Activity)
  /\ stocked \subseteq stocked'

(* The Products of a workflow, kind by kind.                                *)
LEMMA ClosureOf ==
  ASSUME NEW t
  PROVE  /\ req[t].kind \in {"Confirm", "Cancel", "Complete"} =>
              ClosureProducts(t) = View(t).lines
         /\ req[t].kind = "Edit" =>
              ClosureProducts(t) =
                IF DemandAffecting(View(t).lines, View(t).date, req[t].edit)
                THEN View(t).lines \cup req[t].edit.lines ELSE {}
         /\ req[t].kind \in RunKinds => ClosureProducts(t) = {runKey[req[t].target][1]}
         /\ req[t].kind = "Start" => ClosureProducts(t) = {req[t].target[1]}
         /\ req[t].kind \in {"Adjust", "Stock", "Migrate"} =>
              ClosureProducts(t) = {req[t].target}
         /\ req[t].kind \in {"none", "EditDraft"} => ClosureProducts(t) = {}
<1>1. CASE req[t].kind \in {"Confirm", "Cancel", "Complete"}
  BY <1>1 DEF ClosureProducts, RunKinds
<1>2. CASE req[t].kind = "Edit"
  BY <1>2 DEF ClosureProducts, RunKinds
<1>3. CASE req[t].kind \in RunKinds
  BY <1>3 DEF ClosureProducts, RunKinds
<1>4. CASE req[t].kind = "Start"
  BY <1>4 DEF ClosureProducts, RunKinds
<1>5. CASE req[t].kind \in {"Adjust", "Stock", "Migrate"}
  BY <1>5 DEF ClosureProducts, RunKinds
<1>6. CASE req[t].kind \in {"none", "EditDraft"}
  BY <1>6 DEF ClosureProducts, RunKinds
<1>7. CASE req[t].kind \notin {"Confirm", "Cancel", "Complete", "Edit", "Start", "Adjust",
                             "Stock", "Migrate", "none", "EditDraft"} \cup RunKinds
  BY <1>7
<1> QED
  BY <1>1, <1>2, <1>3, <1>4, <1>5, <1>6, <1>7

LEMMA ClosureType ==
  ASSUME TxTypes, NEW t \in Requests, Entitled(t), pc[t] # "lockRun"
  PROVE  ClosureProducts(t) \subseteq Products
<1>1. /\ WellFormed(req[t]) /\ seen[t].lines \subseteq Products /\ TypeOK /\ HasRun(t)
  BY DEF TxTypes, LocalTypes, Entitled
<1>2. CASE req[t].kind \in RunKinds
  <2>1. req[t].target \in Runs /\ runState[req[t].target] = "IN_PRODUCTION"
    BY <1>1, <1>2 DEF HasRun, WellFormed
  <2>2. runKey[req[t].target] \in Keys
    BY <1>1, <2>1 DEF TypeOK
  <2> QED
    BY <1>2, <2>2, ClosureOf, KeyIsPair
<1>3. CASE req[t].kind \in OrderKinds
  <2>1. req[t].target \in Orders
    BY <1>1, <1>3 DEF WellFormed, OnOrder
  <2>2. View(t).lines \subseteq Products
    BY <1>1, <2>1 DEF View, Row, TypeOK
  <2>3. req[t].kind = "Edit" => req[t].edit.lines \subseteq Products
    BY <1>1, PayloadAssumption DEF WellFormed
  <2> QED
    BY <1>3, <2>2, <2>3, ClosureOf DEF OrderKinds
<1>4. CASE req[t].kind = "Start"
  <2>1. ClosureProducts(t) = {req[t].target[1]} /\ req[t].target \in Keys
    BY <1>1, <1>4, ClosureOf DEF WellFormed
  <2> QED
    BY <2>1, KeyIsPair
<1>5. CASE req[t].kind \in {"Adjust", "Stock", "Migrate"}
  BY <1>1, <1>5, ClosureOf DEF WellFormed
<1>6. CASE req[t].kind \in {"none", "EditDraft"}
  BY <1>6, ClosureOf
<1> QED
  BY <1>1, <1>2, <1>3, <1>4, <1>5, <1>6
  DEF WellFormed, Kinds, DiscoveryKinds, ProductKinds, SupplyKinds

(* From its check on, what a request sees of its Order stays as it is, and  *)
(* from its locking of Products on what it recalculates, whatever others do.*)
LEMMA OthersView ==
  ASSUME TxTypes, NEW u \in Requests, LocalEffect(u), DataEffect(u),
         NEW t \in Requests \ {u}, Entitled(t)
  PROVE  /\ pc[t] \in {"check", "lockProducts", "verify", "share", "write"}
              /\ req[t].kind \in OnOrder => View(t)' = View(t)
         /\ pc[t] \in {"lockProducts", "verify", "share", "write"} =>
              ClosureProducts(t)' = ClosureProducts(t)
<1>u. req'[t] = req[t] /\ seen'[t] = seen[t]
  BY DEF LocalEffect
<1>w. WellFormed(req[t])
  BY DEF TxTypes, LocalTypes
<1>e. HasOrders(t) /\ HasRun(t)
  BY DEF Entitled
<1>1. ASSUME req[t].kind \in OnOrder,
             pc[t] \in {"check", "lockProducts", "verify", "share", "write"}
      PROVE  \A o \in Orders : o = req[t].target => Row(o)' = Row(o)
  <2>1. req[t].target \in Orders /\ orderLock[req[t].target] = t
    BY <1>1, <1>w, <1>e DEF HasOrders, HeldOrders, WellFormed
  <2> QED
    BY <2>1 DEF DataEffect
<1>2. ASSUME pc[t] \in {"check", "lockProducts", "verify", "share", "write"},
             req[t].kind \in OnOrder
      PROVE  View(t)' = View(t)
  <2>1. PICK o \in Orders : o = req[t].target
    BY <1>2, <1>w DEF WellFormed
  <2>2. Row(o)' = Row(o)
    BY <1>1, <1>2, <2>1
  <2> QED
    BY <1>u, <2>1, <2>2 DEF View, Row
<1>3. ASSUME pc[t] \in {"lockProducts", "verify", "share", "write"}
      PROVE  ClosureProducts(t)' = ClosureProducts(t)
  <2>1. CASE req[t].kind \in OnOrder
    <3>1. View(t)' = View(t)
      BY <1>2, <1>3, <2>1
    <3>2. CASE req[t].kind \in {"Confirm", "Cancel", "Complete"}
      BY <1>u, <3>1, <3>2 DEF ClosureProducts
    <3>3. CASE req[t].kind = "Edit"
      BY <1>u, <3>1, <3>3 DEF ClosureProducts
    <3>4. CASE req[t].kind = "EditDraft"
      BY <1>u, <3>4 DEF ClosureProducts, RunKinds
    <3> QED
      BY <2>1, <3>2, <3>3, <3>4 DEF OnOrder, OrderKinds
  <2>2. CASE req[t].kind \in RunKinds
    <3>1. runKey'[req[t].target] = runKey[req[t].target]
      BY <1>e, <1>w, <1>3, <2>2 DEF HasRun, WellFormed, DataEffect
    <3> QED
      BY <1>u, <2>2, <3>1 DEF ClosureProducts, RunKinds
  <2>3. CASE req[t].kind \notin OnOrder \cup RunKinds
    BY <1>u, <2>3 DEF ClosureProducts, OnOrder, OrderKinds
  <2> QED
    BY <2>1, <2>2, <2>3
<1> QED
  BY <1>2, <1>3

(* A request is as entitled after a step of another one as before.          *)
LEMMA OthersKeep ==
  ASSUME TxTypes, NEW u \in Requests, LocalEffect(u), DataEffect(u),
         NEW t \in Requests \ {u}, Entitled(t)
  PROVE  Entitled(t)'
<1>u. /\ pc'[t] = pc[t] /\ req'[t] = req[t] /\ seen'[t] = seen[t] /\ cand'[t] = cand[t]
      /\ \A o \in Orders : orderLock[o] = t => orderLock'[o] = t
      /\ \A p \in Products : productLock[p] = t => productLock'[p] = t
      /\ \A r \in Runs : runLock[r] = t => runLock'[r] = t
  BY DEF LocalEffect
<1>h. HeldOrders(t) \subseteq HeldOrders(t)' /\ HeldProducts(t) \subseteq HeldProducts(t)'
  BY <1>u DEF HeldOrders, HeldProducts
<1>w. WellFormed(req[t]) /\ seen[t].version \in Nat /\ seen[t].lines \subseteq Products
  BY DEF TxTypes, LocalTypes
<1>e. /\ Placed(t) /\ HasOrders(t) /\ HasProducts(t) /\ HasRun(t) /\ Judged(t)
      /\ SeenEarlier(t) /\ NobodyJoined(t) /\ Startable(t)
  BY DEF Entitled
<1>2. ASSUME pc[t] \in {"check", "lockProducts", "verify", "share", "write"},
             req[t].kind \in OnOrder
      PROVE  View(t)' = View(t)
  BY <1>2, OthersView
<1>3. ASSUME pc[t] \in {"verify", "share", "write"}
      PROVE  ClosureProducts(t)' = ClosureProducts(t)
  BY <1>3, OthersView
<1>4. Placed(t)'
  <2>1. stocked \subseteq stocked'
    BY DEF DataEffect
  <2> QED
    BY <1>u, <1>e, <2>1 DEF Placed
<1>5. HasOrders(t)'
  BY <1>u, <1>h, <1>e DEF HasOrders
<1>6. HasProducts(t)'
  BY <1>u, <1>h, <1>e, <1>3 DEF HasProducts
<1>7. HasRun(t)'
  <2> SUFFICES ASSUME req[t].kind \in RunKinds, pc[t] # "lockRun"
               PROVE  runLock'[req[t].target] = t /\ runState'[req[t].target] = "IN_PRODUCTION"
    BY <1>u DEF HasRun
  <2>1. req[t].target \in Runs /\ runLock[req[t].target] = t
        /\ runState[req[t].target] = "IN_PRODUCTION"
    BY <1>e, <1>w DEF HasRun, WellFormed
  <2> QED
    BY <1>u, <2>1 DEF DataEffect
<1>8. Judged(t)'
  BY <1>u, <1>e, <1>2 DEF Judged
<1>9. SeenEarlier(t)'
  <2> SUFFICES ASSUME req[t].kind \in {"Confirm", "Edit"}, pc[t] # "discover"
               PROVE  SeenEarlier(t)'
    BY <1>u DEF SeenEarlier
  <2>1. PICK o \in Orders : o = req[t].target
    BY <1>w DEF WellFormed, OnOrder, OrderKinds
  <2>2. version[o] \in Nat
    BY <2>1 DEF TxTypes, DataTypes
  <2>3. seen[t].version <= version[o] /\ (seen[t].version = version[o] => seen[t] = Row(o))
    BY <1>e, <2>1 DEF SeenEarlier
  <2>4. /\ version'[o] \in Nat /\ version[o] <= version'[o]
        /\ version'[o] = version[o] => Row(o)' = Row(o)
    BY <2>1 DEF DataEffect
  <2>5. seen[t].version <= version'[o]
    BY <1>w, <2>2, <2>3, <2>4
  <2>6. seen[t].version = version'[o] => version'[o] = version[o]
    BY <1>w, <2>2, <2>3, <2>4
  <2> QED
    BY <1>u, <2>1, <2>3, <2>4, <2>5, <2>6 DEF SeenEarlier, Row
<1>10. NobodyJoined(t)'
  <2> SUFFICES ASSUME pc[t] = "write", req[t].kind \in DiscoveryKinds
               PROVE  FullOrderSet(t, ClosureProducts(t))' \subseteq cand[t]
    BY <1>u DEF NobodyJoined
  <2>1. ClosureProducts(t)' = ClosureProducts(t)
    BY <1>3
  <2>2. ASSUME NEW p \in ClosureProducts(t)
        PROVE  Demand(status', lines', p) \subseteq Demand(status, lines, p)
    <3>1. p \in Products /\ productLock[p] = t
      BY <1>e DEF HasProducts, HeldProducts
    <3> QED
      BY <3>1 DEF DataEffect
  <2>3. FullOrderSet(t, ClosureProducts(t))' \subseteq FullOrderSet(t, ClosureProducts(t))
    BY <1>u, <2>1, <2>2 DEF FullOrderSet
  <2> QED
    BY <1>e, <2>3 DEF NobodyJoined
<1>11. Startable(t)'
  <2> SUFFICES ASSUME pc[t] = "write", req[t].kind = "Start"
               PROVE  link'[req[t].target] # {} /\ req[t].target \notin Activity'
    BY <1>u DEF Startable
  <2> DEFINE k == req[t].target
  <2>1. k \in Keys /\ k[1] \in Products
    BY <1>w, KeyIsPair DEF WellFormed
  <2>2. ClosureProducts(t) = {k[1]}
    BY DEF ClosureProducts, RunKinds
  <2>3. productLock[k[1]] = t
    BY <1>e, <2>2 DEF HasProducts, HeldProducts
  <2>4. link'[k] = link[k] /\ (k \in Activity' => k \in Activity)
    BY <2>1, <2>3 DEF DataEffect
  <2>5. link[k] # {} /\ k \notin Activity
    BY <1>e DEF Startable
  <2> QED
    BY <2>4, <2>5
<1> QED
  BY <1>4, <1>5, <1>6, <1>7, <1>8, <1>9, <1>10, <1>11 DEF Entitled

----------------------------------------------------------------------------
(* Steps that change no row.                                                *)

RowsKept == UNCHANGED <<dataVars, version, epoch>>

LEMMA KeptDataEffect ==
  ASSUME TxTypes, RowsKept, NEW u
  PROVE  DataEffect(u) /\ TypeOK' /\ DataTypes'
<1>1. /\ UNCHANGED <<status, lines, date, covered, link, runState, runKey, stocked>>
      /\ UNCHANGED <<given, version, epoch>>
  BY DEF RowsKept, dataVars, vars, orderVars, runVars
<1>2. TypeOK' /\ DataTypes'
  BY <1>1 DEF TxTypes, TypeOK, DataTypes
<1>3. ASSUME NEW o \in Orders
      PROVE  version'[o] \in Nat /\ version[o] <= version'[o] /\ Row(o)' = Row(o)
  BY <1>1 DEF TxTypes, DataTypes, Row
<1>4. Activity' = Activity
  BY <1>1 DEF Activity, Active
<1>5. \A p : Demand(status', lines', p) = Demand(status, lines, p)
  BY <1>1
<1> QED
  BY <1>1, <1>2, <1>3, <1>4, <1>5 DEF DataEffect

(* A rollback or commit gives back only its own locks.                      *)
LEMMA ReleaseEffect ==
  ASSUME LocalTypes, NEW t \in Requests, ReleaseAll(t)
  PROVE  /\ orderLock' \in [Orders -> Requests \cup {Nobody}]
         /\ orderShare' \in [Orders -> SUBSET Requests]
         /\ productLock' \in [Products -> Requests \cup {Nobody}]
         /\ runLock' \in [Runs -> Requests \cup {Nobody}]
         /\ \A x \in Requests \ {t} :
              /\ \A o \in Orders : orderLock[o] = x => orderLock'[o] = x
              /\ \A p \in Products : productLock[p] = x => productLock'[p] = x
              /\ \A r \in Runs : runLock[r] = x => runLock'[r] = x
<1>1. /\ orderLock \in [Orders -> Requests \cup {Nobody}]
      /\ orderShare \in [Orders -> SUBSET Requests]
      /\ productLock \in [Products -> Requests \cup {Nobody}]
      /\ runLock \in [Runs -> Requests \cup {Nobody}]
  BY DEF LocalTypes
<1> QED
  BY <1>1 DEF ReleaseAll, Without

(* An answered request relies on nothing.                                   *)
LEMMA EndEntitled ==
  ASSUME TxTypes, NEW t \in Requests, End(t)
  PROVE  LocalTypes' /\ LocalEffect(t) /\ Entitled(t)'
<1>1. /\ pc' = [pc EXCEPT ![t] = "done"]
      /\ req' = [req EXCEPT ![t] = NoRequest]
      /\ seen' = [seen EXCEPT ![t] = NoView]
      /\ cand' = [cand EXCEPT ![t] = {}]
      /\ tries' = [tries EXCEPT ![t] = 0]
      /\ ReleaseAll(t)
  BY DEF End, Goto
<1>2. pc'[t] = "done" /\ req'[t].kind = "none" /\ req'[t] = NoRequest /\ seen'[t] = NoView
  BY <1>1 DEF TxTypes, LocalTypes, NoRequest
<1>3. LocalTypes'
  <2>1. /\ orderLock' \in [Orders -> Requests \cup {Nobody}]
        /\ orderShare' \in [Orders -> SUBSET Requests]
        /\ productLock' \in [Products -> Requests \cup {Nobody}]
        /\ runLock' \in [Runs -> Requests \cup {Nobody}]
    BY <1>1, ReleaseEffect DEF TxTypes
  <2>2. /\ pc' \in [Requests -> PCs]
        /\ cand' \in [Requests -> SUBSET Orders]
        /\ tries' \in [Requests -> 0..MaxAttempts]
    BY <1>1, TxAssumption DEF TxTypes, LocalTypes, PCs
  <2>3. WellFormed(NoRequest)
    BY DEF WellFormed, NoRequest, OnOrder, OrderKinds, RunKinds
  <2>4. NoView.lines \subseteq Products /\ NoView.version \in Nat
    BY DEF NoView
  <2>5. /\ req' = [x \in Requests |-> req'[x]]
        /\ seen' = [x \in Requests |-> seen'[x]]
        /\ \A x \in Requests \ {t} : req'[x] = req[x] /\ seen'[x] = seen[x]
    BY <1>1 DEF TxTypes, LocalTypes
  <2>6. \A x \in Requests : /\ WellFormed(req'[x])
                            /\ seen'[x].lines \subseteq Products
                            /\ seen'[x].version \in Nat
    BY <1>2, <2>3, <2>4, <2>5 DEF TxTypes, LocalTypes
  <2> QED
    BY <2>1, <2>2, <2>5, <2>6 DEF LocalTypes, WellFormed
<1>4. LocalEffect(t)
  <2>1. \A x \in Requests \ {t} :
          pc'[x] = pc[x] /\ req'[x] = req[x] /\ seen'[x] = seen[x] /\ cand'[x] = cand[x]
    BY <1>1 DEF TxTypes, LocalTypes
  <2> QED
    BY <1>1, <2>1, ReleaseEffect DEF LocalEffect, TxTypes
<1>5. Entitled(t)'
  BY <1>2 DEF Entitled, Placed, HasOrders, HasProducts, HasRun, Judged, SeenEarlier,
              NobodyJoined, Startable, OnOrder, OrderKinds, RunKinds
<1> QED
  BY <1>3, <1>4, <1>5

(* What a client may ask for.                                               *)
LEMMA ArrivalForms ==
  ASSUME TxTypes, NEW t \in Requests, NEW r \in Arrivals(t)
  PROVE  /\ WellFormed(r)
         /\ r.kind \in Kinds
         /\ r.kind = "Adjust" => r.target \in Produced \cup stocked
<1> USE DEF OnOrder, OrderKinds, RunKinds, SupplyKinds, DiscoveryKinds, ProductKinds, Kinds
<1>t. version \in [Orders -> Nat] /\ stocked \subseteq Products
  BY DataAssumption DEF TxTypes, DataTypes, TypeOK
<1> DEFINE As(kind, target, v, e) ==
             [kind |-> kind, target |-> target, version |-> v, edit |-> e]
<1>1. ASSUME NEW kind \in {"Confirm", "Cancel", "Complete"}, NEW o \in Orders,
             r = As(kind, o, version[o], <<>>)
      PROVE  WellFormed(r) /\ r.kind \in Kinds /\ r.kind # "Adjust"
  BY <1>t, <1>1 DEF WellFormed
<1>2. ASSUME NEW kind \in {"Edit", "EditDraft"}, NEW o \in Orders, NEW e \in EditPayloads,
             r = As(kind, o, version[o], e)
      PROVE  WellFormed(r) /\ r.kind \in Kinds /\ r.kind # "Adjust"
  BY <1>t, <1>2 DEF WellFormed
<1>3. ASSUME NEW kind \in RunKinds, NEW q \in Runs, r = As(kind, q, 0, <<>>)
      PROVE  WellFormed(r) /\ r.kind \in Kinds /\ r.kind # "Adjust"
  BY <1>3 DEF WellFormed
<1>4. ASSUME NEW k \in Keys, r = As("Start", k, epoch[k[1]], <<>>)
      PROVE  WellFormed(r) /\ r.kind \in Kinds /\ r.kind # "Adjust"
  BY <1>4 DEF WellFormed
<1>5. ASSUME NEW kind \in {"Adjust", "Stock", "Migrate"}, NEW p \in Products,
             r = As(kind, p, 0, <<>>), kind = "Adjust" => p \in Produced \cup stocked
      PROVE  /\ WellFormed(r) /\ r.kind \in Kinds
             /\ r.kind = "Adjust" => r.target \in Produced \cup stocked
  BY <1>5 DEF WellFormed
<1>6. \/ \E kind \in {"Confirm", "Cancel", "Complete"}, o \in Orders :
           r = As(kind, o, version[o], <<>>)
      \/ \E kind \in {"Edit", "EditDraft"}, o \in Orders, e \in EditPayloads :
           r = As(kind, o, version[o], e)
      \/ \E kind \in RunKinds, q \in Runs : r = As(kind, q, 0, <<>>)
      \/ \E k \in Keys : r = As("Start", k, epoch[k[1]], <<>>)
      \/ \E kind \in {"Adjust", "Stock", "Migrate"}, p \in Products :
           r = As(kind, p, 0, <<>>) /\ (kind = "Adjust" => p \in Produced \cup stocked)
  BY <1>t, DataAssumption DEF Arrivals, Produced
<1> QED
  BY <1>1, <1>2, <1>3, <1>4, <1>5, <1>6

(* What a request relies on depends only on the rows, its own fields and    *)
(* its locks.                                                               *)
LEMMA KeptViews ==
  ASSUME RowsKept, NEW t \in Requests, UNCHANGED <<req, seen>>
  PROVE  /\ View(t)' = View(t)
         /\ ClosureProducts(t)' = ClosureProducts(t)
         /\ FullOrderSet(t, ClosureProducts(t))' = FullOrderSet(t, ClosureProducts(t))
         /\ Activity' = Activity
         /\ UNCHANGED <<link, runState, version, stocked>>
<1>1. /\ UNCHANGED <<status, lines, date, covered, link, runState, runKey, stocked>>
      /\ UNCHANGED <<given, version, epoch>>
  BY DEF RowsKept, dataVars, vars, orderVars, runVars
<1>2. View(t)' = View(t)
  BY <1>1 DEF View, Row
<1>3. ClosureProducts(t)' = ClosureProducts(t)
  BY <1>1, <1>2 DEF ClosureProducts
<1>4. FullOrderSet(t, ClosureProducts(t))' = FullOrderSet(t, ClosureProducts(t))
  BY <1>1, <1>3 DEF FullOrderSet
<1> QED
  BY <1>1, <1>2, <1>3, <1>4 DEF Activity

LEMMA KeptStocked == ASSUME RowsKept PROVE UNCHANGED stocked
  BY DEF RowsKept, dataVars, vars

LEMMA KeptSeen ==
  ASSUME RowsKept, NEW t \in Requests, UNCHANGED <<req, seen>>, SeenEarlier(t),
         pc[t] # "discover" \/ pc'[t] = "discover"
  PROVE  SeenEarlier(t)'
<1>1. /\ UNCHANGED <<status, lines, date, covered, link, runState, runKey, stocked>>
      /\ UNCHANGED <<given, version, epoch>>
  BY DEF RowsKept, dataVars, vars, orderVars, runVars
<1> QED
  BY <1>1 DEF SeenEarlier, Row

(* A request that only moves on.                                            *)
LEMMA GotoEffect ==
  ASSUME TxTypes, NEW t \in Requests, NEW place \in PCs, Goto(t, place),
         UNCHANGED <<lockVars, req, seen, cand, tries>>
  PROVE  /\ LocalTypes' /\ LocalEffect(t)
         /\ pc'[t] = place
         /\ HeldOrders(t)' = HeldOrders(t)
         /\ HeldProducts(t)' = HeldProducts(t)
<1>1. /\ pc' = [pc EXCEPT ![t] = place]
      /\ UNCHANGED <<orderLock, orderShare, productLock, runLock, req, seen, cand, tries>>
  BY DEF Goto, lockVars
<1>2. LocalTypes'
  BY <1>1 DEF TxTypes, LocalTypes, WellFormed
<1>3. LocalEffect(t)
  BY <1>1 DEF TxTypes, LocalTypes, LocalEffect
<1> QED
  BY <1>1, <1>2, <1>3 DEF TxTypes, LocalTypes, HeldOrders, HeldProducts

LEMMA CheckStep ==
  ASSUME TxTypes, NEW t \in Requests, Entitled(t), Check(t)
  PROVE  RowsKept /\ LocalTypes' /\ LocalEffect(t) /\ Entitled(t)'
<1> DEFINE place == IF ClosureProducts(t) = {} THEN "write" ELSE "lockProducts"
<1>1. /\ pc[t] = "check" /\ Checked(t) /\ Goto(t, place)
      /\ UNCHANGED <<lockVars, req, seen, cand, tries>>
      /\ RowsKept
  BY DEF Check, RowsKept
<1>2. place \in {"write", "lockProducts"} /\ place \in PCs
  BY DEF PCs
<1>3. /\ LocalTypes' /\ LocalEffect(t) /\ pc'[t] = place
      /\ HeldOrders(t)' = HeldOrders(t) /\ HeldProducts(t)' = HeldProducts(t)
  BY <1>1, <1>2, GotoEffect
<1>4. /\ View(t)' = View(t)
      /\ ClosureProducts(t)' = ClosureProducts(t)
      /\ FullOrderSet(t, ClosureProducts(t))' = FullOrderSet(t, ClosureProducts(t))
      /\ UNCHANGED <<runState, stocked>>
  BY <1>1, KeptViews
<1>5. /\ Placed(t) /\ HasOrders(t) /\ HasRun(t) /\ SeenEarlier(t)
      /\ req[t].kind \in OnOrder
  BY <1>1 DEF Entitled, Placed
<1>6. Placed(t)'
  <2>1. req[t].kind = "EditDraft" => place = "write"
    BY DEF ClosureProducts, RunKinds
  <2>2. req[t].kind \in OrderKinds \cup {"EditDraft"}
    BY <1>5 DEF OnOrder
  <2> QED
    BY <1>1, <1>2, <1>3, <1>4, <1>5, <2>1, <2>2
    DEF Placed, OrderKinds, DiscoveryKinds
<1>7. HasOrders(t)'
  BY <1>1, <1>2, <1>3, <1>5 DEF HasOrders
<1>8. HasProducts(t)'
  BY <1>1, <1>3, <1>4 DEF HasProducts
<1>9. HasRun(t)'
  BY <1>1, <1>5 DEF HasRun, OnOrder, OrderKinds, RunKinds
<1>10. Judged(t)'
  <2>1. View(t).version = req[t].version
    BY <1>1 DEF Checked
  <2>2. /\ req[t].kind = "Confirm" => View(t).status = "DRAFT" /\ View(t).lines # {}
        /\ req[t].kind = "Edit" => View(t).status = "CONFIRMED"
        /\ req[t].kind = "EditDraft" => View(t).status = "DRAFT"
        /\ req[t].kind = "Cancel" => View(t).status \in Live
        /\ req[t].kind = "Complete" => View(t).status = "READY"
    BY <1>1 DEF Checked
  <2> QED
    BY <1>1, <1>4, <2>1, <2>2 DEF Judged
<1>11. SeenEarlier(t)'
  BY <1>1, <1>5, KeptSeen
<1>12. NobodyJoined(t)'
  <2>1. ASSUME ClosureProducts(t) = {}, req[t].kind \in DiscoveryKinds
        PROVE  FullOrderSet(t, ClosureProducts(t)) \subseteq cand[t]
    BY <1>1, <1>5, <2>1 DEF FullOrderSet, HasOrders, OnOrder
  <2> QED
    BY <1>1, <1>3, <1>4, <2>1 DEF NobodyJoined
<1>13. Startable(t)'
  BY <1>1, <1>5 DEF Startable, OnOrder, OrderKinds
<1> QED
  BY <1>1, <1>3, <1>6, <1>7, <1>8, <1>9, <1>10, <1>11, <1>12, <1>13 DEF Entitled

LEMMA VerifyStep ==
  ASSUME TxTypes, NEW t \in Requests, Entitled(t), Verify(t)
  PROVE  RowsKept /\ LocalTypes' /\ LocalEffect(t) /\ Entitled(t)'
<1> DEFINE place == IF req[t].kind = "Migrate" THEN "share" ELSE "write"
<1>1. /\ pc[t] = "verify" /\ ~SetGrew(t) /\ StillThere(t) /\ Goto(t, place)
      /\ UNCHANGED <<lockVars, req, seen, cand, tries>>
      /\ RowsKept
  BY DEF Verify, RowsKept
<1>2. place \in {"write", "share"} /\ place \in PCs
  BY DEF PCs
<1>3. /\ LocalTypes' /\ LocalEffect(t) /\ pc'[t] = place
      /\ HeldOrders(t)' = HeldOrders(t) /\ HeldProducts(t)' = HeldProducts(t)
  BY <1>1, <1>2, GotoEffect
<1>4. /\ View(t)' = View(t)
      /\ ClosureProducts(t)' = ClosureProducts(t)
      /\ FullOrderSet(t, ClosureProducts(t))' = FullOrderSet(t, ClosureProducts(t))
      /\ Activity' = Activity
      /\ UNCHANGED <<link, runState, stocked>>
  BY <1>1, KeptViews
<1>5. /\ Placed(t) /\ HasOrders(t) /\ HasProducts(t) /\ HasRun(t) /\ Judged(t)
      /\ SeenEarlier(t)
  BY DEF Entitled
<1>6. Placed(t)'
  BY <1>1, <1>2, <1>3, <1>4, <1>5 DEF Placed
<1>7. HasOrders(t)'
  BY <1>1, <1>2, <1>3, <1>5 DEF HasOrders
<1>8. HasProducts(t)'
  BY <1>1, <1>3, <1>4, <1>5 DEF HasProducts
<1>9. HasRun(t)'
  BY <1>1, <1>2, <1>3, <1>4, <1>5, KeptViews DEF HasRun, lockVars
<1>10. Judged(t)'
  BY <1>1, <1>4, <1>5 DEF Judged
<1>11. SeenEarlier(t)'
  BY <1>1, <1>5, KeptSeen
<1>12. NobodyJoined(t)'
  BY <1>1, <1>3, <1>4 DEF NobodyJoined, SetGrew
<1>13. Startable(t)'
  BY <1>1, <1>4 DEF Startable, StillThere
<1> QED
  BY <1>1, <1>3, <1>6, <1>7, <1>8, <1>9, <1>10, <1>11, <1>12, <1>13 DEF Entitled

LEMMA SharedStep ==
  ASSUME TxTypes, NEW t \in Requests, Entitled(t), Shared(t)
  PROVE  RowsKept /\ LocalTypes' /\ LocalEffect(t) /\ Entitled(t)'
<1>1. /\ pc[t] = "share" /\ Goto(t, "write")
      /\ UNCHANGED <<lockVars, req, seen, cand, tries>>
      /\ RowsKept
  BY DEF Shared, RowsKept
<1>2. "write" \in PCs
  BY DEF PCs
<1>3. /\ LocalTypes' /\ LocalEffect(t) /\ pc'[t] = "write"
      /\ HeldOrders(t)' = HeldOrders(t) /\ HeldProducts(t)' = HeldProducts(t)
  BY <1>1, <1>2, GotoEffect
<1>4. ClosureProducts(t)' = ClosureProducts(t)
  BY <1>1, KeptViews
<1>5. Placed(t) /\ HasOrders(t) /\ HasProducts(t) /\ req[t].kind = "Migrate"
  BY <1>1 DEF Entitled, Placed
<1>6. Placed(t)'
  BY <1>1, <1>3, <1>5 DEF Placed
<1>7. HasOrders(t)'
  BY <1>1, <1>3, <1>5 DEF HasOrders
<1>8. HasProducts(t)'
  BY <1>1, <1>3, <1>4, <1>5 DEF HasProducts
<1>9. HasRun(t)' /\ Judged(t)' /\ SeenEarlier(t)' /\ NobodyJoined(t)' /\ Startable(t)'
  BY <1>1, <1>5 DEF HasRun, Judged, SeenEarlier, NobodyJoined, Startable, OnOrder, OrderKinds,
                    RunKinds, DiscoveryKinds, SupplyKinds
<1> QED
  BY <1>1, <1>3, <1>6, <1>7, <1>8, <1>9 DEF Entitled

LEMMA LockRunStep ==
  ASSUME TxTypes, NEW t \in Requests, Entitled(t), LockRun(t)
  PROVE  RowsKept /\ LocalTypes' /\ LocalEffect(t) /\ Entitled(t)'
<1>1. /\ pc[t] = "lockRun" /\ pc' = [pc EXCEPT ![t] = "discover"]
      /\ runLock[req[t].target] = Nobody
      /\ runState[req[t].target] = "IN_PRODUCTION"
      /\ runLock' = [runLock EXCEPT ![req[t].target] = t]
      /\ UNCHANGED <<orderLock, orderShare, productLock, req, seen, cand, tries>>
      /\ RowsKept
  BY DEF LockRun, RowsKept, Goto
<1>2. LocalTypes'
  BY <1>1 DEF TxTypes, LocalTypes, PCs, WellFormed
<1>3. LocalEffect(t)
  BY <1>1, TxAssumption DEF TxTypes, LocalTypes, LocalEffect
<1>4. /\ pc'[t] = "discover" /\ req[t].kind \in RunKinds
      /\ req[t].target \in Runs /\ runLock'[req[t].target] = t
  BY <1>1 DEF Entitled, Placed, TxTypes, LocalTypes, WellFormed
<1>5. UNCHANGED <<runState, stocked>>
  BY <1>1, KeptViews
<1>6. Placed(t)' /\ HasRun(t)'
  BY <1>1, <1>4, <1>5 DEF Placed, HasRun, RunKinds, DiscoveryKinds
<1>7. /\ HasOrders(t)' /\ HasProducts(t)' /\ Judged(t)' /\ SeenEarlier(t)'
      /\ NobodyJoined(t)' /\ Startable(t)'
  BY <1>4 DEF HasOrders, HasProducts, Judged, SeenEarlier, NobodyJoined, Startable
<1> QED
  BY <1>1, <1>2, <1>3, <1>6, <1>7 DEF Entitled

LEMMA FullOrderSetType ==
  ASSUME TxTypes, NEW t \in Requests, NEW Ps
  PROVE  FullOrderSet(t, Ps) \subseteq Orders
<1>1. WellFormed(req[t])
  BY DEF TxTypes, LocalTypes
<1> QED
  BY <1>1 DEF FullOrderSet, Demand, WellFormed, OnOrder

LEMMA DiscoverStep ==
  ASSUME TxTypes, NEW t \in Requests, Entitled(t), Discover(t)
  PROVE  RowsKept /\ LocalTypes' /\ LocalEffect(t) /\ Entitled(t)'
<1> DEFINE s0 == FullOrderSet(t, PreflightProducts(t))
           place == IF s0 = {} THEN "lockProducts" ELSE "lockOrders"
           row == IF req[t].kind \in {"Confirm", "Edit"} THEN Row(req[t].target) ELSE NoView
<1>1. /\ pc[t] = "discover" /\ pc' = [pc EXCEPT ![t] = place]
      /\ seen' = [seen EXCEPT ![t] = row]
      /\ cand' = [cand EXCEPT ![t] = s0]
      /\ UNCHANGED <<orderLock, orderShare, productLock, runLock, req, tries>>
      /\ RowsKept
  BY DEF Discover, RowsKept, Goto, lockVars
<1>2. /\ Placed(t) /\ HasRun(t) /\ req[t].kind \in DiscoveryKinds
      /\ WellFormed(req[t])
  BY <1>1 DEF Entitled, Placed, TxTypes, LocalTypes
<1>3. s0 \subseteq Orders
  BY FullOrderSetType
<1>4. place \in {"lockProducts", "lockOrders"} /\ place \in PCs
  BY DEF PCs
<1>5. row.lines \subseteq Products /\ row.version \in Nat
  <2>1. CASE req[t].kind \in {"Confirm", "Edit"}
    <3>1. req[t].target \in Orders
      BY <1>2, <2>1 DEF WellFormed, OnOrder, OrderKinds
    <3> QED
      BY <2>1, <3>1 DEF Row, TxTypes, TypeOK, DataTypes
  <2>2. CASE req[t].kind \notin {"Confirm", "Edit"}
    BY <2>2 DEF NoView
  <2> QED
    BY <2>1, <2>2
<1>6. req[t].kind \in OrderKinds => req[t].target \in s0
  BY DEF FullOrderSet
<1>7. req[t].kind \in {"Confirm", "Edit"} => row = Row(req[t].target)
  OBVIOUS
<1> HIDE DEF s0, row, place
<1>8. LocalTypes'
  <2>1. /\ pc' \in [Requests -> PCs]
        /\ cand' \in [Requests -> SUBSET Orders]
        /\ seen' = [x \in Requests |-> seen'[x]]
        /\ \A x \in Requests : seen'[x].lines \subseteq Products /\ seen'[x].version \in Nat
    BY <1>1, <1>3, <1>4, <1>5 DEF TxTypes, LocalTypes
  <2> QED
    BY <1>1, <2>1 DEF TxTypes, LocalTypes, WellFormed
<1>9. LocalEffect(t)
  BY <1>1 DEF TxTypes, LocalTypes, LocalEffect
<1>10. pc'[t] = place /\ seen'[t] = row /\ cand'[t] = s0
  BY <1>1 DEF TxTypes, LocalTypes
<1>11. /\ UNCHANGED <<runState, stocked, version>>
       /\ \A o \in Orders : Row(o)' = Row(o)
  BY <1>1 DEF RowsKept, dataVars, vars, orderVars, runVars, Row
<1>12. Placed(t)'
  BY <1>1, <1>2, <1>4, <1>10, <1>11 DEF Placed
<1>13. HasOrders(t)'
  <2>1. pc'[t] # "lockOrders" => s0 = {}
    BY <1>10 DEF place
  <2>2. req[t].kind \in OnOrder => req[t].target \in s0
    BY <1>2, <1>6 DEF OnOrder, DiscoveryKinds, OrderKinds, RunKinds, SupplyKinds
  <2> QED
    BY <1>1, <1>4, <1>10, <2>1, <2>2 DEF HasOrders
<1>14. HasRun(t)'
  BY <1>1, <1>2, <1>11 DEF HasRun
<1>15. Judged(t)'
  <2>1. CASE s0 = {}
    BY <1>1, <1>2, <1>6, <2>1
    DEF Judged, OnOrder, DiscoveryKinds, OrderKinds, RunKinds, SupplyKinds
  <2>2. CASE s0 # {}
    BY <1>10, <2>2 DEF Judged, place
  <2> QED
    BY <2>1, <2>2
<1>16. SeenEarlier(t)'
  <2> SUFFICES ASSUME req[t].kind \in {"Confirm", "Edit"} PROVE SeenEarlier(t)'
    BY <1>1 DEF SeenEarlier
  <2>1. PICK o \in Orders : o = req[t].target
    BY <1>2 DEF WellFormed, OnOrder, OrderKinds
  <2>2. seen'[t] = Row(o) /\ Row(o)' = Row(o) /\ seen'[t].version = version[o]
    BY <1>7, <1>10, <1>11, <2>1 DEF Row
  <2>3. version[o] \in Nat
    BY DEF TxTypes, DataTypes
  <2> QED
    BY <1>1, <1>11, <2>1, <2>2, <2>3 DEF SeenEarlier
<1>17. HasProducts(t)' /\ NobodyJoined(t)' /\ Startable(t)'
  BY <1>4, <1>10 DEF HasProducts, NobodyJoined, Startable
<1> QED
  BY <1>1, <1>8, <1>9, <1>12, <1>13, <1>14, <1>15, <1>16, <1>17 DEF Entitled

LEMMA LockOrderStep ==
  ASSUME TxTypes, NEW t \in Requests, Entitled(t), LockOrder(t)
  PROVE  RowsKept /\ LocalTypes' /\ LocalEffect(t) /\ Entitled(t)'
<1>1. PICK o \in cand[t] \ HeldOrders(t) :
        /\ orderLock[o] = Nobody
        /\ orderLock' = [orderLock EXCEPT ![o] = t]
        /\ Goto(t, IF cand[t] \subseteq HeldOrders(t) \cup {o}
                   THEN IF req[t].kind \in OrderKinds \cup {"EditDraft"}
                        THEN "check" ELSE "lockProducts"
                   ELSE "lockOrders")
  BY DEF LockOrder
<1> DEFINE place == IF cand[t] \subseteq HeldOrders(t) \cup {o}
                    THEN IF req[t].kind \in OrderKinds \cup {"EditDraft"}
                         THEN "check" ELSE "lockProducts"
                    ELSE "lockOrders"
<1>2. /\ pc[t] = "lockOrders" /\ pc' = [pc EXCEPT ![t] = place]
      /\ UNCHANGED <<orderShare, productLock, runLock, req, seen, cand, tries>>
      /\ RowsKept
  BY <1>1 DEF LockOrder, RowsKept, Goto
<1>3. place \in {"check", "lockProducts", "lockOrders"} /\ place \in PCs
  BY DEF PCs
<1>4. o \in Orders /\ HeldOrders(t)' = HeldOrders(t) \cup {o}
  BY <1>1 DEF HeldOrders, TxTypes, LocalTypes
<1>5. place # "lockOrders" => cand[t] \subseteq HeldOrders(t)'
  BY <1>4
<1>6. place = "check" => req[t].kind \in OnOrder
  BY DEF OnOrder
<1>7. place = "lockProducts" => req[t].kind \notin OnOrder
  BY DEF OnOrder
<1>8. pc'[t] = place
  BY <1>2 DEF TxTypes, LocalTypes
<1> HIDE DEF place
<1>9. LocalTypes'
  BY <1>1, <1>2, <1>3, <1>4 DEF TxTypes, LocalTypes, WellFormed
<1>10. LocalEffect(t)
  BY <1>1, <1>2, TxAssumption DEF TxTypes, LocalTypes, LocalEffect
<1>11. /\ Placed(t) /\ HasOrders(t) /\ HasRun(t) /\ SeenEarlier(t)
       /\ req[t].kind \in DiscoveryKinds \cup {"EditDraft"}
  BY <1>2 DEF Entitled, Placed
<1>12. UNCHANGED <<runState, stocked>>
  BY <1>2, KeptViews
<1>13. Placed(t)'
  BY <1>2, <1>3, <1>6, <1>7, <1>8, <1>11, <1>12 DEF Placed, OnOrder, OrderKinds
<1>14. HasOrders(t)'
  BY <1>2, <1>3, <1>5, <1>8, <1>11 DEF HasOrders
<1>15. HasRun(t)'
  BY <1>2, <1>11, <1>12 DEF HasRun
<1>16. Judged(t)'
  BY <1>2, <1>3, <1>7, <1>8 DEF Judged
<1>17. SeenEarlier(t)'
  BY <1>2, <1>11, KeptSeen
<1>18. HasProducts(t)' /\ NobodyJoined(t)' /\ Startable(t)'
  BY <1>3, <1>8 DEF HasProducts, NobodyJoined, Startable
<1> QED
  BY <1>2, <1>9, <1>10, <1>13, <1>14, <1>15, <1>16, <1>17, <1>18 DEF Entitled

LEMMA LockProductStep ==
  ASSUME TxTypes, NEW t \in Requests, Entitled(t), LockProduct(t)
  PROVE  RowsKept /\ LocalTypes' /\ LocalEffect(t) /\ Entitled(t)'
<1>1. PICK p \in ClosureProducts(t) \ HeldProducts(t) :
        /\ productLock[p] = Nobody
        /\ productLock' = [productLock EXCEPT ![p] = t]
        /\ Goto(t, IF ClosureProducts(t) \subseteq HeldProducts(t) \cup {p}
                   THEN "verify" ELSE "lockProducts")
  BY DEF LockProduct
<1> DEFINE place == IF ClosureProducts(t) \subseteq HeldProducts(t) \cup {p}
                    THEN "verify" ELSE "lockProducts"
<1>2. /\ pc[t] = "lockProducts" /\ pc' = [pc EXCEPT ![t] = place]
      /\ UNCHANGED <<orderLock, orderShare, runLock, req, seen, cand, tries>>
      /\ RowsKept
  BY <1>1 DEF LockProduct, RowsKept, Goto
<1>3. place \in {"verify", "lockProducts"} /\ place \in PCs
  BY DEF PCs
<1>4. /\ View(t)' = View(t)
      /\ ClosureProducts(t)' = ClosureProducts(t)
      /\ UNCHANGED <<runState, stocked>>
  BY <1>2, KeptViews
<1>5. ASSUME place = "verify" PROVE ClosureProducts(t) \subseteq HeldProducts(t)'
  <2>1. ClosureProducts(t) \subseteq HeldProducts(t) \cup {p}
    BY <1>5
  <2>2. ClosureProducts(t) \subseteq Products
    BY <1>2, ClosureType
  <2>3. HeldProducts(t) \cup {p} \subseteq HeldProducts(t)'
    BY <1>1, <2>2 DEF HeldProducts, TxTypes, LocalTypes
  <2> QED
    BY <2>1, <2>3
<1>6. pc'[t] = place
  BY <1>2 DEF TxTypes, LocalTypes
<1>7. HeldOrders(t)' = HeldOrders(t)
  BY <1>2 DEF HeldOrders
<1> HIDE DEF place
<1>8. LocalTypes'
  BY <1>1, <1>2, <1>3 DEF TxTypes, LocalTypes, WellFormed
<1>9. LocalEffect(t)
  BY <1>1, <1>2, TxAssumption DEF TxTypes, LocalTypes, LocalEffect
<1>10. /\ Placed(t) /\ HasOrders(t) /\ HasRun(t) /\ Judged(t) /\ SeenEarlier(t)
  BY DEF Entitled
<1>11. Placed(t)'
  BY <1>2, <1>3, <1>4, <1>6, <1>10 DEF Placed
<1>12. HasOrders(t)'
  BY <1>2, <1>3, <1>6, <1>7, <1>10 DEF HasOrders
<1>13. HasProducts(t)'
  BY <1>3, <1>4, <1>5, <1>6 DEF HasProducts
<1>14. HasRun(t)'
  BY <1>2, <1>4, <1>10 DEF HasRun
<1>15. Judged(t)'
  BY <1>2, <1>4, <1>10 DEF Judged
<1>16. SeenEarlier(t)'
  BY <1>2, <1>10, KeptSeen
<1>17. NobodyJoined(t)' /\ Startable(t)'
  BY <1>3, <1>6 DEF NobodyJoined, Startable
<1> QED
  BY <1>2, <1>8, <1>9, <1>11, <1>12, <1>13, <1>14, <1>15, <1>16, <1>17 DEF Entitled

LEMMA ShareOrderStep ==
  ASSUME TxTypes, NEW t \in Requests, Entitled(t), ShareOrder(t)
  PROVE  RowsKept /\ LocalTypes' /\ LocalEffect(t) /\ Entitled(t)'
<1>1. PICK o \in Unshared(t) : orderShare' = [orderShare EXCEPT ![o] = @ \cup {t}]
  BY DEF ShareOrder
<1>2. /\ pc[t] = "share"
      /\ UNCHANGED <<orderLock, productLock, runLock, pc, req, seen, cand, tries>>
      /\ RowsKept
  BY DEF ShareOrder, RowsKept, localVars
<1>3. LocalTypes'
  <2>1. orderShare' \in [Orders -> SUBSET Requests]
    BY <1>1 DEF TxTypes, LocalTypes
  <2> QED
    BY <1>2, <2>1 DEF TxTypes, LocalTypes, WellFormed
<1>4. LocalEffect(t)
  BY <1>2 DEF LocalEffect
<1>5. ClosureProducts(t)' = ClosureProducts(t)
  BY <1>2, KeptViews
<1>6. Placed(t) /\ HasOrders(t) /\ HasProducts(t) /\ req[t].kind = "Migrate"
  BY <1>2 DEF Entitled, Placed
<1>7. Placed(t)'
  BY <1>2, <1>6 DEF Placed
<1>8. HasOrders(t)' /\ HasProducts(t)'
  BY <1>2, <1>5, <1>6 DEF HasOrders, HasProducts, HeldOrders, HeldProducts
<1>9. HasRun(t)' /\ Judged(t)' /\ SeenEarlier(t)' /\ NobodyJoined(t)' /\ Startable(t)'
  BY <1>2, <1>6 DEF HasRun, Judged, SeenEarlier, NobodyJoined, Startable, OnOrder, OrderKinds,
                    RunKinds, DiscoveryKinds, SupplyKinds
<1> QED
  BY <1>2, <1>3, <1>4, <1>7, <1>8, <1>9 DEF Entitled

LEMMA RetryStep ==
  ASSUME TxTypes, NEW t \in Requests, Entitled(t), Retry(t)
  PROVE  RowsKept /\ LocalTypes' /\ LocalEffect(t) /\ Entitled(t)'
<1>1. /\ pc[t] = "verify" /\ SetGrew(t) /\ tries[t] < MaxAttempts
      /\ tries' = [tries EXCEPT ![t] = @ + 1]
      /\ ReleaseAll(t)
      /\ seen' = [seen EXCEPT ![t] = NoView]
      /\ cand' = [cand EXCEPT ![t] = {}]
      /\ pc' = [pc EXCEPT ![t] = FirstStep(req[t].kind)]
      /\ req' = req /\ RowsKept
  BY DEF Retry, RowsKept, Goto
<1>2. /\ req[t].kind \in DiscoveryKinds
      /\ FirstStep(req[t].kind) \in {"lockRun", "discover"}
      /\ FirstStep(req[t].kind) = "lockRun" <=> req[t].kind \in RunKinds
      /\ FirstStep(req[t].kind) \in PCs
  BY <1>1 DEF SetGrew, FirstStep, DiscoveryKinds, RunKinds, ProductKinds, OrderKinds,
              SupplyKinds, PCs
<1>3. LocalTypes'
  <2>1. /\ orderLock' \in [Orders -> Requests \cup {Nobody}]
        /\ orderShare' \in [Orders -> SUBSET Requests]
        /\ productLock' \in [Products -> Requests \cup {Nobody}]
        /\ runLock' \in [Runs -> Requests \cup {Nobody}]
    BY <1>1, ReleaseEffect DEF TxTypes
  <2>2. pc' \in [Requests -> PCs] /\ cand' \in [Requests -> SUBSET Orders]
    BY <1>1, <1>2 DEF TxTypes, LocalTypes
  <2>3. tries' \in [Requests -> 0..MaxAttempts]
    <3>1. tries[t] + 1 \in 0..MaxAttempts
      BY <1>1, TxAssumption DEF TxTypes, LocalTypes
    <3> QED
      BY <1>1, <3>1 DEF TxTypes, LocalTypes
  <2>4. NoView.lines \subseteq Products /\ NoView.version \in Nat
    BY DEF NoView
  <2>5. /\ seen' = [x \in Requests |-> seen'[x]]
        /\ \A x \in Requests : seen'[x].lines \subseteq Products /\ seen'[x].version \in Nat
    BY <1>1, <2>4 DEF TxTypes, LocalTypes
  <2> QED
    BY <1>1, <2>1, <2>2, <2>3, <2>5 DEF LocalTypes, TxTypes, WellFormed
<1>4. LocalEffect(t)
  <2>1. \A x \in Requests \ {t} :
          pc'[x] = pc[x] /\ req'[x] = req[x] /\ seen'[x] = seen[x] /\ cand'[x] = cand[x]
    BY <1>1 DEF TxTypes, LocalTypes
  <2> QED
    BY <1>1, <2>1, ReleaseEffect DEF LocalEffect, TxTypes
<1>5. pc'[t] = FirstStep(req[t].kind)
  BY <1>1 DEF TxTypes, LocalTypes
<1>6. Placed(t) /\ UNCHANGED stocked
  BY <1>1, KeptStocked DEF Entitled
<1>7. Placed(t)'
  BY <1>1, <1>2, <1>5, <1>6 DEF Placed
<1>8. HasRun(t)'
  BY <1>1, <1>2, <1>5 DEF HasRun
<1>9. SeenEarlier(t)'
  BY <1>1, <1>2, <1>5 DEF SeenEarlier, RunKinds
<1>10. /\ HasOrders(t)' /\ HasProducts(t)' /\ Judged(t)' /\ NobodyJoined(t)'
       /\ Startable(t)'
  BY <1>2, <1>5 DEF HasOrders, HasProducts, Judged, NobodyJoined, Startable
<1> QED
  BY <1>1, <1>3, <1>4, <1>7, <1>8, <1>9, <1>10 DEF Entitled

LEMMA ArriveStep ==
  ASSUME TxTypes, NEW t \in Requests, Arrive(t)
  PROVE  RowsKept /\ LocalTypes' /\ LocalEffect(t) /\ Entitled(t)'
<1>1. PICK r \in Arrivals(t) :
        /\ req' = [req EXCEPT ![t] = r]
        /\ cand' = [cand EXCEPT ![t] = IF r.kind = "EditDraft" THEN {r.target} ELSE {}]
        /\ pc' = [pc EXCEPT ![t] = FirstStep(r.kind)]
  BY DEF Arrive, Goto
<1>2. /\ tries' = [tries EXCEPT ![t] = 1]
      /\ UNCHANGED <<orderLock, orderShare, productLock, runLock, seen>>
      /\ RowsKept
  BY DEF Arrive, RowsKept, lockVars
<1>3. /\ WellFormed(r) /\ r.kind \in Kinds
      /\ r.kind = "Adjust" => r.target \in Produced \cup stocked
  BY ArrivalForms
<1>4. /\ r.kind \in RunKinds => FirstStep(r.kind) = "lockRun"
      /\ r.kind \in ProductKinds => FirstStep(r.kind) = "lockProducts"
      /\ r.kind = "EditDraft" => FirstStep(r.kind) = "lockOrders"
      /\ r.kind \in OrderKinds \cup SupplyKinds => FirstStep(r.kind) = "discover"
  BY DEF FirstStep, RunKinds, ProductKinds, OrderKinds, SupplyKinds
<1>5. r.kind \in RunKinds \cup ProductKinds \cup {"EditDraft"} \cup OrderKinds \cup SupplyKinds
  BY <1>3 DEF Kinds, DiscoveryKinds
<1>6. FirstStep(r.kind) \in PCs
  BY <1>4, <1>5 DEF PCs
<1>7. /\ req'[t] = r /\ pc'[t] = FirstStep(r.kind)
      /\ cand'[t] = IF r.kind = "EditDraft" THEN {r.target} ELSE {}
  BY <1>1 DEF TxTypes, LocalTypes
<1>8. LocalTypes'
  <2>1. cand' \in [Requests -> SUBSET Orders]
    <3>1. r.kind = "EditDraft" => r.target \in Orders
      BY <1>3 DEF WellFormed, OnOrder
    <3> QED
      BY <1>1, <3>1 DEF TxTypes, LocalTypes
  <2>2. pc' \in [Requests -> PCs]
    BY <1>1, <1>6 DEF TxTypes, LocalTypes
  <2>3. tries' \in [Requests -> 0..MaxAttempts]
    BY <1>2, TxAssumption DEF TxTypes, LocalTypes
  <2>4. /\ req' = [x \in Requests |-> req'[x]]
        /\ \A x \in Requests \ {t} : req'[x] = req[x]
    BY <1>1 DEF TxTypes, LocalTypes
  <2>5. \A x \in Requests : WellFormed(req'[x])
    BY <1>3, <1>7, <2>4 DEF TxTypes, LocalTypes
  <2> QED
    BY <1>2, <2>1, <2>2, <2>3, <2>4, <2>5 DEF TxTypes, LocalTypes, WellFormed
<1>9. LocalEffect(t)
  BY <1>1, <1>2 DEF TxTypes, LocalTypes, LocalEffect
<1>10. UNCHANGED stocked
  BY <1>2, KeptStocked
<1> USE DEF OnOrder, OrderKinds, RunKinds, SupplyKinds, DiscoveryKinds, ProductKinds, Kinds
<1>11. Placed(t)'
  <2>1. pc'[t] \in {"lockRun", "lockProducts", "lockOrders", "discover"}
    BY <1>4, <1>5, <1>7
  <2>2. /\ pc'[t] = "lockRun" => r.kind \in RunKinds
        /\ pc'[t] = "lockProducts" => r.kind \in ProductKinds
        /\ pc'[t] = "lockOrders" => r.kind = "EditDraft"
        /\ pc'[t] = "discover" => r.kind \in OrderKinds \cup SupplyKinds
    BY <1>4, <1>5, <1>7
  <2> QED
    BY <1>3, <1>5, <1>7, <1>10, <2>1, <2>2 DEF Placed, Produced
<1>12. HasOrders(t)'
  BY <1>4, <1>5, <1>7 DEF HasOrders
<1>13. HasRun(t)'
  BY <1>4, <1>7 DEF HasRun
<1>14. HasProducts(t)' /\ Judged(t)' /\ NobodyJoined(t)' /\ Startable(t)'
  BY <1>4, <1>5, <1>7 DEF HasProducts, Judged, NobodyJoined, Startable
<1>15. SeenEarlier(t)'
  BY <1>4, <1>7 DEF SeenEarlier
<1> QED
  BY <1>2, <1>8, <1>9, <1>11, <1>12, <1>13, <1>14, <1>15 DEF Entitled

----------------------------------------------------------------------------
(* The commits.                                                             *)

LEMMA BumpTypes ==
  ASSUME DataTypes, NEW Ts, NEW Ps, BumpVersions(Ts), BumpEpochs(Ps),
         given' \subseteq Orders \X Products
  PROVE  DataTypes'
<1>1. version \in [Orders -> Nat] /\ epoch \in [Products -> Nat]
  BY DEF DataTypes
<1>2. version' \in [Orders -> Nat]
  BY <1>1 DEF BumpVersions
<1>3. epoch' \in [Products -> Nat]
  BY <1>1 DEF BumpEpochs
<1> QED
  BY <1>2, <1>3 DEF DataTypes

(* What a workflow writes under its locks: the Orders Ts it changes itself   *)
(* are its own, so are those it evaluates (E), and so are the Products Ps   *)
(* it recalculates.                                                         *)
LEMMA SettleEffect ==
  ASSUME TxTypes, NEW t \in Requests,
         NEW st, NEW ln, NEW dt, NEW lk, NEW cv, NEW Ps, NEW fixed, NEW E, NEW Ts,
         Settle(st, ln, dt, lk, cv, Ps, fixed, E),
         BumpVersions(Ts),
         Ts \subseteq HeldOrders(t), E \subseteq HeldOrders(t), Ps \subseteq HeldProducts(t),
         \A x \in Orders \ Ts : st[x] = status[x] /\ ln[x] = lines[x] /\ dt[x] = date[x],
         \A x \in Ts : \A p \in Products \ Ps :
           st[x] \in Live /\ p \in ln[x] => status[x] \in Live /\ p \in lines[x],
         \A k \in Keys : k[1] \notin Ps => lk[k] = link[k],
         UNCHANGED stocked, Activity' \subseteq Activity,
         \A r \in Runs : runState[r] = "IN_PRODUCTION" =>
           runKey'[r] = runKey[r] /\ (runLock[r] # t => runState'[r] = "IN_PRODUCTION")
  PROVE  DataEffect(t)
<1>1. /\ link' = Rebuilt(lk, st, ln, dt, Activity', Ps)
      /\ lines' = ln
      /\ date' = dt
      /\ status' = Evaluated(st, ln, covered', E)
  BY DEF Settle, Activity
<1>2. \A x \in Orders : (status'[x] \in Live <=> st[x] \in Live) /\ (x \notin E => status'[x] = st[x])
  BY <1>1 DEF Evaluated, Live
<1>3. \A x \in Orders : x \notin HeldOrders(t) => x \notin Ts /\ x \notin E
  OBVIOUS
<1>4. \A x \in Orders : /\ version[x] \in Nat
                        /\ version'[x] = IF x \in Ts \/ status'[x] # status[x]
                                         THEN version[x] + 1 ELSE version[x]
  BY DEF BumpVersions, TxTypes, DataTypes
<1>5. ASSUME NEW x \in Orders
      PROVE  /\ version'[x] \in Nat /\ version[x] <= version'[x]
             /\ version'[x] = version[x] \/ orderLock[x] # t => Row(x)' = Row(x)
  <2>1. version'[x] \in Nat /\ version[x] <= version'[x]
    BY <1>4
  <2>2. version'[x] = version[x] \/ orderLock[x] # t => x \notin Ts /\ status'[x] = status[x]
    <3>1. CASE orderLock[x] # t
      <4>1. x \notin HeldOrders(t)
        BY <3>1 DEF HeldOrders
      <4> QED
        BY <1>2, <1>3, <4>1
    <3>2. CASE version'[x] = version[x]
      BY <1>4, <3>2
    <3> QED
      BY <3>1, <3>2
  <2>3. x \notin Ts /\ status'[x] = status[x] => Row(x)' = Row(x)
    BY <1>1, <1>4 DEF Row
  <2> QED
    BY <2>1, <2>2, <2>3
<1>6. ASSUME NEW p \in Products, productLock[p] # t
      PROVE  /\ Demand(status', lines', p) \subseteq Demand(status, lines, p)
             /\ \A k \in Keys : k[1] = p =>
                  link'[k] = link[k] /\ (k \in Activity' => k \in Activity)
  <2>1. p \notin Ps
    BY <1>6 DEF HeldProducts
  <2>2. Demand(status', lines', p) \subseteq Demand(status, lines, p)
    BY <1>1, <1>2, <2>1 DEF Demand
  <2>3. \A k \in Keys : k[1] = p => link'[k] = link[k]
    BY <1>1, <2>1 DEF Rebuilt
  <2> QED
    BY <2>2, <2>3
<1> QED
  BY <1>5, <1>6 DEF DataEffect

(* With everything locked and the view fresh, the view is the row.          *)
LEMMA AtWrite ==
  ASSUME TxTypes, NEW t \in Requests, Entitled(t), pc[t] = "write",
         req[t].kind \in OrderKinds, Fresh(t)
  PROVE  /\ req[t].target \in Orders \cap cand[t]
         /\ cand[t] \subseteq HeldOrders(t)
         /\ ClosureProducts(t) \subseteq HeldProducts(t)
         /\ View(t) = Row(req[t].target)
         /\ version[req[t].target] = req[t].version
         /\ \A p \in ClosureProducts(t) : Demand(status, lines, p) \subseteq cand[t]
<1>1. /\ WellFormed(req[t]) /\ HasOrders(t) /\ HasProducts(t) /\ Judged(t)
      /\ SeenEarlier(t) /\ NobodyJoined(t)
  BY DEF Entitled, TxTypes, LocalTypes
<1>2. req[t].kind \in OnOrder /\ req[t].kind \in DiscoveryKinds
  BY DEF OnOrder, DiscoveryKinds
<1>3. req[t].target \in Orders \cap cand[t] /\ cand[t] \subseteq HeldOrders(t)
  BY <1>1, <1>2 DEF WellFormed, HasOrders
<1>4. ClosureProducts(t) \subseteq HeldProducts(t)
  BY <1>1 DEF HasProducts
<1>5. View(t) = Row(req[t].target)
  BY <1>1 DEF View, SeenEarlier, Fresh
<1>6. version[req[t].target] = req[t].version
  BY <1>1, <1>2 DEF Judged, Fresh
<1>7. ASSUME NEW p \in ClosureProducts(t)
      PROVE  Demand(status, lines, p) \subseteq cand[t]
  <2>1. Demand(status, lines, p) \subseteq FullOrderSet(t, ClosureProducts(t))
    BY DEF FullOrderSet
  <2> QED
    BY <1>1, <1>2, <2>1 DEF NobodyJoined
<1> QED
  BY <1>3, <1>4, <1>5, <1>6, <1>7

LEMMA RunsUntouched ==
  ASSUME UNCHANGED runVars
  PROVE  /\ Activity' = Activity
         /\ UNCHANGED <<runState, runKey>>
  BY DEF runVars, Activity, Active

(* A workflow that moves its Order to the status s.                         *)
LEMMA StatusCommit ==
  ASSUME TxTypes, NEW t \in Requests, Entitled(t), pc[t] = "write",
         req[t].kind \in {"Confirm", "Cancel", "Complete"}, Fresh(t),
         NEW s \in Status, NEW o, o = req[t].target,
         NEW E, E = cand[t] \/ (E = cand[t] \ {o} /\ s \notin Live),
         UNCHANGED <<runVars, stocked>>,
         Settle([status EXCEPT ![o] = s], lines, date, link, covered, ClosureProducts(t),
                ReadyPairs([status EXCEPT ![o] = s]), E),
         BumpVersions({o})
  PROVE  /\ o \in Orders
         /\ ClosureProducts(t) = lines[o]
         /\ View(t) = Row(o)
         /\ E \in Evaluations([status EXCEPT ![o] = s], lines, lines[o])
         /\ DataEffect(t)
<1> DEFINE st == [status EXCEPT ![o] = s]
<1>1. /\ o \in Orders \cap cand[t]
      /\ cand[t] \subseteq HeldOrders(t)
      /\ ClosureProducts(t) \subseteq HeldProducts(t)
      /\ View(t) = Row(o)
      /\ \A p \in ClosureProducts(t) : Demand(status, lines, p) \subseteq cand[t]
  BY AtWrite DEF OrderKinds
<1>2. ClosureProducts(t) = lines[o]
  <2>1. ClosureProducts(t) = View(t).lines
    BY ClosureOf
  <2> QED
    BY <1>1, <2>1 DEF Row
<1>3. /\ \A x \in Orders \ {o} : st[x] = status[x]
      /\ st[o] = s
  BY <1>1 DEF TxTypes, TypeOK
<1>4. E \in Evaluations(st, lines, lines[o])
  <2>1. cand[t] \subseteq Orders
    BY DEF TxTypes, LocalTypes
  <2>2. ASSUME NEW p \in lines[o], NEW x \in Demand(st, lines, p) PROVE x \in E
    <3>1. CASE x = o
      BY <1>1, <1>3, <2>2, <3>1 DEF Demand
    <3>2. CASE x # o
      <4>1. x \in Demand(status, lines, p)
        BY <1>3, <2>2, <3>2 DEF Demand
      <4> QED
        BY <1>1, <1>2, <3>2, <4>1
    <3> QED
      BY <3>1, <3>2
  <2> QED
    BY <2>1, <2>2 DEF Evaluations
<1>5. DataEffect(t)
  <2>1. {o} \subseteq HeldOrders(t) /\ E \subseteq HeldOrders(t)
    BY <1>1
  <2>2. \A x \in Orders \ {o} : st[x] = status[x] /\ lines[x] = lines[x] /\ date[x] = date[x]
    BY <1>3
  <2>3. \A x \in {o} : \A p \in Products \ ClosureProducts(t) :
          st[x] \in Live /\ p \in lines[x] => status[x] \in Live /\ p \in lines[x]
    BY <1>2
  <2>4. /\ UNCHANGED stocked /\ Activity' \subseteq Activity
        /\ \A r \in Runs : runState[r] = "IN_PRODUCTION" =>
             runKey'[r] = runKey[r] /\ (runLock[r] # t => runState'[r] = "IN_PRODUCTION")
    BY RunsUntouched
  <2>5. Settle(st, lines, date, link, covered, ClosureProducts(t), ReadyPairs(st), E)
    OBVIOUS
  <2> HIDE DEF st
  <2> QED
    BY <1>1, <2>1, <2>2, <2>3, <2>4, <2>5, SettleEffect
<1> QED
  BY <1>1, <1>2, <1>4, <1>5

(* Every step of the atomic specification but a migration.                  *)
Ordinary ==
  \/ \E o \in Orders :
       \/ Confirm(o) \/ Cancel(o) \/ CompleteOrder(o)
       \/ \E e \in EditPayloads : EditDraft(o, e) \/ Edit(o, e)
  \/ \E r \in Runs :
       \/ \E k \in Keys : Start(r, k)
       \/ \E outcome \in {"COMPLETED", "CANCELED"} : EndRun(r, outcome)
  \/ \E p \in Products : AdjustSupply(p) \/ OpenStock(p)

LEMMA OrdinaryIsNext == Ordinary => Next
  BY DEF Ordinary, Next

LEMMA CommitConfirmStep ==
  ASSUME TxTypes, NEW t \in Requests, Entitled(t), CommitConfirm(t)
  PROVE  Ordinary /\ DataEffect(t) /\ DataTypes'
<1> DEFINE o == req[t].target
           st == [status EXCEPT ![o] = "CONFIRMED"]
<1>1. /\ pc[t] = "write" /\ req[t].kind = "Confirm" /\ Fresh(t)
      /\ UNCHANGED <<runVars, stocked, given>>
      /\ Settle(st, lines, date, link, covered, ClosureProducts(t), ReadyPairs(st), cand[t])
      /\ BumpVersions({o})
      /\ BumpEpochs(ClosureProducts(t))
  BY DEF CommitConfirm, Writing
<1>2. /\ o \in Orders
      /\ ClosureProducts(t) = lines[o]
      /\ View(t) = Row(o)
      /\ cand[t] \in Evaluations(st, lines, lines[o])
      /\ DataEffect(t)
  BY <1>1, StatusCommit DEF Status
<1>3. status[o] = "DRAFT" /\ lines[o] # {}
  <2>1. View(t).status = "DRAFT" /\ View(t).lines # {}
    BY <1>1 DEF Entitled, Judged, OnOrder, OrderKinds
  <2> QED
    BY <1>2, <2>1 DEF Row
<1>4. Confirm(o)
  BY <1>1, <1>2, <1>3 DEF Confirm
<1>5. DataTypes'
  BY <1>1, BumpTypes DEF TxTypes, DataTypes
<1> QED
  BY <1>2, <1>4, <1>5 DEF Ordinary

LEMMA CommitCancelStep ==
  ASSUME TxTypes, NEW t \in Requests, Entitled(t), CommitCancel(t)
  PROVE  Ordinary /\ DataEffect(t) /\ DataTypes'
<1> DEFINE o == req[t].target
           st == [status EXCEPT ![o] = "CANCELED"]
<1>1. /\ pc[t] = "write" /\ req[t].kind = "Cancel" /\ Fresh(t)
      /\ UNCHANGED <<runVars, stocked, given>>
      /\ Settle(st, lines, date, link, covered, ClosureProducts(t), ReadyPairs(st),
                cand[t] \ {o})
      /\ BumpVersions({o})
      /\ BumpEpochs(ClosureProducts(t))
  BY DEF CommitCancel, Writing, Fresh, View, Row
<1>2. /\ o \in Orders
      /\ ClosureProducts(t) = lines[o]
      /\ View(t) = Row(o)
      /\ cand[t] \ {o} \in Evaluations(st, lines, lines[o])
      /\ DataEffect(t)
  BY <1>1, StatusCommit DEF Status, Live
<1>3. status[o] \in Live
  <2>1. View(t).status \in Live
    BY <1>1 DEF Entitled, Judged, OnOrder, OrderKinds
  <2> QED
    BY <1>2, <2>1 DEF Row
<1>4. Cancel(o)
  BY <1>1, <1>2, <1>3 DEF Cancel
<1>5. DataTypes'
  BY <1>1, BumpTypes DEF TxTypes, DataTypes
<1> QED
  BY <1>2, <1>4, <1>5 DEF Ordinary

LEMMA CommitCompleteStep ==
  ASSUME TxTypes, NEW t \in Requests, Entitled(t), CommitComplete(t)
  PROVE  Ordinary /\ DataEffect(t) /\ DataTypes'
<1> DEFINE o == req[t].target
           st == [status EXCEPT ![o] = "COMPLETED"]
<1>1. /\ pc[t] = "write" /\ req[t].kind = "Complete" /\ Fresh(t)
      /\ UNCHANGED <<runVars, stocked, given>>
      /\ Settle(st, lines, date, link, covered, ClosureProducts(t), ReadyPairs(st),
                cand[t] \ {o})
      /\ BumpVersions({o})
      /\ BumpEpochs(ClosureProducts(t))
      /\ ProtectedProducts(o) \cap lines[o] = {}
      /\ Satisfied(lines, covered, o)
  BY DEF CommitComplete, Writing, Fresh, View, Row
<1>2. /\ o \in Orders
      /\ ClosureProducts(t) = lines[o]
      /\ View(t) = Row(o)
      /\ cand[t] \ {o} \in Evaluations(st, lines, lines[o])
      /\ DataEffect(t)
  BY <1>1, StatusCommit DEF Status, Live
<1>3. status[o] = "READY"
  <2>1. View(t).status = "READY"
    BY <1>1 DEF Entitled, Judged, OnOrder, OrderKinds
  <2> QED
    BY <1>2, <2>1 DEF Row
<1>4. \A p \in lines[o] : <<o, p>> \notin ProtectedPairs(link, Activity)
  <2>1. lines[o] \subseteq Products
    BY <1>2 DEF TxTypes, TypeOK
  <2> QED
    BY <1>1, <2>1 DEF ProtectedProducts
<1>5. CompleteOrder(o)
  BY <1>1, <1>2, <1>3, <1>4 DEF CompleteOrder
<1>6. DataTypes'
  BY <1>1, BumpTypes DEF TxTypes, DataTypes
<1> QED
  BY <1>2, <1>5, <1>6 DEF Ordinary

LEMMA CommitEditStep ==
  ASSUME TxTypes, LinkInv, NEW t \in Requests, Entitled(t), CommitEdit(t)
  PROVE  Ordinary /\ DataEffect(t) /\ DataTypes'
<1> DEFINE o == req[t].target
           e == req[t].edit
           Ps == ClosureProducts(t)
           ln == [lines EXCEPT ![o] = e.lines]
           dt == [date EXCEPT ![o] = e.date]
           lk == Cascaded(link, o, e.lines)
           cv == covered \ ({o} \X e.resized)
<1>1. /\ pc[t] = "write" /\ req[t].kind = "Edit" /\ Fresh(t) /\ Ps # {}
      /\ UNCHANGED <<runVars, stocked, given>>
      /\ Settle(status, ln, dt, lk, cv, Ps, ReadyPairs(status), cand[t])
      /\ BumpVersions({o})
      /\ BumpEpochs(Ps)
  BY DEF CommitEdit, Writing
<1>2. /\ o \in Orders \cap cand[t]
      /\ cand[t] \subseteq HeldOrders(t)
      /\ Ps \subseteq HeldProducts(t)
      /\ View(t) = Row(o)
      /\ \A p \in Ps : Demand(status, lines, p) \subseteq cand[t]
  BY <1>1, AtWrite DEF OrderKinds
<1>3. e \in EditPayloads /\ cand[t] \subseteq Orders
  BY <1>1 DEF TxTypes, LocalTypes, WellFormed
<1>4. View(t).lines = lines[o] /\ View(t).date = date[o] /\ View(t).status = status[o]
  BY <1>2 DEF Row
<1>5. DemandAffecting(lines[o], date[o], e) /\ Ps = lines[o] \cup e.lines
  BY <1>1, <1>4, ClosureOf
<1>6. status[o] = "CONFIRMED"
  BY <1>1, <1>4 DEF Entitled, Judged, OnOrder, OrderKinds
<1>7. /\ \A x \in Orders \ {o} : ln[x] = lines[x] /\ dt[x] = date[x]
      /\ ln[o] = e.lines
  BY <1>2 DEF TxTypes, TypeOK
<1>8. cand[t] \in Evaluations(status, ln, Ps)
  <2>1. ASSUME NEW p \in Ps, NEW x \in Demand(status, ln, p) PROVE x \in cand[t]
    <3>1. CASE x = o
      BY <1>2, <3>1
    <3>2. CASE x # o
      <4>1. x \in Demand(status, lines, p)
        BY <1>7, <2>1, <3>2 DEF Demand
      <4> QED
        BY <1>2, <4>1
    <3> QED
      BY <3>1, <3>2
  <2> QED
    BY <1>3, <2>1 DEF Evaluations
<1>9. Edit(o, e)
  BY <1>1, <1>5, <1>6, <1>8 DEF Edit
<1>10. DataEffect(t)
  <2>1. {o} \subseteq HeldOrders(t) /\ cand[t] \subseteq HeldOrders(t) /\ Ps \subseteq HeldProducts(t)
    BY <1>2
  <2>2. \A x \in Orders \ {o} : status[x] = status[x] /\ ln[x] = lines[x] /\ dt[x] = date[x]
    BY <1>7
  <2>3. \A x \in {o} : \A p \in Products \ Ps :
          status[x] \in Live /\ p \in ln[x] => status[x] \in Live /\ p \in lines[x]
    BY <1>5, <1>7
  <2>4. \A k \in Keys : k[1] \notin Ps => lk[k] = link[k]
    <3> SUFFICES ASSUME NEW k \in Keys, k[1] \notin Ps PROVE lk[k] = link[k]
      OBVIOUS
    <3>1. o \notin link[k]
      BY <1>5 DEF LinkInv, LinkedAreLines
    <3> QED
      BY <3>1 DEF Cascaded
  <2>5. /\ UNCHANGED stocked /\ Activity' \subseteq Activity
        /\ \A r \in Runs : runState[r] = "IN_PRODUCTION" =>
             runKey'[r] = runKey[r] /\ (runLock[r] # t => runState'[r] = "IN_PRODUCTION")
    BY <1>1, RunsUntouched
  <2>6. /\ Settle(status, ln, dt, lk, cv, Ps, ReadyPairs(status), cand[t])
        /\ BumpVersions({o})
    BY <1>1
  <2> HIDE DEF o, ln, dt, lk, cv, Ps
  <2> QED
    BY <2>1, <2>2, <2>3, <2>4, <2>5, <2>6, SettleEffect
<1>11. DataTypes'
  <2>1. given' \subseteq Orders \X Products
    BY <1>1 DEF TxTypes, DataTypes
  <2> HIDE DEF o, Ps
  <2> QED
    BY <1>1, <2>1, BumpTypes DEF TxTypes
<1> QED
  BY <1>2, <1>3, <1>9, <1>10, <1>11 DEF Ordinary

(* Nothing the atomic specification sees is changed.                        *)
LEMMA CommitPlainEditStep ==
  ASSUME TxTypes, NEW t \in Requests, Entitled(t), CommitPlainEdit(t)
  PROVE  UNCHANGED vars /\ DataEffect(t) /\ DataTypes'
<1>1. /\ pc[t] = "write" /\ req[t].kind = "Edit" /\ Fresh(t)
      /\ UNCHANGED <<dataVars, epoch>>
      /\ BumpVersions({req[t].target})
  BY DEF CommitPlainEdit, Writing
<1>2. PICK o \in Orders : o = req[t].target /\ orderLock[o] = t
  BY <1>1, AtWrite DEF OrderKinds, HeldOrders
<1>3. UNCHANGED vars /\ UNCHANGED <<status, lines, date, link, runState, runKey, stocked, given>>
  BY <1>1 DEF dataVars, vars, orderVars, runVars
<1>4. /\ version \in [Orders -> Nat]
      /\ version' = [x \in Orders |-> IF x = o THEN version[x] + 1 ELSE version[x]]
  BY <1>1, <1>2, <1>3 DEF BumpVersions, TxTypes, DataTypes
<1>5. DataTypes'
  BY <1>1, <1>3, <1>4 DEF TxTypes, DataTypes
<1>6. ASSUME NEW x \in Orders
      PROVE  /\ version'[x] \in Nat /\ version[x] <= version'[x]
             /\ version'[x] = version[x] \/ orderLock[x] # t => Row(x)' = Row(x)
  BY <1>2, <1>3, <1>4 DEF Row
<1>7. Activity' = Activity /\ \A p : Demand(status', lines', p) = Demand(status, lines, p)
  BY <1>3 DEF Activity, Active
<1> QED
  BY <1>3, <1>5, <1>6, <1>7 DEF DataEffect

LEMMA CommitEditDraftStep ==
  ASSUME TxTypes, NEW t \in Requests, Entitled(t), CommitEditDraft(t)
  PROVE  Ordinary /\ DataEffect(t) /\ DataTypes' /\ version[req[t].target] = req[t].version
<1> DEFINE e == req[t].edit
<1>1. /\ pc[t] = "write" /\ req[t].kind = "EditDraft"
      /\ lines' = [lines EXCEPT ![req[t].target] = e.lines]
      /\ date' = [date EXCEPT ![req[t].target] = e.date]
      /\ UNCHANGED <<status, covered, link, runVars, stocked, given, epoch>>
      /\ BumpVersions({req[t].target})
  BY DEF CommitEditDraft, Writing
<1>2. e \in EditPayloads
  BY <1>1 DEF TxTypes, LocalTypes, WellFormed
<1>3. PICK o \in Orders : o = req[t].target /\ orderLock[o] = t
  BY <1>1 DEF TxTypes, LocalTypes, WellFormed, Entitled, HasOrders, HeldOrders, OnOrder
<1>4. View(t) = Row(o)
  BY <1>1, <1>3 DEF View
<1>5. status[o] = "DRAFT" /\ version[o] = req[t].version
  <2>1. View(t).status = "DRAFT" /\ View(t).version = req[t].version
    BY <1>1 DEF Entitled, Judged, OnOrder
  <2> QED
    BY <1>4, <2>1 DEF Row
<1>6. EditDraft(o, e)
  BY <1>1, <1>3, <1>5 DEF EditDraft
<1>7. /\ version \in [Orders -> Nat]
      /\ version' = [x \in Orders |-> IF x = o THEN version[x] + 1 ELSE version[x]]
  BY <1>1, <1>3 DEF BumpVersions, TxTypes, DataTypes
<1>8. DataTypes'
  BY <1>1, <1>7 DEF TxTypes, DataTypes
<1>9. \A x \in Orders \ {o} : lines'[x] = lines[x] /\ date'[x] = date[x]
  BY <1>1, <1>3 DEF TxTypes, TypeOK
<1>10. ASSUME NEW x \in Orders
       PROVE  /\ version'[x] \in Nat /\ version[x] <= version'[x]
              /\ version'[x] = version[x] \/ orderLock[x] # t => Row(x)' = Row(x)
  <2>1. CASE x = o
    BY <1>3, <1>7, <2>1
  <2>2. CASE x # o
    BY <1>1, <1>7, <1>9, <2>2 DEF Row
  <2> QED
    BY <2>1, <2>2
<1>11. Activity' = Activity /\ UNCHANGED <<runState, runKey>>
  BY <1>1, RunsUntouched
<1>12. \A p : Demand(status', lines', p) = Demand(status, lines, p)
  BY <1>1, <1>5, <1>9 DEF Demand, Live
<1>13. DataEffect(t)
  BY <1>1, <1>10, <1>11, <1>12 DEF DataEffect
<1> QED
  BY <1>2, <1>3, <1>5, <1>6, <1>8, <1>13 DEF Ordinary

(* A workflow that changes no Order row.                                    *)
LEMMA RowsSame ==
  ASSUME DataTypes, UNCHANGED <<orderVars, version>>
  PROVE  /\ \A o \in Orders :
              version'[o] \in Nat /\ version[o] <= version'[o] /\ Row(o)' = Row(o)
         /\ \A p : Demand(status', lines', p) = Demand(status, lines, p)
  BY DEF DataTypes, orderVars, Row

LEMMA CommitStartStep ==
  ASSUME TxTypes, NEW t \in Requests, Entitled(t), CommitStart(t)
  PROVE  Ordinary /\ DataEffect(t) /\ DataTypes'
<1> DEFINE k == req[t].target
<1>1. /\ pc[t] = "write" /\ req[t].kind = "Start"
      /\ UNCHANGED <<orderVars, covered, link, stocked, given, version, epoch>>
  BY DEF CommitStart, Writing
<1>2. PICK r \in Runs :
        /\ runState[r] = "FREE"
        /\ runState' = [runState EXCEPT ![r] = "IN_PRODUCTION"]
        /\ runKey' = [runKey EXCEPT ![r] = k]
  BY DEF CommitStart
<1>3. /\ k \in Keys /\ link[k] # {} /\ k \notin Activity
      /\ ClosureProducts(t) \subseteq HeldProducts(t)
  BY <1>1 DEF Entitled, Startable, HasProducts, TxTypes, LocalTypes, WellFormed
<1>4. Start(r, k)
  BY <1>1, <1>2, <1>3 DEF Start
<1>5. productLock[k[1]] = t
  BY <1>1, <1>3, ClosureOf DEF HeldProducts
<1>6. /\ \A o \in Orders :
           version'[o] \in Nat /\ version[o] <= version'[o] /\ Row(o)' = Row(o)
      /\ \A p : Demand(status', lines', p) = Demand(status, lines, p)
  BY <1>1, RowsSame DEF TxTypes
<1> HIDE DEF k
<1>7. /\ runState \in [Runs -> RunStatus]
      /\ runKey \in [Runs -> Keys \cup {NoKey}]
  BY DEF TxTypes, TypeOK
<1>8. Activity' \subseteq Activity \cup {k}
  BY <1>2, <1>7 DEF Activity, Active
<1>9. \A q \in Runs : runState[q] = "IN_PRODUCTION" =>
        runKey'[q] = runKey[q] /\ runState'[q] = "IN_PRODUCTION"
  BY <1>2, <1>7
<1>10. DataEffect(t)
  BY <1>1, <1>5, <1>6, <1>8, <1>9 DEF DataEffect
<1>11. DataTypes'
  BY <1>1 DEF TxTypes, DataTypes
<1> QED
  BY <1>3, <1>4, <1>10, <1>11 DEF Ordinary

(* Coverage of lines that are no demand makes no difference to a            *)
(* recalculation.                                                           *)
LEMMA CoveringsTrim ==
  ASSUME NEW X, NEW Y, NEW fixed, NEW demand, NEW Ps, NEW st,
         X \cap demand = Y \cap demand
  PROVE  Coverings(X, fixed, demand, Ps, st)
           = Coverings(Y, fixed, demand, Ps, st)
<1> DEFINE K(S) == {x \in S \cap demand :
                      x[2] \notin Ps \/ (x \in fixed /\ x[2] \in Produced)}
           A == K(X)
           B == K(Y)
           F(kept) == {kept \cup c \cup {x \in demand : x[2] \in D} :
                         c \in SUBSET {x \in demand : x[2] \in Ps \cap Produced /\ x \notin fixed},
                         D \in SUBSET (Ps \cap st)}
<1>1. A = B
  OBVIOUS
<1>2. Coverings(X, fixed, demand, Ps, st) = F(A)
  BY DEF Coverings
<1>3. Coverings(Y, fixed, demand, Ps, st) = F(B)
  BY DEF Coverings
<1> HIDE DEF A, B, F
<1> QED
  BY <1>1, <1>2, <1>3

LEMMA CommitRunEndStep ==
  ASSUME TxTypes, NEW t \in Requests, Entitled(t), CommitRunEnd(t)
  PROVE  Ordinary /\ DataEffect(t) /\ DataTypes'
<1> DEFINE r == req[t].target
           p == runKey[r][1]
           outcome == IF req[t].kind = "Finish" THEN "COMPLETED" ELSE "CANCELED"
           open == {x \in cand[t] \X {p} : p \in lines[x[1]] /\ x \notin covered}
<1>1. /\ pc[t] = "write" /\ req[t].kind \in RunKinds
      /\ runState' = [runState EXCEPT ![r] = outcome]
      /\ UNCHANGED <<runKey, stocked>>
      /\ BumpVersions({})
      /\ BumpEpochs({p})
  BY DEF CommitRunEnd
<1>2. PICK gained \in SUBSET open :
        /\ outcome = "CANCELED" => gained = {}
        /\ given' = given \cup gained
        /\ Settle(status, lines, date, link, covered \cup gained, {p}, ReadyPairs(status), cand[t])
  BY DEF CommitRunEnd
<1>3. /\ r \in Runs /\ runLock[r] = t /\ runState[r] = "IN_PRODUCTION"
      /\ cand[t] \subseteq HeldOrders(t) /\ cand[t] \subseteq Orders
      /\ ClosureProducts(t) \subseteq HeldProducts(t)
      /\ FullOrderSet(t, ClosureProducts(t)) \subseteq cand[t]
  BY <1>1 DEF Entitled, HasRun, HasOrders, HasProducts, NobodyJoined, TxTypes, LocalTypes,
              WellFormed, DiscoveryKinds
<1>4. runKey[r] \in Keys /\ p \in Products
  <2>1. runKey[r] \in Keys
    BY <1>3 DEF TxTypes, TypeOK
  <2> QED
    BY <2>1, KeyIsPair
<1>5. ClosureProducts(t) = {p}
  BY <1>1, ClosureOf
<1>6. Demand(status, lines, p) \subseteq cand[t]
  BY <1>3, <1>5 DEF FullOrderSet
<1>7. cand[t] \in Evaluations(status, lines, {p})
  BY <1>3, <1>6 DEF Evaluations
<1>8. outcome \in {"COMPLETED", "CANCELED"}
  OBVIOUS
<1> DEFINE g == gained \cap DemandPairs(status, lines)
<1>9. g \in SUBSET (Demand(status, lines, p) \X {p}) /\ (outcome = "CANCELED" => g = {})
  BY <1>2 DEF DemandPairs, Demand
<1>10. Settle(status, lines, date, link, covered \cup g, {p}, ReadyPairs(status), cand[t])
  <2> DEFINE all == ProtectedPairs(link, Active(runState', runKey')) \cup ReadyPairs(status)
             demand == DemandPairs(status, lines)
  <2>1. Coverings(covered \cup gained, all, demand, {p}, stocked)
          = Coverings(covered \cup g, all, demand, {p}, stocked)
    <3>1. (covered \cup gained) \cap demand = (covered \cup g) \cap demand
      OBVIOUS
    <3> HIDE DEF g, all, demand, p
    <3> QED
      BY <3>1, CoveringsTrim
  <2>2. covered' \in Coverings(covered \cup gained, all, demand, {p}, stocked)
    BY <1>2 DEF Settle
  <2>3. covered' \in Coverings(covered \cup g, all, demand, {p}, stocked)
    BY <2>1, <2>2
  <2> HIDE DEF p, g
  <2> QED
    BY <1>2, <2>3 DEF Settle
<1>11. given' \subseteq Orders \X Products
  <2>1. gained \subseteq Orders \X Products
    BY <1>3, <1>4
  <2> QED
    BY <1>2, <2>1 DEF TxTypes, DataTypes
<1> HIDE DEF g, open, outcome
<1>12. EndRun(r, outcome)
  BY <1>1, <1>3, <1>7, <1>9, <1>10 DEF EndRun
<1>13. /\ Activity' \subseteq Activity
       /\ \A q \in Runs : runState[q] = "IN_PRODUCTION" =>
            runKey'[q] = runKey[q] /\ (runLock[q] # t => runState'[q] = "IN_PRODUCTION")
  <2>1. runState \in [Runs -> RunStatus]
    BY DEF TxTypes, TypeOK
  <2>2. runState'[r] # "IN_PRODUCTION" /\ \A q \in Runs \ {r} : runState'[q] = runState[q]
    BY <1>1, <1>3, <1>8, <2>1
  <2>3. Activity' \subseteq Activity
    BY <1>1, <1>3, <2>2 DEF Activity, Active
  <2> QED
    BY <1>1, <1>3, <2>2, <2>3
<1>14. DataEffect(t)
  <2>1. {} \subseteq HeldOrders(t) /\ {p} \subseteq HeldProducts(t)
    BY <1>3, <1>5
  <2>2. /\ cand[t] \subseteq HeldOrders(t) /\ UNCHANGED stocked /\ BumpVersions({})
        /\ Settle(status, lines, date, link, covered \cup gained, {p}, ReadyPairs(status), cand[t])
    BY <1>1, <1>2, <1>3
  <2> HIDE DEF p
  <2> QED
    BY <1>13, <2>1, <2>2, SettleEffect
<1>15. DataTypes'
  <2> HIDE DEF p
  <2> QED
    BY <1>1, <1>11, BumpTypes DEF TxTypes
<1> QED
  BY <1>3, <1>8, <1>12, <1>14, <1>15 DEF Ordinary

LEMMA CommitAdjustStep ==
  ASSUME TxTypes, NEW t \in Requests, Entitled(t), CommitAdjust(t)
  PROVE  Ordinary /\ DataEffect(t) /\ DataTypes'
<1> DEFINE p == req[t].target
<1>1. /\ pc[t] = "write" /\ req[t].kind = "Adjust"
      /\ UNCHANGED <<runVars, stocked, given>>
      /\ Settle(status, lines, date, link, covered, {p}, {}, cand[t])
      /\ BumpVersions({})
      /\ BumpEpochs({p})
  BY DEF CommitAdjust, Writing
<1>2. /\ p \in Products /\ p \in Produced \cup stocked
      /\ cand[t] \subseteq HeldOrders(t) /\ cand[t] \subseteq Orders
      /\ ClosureProducts(t) \subseteq HeldProducts(t)
      /\ FullOrderSet(t, ClosureProducts(t)) \subseteq cand[t]
  BY <1>1 DEF Entitled, Placed, HasOrders, HasProducts, NobodyJoined, TxTypes, LocalTypes,
              WellFormed, DiscoveryKinds, SupplyKinds
<1>3. ClosureProducts(t) = {p}
  BY <1>1, ClosureOf
<1>4. cand[t] \in Evaluations(status, lines, {p})
  BY <1>2, <1>3 DEF Evaluations, FullOrderSet
<1>5. AdjustSupply(p)
  BY <1>1, <1>2, <1>4 DEF AdjustSupply
<1>6. DataEffect(t)
  <2>1. {} \subseteq HeldOrders(t) /\ {p} \subseteq HeldProducts(t)
    BY <1>2, <1>3
  <2>2. /\ Activity' \subseteq Activity
        /\ \A q \in Runs : runState[q] = "IN_PRODUCTION" =>
             runKey'[q] = runKey[q] /\ (runLock[q] # t => runState'[q] = "IN_PRODUCTION")
    BY <1>1, RunsUntouched
  <2> HIDE DEF p
  <2> QED
    BY <1>1, <1>2, <2>1, <2>2, SettleEffect
<1>7. DataTypes'
  <2> HIDE DEF p
  <2> QED
    BY <1>1, BumpTypes DEF TxTypes, DataTypes
<1> QED
  BY <1>2, <1>5, <1>6, <1>7 DEF Ordinary

LEMMA CommitStockStep ==
  ASSUME TxTypes, NEW t \in Requests, Entitled(t), CommitStock(t)
  PROVE  Ordinary /\ DataEffect(t) /\ DataTypes'
<1> DEFINE p == req[t].target
<1>1. /\ pc[t] = "write" /\ req[t].kind = "Stock"
      /\ OpenStock(p)
      /\ UNCHANGED <<given, version, epoch>>
  BY DEF CommitStock, Writing
<1>2. p \in Products
  BY <1>1 DEF TxTypes, LocalTypes, WellFormed
<1>3. UNCHANGED <<orderVars, link, runVars>> /\ stocked \subseteq stocked'
  BY <1>1 DEF OpenStock
<1>4. Activity' = Activity /\ UNCHANGED <<runState, runKey>>
  BY <1>3, RunsUntouched
<1>5. /\ \A o \in Orders :
           version'[o] \in Nat /\ version[o] <= version'[o] /\ Row(o)' = Row(o)
      /\ \A q : Demand(status', lines', q) = Demand(status, lines, q)
  BY <1>1, <1>3, RowsSame DEF TxTypes
<1>6. DataEffect(t)
  BY <1>3, <1>4, <1>5 DEF DataEffect
<1>7. DataTypes'
  BY <1>1 DEF TxTypes, DataTypes
<1> QED
  BY <1>1, <1>2, <1>6, <1>7 DEF Ordinary

LEMMA CommitMigrateStep ==
  ASSUME TxTypes, NEW t \in Requests, Entitled(t), CommitMigrate(t)
  PROVE  Next /\ DataEffect(t) /\ DataTypes'
<1> DEFINE p == req[t].target
<1>1. /\ pc[t] = "write" /\ req[t].kind = "Migrate"
      /\ Migrate(p)
      /\ UNCHANGED <<given, version>>
      /\ BumpEpochs({p})
  BY DEF CommitMigrate, Writing
<1>2. p \in Products /\ ClosureProducts(t) \subseteq HeldProducts(t)
  BY <1>1 DEF TxTypes, LocalTypes, WellFormed, Entitled, HasProducts
<1>3. /\ UNCHANGED <<orderVars, runVars, stocked>>
      /\ link' = Rebuilt(link, status, lines, date, Activity, {p})
  BY <1>1 DEF Migrate
<1>4. productLock[p] = t
  BY <1>1, <1>2, ClosureOf DEF HeldProducts
<1>5. Activity' = Activity /\ UNCHANGED <<runState, runKey>>
  BY <1>3, RunsUntouched
<1>6. /\ \A o \in Orders :
           version'[o] \in Nat /\ version[o] <= version'[o] /\ Row(o)' = Row(o)
      /\ \A q : Demand(status', lines', q) = Demand(status, lines, q)
  BY <1>1, <1>3, RowsSame DEF TxTypes
<1>7. \A k \in Keys : k[1] # p => link'[k] = link[k]
  BY <1>3 DEF Rebuilt
<1> HIDE DEF p
<1>8. DataEffect(t)
  BY <1>3, <1>4, <1>5, <1>6, <1>7 DEF DataEffect
<1>9. DataTypes'
  <2>1. epoch' \in [Products -> Nat]
    BY <1>1 DEF TxTypes, DataTypes, BumpEpochs
  <2> QED
    BY <1>1, <2>1 DEF TxTypes, DataTypes
<1> QED
  BY <1>1, <1>2, <1>8, <1>9 DEF Next

----------------------------------------------------------------------------
(* The invariant, and the step simulation.                                  *)

LEMMA TxInitInv == TxInit => TxInv
<1> SUFFICES ASSUME TxInit PROVE TxInv
  OBVIOUS
<1>1. TypeOK /\ LinkInv
  BY InitTypeOK, InitLinks DEF TxInit
<1>2. DataTypes
  BY DEF TxInit, DataTypes
<1>3. \A t \in Requests : pc[t] = "idle" /\ req[t] = NoRequest /\ seen[t] = NoView
  BY DEF TxInit
<1>4. LocalTypes
  <2>1. /\ WellFormed(NoRequest)
        /\ NoView.lines \subseteq Products /\ NoView.version \in Nat
    BY DEF WellFormed, NoRequest, NoView, OnOrder, OrderKinds, RunKinds
  <2>2. \A t \in Requests : /\ WellFormed(req[t])
                            /\ seen[t].lines \subseteq Products
                            /\ seen[t].version \in Nat
    BY <1>3, <2>1
  <2> QED
    BY <2>2, TxAssumption DEF TxInit, LocalTypes, PCs
<1>5. ASSUME NEW t \in Requests PROVE Entitled(t)
  <2>1. pc[t] = "idle" /\ req[t].kind = "none"
    BY <1>3 DEF NoRequest
  <2> QED
    BY <2>1 DEF Entitled, Placed, HasOrders, HasProducts, HasRun, Judged, SeenEarlier,
                NobodyJoined, Startable, OnOrder, OrderKinds, RunKinds
<1> QED
  BY <1>1, <1>2, <1>4, <1>5 DEF TxInv, TxTypes

LEMMA CommitStep ==
  ASSUME TxInv, NEW t \in Requests, Commit(t)
  PROVE  /\ [Next]_vars /\ DataEffect(t) /\ DataTypes' /\ End(t)
         /\ ~CommitMigrate(t) => [Ordinary]_vars
<1>1. TxTypes /\ LinkInv /\ Entitled(t)
  BY DEF TxInv
<1>2. CASE CommitConfirm(t)
  BY <1>1, <1>2, CommitConfirmStep, OrdinaryIsNext DEF CommitConfirm
<1>3. CASE CommitEdit(t)
  BY <1>1, <1>3, CommitEditStep, OrdinaryIsNext DEF CommitEdit
<1>4. CASE CommitPlainEdit(t)
  BY <1>1, <1>4, CommitPlainEditStep DEF CommitPlainEdit
<1>5. CASE CommitCancel(t)
  BY <1>1, <1>5, CommitCancelStep, OrdinaryIsNext DEF CommitCancel
<1>6. CASE CommitComplete(t)
  BY <1>1, <1>6, CommitCompleteStep, OrdinaryIsNext DEF CommitComplete
<1>7. CASE CommitEditDraft(t)
  BY <1>1, <1>7, CommitEditDraftStep, OrdinaryIsNext DEF CommitEditDraft
<1>8. CASE CommitStart(t)
  BY <1>1, <1>8, CommitStartStep, OrdinaryIsNext DEF CommitStart
<1>9. CASE CommitRunEnd(t)
  BY <1>1, <1>9, CommitRunEndStep, OrdinaryIsNext DEF CommitRunEnd
<1>10. CASE CommitAdjust(t)
  BY <1>1, <1>10, CommitAdjustStep, OrdinaryIsNext DEF CommitAdjust
<1>11. CASE CommitStock(t)
  BY <1>1, <1>11, CommitStockStep, OrdinaryIsNext DEF CommitStock
<1>12. CASE CommitMigrate(t)
  BY <1>1, <1>12, CommitMigrateStep DEF CommitMigrate
<1> QED
  BY <1>2, <1>3, <1>4, <1>5, <1>6, <1>7, <1>8, <1>9, <1>10, <1>11, <1>12 DEF Commit

(* The answers that change nothing.                                         *)
RolledBack(t) == RejectRun(t) \/ RejectCheck(t) \/ RejectVerify(t) \/ RejectWrite(t)
                   \/ DeadlockVictim(t)

LEMMA RollBackStep ==
  ASSUME NEW t \in Requests, RolledBack(t)
  PROVE  RowsKept /\ End(t)
  BY DEF RolledBack, RejectRun, RejectCheck, RejectVerify, RejectWrite, DeadlockVictim, RollBack,
         RowsKept

LEMMA QuietStep ==
  ASSUME TxTypes, NEW t \in Requests, Entitled(t),
         \/ Arrive(t) \/ LockRun(t) \/ Discover(t) \/ LockOrder(t) \/ Check(t)
         \/ LockProduct(t) \/ Verify(t) \/ Retry(t) \/ ShareOrder(t) \/ Shared(t)
         \/ RolledBack(t)
  PROVE  RowsKept /\ LocalTypes' /\ LocalEffect(t) /\ Entitled(t)'
  BY ArriveStep, LockRunStep, DiscoverStep, LockOrderStep, CheckStep, LockProductStep, VerifyStep,
     RetryStep, ShareOrderStep, SharedStep, RollBackStep, EndEntitled

(* What any step of a request does: one step of the atomic specification or *)
(* none, within the two effects.                                            *)
LEMMA StepEffect ==
  ASSUME TxInv, NEW t \in Requests, Arrive(t) \/ Serve(t)
  PROVE  /\ [Next]_vars /\ DataEffect(t) /\ DataTypes'
         /\ LocalTypes' /\ LocalEffect(t) /\ Entitled(t)'
<1>0. TxTypes /\ LinkInv /\ TypeOK /\ \A x \in Requests : Entitled(x)
  BY DEF TxInv, TxTypes
<1>1. CASE Commit(t)
  BY <1>0, <1>1, CommitStep, EndEntitled
<1>2. CASE ~Commit(t)
  <2>1. RowsKept /\ LocalTypes' /\ LocalEffect(t) /\ Entitled(t)'
    BY <1>0, <1>2, QuietStep DEF Serve, RolledBack
  <2>2. UNCHANGED vars
    BY <2>1 DEF RowsKept, dataVars
  <2> QED
    BY <1>0, <2>1, <2>2, KeptDataEffect
<1> QED
  BY <1>1, <1>2

LEMMA StepKeeps ==
  ASSUME TxInv, NEW t \in Requests, Arrive(t) \/ Serve(t)
  PROVE  [Next]_vars /\ TxInv'
<1>0. TxTypes /\ LinkInv /\ TypeOK /\ \A x \in Requests : Entitled(x)
  BY DEF TxInv, TxTypes
<1>1. /\ [Next]_vars /\ DataEffect(t) /\ DataTypes'
      /\ LocalTypes' /\ LocalEffect(t) /\ Entitled(t)'
  BY StepEffect
<1>2. TypeOK' /\ LinkInv'
  BY <1>0, <1>1, NextTypeOK, NextLinks
<1>3. ASSUME NEW x \in Requests PROVE Entitled(x)'
  <2>1. CASE x = t
    BY <1>1, <2>1
  <2>2. CASE x # t
    BY <1>0, <1>1, <2>2, OthersKeep
  <2> QED
    BY <2>1, <2>2
<1> QED
  BY <1>1, <1>2, <1>3 DEF TxInv, TxTypes

LEMMA TxStutter == TxInv /\ UNCHANGED txVars => UNCHANGED vars /\ TxInv'
<1> SUFFICES ASSUME TxInv, UNCHANGED txVars PROVE UNCHANGED vars /\ TxInv'
  OBVIOUS
<1>1. /\ UNCHANGED <<vars, status, lines, date, covered, link, runState, runKey, stocked>>
      /\ UNCHANGED <<given, version, epoch, orderLock, orderShare, productLock, runLock>>
      /\ UNCHANGED <<pc, req, seen, cand, tries>>
  BY DEF txVars, dataVars, vars, orderVars, runVars, lockVars, localVars
<1>2. RowsKept
  BY DEF txVars, RowsKept
<1>3. TypeOK' /\ LinkInv'
  BY NextTypeOK, NextLinks, <1>1 DEF TxInv, TxTypes
<1>4. DataTypes' /\ LocalTypes'
  BY <1>1 DEF TxInv, TxTypes, DataTypes, LocalTypes, WellFormed
<1>5. ASSUME NEW t \in Requests PROVE Entitled(t)'
  <2>1. /\ View(t)' = View(t)
        /\ ClosureProducts(t)' = ClosureProducts(t)
        /\ FullOrderSet(t, ClosureProducts(t))' = FullOrderSet(t, ClosureProducts(t))
        /\ Activity' = Activity
    BY <1>1, <1>2, KeptViews
  <2>2. SeenEarlier(t)'
    BY <1>1, <1>2, KeptSeen DEF TxInv, Entitled
  <2>3. Entitled(t)
    BY DEF TxInv
  <2> QED
    BY <1>1, <2>1, <2>2, <2>3
    DEF Entitled, Placed, HasOrders, HasProducts, HasRun, Judged, NobodyJoined, Startable,
        HeldOrders, HeldProducts
<1> QED
  BY <1>1, <1>3, <1>4, <1>5 DEF TxInv, TxTypes

LEMMA TxNextInv == TxInv /\ [TxNext]_txVars => TxInv' /\ [Next]_vars
<1> SUFFICES ASSUME TxInv, [TxNext]_txVars PROVE TxInv' /\ [Next]_vars
  OBVIOUS
<1>1. CASE TxNext
  BY <1>1, StepKeeps DEF TxNext
<1>2. CASE UNCHANGED txVars
  BY <1>2, TxStutter
<1> QED
  BY <1>1, <1>2

----------------------------------------------------------------------------
(* The locking protocol implements the atomic specification: the steps of a *)
(* request before its commit stutter, and its commit is the workflow, taken *)
(* at once with everything it read still true.                              *)
THEOREM WorkflowsAreAtomic == TxSpec => AtomicSpec
<1>1. TxInit => Init
  BY DEF TxInit
<1> QED
  BY <1>1, TxInitInv, TxNextInv, PTL DEF TxSpec, AtomicSpec, Spec

(* Every row, lock and session field keeps its type.                        *)
THEOREM TxTypeCorrect == TxSpec => []TxTypeOK
<1>1. TxInv => TxTypeOK
  BY DEF TxInv, TxTypes, DataTypes, LocalTypes, TxTypeOK, WellFormed
<1> QED
  BY <1>1, TxInitInv, TxNextInv, PTL DEF TxSpec

(* From verification to commit a workflow that evaluates readiness holds    *)
(* the row of every live Order with demand for what it recalculates: nobody *)
(* can join the set once the Products are locked.                           *)
THEOREM CandidatesAreHeld == TxSpec => []CandidatesStayLocked
<1>1. TxInv => CandidatesStayLocked
  <2> SUFFICES ASSUME TxInv, NEW t \in Requests, pc[t] = "write", req[t].kind \in DiscoveryKinds
               PROVE  FullOrderSet(t, ClosureProducts(t)) \subseteq HeldOrders(t)
    BY DEF CandidatesStayLocked
  <2>1. HasOrders(t) /\ NobodyJoined(t)
    BY DEF TxInv, Entitled
  <2> QED
    BY <2>1 DEF HasOrders, NobodyJoined
<1> QED
  BY <1>1, TxInitInv, TxNextInv, PTL DEF TxSpec

----------------------------------------------------------------------------
(* No lost update.                                                          *)

(* The commit of a workflow on an Order writes the version it was asked on. *)
LEMMA CommitNamesVersion ==
  ASSUME TxInv, NEW t \in Requests, Commit(t), req[t].kind \in OnOrder
  PROVE  version[req[t].target] = req[t].version
<1>1. TxTypes /\ Entitled(t)
  BY DEF TxInv
<1>2. CASE req[t].kind = "EditDraft"
  <2>1. CommitEditDraft(t)
    BY <1>2 DEF Commit, CommitConfirm, CommitEdit, CommitPlainEdit, CommitCancel, CommitComplete,
                CommitStart, CommitRunEnd, CommitAdjust, CommitStock, CommitMigrate, Writing,
                RunKinds
  <2> QED
    BY <1>1, <2>1, CommitEditDraftStep
<1>3. CASE req[t].kind \in {"Cancel", "Complete"}
  <2>1. pc[t] = "write"
    BY <1>3 DEF Commit, CommitConfirm, CommitEdit, CommitPlainEdit, CommitCancel, CommitComplete,
                CommitStart, CommitRunEnd, CommitAdjust, CommitStock, CommitMigrate,
                CommitEditDraft, Writing
  <2>2. Fresh(t)
    BY <1>3 DEF Fresh, View, Row
  <2> QED
    BY <1>1, <1>3, <2>1, <2>2, AtWrite DEF OrderKinds
<1>4. CASE req[t].kind \in {"Confirm", "Edit"}
  <2>1. pc[t] = "write" /\ Fresh(t)
    BY <1>4 DEF Commit, CommitConfirm, CommitEdit, CommitPlainEdit, CommitCancel, CommitComplete,
                CommitStart, CommitRunEnd, CommitAdjust, CommitStock, CommitMigrate,
                CommitEditDraft, Writing, RunKinds
  <2> QED
    BY <1>1, <1>4, <2>1, AtWrite DEF OrderKinds
<1> QED
  BY <1>2, <1>3, <1>4 DEF OnOrder, OrderKinds

(* When a step changes Order rows in the name of an answered request, that  *)
(* request is the one that took the step.                                   *)
LEMMA StepNamesVersion ==
  ASSUME TxInv, NEW u \in Requests, Arrive(u) \/ Serve(u), version' # version,
         NEW t \in Requests, req[t].kind \in OnOrder, pc'[t] = "done"
  PROVE  version[req[t].target] = req[t].version
<1>0. TxTypes /\ \A x \in Requests : Entitled(x)
  BY DEF TxInv
<1>1. Commit(u)
  <2> SUFFICES ASSUME ~Commit(u) PROVE FALSE
    OBVIOUS
  <2>1. RowsKept
    BY <1>0, QuietStep DEF Serve, RolledBack
  <2> QED
    BY <2>1 DEF RowsKept
<1>2. LocalEffect(u)
  BY <1>0, <1>1, CommitStep, EndEntitled
<1>3. t = u
  <2> SUFFICES ASSUME t # u PROVE FALSE
    OBVIOUS
  <2>1. pc[t] = "done"
    BY <1>2 DEF LocalEffect
  <2>2. req[t].kind = "none"
    BY <1>0, <2>1 DEF Entitled, Placed
  <2> QED
    BY <2>2 DEF OnOrder, OrderKinds
<1> QED
  BY <1>1, <1>3, CommitNamesVersion

(* A workflow that changes its Order judged the row it changes: the version *)
(* the client named is still the version of the row at the commit.          *)
THEOREM NoUpdateIsLost == TxSpec => NoLostUpdate
<1>1. TxInv /\ [TxNext]_txVars =>
        [\A t \in Requests :
           /\ req[t].kind \in OrderKinds \cup {"EditDraft"}
           /\ pc'[t] = "done"
           /\ version' # version
           => version[req[t].target] = req[t].version]_txVars
  BY StepNamesVersion DEF TxNext, OnOrder
<1> QED
  BY <1>1, TxInitInv, TxNextInv, PTL DEF TxSpec, NoLostUpdate

----------------------------------------------------------------------------
(* What the refinement carries over to the locking protocol.                *)

(* READY Orders are covered while the workflows interleave.                 *)
THEOREM TxReadyStaysCovered == TxSpec => []ReadyIsCovered
<1> QED
  BY WorkflowsAreAtomic, ReadyStaysCovered, PTL DEF AtomicSpec

(* Two requests racing to start the same requirement never both do.         *)
THEOREM TxOneRunPerRequirement == TxSpec => []OneActiveRunPerRequirement
<1> QED
  BY WorkflowsAreAtomic, OneRunPerRequirement, PTL DEF AtomicSpec

(* The requirement links mirror demand after every interleaved commit.      *)
THEOREM TxLinksFollowDemand == TxSpec => []LinksMirrorDemand
<1> QED
  BY WorkflowsAreAtomic, LinksFollowDemand, PTL DEF AtomicSpec

(* No interleaving brings unprotected demand onto a requirement that is in  *)
(* production.                                                              *)
THEOREM TxActiveKeysAreProtected == TxSpec => []NoUnprotectedDemandOnActiveKey
<1> QED
  BY WorkflowsAreAtomic, ActiveKeysAreProtected, PTL DEF AtomicSpec

(* Completion and Start racing for the same Order: an Order of a run in     *)
(* production is never COMPLETED.                                           *)
THEOREM TxNoneCompletedUnderRun == TxSpec => []NoCompletionUnderRun
<1> QED
  BY WorkflowsAreAtomic, NoneCompletedUnderRun, PTL DEF AtomicSpec

----------------------------------------------------------------------------
(* Waiting: of Orders to be promoted, of requests for each other.            *)

(* Every satisfied Order without a line for a Product of S is promoted.     *)
PromotedBut(S) ==
  \A o \in Orders :
    status[o] = "CONFIRMED" /\ lines[o] \cap S = {} => ~Satisfied(lines, covered, o)

(* Outside the recalculated Products coverage does not appear.              *)
LEMMA CoveringsAddOnlyInside ==
  ASSUME NEW cv, NEW fixed, NEW demand, NEW Ps, NEW st,
         NEW c \in Coverings(cv, fixed, demand, Ps, st),
         NEW x \in c, x[2] \notin Ps
  PROVE  x \in cv
  BY DEF Coverings

(* A workflow that evaluates all the demand for the Products it             *)
(* recalculates promotes whoever it covers.                                 *)
LEMMA SettlePromotes ==
  ASSUME NEW S,
         NEW st \in [Orders -> Status], NEW ln \in [Orders -> SUBSET Products],
         NEW dt, NEW lk, NEW cv, NEW Ps, NEW fixed,
         NEW E \in Evaluations(st, ln, Ps),
         Settle(st, ln, dt, lk, cv, Ps, fixed, E),
         \A u \in Orders \ E :
           st[u] = "CONFIRMED" /\ ln[u] \cap S = {} =>
             ~(ln[u] # {} /\ \A p \in ln[u] : p \notin Ps /\ <<u, p>> \in cv)
  PROVE  PromotedBut(S)'
<1> DEFINE act == Active(runState', runKey')
           all == ProtectedPairs(lk, act) \cup fixed
<1>1. /\ covered' \in Coverings(cv, all, DemandPairs(st, ln), Ps, stocked)
      /\ status' = Evaluated(st, ln, covered', E)
      /\ lines' = ln
  BY DEF Settle
<1> SUFFICES ASSUME NEW u \in Orders, status'[u] = "CONFIRMED", ln[u] \cap S = {},
                    Satisfied(ln, covered', u)
             PROVE  FALSE
  BY <1>1 DEF PromotedBut
<1>2. u \notin E /\ st[u] = "CONFIRMED"
  BY <1>1 DEF Evaluated, Live
<1>3. ASSUME NEW p \in ln[u]
      PROVE  p \notin Ps /\ <<u, p>> \in cv
  <2>1. u \in Demand(st, ln, p)
    BY <1>2 DEF Demand, Live
  <2>2. p \notin Ps
    BY <1>2, <2>1 DEF Evaluations
  <2>3. <<u, p>> \in covered' /\ <<u, p>>[2] \notin Ps
    BY <2>2 DEF Satisfied
  <2> HIDE DEF all
  <2> QED
    BY <1>1, <2>2, <2>3, CoveringsAddOnlyInside
<1> QED
  BY <1>2, <1>3 DEF Satisfied

LEMMA InitPromoted ==
  ASSUME NEW S
  PROVE  Init => PromotedBut(S)
<1> SUFFICES ASSUME Init, NEW o \in Orders, status[o] = "CONFIRMED", Satisfied(lines, covered, o)
             PROVE  FALSE
  BY DEF PromotedBut
<1>1. status[o] = Evaluated(status, lines, covered, Orders)[o]
  BY DEF Init
<1> QED
  BY <1>1 DEF Evaluated, Live

(* Every workflow that opens no inventory outside S and migrates no Product *)
(* outside it keeps the Orders promoted.                                    *)
LEMMA NextPromoted ==
  ASSUME NEW S, TypeOK, PromotedBut(S), [Next]_vars, stocked' \subseteq stocked \cup S,
         [Ordinary]_vars \/ Produced \subseteq S
  PROVE  PromotedBut(S)'
<1>0. \A u \in Orders :
        status[u] = "CONFIRMED" /\ lines[u] \cap S = {} =>
          ~(lines[u] # {} /\ \A p \in lines[u] : <<u, p>> \in covered)
  BY DEF PromotedBut, Satisfied
<1>t. /\ status \in [Orders -> Status]
      /\ lines \in [Orders -> SUBSET Products]
  BY DEF TypeOK
<1>1. ASSUME NEW o \in Orders, Confirm(o) PROVE PromotedBut(S)'
  <2> DEFINE st == [status EXCEPT ![o] = "CONFIRMED"]
  <2>1. st \in [Orders -> Status] /\ \A u \in Orders \ {o} : st[u] = status[u]
    BY <1>t DEF Status
  <2>2. PICK E \in Evaluations(st, lines, lines[o]) :
          Settle(st, lines, date, link, covered, lines[o], ReadyPairs(st), E)
    BY <1>1 DEF Confirm
  <2>3. ASSUME NEW u \in Orders \ E, st[u] = "CONFIRMED", lines[u] \cap S = {}
        PROVE  ~(lines[u] # {} /\ \A p \in lines[u] : p \notin lines[o] /\ <<u, p>> \in covered)
    <3>1. CASE u = o
      BY <3>1
    <3>2. CASE u # o
      BY <1>0, <2>1, <2>3, <3>2
    <3> QED
      BY <3>1, <3>2
  <2> HIDE DEF st
  <2> QED
    BY <1>t, <2>1, <2>2, <2>3, SettlePromotes
<1>2. ASSUME NEW o \in Orders, NEW e \in EditPayloads, EditDraft(o, e) PROVE PromotedBut(S)'
  <2>1. \A u \in Orders : status[u] = "CONFIRMED" => lines'[u] = lines[u]
    BY <1>2, <1>t DEF EditDraft
  <2> QED
    BY <1>2, <2>1 DEF EditDraft, PromotedBut, Satisfied
<1>3. ASSUME NEW o \in Orders, NEW e \in EditPayloads, Edit(o, e) PROVE PromotedBut(S)'
  <2> DEFINE ln == [lines EXCEPT ![o] = e.lines]
             dt == [date EXCEPT ![o] = e.date]
             lk == Cascaded(link, o, e.lines)
             cv == covered \ ({o} \X e.resized)
             Ps == lines[o] \cup e.lines
  <2>1. PICK E \in Evaluations(status, ln, Ps) :
          Settle(status, ln, dt, lk, cv, Ps, ReadyPairs(status), E)
    BY <1>3 DEF Edit
  <2>2. ln \in [Orders -> SUBSET Products] /\ ln[o] = e.lines
        /\ \A u \in Orders \ {o} : ln[u] = lines[u]
    BY <1>t, PayloadAssumption
  <2>3. ASSUME NEW u \in Orders \ E, status[u] = "CONFIRMED", ln[u] \cap S = {}
        PROVE  ~(ln[u] # {} /\ \A p \in ln[u] : p \notin Ps /\ <<u, p>> \in cv)
    <3>1. CASE u = o
      BY <2>2, <3>1
    <3>2. CASE u # o
      BY <1>0, <2>2, <2>3, <3>2
    <3> QED
      BY <3>1, <3>2
  <2> HIDE DEF ln, dt, lk, cv, Ps
  <2> QED
    BY <1>t, <2>1, <2>2, <2>3, SettlePromotes
<1>4. ASSUME NEW o \in Orders, Cancel(o) PROVE PromotedBut(S)'
  <2> DEFINE st == [status EXCEPT ![o] = "CANCELED"]
  <2>1. st \in [Orders -> Status] /\ \A u \in Orders : st[u] = "CONFIRMED" => status[u] = st[u]
    BY <1>t DEF Status
  <2>2. PICK E \in Evaluations(st, lines, lines[o]) :
          Settle(st, lines, date, link, covered, lines[o], ReadyPairs(st), E)
    BY <1>4 DEF Cancel
  <2>3. \A u \in Orders \ E : st[u] = "CONFIRMED" /\ lines[u] \cap S = {} =>
          ~(lines[u] # {} /\ \A p \in lines[u] : p \notin lines[o] /\ <<u, p>> \in covered)
    BY <1>0, <2>1
  <2> HIDE DEF st
  <2> QED
    BY <1>t, <2>1, <2>2, <2>3, SettlePromotes
<1>5. ASSUME NEW o \in Orders, CompleteOrder(o) PROVE PromotedBut(S)'
  <2> DEFINE st == [status EXCEPT ![o] = "COMPLETED"]
  <2>1. st \in [Orders -> Status] /\ \A u \in Orders : st[u] = "CONFIRMED" => status[u] = st[u]
    BY <1>t DEF Status
  <2>2. PICK E \in Evaluations(st, lines, lines[o]) :
          Settle(st, lines, date, link, covered, lines[o], ReadyPairs(st), E)
    BY <1>5 DEF CompleteOrder
  <2>3. \A u \in Orders \ E : st[u] = "CONFIRMED" /\ lines[u] \cap S = {} =>
          ~(lines[u] # {} /\ \A p \in lines[u] : p \notin lines[o] /\ <<u, p>> \in covered)
    BY <1>0, <2>1
  <2> HIDE DEF st
  <2> QED
    BY <1>t, <2>1, <2>2, <2>3, SettlePromotes
<1>6. ASSUME NEW r \in Runs, NEW k \in Keys, Start(r, k) PROVE PromotedBut(S)'
  BY <1>6 DEF Start, orderVars, PromotedBut, Satisfied
<1>7. ASSUME NEW r \in Runs, NEW outcome \in {"COMPLETED", "CANCELED"}, EndRun(r, outcome)
      PROVE  PromotedBut(S)'
  <2> DEFINE p == runKey[r][1]
  <2>1. PICK gained \in SUBSET (Demand(status, lines, p) \X {p}),
             E \in Evaluations(status, lines, {p}) :
          Settle(status, lines, date, link, covered \cup gained, {p}, ReadyPairs(status), E)
    BY <1>7 DEF EndRun
  <2>2. \A u \in Orders \ E : status[u] = "CONFIRMED" /\ lines[u] \cap S = {} =>
          ~(lines[u] # {} /\ \A q \in lines[u] : q \notin {p} /\ <<u, q>> \in covered \cup gained)
    <3>1. \A u, q : <<u, q>> \in gained => q = p
      BY <2>1
    <3> QED
      BY <1>0, <3>1
  <2> HIDE DEF p
  <2> QED
    BY <1>t, <2>1, <2>2, SettlePromotes
<1>8. ASSUME NEW p \in Products, AdjustSupply(p) PROVE PromotedBut(S)'
  <2>1. PICK E \in Evaluations(status, lines, {p}) :
          Settle(status, lines, date, link, covered, {p}, {}, E)
    BY <1>8 DEF AdjustSupply
  <2>2. \A u \in Orders \ E : status[u] = "CONFIRMED" /\ lines[u] \cap S = {} =>
          ~(lines[u] # {} /\ \A q \in lines[u] : q \notin {p} /\ <<u, q>> \in covered)
    BY <1>0
  <2> QED
    BY <1>t, <2>1, <2>2, SettlePromotes
<1>9. ASSUME NEW p \in Products, OpenStock(p) PROVE PromotedBut(S)'
  <2>1. p \in S /\ UNCHANGED <<status, lines>>
    BY <1>9 DEF OpenStock, orderVars
  <2>2. \A u \in Orders, q \in Products : q # p /\ <<u, q>> \in covered' => <<u, q>> \in covered
    BY <1>9 DEF OpenStock
  <2>3. ASSUME NEW u \in Orders, status[u] = "CONFIRMED", lines[u] \cap S = {},
               Satisfied(lines, covered', u)
        PROVE  FALSE
    <3>1. \A q \in lines[u] : q \in Products /\ q # p /\ <<u, q>> \in covered'
      BY <1>t, <2>1, <2>3 DEF Satisfied
    <3> QED
      BY <1>0, <2>2, <2>3, <3>1 DEF Satisfied
  <2> QED
    BY <2>1, <2>3 DEF PromotedBut
<1>10. ASSUME NEW p \in S, Migrate(p) PROVE PromotedBut(S)'
  <2>1. UNCHANGED <<status, lines>>
    BY <1>10 DEF Migrate, orderVars
  <2>2. PICK fixed : covered' \in Coverings(covered, fixed, DemandPairs(status, lines), {p}, stocked)
    BY <1>10 DEF Migrate
  <2>3. \A u \in Orders, q \in Products : q # p /\ <<u, q>> \in covered' => <<u, q>> \in covered
    BY <2>2, CoveringsAddOnlyInside
  <2>4. ASSUME NEW u \in Orders, status[u] = "CONFIRMED", lines[u] \cap S = {},
               Satisfied(lines, covered', u)
        PROVE  FALSE
    <3>1. \A q \in lines[u] : q \in Products /\ q # p /\ <<u, q>> \in covered'
      BY <1>t, <2>4 DEF Satisfied
    <3> QED
      BY <1>0, <2>3, <2>4, <3>1 DEF Satisfied
  <2> QED
    BY <2>1, <2>4 DEF PromotedBut
<1>11. ASSUME UNCHANGED vars PROVE PromotedBut(S)'
  BY <1>11 DEF vars, orderVars, PromotedBut, Satisfied
<1>12. CASE [Ordinary]_vars
  BY <1>1, <1>2, <1>3, <1>4, <1>5, <1>6, <1>7, <1>8, <1>9, <1>11, <1>12 DEF Ordinary
<1>13. CASE Produced \subseteq S
  <2>1. \A p \in Products : Migrate(p) => p \in S
    BY <1>13 DEF Migrate
  <2> QED
    BY <1>1, <1>2, <1>3, <1>4, <1>5, <1>6, <1>7, <1>8, <1>9, <1>10, <1>11, <2>1 DEF Next
<1> QED
  BY <1>12, <1>13

----------------------------------------------------------------------------
(* Requests are only for the workflows the clients use.                     *)
KindsKept == \A t \in Requests : req[t].kind \in KindsOf[t] \cup {"none"}

LEMMA InitKinds == TxInit => KindsKept
  BY DEF TxInit, KindsKept, NoRequest

LEMMA EndKinds ==
  ASSUME TxTypes, KindsKept, NEW t \in Requests, End(t)
  PROVE  KindsKept'
<1>1. req' = [req EXCEPT ![t] = NoRequest] /\ req = [x \in Requests |-> req[x]]
  BY DEF End, TxTypes, LocalTypes
<1> QED
  BY <1>1 DEF KindsKept, NoRequest

LEMMA StepKinds ==
  ASSUME TxInv, KindsKept, NEW t \in Requests, Arrive(t) \/ Serve(t)
  PROVE  /\ KindsKept'
         /\ UNCHANGED stocked \/ "Stock" \in KindsOf[t]
         /\ [Ordinary]_vars \/ "Migrate" \in KindsOf[t]
<1>0. TxTypes /\ Entitled(t) /\ req = [x \in Requests |-> req[x]]
  BY DEF TxInv, TxTypes, LocalTypes
<1>1. CASE Arrive(t)
  <2>1. PICK r \in Arrivals(t) : req' = [req EXCEPT ![t] = r]
    BY <1>1 DEF Arrive
  <2>2. r.kind \in KindsOf[t]
    BY DEF Arrivals
  <2>3. UNCHANGED <<stocked, vars>>
    BY <1>1 DEF Arrive, dataVars, vars
  <2> QED
    BY <1>0, <2>1, <2>2, <2>3 DEF KindsKept
<1>2. CASE Commit(t)
  <2>1. KindsKept'
    BY <1>0, <1>2, CommitStep, EndKinds
  <2>2. UNCHANGED stocked \/ CommitStock(t)
    BY <1>2 DEF Commit, CommitConfirm, CommitEdit, CommitPlainEdit, CommitCancel, CommitComplete,
                CommitEditDraft, CommitStart, CommitRunEnd, CommitAdjust, CommitMigrate,
                Migrate, dataVars, vars
  <2>3. CommitStock(t) => "Stock" \in KindsOf[t]
    BY DEF CommitStock, Writing, KindsKept
  <2>4. CommitMigrate(t) => "Migrate" \in KindsOf[t]
    BY DEF CommitMigrate, Writing, KindsKept
  <2>5. ~CommitMigrate(t) => [Ordinary]_vars
    BY <1>2, CommitStep
  <2> QED
    BY <2>1, <2>2, <2>3, <2>4, <2>5
<1>3. CASE RolledBack(t)
  <2>1. RowsKept /\ End(t)
    BY <1>3, RollBackStep
  <2>2. UNCHANGED <<stocked, vars>>
    BY <2>1, KeptStocked DEF RowsKept, dataVars
  <2> QED
    BY <1>0, <2>1, <2>2, EndKinds
<1>4. CASE \/ LockRun(t) \/ Discover(t) \/ LockOrder(t) \/ Check(t)
           \/ LockProduct(t) \/ Verify(t) \/ Retry(t) \/ ShareOrder(t) \/ Shared(t)
  <2>1. UNCHANGED req
    BY <1>4 DEF LockRun, Discover, LockOrder, Check, LockProduct, Verify, Retry, ShareOrder, Shared,
                localVars
  <2>2. UNCHANGED <<stocked, vars>>
    BY <1>4 DEF LockRun, Discover, LockOrder, Check, LockProduct, Verify, Retry, ShareOrder, Shared,
                dataVars, vars
  <2> QED
    BY <2>1, <2>2 DEF KindsKept
<1> QED
  BY <1>1, <1>2, <1>3, <1>4 DEF Serve, RolledBack

(* The Products for which coverage can appear without anybody evaluating    *)
(* the Orders that gain it, with the requests there are: the Purchased ones *)
(* when an inventory can be opened, the Produced ones when Recipes are      *)
(* migrated.                                                                *)
PassedOver ==
  {p \in Products : \E t \in Requests :
     \/ p \in Purchased /\ "Stock" \in KindsOf[t]
     \/ p \in Produced /\ "Migrate" \in KindsOf[t]}

(* Whatever requests interleave, an Order without a line for a Product that *)
(* may be passed over is never left CONFIRMED when all of its lines are     *)
(* satisfied: an Order of Produced Products while no Recipe is migrated, an *)
(* Order of Purchased ones while no inventory is opened.                    *)
THEOREM SatisfiedOrdersArePromoted == TxSpec => []PromotedBut(PassedOver)
<1> DEFINE I == TxInv /\ KindsKept /\ PromotedBut(PassedOver)
<1>1. TxInit => I
  BY TxInitInv, InitKinds, InitPromoted DEF TxInit
<1>2. I /\ [TxNext]_txVars => I'
  <2> SUFFICES ASSUME I, [TxNext]_txVars PROVE I'
    OBVIOUS
  <2>1. TxInv' /\ [Next]_vars
    BY TxNextInv
  <2>2. TypeOK /\ stocked' \subseteq Purchased
    BY <2>1 DEF TxInv, TxTypes, TypeOK
  <2>3. /\ KindsKept'
        /\ UNCHANGED stocked \/ \E t \in Requests : "Stock" \in KindsOf[t]
        /\ [Ordinary]_vars \/ \E t \in Requests : "Migrate" \in KindsOf[t]
    <3>1. CASE TxNext
      BY <3>1, StepKinds DEF TxNext
    <3>2. CASE UNCHANGED txVars
      BY <3>2 DEF txVars, dataVars, vars, localVars, KindsKept
    <3> QED
      BY <3>1, <3>2
  <2>4. /\ stocked' \subseteq stocked \cup PassedOver
        /\ [Ordinary]_vars \/ Produced \subseteq PassedOver
    <3>1. Purchased \subseteq Products /\ Produced \subseteq Products
      BY DataAssumption DEF Produced
    <3> QED
      BY <2>2, <2>3, <3>1 DEF PassedOver
  <2>5. \A S : S = PassedOver => PromotedBut(S)'
    <3> SUFFICES ASSUME NEW S, S = PassedOver PROVE PromotedBut(S)'
      OBVIOUS
    <3> QED
      BY <2>1, <2>2, <2>4, NextPromoted
  <2>6. PromotedBut(PassedOver)'
    BY <2>5 DEF PassedOver
  <2> QED
    BY <2>1, <2>3, <2>6
<1>3. I => PromotedBut(PassedOver)
  OBVIOUS
<1> QED
  BY <1>1, <1>2, <1>3, PTL DEF TxSpec

(* While no inventory is opened and no Recipe migrated, no Order at all is  *)
(* left CONFIRMED when every line is satisfied.                             *)
THEOREM NobodyWaitsSatisfied ==
  ASSUME \A t \in Requests : {"Stock", "Migrate"} \cap KindsOf[t] = {}
  PROVE  TxSpec => []SatisfiedIsReady
<1>1. PassedOver = {}
  BY DEF PassedOver
<1>2. PromotedBut(PassedOver) => SatisfiedIsReady
  BY <1>1 DEF PromotedBut, SatisfiedIsReady
<1> QED
  BY <1>2, SatisfiedOrdersArePromoted, PTL

----------------------------------------------------------------------------
(* Circles of waiting requests.                                             *)

(* A request takes its locks in the global order.                           *)
InOrder(t) ==
  /\ pc[t] = "lockOrders" =>
       \A x \in HeldOrders(t), y \in cand[t] \ HeldOrders(t) : x < y
  /\ pc[t] = "lockProducts" =>
       \A x \in HeldProducts(t), y \in ClosureProducts(t) \ HeldProducts(t) : x < y
  /\ pc[t] \in {"idle", "lockRun", "discover"} => HeldOrders(t) = {}
  /\ pc[t] \in {"idle", "lockRun", "discover", "lockOrders", "check"} => HeldProducts(t) = {}
  /\ pc[t] \in {"idle", "lockRun"} => \A r \in Runs : runLock[r] # t
  /\ \A o \in Orders : t \in orderShare[o] => req[t].kind = "Migrate"

OrderInv == \A t \in Requests : InOrder(t)

(* Every circle of waiting requests has a migration in it.                  *)
CirclesMigrate ==
  \A S \in SUBSET Requests : Deadlocked(S) => \E t \in S : req[t].kind = "Migrate"

----------------------------------------------------------------------------
(* A finite nonempty set on which w rises from every element to another     *)
(* does not exist: the element with the fewest above it has none.           *)
LEMMA NoEndlessAscent ==
  ASSUME NEW A, IsFiniteSet(A), A # {}, NEW w \in [A -> Nat],
         \A t \in A : \E h \in A : w[t] < w[h]
  PROVE  FALSE
<1> DEFINE Above(t) == {h \in A : w[t] < w[h]}
           Counts == {Cardinality(Above(t)) : t \in A}
<1>1. ASSUME NEW t \in A
      PROVE  IsFiniteSet(Above(t)) /\ Cardinality(Above(t)) \in Nat
  <2>1. Above(t) \in SUBSET A
    OBVIOUS
  <2>2. IsFiniteSet(Above(t))
    BY <2>1, FS_Subset
  <2> QED
    BY <2>2, FS_CardinalityType
<1>2. Counts \subseteq Nat /\ Counts # {}
  BY <1>1
<1>3. PICK c \in Counts : \A d \in Counts : ~(<<d, c>> \in OpToRel(<, Nat))
  <2> HIDE DEF Counts
  <2> QED
    BY <1>2, WFMin, NatLessThanWellFounded
<1>4. PICK t \in A : c = Cardinality(Above(t))
  OBVIOUS
<1>5. PICK h \in A : w[t] < w[h]
  OBVIOUS
<1>6. Above(h) \in SUBSET Above(t) /\ h \in Above(t) /\ h \notin Above(h)
  BY <1>5
<1>7. Cardinality(Above(h)) < Cardinality(Above(t))
  <2>1. IsFiniteSet(Above(t)) /\ Cardinality(Above(t)) \in Nat /\ Cardinality(Above(h)) \in Nat
    BY <1>1
  <2>2. Above(h) # Above(t)
    BY <1>6
  <2> HIDE DEF Above
  <2>3. /\ Cardinality(Above(h)) <= Cardinality(Above(t))
        /\ Cardinality(Above(t)) = Cardinality(Above(h)) => Above(t) = Above(h)
    BY <1>6, <2>1, FS_Subset
  <2> QED
    BY <2>1, <2>2, <2>3
<1>8. <<Cardinality(Above(h)), c>> \in OpToRel(<, Nat)
  BY <1>1, <1>4, <1>7 DEF OpToRel
<1> QED
  BY <1>3, <1>8

(* Who waits in ascending order for what such others hold, waits in no      *)
(* circle with them.                                                        *)
LEMMA AscentHasNoCircle ==
  ASSUME NEW A, IsFiniteSet(A), A # {},
         NEW wanted, NEW held,
         \A t \in A : wanted[t] \subseteq Nat,
         \A t \in A : \A x \in held[t], y \in wanted[t] : x < y,
         \A t \in A : \E h \in A : \E x \in Next1(wanted[t]) : x \in held[h]
  PROVE  FALSE
<1> DEFINE w == [t \in A |-> CHOOSE x \in Next1(wanted[t]) : TRUE]
<1>1. ASSUME NEW t \in A
      PROVE  w[t] \in Nat /\ w[t] \in wanted[t] /\ \A x \in Next1(wanted[t]) : x = w[t]
  <2>1. \E x : x \in Next1(wanted[t])
    OBVIOUS
  <2>2. w[t] \in Next1(wanted[t])
    BY <2>1
  <2>3. wanted[t] \subseteq Nat
    OBVIOUS
  <2> HIDE DEF w
  <2> QED
    BY <2>2, <2>3 DEF Next1
<1>2. w \in [A -> Nat]
  BY <1>1
<1> HIDE DEF w
<1>3. ASSUME NEW t \in A PROVE \E h \in A : w[t] < w[h]
  <2>1. PICK h \in A, x \in Next1(wanted[t]) : x \in held[h]
    OBVIOUS
  <2>2. x = w[t] /\ w[h] \in wanted[h]
    BY <1>1
  <2> QED
    BY <2>1, <2>2
<1> QED
  BY <1>2, <1>3, NoEndlessAscent

----------------------------------------------------------------------------
(* The order of the locks is kept.                                          *)

(* A step of u touches no lock of another request.                          *)
LocksOf(t) ==
  <<HeldOrders(t), HeldProducts(t), {r \in Runs : runLock[r] = t},
    {o \in Orders : t \in orderShare[o]}>>

LEMMA OthersLocks ==
  ASSUME TxInv, NEW u \in Requests, Arrive(u) \/ Serve(u), NEW t \in Requests \ {u}
  PROVE  LocksOf(t)' = LocksOf(t)
<1>t. /\ orderLock \in [Orders -> Requests \cup {Nobody}]
      /\ orderShare \in [Orders -> SUBSET Requests]
      /\ productLock \in [Products -> Requests \cup {Nobody}]
      /\ runLock \in [Runs -> Requests \cup {Nobody}]
      /\ Nobody # t
  BY TxAssumption DEF TxInv, TxTypes, LocalTypes
<1>1. CASE UNCHANGED <<orderLock, orderShare, productLock, runLock>>
  BY <1>1 DEF LocksOf, HeldOrders, HeldProducts
<1>2. CASE ReleaseAll(u)
  BY <1>t, <1>2 DEF ReleaseAll, Without, LocksOf, HeldOrders, HeldProducts
<1>3. CASE LockRun(u)
  BY <1>t, <1>3 DEF LockRun, LocksOf, HeldOrders, HeldProducts
<1>4. CASE LockOrder(u)
  BY <1>t, <1>4 DEF LockOrder, LocksOf, HeldOrders, HeldProducts
<1>5. CASE LockProduct(u)
  BY <1>t, <1>5 DEF LockProduct, LocksOf, HeldOrders, HeldProducts
<1>6. CASE ShareOrder(u)
  BY <1>t, <1>6 DEF ShareOrder, LocksOf, HeldOrders, HeldProducts
<1>7. CASE Commit(u) \/ RolledBack(u)
  <2>1. End(u)
    BY <1>7, CommitStep, RollBackStep
  <2> QED
    BY <1>2, <2>1 DEF End
<1>8. CASE Arrive(u) \/ Discover(u) \/ Check(u) \/ Verify(u) \/ Shared(u)
  <2>1. UNCHANGED lockVars
    BY <1>8 DEF Arrive, Discover, Check, Verify, Shared
  <2> QED
    BY <1>1, <2>1 DEF lockVars
<1>9. CASE Retry(u)
  BY <1>2, <1>9 DEF Retry
<1> QED
  BY <1>3, <1>4, <1>5, <1>6, <1>7, <1>8, <1>9 DEF Serve, RolledBack

LEMMA OthersStayInOrder ==
  ASSUME TxInv, NEW u \in Requests, LocalEffect(u), DataEffect(u),
         NEW t \in Requests \ {u}, LocksOf(t)' = LocksOf(t), InOrder(t)
  PROVE  InOrder(t)'
<1>1. /\ pc'[t] = pc[t] /\ req'[t] = req[t] /\ cand'[t] = cand[t]
      /\ HeldOrders(t)' = HeldOrders(t) /\ HeldProducts(t)' = HeldProducts(t)
  BY DEF LocalEffect, LocksOf
<1>2. /\ \A r \in Runs : runLock'[r] = t <=> runLock[r] = t
      /\ \A o \in Orders : t \in orderShare'[o] <=> t \in orderShare[o]
  <2>1. /\ {r \in Runs : runLock'[r] = t} = {r \in Runs : runLock[r] = t}
        /\ {o \in Orders : t \in orderShare'[o]} = {o \in Orders : t \in orderShare[o]}
    BY DEF LocksOf
  <2> QED
    BY <2>1
<1>3. pc[t] = "lockProducts" => ClosureProducts(t)' = ClosureProducts(t)
  BY OthersView DEF TxInv
<1> QED
  BY <1>1, <1>2, <1>3 DEF InOrder

(* A request that starts over or ends has given everything back.            *)
LEMMA ReleasedInOrder ==
  ASSUME TxInv, NEW t \in Requests, ReleaseAll(t)
  PROVE  InOrder(t)'
<1>1. /\ orderLock \in [Orders -> Requests \cup {Nobody}]
      /\ orderShare \in [Orders -> SUBSET Requests]
      /\ productLock \in [Products -> Requests \cup {Nobody}]
      /\ runLock \in [Runs -> Requests \cup {Nobody}]
      /\ Nobody # t
  BY TxAssumption DEF TxInv, TxTypes, LocalTypes
<1>2. /\ HeldOrders(t)' = {} /\ HeldProducts(t)' = {}
      /\ \A r \in Runs : runLock'[r] # t
      /\ \A o \in Orders : t \notin orderShare'[o]
  BY <1>1 DEF ReleaseAll, Without, HeldOrders, HeldProducts
<1> QED
  BY <1>2 DEF InOrder

LEMMA StepInOrder ==
  ASSUME TxInv, NEW t \in Requests, Arrive(t) \/ Serve(t), InOrder(t)
  PROVE  InOrder(t)'
<1>t. /\ pc \in [Requests -> PCs] /\ cand \in [Requests -> SUBSET Orders]
      /\ orderLock \in [Orders -> Requests \cup {Nobody}]
      /\ orderShare \in [Orders -> SUBSET Requests]
      /\ productLock \in [Products -> Requests \cup {Nobody}]
      /\ runLock \in [Runs -> Requests \cup {Nobody}]
      /\ req = [x \in Requests |-> req[x]]
      /\ Nobody # t /\ TxTypes /\ Entitled(t)
  BY TxAssumption DEF TxInv, TxTypes, LocalTypes
<1>1. CASE Arrive(t)
  <2>1. /\ pc[t] = "idle" /\ req[t].kind = "none"
        /\ UNCHANGED <<orderLock, orderShare, productLock, runLock>>
    BY <1>t, <1>1 DEF Arrive, lockVars, Entitled, Placed
  <2>2. /\ HeldOrders(t)' = {} /\ HeldProducts(t)' = {}
        /\ \A r \in Runs : runLock'[r] # t
        /\ \A o \in Orders : t \notin orderShare'[o]
    BY <2>1 DEF InOrder, HeldOrders, HeldProducts
  <2> QED
    BY <2>2 DEF InOrder
<1>2. CASE LockRun(t)
  <2>1. /\ pc[t] = "lockRun" /\ pc'[t] = "discover"
        /\ UNCHANGED <<orderLock, orderShare, productLock, req>>
    BY <1>t, <1>2 DEF LockRun, Goto
  <2>2. HeldOrders(t)' = {} /\ HeldProducts(t)' = {}
    BY <2>1 DEF InOrder, HeldOrders, HeldProducts
  <2> QED
    BY <2>1, <2>2 DEF InOrder
<1>3. CASE Discover(t)
  <2>1. /\ pc[t] = "discover" /\ pc'[t] \in {"lockProducts", "lockOrders"}
        /\ UNCHANGED <<orderLock, orderShare, productLock, req>>
    BY <1>t, <1>3 DEF Discover, Goto, lockVars
  <2>2. HeldOrders(t)' = {} /\ HeldProducts(t)' = {}
    BY <2>1 DEF InOrder, HeldOrders, HeldProducts
  <2> QED
    BY <2>1, <2>2 DEF InOrder
<1>4. CASE LockOrder(t)
  <2>1. PICK o \in cand[t] \ HeldOrders(t) :
          /\ \A x \in cand[t] \ HeldOrders(t) : o <= x
          /\ orderLock' = [orderLock EXCEPT ![o] = t]
    BY <1>4 DEF LockOrder
  <2>2. /\ pc[t] = "lockOrders" /\ pc'[t] \in {"lockOrders", "check", "lockProducts"}
        /\ UNCHANGED <<orderShare, productLock, runLock, req, cand>>
    BY <1>t, <1>4 DEF LockOrder, Goto
  <2>3. HeldOrders(t)' = HeldOrders(t) \cup {o}
    BY <1>t, <2>1 DEF HeldOrders
  <2>4. HeldProducts(t)' = {}
    BY <2>2 DEF InOrder, HeldProducts
  <2>5. ASSUME NEW x \in HeldOrders(t) \cup {o}, NEW y \in cand[t] \ (HeldOrders(t) \cup {o})
        PROVE  x < y
    <3>1. o \in Nat /\ y \in Nat /\ o <= y /\ o # y
      BY <1>t, <2>1, DataAssumption
    <3>2. x \in HeldOrders(t) => x < y
      BY <2>2 DEF InOrder
    <3> QED
      BY <3>1, <3>2
  <2> QED
    BY <2>2, <2>3, <2>4, <2>5 DEF InOrder
<1>5. CASE Check(t)
  <2>1. /\ pc[t] = "check" /\ pc'[t] \in {"write", "lockProducts"}
        /\ UNCHANGED <<orderLock, orderShare, productLock, runLock, req>>
    BY <1>t, <1>5 DEF Check, Goto, lockVars
  <2>2. HeldProducts(t)' = {}
    BY <2>1 DEF InOrder, HeldProducts
  <2> QED
    BY <2>1, <2>2 DEF InOrder
<1>6. CASE LockProduct(t)
  <2>1. PICK p \in ClosureProducts(t) \ HeldProducts(t) :
          /\ \A x \in ClosureProducts(t) \ HeldProducts(t) : p <= x
          /\ productLock' = [productLock EXCEPT ![p] = t]
    BY <1>6 DEF LockProduct
  <2>2. /\ pc[t] = "lockProducts" /\ pc'[t] \in {"verify", "lockProducts"}
        /\ UNCHANGED <<orderLock, orderShare, runLock, req, seen>> /\ RowsKept
    BY <1>t, <1>6 DEF LockProduct, Goto, RowsKept
  <2>3. ClosureProducts(t)' = ClosureProducts(t)
    BY <2>2, KeptViews
  <2>4. ClosureProducts(t) \subseteq Products
    BY <1>t, <2>2, ClosureType
  <2>5. HeldProducts(t)' = HeldProducts(t) \cup {p}
    BY <1>t, <2>1, <2>4 DEF HeldProducts
  <2>6. ASSUME NEW x \in HeldProducts(t) \cup {p},
               NEW y \in ClosureProducts(t) \ (HeldProducts(t) \cup {p})
        PROVE  x < y
    <3>1. p \in Nat /\ y \in Nat /\ p <= y /\ p # y
      BY <2>1, <2>4, DataAssumption
    <3>2. x \in HeldProducts(t) => x < y
      BY <2>2 DEF InOrder
    <3> QED
      BY <3>1, <3>2
  <2> QED
    BY <2>2, <2>3, <2>5, <2>6 DEF InOrder
<1>7. CASE Verify(t) \/ Shared(t)
  <2>1. /\ pc'[t] \in {"share", "write"}
        /\ UNCHANGED <<orderLock, orderShare, productLock, runLock, req>>
    BY <1>t, <1>7 DEF Verify, Shared, Goto, lockVars
  <2> QED
    BY <2>1 DEF InOrder
<1>8. CASE ShareOrder(t)
  <2>1. /\ pc'[t] = "share" /\ req'[t].kind = "Migrate"
    BY <1>t, <1>8 DEF ShareOrder, localVars, Entitled, Placed
  <2> QED
    BY <2>1 DEF InOrder
<1>9. CASE Commit(t) \/ RolledBack(t)
  <2>1. End(t)
    BY <1>9, CommitStep, RollBackStep
  <2> QED
    BY <2>1, ReleasedInOrder DEF End
<1>10. CASE Retry(t)
  BY <1>10, ReleasedInOrder DEF Retry
<1> QED
  BY <1>1, <1>2, <1>3, <1>4, <1>5, <1>6, <1>7, <1>8, <1>9, <1>10 DEF Serve, RolledBack

LEMMA OrderInvInit == TxInit => OrderInv
<1> SUFFICES ASSUME TxInit, NEW t \in Requests PROVE InOrder(t)
  BY DEF OrderInv
<1>1. /\ pc[t] = "idle" /\ Nobody # t
      /\ HeldOrders(t) = {} /\ HeldProducts(t) = {}
      /\ \A r \in Runs : runLock[r] # t
      /\ \A o \in Orders : t \notin orderShare[o]
  BY TxAssumption DEF TxInit, HeldOrders, HeldProducts
<1> QED
  BY <1>1 DEF InOrder

LEMMA OrderInvNext == TxInv /\ OrderInv /\ [TxNext]_txVars => OrderInv'
<1> SUFFICES ASSUME TxInv, OrderInv, [TxNext]_txVars, NEW t \in Requests PROVE InOrder(t)'
  BY DEF OrderInv
<1>0. InOrder(t) /\ TxTypes
  BY DEF OrderInv, TxInv
<1>1. ASSUME NEW u \in Requests, Arrive(u) \/ Serve(u) PROVE InOrder(t)'
  <2>1. CASE t = u
    BY <1>0, <1>1, <2>1, StepInOrder
  <2>2. CASE t # u
    <3>1. LocalEffect(u) /\ DataEffect(u)
      BY <1>1, StepEffect
    <3>2. LocksOf(t)' = LocksOf(t)
      BY <1>1, <2>2, OthersLocks
    <3> QED
      BY <1>0, <2>2, <3>1, <3>2, OthersStayInOrder
  <2> QED
    BY <2>1, <2>2
<1>2. CASE UNCHANGED txVars
  <2>1. /\ UNCHANGED <<pc, req, seen, cand, orderLock, orderShare, productLock, runLock>>
        /\ RowsKept
    BY <1>2 DEF txVars, lockVars, localVars, RowsKept
  <2>2. ClosureProducts(t)' = ClosureProducts(t)
    BY <2>1, KeptViews
  <2>3. HeldOrders(t)' = HeldOrders(t) /\ HeldProducts(t)' = HeldProducts(t)
    BY <2>1 DEF HeldOrders, HeldProducts
  <2> QED
    BY <1>0, <2>1, <2>2, <2>3 DEF InOrder
<1> QED
  BY <1>1, <1>2 DEF TxNext

----------------------------------------------------------------------------
(* Circles.                                                                 *)

(* Whom a waiting request of a circle without migrations waits for.         *)
LEMMA WaitsInside ==
  ASSUME TxInv, OrderInv, NEW S \in SUBSET Requests,
         \A t \in S : req[t].kind # "Migrate",
         NEW t \in S, Blockers(t) \cap S # {}
  PROVE  \/ /\ pc[t] = "lockProducts"
            /\ \E h \in S : \E p \in Next1(ClosureProducts(t) \ HeldProducts(t)) :
                 p \in HeldProducts(h)
         \/ /\ pc[t] = "lockOrders"
            /\ \E h \in S : \E o \in Next1(cand[t] \ HeldOrders(t)) : o \in HeldOrders(h)
         \/ /\ pc[t] = "lockRun"
            /\ \E h \in S : \E r \in Runs : runLock[r] = h
<1>0. /\ TxTypes /\ Entitled(t) /\ Placed(t) /\ \A x \in S : InOrder(x)
      /\ cand[t] \subseteq Orders /\ WellFormed(req[t])
  BY DEF TxInv, OrderInv, Entitled, TxTypes, LocalTypes
<1>1. PICK h \in S : h \in Blockers(t)
  OBVIOUS
<1>2. pc[t] \in {"lockProducts", "lockOrders", "lockRun"}
  <2>1. pc[t] # "share"
    BY <1>0 DEF Placed
  <2> QED
    BY <1>1, <2>1 DEF Blockers
<1>3. CASE pc[t] = "lockProducts"
  <2>1. PICK p \in Next1(ClosureProducts(t) \ HeldProducts(t)) : productLock[p] = h
    BY <1>1, <1>3 DEF Blockers
  <2>2. p \in Products
    BY <1>0, <1>3, <2>1, ClosureType DEF Next1
  <2> QED
    BY <1>3, <2>1, <2>2 DEF HeldProducts
<1>4. CASE pc[t] = "lockOrders"
  <2>1. PICK o \in Next1(cand[t] \ HeldOrders(t)) : h = orderLock[o] \/ h \in orderShare[o]
    BY <1>1, <1>4 DEF Blockers
  <2>2. o \in Orders
    BY <1>0, <2>1 DEF Next1
  <2>3. h \notin orderShare[o]
    BY <1>0, <2>2 DEF InOrder
  <2> QED
    BY <1>4, <2>1, <2>2, <2>3 DEF HeldOrders
<1>5. CASE pc[t] = "lockRun"
  <2>1. runLock[req[t].target] = h
    BY <1>1, <1>5 DEF Blockers
  <2>2. req[t].target \in Runs
    BY <1>0, <1>5 DEF Placed, WellFormed
  <2> QED
    BY <1>5, <2>1, <2>2
<1> QED
  BY <1>2, <1>3, <1>4, <1>5

LEMMA NoPlainCircle ==
  ASSUME TxInv, OrderInv, IsFiniteSet(Requests), NEW S \in SUBSET Requests,
         \A t \in S : req[t].kind # "Migrate", Deadlocked(S)
  PROVE  FALSE
<1>0. /\ IsFiniteSet(S) /\ S # {}
      /\ \A t \in S : InOrder(t) /\ Entitled(t) /\ cand[t] \subseteq Orders
      /\ TxTypes
  BY FS_Subset DEF TxInv, OrderInv, Deadlocked, TxTypes, LocalTypes
<1>1. ASSUME NEW t \in S
      PROVE  \/ /\ pc[t] = "lockProducts"
                /\ \E h \in S : \E p \in Next1(ClosureProducts(t) \ HeldProducts(t)) :
                     p \in HeldProducts(h)
             \/ /\ pc[t] = "lockOrders"
                /\ \E h \in S : \E o \in Next1(cand[t] \ HeldOrders(t)) : o \in HeldOrders(h)
             \/ /\ pc[t] = "lockRun"
                /\ \E h \in S : \E r \in Runs : runLock[r] = h
  <2>1. Blockers(t) \cap S # {}
    BY DEF Deadlocked
  <2> QED
    BY <2>1, WaitsInside
<1>2. \A t \in S : pc[t] # "lockProducts"
  <2> SUFFICES ASSUME NEW u \in S, pc[u] = "lockProducts" PROVE FALSE
    OBVIOUS
  <2> DEFINE A == {t \in S : pc[t] = "lockProducts"}
             wanted == [t \in A |-> ClosureProducts(t) \ HeldProducts(t)]
             held == [t \in A |-> HeldProducts(t)]
  <2>1. IsFiniteSet(A) /\ A # {}
    BY <1>0, FS_Subset
  <2>2. ASSUME NEW t \in A
        PROVE  /\ wanted[t] \subseteq Nat
               /\ \A x \in held[t], y \in wanted[t] : x < y
    BY <1>0, ClosureType, DataAssumption DEF InOrder
  <2>3. ASSUME NEW t \in A
        PROVE  \E h \in A : \E x \in Next1(wanted[t]) : x \in held[h]
    <3>1. PICK h \in S, p \in Next1(ClosureProducts(t) \ HeldProducts(t)) :
            p \in HeldProducts(h)
      BY <1>1
    <3>2. pc[h] = "lockProducts"
      BY <1>0, <1>1, <3>1 DEF InOrder
    <3> QED
      BY <3>1, <3>2
  <2> HIDE DEF A, wanted, held
  <2> QED
    BY <2>1, <2>2, <2>3, AscentHasNoCircle
<1>3. \A t \in S : pc[t] # "lockOrders"
  <2> SUFFICES ASSUME NEW u \in S, pc[u] = "lockOrders" PROVE FALSE
    OBVIOUS
  <2> DEFINE A == {t \in S : pc[t] = "lockOrders"}
             wanted == [t \in A |-> cand[t] \ HeldOrders(t)]
             held == [t \in A |-> HeldOrders(t)]
  <2>1. IsFiniteSet(A) /\ A # {}
    BY <1>0, FS_Subset
  <2>2. ASSUME NEW t \in A
        PROVE  /\ wanted[t] \subseteq Nat
               /\ \A x \in held[t], y \in wanted[t] : x < y
    BY <1>0, DataAssumption DEF InOrder
  <2>3. ASSUME NEW t \in A
        PROVE  \E h \in A : \E x \in Next1(wanted[t]) : x \in held[h]
    <3>1. PICK h \in S, o \in Next1(cand[t] \ HeldOrders(t)) : o \in HeldOrders(h)
      BY <1>1
    <3>2. pc[h] = "lockOrders"
      BY <1>0, <1>1, <1>2, <3>1 DEF InOrder
    <3> QED
      BY <3>1, <3>2
  <2> HIDE DEF A, wanted, held
  <2> QED
    BY <2>1, <2>2, <2>3, AscentHasNoCircle
<1>4. PICK t \in S : TRUE
  BY <1>0
<1>5. PICK h \in S, r \in Runs : runLock[r] = h
  BY <1>1, <1>2, <1>3
<1>6. pc[h] = "lockRun"
  BY <1>1, <1>2, <1>3
<1> QED
  BY <1>0, <1>5, <1>6 DEF InOrder

(* However many requests there are, whenever some wait for each other in a  *)
(* circle a migration is among them: it is the only workflow that takes     *)
(* Order rows (FOR KEY SHARE, at its inserts) after a Product row.          *)
THEOREM OnlyMigrationsDeadlock ==
  ASSUME IsFiniteSet(Requests)
  PROVE  TxSpec => []CirclesMigrate
<1>1. TxInv /\ OrderInv => CirclesMigrate
  BY NoPlainCircle DEF CirclesMigrate
<1> QED
  BY <1>1, TxInitInv, TxNextInv, OrderInvInit, OrderInvNext, PTL DEF TxSpec

(* Without migrations requests never wait for each other in a circle.       *)
THEOREM NobodyDeadlocks ==
  ASSUME IsFiniteSet(Requests), \A t \in Requests : "Migrate" \notin KindsOf[t]
  PROVE  TxSpec => []NoWaitCycle
<1> DEFINE I == TxInv /\ OrderInv /\ KindsKept
<1>1. TxInit => I
  BY TxInitInv, OrderInvInit, InitKinds
<1>2. I /\ [TxNext]_txVars => I'
  <2> SUFFICES ASSUME I, [TxNext]_txVars PROVE I'
    OBVIOUS
  <2>1. TxInv' /\ OrderInv'
    BY TxNextInv, OrderInvNext
  <2>2. KindsKept'
    <3>1. CASE TxNext
      BY <3>1, StepKinds DEF TxNext
    <3>2. CASE UNCHANGED txVars
      BY <3>2 DEF txVars, localVars, KindsKept
    <3> QED
      BY <3>1, <3>2
  <2> QED
    BY <2>1, <2>2
<1>3. I => NoWaitCycle
  <2> SUFFICES ASSUME I, NEW S \in SUBSET Requests, Deadlocked(S) PROVE FALSE
    BY DEF NoWaitCycle
  <2>1. \A t \in S : req[t].kind # "Migrate"
    BY DEF KindsKept
  <2> QED
    BY <2>1, NoPlainCircle
<1> QED
  BY <1>1, <1>2, <1>3, PTL DEF TxSpec

============================================================================
