------------------------ MODULE FulfillmentProofs ------------------------
(***************************************************************************)
(* Proofs about the atomic specification: its types, that a READY Order is *)
(* always covered, and what requirement links and runs say of each other.   *)
(* The second is inductive together with the first because every workflow   *)
(* that moves the coverage of a Product evaluates all of that Product's      *)
(* demand, and the one that evaluates nobody (Migrate) leaves the promises   *)
(* to READY Orders where they are.                                          *)
(***************************************************************************)
EXTENDS Fulfillment, TLAPS

(* A recalculation covers only lines that are demand.                       *)
LEMMA CoveringsAreDemand ==
  ASSUME NEW cv, NEW fixed, NEW demand, NEW Ps, NEW st,
         NEW c \in Coverings(cv, fixed, demand, Ps, st)
  PROVE  c \subseteq demand
  BY DEF Coverings

(* A recalculation of Ps keeps the coverage of every line of another        *)
(* Product, and of every fixed line of a Produced one.                      *)
LEMMA CoveringsKeep ==
  ASSUME NEW cv, NEW fixed, NEW demand, NEW Ps, NEW st,
         NEW c \in Coverings(cv, fixed, demand, Ps, st),
         NEW x \in cv \cap demand,
         x[2] \notin Ps \/ (x \in fixed /\ x[2] \in Produced)
  PROVE  x \in c
  BY DEF Coverings

(* Readiness evaluation answers with a status.                              *)
LEMMA EvaluatedType ==
  ASSUME NEW st \in [Orders -> Status], NEW ln, NEW cv, NEW E
  PROVE  Evaluated(st, ln, cv, E) \in [Orders -> Status]
  BY DEF Evaluated, Status, Live

(* A rebuild links Orders, whichever rows it keeps.                         *)
LEMMA RebuiltType ==
  ASSUME NEW lk \in [Keys -> SUBSET Orders], NEW st, NEW ln, NEW dt, NEW act, NEW Ps
  PROVE  Rebuilt(lk, st, ln, dt, act, Ps) \in [Keys -> SUBSET Orders]
  BY DEF Rebuilt, Demand

(* Deleting lines deletes links.                                            *)
LEMMA CascadedType ==
  ASSUME NEW lk \in [Keys -> SUBSET Orders], NEW o, NEW L
  PROVE  Cascaded(lk, o, L) \in [Keys -> SUBSET Orders]
  BY DEF Cascaded

LEMMA DemandPairsType ==
  ASSUME NEW st, NEW ln
  PROVE  DemandPairs(st, ln) \subseteq Orders \X Products
  BY DEF DemandPairs

(* The typed variables a workflow settles.                                  *)
SettledTypes ==
  /\ status' \in [Orders -> Status]
  /\ lines' \in [Orders -> SUBSET Products]
  /\ date' \in [Orders -> Dates]
  /\ covered' \subseteq Orders \X Products
  /\ link' \in [Keys -> SUBSET Orders]

LEMMA SettleTypes ==
  ASSUME NEW st \in [Orders -> Status], NEW ln \in [Orders -> SUBSET Products],
         NEW dt \in [Orders -> Dates], NEW lk \in [Keys -> SUBSET Orders],
         NEW cv, NEW Ps, NEW fixed, NEW E,
         Settle(st, ln, dt, lk, cv, Ps, fixed, E)
  PROVE  SettledTypes
<1> DEFINE act == Active(runState', runKey')
           all == ProtectedPairs(lk, act) \cup fixed
<1>1. /\ link' = Rebuilt(lk, st, ln, dt, act, Ps)
      /\ covered' \in Coverings(cv, all, DemandPairs(st, ln), Ps, stocked)
      /\ status' = Evaluated(st, ln, covered', E)
      /\ lines' = ln
      /\ date' = dt
  BY DEF Settle
<1>2. link' \in [Keys -> SUBSET Orders]
  BY <1>1, RebuiltType
<1>3. covered' \subseteq Orders \X Products
  BY <1>1, CoveringsAreDemand, DemandPairsType
<1>4. status' \in [Orders -> Status]
  BY <1>1, EvaluatedType
<1> QED
  BY <1>1, <1>2, <1>3, <1>4 DEF SettledTypes

LEMMA SettleTypeOK ==
  ASSUME TypeOK,
         NEW st \in [Orders -> Status], NEW ln \in [Orders -> SUBSET Products],
         NEW dt \in [Orders -> Dates], NEW lk \in [Keys -> SUBSET Orders],
         NEW cv, NEW Ps, NEW fixed, NEW E,
         Settle(st, ln, dt, lk, cv, Ps, fixed, E),
         UNCHANGED stocked,
         /\ runState' \in [Runs -> RunStatus]
         /\ runKey' \in [Runs -> Keys \cup {NoKey}]
         /\ \A r \in Runs : runState'[r] = "FREE" <=> runKey'[r] = NoKey
  PROVE  TypeOK'
<1>1. SettledTypes
  BY SettleTypes
<1> QED
  BY <1>1 DEF TypeOK, SettledTypes

(* What a workflow leaves READY is covered, if it evaluates all the demand   *)
(* for the Products it recalculates (E) and took the coverage it starts     *)
(* from (cv) away from nobody else.                                         *)
LEMMA SettleReady ==
  ASSUME NEW st \in [Orders -> Status], NEW ln \in [Orders -> SUBSET Products],
         NEW dt, NEW lk, NEW cv, NEW Ps, NEW fixed,
         NEW E \in Evaluations(st, ln, Ps),
         Settle(st, ln, dt, lk, cv, Ps, fixed, E),
         \A u \in Orders \ E :
           st[u] = "READY" => ln[u] # {} /\ \A p \in ln[u] : <<u, p>> \in cv
  PROVE  ReadyIsCovered'
<1> DEFINE act == Active(runState', runKey')
           all == ProtectedPairs(lk, act) \cup fixed
<1>1. /\ covered' \in Coverings(cv, all, DemandPairs(st, ln), Ps, stocked)
      /\ status' = Evaluated(st, ln, covered', E)
      /\ lines' = ln
  BY DEF Settle
<1> SUFFICES ASSUME NEW u \in Orders, status'[u] = "READY"
             PROVE  Satisfied(ln, covered', u)
  BY <1>1 DEF ReadyIsCovered
<1>2. CASE u \in E /\ st[u] \in Live
  BY <1>1, <1>2 DEF Evaluated
<1>3. CASE u \in E /\ st[u] \notin Live
  BY <1>1, <1>3 DEF Evaluated, Live
<1>4. CASE u \notin E
  <2>1. st[u] = "READY" /\ u \in Orders \ E
    BY <1>1, <1>4 DEF Evaluated
  <2>2. ln[u] # {} /\ \A p \in ln[u] : <<u, p>> \in cv
    BY <2>1
  <2>3. ASSUME NEW p \in ln[u]
        PROVE  <<u, p>> \in covered'
    <3>1. p \in Products
      OBVIOUS
    <3>2. <<u, p>> \in DemandPairs(st, ln)
      BY <2>1, <3>1 DEF DemandPairs, Live
    <3>3. u \in Demand(st, ln, p)
      BY <2>1 DEF Demand, Live
    <3>4. p \notin Ps
      BY <3>3, <1>4 DEF Evaluations
    <3>5. <<u, p>>[2] \notin Ps /\ <<u, p>> \in cv \cap DemandPairs(st, ln)
      BY <2>2, <3>2, <3>4
    <3> QED
      BY <1>1, <3>5, CoveringsKeep
  <2> QED
    BY <2>2, <2>3 DEF Satisfied
<1> QED
  BY <1>2, <1>3, <1>4

----------------------------------------------------------------------------
(* The types.                                                               *)

LEMMA InitTypeOK == Init => TypeOK
<1> SUFFICES ASSUME Init PROVE TypeOK
  OBVIOUS
<1>1. status \in [Orders -> Status]
  BY DEF Init, Status
<1>2. lines \in [Orders -> SUBSET Products] /\ date \in [Orders -> Dates]
  BY PayloadAssumption DEF Init
<1>3. covered \subseteq Orders \X Products
  BY CoveringsAreDemand, DemandPairsType DEF Init
<1>4. link \in [Keys -> SUBSET Orders]
  BY RebuiltType DEF Init
<1>5. /\ runState \in [Runs -> RunStatus]
      /\ runKey \in [Runs -> Keys \cup {NoKey}]
      /\ \A r \in Runs : runState[r] = "FREE" <=> runKey[r] = NoKey
  BY DEF Init, RunStatus
<1>6. stocked \subseteq Purchased
  BY DEF Init
<1> QED
  BY <1>1, <1>2, <1>3, <1>4, <1>5, <1>6 DEF TypeOK

(* The run fields of a workflow that starts and ends no run.                *)
LEMMA RunsKept ==
  ASSUME TypeOK, UNCHANGED runVars
  PROVE  /\ runState' \in [Runs -> RunStatus]
         /\ runKey' \in [Runs -> Keys \cup {NoKey}]
         /\ \A r \in Runs : runState'[r] = "FREE" <=> runKey'[r] = NoKey
  BY DEF TypeOK, runVars

LEMMA NextTypeOK == TypeOK /\ [Next]_vars => TypeOK'
<1> SUFFICES ASSUME TypeOK, [Next]_vars PROVE TypeOK'
  OBVIOUS
<1> USE DEF TypeOK
<1>1. ASSUME NEW o \in Orders, Confirm(o) PROVE TypeOK'
  <2> DEFINE st == [status EXCEPT ![o] = "CONFIRMED"]
  <2>1. st \in [Orders -> Status]
    BY DEF Status
  <2>2. PICK E \in Evaluations(st, lines, lines[o]) :
          Settle(st, lines, date, link, covered, lines[o], ReadyPairs(st), E)
    BY <1>1 DEF Confirm
  <2>3. UNCHANGED <<runVars, stocked>>
    BY <1>1 DEF Confirm
  <2> HIDE DEF st, TypeOK
  <2>4. TypeOK
    OBVIOUS
  <2> QED
    BY <2>1, <2>2, <2>3, <2>4, RunsKept, SettleTypeOK DEF TypeOK
<1>2. ASSUME NEW o \in Orders, NEW e \in EditPayloads, EditDraft(o, e) PROVE TypeOK'
  BY <1>2, PayloadAssumption DEF EditDraft, runVars
<1>3. ASSUME NEW o \in Orders, NEW e \in EditPayloads, Edit(o, e) PROVE TypeOK'
  <2> DEFINE ln == [lines EXCEPT ![o] = e.lines]
             dt == [date EXCEPT ![o] = e.date]
             lk == Cascaded(link, o, e.lines)
             cv == covered \ ({o} \X e.resized)
             Ps == lines[o] \cup e.lines
  <2>1. ln \in [Orders -> SUBSET Products] /\ dt \in [Orders -> Dates]
    BY PayloadAssumption
  <2>2. lk \in [Keys -> SUBSET Orders]
    BY CascadedType
  <2>3. PICK E \in Evaluations(status, ln, Ps) :
          Settle(status, ln, dt, lk, cv, Ps, ReadyPairs(status), E)
    BY <1>3 DEF Edit
  <2>4. UNCHANGED <<runVars, stocked>>
    BY <1>3 DEF Edit
  <2> HIDE DEF ln, dt, lk, cv, Ps, TypeOK
  <2> QED
    BY <2>1, <2>2, <2>3, <2>4, RunsKept, SettleTypeOK DEF TypeOK
<1>4. ASSUME NEW o \in Orders, Cancel(o) PROVE TypeOK'
  <2> DEFINE st == [status EXCEPT ![o] = "CANCELED"]
  <2>1. st \in [Orders -> Status]
    BY DEF Status
  <2>2. PICK E \in Evaluations(st, lines, lines[o]) :
          Settle(st, lines, date, link, covered, lines[o], ReadyPairs(st), E)
    BY <1>4 DEF Cancel
  <2>3. UNCHANGED <<runVars, stocked>>
    BY <1>4 DEF Cancel
  <2> HIDE DEF st, TypeOK
  <2> QED
    BY <2>1, <2>2, <2>3, RunsKept, SettleTypeOK DEF TypeOK
<1>5. ASSUME NEW o \in Orders, CompleteOrder(o) PROVE TypeOK'
  <2> DEFINE st == [status EXCEPT ![o] = "COMPLETED"]
  <2>1. st \in [Orders -> Status]
    BY DEF Status
  <2>2. PICK E \in Evaluations(st, lines, lines[o]) :
          Settle(st, lines, date, link, covered, lines[o], ReadyPairs(st), E)
    BY <1>5 DEF CompleteOrder
  <2>3. UNCHANGED <<runVars, stocked>>
    BY <1>5 DEF CompleteOrder
  <2> HIDE DEF st, TypeOK
  <2> QED
    BY <2>1, <2>2, <2>3, RunsKept, SettleTypeOK DEF TypeOK
<1>6. ASSUME NEW r \in Runs, NEW k \in Keys, Start(r, k) PROVE TypeOK'
  <2>1. k # NoKey
    <3>1. PICK p \in Produced, d \in Dates : k = <<p, d>>
      BY DEF Keys
    <3>2. <<p, d>> # << >>
      OBVIOUS
    <3> QED
      BY <3>1, <3>2 DEF NoKey
  <2> QED
    BY <1>6, <2>1 DEF Start, RunStatus, orderVars
<1>7. ASSUME NEW r \in Runs, NEW outcome \in {"COMPLETED", "CANCELED"}, EndRun(r, outcome)
      PROVE  TypeOK'
  <2>1. /\ runState' = [runState EXCEPT ![r] = outcome]
        /\ runState[r] = "IN_PRODUCTION"
        /\ UNCHANGED <<runKey, stocked>>
    BY <1>7 DEF EndRun
  <2>2. PICK gained, E :
          Settle(status, lines, date, link, covered \cup gained, {runKey[r][1]},
                 ReadyPairs(status), E)
    BY <1>7 DEF EndRun
  <2>3. /\ runState' \in [Runs -> RunStatus]
        /\ runKey' \in [Runs -> Keys \cup {NoKey}]
        /\ \A q \in Runs : runState'[q] = "FREE" <=> runKey'[q] = NoKey
    BY <2>1 DEF RunStatus
  <2> HIDE DEF TypeOK
  <2> QED
    BY <2>1, <2>2, <2>3, SettleTypeOK DEF TypeOK
<1>8. ASSUME NEW p \in Products, AdjustSupply(p) PROVE TypeOK'
  <2>1. PICK E : Settle(status, lines, date, link, covered, {p}, {}, E)
    BY <1>8 DEF AdjustSupply
  <2>2. UNCHANGED <<runVars, stocked>>
    BY <1>8 DEF AdjustSupply
  <2> HIDE DEF TypeOK
  <2> QED
    BY <2>1, <2>2, RunsKept, SettleTypeOK DEF TypeOK
<1>9. ASSUME NEW p \in Products, OpenStock(p) PROVE TypeOK'
  BY <1>9 DEF OpenStock, Demand, orderVars, runVars
<1>10. ASSUME NEW p \in Products, Migrate(p) PROVE TypeOK'
  <2>1. link' \in [Keys -> SUBSET Orders]
    BY <1>10, RebuiltType DEF Migrate
  <2>2. covered' \subseteq Orders \X Products
    BY <1>10, CoveringsAreDemand, DemandPairsType DEF Migrate
  <2> QED
    BY <1>10, <2>1, <2>2 DEF Migrate, orderVars, runVars
<1>11. ASSUME UNCHANGED vars PROVE TypeOK'
  BY <1>11 DEF vars, orderVars, runVars
<1> QED
  BY <1>1, <1>2, <1>3, <1>4, <1>5, <1>6, <1>7, <1>8, <1>9, <1>10, <1>11 DEF Next

(* Every variable keeps its type, whatever the Orders, Products, dates and  *)
(* runs.                                                                    *)
THEOREM TypeCorrect == Spec => []TypeOK
<1> QED
  BY InitTypeOK, NextTypeOK, PTL DEF Spec

----------------------------------------------------------------------------
(* READY Orders are covered.                                                *)

LEMMA InitReady == Init => ReadyIsCovered
<1> SUFFICES ASSUME Init, NEW o \in Orders, status[o] = "READY"
             PROVE  Satisfied(lines, covered, o)
  BY DEF ReadyIsCovered
<1>1. status[o] = Evaluated(status, lines, covered, Orders)[o]
  BY DEF Init
<1> QED
  BY <1>1 DEF Evaluated, Live

(* A workflow that changes neither the lines of READY Orders nor what they   *)
(* start from leaves them covered.                                          *)
LEMMA NextReady == TypeOK /\ ReadyIsCovered /\ [Next]_vars => ReadyIsCovered'
<1> SUFFICES ASSUME TypeOK, ReadyIsCovered, [Next]_vars PROVE ReadyIsCovered'
  OBVIOUS
<1>0. \A u \in Orders :
        status[u] = "READY" => lines[u] # {} /\ \A p \in lines[u] : <<u, p>> \in covered
  BY DEF ReadyIsCovered, Satisfied
<1>t. /\ status \in [Orders -> Status]
      /\ lines \in [Orders -> SUBSET Products]
  BY DEF TypeOK
<1>1. ASSUME NEW o \in Orders, Confirm(o) PROVE ReadyIsCovered'
  <2> DEFINE st == [status EXCEPT ![o] = "CONFIRMED"]
  <2>1. st \in [Orders -> Status] /\ \A u \in Orders : st[u] = "READY" => status[u] = "READY"
    BY <1>t DEF Status
  <2>2. PICK E \in Evaluations(st, lines, lines[o]) :
          Settle(st, lines, date, link, covered, lines[o], ReadyPairs(st), E)
    BY <1>1 DEF Confirm
  <2>3. \A u \in Orders \ E :
          st[u] = "READY" => lines[u] # {} /\ \A p \in lines[u] : <<u, p>> \in covered
    BY <1>0, <2>1
  <2> HIDE DEF st
  <2> QED
    BY <1>t, <2>1, <2>2, <2>3, SettleReady
<1>2. ASSUME NEW o \in Orders, NEW e \in EditPayloads, EditDraft(o, e) PROVE ReadyIsCovered'
  <2>1. \A u \in Orders : status[u] = "READY" => lines'[u] = lines[u]
    BY <1>2, <1>t DEF EditDraft
  <2> QED
    BY <1>2, <2>1 DEF EditDraft, ReadyIsCovered, Satisfied
<1>3. ASSUME NEW o \in Orders, NEW e \in EditPayloads, Edit(o, e) PROVE ReadyIsCovered'
  <2> DEFINE ln == [lines EXCEPT ![o] = e.lines]
             dt == [date EXCEPT ![o] = e.date]
             lk == Cascaded(link, o, e.lines)
             cv == covered \ ({o} \X e.resized)
             Ps == lines[o] \cup e.lines
  <2>1. PICK E \in Evaluations(status, ln, Ps) :
          Settle(status, ln, dt, lk, cv, Ps, ReadyPairs(status), E)
    BY <1>3 DEF Edit
  <2>2. ln \in [Orders -> SUBSET Products]
    BY <1>t, PayloadAssumption
  <2>3. ASSUME NEW u \in Orders, status[u] = "READY"
        PROVE  ln[u] # {} /\ \A p \in ln[u] : <<u, p>> \in cv
    <3>1. u # o
      BY <1>3, <2>3 DEF Edit
    <3>2. ln[u] = lines[u]
      BY <1>t, <3>1
    <3> QED
      BY <1>0, <2>3, <3>1, <3>2
  <2>4. \A u \in Orders \ E : status[u] = "READY" => ln[u] # {} /\ \A p \in ln[u] : <<u, p>> \in cv
    BY <2>3
  <2> HIDE DEF ln, dt, lk, cv, Ps
  <2>5. status \in [Orders -> Status]
    BY <1>t
  <2> QED
    BY <2>1, <2>2, <2>4, <2>5, SettleReady
<1>4. ASSUME NEW o \in Orders, Cancel(o) PROVE ReadyIsCovered'
  <2> DEFINE st == [status EXCEPT ![o] = "CANCELED"]
  <2>0. status \in [Orders -> Status]
    BY <1>t
  <2>1. st \in [Orders -> Status] /\ \A u \in Orders : st[u] = "READY" => status[u] = "READY"
    BY <2>0 DEF Status
  <2>2. PICK E \in Evaluations(st, lines, lines[o]) :
          Settle(st, lines, date, link, covered, lines[o], ReadyPairs(st), E)
    BY <1>4 DEF Cancel
  <2>3. \A u \in Orders \ E :
          st[u] = "READY" => lines[u] # {} /\ \A p \in lines[u] : <<u, p>> \in covered
    BY <1>0, <2>1
  <2> HIDE DEF st
  <2> QED
    BY <1>t, <2>1, <2>2, <2>3, SettleReady
<1>5. ASSUME NEW o \in Orders, CompleteOrder(o) PROVE ReadyIsCovered'
  <2> DEFINE st == [status EXCEPT ![o] = "COMPLETED"]
  <2>1. st \in [Orders -> Status] /\ \A u \in Orders : st[u] = "READY" => status[u] = "READY"
    BY <1>t DEF Status
  <2>2. PICK E \in Evaluations(st, lines, lines[o]) :
          Settle(st, lines, date, link, covered, lines[o], ReadyPairs(st), E)
    BY <1>5 DEF CompleteOrder
  <2>3. \A u \in Orders \ E :
          st[u] = "READY" => lines[u] # {} /\ \A p \in lines[u] : <<u, p>> \in covered
    BY <1>0, <2>1
  <2> HIDE DEF st
  <2> QED
    BY <1>t, <2>1, <2>2, <2>3, SettleReady
<1>6. ASSUME NEW r \in Runs, NEW k \in Keys, Start(r, k) PROVE ReadyIsCovered'
  BY <1>6 DEF Start, orderVars, ReadyIsCovered, Satisfied
<1>7. ASSUME NEW r \in Runs, NEW outcome \in {"COMPLETED", "CANCELED"}, EndRun(r, outcome)
      PROVE  ReadyIsCovered'
  <2> DEFINE p == runKey[r][1]
  <2>1. PICK gained \in SUBSET (Demand(status, lines, p) \X {p}),
             E \in Evaluations(status, lines, {p}) :
          Settle(status, lines, date, link, covered \cup gained, {p}, ReadyPairs(status), E)
    BY <1>7 DEF EndRun
  <2>2. \A u \in Orders : status[u] = "READY" =>
          lines[u] # {} /\ \A q \in lines[u] : <<u, q>> \in covered \cup gained
    BY <1>0
  <2> HIDE DEF p
  <2> QED
    BY <1>t, <2>1, <2>2, SettleReady
<1>8. ASSUME NEW p \in Products, AdjustSupply(p) PROVE ReadyIsCovered'
  <2>1. PICK E \in Evaluations(status, lines, {p}) :
          Settle(status, lines, date, link, covered, {p}, {}, E)
    BY <1>8 DEF AdjustSupply
  <2> QED
    BY <1>0, <1>t, <2>1, SettleReady
<1>9. ASSUME NEW p \in Products, OpenStock(p) PROVE ReadyIsCovered'
  BY <1>9 DEF OpenStock, orderVars, ReadyIsCovered, Satisfied
<1>10. ASSUME NEW p \in Products, Migrate(p) PROVE ReadyIsCovered'
  <2> DEFINE fixed == ReadyPairs(status) \cup ProtectedPairs(link, Activity)
  <2>1. covered' \in Coverings(covered, fixed, DemandPairs(status, lines), {p}, stocked)
    BY <1>10 DEF Migrate
  <2>2. p \in Produced /\ UNCHANGED orderVars
    BY <1>10 DEF Migrate
  <2>3. ASSUME NEW u \in Orders, status[u] = "READY", NEW q \in lines[u]
        PROVE  <<u, q>> \in covered'
    <3>1. <<u, q>> \in Orders \X Products /\ <<u, q>> \in covered
      BY <1>0, <1>t, <2>3
    <3>2. <<u, q>> \in covered \cap DemandPairs(status, lines)
      BY <2>3, <3>1 DEF DemandPairs, Live
    <3>3. <<u, q>> \in fixed
      BY <2>3, <3>1 DEF ReadyPairs
    <3>4. <<u, q>>[2] \notin {p} \/ (<<u, q>> \in fixed /\ <<u, q>>[2] \in Produced)
      BY <2>2, <3>3
    <3> HIDE DEF fixed
    <3> QED
      BY <2>1, <3>2, <3>4, CoveringsKeep
  <2> QED
    BY <1>0, <2>2, <2>3 DEF ReadyIsCovered, Satisfied, orderVars
<1>11. ASSUME UNCHANGED vars PROVE ReadyIsCovered'
  BY <1>11 DEF vars, orderVars, ReadyIsCovered, Satisfied
<1> QED
  BY <1>1, <1>2, <1>3, <1>4, <1>5, <1>6, <1>7, <1>8, <1>9, <1>10, <1>11 DEF Next

(* A READY Order has every line satisfied in every reachable state, however *)
(* many Orders compete for the same Products.                               *)
THEOREM ReadyStaysCovered == Spec => []ReadyIsCovered
<1> QED
  BY InitTypeOK, NextTypeOK, InitReady, NextReady, PTL DEF Spec
----------------------------------------------------------------------------
(* Runs in production.                                                      *)

LEMMA InitOneRun == Init => OneActiveRunPerRequirement
BY DEF Init, OneActiveRunPerRequirement, RunStatus

(* Only Start puts a run into production, for a requirement that has none.  *)
LEMMA NextOneRun ==
  TypeOK /\ OneActiveRunPerRequirement /\ [Next]_vars => OneActiveRunPerRequirement'
<1> SUFFICES ASSUME TypeOK, OneActiveRunPerRequirement, [Next]_vars
             PROVE  OneActiveRunPerRequirement'
  OBVIOUS
<1>t. runState \in [Runs -> RunStatus] /\ runKey \in [Runs -> Keys \cup {NoKey}]
  BY DEF TypeOK
<1>1. ASSUME NEW r \in Runs, NEW k \in Keys, Start(r, k) PROVE OneActiveRunPerRequirement'
  <2>1. \A q \in Runs : runState[q] = "IN_PRODUCTION" => runKey[q] # k
    BY <1>1 DEF Start, Activity, Active
  <2>2. \A q \in Runs \ {r} : runState'[q] = runState[q] /\ runKey'[q] = runKey[q]
    BY <1>1, <1>t DEF Start
  <2>3. runKey'[r] = k
    BY <1>1, <1>t DEF Start
  <2> QED
    BY <2>1, <2>2, <2>3 DEF OneActiveRunPerRequirement
<1>2. ASSUME NEW r \in Runs, NEW outcome \in {"COMPLETED", "CANCELED"}, EndRun(r, outcome)
      PROVE  OneActiveRunPerRequirement'
  <2>1. \A q \in Runs : runState'[q] = "IN_PRODUCTION" => runState[q] = "IN_PRODUCTION"
    BY <1>2, <1>t DEF EndRun
  <2>2. runKey' = runKey
    BY <1>2 DEF EndRun
  <2> QED
    BY <2>1, <2>2 DEF OneActiveRunPerRequirement
<1>3. ASSUME UNCHANGED runVars PROVE OneActiveRunPerRequirement'
  BY <1>3 DEF runVars, OneActiveRunPerRequirement
<1>4. CASE UNCHANGED vars
  BY <1>3, <1>4 DEF vars
<1>5. ASSUME NEW o \in Orders,
             \/ Confirm(o) \/ Cancel(o) \/ CompleteOrder(o)
             \/ \E e \in EditPayloads : EditDraft(o, e) \/ Edit(o, e)
      PROVE  UNCHANGED runVars
  BY <1>5 DEF Confirm, Cancel, CompleteOrder, EditDraft, Edit
<1>6. ASSUME NEW p \in Products, AdjustSupply(p) \/ OpenStock(p) \/ Migrate(p)
      PROVE  UNCHANGED runVars
  BY <1>6 DEF AdjustSupply, OpenStock, Migrate
<1> QED
  BY <1>1, <1>2, <1>3, <1>4, <1>5, <1>6 DEF Next

(* No two runs in production share a source requirement (the re-check under *)
(* the Product lock in start_production).                                   *)
THEOREM OneRunPerRequirement == Spec => []OneActiveRunPerRequirement
<1> QED
  BY InitTypeOK, NextTypeOK, InitOneRun, NextOneRun, PTL DEF Spec

----------------------------------------------------------------------------
(* Requirement links: outside production they mirror the live demand, in    *)
(* production no demand of the same Product and date is left unprotected,   *)
(* and no Order is completed under a run.  The three are inductive together *)
(* with the fact that a link belongs to a line of an Order that has left    *)
(* the draft stage: it is why a workflow that rebuilds the links of an      *)
(* Order's own lines has rebuilt every link its change can invalidate.      *)

(* A link names an Order that has the line and is no draft.                 *)
LinkedAreLines ==
  \A k \in Keys : \A o \in link[k] : k[1] \in lines[o] /\ status[o] # "DRAFT"

LinkInv ==
  /\ LinkedAreLines
  /\ LinksMirrorDemand
  /\ NoUnprotectedDemandOnActiveKey
  /\ NoCompletionUnderRun

(* The links a recalculation gives an unprotected requirement.              *)
Mirror(lk, st, ln, dt, act, k) ==
  {o \in Demand(st, ln, k[1]) : dt[o] = k[2] /\ <<o, k[1]>> \notin ProtectedPairs(lk, act)}

LEMMA KeyIsPair ==
  ASSUME NEW k \in Keys
  PROVE  k[1] \in Products /\ k = <<k[1], k[2]>>
  BY DEF Keys, Produced

LEMMA ActivityIsKeys == TypeOK => Activity \subseteq Keys
<1> SUFFICES ASSUME TypeOK, NEW k \in Activity PROVE k \in Keys
  OBVIOUS
<1>1. PICK r \in Runs : runState[r] = "IN_PRODUCTION" /\ k = runKey[r]
  BY DEF Activity, Active
<1>2. runKey[r] # NoKey
  BY <1>1 DEF TypeOK
<1> QED
  BY <1>1, <1>2 DEF TypeOK

(* Protection, requirement by requirement.                                  *)
LEMMA Protection ==
  ASSUME NEW lk, NEW act \in SUBSET Keys, NEW o \in Orders, NEW p \in Products
  PROVE  <<o, p>> \in ProtectedPairs(lk, act) <=> \E j \in act : j[1] = p /\ o \in lk[j]
  BY DEF ProtectedPairs

(* The listed form of the active-key invariant, in terms of protection.     *)
LEMMA ActiveKeyProtection ==
  ASSUME Activity \subseteq Keys
  PROVE  NoUnprotectedDemandOnActiveKey <=>
           \A k \in Activity : \A o \in Demand(status, lines, k[1]) :
             date[o] = k[2] => <<o, k[1]>> \in ProtectedPairs(link, Activity)
<1>1. ASSUME NEW k \in Activity, NEW o \in Demand(status, lines, k[1])
      PROVE  <<o, k[1]>> \in ProtectedPairs(link, Activity)
               <=> \E j \in Activity : j[1] = k[1] /\ o \in link[j]
  <2>1. k[1] \in Products /\ o \in Orders
    BY KeyIsPair DEF Demand
  <2> QED
    BY <2>1, Protection
<1> QED
  BY <1>1 DEF NoUnprotectedDemandOnActiveKey

(* What a recalculation of Ps takes over without looking at it: the links    *)
(* outside Ps, and those of the protected requirements.                     *)
Carried(st, ln, dt, lk, Ps) ==
  /\ \A k \in Keys \ Activity' : k[1] \notin Ps =>
       lk[k] = Mirror(lk, st, ln, dt, Activity', k)
  /\ \A k \in Activity' : k[1] \notin Ps =>
       \A u \in Demand(st, ln, k[1]) :
         dt[u] = k[2] => <<u, k[1]>> \in ProtectedPairs(lk, Activity')
  /\ \A k \in Activity' : \A u \in lk[k] :
       k[1] \in ln[u] /\ st[u] \notin {"DRAFT", "COMPLETED"}

(* Readiness evaluation moves Orders between the two live statuses only.    *)
SameDemand(st) ==
  \A u \in Orders : /\ status'[u] \in Live <=> st[u] \in Live
                    /\ status'[u] \notin Live => status'[u] = st[u]

(* A rebuild of Ps that did not collide restores all four facts, if they     *)
(* held of the links it started from (lk) outside Ps, and of the protected  *)
(* ones, with the new rows (st, ln, dt).                                    *)
LEMMA RebuildLinks ==
  ASSUME NEW st, NEW ln, NEW dt, NEW lk \in [Keys -> SUBSET Orders], NEW Ps,
         Activity' \subseteq Keys,
         link' = Rebuilt(lk, st, ln, dt, Activity', Ps),
         ~Collides(st, ln, dt, lk, Activity', Ps),
         lines' = ln,
         date' = dt,
         SameDemand(st),
         Carried(st, ln, dt, lk, Ps)
  PROVE  LinkInv'
<1> USE DEF Carried, SameDemand
<1>1. ProtectedPairs(link', Activity') = ProtectedPairs(lk, Activity')
  BY DEF Rebuilt, ProtectedPairs
<1>2. \A p : Demand(status', lines', p) = Demand(st, ln, p)
  BY DEF Demand
<1>3. \A k \in Keys \ Activity' : link'[k] = Mirror(lk, st, ln, dt, Activity', k)
  BY DEF Rebuilt, Mirror
<1>4. \A k \in Activity' : link'[k] = lk[k]
  BY DEF Rebuilt
<1>5. LinksMirrorDemand'
  <2> SUFFICES ASSUME NEW k \in Keys \ Activity'
               PROVE  link'[k] = {o \in Demand(status', lines', k[1]) :
                         date'[o] = k[2] /\ <<o, k[1]>> \notin ProtectedPairs(link', Activity')}
    BY DEF LinksMirrorDemand
  <2> QED
    BY <1>1, <1>2, <1>3 DEF Mirror
<1>6. \A k \in Activity' : \A o \in Demand(status', lines', k[1]) :
        date'[o] = k[2] => <<o, k[1]>> \in ProtectedPairs(link', Activity')
  <2> SUFFICES ASSUME NEW k \in Activity', NEW o \in Demand(st, ln, k[1]), dt[o] = k[2]
               PROVE  <<o, k[1]>> \in ProtectedPairs(lk, Activity')
    BY <1>1, <1>2
  <2>1. CASE k[1] \in Ps
    <3>1. k[1] \in Products /\ k = <<k[1], k[2]>>
      BY KeyIsPair
    <3>2. <<o, k[1]>> \in DemandPairs(st, ln)
      BY <3>1 DEF Demand, DemandPairs
    <3> QED
      BY <2>1, <3>1, <3>2 DEF Collides
  <2>2. CASE k[1] \notin Ps
    BY <2>2
  <2> QED
    BY <2>1, <2>2
<1>7. NoUnprotectedDemandOnActiveKey'
  <2>1. \A k \in Activity' : \A o \in Demand(status', lines', k[1]) :
          <<o, k[1]>> \in ProtectedPairs(link', Activity')
            => \E j \in Activity' : j[1] = k[1] /\ o \in link'[j]
    BY DEF ProtectedPairs
  <2> QED
    BY <1>6, <2>1 DEF NoUnprotectedDemandOnActiveKey
<1>8. LinkedAreLines'
  <2> SUFFICES ASSUME NEW k \in Keys, NEW u \in link'[k]
               PROVE  k[1] \in ln[u] /\ status'[u] # "DRAFT"
    BY DEF LinkedAreLines
  <2>1. CASE k \in Activity'
    <3>1. u \in lk[k] /\ u \in Orders
      BY <1>4, <2>1
    <3> QED
      BY <2>1, <3>1 DEF Live
  <2>2. CASE k \notin Activity'
    <3>1. u \in Demand(st, ln, k[1])
      BY <1>3, <2>2 DEF Mirror
    <3> QED
      BY <3>1 DEF Demand, Live
  <2> QED
    BY <2>1, <2>2
<1>9. NoCompletionUnderRun'
  <2> SUFFICES ASSUME NEW k \in Activity', NEW u \in link'[k]
               PROVE  status'[u] # "COMPLETED"
    BY DEF NoCompletionUnderRun
  <2>1. u \in lk[k] /\ u \in Orders /\ k \in Keys
    BY <1>4
  <2> QED
    BY <2>1 DEF Live
<1> QED
  BY <1>5, <1>7, <1>8, <1>9 DEF LinkInv

(* The same for the end of a workflow.                                      *)
LEMMA SettleLinks ==
  ASSUME NEW st, NEW ln, NEW dt,
         NEW lk \in [Keys -> SUBSET Orders], NEW cv, NEW Ps, NEW fixed, NEW E,
         Activity' \subseteq Keys,
         Settle(st, ln, dt, lk, cv, Ps, fixed, E),
         Carried(st, ln, dt, lk, Ps)
  PROVE  LinkInv'
<1>1. /\ link' = Rebuilt(lk, st, ln, dt, Activity', Ps)
      /\ ~Collides(st, ln, dt, lk, Activity', Ps)
      /\ lines' = ln
      /\ date' = dt
      /\ status' = Evaluated(st, ln, covered', E)
  BY DEF Settle, Activity
<1>2. SameDemand(st)
  BY <1>1 DEF Evaluated, Live, SameDemand
<1> QED
  BY <1>1, <1>2, RebuildLinks

----------------------------------------------------------------------------
LEMMA InitLinks == Init => LinkInv
<1> SUFFICES ASSUME Init PROVE LinkInv
  OBVIOUS
<1>t. TypeOK
  BY InitTypeOK
<1>a. Activity \subseteq Keys
  BY <1>t, ActivityIsKeys
<1>1. \A k \in Keys : link[k] = {o \in Demand(status, lines, k[1]) : date[o] = k[2]}
  <2>1. \A x : x \notin ProtectedPairs([k \in Keys |-> {}], {})
    BY DEF ProtectedPairs
  <2>2. link = Rebuilt([k \in Keys |-> {}], status, lines, date, {}, Products)
    BY DEF Init
  <2>3. \A k \in Keys : k[1] \in Products
    BY KeyIsPair
  <2> QED
    BY <2>1, <2>2, <2>3 DEF Rebuilt
<1>2. ASSUME NEW k \in Keys, NEW j \in Keys, j[1] = k[1], NEW o, o \in link[j], o \in link[k]
      PROVE  j = k
  <2>1. date[o] = j[2] /\ date[o] = k[2]
    BY <1>1, <1>2
  <2> QED
    BY <1>2, <2>1, KeyIsPair
<1>3. LinksMirrorDemand
  <2> SUFFICES ASSUME NEW k \in Keys \ Activity, NEW o \in link[k]
               PROVE  <<o, k[1]>> \notin ProtectedPairs(link, Activity)
    BY <1>1 DEF LinksMirrorDemand
  <2> SUFFICES ASSUME NEW j \in Activity, j[1] = k[1], o \in link[j] PROVE FALSE
    BY DEF ProtectedPairs
  <2> QED
    BY <1>a, <1>2
<1>4. NoUnprotectedDemandOnActiveKey
  BY <1>1, <1>a DEF NoUnprotectedDemandOnActiveKey
<1>5. LinkedAreLines
  BY <1>1 DEF LinkedAreLines, Demand, Live
<1>6. NoCompletionUnderRun
  BY <1>1, <1>a DEF NoCompletionUnderRun, Demand, Live
<1> QED
  BY <1>3, <1>4, <1>5, <1>6 DEF LinkInv

(* What the invariant says outside Ps carries over to a workflow that        *)
(* changes no demand for, no link of and no run of another Product.         *)
LEMMA CarriedFromInv ==
  ASSUME TypeOK, LinkInv, NEW st, NEW ln, NEW dt, NEW lk \in [Keys -> SUBSET Orders], NEW Ps,
         Activity' \subseteq Activity,
         \A k \in Keys : k[1] \notin Ps =>
           /\ k \in Activity => k \in Activity'
           /\ lk[k] = link[k]
           /\ Demand(st, ln, k[1]) = Demand(status, lines, k[1])
           /\ \A u \in Demand(status, lines, k[1]) : dt[u] = date[u],
         \A k \in Activity' : \A u \in lk[k] :
           u \in link[k] /\ k[1] \in ln[u] /\ st[u] \notin {"DRAFT", "COMPLETED"}
  PROVE  Carried(st, ln, dt, lk, Ps)
<1>a. Activity \subseteq Keys
  BY ActivityIsKeys
<1>1. ASSUME NEW k \in Keys, k[1] \notin Ps, NEW u \in Orders
      PROVE  <<u, k[1]>> \in ProtectedPairs(lk, Activity')
               <=> <<u, k[1]>> \in ProtectedPairs(link, Activity)
  <2>1. k[1] \in Products
    BY KeyIsPair
  <2>2. \A j \in Keys : j[1] = k[1] => lk[j] = link[j] /\ (j \in Activity <=> j \in Activity')
    BY <1>1
  <2> QED
    BY <1>a, <2>1, <2>2, Protection
<1>2. ASSUME NEW k \in Keys \ Activity', k[1] \notin Ps
      PROVE  lk[k] = Mirror(lk, st, ln, dt, Activity', k)
  <2>1. link[k] = Mirror(link, status, lines, date, Activity, k)
    BY <1>2 DEF LinkInv, LinksMirrorDemand, Mirror
  <2>2. Mirror(link, status, lines, date, Activity, k) = Mirror(lk, st, ln, dt, Activity', k)
    BY <1>1, <1>2 DEF Mirror, Demand
  <2> QED
    BY <1>2, <2>1, <2>2
<1>3. ASSUME NEW k \in Activity', k[1] \notin Ps, NEW u \in Demand(st, ln, k[1]), dt[u] = k[2]
      PROVE  <<u, k[1]>> \in ProtectedPairs(lk, Activity')
  <2>1. k \in Keys /\ k \in Activity
    BY <1>a
  <2>2. u \in Demand(status, lines, k[1]) /\ date[u] = k[2] /\ u \in Orders
    BY <1>3, <2>1 DEF Demand
  <2>3. <<u, k[1]>> \in ProtectedPairs(link, Activity)
    BY <1>a, <2>1, <2>2, ActiveKeyProtection DEF LinkInv
  <2> QED
    BY <1>1, <1>3, <2>1, <2>2, <2>3
<1> QED
  BY <1>2, <1>3 DEF Carried

(* A workflow that moves one Order o to the status s and recalculates the    *)
(* Products of its lines.                                                   *)
LEMMA StatusLinks ==
  ASSUME TypeOK, LinkInv, NEW o \in Orders, NEW s \in Status \ {"DRAFT"},
         NEW fixed, NEW E,
         s = "COMPLETED" => \A p \in lines[o] : <<o, p>> \notin ProtectedPairs(link, Activity),
         UNCHANGED runVars,
         Settle([status EXCEPT ![o] = s], lines, date, link, covered, lines[o], fixed, E)
  PROVE  LinkInv'
<1> DEFINE st == [status EXCEPT ![o] = s]
<1>t. /\ st \in [Orders -> Status]
      /\ link \in [Keys -> SUBSET Orders]
      /\ lines \in [Orders -> SUBSET Products]
  BY DEF TypeOK
<1>a. Activity' = Activity /\ Activity \subseteq Keys
  BY ActivityIsKeys DEF Activity, Active, runVars
<1>1. \A k \in Keys : k[1] \notin lines[o] =>
        Demand(st, lines, k[1]) = Demand(status, lines, k[1])
  <2>1. \A u \in Orders : u # o => st[u] = status[u]
    BY DEF TypeOK
  <2> QED
    BY <2>1 DEF Demand
<1>2. ASSUME NEW k \in Activity, NEW u \in link[k]
      PROVE  k[1] \in lines[u] /\ st[u] \notin {"DRAFT", "COMPLETED"}
  <2>1. /\ k \in Keys /\ u \in Orders
        /\ k[1] \in lines[u] /\ status[u] \notin {"DRAFT", "COMPLETED"}
    BY <1>a, <1>t DEF LinkInv, LinkedAreLines, NoCompletionUnderRun
  <2>2. CASE u = o
    <3>1. k[1] \in Products
      BY <2>1, KeyIsPair
    <3>2. <<o, k[1]>> \in ProtectedPairs(link, Activity)
      BY <1>a, <2>2, <3>1, Protection
    <3>3. st[u] = s
      BY <2>2 DEF TypeOK
    <3> QED
      BY <2>1, <2>2, <3>2, <3>3
  <2>3. CASE u # o
    BY <2>1, <2>3 DEF TypeOK
  <2> QED
    BY <2>2, <2>3
<1>3. Settle(st, lines, date, link, covered, lines[o], fixed, E)
  OBVIOUS
<1> HIDE DEF st
<1>4. Carried(st, lines, date, link, lines[o])
  BY <1>t, <1>a, <1>1, <1>2, CarriedFromInv
<1> QED
  BY <1>t, <1>a, <1>3, <1>4, SettleLinks

(* A workflow that changes no Order row but recalculates Ps.                *)
LEMMA CarriedUnchanged ==
  ASSUME TypeOK, LinkInv, NEW Ps, Activity' \subseteq Activity,
         \A k \in Activity : k[1] \notin Ps => k \in Activity'
  PROVE  Carried(status, lines, date, link, Ps)
<1>t. link \in [Keys -> SUBSET Orders] /\ status \in [Orders -> Status]
  BY DEF TypeOK
<1>a. Activity \subseteq Keys
  BY ActivityIsKeys
<1>1. ASSUME NEW k \in Activity', NEW u \in link[k]
      PROVE  k[1] \in lines[u] /\ status[u] \notin {"DRAFT", "COMPLETED"}
  BY <1>a DEF LinkInv, LinkedAreLines, NoCompletionUnderRun
<1> QED
  BY <1>t, <1>1, CarriedFromInv

----------------------------------------------------------------------------
LEMMA NextLinks == TypeOK /\ LinkInv /\ [Next]_vars => LinkInv'
<1> SUFFICES ASSUME TypeOK, LinkInv, [Next]_vars PROVE LinkInv'
  OBVIOUS
<1>t. /\ status \in [Orders -> Status]
      /\ lines \in [Orders -> SUBSET Products]
      /\ date \in [Orders -> Dates]
      /\ link \in [Keys -> SUBSET Orders]
      /\ runState \in [Runs -> RunStatus]
      /\ runKey \in [Runs -> Keys \cup {NoKey}]
  BY DEF TypeOK
<1>a. Activity \subseteq Keys
  BY ActivityIsKeys
<1>1. ASSUME NEW o \in Orders, Confirm(o) PROVE LinkInv'
  <2>1. PICK E : Settle([status EXCEPT ![o] = "CONFIRMED"], lines, date, link, covered, lines[o],
                        ReadyPairs([status EXCEPT ![o] = "CONFIRMED"]), E)
    BY <1>1 DEF Confirm
  <2>2. UNCHANGED runVars /\ "CONFIRMED" \in Status \ {"DRAFT"}
    BY <1>1 DEF Confirm, Status
  <2> QED
    BY <2>1, <2>2, StatusLinks
<1>2. ASSUME NEW o \in Orders, NEW e \in EditPayloads, EditDraft(o, e) PROVE LinkInv'
  <2>1. /\ status[o] = "DRAFT"
        /\ \A u \in Orders \ {o} : lines'[u] = lines[u] /\ date'[u] = date[u]
        /\ UNCHANGED <<status, link, runVars>>
    BY <1>2, <1>t DEF EditDraft
  <2>2. Activity' = Activity
    BY <2>1 DEF Activity, Active, runVars
  <2>3. \A p : Demand(status, lines', p) = Demand(status, lines, p)
    BY <2>1 DEF Demand, Live
  <2>4. \A p : \A u \in Demand(status, lines, p) : date'[u] = date[u]
    BY <2>1 DEF Demand, Live
  <2>5. LinkedAreLines'
    <3> SUFFICES ASSUME NEW k \in Keys, NEW u \in link[k]
                 PROVE  k[1] \in lines'[u] /\ status[u] # "DRAFT"
      BY <2>1 DEF LinkedAreLines
    <3>1. k[1] \in lines[u] /\ status[u] # "DRAFT" /\ u \in Orders
      BY <1>t DEF LinkInv, LinkedAreLines
    <3> QED
      BY <2>1, <3>1
  <2>6. LinksMirrorDemand'
    <3> SUFFICES ASSUME NEW k \in Keys \ Activity
                 PROVE  link[k] = {u \in Demand(status, lines', k[1]) :
                          date'[u] = k[2] /\ <<u, k[1]>> \notin ProtectedPairs(link, Activity)}
      BY <2>1, <2>2 DEF LinksMirrorDemand
    <3> QED
      BY <2>3, <2>4 DEF LinkInv, LinksMirrorDemand
  <2>7. NoUnprotectedDemandOnActiveKey'
    BY <2>1, <2>2, <2>3, <2>4 DEF LinkInv, NoUnprotectedDemandOnActiveKey
  <2>8. NoCompletionUnderRun'
    BY <2>1, <2>2 DEF LinkInv, NoCompletionUnderRun
  <2> QED
    BY <2>5, <2>6, <2>7, <2>8 DEF LinkInv
<1>3. ASSUME NEW o \in Orders, NEW e \in EditPayloads, Edit(o, e) PROVE LinkInv'
  <2> DEFINE ln == [lines EXCEPT ![o] = e.lines]
             dt == [date EXCEPT ![o] = e.date]
             lk == Cascaded(link, o, e.lines)
             cv == covered \ ({o} \X e.resized)
             Ps == lines[o] \cup e.lines
  <2>1. PICK E : Settle(status, ln, dt, lk, cv, Ps, ReadyPairs(status), E)
    BY <1>3 DEF Edit
  <2>2. Activity' = Activity
    BY <1>3 DEF Edit, Activity, Active, runVars
  <2>3. lk \in [Keys -> SUBSET Orders]
    BY <1>t, CascadedType
  <2>4. \A u \in Orders : u # o => ln[u] = lines[u] /\ dt[u] = date[u]
    BY <1>t
  <2>5. ln[o] = e.lines
    BY <1>t
  <2>6. ASSUME NEW k \in Keys, k[1] \notin Ps
        PROVE  /\ lk[k] = link[k]
               /\ Demand(status, ln, k[1]) = Demand(status, lines, k[1])
               /\ \A u \in Demand(status, lines, k[1]) : dt[u] = date[u]
    <3>1. o \notin link[k]
      BY <2>6 DEF LinkInv, LinkedAreLines
    <3>2. lk[k] = link[k]
      BY <2>6, <3>1, <1>t DEF Cascaded
    <3>3. Demand(status, ln, k[1]) = Demand(status, lines, k[1])
      BY <2>4, <2>5, <2>6 DEF Demand
    <3>4. \A u \in Demand(status, lines, k[1]) : dt[u] = date[u]
      BY <2>4, <2>6 DEF Demand
    <3> QED
      BY <3>2, <3>3, <3>4
  <2>7. ASSUME NEW k \in Activity, NEW u \in lk[k]
        PROVE  u \in link[k] /\ k[1] \in ln[u] /\ status[u] \notin {"DRAFT", "COMPLETED"}
    <3>1. u \in link[k] /\ (u = o => k[1] \in e.lines) /\ k \in Keys /\ u \in Orders
      BY <1>a, <1>t, <2>7 DEF Cascaded
    <3>2. k[1] \in lines[u] /\ status[u] \notin {"DRAFT", "COMPLETED"}
      BY <3>1 DEF LinkInv, LinkedAreLines, NoCompletionUnderRun
    <3> QED
      BY <2>4, <2>5, <3>1, <3>2
  <2> HIDE DEF ln, dt, lk, cv, Ps
  <2>8. Carried(status, ln, dt, lk, Ps)
    BY <2>2, <2>3, <2>6, <2>7, CarriedFromInv
  <2>9. Activity' \subseteq Keys
    BY <1>a, <2>2
  <2> QED
    BY <2>1, <2>3, <2>8, <2>9, SettleLinks
<1>4. ASSUME NEW o \in Orders, Cancel(o) PROVE LinkInv'
  <2>1. PICK E : Settle([status EXCEPT ![o] = "CANCELED"], lines, date, link, covered, lines[o],
                        ReadyPairs([status EXCEPT ![o] = "CANCELED"]), E)
    BY <1>4 DEF Cancel
  <2>2. UNCHANGED runVars /\ "CANCELED" \in Status \ {"DRAFT"}
    BY <1>4 DEF Cancel, Status
  <2> QED
    BY <2>1, <2>2, StatusLinks
<1>5. ASSUME NEW o \in Orders, CompleteOrder(o) PROVE LinkInv'
  <2>1. PICK E : Settle([status EXCEPT ![o] = "COMPLETED"], lines, date, link, covered, lines[o],
                        ReadyPairs([status EXCEPT ![o] = "COMPLETED"]), E)
    BY <1>5 DEF CompleteOrder
  <2>2. UNCHANGED runVars /\ "COMPLETED" \in Status \ {"DRAFT"}
    BY <1>5 DEF CompleteOrder, Status
  <2>3. \A p \in lines[o] : <<o, p>> \notin ProtectedPairs(link, Activity)
    BY <1>5 DEF CompleteOrder
  <2> QED
    BY <2>1, <2>2, <2>3, StatusLinks
<1>6. ASSUME NEW r \in Runs, NEW k \in Keys, Start(r, k) PROVE LinkInv'
  <2>1. Activity' = Activity \cup {k}
    <3>1. /\ runState[r] = "FREE"
          /\ runState' = [runState EXCEPT ![r] = "IN_PRODUCTION"]
          /\ runKey' = [runKey EXCEPT ![r] = k]
      BY <1>6 DEF Start
    <3> QED
      BY <3>1, <1>t DEF Activity, Active
  <2>2. UNCHANGED orderVars /\ link' = link /\ k \notin Activity
    BY <1>6 DEF Start
  <2>3. link[k] = Mirror(link, status, lines, date, Activity, k)
    BY <2>2 DEF LinkInv, LinksMirrorDemand, Mirror
  <2>4. ASSUME NEW u \in link[k]
        PROVE  u \in Demand(status, lines, k[1]) /\ date[u] = k[2] /\ status[u] \in Live
    BY <2>3 DEF Mirror, Demand
  <2>5. ASSUME NEW j \in Keys \ Activity', NEW u \in Orders, u \in link[j]
        PROVE  <<u, j[1]>> \notin ProtectedPairs(link, Activity')
    <3>1. j \in Keys \ Activity /\ j # k
      BY <2>1
    <3>2. date[u] = j[2] /\ <<u, j[1]>> \notin ProtectedPairs(link, Activity)
      BY <2>5, <3>1 DEF LinkInv, LinksMirrorDemand
    <3>3. ~(k[1] = j[1] /\ u \in link[k])
      BY <2>4, <3>1, <3>2, KeyIsPair
    <3>4. j[1] \in Products /\ Activity' \subseteq Keys
      BY <1>a, <2>1, KeyIsPair
    <3>5. ~\E i \in Activity : i[1] = j[1] /\ u \in link[i]
      BY <1>a, <3>2, <3>4, Protection
    <3>6. ~\E i \in Activity' : i[1] = j[1] /\ u \in link[i]
      BY <2>1, <3>3, <3>5
    <3> QED
      BY <3>4, <3>6, Protection
  <2>6. LinksMirrorDemand'
    <3> SUFFICES ASSUME NEW j \in Keys \ Activity'
                 PROVE  link[j] = {u \in Demand(status, lines, j[1]) :
                          date[u] = j[2] /\ <<u, j[1]>> \notin ProtectedPairs(link, Activity')}
      BY <2>2 DEF LinksMirrorDemand, orderVars
    <3>1. link[j] = {u \in Demand(status, lines, j[1]) :
                      date[u] = j[2] /\ <<u, j[1]>> \notin ProtectedPairs(link, Activity)}
      BY <2>1 DEF LinkInv, LinksMirrorDemand
    <3>2. \A u : <<u, j[1]>> \in ProtectedPairs(link, Activity)
                   => <<u, j[1]>> \in ProtectedPairs(link, Activity')
      BY <2>1 DEF ProtectedPairs
    <3>3. link[j] \subseteq Orders
      BY <1>t
    <3>4. \A u \in link[j] : <<u, j[1]>> \notin ProtectedPairs(link, Activity')
      BY <2>5, <3>3
    <3> QED
      BY <3>1, <3>2, <3>4
  <2>7. NoUnprotectedDemandOnActiveKey'
    <3> SUFFICES ASSUME NEW j \in Activity', NEW u \in Demand(status, lines, j[1]),
                        date[u] = j[2]
                 PROVE  \E i \in Activity' : i[1] = j[1] /\ u \in link[i]
      BY <2>2 DEF NoUnprotectedDemandOnActiveKey, orderVars
    <3>1. CASE j \in Activity
      BY <2>1, <3>1 DEF LinkInv, NoUnprotectedDemandOnActiveKey
    <3>2. CASE j = k
      <4>1. CASE <<u, k[1]>> \in ProtectedPairs(link, Activity)
        BY <2>1, <3>2, <4>1 DEF ProtectedPairs
      <4>2. CASE <<u, k[1]>> \notin ProtectedPairs(link, Activity)
        BY <2>1, <2>3, <3>2, <4>2 DEF Mirror
      <4> QED
        BY <4>1, <4>2
    <3> QED
      BY <2>1, <3>1, <3>2
  <2>8. NoCompletionUnderRun'
    BY <2>1, <2>2, <2>4 DEF LinkInv, NoCompletionUnderRun, orderVars, Live
  <2>9. LinkedAreLines'
    BY <2>2 DEF LinkInv, LinkedAreLines, orderVars
  <2> QED
    BY <2>6, <2>7, <2>8, <2>9 DEF LinkInv
<1>7. ASSUME NEW r \in Runs, NEW outcome \in {"COMPLETED", "CANCELED"}, EndRun(r, outcome)
      PROVE  LinkInv'
  <2> DEFINE p == runKey[r][1]
  <2>1. PICK gained, E :
          Settle(status, lines, date, link, covered \cup gained, {p}, ReadyPairs(status), E)
    BY <1>7 DEF EndRun
  <2>2. /\ runState[r] = "IN_PRODUCTION"
        /\ runState' = [runState EXCEPT ![r] = outcome]
        /\ runKey' = runKey
    BY <1>7 DEF EndRun
  <2>3. /\ runState'[r] # "IN_PRODUCTION"
        /\ \A q \in Runs \ {r} : runState'[q] = runState[q]
    BY <1>t, <2>2
  <2>4. Activity' \subseteq Activity /\ \A k \in Activity : k # runKey[r] => k \in Activity'
    BY <2>2, <2>3 DEF Activity, Active
  <2>5. Carried(status, lines, date, link, {p})
    BY <2>4, CarriedUnchanged
  <2>6. link \in [Keys -> SUBSET Orders] /\ Activity' \subseteq Keys
    BY <1>t, <1>a, <2>4
  <2> HIDE DEF p
  <2> QED
    BY <2>1, <2>5, <2>6, SettleLinks
<1>8. ASSUME NEW p \in Products, AdjustSupply(p) PROVE LinkInv'
  <2>1. PICK E : Settle(status, lines, date, link, covered, {p}, {}, E)
    BY <1>8 DEF AdjustSupply
  <2>2. Activity' = Activity
    BY <1>8 DEF AdjustSupply, Activity, Active, runVars
  <2>3. Carried(status, lines, date, link, {p})
    BY <2>2, CarriedUnchanged
  <2> QED
    BY <1>t, <1>a, <2>1, <2>2, <2>3, SettleLinks
<1>9. ASSUME NEW p \in Products, Migrate(p) PROVE LinkInv'
  <2>1. /\ UNCHANGED <<orderVars, runVars>>
        /\ link' = Rebuilt(link, status, lines, date, Activity, {p})
        /\ ~Collides(status, lines, date, link, Activity, {p})
    BY <1>9 DEF Migrate
  <2>2. Activity' = Activity
    BY <2>1 DEF Activity, Active, runVars
  <2>3. Carried(status, lines, date, link, {p})
    BY <2>2, CarriedUnchanged
  <2>4. lines' = lines /\ date' = date /\ SameDemand(status)
    BY <2>1 DEF SameDemand, orderVars
  <2> QED
    BY <1>t, <1>a, <2>1, <2>2, <2>3, <2>4, RebuildLinks
<1>10. ASSUME UNCHANGED <<orderVars, link, runVars>> PROVE LinkInv'
  <2>1. Activity' = Activity
    BY <1>10 DEF Activity, Active, runVars
  <2>2. LinkedAreLines' /\ NoCompletionUnderRun'
    BY <1>10, <2>1 DEF LinkInv, LinkedAreLines, NoCompletionUnderRun, orderVars
  <2>3. LinksMirrorDemand'
    BY <1>10, <2>1 DEF LinkInv, LinksMirrorDemand, orderVars
  <2>4. NoUnprotectedDemandOnActiveKey'
    BY <1>10, <2>1 DEF LinkInv, NoUnprotectedDemandOnActiveKey, orderVars
  <2> QED
    BY <2>2, <2>3, <2>4 DEF LinkInv
<1>11. ASSUME NEW p \in Products, OpenStock(p) PROVE LinkInv'
  BY <1>10, <1>11 DEF OpenStock
<1>12. ASSUME UNCHANGED vars PROVE LinkInv'
  BY <1>10, <1>12 DEF vars
<1> QED
  BY <1>1, <1>2, <1>3, <1>4, <1>5, <1>6, <1>7, <1>8, <1>9, <1>11, <1>12 DEF Next

----------------------------------------------------------------------------
(* In every reachable state the links of a requirement outside production   *)
(* are exactly the live demand for its Product and date that no active run  *)
(* protects: no workflow forgets a rebuild after it changed demand.         *)
THEOREM LinksFollowDemand == Spec => []LinksMirrorDemand
<1>1. LinkInv => LinksMirrorDemand
  BY DEF LinkInv
<1> QED
  BY <1>1, InitTypeOK, NextTypeOK, InitLinks, NextLinks, PTL DEF Spec

(* While a requirement is in production, every live Order with demand for   *)
(* its Product and date is linked to an active run of the Product: the      *)
(* date-conflict rejection of the recalculation is complete.                *)
THEOREM ActiveKeysAreProtected == Spec => []NoUnprotectedDemandOnActiveKey
<1>1. LinkInv => NoUnprotectedDemandOnActiveKey
  BY DEF LinkInv
<1> QED
  BY <1>1, InitTypeOK, NextTypeOK, InitLinks, NextLinks, PTL DEF Spec

(* No Order a run in production is linked to has been completed.            *)
THEOREM NoneCompletedUnderRun == Spec => []NoCompletionUnderRun
<1>1. LinkInv => NoCompletionUnderRun
  BY DEF LinkInv
<1> QED
  BY <1>1, InitTypeOK, NextTypeOK, InitLinks, NextLinks, PTL DEF Spec
==========================================================================
