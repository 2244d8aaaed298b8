------------------------- MODULE MCFulfillmentTx -------------------------
(* Small instances of FulfillmentTx: two requests, each for one of the       *)
(* workflows its run is about.                                              *)
EXTENDS FulfillmentTx

MCLines == [o \in Orders |-> IF o = 1 THEN {1} ELSE {1, 2} \cap Products]
MCDate == [o \in Orders |-> 1]
MCPayloads ==
  {[lines |-> {1}, date |-> 2, resized |-> {}],
   [lines |-> {1}, date |-> 1, resized |-> {1}]}

(* Everything that evaluates readiness, and the runs.                       *)
WorkflowMix ==
  [t \in Requests |-> OrderKinds \cup RunKinds \cup {"Start", "Adjust"}]
(* The workflows that evaluate nobody, beside one that does.                *)
CatalogMix ==
  [t \in Requests |-> {"Confirm", "EditDraft", "Stock", "Migrate", "Adjust", "Finish"}]

MCDates == [o \in Orders |-> o]
FinishRace == [t \in Requests |-> {"Cancel", "Finish"}]
CancelRace == [t \in Requests |-> {"Cancel", "Start"}]
EditRace == [t \in Requests |-> {"Edit", "Start"}]
MigrateRace == [t \in Requests |-> {"Confirm", "Migrate"}]
StockMix == [t \in Requests |-> {"Confirm", "Stock"}]
==========================================================================
