--------------------------- MODULE MCProduction ---------------------------
(* A small instance of Production: Orders due on different days.            *)
EXTENDS Production

MCDue == [o \in Orders |-> IF o = 1 THEN 2 ELSE 1]
===========================================================================
