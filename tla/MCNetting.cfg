SPECIFICATION Spec
CONSTANTS
  Orders = {1, 2}
  Mixed = {1}
  Dates = {1, 2}
  Lots = {1, 2}
  Runs = {r1}
  Quantities = {1, 2}
  Outputs = {0, 2}
  Expiries = {1}
  UsableDays = 1
  Horizon = 2
  InitDue <- MCDue
INVARIANT
  EveryShortageIsPlanned
CHECK_DEADLOCK FALSE
