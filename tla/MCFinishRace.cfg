SPECIFICATION TxSpec
CONSTANTS
  Orders = {1, 2}
  Products = {1, 2}
  Purchased = {2}
  Dates = {1, 2}
  Runs = {r1}
  EditPayloads <- MCPayloads
  InitLines <- MCLines
  InitDate <- MCDates
  Requests = {t1, t2}
  KindsOf <- FinishRace
  MaxAttempts = 3
  Nobody = Nobody
PROPERTY
  OutputGoesToDemand
CHECK_DEADLOCK FALSE
