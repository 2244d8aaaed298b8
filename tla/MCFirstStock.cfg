SPECIFICATION TxSpec
CONSTANTS
  Orders = {1, 2}
  Products = {1, 2}
  Purchased = {2}
  Dates = {1, 2}
  Runs = {r1}
  EditPayloads <- MCPayloads
  InitLines <- MCLines
  InitDate <- MCDate
  Requests = {t1, t2}
  KindsOf <- StockMix
  MaxAttempts = 3
  Nobody = Nobody
INVARIANT
  SatisfiedIsReady
CHECK_DEADLOCK FALSE
