SPECIFICATION TxSpec
CONSTANTS
  Orders = {1, 2}
  Products = {1, 2}
  Purchased = {2}
  Dates = {1, 2}
  Runs = {r1}
  EditPayloads <- MCPayloads
  InitLines <- MCLines
  InitDate <- MCDate
  Requests = {t1, t2}
  KindsOf <- CatalogMix
  MaxAttempts = 1
  Nobody = Nobody
INVARIANTS
  TxTypeOK
  ReadyIsCovered
PROPERTIES
  NoLostUpdate
  AtomicSpec
CHECK_DEADLOCK FALSE
