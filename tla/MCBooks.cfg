SPECIFICATION BooksSpec
CONSTANTS
  Orders = {1, 2}
  Mixed = {2}
  Dates = {1, 2}
  Lots = {1, 2}
  Runs = {r1}
  Quantities = {1, 2, 4}
  Outputs = {0, 2, 3}
  Expiries = {2}
  UsableDays = 1
  Horizon = 3
  InitDue <- MCDue
  Fine = 4
  MaxMoney = 1000
  MaxAmount = 1000
  Unknown = Unknown
  Packages = {1, 2}
  Catalogues <- MCCatalogues
  Overrides = {4}
  Extras <- MCExtras
  Adjustments <- MCAdjustments
  Requests <- MCRequests
  Customers = {ann}
  Guest = Guest
  Payments = {5}
  Clerks = {c1, c2}
  StockOps <- MCStockOps
  GoodsRestocks <- MCGoodsRestocks
  GoodsChanges <- MCGoodsChanges
  Yield = 2
  FlourPerBatch = 2
  Minutes = 30
  LaborRate = 4
  Batches = {1, 2}
  Usages = {1}
  EnteredCosts = {2}
  Scenarios <- MCScenarios
  DailyMax = 1
  WeeklyMax = 2
  DaysInWeek = 2
  DaysInMonth = 2
  RatioScale = 100
  ShoppingDays = 1
  ExpiryWindow = 1
SYMMETRY MCSymmetry
INVARIANTS
  BooksTypeOK
  BalanceIsLedgerSum
  CostBetweenPrices
  RunCostConserved
  OverpaymentAcknowledged
  ReportsAgree
  AlertsFollowInsight
  PlannedRunIsStocked
PROPERTIES
  CostFollowsGoods
  CatalogueDoesNotLeak
  PastReportsStand
CHECK_DEADLOCK FALSE
