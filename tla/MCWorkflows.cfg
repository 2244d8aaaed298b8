SPECIFICATION TxSpec
CONSTANTS
  Orders = {1, 2}
  Products = {1, 2}
  Purchased = {2}
  Dates = {1, 2}
  Runs = {r1, r2}
  EditPayloads <- MCPayloads
  InitLines <- MCLines
  InitDate <- MCDate
  Requests = {t1, t2}
  KindsOf <- WorkflowMix
  MaxAttempts = 3
  Nobody = Nobody
INVARIANTS
  OneActiveRunPerRequirement
  NoCompletionUnderRun
  LinksMirrorDemand
  NoUnprotectedDemandOnActiveKey
  SatisfiedIsReady
  CandidatesStayLocked
  NoWaitCycle
PROPERTIES
  AtomicSpec
  EveryRequestAnswered
CHECK_DEADLOCK FALSE
