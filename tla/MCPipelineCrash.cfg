CONSTANTS
  i1 = i1
  r1 = r1
  w1 = w1
  w2 = w2
  Invoices = {i1}
  Documents <- AllDocuments
  NumApprovers = 2
  Policy <- MCPolicy
  HasPolicy = TRUE
  ExtractionMayFail = TRUE
  Reruns = {}
  MaxCorrections = 0
  DefaultAttempts = 2
  NotifyAttempts = 1
  Workers = {w1, w2}
  NoWorker = NoWorker
  NoJob = NoJob
  NoConfidence = NoConfidence
  MaxDowns = 1
  MaxOverruns = 0
  MaxDbErrors = 0
SPECIFICATION Spec
SYMMETRY WorkerSymmetry
INVARIANTS TypeOK LinesPersistedOnce TokensIssuedOnce TokensMeanPending DecisionJustified
PROPERTIES FollowsLifecycle UsesQueueAsSpecified AuditTruthful
CHECK_DEADLOCK FALSE
