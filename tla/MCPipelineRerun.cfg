CONSTANTS
  i1 = i1
  r1 = r1
  w1 = w1
  w2 = w2
  Invoices = {i1}
  Documents <- CorrectableDocuments
  NumApprovers = 1
  Policy <- MCPolicy
  HasPolicy = TRUE
  ExtractionMayFail = FALSE
  Reruns = {r1}
  MaxCorrections = 1
  DefaultAttempts = 2
  NotifyAttempts = 1
  Workers = {w1, w2}
  NoWorker = NoWorker
  NoJob = NoJob
  NoConfidence = NoConfidence
  MaxDowns = 0
  MaxOverruns = 0
  MaxDbErrors = 1
SPECIFICATION Spec
SYMMETRY WorkerSymmetry
INVARIANTS TokensIssuedOnce DecisionJustified
CHECK_DEADLOCK FALSE
