CONSTANTS
  k1 = k1
  k2 = k2
  w1 = w1
  w2 = w2
  Keys = {k1, k2}
  Workers = {w1, w2}
  NoWorker = NoWorker
  NoJob = NoJob
  MaxAttempts <- MCMaxAttempts
  MaxDowns = 0
  MaxOverruns = 0
  MaxDbErrors = 1
SPECIFICATION Spec
INVARIANT PollLoopSurvives
