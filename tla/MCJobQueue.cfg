CONSTANTS
  k1 = k1
  k2 = k2
  w1 = w1
  w2 = w2
  Keys = {k1, k2}
  Workers = {w1, w2}
  NoWorker = NoWorker
  NoJob = NoJob
  MaxAttempts <- MCMaxAttempts
  MaxDowns = 2
  MaxOverruns = 1
  MaxDbErrors = 1
SPECIFICATION FairSpec
INVARIANTS TypeOK ExclusiveHandling DeadLetteredOnce AttemptsPaidFor
PROPERTIES FinishedIsFinal EveryJobEnds
