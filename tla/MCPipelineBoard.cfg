CONSTANTS
  i1 = i1
  i2 = i2
  Invoices = {i1, i2}
  QueueCap = 1
  MaxTransitions = 1
  ReducedMotion = FALSE
  OpenedIn = {"NO_INVOICE", "MATCHING", "PENDING_APPROVAL"}
  MaxWrites = 2
  MaxDrops = 1
  MaxOutages = 1
SPECIFICATION FairSpec
INVARIANTS TypeOK CardsAgree HidesOnlyOutcomes
PROPERTIES CardsOnlyForward CatchesUp
CHECK_DEADLOCK FALSE
