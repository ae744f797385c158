CONSTANTS
  a1 = a1
  a2 = a2
  u1 = u1
  q1 = q1
  q2 = q2
  q3 = q3
  e1 = e1
  e2 = e2
  Approvers = {a1, a2}
  OtherUsers = {u1}
  Required = 2
  Exceptions = {e1, e2}
  Subject = e1
  NoException = NoException
  Requests = {q1, q2, q3}
  RedeemRequests = {q1, q2}
  NoRequest = NoRequest
  Nobody = Nobody
SPECIFICATION FairSpec
INVARIANTS TypeOK OutcomeAgreesWithRows SideEffectsAgree
PROPERTIES ConsumedOnce SettledOnce EveryRequestEnds
CHECK_DEADLOCK FALSE
