CONSTANTS
  Approvers = {"me", "a2", "a3"}
  Me = "me"
  Lines = {"l1", "l2", "l3"}
  Matched = {"l1", "l2"}
  Findings = {"price", "qty"}
  Severity <- MCSeverity
  LineOf <- MCLineOf
  Subject = "price"
  ReducedMotion = FALSE
  MaxLoads = 2
  Fields = {"f"}
  Values = {"a", "b", "r"}
  Typed = {"a", "r"}
  Column <- MCColumn
  Unparsable = "unparsable"
  MaxInvoiceLoads = 2
  MaxSaves = 2
  Urls = {1, 2, 3, 4}
  Files = {0, 2}
  Order <- MCOrder
  MaxLists = 2
  MaxClicks = 3
  Rows = {1, 2}
  Filters = {"NEEDS_VERIFICATION"}
  PageSize = 1
  MaxPage = 2
  MaxPageLoads = 3
  Periods = {7, 30}
  Default = 30
  Shared = {"vendors"}
  PerPeriod = {"summary"}
  MaxBatches = 3
  AllRuns <- MCAllRuns
  MaxRunLoads = 2
  MaxSelections = 2
  Contents = {"c1", "c2"}
  MaxUploads = 3
SPECIFICATION Visit
CHECK_DEADLOCK FALSE

INVARIANTS
  PagesTypeOK
  CorrectionsStand
  ShowsTheSubject
  ListsFollowTheUrl
  DashboardsAgree
  NeverClaimsTooMuch
  OneInvoicePerFile

PROPERTIES
  OnlyResolvedLeave
  SettlementStands
  AcknowledgedIsFinal
  ClickIsAnswered
  PagesComeToRest
