SPECIFICATION SuiteSpec
SYMMETRY Symmetry
CONSTRAINT Instance
CHECK_DEADLOCK FALSE
CONSTANTS
  Nothing = Nothing
  None = Nothing
  NoAgent = Nothing
  Consumers = {h1, h2}
  VisitHandlers = {h1, h2}
  Syncs = {h1, h2}
  Creators = {h1, h2}
  Payers = {p1, p2}
  Analysts = {p1, p2}
  Texts = {v1, v2}
  Flows <- MCFlows
  SignalStatus <- MCSignalStatus
  Auditors = {u1, u2}
  Agents = {u1, u2}
  Owner = ventor
  Coordinator = coordinator
  MaxTakes = 2
  MaxCrashes = 1
  MaxManual = 1
  MaxVisitRequests = 4
  MaxVisitCrashes = 1
  Ttl = 2
  VisitHours = {1, 2, 4}
  LastHour = 4
  MaxSyncs = 3
  MaxMeetFailures = 1
  MaxMeetCrashes = 1
  Expected = {3}
  Amounts = {1, 3}
  MaxAborts = 1
  Cashiers = {h1, h2}
  Values = {1, 2}
  MaxReceipts = 3
  MaxReceiptFailures = 1
  MaxReceiptCrashes = 1
  Recorders = {g1, g2}
  Slips = {r1}
  MaxTransfers = 3
  Advisers = {p1, p2}
  NoAdviser = Nothing
  RecordDesks = {h1, h2}
  NoDocument = Nothing
  MaxDocuments = 2
  MaxCalls = 2
  MaxRecordRequests = 4
INVARIANTS
  CallCorrect
  OutcomeIsLastSignal
  AuditCorrect
  VisitCorrect
  MeetCorrect
  DownPaymentSafe
  FeesBackTotals
  ReceiptsCorrect
  AccessCorrect
  RecordCorrect
PROPERTIES
  
  WithdrawnDoesNotWrite
  SyncKeeps
