SPECIFICATION SuiteSpec
SYMMETRY Symmetry
CONSTRAINT Instance
CHECK_DEADLOCK FALSE
CONSTANTS
  Nobody = Nobody
  NoVentor = Nobody
  NoSeller = Nobody
  NoWebinarId = Nobody
  NoMember = Nobody
  Users = {u1, u2}
  Ventors = {u1, u2}
  Sellers = {u1, u2}
  Office = {u1, u2}
  Steps = {s1, s2}
  Clerks = {h1, h2}
  Handlers = {h1, h2}
  Repliers = {h1, h2}
  Upserters = {h1, h2}
  Pickers = {h1, h2}
  Visitors = {e1, e2}
  WebinarAdmins = {h1, h2}
  Desks = {e1, e2}
  Forms = {f1, f2}
  FormHandlers = {g1}
  Webinars = {w1, w2}
  MetaForms = {f1}
  Entered = {m1}
  Replies = {1, 2}
  MaxClerkRequests = 3
  MaxEvents = 2
  MaxTrailCrashes = 1
  MaxIngress = 3
  MaxIntakeCrashes = 1
  MaxReplyCrashes = 1
  MaxReplyFailures = 1
  MaxManager = 1
  MaxForms = 3
  MaxWritten = 1
  MaxNudgeCrashes = 1
  MaxEntries = 3
  MaxWebinarRequests = 3
  MaxWebinarFailures = 1
  MaxLeadRequests = 3
  MaxLoad = 3
  MaxTimestamp = 3
  MaxUpserts = 4
  Clients = {e1, e2}
  Staff = {u1, u2}
  Stages = {s1, s2}
  Catalogues = {{}, {s1}}
  Period = {1}
  CallPeriod = {1}
  LastTime = 2
  MaxChanges = 3
  MaxUpsertFailures = 1
INVARIANTS
  TrailCorrect
  IntakeCorrect
  ReplyCorrect
  NudgeCorrect
  WebinarsCorrect
  EvenLoad
  StoreCorrect
  ReportCorrect
PROPERTIES
  IntakeGoesForward
