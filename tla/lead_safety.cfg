SPECIFICATION Spec
SYMMETRY Symmetry
CONSTRAINT OneInstance
CHECK_DEADLOCK FALSE
CONSTANTS
  None = None
  Messages = {m1, m2}
  Handlers = {h1, h2}
  Slots = {slot1, slot2}
  Starts = {"none", "ask_payment", "ask_call_slot"}
  Answers = {"all", "yes", "no", "payment", "other", slot1, slot2}
  IntroLength = 2
  Patient = FALSE
  MaxDeliveries = 2
  MaxAborts = 1
  MaxFailures = 1
  MaxAdmin = 1
PROPERTY NothingScoredIsLost
PROPERTY RemindsOnlyTheSilent
INVARIANT LeadSafe
INVARIANT OnceEach
