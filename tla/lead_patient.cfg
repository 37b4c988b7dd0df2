SPECIFICATION FairSpec
CHECK_DEADLOCK FALSE
CONSTANTS
  None = None
  Messages = {m1, m2, m3}
  Handlers = {h1}
  Slots = {slot1}
  Starts = {"none","ask_lot_range","ask_schedule"}
  Answers = {"project","lot","period","other","yes"}
  IntroLength = 2
  Patient = TRUE
  MaxDeliveries = 1
  MaxAborts = 0
  MaxFailures = 0
  MaxAdmin = 0
INVARIANT QuestionIsReminded
INVARIANT ChatShowsTheQuestion
PROPERTY SilenceEnds
