SPECIFICATION Spec
SYMMETRY Symmetry
CHECK_DEADLOCK FALSE
CONSTANTS
  None = None
  Messages = {m1, m2}
  Handlers = {h1, h2}
  Slots = {slot1, slot2}
  Starts = {"ask_project"}
  Answers = {"project", "lot"}
  IntroLength = 2
  Patient = FALSE
  MaxDeliveries = 1
  MaxAborts = 0
  MaxFailures = 0
  MaxAdmin = 0
INVARIANT QuestionIsReminded
