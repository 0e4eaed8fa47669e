SPECIFICATION AnswersSpec
CONSTANTS
  Procs = {p1, p2}
  MaxTime = 4
  MaxAsks = 2
  MaxBinds = 1
  MaxTexts = 2
  MaxEvents = 2
INVARIANTS NoStaleAnswer
PROPERTIES AnswerEndsWait
CHECK_DEADLOCK FALSE
