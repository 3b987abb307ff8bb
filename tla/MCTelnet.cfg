SPECIFICATION FairSpec
CONSTANTS
  c1 = c1
  Conn = {c1}
  RequireLogin = TRUE
  Lookup = TRUE
  CmdCap = 2
  MaxLines = 4
CHECK_DEADLOCK FALSE
INVARIANTS
  AnswerTakenOnce
  CommandsInOrder
  SubscriptionReleased
PROPERTIES
  NothingHangs
