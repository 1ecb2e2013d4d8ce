CONSTANTS
  None = None
  Asks = {a1}
  DataAgent = TRUE
SPECIFICATION DeskSpec
INVARIANT RefusalIsFinal
CHECK_DEADLOCK FALSE
