CONSTANTS
  Requests = {"a", "b"}
  MaxLength = 3
  MaxInteractions = 2
SPECIFICATION Spec
INVARIANT StatesInOrder
INVARIANT AbnormalEnds
CHECK_DEADLOCK FALSE
