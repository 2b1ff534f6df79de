CONSTANTS
  Requests = {"a", "b"}
  MaxLength = 2
  MaxInteractions = 1
SPECIFICATION Spec
INVARIANT PairsBelongTogether
CHECK_DEADLOCK FALSE
