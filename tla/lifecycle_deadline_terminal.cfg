SPECIFICATION Spec
CONSTANTS
  Modes = {"learn_and_fuzz"}
  Disturbances = {}
  RetryLimit = 1
INVARIANT DeadlineIsTerminal
