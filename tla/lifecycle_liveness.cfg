SPECIFICATION FairSpec
CONSTANTS
  Modes = {"learn_and_fuzz"}
  Disturbances = {"sigint"}
  RetryLimit = 1
PROPERTIES
  StopDrainsWorker
  RunEnds
