SPECIFICATION Spec
CONSTANTS
  Modes = {"learn_and_fuzz", "fuzz_only", "learn_only"}
  RetryLimit = 2
  Disturbances = {"sigint", "ui_crash", "component_call"}
INVARIANTS
  TypeOK
  DeadlineDelivered
  NeverUnclassified
  SuccessIsEarned
  SutReachable
  PhaseOpenWhileActive
  PhaseVerdicts
PROPERTY
  StopIsALatch
