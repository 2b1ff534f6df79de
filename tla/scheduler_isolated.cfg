CONSTANTS
  Requests = {"a", "b", "c"}
  Available = {"a", "b"}
  Relations <- McRelations
  States <- McStates
  Moves <- McMoves
  Imported <- McImported
  Partial <- McPartial
  Responses = {"r"}
  Energy = 1
  MutatorRounds = 1
  MutateSeeds = TRUE
  MaxMutated = 1
  MaxPart = 1
SPECIFICATION FairSpec
PROPERTY FailureIsolated
CHECK_DEADLOCK FALSE
