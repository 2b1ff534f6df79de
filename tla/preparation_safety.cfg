CONSTANTS
  Rfcs <- McRfcs
  Leaves = {"l1"}
  Named <- McNamed
  Catalog = {"x"}
  Legacy = {"a"}
  MaxAttempts = 2
  MaxRepairs = 2
  MaxRuns = 2
  Prewarm = {"__all__"}
  MaxRetries = 2
SPECIFICATION FairSpec
INVARIANT TypeOK
INVARIANT EvidenceIsCurrent
INVARIANT DescriptionsMatch
INVARIANT ListedHasSource
PROPERTY TreesSurvive
PROPERTY PreparationEnds
CHECK_DEADLOCK FALSE
