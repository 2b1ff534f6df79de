CONSTANTS
  Types = {"g"}
  TryLimit = 2
  ThresholdLimit = 1
  PartialEnabled = TRUE
  MaxQuality = 1
  MaxVersions = 2
  MaxParsers = 2
  MaxStarts = 2
SPECIFICATION FairSpec
INVARIANT TypeOK
INVARIANT BestIsKept
INVARIANT EvidenceIsUniform
INVARIANT SavedPairMatches
INVARIANT ModelHasItsGenerators
INVARIANT GuidanceFits
CHECK_DEADLOCK FALSE
PROPERTY LearningEnds
CONSTRAINT SecondIsNotStopped
