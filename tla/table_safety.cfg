CONSTANTS
  Alphabet <- Symbols
  Machines <- Targets
  HasThreshold = TRUE
  Probes <- Words
SPECIFICATION FairSpec
INVARIANT TypeOK
INVARIANT TableIsRight
INVARIANT HypothesisIsTarget
INVARIANT ReadsAreDrained
INVARIANT UndisturbedSucceeds
PROPERTY LearningEnds
CHECK_DEADLOCK FALSE
