CONSTANTS
  Types = {"r1"}
  Families = {"f"}
  Generic = "all"
  Family <- McFamily
  Prepared = {"all", "f", "r1"}
  Raw = {"r1"}
  Outdated <- McOutdated
  Errors = {e1, e2}
  Persisted = {"r1"}
  MaxFailures = 2
SPECIFICATION Spec
INVARIANT TypeOK
INVARIANT KeysNotLost
INVARIANT RepairedOnce
INVARIANT NeverStuck
SYMMETRY ErrorsAlike
CHECK_DEADLOCK FALSE
CONSTRAINT FewVersions
