CONSTANTS
  Types = {"r1"}
  Families = {"f"}
  Generic = "all"
  Family <- McFamily
  Prepared = {"all", "f"}
  Raw = {"f"}
  Outdated = {}
  Errors = {e1, e2}
  Persisted = {"r1"}
  MaxFailures = 1
SPECIFICATION Spec
INVARIANT LoadedIsLatest
SYMMETRY ErrorsAlike
CHECK_DEADLOCK FALSE
