SPECIFICATION Spec
CONSTANTS
  Patterns = {p1, p2}
  p1 = p1
  p2 = p2
  Text <- Releases
  MaxFile = 3
  VersionOf <- TwoVersions
  Procs = {a}
  Kinds <- Filtered
  NoFilter = NoFilter
  MixedVersions = FALSE
  MaxFaults = 0
INVARIANT
  VectorsAreUpToDate
