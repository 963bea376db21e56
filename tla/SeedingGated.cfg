SPECIFICATION FairSpec
CONSTANTS
  Patterns = {p1, p2}
  p1 = p1
  p2 = p2
  Text <- Releases
  MaxFile = 3
  VersionOf <- TwoVersions
  Procs = {a, b}
  Kinds <- AllVersions
  NoFilter = NoFilter
  MixedVersions = FALSE
  MaxFaults = 1
INVARIANTS
  TypeOK
  GraphIsUpToDate
  VectorsAreUpToDate
PROPERTY
  Converges
