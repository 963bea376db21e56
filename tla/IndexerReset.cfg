SPECIFICATION Spec
CONSTANTS
  Repos = {1}
  Profiles = {"main"}
  ProfileOf <- OneRepo
  Modules = {m1, m2}
  RepoOf <- BothInOne
  DependsOn = {}
  Chunkless = {}
  Procs = {p1}
  NoProc = NoProc
  Kinds <- KAll
  Parallel = FALSE
  MaxCommit = 4
  HeadMoves = {"pull", "amend", "revert"}
  MovesDuringRuns = FALSE
  GitFaults = {"merge-base"}
  FaultPhases <- BetweenLayers
  MaxFaults = 1
  SessionDrops = FALSE
  p1 = p1
  p2 = p2
  m1 = m1
  m2 = m2
SYMMETRY FullSymmetry
INVARIANTS
  FullReindexMirrorsHead
  UndisturbedIsIndexed
