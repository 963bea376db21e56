SPECIFICATION Spec
CONSTANTS
  Repos = {1}
  Profiles = {"main"}
  ProfileOf <- OneRepo
  Modules = {m1, m2}
  RepoOf <- BothInOne
  DependsOn = {}
  Chunkless <- SecondContent
  Procs = {p1, p2}
  NoProc = NoProc
  Kinds <- KAll
  Parallel = FALSE
  MaxCommit = 3
  HeadMoves = {"pull"}
  MovesDuringRuns = TRUE
  GitFaults = {"rev-parse", "merge-base"}
  FaultPhases <- Always
  MaxFaults = 2
  SessionDrops = FALSE
  p1 = p1
  p2 = p2
  m1 = m1
  m2 = m2
SYMMETRY FullSymmetry
INVARIANTS
  OneWorkerPerRepo
  UnchangedIsIndexed
  UnchangedIsEmbedded
PROPERTIES
  HeadShaNeverGoesBack
