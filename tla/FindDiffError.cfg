SPECIFICATION Spec
CONSTANTS
  Repos = {1}
  Profiles = {"main"}
  ProfileOf <- OneRepo
  Modules = {m1, m2}
  RepoOf <- BothInOne
  DependsOn = {}
  Chunkless = {}
  Procs = {p1}
  NoProc = NoProc
  Kinds <- KIncr
  Parallel = FALSE
  MaxCommit = 2
  HeadMoves = {"pull"}
  MovesDuringRuns = TRUE
  GitFaults = {"diff"}
  FaultPhases = {}
  MaxFaults = 0
  SessionDrops = FALSE
  p1 = p1
  p2 = p2
  m1 = m1
  m2 = m2
INVARIANTS
  UnchangedIsIndexed
