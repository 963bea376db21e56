SPECIFICATION Spec
CONSTANTS
  Repos = {1, 2}
  Profiles = {"main", "other"}
  ProfileOf <- TwoProfiles
  Modules = {m1, m2}
  RepoOf <- OneEach
  DependsOn <- SecondOnFirst
  Chunkless = {}
  Procs = {p1, p2}
  NoProc = NoProc
  Kinds <- KIncr
  Parallel = FALSE
  MaxCommit = 2
  HeadMoves = {"pull"}
  MovesDuringRuns = TRUE
  GitFaults = {}
  FaultPhases = {}
  MaxFaults = 0
  SessionDrops = FALSE
  p1 = p1
  p2 = p2
  m1 = m1
  m2 = m2
INVARIANTS
  DependentsAreRevisited
