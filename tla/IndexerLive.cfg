SPECIFICATION FairSpec
CONSTANTS
  Repos = {1, 2}
  Profiles = {"main", "other"}
  ProfileOf <- TwoProfiles
  Modules = {m1, m2}
  RepoOf <- OneEach
  DependsOn <- SecondOnFirst
  Chunkless = {}
  Procs = {p1}
  NoProc = NoProc
  Kinds <- KIncr
  Parallel = TRUE
  MaxCommit = 2
  HeadMoves = {"pull"}
  MovesDuringRuns = TRUE
  GitFaults = {}
  FaultPhases <- Always
  MaxFaults = 1
  SessionDrops = TRUE
  p1 = p1
  p2 = p2
  m1 = m1
  m2 = m2
INVARIANTS
  TypeOK
  DependentsAreRevisited
PROPERTIES
  Converges
  LockIsReleased
