SPECIFICATION Spec
CONSTANTS
  Jobs = {1, 2, 3}
  Pids = {a, b}
  NoPid = NoPid
  Subcommands = {"index-repo", "index-core", "seed-patterns"}
  Faults = {"kill", "web", "popen", "connect", "update", "pids"}
SYMMETRY PidSymmetry
INVARIANTS
  TypeOK
  SweepMarksTheDead
PROPERTIES
  VerdictsAreTrue
  EndedStaysEnded
