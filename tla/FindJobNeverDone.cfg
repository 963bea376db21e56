SPECIFICATION Spec
CONSTANTS
  Jobs = {1}
  Pids = {a}
  NoPid = NoPid
  Subcommands = {"index-repo"}
  Faults = {}
INVARIANT
  SuccessIsReported
