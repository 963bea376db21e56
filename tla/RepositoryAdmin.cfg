SPECIFICATION Spec
CONSTANTS
  Profiles = {p1, p2}
  Repos = {r1, r2}
  None = None
  Names = {"std", "ext"}
  Versions = {17, 18}
  Sources = {a17, a18, c17}
  NoSource = NoSource
  Partial = Partial
  a17 = a17
  a18 = a18
  c17 = c17
  sale = sale
  fleet = fleet
  Modules = {sale, fleet}
  Cloners = {cl1, cl2}
  Indexers = {ix1}
  Kind <- MCKind
  Slug <- MCSlug
  Home <- MCHome
  Paths <- MCPaths
  Holds <- MCHolds
  Flags <- MCFlags
  MaxRequests = 3
  MaxFaults = 1
  Begin <- MCBegin
SYMMETRY MCSymmetry
CHECK_DEADLOCK FALSE
INVARIANTS
  TypeOK
  HierarchyIsSound
  DeletedIsGone
  IndexedIsInGraph
  ClonedIsThere
  PendingIsAttended
PROPERTIES
  CheckoutsAreKept
