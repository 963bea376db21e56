SPECIFICATION Spec
CONSTANTS
  Keys = {k1}
  NoKey = NoKey
  Requests = {r1, r2}
  Versions = {16, 17}
  NoVersion = NoVersion
  KeyTTL = 2
  SessionTTL = 2
  Lifetime = 1
  ResourceTTL = 1
  Capacity = 1
  MaxConn = 1
  MaxLag = 1
  MaxEvents = 2
INVARIANTS
  TypeOK
  ResourcesFollowTheContext
PROPERTIES
  RevokedKeysFade
  Recovers
  StickyPromise
