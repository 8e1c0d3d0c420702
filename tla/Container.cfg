CONSTANTS
  users = users
  Logons = {current, user}
  CurrentLogon = current
  WellKnownSids <- MCWellKnownSids
  MaxSids = 2
  Tokens = {k1, k2}
  Desktops = {d1, d2}
  Spawners = {s1, s2}
  Jobs = {j1, j2}
  NoLogon = NoLogon
  NoToken = NoToken
  NoDesktop = NoDesktop
  NoJob = NoJob

SPECIFICATION Spec

SYMMETRY Symmetry

INVARIANTS
  TypeOK
  CachesAreFresh
  SpawnedAsAsked
  NothingRunsUncontained
  NoStrayProcess
  HandlesAreOwned
  BorrowedStaysOpen

PROPERTIES
  ImplementsSandbox
