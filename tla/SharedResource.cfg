CONSTANTS
  Calls = {c1, c2, c3}
  Resources = {r1, r2, r3}
  NoResource = NoResource
  NoCall = NoCall

SPECIFICATION Spec

INVARIANTS
  TypeOK
  SharedIsAlive
  OneMessageThread
  NoPortLeaked

PROPERTIES
  GlobalIsStable
  EveryCallReturns
  ImplementsService
