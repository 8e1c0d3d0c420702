CONSTANTS
  Targets = {t1}
  Jobs = {j1, j2}
  NoTarget = NoTarget
  NoJob = NoJob
  MaxProcs = 2
  MaxNotices = 1
  BatchMax = 2
  Faults = {"associate", "resume"}
  Careful = TRUE

SPECIFICATION Spec

INVARIANTS
  TypeOK
  CallbackOnLiveObject
  NoCrossDelivery
  NothingLost


PROPERTIES
  ImplementsStream
