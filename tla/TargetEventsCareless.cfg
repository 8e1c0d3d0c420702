CONSTANTS
  Targets = {t1}
  Jobs = {j1, j2}
  NoTarget = NoTarget
  NoJob = NoJob
  MaxProcs = 1
  MaxNotices = 0
  BatchMax = 2
  Faults = {"resume"}
  Careful = FALSE

SPECIFICATION Spec

INVARIANTS
  AttachedIsLive
  CallbackOnLiveObject

PROPERTIES
  ExitAllDelivered
  DestructionEnds
