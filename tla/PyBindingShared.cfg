CONSTANTS
  Threads = {p1, p2}
  Targets = {t1}
  Containers = {c1}
  Jobs = {j1, j2}
  Dispatcher = Dispatcher
  NoThread = NoThread
  NoTarget = NoTarget
  NoContainer = NoContainer
  NoJob = NoJob
  MaxProcs = 1
  MaxNotices = 0
  BatchMax = 2
  Faults = {}
  Careful = FALSE
  SharedTargets = TRUE

SPECIFICATION PySpec

PROPERTIES
  SpawnedOnce
