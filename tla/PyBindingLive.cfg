CONSTANTS
  Threads = {p1}
  Targets = {t1, t2}
  Containers = {c1}
  Jobs = {j1, j2}
  Dispatcher = Dispatcher
  NoThread = NoThread
  NoTarget = NoTarget
  NoContainer = NoContainer
  NoJob = NoJob
  MaxProcs = 1
  MaxNotices = 0
  BatchMax = 2
  Faults = {"associate"}
  Careful = FALSE
  SharedTargets = FALSE

SPECIFICATION PySpec

PROPERTIES
  CallsEnd
  TargetsReleased
