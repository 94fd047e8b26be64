SPECIFICATION FairSpec
CONSTANTS
  p1 = p1
  p2 = p2
  p3 = p3
  NoTask = NoTask
  Tasks <- TwoTasks
  Need <- OneEach
  Total = 2
  Room = 2
  ToCompletion <- First
  EarlyDeath = TRUE
INVARIANTS
  TypeOK
  NoOrphanBlock
  QueuedOnceIfReady
  NoLostTask
  CoresReturned
  PausedTaskIsStopped
  NoLiveTaskFreed
PROPERTIES
  LifecycleSpec
  PauseIsRespected
  WatchedTaskIsForgotten
  ShutdownEnds
