SPECIFICATION Spec
CONSTANTS
  p1 = p1
  p2 = p2
  p3 = p3
  NoTask = NoTask
  Tasks <- ThreeTasks
  Need <- OneOneTwo
  Total = 2
  Room = 3
  ToCompletion <- None
  EarlyDeath = FALSE
INVARIANT
  ActiveTasksFit
