SPECIFICATION FairSpec
CONSTANTS
  Tasks <- ThreeTasks
  Program <- Catalog
  Clocks <- FirstIsClock
  Mortal <- FirstIsClock
  Windowed <- ThirdInWindow
  Clicked <- SecondIsClicked
  Capacity = 3
  Cores = 1
  MaxBoots = 2
INVARIANTS
  BookkeepingIsExact
  ReadyIsQueuedOnce
  NothingRunsUnseen
PROPERTIES
  PromisesKept
