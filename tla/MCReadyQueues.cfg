SPECIFICATION FairSpec
CONSTANTS
  t1 = t1
  t2 = t2
  t3 = t3
  NoItem = NoItem
  Tasks = {t1, t2, t3}
  BasePriority <- OneEach
  ToCompletion = {t1}
  AgingThreshold = 2
INVARIANTS QueuesMatchTable BoundedBypass
PROPERTY RunServesEverybody
