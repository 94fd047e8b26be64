SPECIFICATION FairDetectorSpec
CONSTANTS
  Pids = {1, 2, 3}
  ResourceNames = {r1, r2, r3}
  MaxRecords = 4
INVARIANTS NoFalseAlarm NoMissedDeadlock VictimTakesPart
PROPERTY SearchEnds
