SPECIFICATION Spec
CONSTANTS
  Garbage = Garbage
  Missing = Missing
  Versions <- MCVersions
  MaxNow = 2
  MaxEdits = 2
  MaxEvents = 3
INVARIANTS
  TypeOK
  RulesAreFresh
  BurstIsExact
CHECK_DEADLOCK FALSE
