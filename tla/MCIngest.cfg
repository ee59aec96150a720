SPECIFICATION Spec
CONSTANTS
  Enabled = {"tail", "poll"}
  Items = {1, 2, 3}
  Oversize = {3}
  Polled <- MCPolled
  Lengthy = {1}
  Cap = 1
  Interval = 1
  LastWrite = 2
  MaxNow = 4
  MaxFaults = 1
  MaxCount = 6
  MaxFiles = 2
  Second = 2
  Buffer = 1
  Timeout = 1
  Limit = 1
INVARIANTS
  TypeOK
  FewDuplicates
PROPERTIES
  NothingInvented
  Delivered
CHECK_DEADLOCK FALSE
