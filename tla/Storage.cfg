\* Two mods, every file operation failing or not, and crashes anywhere.
CONSTANTS
  old = old
  new = new
  Absent = Absent
  Corrupt = Corrupt
  Torn = Torn
  Closed = Closed
  Nothing = Nothing
  Ids = {1, 2}
  Contents = {old, new}
  MaxRecords = 2
  Interval = 1
  MaxSessions = 2
SPECIFICATION FreshFairSpec
CHECK_DEADLOCK FALSE
INVARIANTS RecordsMatchFiles WorkerOwnsItsBytes ShutdownDrains
PROPERTIES ImplementsRegister WorkEnds
