\* Two recorders and one process that closes and reopens the task.
SPECIFICATION Spec
CONSTANTS
  Recorders = {r1, r2}
  Closers = {c1}
  Keys = {k1, k2}
  NoKey = NoKey
  Wanted = {"uat"}
  Required = 2
  MaxRecords = 3
  NoRecord = NoRecord
  Entries <- MCEntries
  Crashes = TRUE
SYMMETRY MCSymmetry
INVARIANTS TypeOK ClosedHasQuorum ReadsPrefix NextIsFresh
PROPERTY RecordsKept
CHECK_DEADLOCK FALSE
