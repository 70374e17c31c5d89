\* Two processes and a crash at any step: what holds without a lock.
SPECIFICATION FairSpec
CONSTANTS
  MaxTask = 1
  MaxQuorum = 1
  Remotes = {}
  NoTask = NoTask
  Procs = {p1, p2}
  Keys = {k1}
  Projects <- MCAloneOrEmpty
  NewDocs <- MCTwoDocs
  Rewrites <- MCOneRewrite
  Targets <- MCWayThrough
  Crashes = TRUE
INVARIANTS TypeOK FilesValid DoneHasQuorum
PROPERTY CommandsEnd
CHECK_DEADLOCK FALSE
