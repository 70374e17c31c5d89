\* Two processes move one task: the moves of the file are not the legal ones.
SPECIFICATION Spec
CONSTANTS
  MaxTask = 1
  MaxQuorum = 1
  Remotes = {}
  NoTask = NoTask
  Procs = {p1, p2}
  Keys = {k1}
  Projects <- MCAlone
  NewDocs = {}
  Rewrites = {}
  Targets <- MCTargets
  Crashes = FALSE
PROPERTY StrictMoves
CHECK_DEADLOCK FALSE
