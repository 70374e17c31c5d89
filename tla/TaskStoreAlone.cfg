\* One process at a time: the store implements TaskLife.
SPECIFICATION Spec
CONSTANTS
  MaxTask = 2
  MaxQuorum = 2
  Remotes = {}
  NoTask = NoTask
  Procs = {p1}
  Keys = {k1, k2}
  Projects <- MCBoth
  NewDocs <- MCNewDocs
  Rewrites <- MCRewrites
  Targets <- MCTargets
  Crashes = FALSE
INVARIANT AloneInv
PROPERTY ImplementsTaskLife
CHECK_DEADLOCK FALSE
