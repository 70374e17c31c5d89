\* A task that is offered and cannot be started: the same projects, two tasks.
SPECIFICATION Spec
CONSTANTS
  MaxTask = 2
  Remotes = {far}
  MaxQuorum = 0
  NoTask = NoTask
  Projects <- MCStates
INVARIANT OfferedStarts
CHECK_DEADLOCK FALSE
