\* Every project of up to three tasks, ready or done, and one remote.
SPECIFICATION FairSpec
CONSTANTS
  MaxTask = 3
  Remotes = {far}
  MaxQuorum = 0
  NoTask = NoTask
  Projects <- MCStates
INVARIANTS Canonical AnswerRight SomethingToDo
PROPERTY CallEnds
CHECK_DEADLOCK FALSE
