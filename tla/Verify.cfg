\* Two runs that overlap, and a person who moves the task meanwhile.
SPECIFICATION FairSpec
CONSTANTS
  MaxTask = 0
  Remotes = {}
  MaxQuorum = 0
  NoTask = NoTask
  Runs = {r1, r2}
  MaxChecks = 2
  Outputs <- MCOutputs
  HandMoves <- MCGiveUp
  Outlived = TRUE
  Torn = TRUE
  Crashes = TRUE
INVARIANTS TypeOK VerdictFromEvidence RunInv NothingSkipped
PROPERTIES FailureStands VerifyMovesOn
CHECK_DEADLOCK FALSE
