\* Two processes, two key ids, and people who change the key files.
SPECIFICATION Spec
CONSTANTS
  MaxKey = 2
  MaxPair = 2
  MaxLog = 2
  Roles <- MCRoles
  Wanted = {"uat"}
  Quorum = 2
  Dirs <- MCDirs
  Keygens <- MCKeygens
  Signings <- MCSignings
  Procs = {p1, p2}
  NoFile = NoFile
  Torn = Torn
  MaxHands = 1
SYMMETRY Symmetry
INVARIANTS TypeOK OwnSignaturesHold CleanMeansMet
PROPERTY ClosesRight
CHECK_DEADLOCK FALSE
