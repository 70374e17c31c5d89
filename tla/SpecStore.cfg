\* Two processes over the spec files, with crashes and an editor.
SPECIFICATION Spec
CONSTANTS
  MaxSpec = 2
  MaxName = 2
  NoSpec = NoSpec
  Broken = Broken
  Procs = {p1, p2}
  Projects <- MCProjects
  Commands <- MCCommands
  Edits <- MCEdits
  Crashes = TRUE
SYMMETRY Symmetry
INVARIANTS TypeOK RefsExist
PROPERTIES LifeUnlessClash NewTakesAFreeName
CHECK_DEADLOCK FALSE
