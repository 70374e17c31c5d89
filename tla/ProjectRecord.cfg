\* Two processes over one project.md, with crashes and an editor.
SPECIFICATION FairSpec
CONSTANTS
  Milestones = {m1, m2}
  Slips = {m2}
  Limits <- MCLimits
  NoLimit = NoLimit
  Handmade <- MCHandmade
  Missing = Missing
  Bad = Bad
  Procs = {p1, p2}
  Commands <- MCCommands
  Crashes = TRUE
INVARIANT TypeOK
PROPERTIES LifeUnlessClash QuietWhenPaused CommandsEnd
CHECK_DEADLOCK FALSE
