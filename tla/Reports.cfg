\* Two specs, three tasks, two milestones, two requirements, two metrics and up to
\* three measurements.
SPECIFICATION Spec
CONSTANTS
  MaxSpec = 2
  MaxTask = 3
  MaxDay = 2
  MaxEvals = 3
  MetricNames = {n1, n2}
  Reqs = {r1, r2}
  Milestones = {m1, m2}
  None = None
  Place <- MCPlace
  Projects <- MCProjects
SYMMETRY Symmetry
INVARIANT NothingDropped
CHECK_DEADLOCK FALSE
