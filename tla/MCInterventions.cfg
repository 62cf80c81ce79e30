SPECIFICATION InterventionSpec
CONSTANTS
  Ids = {i1, i2}
  Projects = {p1}
  Unknown = {p2}
  Types = {"project_start"}
  Waiters = {w1, w2}
  Sweeps = {s1}
  NoWaiter = NoWaiter
  MaxDowns = 1
CHECK_DEADLOCK FALSE
INVARIANTS AnswerStands
PROPERTIES WaitersReleased OverdueSettles
