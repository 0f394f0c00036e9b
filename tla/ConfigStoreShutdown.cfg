SPECIFICATION Spec
CONSTANTS
  Placements = {p1, p2}
  Configs = {c1, c2}
  Absent = Absent
  Savers = {s1}
  Backends = {"file", "db"}
  MaxChanges = 2
  MaxExits = 1
  MaxFailures = 0
  LoadMayFail = FALSE
INVARIANTS ShutdownFlushes
CHECK_DEADLOCK FALSE
