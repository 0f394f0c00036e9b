SPECIFICATION FairSpec
CONSTANTS
  Placements = {p1, p2}
  Configs = {c1}
  Absent = Absent
  Savers = {s1, s2}
  Backends = {"file", "db"}
  MaxChanges = 3
  MaxExits = 1
  MaxFailures = 1
  LoadMayFail = FALSE
INVARIANTS NoLostUpdate
PROPERTIES DiskNeverGoesBack PlacementsSurvive EventuallySaved
CHECK_DEADLOCK FALSE
