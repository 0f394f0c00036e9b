SPECIFICATION Spec
CONSTANTS
  N = 2
  Inbounds = {"VAST"}
  Kinds = {"ortb"}
  Floors = {0}
  FloorCPM = 1
  Prices = {1, 2}
  AdMs = {"vast"}
  MayPanic = FALSE
  None = None
  NoBid = NoBid
  Error = Error
  Document = Document
INVARIANTS WinNoticeOnlyForServed
CHECK_DEADLOCK FALSE
