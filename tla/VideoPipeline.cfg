SPECIFICATION PipelineSpec
CONSTANTS
  MaxEvents = 3
  Cores = {c1, c2}
  Options = {o1}
  KnownEvents = {start}
  CustomEvents = {hover}
  Absent = Absent
  Custom = Custom
  MaxRecords = 6
  MaxIncs = 2
  MaxResets = 2
  MaxExits = 2
  MaxFailures = 1
  Missing = Missing
  Partial = Partial
  MaxBids = 4
  BidPrices = {1, 2, 3}
  Weights = {1, 2}
  WinnerFloors = {0, 2}
  N = 2
  Inbounds = {"VAST", "ORTB"}
  Kinds = {"vast", "ortb", "prebid"}
  Floors = {0, 2}
  FloorCPM = 1
  Prices = {1, 2}
  AdMs = {"vast", "bad", "none"}
  MayPanic = TRUE
  None = None
  NoBid = NoBid
  Error = Error
  Document = Document
INVARIANTS ExtrasOfLiveRecords BestSoFar BestFillServed NoticesHaveOneOwner
PROPERTIES ImplementsBoundedLog DurableUntilReset ResetEventuallyForgotten Answered
CHECK_DEADLOCK FALSE
