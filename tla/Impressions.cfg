SPECIFICATION Spec
CONSTANTS
  Auctions = {a1, a2}
  Handlers = {h1, h2}
  None = None
  BurlTTL = 1
  DedupTTL = 2
  DimTTL = 2
  MaxTime = 3
  MaxBeacons = 2
  MaxResets = 1

SYMMETRY Symmetry
INVARIANTS BilledOnceIfDue DimensionsBacked DimensionsWithinPublisher
PROPERTIES CountsFarApart
CHECK_DEADLOCK FALSE
