SPECIFICATION Spec
CONSTANTS
  Auctions = {a1}
  Handlers = {h1, h2}
  None = None
  BurlTTL = 1
  DedupTTL = 2
  DimTTL = 3
  MaxTime = 4
  MaxBeacons = 3
  MaxResets = 0

INVARIANTS CountedOnce
CHECK_DEADLOCK FALSE
