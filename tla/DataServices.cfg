SPECIFICATION DataSpec
CONSTANTS
  Events = {e1, e2, e3}
  QueueCap = 1
  BatchSize = 2
  MaxResets = 1
  MaxSnapshots = 1
  Ids = {i1}
  Fetchers = {f1}
  MaxStoredChanges = 2
  Second = 2
  Intervals = {0, 2, 3}
  Thresholds = {0, 1, 4}
  HttpTimeout = 2
  MaxTime = 14
INVARIANTS DataTypeOK
           StoredAtMostOnce NoSilentLoss BreakdownWithinTotal
           CacheFollows RatesNotTooOld
PROPERTIES EventuallyFlushed EventuallyFollows
CHECK_DEADLOCK FALSE
