SPECIFICATION DashboardSpec
CONSTANTS
  UnitIds = {1, 2}
  CampaignIds = {1, 2}
  OldUnits = {1}
  OldCampaigns = {1}
  NoCampaign = 0
  Links <- MCLinks
  Workers = {w1, w2}
  MaxChanges = 2
  Savers = {s1, s2, s3}
  Inodes = {i1, i2, i3, i4, i5}
  NoFile = noFile
  Truncated = {truncated}
  Garbage = {garbage}
  MaxEntryChanges = 3
  MaxCrashes = 1
INVARIANTS ConfigsAgree FileWholeIfAlone SavedIfAlone
PROPERTIES EventuallyAgree
CHECK_DEADLOCK FALSE
