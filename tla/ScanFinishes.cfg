SPECIFICATION FairSpec
CONSTANTS
  Scans = {s1}
  Connectors = {c1, c2}
  Workers = {w1, w2}
  MaxActive = 1
  DailyQuota = 2
  Events = {"cancel", "lapse"}
CHECK_DEADLOCK FALSE
PROPERTIES
  EnqueuedScanFinishes
  EveryScanEnds
