SPECIFICATION FairSpec
CONSTANTS
  Scans = {s1, s2}
  Connectors = {c1}
  Workers = {w1}
  MaxActive = 1
  DailyQuota = 2
  Events = {"lose", "deadline", "crash", "fail", "deep"}
CHECK_DEADLOCK FALSE
INVARIANT QuotaRespected
PROPERTY EveryScanEnds
