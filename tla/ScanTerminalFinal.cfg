SPECIFICATION FairSpec
CONSTANTS
  Scans = {s1}
  Connectors = {c1}
  Workers = {w1}
  MaxActive = 1
  DailyQuota = 2
  Events = {"cancel"}
CHECK_DEADLOCK FALSE
PROPERTY TerminalIsFinal
