SPECIFICATION Spec
CONSTANTS
  Scans = {s1}
  Connectors = {c1, c2}
  Workers = {w1, w2}
  MaxActive = 1
  DailyQuota = 2
  Events = {"lose", "cancel", "deadline", "lapse", "crash", "fail"}
CHECK_DEADLOCK FALSE
INVARIANTS
  TypeOK
  AtMostOneCall
  LateCallBound
  OverrunBound
  ReportMatchesRuns
PROPERTY ImplementsDispatch
