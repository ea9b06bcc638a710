SPECIFICATION Spec
CONSTANTS
  j1 = j1
  j2 = j2
  b1 = b1
  w1 = w1
  w2 = w2
  Jobs = {j1, j2}
  Brokers = {b1}
  Workers = {w1, w2}
  Requests = {}
  MaxJobs = 1
  Events = {"lose", "dry", "captcha", "deadline", "crash", "fail"}
CHECK_DEADLOCK FALSE
SYMMETRY Symmetry
INVARIANT QuotaRespected
INVARIANT OneFormPerWindow
