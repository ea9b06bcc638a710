SPECIFICATION Spec
CONSTANTS
  j1 = j1
  b1 = b1
  b2 = b2
  w1 = w1
  w2 = w2
  Jobs = {j1}
  Brokers = {b1, b2}
  Workers = {w1, w2}
  Requests = {}
  MaxJobs = 1
  Events = {"lose", "cancel", "dry", "captcha", "deadline", "crash", "fail"}
CHECK_DEADLOCK FALSE
SYMMETRY Symmetry
INVARIANT TypeOK
INVARIANT NoFalseRemoval
INVARIANT OneFormPerItem
INVARIANT WaitingJobShowsCaptcha
INVARIANT FinishedJobIsSettled
