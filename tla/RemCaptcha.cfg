SPECIFICATION Spec
CONSTANTS
  j1 = j1
  b1 = b1
  w1 = w1
  Jobs = {j1}
  Brokers = {b1}
  Workers = {w1}
  Requests = {}
  MaxJobs = 1
  Events = {"captcha"}
CHECK_DEADLOCK FALSE
SYMMETRY Symmetry
INVARIANT SolvedCaptchaResumes
