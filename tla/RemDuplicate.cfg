SPECIFICATION Spec
CONSTANTS
  j1 = j1
  j2 = j2
  b1 = b1
  w1 = w1
  Jobs = {j1, j2}
  Brokers = {b1}
  Workers = {w1}
  Requests = {}
  MaxJobs = 1
  Events = {"crash", "deadline"}
CHECK_DEADLOCK FALSE
INVARIANT DuplicateJobsDoNotResubmit
