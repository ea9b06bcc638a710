SPECIFICATION FairSpec
CONSTANTS
  j1 = j1
  b1 = b1
  w1 = w1
  r1 = r1
  Jobs = {j1}
  Brokers = {b1}
  Workers = {w1}
  Requests = {r1}
  MaxJobs = 1
  Events = {"cancel", "manual", "overlap"}
CHECK_DEADLOCK FALSE
INVARIANTS
  NoFalseRemoval
  BrokerRunIsLedgered
PROPERTY EnqueuedJobSettles
