\* A remote that rejects a request: the run is failed and its job runs again.
SPECIFICATION Spec
CONSTANTS
  Owners = {m1}
  Subscriptions = {m1}
  Remote = {}
  Origin <- AllFrom
  Overlap = 1
  Lookback = 1
  Skew = 0
  PageLimit = 1
  Limits = {0}
  MaxAttempts <- TwoAttempts
  MaxClock = 2
  Runs = {r1}
  MaxJobs = 1
  Events = {"rejected"}
CHECK_DEADLOCK FALSE
INVARIANTS
  FailedRunIsSettled
