\* A pull that its limit cuts off moves the window past what it left out.
SPECIFICATION Spec
CONSTANTS
  Owners = {m1}
  Subscriptions = {m1}
  Remote = {x, y}
  Origin <- AllFrom
  Overlap = 1
  Lookback = 4
  Skew = 0
  PageLimit = 2
  Limits = {0, 1}
  MaxAttempts <- OneAttempt
  MaxClock = 4
  Runs = {r1}
  MaxJobs = 1
  Events = {}
CHECK_DEADLOCK FALSE
INVARIANTS
  NothingSkipped
