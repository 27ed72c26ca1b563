\* Pulls of one subscription overlap, fail, run twice and end in any order.
SPECIFICATION Spec
CONSTANTS
  Owners = {m1}
  Subscriptions = {m1}
  Remote = {x}
  Origin <- AllFrom
  Overlap = 1
  Lookback = 1
  Skew = 1
  PageLimit = 1
  Limits = {}
  MaxAttempts <- TwoAttempts
  MaxClock = 3
  Runs = {r1, r2}
  MaxJobs = 2
  Events = {"softstop", "crash", "outage", "rejected"}
CHECK_DEADLOCK FALSE
INVARIANTS
  TypeOK
  NothingSkipped
  WindowInv
