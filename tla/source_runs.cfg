\* Runs of a feed source and of a subscription, with retries and retention.
SPECIFICATION FairSpec
CONSTANTS
  Owners = {s1, m1}
  Subscriptions = {m1}
  Remote = {}
  Origin <- AllFrom
  Overlap = 1
  Lookback = 1
  Skew = 0
  PageLimit = 1
  Limits = {0}
  MaxAttempts <- TwoAttempts
  MaxClock = 2
  Runs = {r1, r2}
  MaxJobs = 2
  Events = {"delete", "cleanup"}
CHECK_DEADLOCK FALSE
INVARIANTS
  RunNeverStranded
  FailedRunIsSettled
PROPERTIES
  RunsEnd
