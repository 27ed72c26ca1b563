\* A script is replaced while the segments of the former one are reused.
SPECIFICATION Spec
CONSTANTS
  Episodes = {e1}
  PollOnly = {}
  MultiTalker = {}
  MaxJobs = 2
  MaxAttempts <- TwoAttempts
  MaxTurns = 2
  MaxScripts = 2
  Events = {"crash"}
CHECK_DEADLOCK FALSE
INVARIANTS
  PublishedVoicesScript
