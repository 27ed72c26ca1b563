\* A shutdown fails the episode and puts its job back into the queue.
SPECIFICATION Spec
CONSTANTS
  Episodes = {e1}
  PollOnly = {}
  MultiTalker = {}
  MaxJobs = 2
  MaxAttempts <- TwoAttempts
  MaxTurns = 2
  MaxScripts = 2
  Events = {"softstop"}
CHECK_DEADLOCK FALSE
INVARIANTS
  FailedIsSettled
