\* A retried poll-only episode is queued with a job behind it.
SPECIFICATION Spec
CONSTANTS
  Episodes = {e1}
  PollOnly = {e1}
  MultiTalker = {}
  MaxJobs = 2
  MaxAttempts <- TwoAttempts
  MaxTurns = 2
  MaxScripts = 2
  Events = {"start", "retry"}
CHECK_DEADLOCK FALSE
INVARIANTS
  ListenerQueueIsIdle
