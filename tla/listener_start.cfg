\* A poll-only source: listeners start and resume episodes, an operator and retention delete them.
SPECIFICATION Spec
CONSTANTS
  Episodes = {e1}
  PollOnly = {e1}
  MultiTalker = {}
  MaxJobs = 3
  MaxAttempts <- ScriptTwice
  MaxTurns = 2
  MaxScripts = 2
  Events = {"outage", "start", "delete", "cleanup"}
CHECK_DEADLOCK FALSE
INVARIANTS
  PipelineInv
  ListenerQueueIsIdle
PROPERTIES
  FollowsLifecycle
