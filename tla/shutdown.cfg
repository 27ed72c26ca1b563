\* The stop command, worker shutdowns and an unreachable database, an episode voiced in one call.
SPECIFICATION Spec
CONSTANTS
  Episodes = {e1}
  PollOnly = {}
  MultiTalker = {e1}
  MaxJobs = 2
  MaxAttempts <- MiddleTwice
  MaxTurns = 2
  MaxScripts = 2
  Events = {"outage", "softstop", "stop", "retry"}
CHECK_DEADLOCK FALSE
INVARIANTS
  StageInputs
  LinkedAudioExists
