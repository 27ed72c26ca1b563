\* Workers die at any step; the rescuer runs their jobs again beside the next stage.
SPECIFICATION Spec
CONSTANTS
  Episodes = {e1}
  PollOnly = {}
  MultiTalker = {}
  MaxJobs = 3
  MaxAttempts <- MiddleTwice
  MaxTurns = 2
  MaxScripts = 2
  Events = {"crash"}
CHECK_DEADLOCK FALSE
INVARIANTS
  SegmentsContiguous
  SegmentObjectsExist
  Voicing
