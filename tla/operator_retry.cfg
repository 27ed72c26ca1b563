\* An automatic source under fair workers: failing stages, operator retries, retention.
SPECIFICATION FairSpec
CONSTANTS
  Episodes = {e1}
  PollOnly = {}
  MultiTalker = {}
  MaxJobs = 2
  MaxAttempts <- TwoAttempts
  MaxTurns = 2
  MaxScripts = 2
  Events = {"retry", "cleanup"}
CHECK_DEADLOCK FALSE
INVARIANTS
  TypeOK
  NeverStranded
  OneCarrier
  PublishedVoicesScript
  FailedIsSettled
PROPERTIES
  CompletedStagesKept
  Settles
  ImplementsLifecycle
