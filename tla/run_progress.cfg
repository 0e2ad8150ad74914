\* Liveness with cancellation of either run, no crash.
CONSTANTS
  r1 = r1
  r2 = r2
  Run = {r1, r2}
  Settings <- CalmOne
  NEvidence = 1
  MaxCrashes = 0
  None = None
  Stop = Stop
SPECIFICATION FairSpec
PROPERTIES
  ScheduledRunsFinish
  CancelTakesEffect
  CloseReturns
CHECK_DEADLOCK FALSE
