\* run.cancel against a busy worker.
CONSTANTS
  r1 = r1
  r2 = r2
  Run = {r1}
  Settings <- CalmOne
  NEvidence = 0
  MaxCrashes = 0
  None = None
  Stop = Stop
SPECIFICATION FairSpec
PROPERTIES
  CancelReturns
CHECK_DEADLOCK FALSE
