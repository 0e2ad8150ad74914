\* Two runs, every interleaving of cancellation, close and one crash, without and with the faults.
CONSTANTS
  r1 = r1
  r2 = r2
  Run = {r1, r2}
  Settings <- CalmOrFaulty
  NEvidence = 0
  MaxCrashes = 1
  None = None
  Stop = Stop
SPECIFICATION Spec
SYMMETRY RunSymmetry
INVARIANTS
  ResultMatchesOutcome
  EventLogSound
  ToldIsTrue
  NoScheduledRunIsLost
PROPERTIES
  ImplementsLifecycle
CHECK_DEADLOCK FALSE
