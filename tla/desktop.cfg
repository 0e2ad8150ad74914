\* A new and an old run under three calls; cancelled, answered and unanswered calls while the
\* connection ends in every way.
SPECIFICATION DesktopSpec
CONSTANTS
  NewRun = NewRun
  OldRun = OldRun
  NoRun = NoRun
  MaxProgress = 2
  MaxCalls = 3
  Nobody = Nobody
  Glued = Glued
  Shutdown = Shutdown
  save = save
  list = list
INVARIANT ShownIsRecorded
PROPERTY EveryCallReturns
CHECK_DEADLOCK FALSE
