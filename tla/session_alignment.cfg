SPECIFICATION Spec
CONSTANTS
  Unit = 1
  Grain = 2
  MaxInt64 = 15
  MaxSessionEnd = 9
  CoreOrder <- MCCoreOrder
  Manifests <- MCManifests
  Contents <- MCContents
  Documents <- MCDocuments
  None = None
INVARIANTS
  SynchronizationReports
  SessionIsAsReported
  OneClockOneTime
  PhasesAndGapsTileTheSession
CHECK_DEADLOCK FALSE
