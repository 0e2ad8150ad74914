SPECIFICATION Spec
CONSTANTS
  Unit = 1
  Grain = 2
  MaxInt64 = 15
  MaxSessionEnd = 9
  CoreOrder <- MCCoreOrder
  Manifests <- MCReferenceNotApplicable
  Contents <- MCContents
  Documents <- MCDocuments
  None = None
INVARIANT InspectionReports
CHECK_DEADLOCK FALSE
