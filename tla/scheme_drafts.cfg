SPECIFICATION Spec
CONSTANTS
  Whole = 4
  d1 = d1
  Draft = {d1}
  Library <- MCLibrary
  Schemes <- MCSchemes
  Requests <- MCRequests
  Observations <- MCObservations
  MaxVersion = 2
  MaxSchemes = 2
INVARIANTS
  SchemesCompile
  PreviewForetellsPublication
PROPERTIES
  AnswersAreExact
  VersionsTellContents
  DraftsAreTimelines
CHECK_DEADLOCK FALSE
