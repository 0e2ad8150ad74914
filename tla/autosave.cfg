SPECIFICATION Spec
CONSTANTS
  Windows = {w1, w2}
  w1 = w1
  w2 = w2
  MaxEdits <- Edits
  MaxAlone <- Alone
  MaxTasks = 3
CHECK_DEADLOCK FALSE
INVARIANTS
  SavedIsSaved
  SavesAreRepeatable
PROPERTY EveryEditIsTaken
