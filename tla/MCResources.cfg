SPECIFICATION Spec
CONSTANTS
  Requests = {r1, r2, r3}
  bad = bad
  Null = null
  r1 = r1
  r2 = r2
  r3 = r3
  IdKey = "id"
  Fields <- MCFields
  NotDates <- MCNotDates
  Ids <- MCIds
  InitialRows <- MCInitialRows
  Bodies <- MCBodies
SYMMETRY Symmetry
INVARIANTS TypeOK ArgumentsMatch StoredAsSent ReplyShowsWrite DeletedOnce AnswerTellsEffect
PROPERTY KeepsContract
\* The system stops once every request is answered.
CHECK_DEADLOCK FALSE
