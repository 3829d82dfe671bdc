SPECIFICATION FairSpec
CONSTANTS
  recipes = recipes
  ingredients = ingredients
  Null = Null
  r1 = r1
  Requests = {r1}
  Tables <- MCTables
  Relations <- MCRelations
  InitialColumns <- MCColumns
  ColumnNames = {"id", "name", "unit"}
  Connections = 2
  StartLimit = 2
  MaxAlterations = 2
  MaxFailures = 2
INVARIANTS TypeOK ServesWhatItRead OneAlterationIsNoticed SteadyService
PROPERTIES GracefulStop StopEnds ServesOrEnds
\* A service that was stopped, or given up, stays so.
CHECK_DEADLOCK FALSE
