SPECIFICATION Spec
CONSTANTS
  equipment = equipment
  recipes = recipes
  espresso = espresso
  lungo = lungo
  r1 = r1
  r2 = r2
  r3 = r3
  Null = Null
  Requests = {r1, r2}
  Tables = {equipment, recipes}
  Related = {equipment}
  Ids = {espresso, lungo}
  NullCells <- MCNullCells
  NumColumns = 2
  OptionColumns <- MCOptionColumns
  ResultSets <- MCResultSets
SYMMETRY Symmetry
INVARIANTS TypeOK UndisturbedIsExact
\* The system stops once every request is served.
CHECK_DEADLOCK FALSE
