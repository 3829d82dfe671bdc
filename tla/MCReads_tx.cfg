\* A request is answered once and then over.
CHECK_DEADLOCK FALSE
SPECIFICATION Spec
CONSTANTS
  Null = Null
  TypeDescriptors <- MCTypeDescriptors
  Database <- MCDatabase
  RequestsMade <- MCRequestsMade
  Drivers = {"sqlite", "mysql", "postgres", "oracle"}
  HasText <- MCHasText
  NotDates = {"no date"}
  Limit = 2
INVARIANT TxHonoured
