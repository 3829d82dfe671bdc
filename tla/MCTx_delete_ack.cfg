SPECIFICATION Spec
CONSTANTS
  Requests = {r1, r2, r3}
  TxIds = {t1}
  r1 = r1
  r2 = r2
  r3 = r3
  t1 = t1
  Nil = Nil
  Unknown = Unknown
  RunsOnTx = TRUE
  LostReply = FALSE
  MaxCrashes = 0
SYMMETRY Symmetry
INVARIANTS DeleteAckIsDurable
\* The system stops once every request is served and every timer has fired.
CHECK_DEADLOCK FALSE
