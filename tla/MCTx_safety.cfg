SPECIFICATION Spec
CONSTANTS
  Requests = {r1, r2, r3}
  TxIds = {t1, t2}
  r1 = r1
  r2 = r2
  r3 = r3
  t1 = t1
  t2 = t2
  Nil = Nil
  Unknown = Unknown
  RunsOnTx = TRUE
  LostReply = TRUE
  MaxCrashes = 2
SYMMETRY Symmetry
INVARIANTS TypeOK CommitAckIsTrue OneCommitAck NotFoundMeansEnded AllOrNothing FailedDeleteHasNoEffect
PROPERTIES KeepsContract
\* The system stops once every request is served and every timer has fired.
CHECK_DEADLOCK FALSE
