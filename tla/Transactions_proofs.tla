------------------------- MODULE Transactions_proofs -------------------------
(***************************************************************************)
(* Proofs about Transactions, for every set of requests and transactions.  *)
(***************************************************************************)
EXTENDS Transactions, TLAPS

(***************************************************************************)
(* The inductive invariant, in named parts.                                *)
(***************************************************************************)

\* What a handler is about to do tells which handler it is and on which
\* transaction it works.
Control ==
  \A r \in Requests :
    /\ pc[r] = "idle" <=> op[r] = "none"
    /\ pc[r] = "idle" => answer[r] = "none"
    /\ pc[r] = "StoreTx" => op[r] = "begin" /\ arg[r] \in TxIds
    /\ pc[r] \in {"Commit", "Committing"} =>
         op[r] \in {"commit", "exec"} /\ arg[r] \in TxIds
    /\ pc[r] = "DeleteTx" => op[r] = "commit" /\ arg[r] \in TxIds
    /\ pc[r] = "Exec" => op[r] = "exec" /\ arg[r] \in TxIds
    /\ pc[r] \in {"OwnExec", "OwnCommit"} => op[r] = "exec" /\ arg[r] = Nil
    /\ pc[r] \in {"Exec", "OwnExec"} => answer[r] = "none"
    /\ op[r] = "begin" /\ answer[r] = "200" => arg[r] \in TxIds

\* A begun transaction stays begun; an id that a client was told, or is about
\* to be told, is registered until its transaction has ended.
Registered ==
  \A r \in Requests : op[r] = "begin" /\ arg[r] \in TxIds =>
    /\ tx[arg[r]] # "none"
    /\ pc[r] \in {"reply", "done"} =>
         StringKey(arg[r]) \in registry \/ tx[arg[r]] \in EndedStates

\* The request whose Commit ended, or is ending, its transaction.
Acked(r) == pc[r] = "DeleteTx" \/ (op[r] = "commit" /\ answer[r] = "200")
Committer(r) == pc[r] = "Committing" \/ Acked(r)

OneCommitter ==
  /\ \A r \in Requests : pc[r] = "Committing" => tx[arg[r]] = "committing"
  /\ \A r \in Requests : Acked(r) => arg[r] \in TxIds /\ tx[arg[r]] = "committed"
  /\ \A q, r \in Requests : Committer(q) /\ Committer(r) /\ arg[q] = arg[r] => q = r

NotFound ==
  \A r \in Requests : op[r] = "commit" /\ answer[r] = "404" /\ arg[r] \in TxIds
    => tx[arg[r]] \in EndedStates

\* A committed transaction has left none of its statements behind.
Applied == \A t \in TxIds : tx[t] = "committed" => staged[t] \subseteq durable

\* Only a statement that was executed on a transaction is staged in it, and
\* nothing takes its answer back, unless it never came.
Staged ==
  \A t \in TxIds : \A r \in staged[t] :
    /\ op[r] = "exec" /\ arg[r] = t
    /\ answer[r] = "200" \/ r \in unheard
    /\ pc[r] \notin {"idle", "Exec"}

IInv == TypeOK /\ Control /\ Registered /\ OneCommitter /\ NotFound /\ Applied /\ Staged

-----------------------------------------------------------------------------
(***************************************************************************)
(* Typing.                                                                 *)
(***************************************************************************)

\* The initial values have their types.
LEMMA TypingInit == Init => TypeOK
  BY ConstantsAssumption DEF Init, TypeOK, TxStates, Steps, Keys

\* Every step keeps every variable in its type: Control tells that the
\* transaction a handler works on is one.
LEMMA TypingStep ==
  ASSUME TypeOK, Control, [Next]_vars
  PROVE  TypeOK'
<1> USE DEF TypeOK, txVars, effects, callVars, Goto, Answers, Steps, TxStates
<1>1. ASSUME NEW r \in Requests, CreateTx(r) PROVE TypeOK'
  <2>1. ASSUME NEW t \in TxIds, BeginTx(r, t) PROVE TypeOK'
    BY <2>1 DEF BeginTx, Receive
  <2>2. CASE BeginTxFails(r)
    BY <2>2 DEF BeginTxFails, Receive
  <2>3. CASE StoreTx(r)
    BY <2>3 DEF StoreTx, StringKey, Keys, Control
  <2>4. QED BY <1>1, <2>1, <2>2, <2>3 DEF CreateTx
<1>2. ASSUME NEW r \in Requests, CommitCall(r) PROVE TypeOK'
  <2>1. CASE CommitStarts(r)
    BY <2>1 DEF CommitStarts, CommitError
  <2>2. CASE CommitSucceeds(r)
    BY <2>2 DEF CommitSucceeds, Control
  <2>3. CASE CommitFails(r)
    BY <2>3 DEF CommitFails, CommitError, Control
  <2>4. QED BY <1>2, <2>1, <2>2, <2>3 DEF CommitCall
<1>3. ASSUME NEW r \in Requests, CommitTx(r) PROVE TypeOK'
  <2>1. ASSUME NEW t \in ClientIds, LoadForCommit(r, t) PROVE TypeOK'
    BY <2>1 DEF LoadForCommit, Receive, ClientIds, Issued
  <2>2. CASE DeleteTx(r)
    BY <2>2 DEF DeleteTx
  <2>3. QED BY <1>3, <2>1, <2>2 DEF CommitTx
<1>4. ASSUME NEW r \in Requests, ExecInTx(r) PROVE TypeOK'
  <2>1. ASSUME NEW t \in ClientIds, LoadForExec(r, t) PROVE TypeOK'
    BY <2>1 DEF LoadForExec, Receive, ClientIds, Issued
  <2>2. ASSUME NEW hit \in BOOLEAN, TxExec(r, hit) PROVE TypeOK'
    BY <2>2 DEF TxExec
  <2>3. ASSUME NEW hit \in BOOLEAN, PoolExec(r, hit) PROVE TypeOK'
    BY <2>3 DEF PoolExec
  <2>4. CASE ExecFails(r)
    BY <2>4 DEF ExecFails
  <2>5. QED BY <1>4, <2>1, <2>2, <2>3, <2>4 DEF ExecInTx
<1>5. ASSUME NEW r \in Requests, ExecAlone(r) PROVE TypeOK'
  <2>1. CASE OwnBegin(r)
    BY <2>1 DEF OwnBegin, Receive
  <2>2. CASE OwnBeginFails(r)
    BY <2>2 DEF OwnBeginFails, Receive
  <2>3. ASSUME NEW hit \in BOOLEAN, OwnExec(r, hit) PROVE TypeOK'
    BY <2>3 DEF OwnExec
  <2>4. CASE OwnExecFails(r)
    BY <2>4 DEF OwnExecFails
  <2>5. ASSUME NEW ok \in BOOLEAN, OwnCommit(r, ok) PROVE TypeOK'
    BY <2>5 DEF OwnCommit
  <2>6. QED BY <1>5, <2>1, <2>2, <2>3, <2>4, <2>5 DEF ExecAlone
<1>6. ASSUME NEW r \in Requests, Reply(r) PROVE TypeOK'
  BY <1>6 DEF Reply
<1>7. ASSUME NEW t \in TxIds, Background(t) PROVE TypeOK'
  BY <1>7 DEF Background, DeadlinePasses, RollbackOnDone, TimerStep, TimerFires,
              TimerDeletes
<1>8. CASE Crash
  <2>1. tx' \in [TxIds -> TxStates] /\ durable' \subseteq Requests
    BY <1>8 DEF Crash
  <2>2. crashes' \in 0 .. MaxCrashes
    BY <1>8, ConstantsAssumption DEF Crash
  <2>3. QED BY <1>8, <2>1, <2>2 DEF Crash
<1>9. CASE UNCHANGED vars
  BY <1>9 DEF vars
<1>10. QED
  BY <1>1, <1>2, <1>3, <1>4, <1>5, <1>6, <1>7, <1>8, <1>9 DEF Next, Handler


-----------------------------------------------------------------------------
(***************************************************************************)
(* Control.                                                                *)
(***************************************************************************)

\* No handler has begun.
LEMMA ControlInit == Init => Control
  BY DEF Init, Control

\* A client only sends ids it was told, or one that nobody was told.
LEMMA ClientIdsAreTxIds == Control => Issued \subseteq TxIds
  BY DEF Control, Issued

\* An id that is registered is the id of a transaction.
LEMMA RegisteredIsTxId ==
  ASSUME TypeOK, NEW t, StringKey(t) \in registry
  PROVE  t \in TxIds
  BY DEF TypeOK, Keys, StringKey

\* Every step leaves each handler at a call of its own, on its own
\* transaction.
LEMMA ControlStep ==
  ASSUME TypeOK, Control, [Next]_vars
  PROVE  Control'
<1> USE DEF TypeOK, Control, txVars, effects, callVars, Goto, Answers, Steps
<1>1. ASSUME NEW r \in Requests, CreateTx(r) PROVE Control'
  <2>1. ASSUME NEW t \in TxIds, BeginTx(r, t) PROVE Control'
    BY <2>1 DEF BeginTx, Receive
  <2>2. CASE BeginTxFails(r)
    BY <2>2 DEF BeginTxFails, Receive
  <2>3. CASE StoreTx(r)
    BY <2>3 DEF StoreTx
  <2>4. QED BY <1>1, <2>1, <2>2, <2>3 DEF CreateTx
<1>2. ASSUME NEW r \in Requests, CommitCall(r) PROVE Control'
  <2>1. CASE CommitStarts(r)
    BY <2>1 DEF CommitStarts, CommitError
  <2>2. CASE CommitSucceeds(r)
    BY <2>2 DEF CommitSucceeds
  <2>3. CASE CommitFails(r)
    BY <2>3 DEF CommitFails, CommitError
  <2>4. QED BY <1>2, <2>1, <2>2, <2>3 DEF CommitCall
<1>3. ASSUME NEW r \in Requests, CommitTx(r) PROVE Control'
  <2>1. ASSUME NEW t \in ClientIds, LoadForCommit(r, t) PROVE Control'
    BY <2>1, RegisteredIsTxId DEF LoadForCommit, Receive
  <2>2. CASE DeleteTx(r)
    BY <2>2 DEF DeleteTx
  <2>3. QED BY <1>3, <2>1, <2>2 DEF CommitTx
<1>4. ASSUME NEW r \in Requests, ExecInTx(r) PROVE Control'
  <2>1. ASSUME NEW t \in ClientIds, LoadForExec(r, t) PROVE Control'
    BY <2>1, RegisteredIsTxId DEF LoadForExec, Receive
  <2>2. ASSUME NEW hit \in BOOLEAN, TxExec(r, hit) PROVE Control'
    BY <2>2 DEF TxExec
  <2>3. ASSUME NEW hit \in BOOLEAN, PoolExec(r, hit) PROVE Control'
    BY <2>3 DEF PoolExec
  <2>4. CASE ExecFails(r)
    BY <2>4 DEF ExecFails
  <2>5. QED BY <1>4, <2>1, <2>2, <2>3, <2>4 DEF ExecInTx
<1>5. ASSUME NEW r \in Requests, ExecAlone(r) PROVE Control'
  <2>1. CASE OwnBegin(r)
    BY <2>1 DEF OwnBegin, Receive
  <2>2. CASE OwnBeginFails(r)
    BY <2>2 DEF OwnBeginFails, Receive
  <2>3. ASSUME NEW hit \in BOOLEAN, OwnExec(r, hit) PROVE Control'
    BY <2>3 DEF OwnExec
  <2>4. CASE OwnExecFails(r)
    BY <2>4 DEF OwnExecFails
  <2>5. ASSUME NEW ok \in BOOLEAN, OwnCommit(r, ok) PROVE Control'
    BY <2>5 DEF OwnCommit
  <2>6. QED BY <1>5, <2>1, <2>2, <2>3, <2>4, <2>5 DEF ExecAlone
<1>6. ASSUME NEW r \in Requests, Reply(r) PROVE Control'
  BY <1>6 DEF Reply
<1>7. ASSUME NEW t \in TxIds, Background(t) PROVE Control'
  BY <1>7 DEF Background, DeadlinePasses, RollbackOnDone, TimerStep, TimerFires,
              TimerDeletes
<1>8. CASE Crash
  BY <1>8 DEF Crash, InFlight
<1>9. CASE UNCHANGED vars
  BY <1>9 DEF vars
<1>10. QED
  BY <1>1, <1>2, <1>3, <1>4, <1>5, <1>6, <1>7, <1>8, <1>9 DEF Next, Handler

\* Type correctness: every variable of the registry, of the transactions and
\* of the handlers keeps its type, whatever the requests and the crashes.
THEOREM TypeCorrect == Spec => []TypeOK
<1>1. Init => TypeOK /\ Control
  BY TypingInit, ControlInit
<1>2. TypeOK /\ Control /\ [Next]_vars => (TypeOK /\ Control)'
  BY TypingStep, ControlStep
<1>3. QED
  BY <1>1, <1>2, PTL DEF Spec

-----------------------------------------------------------------------------
(***************************************************************************)
(* The transactions.                                                       *)
(***************************************************************************)

\* A crash ends what was begun and leaves alone what had ended.
LEMMA CrashEndsTx ==
  ASSUME TypeOK, Crash
  PROVE  \A t \in TxIds :
           /\ tx[t] # "none" => tx'[t] \in EndedStates
           /\ tx[t] \in EndedStates => tx'[t] = tx[t]
  BY DEF TypeOK, Crash, TxStates, EndedStates

\* Only a commit that succeeded forgets an id.
LEMMA RegisteredStep ==
  ASSUME TypeOK, Control, OneCommitter, Registered, [Next]_vars
  PROVE  Registered'
<1> USE DEF TypeOK, Control, txVars, effects, callVars, Goto, Answers, Steps, Registered, TxStates,
       EndedStates, StringKey, UuidKey
<1>1. ASSUME NEW r \in Requests, CreateTx(r) PROVE Registered'
  <2>1. ASSUME NEW t \in TxIds, BeginTx(r, t) PROVE Registered'
    BY <2>1 DEF BeginTx, Receive
  <2>2. CASE BeginTxFails(r)
    BY <2>2, ConstantsAssumption DEF BeginTxFails, Receive
  <2>3. CASE StoreTx(r)
    BY <2>3 DEF StoreTx
  <2>4. QED BY <1>1, <2>1, <2>2, <2>3 DEF CreateTx
<1>2. ASSUME NEW r \in Requests, CommitCall(r) PROVE Registered'
  <2>1. CASE CommitStarts(r)
    BY <2>1 DEF CommitStarts, CommitError, CommitRefused
  <2>2. CASE CommitSucceeds(r)
    BY <2>2 DEF CommitSucceeds
  <2>3. CASE CommitFails(r)
    BY <2>3 DEF CommitFails, CommitError
  <2>4. QED BY <1>2, <2>1, <2>2, <2>3 DEF CommitCall
<1>3. ASSUME NEW r \in Requests, CommitTx(r) PROVE Registered'
  <2>1. ASSUME NEW t \in ClientIds, LoadForCommit(r, t) PROVE Registered'
    BY <2>1 DEF LoadForCommit, Receive
  <2>2. CASE DeleteTx(r)
    BY <2>2 DEF DeleteTx, OneCommitter, Acked
  <2>3. QED BY <1>3, <2>1, <2>2 DEF CommitTx
<1>4. ASSUME NEW r \in Requests, ExecInTx(r) PROVE Registered'
  <2>1. ASSUME NEW t \in ClientIds, LoadForExec(r, t) PROVE Registered'
    BY <2>1 DEF LoadForExec, Receive
  <2>2. ASSUME NEW hit \in BOOLEAN, TxExec(r, hit) PROVE Registered'
    BY <2>2 DEF TxExec
  <2>3. ASSUME NEW hit \in BOOLEAN, PoolExec(r, hit) PROVE Registered'
    BY <2>3 DEF PoolExec
  <2>4. CASE ExecFails(r)
    BY <2>4 DEF ExecFails
  <2>5. QED BY <1>4, <2>1, <2>2, <2>3, <2>4 DEF ExecInTx
<1>5. ASSUME NEW r \in Requests, ExecAlone(r) PROVE Registered'
  <2>1. CASE OwnBegin(r)
    BY <2>1 DEF OwnBegin, Receive
  <2>2. CASE OwnBeginFails(r)
    BY <2>2 DEF OwnBeginFails, Receive
  <2>3. ASSUME NEW hit \in BOOLEAN, OwnExec(r, hit) PROVE Registered'
    BY <2>3 DEF OwnExec
  <2>4. CASE OwnExecFails(r)
    BY <2>4 DEF OwnExecFails
  <2>5. ASSUME NEW ok \in BOOLEAN, OwnCommit(r, ok) PROVE Registered'
    BY <2>5 DEF OwnCommit
  <2>6. QED BY <1>5, <2>1, <2>2, <2>3, <2>4, <2>5 DEF ExecAlone
<1>6. ASSUME NEW r \in Requests, Reply(r) PROVE Registered'
  BY <1>6 DEF Reply
<1>7. ASSUME NEW t \in TxIds, Background(t) PROVE Registered'
  <2>1. CASE DeadlinePasses(t)
    BY <2>1 DEF DeadlinePasses
  <2>2. CASE RollbackOnDone(t)
    BY <2>2 DEF RollbackOnDone
  <2>3. CASE TimerFires(t)
    BY <2>3 DEF TimerFires
  <2>4. CASE TimerDeletes(t)
    BY <2>4 DEF TimerDeletes
  <2>5. QED BY <1>7, <2>1, <2>2, <2>3, <2>4 DEF Background, TimerStep
<1>8. CASE Crash
  BY <1>8, CrashEndsTx DEF Crash, InFlight
<1>9. CASE UNCHANGED vars
  BY <1>9 DEF vars
<1>10. QED
  BY <1>1, <1>2, <1>3, <1>4, <1>5, <1>6, <1>7, <1>8, <1>9 DEF Next, Handler

\* Commit lets one request through, as it is refused once the transaction is
\* no longer open.
LEMMA OneCommitterStep ==
  ASSUME TypeOK, Control, OneCommitter, [Next]_vars
  PROVE  OneCommitter'
<1> USE DEF TypeOK, Control, txVars, effects, callVars, Goto, Answers, Steps, OneCommitter,
       Acked, Committer, TxStates
<1>1. ASSUME NEW r \in Requests, CreateTx(r) PROVE OneCommitter'
  <2>1. ASSUME NEW t \in TxIds, BeginTx(r, t) PROVE OneCommitter'
    BY <2>1 DEF BeginTx, Receive
  <2>2. CASE BeginTxFails(r)
    BY <2>2 DEF BeginTxFails, Receive
  <2>3. CASE StoreTx(r)
    BY <2>3 DEF StoreTx
  <2>4. QED BY <1>1, <2>1, <2>2, <2>3 DEF CreateTx
<1>2. ASSUME NEW r \in Requests, CommitCall(r) PROVE OneCommitter'
  <2>1. CASE CommitStarts(r)
    BY <2>1 DEF CommitStarts, CommitError, CommitRefused
  <2>2. CASE CommitSucceeds(r)
    BY <2>2 DEF CommitSucceeds
  <2>3. CASE CommitFails(r)
    BY <2>3 DEF CommitFails, CommitError
  <2>4. QED BY <1>2, <2>1, <2>2, <2>3 DEF CommitCall
<1>3. ASSUME NEW r \in Requests, CommitTx(r) PROVE OneCommitter'
  <2>1. ASSUME NEW t \in ClientIds, LoadForCommit(r, t) PROVE OneCommitter'
    BY <2>1 DEF LoadForCommit, Receive
  <2>2. CASE DeleteTx(r)
    BY <2>2 DEF DeleteTx
  <2>3. QED BY <1>3, <2>1, <2>2 DEF CommitTx
<1>4. ASSUME NEW r \in Requests, ExecInTx(r) PROVE OneCommitter'
  <2>1. ASSUME NEW t \in ClientIds, LoadForExec(r, t) PROVE OneCommitter'
    BY <2>1 DEF LoadForExec, Receive
  <2>2. ASSUME NEW hit \in BOOLEAN, TxExec(r, hit) PROVE OneCommitter'
    BY <2>2 DEF TxExec
  <2>3. ASSUME NEW hit \in BOOLEAN, PoolExec(r, hit) PROVE OneCommitter'
    BY <2>3 DEF PoolExec
  <2>4. CASE ExecFails(r)
    BY <2>4 DEF ExecFails
  <2>5. QED BY <1>4, <2>1, <2>2, <2>3, <2>4 DEF ExecInTx
<1>5. ASSUME NEW r \in Requests, ExecAlone(r) PROVE OneCommitter'
  <2>1. CASE OwnBegin(r)
    BY <2>1 DEF OwnBegin, Receive
  <2>2. CASE OwnBeginFails(r)
    BY <2>2 DEF OwnBeginFails, Receive
  <2>3. ASSUME NEW hit \in BOOLEAN, OwnExec(r, hit) PROVE OneCommitter'
    BY <2>3 DEF OwnExec
  <2>4. CASE OwnExecFails(r)
    BY <2>4 DEF OwnExecFails
  <2>5. ASSUME NEW ok \in BOOLEAN, OwnCommit(r, ok) PROVE OneCommitter'
    BY <2>5 DEF OwnCommit
  <2>6. QED BY <1>5, <2>1, <2>2, <2>3, <2>4, <2>5 DEF ExecAlone
<1>6. ASSUME NEW r \in Requests, Reply(r) PROVE OneCommitter'
  BY <1>6 DEF Reply
<1>7. ASSUME NEW t \in TxIds, Background(t) PROVE OneCommitter'
  <2>1. CASE DeadlinePasses(t)
    BY <2>1 DEF DeadlinePasses
  <2>2. CASE RollbackOnDone(t)
    BY <2>2 DEF RollbackOnDone
  <2>3. CASE TimerFires(t)
    BY <2>3 DEF TimerFires
  <2>4. CASE TimerDeletes(t)
    BY <2>4 DEF TimerDeletes
  <2>5. QED BY <1>7, <2>1, <2>2, <2>3, <2>4 DEF Background, TimerStep
<1>8. CASE Crash
  BY <1>8 DEF Crash, InFlight
<1>9. CASE UNCHANGED vars
  BY <1>9 DEF vars
<1>10. QED
  BY <1>1, <1>2, <1>3, <1>4, <1>5, <1>6, <1>7, <1>8, <1>9 DEF Next, Handler

\* An id is only missing when its transaction has ended.
LEMMA NotFoundStep ==
  ASSUME TypeOK, Control, Registered, NotFound, [Next]_vars
  PROVE  NotFound'
<1> USE DEF TypeOK, Control, txVars, effects, callVars, Goto, Answers, Steps, NotFound,
       TxStates, EndedStates
<1>1. ASSUME NEW r \in Requests, CreateTx(r) PROVE NotFound'
  <2>1. ASSUME NEW t \in TxIds, BeginTx(r, t) PROVE NotFound'
    BY <2>1 DEF BeginTx, Receive
  <2>2. CASE BeginTxFails(r)
    BY <2>2 DEF BeginTxFails, Receive
  <2>3. CASE StoreTx(r)
    BY <2>3 DEF StoreTx
  <2>4. QED BY <1>1, <2>1, <2>2, <2>3 DEF CreateTx
<1>2. ASSUME NEW r \in Requests, CommitCall(r) PROVE NotFound'
  <2>1. CASE CommitStarts(r)
    BY <2>1 DEF CommitStarts, CommitError, CommitRefused
  <2>2. CASE CommitSucceeds(r)
    BY <2>2 DEF CommitSucceeds
  <2>3. CASE CommitFails(r)
    BY <2>3 DEF CommitFails, CommitError
  <2>4. QED BY <1>2, <2>1, <2>2, <2>3 DEF CommitCall
<1>3. ASSUME NEW r \in Requests, CommitTx(r) PROVE NotFound'
  <2>1. ASSUME NEW t \in ClientIds, LoadForCommit(r, t) PROVE NotFound'
    BY <2>1, ConstantsAssumption DEF LoadForCommit, Receive, Registered, ClientIds, Issued
  <2>2. CASE DeleteTx(r)
    BY <2>2 DEF DeleteTx
  <2>3. QED BY <1>3, <2>1, <2>2 DEF CommitTx
<1>4. ASSUME NEW r \in Requests, ExecInTx(r) PROVE NotFound'
  <2>1. ASSUME NEW t \in ClientIds, LoadForExec(r, t) PROVE NotFound'
    BY <2>1 DEF LoadForExec, Receive
  <2>2. ASSUME NEW hit \in BOOLEAN, TxExec(r, hit) PROVE NotFound'
    BY <2>2 DEF TxExec
  <2>3. ASSUME NEW hit \in BOOLEAN, PoolExec(r, hit) PROVE NotFound'
    BY <2>3 DEF PoolExec
  <2>4. CASE ExecFails(r)
    BY <2>4 DEF ExecFails
  <2>5. QED BY <1>4, <2>1, <2>2, <2>3, <2>4 DEF ExecInTx
<1>5. ASSUME NEW r \in Requests, ExecAlone(r) PROVE NotFound'
  <2>1. CASE OwnBegin(r)
    BY <2>1 DEF OwnBegin, Receive
  <2>2. CASE OwnBeginFails(r)
    BY <2>2 DEF OwnBeginFails, Receive
  <2>3. ASSUME NEW hit \in BOOLEAN, OwnExec(r, hit) PROVE NotFound'
    BY <2>3 DEF OwnExec
  <2>4. CASE OwnExecFails(r)
    BY <2>4 DEF OwnExecFails
  <2>5. ASSUME NEW ok \in BOOLEAN, OwnCommit(r, ok) PROVE NotFound'
    BY <2>5 DEF OwnCommit
  <2>6. QED BY <1>5, <2>1, <2>2, <2>3, <2>4, <2>5 DEF ExecAlone
<1>6. ASSUME NEW r \in Requests, Reply(r) PROVE NotFound'
  BY <1>6 DEF Reply
<1>7. ASSUME NEW t \in TxIds, Background(t) PROVE NotFound'
  <2>1. CASE DeadlinePasses(t)
    BY <2>1 DEF DeadlinePasses
  <2>2. CASE RollbackOnDone(t)
    BY <2>2 DEF RollbackOnDone
  <2>3. CASE TimerFires(t)
    BY <2>3 DEF TimerFires
  <2>4. CASE TimerDeletes(t)
    BY <2>4 DEF TimerDeletes
  <2>5. QED BY <1>7, <2>1, <2>2, <2>3, <2>4 DEF Background, TimerStep
<1>8. CASE Crash
  BY <1>8 DEF Crash, InFlight
<1>9. CASE UNCHANGED vars
  BY <1>9 DEF vars
<1>10. QED
  BY <1>1, <1>2, <1>3, <1>4, <1>5, <1>6, <1>7, <1>8, <1>9 DEF Next, Handler

\* A commit applies every statement, and none joins later.
LEMMA AppliedStep ==
  ASSUME TypeOK, Control, OneCommitter, Applied, [Next]_vars
  PROVE  Applied'
<1> USE DEF TypeOK, Control, txVars, effects, callVars, Goto, Answers, Steps, Applied,
       TxStates
<1>1. ASSUME NEW r \in Requests, CreateTx(r) PROVE Applied'
  <2>1. ASSUME NEW t \in TxIds, BeginTx(r, t) PROVE Applied'
    BY <2>1 DEF BeginTx, Receive
  <2>2. CASE BeginTxFails(r)
    BY <2>2 DEF BeginTxFails, Receive
  <2>3. CASE StoreTx(r)
    BY <2>3 DEF StoreTx
  <2>4. QED BY <1>1, <2>1, <2>2, <2>3 DEF CreateTx
<1>2. ASSUME NEW r \in Requests, CommitCall(r) PROVE Applied'
  <2>1. CASE CommitStarts(r)
    BY <2>1 DEF CommitStarts, CommitError, CommitRefused
  <2>2. CASE CommitSucceeds(r)
    BY <2>2 DEF CommitSucceeds
  <2>3. CASE CommitFails(r)
    BY <2>3 DEF CommitFails, CommitError
  <2>4. QED BY <1>2, <2>1, <2>2, <2>3 DEF CommitCall
<1>3. ASSUME NEW r \in Requests, CommitTx(r) PROVE Applied'
  <2>1. ASSUME NEW t \in ClientIds, LoadForCommit(r, t) PROVE Applied'
    BY <2>1 DEF LoadForCommit, Receive
  <2>2. CASE DeleteTx(r)
    BY <2>2 DEF DeleteTx
  <2>3. QED BY <1>3, <2>1, <2>2 DEF CommitTx
<1>4. ASSUME NEW r \in Requests, ExecInTx(r) PROVE Applied'
  <2>1. ASSUME NEW t \in ClientIds, LoadForExec(r, t) PROVE Applied'
    BY <2>1 DEF LoadForExec, Receive
  <2>2. ASSUME NEW hit \in BOOLEAN, TxExec(r, hit) PROVE Applied'
    BY <2>2 DEF TxExec
  <2>3. ASSUME NEW hit \in BOOLEAN, PoolExec(r, hit) PROVE Applied'
    BY <2>3 DEF PoolExec
  <2>4. CASE ExecFails(r)
    BY <2>4 DEF ExecFails
  <2>5. QED BY <1>4, <2>1, <2>2, <2>3, <2>4 DEF ExecInTx
<1>5. ASSUME NEW r \in Requests, ExecAlone(r) PROVE Applied'
  <2>1. CASE OwnBegin(r)
    BY <2>1 DEF OwnBegin, Receive
  <2>2. CASE OwnBeginFails(r)
    BY <2>2 DEF OwnBeginFails, Receive
  <2>3. ASSUME NEW hit \in BOOLEAN, OwnExec(r, hit) PROVE Applied'
    BY <2>3 DEF OwnExec
  <2>4. CASE OwnExecFails(r)
    BY <2>4 DEF OwnExecFails
  <2>5. ASSUME NEW ok \in BOOLEAN, OwnCommit(r, ok) PROVE Applied'
    BY <2>5 DEF OwnCommit
  <2>6. QED BY <1>5, <2>1, <2>2, <2>3, <2>4, <2>5 DEF ExecAlone
<1>6. ASSUME NEW r \in Requests, Reply(r) PROVE Applied'
  BY <1>6 DEF Reply
<1>7. ASSUME NEW t \in TxIds, Background(t) PROVE Applied'
  <2>1. CASE DeadlinePasses(t)
    BY <2>1 DEF DeadlinePasses
  <2>2. CASE RollbackOnDone(t)
    BY <2>2 DEF RollbackOnDone
  <2>3. CASE TimerFires(t)
    BY <2>3 DEF TimerFires
  <2>4. CASE TimerDeletes(t)
    BY <2>4 DEF TimerDeletes
  <2>5. QED BY <1>7, <2>1, <2>2, <2>3, <2>4 DEF Background, TimerStep
<1>8. CASE Crash
  BY <1>8 DEF Crash, InFlight
<1>9. CASE UNCHANGED vars
  BY <1>9 DEF vars
<1>10. QED
  BY <1>1, <1>2, <1>3, <1>4, <1>5, <1>6, <1>7, <1>8, <1>9 DEF Next, Handler

\* A statement is staged by the step that answers its request.
LEMMA StagedStep ==
  ASSUME TypeOK, Control, Staged, [Next]_vars
  PROVE  Staged'
<1> USE DEF TypeOK, Control, txVars, effects, callVars, Goto, Answers, Steps, Staged, TxStates
<1>1. ASSUME NEW r \in Requests, CreateTx(r) PROVE Staged'
  <2>1. ASSUME NEW t \in TxIds, BeginTx(r, t) PROVE Staged'
    BY <2>1 DEF BeginTx, Receive
  <2>2. CASE BeginTxFails(r)
    BY <2>2 DEF BeginTxFails, Receive
  <2>3. CASE StoreTx(r)
    BY <2>3 DEF StoreTx
  <2>4. QED BY <1>1, <2>1, <2>2, <2>3 DEF CreateTx
<1>2. ASSUME NEW r \in Requests, CommitCall(r) PROVE Staged'
  <2>1. CASE CommitStarts(r)
    BY <2>1 DEF CommitStarts, CommitError, CommitRefused
  <2>2. CASE CommitSucceeds(r)
    BY <2>2 DEF CommitSucceeds
  <2>3. CASE CommitFails(r)
    BY <2>3 DEF CommitFails, CommitError
  <2>4. QED BY <1>2, <2>1, <2>2, <2>3 DEF CommitCall
<1>3. ASSUME NEW r \in Requests, CommitTx(r) PROVE Staged'
  <2>1. ASSUME NEW t \in ClientIds, LoadForCommit(r, t) PROVE Staged'
    BY <2>1 DEF LoadForCommit, Receive
  <2>2. CASE DeleteTx(r)
    BY <2>2 DEF DeleteTx
  <2>3. QED BY <1>3, <2>1, <2>2 DEF CommitTx
<1>4. ASSUME NEW r \in Requests, ExecInTx(r) PROVE Staged'
  <2>1. ASSUME NEW t \in ClientIds, LoadForExec(r, t) PROVE Staged'
    BY <2>1 DEF LoadForExec, Receive
  <2>2. ASSUME NEW hit \in BOOLEAN, TxExec(r, hit) PROVE Staged'
    BY <2>2 DEF TxExec
  <2>3. ASSUME NEW hit \in BOOLEAN, PoolExec(r, hit) PROVE Staged'
    BY <2>3 DEF PoolExec
  <2>4. CASE ExecFails(r)
    BY <2>4 DEF ExecFails
  <2>5. QED BY <1>4, <2>1, <2>2, <2>3, <2>4 DEF ExecInTx
<1>5. ASSUME NEW r \in Requests, ExecAlone(r) PROVE Staged'
  <2>1. CASE OwnBegin(r)
    BY <2>1 DEF OwnBegin, Receive
  <2>2. CASE OwnBeginFails(r)
    BY <2>2 DEF OwnBeginFails, Receive
  <2>3. ASSUME NEW hit \in BOOLEAN, OwnExec(r, hit) PROVE Staged'
    BY <2>3, ConstantsAssumption DEF OwnExec
  <2>4. CASE OwnExecFails(r)
    BY <2>4, ConstantsAssumption DEF OwnExecFails
  <2>5. ASSUME NEW ok \in BOOLEAN, OwnCommit(r, ok) PROVE Staged'
    BY <2>5 DEF OwnCommit
  <2>6. QED BY <1>5, <2>1, <2>2, <2>3, <2>4, <2>5 DEF ExecAlone
<1>6. ASSUME NEW r \in Requests, Reply(r) PROVE Staged'
  BY <1>6 DEF Reply
<1>7. ASSUME NEW t \in TxIds, Background(t) PROVE Staged'
  <2>1. CASE DeadlinePasses(t)
    BY <2>1 DEF DeadlinePasses
  <2>2. CASE RollbackOnDone(t)
    BY <2>2 DEF RollbackOnDone
  <2>3. CASE TimerFires(t)
    BY <2>3 DEF TimerFires
  <2>4. CASE TimerDeletes(t)
    BY <2>4 DEF TimerDeletes
  <2>5. QED BY <1>7, <2>1, <2>2, <2>3, <2>4 DEF Background, TimerStep
<1>8. CASE Crash
  BY <1>8 DEF Crash, InFlight
<1>9. CASE UNCHANGED vars
  BY <1>9 DEF vars
<1>10. QED
  BY <1>1, <1>2, <1>3, <1>4, <1>5, <1>6, <1>7, <1>8, <1>9 DEF Next, Handler

\* The invariant is inductive.
LEMMA IInvInit == Init => IInv
<1> SUFFICES ASSUME Init PROVE IInv
  OBVIOUS
<1>1. TypeOK /\ Control
  BY TypingInit, ControlInit
<1>2. Registered /\ NotFound /\ Applied /\ Staged
  BY DEF Init, Registered, NotFound, Applied, Staged
<1>3. OneCommitter
  BY DEF Init, OneCommitter, Committer, Acked
<1>4. QED
  BY <1>1, <1>2, <1>3 DEF IInv

\* Every step keeps the invariant.
LEMMA IInvStep == IInv /\ [Next]_vars => IInv'
  BY TypingStep, ControlStep, RegisteredStep, OneCommitterStep, NotFoundStep,
     AppliedStep, StagedStep DEF IInv

\* So it holds throughout.
LEMMA IInvHolds == Spec => []IInv
  BY IInvInit, IInvStep, PTL DEF Spec

-----------------------------------------------------------------------------
(***************************************************************************)
(* What clients are told about commits.                                    *)
(***************************************************************************)

\* "successfully committed" is only said of a transaction that committed, all
\* of its statements included.
THEOREM CommitAckTheorem == Spec => []CommitAckIsTrue
<1>1. IInv => CommitAckIsTrue
  BY DEF IInv, OneCommitter, Acked, Applied, CommitAckIsTrue, Answered
<1>2. QED
  BY <1>1, IInvHolds, PTL

\* Of the requests that race to commit a transaction one at most is told that
\* it did.
THEOREM OneCommitAckTheorem == Spec => []OneCommitAck
<1>1. IInv => OneCommitAck
  BY DEF IInv, OneCommitter, Committer, Acked, OneCommitAck, Answered
<1>2. QED
  BY <1>1, IInvHolds, PTL

\* A client that is told its transaction is not among the open ones has not
\* lost an open transaction.
THEOREM NotFoundTheorem == Spec => []NotFoundMeansEnded
<1>1. IInv => NotFoundMeansEnded
  BY ClientIdsAreTxIds DEF IInv, NotFound, NotFoundMeansEnded, Answered
<1>2. QED
  BY <1>1, IInvHolds, PTL

-----------------------------------------------------------------------------
(***************************************************************************)
(* What a statement does, with the execContext of db.go.                   *)
(***************************************************************************)

\* AllOrNothing; only a statement has an effect, and none before it runs or
\* when it was sent to no transaction.
Atomic ==
  /\ AllOrNothing
  /\ \A r \in durable \cup unheard : op[r] = "exec" /\ arg[r] # Unknown
  /\ \A r \in Requests : pc[r] = "OwnExec" => r \notin durable

\* The effects of a transaction appear when it commits, and that of a
\* statement outside of one when it runs.
LEMMA AtomicStep ==
  ASSUME RunsOnTx, TypeOK, Control, OneCommitter, Staged, Atomic, [Next]_vars
  PROVE  Atomic'
<1> USE DEF TypeOK, Control, txVars, effects, callVars, Goto, Answers, Steps, Atomic,
       AllOrNothing, Staged, OneCommitter, TxStates
<1>1. ASSUME NEW r \in Requests, CreateTx(r) PROVE Atomic'
  <2>1. ASSUME NEW t \in TxIds, BeginTx(r, t) PROVE Atomic'
    BY <2>1 DEF BeginTx, Receive
  <2>2. CASE BeginTxFails(r)
    BY <2>2 DEF BeginTxFails, Receive
  <2>3. CASE StoreTx(r)
    BY <2>3 DEF StoreTx
  <2>4. QED BY <1>1, <2>1, <2>2, <2>3 DEF CreateTx
<1>2. ASSUME NEW r \in Requests, CommitCall(r) PROVE Atomic'
  <2>1. CASE CommitStarts(r)
    BY <2>1 DEF CommitStarts, CommitError, CommitRefused
  <2>2. CASE CommitSucceeds(r)
    BY <2>2, ConstantsAssumption DEF CommitSucceeds
  <2>3. CASE CommitFails(r)
    BY <2>3, ConstantsAssumption DEF CommitFails, CommitError
  <2>4. QED BY <1>2, <2>1, <2>2, <2>3 DEF CommitCall
<1>3. ASSUME NEW r \in Requests, CommitTx(r) PROVE Atomic'
  <2>1. ASSUME NEW t \in ClientIds, LoadForCommit(r, t) PROVE Atomic'
    BY <2>1 DEF LoadForCommit, Receive
  <2>2. CASE DeleteTx(r)
    BY <2>2 DEF DeleteTx
  <2>3. QED BY <1>3, <2>1, <2>2 DEF CommitTx
<1>4. ASSUME NEW r \in Requests, ExecInTx(r) PROVE Atomic'
  <2>1. ASSUME NEW t \in ClientIds, LoadForExec(r, t) PROVE Atomic'
    BY <2>1, ConstantsAssumption, ClientIdsAreTxIds DEF LoadForExec, Receive, ClientIds
  <2>2. ASSUME NEW hit \in BOOLEAN, TxExec(r, hit) PROVE Atomic'
    BY <2>2, ConstantsAssumption DEF TxExec
  <2>3. ASSUME NEW hit \in BOOLEAN, PoolExec(r, hit) PROVE Atomic'
    BY <2>3, ConstantsAssumption DEF PoolExec
  <2>4. CASE ExecFails(r)
    BY <2>4, ConstantsAssumption DEF ExecFails
  <2>5. QED BY <1>4, <2>1, <2>2, <2>3, <2>4 DEF ExecInTx
<1>5. ASSUME NEW r \in Requests, ExecAlone(r) PROVE Atomic'
  <2>1. CASE OwnBegin(r)
    BY <2>1, ConstantsAssumption DEF OwnBegin, Receive
  <2>2. CASE OwnBeginFails(r)
    BY <2>2, ConstantsAssumption DEF OwnBeginFails, Receive
  <2>3. ASSUME NEW hit \in BOOLEAN, OwnExec(r, hit) PROVE Atomic'
    BY <2>3, ConstantsAssumption DEF OwnExec
  <2>4. CASE OwnExecFails(r)
    BY <2>4, ConstantsAssumption DEF OwnExecFails
  <2>5. ASSUME NEW ok \in BOOLEAN, OwnCommit(r, ok) PROVE Atomic'
    BY <2>5 DEF OwnCommit
  <2>6. QED BY <1>5, <2>1, <2>2, <2>3, <2>4, <2>5 DEF ExecAlone
<1>6. ASSUME NEW r \in Requests, Reply(r) PROVE Atomic'
  BY <1>6 DEF Reply
<1>7. ASSUME NEW t \in TxIds, Background(t) PROVE Atomic'
  <2>1. CASE DeadlinePasses(t)
    BY <2>1 DEF DeadlinePasses
  <2>2. CASE RollbackOnDone(t)
    BY <2>2 DEF RollbackOnDone
  <2>3. CASE TimerFires(t)
    BY <2>3 DEF TimerFires
  <2>4. CASE TimerDeletes(t)
    BY <2>4 DEF TimerDeletes
  <2>5. QED BY <1>7, <2>1, <2>2, <2>3, <2>4 DEF Background, TimerStep
<1>8. CASE Crash
  BY <1>8, ConstantsAssumption DEF Crash, InFlight
<1>9. CASE UNCHANGED vars
  BY <1>9 DEF vars
<1>10. QED
  BY <1>1, <1>2, <1>3, <1>4, <1>5, <1>6, <1>7, <1>8, <1>9 DEF Next, Handler

\* A statement sent with an id takes effect exactly if the transaction of
\* that id executed it and committed, one sent without if its request is told
\* so or the answer to it was lost.
THEOREM AllOrNothingTheorem ==
  ASSUME RunsOnTx
  PROVE  Spec => []AllOrNothing
<1>1. Init => Atomic
  BY ConstantsAssumption DEF Init, Atomic, AllOrNothing
<1>2. IInv /\ Atomic /\ [Next]_vars => Atomic'
  BY AtomicStep DEF IInv
<1>3. Atomic => AllOrNothing
  BY DEF Atomic
<1>4. QED
  BY <1>1, <1>2, <1>3, IInvHolds, PTL DEF Spec

-----------------------------------------------------------------------------
(***************************************************************************)
(* Failed statements.                                                      *)
(***************************************************************************)

\* A DELETE answered with 500 has no effect, then or later, unless the answer
\* to its statement was lost.
THEOREM FailedDeleteTheorem ==
  ASSUME RunsOnTx
  PROVE  Spec => []FailedDeleteHasNoEffect
<1>1. Init => Atomic
  BY ConstantsAssumption DEF Init, Atomic, AllOrNothing
<1>2. IInv /\ Atomic /\ [Next]_vars => Atomic'
  BY AtomicStep DEF IInv
<1>3. IInv /\ Atomic => FailedDeleteHasNoEffect
  BY DEF IInv, TypeOK, Atomic, AllOrNothing, Staged, FailedDeleteHasNoEffect,
         Answered
<1>4. QED
  BY <1>1, <1>2, <1>3, IInvHolds, PTL DEF Spec

-----------------------------------------------------------------------------
(***************************************************************************)
(* Refinement.                                                             *)
(***************************************************************************)

\* Both start with nothing begun.
LEMMA ContractInit == Init => Contract!CInit
  BY DEF Init, Contract!CInit, statusBar

\* A statement about to run is new to the contract.
LEMMA NewStatement ==
  ASSUME RunsOnTx, TypeOK, Control, Staged, Atomic,
         NEW r \in Requests, pc[r] \in {"Exec", "OwnExec"}
  PROVE  r \notin durable /\ \A u \in TxIds : r \notin staged[u]
<1>1. CASE pc[r] = "Exec"
  BY <1>1 DEF Control, Staged, Atomic, AllOrNothing
<1>2. CASE pc[r] = "OwnExec"
  BY <1>2, ConstantsAssumption DEF Control, Staged, Atomic
<1>3. QED BY <1>1, <1>2

\* Every step is a step of the contract or leaves its variables alone.
LEMMA ContractStep ==
  ASSUME RunsOnTx, IInv, Atomic, [Next]_vars
  PROVE  [Contract!CNext]_(Contract!cvars)
<1> DEFINE Stutter == UNCHANGED <<statusBar, staged, durable>>
<1> SUFFICES Contract!CNext \/ Stutter
  BY DEF Contract!cvars
<1> USE DEF IInv, TypeOK, txVars, effects, callVars, Goto, Answers
<1>1. ASSUME NEW r \in Requests, CreateTx(r) PROVE Contract!CNext \/ Stutter
  <2>1. ASSUME NEW t \in TxIds, BeginTx(r, t) PROVE Contract!CBegin(t)
    BY <2>1 DEF BeginTx, statusBar, Contract!CBegin
  <2>2. CASE BeginTxFails(r)
    BY <2>2 DEF BeginTxFails, statusBar
  <2>3. CASE StoreTx(r)
    BY <2>3 DEF StoreTx, statusBar
  <2>4. QED BY <1>1, <2>1, <2>2, <2>3 DEF CreateTx, Contract!CNext
<1>2. ASSUME NEW r \in Requests, CommitCall(r) PROVE Contract!CNext \/ Stutter
  <2> DEFINE t == arg[r]
  <2>1. CASE CommitStarts(r)
    BY <2>1 DEF CommitStarts, CommitError, CommitRefused, Control, statusBar
  <2>2. CASE pc[r] = "Committing"
    <3>1. t \in TxIds /\ tx[t] = "committing"
      BY <2>2 DEF Control, OneCommitter
    <3>2. ASSUME tx' = [tx EXCEPT ![t] = "committed"], durable' = durable \cup staged[t],
                 UNCHANGED staged
          PROVE  Contract!CEnd({t}, {})
      BY <3>1, <3>2 DEF statusBar, Contract!CEnd
    <3>3. ASSUME tx' = [tx EXCEPT ![t] = "rolledback"], UNCHANGED <<durable, staged>>
          PROVE  Contract!CEnd({}, {t})
      BY <3>1, <3>3 DEF statusBar, Contract!CEnd
    <3>4. {t} \in SUBSET TxIds /\ {} \in SUBSET TxIds
      BY <3>1
    <3>5. CASE CommitSucceeds(r)
      BY <3>2, <3>4, <3>5 DEF CommitSucceeds, Contract!CNext
    <3>6. CASE CommitFails(r)
      BY <3>2, <3>3, <3>4, <3>6 DEF CommitFails, Contract!CNext
    <3>7. QED BY <1>2, <2>1, <3>5, <3>6 DEF CommitCall
  <2>3. QED BY <1>2, <2>1, <2>2 DEF CommitCall, CommitSucceeds, CommitFails
<1>3. ASSUME NEW r \in Requests, CommitTx(r) PROVE Stutter
  BY <1>3 DEF CommitTx, LoadForCommit, DeleteTx, Receive, statusBar
<1>4. ASSUME NEW r \in Requests, ExecInTx(r) PROVE Contract!CNext \/ Stutter
  <2>1. ASSUME NEW t \in ClientIds, LoadForExec(r, t) PROVE Stutter
    BY <2>1 DEF LoadForExec, Receive, statusBar
  <2>2. ASSUME TxExec(r, TRUE) PROVE Contract!CStage(arg[r], r)
    BY <2>2, NewStatement DEF TxExec, Control, statusBar, Contract!CStage
  <2>3. ASSUME TxExec(r, FALSE) PROVE Stutter
    BY <2>3 DEF TxExec, statusBar
  <2>4. CASE ExecFails(r)
    <3>1. CASE UNCHANGED <<staged, effects>>
      BY <2>4, <3>1 DEF ExecFails, statusBar
    <3>2. ASSUME tx[arg[r]] = "open",
                 staged' = [staged EXCEPT ![arg[r]] = @ \cup {r}], UNCHANGED durable
          PROVE  Contract!CStage(arg[r], r)
      BY <2>4, <3>2, NewStatement DEF ExecFails, Control, statusBar, Contract!CStage
    <3>3. arg[r] \in TxIds
      BY <2>4 DEF ExecFails, Control
    <3>4. QED BY <2>4, <3>1, <3>2, <3>3 DEF ExecFails, Contract!CNext
  <2>5. QED
    BY <1>4, <2>1, <2>2, <2>3, <2>4 DEF ExecInTx, TxExec, PoolExec, Control,
       Contract!CNext
<1>5. ASSUME NEW r \in Requests, ExecAlone(r) PROVE Contract!CNext \/ Stutter
  <2>1. CASE OwnBegin(r) \/ OwnBeginFails(r) \/ \E ok \in BOOLEAN : OwnCommit(r, ok)
    BY <2>1 DEF OwnBegin, OwnBeginFails, OwnCommit, Receive, statusBar
  <2>2. CASE pc[r] = "OwnExec" /\ durable' = durable \cup {r}
             /\ UNCHANGED <<tx, staged>>
    <3>1. Contract!CAlone(r)
      BY <2>2, NewStatement DEF statusBar, Contract!CAlone
    <3>2. QED BY <3>1 DEF Contract!CNext
  <2>3. CASE UNCHANGED <<tx, staged, durable>>
    BY <2>3 DEF statusBar
  <2>4. QED
    BY <1>5, <2>1, <2>2, <2>3 DEF ExecAlone, OwnExec, OwnExecFails
<1>6. ASSUME NEW r \in Requests, Reply(r) PROVE Stutter
  BY <1>6 DEF Reply, statusBar
<1>7. ASSUME NEW t \in TxIds, Background(t) PROVE Contract!CNext \/ Stutter
  <2>1. CASE RollbackOnDone(t)
    <3>1. Contract!CEnd({}, {t})
      BY <2>1 DEF RollbackOnDone, statusBar, Contract!CEnd
    <3>2. QED BY <3>1 DEF Contract!CNext
  <2>2. CASE UNCHANGED <<tx, staged, durable>>
    BY <2>2 DEF statusBar
  <2>3. QED
    BY <1>7, <2>1, <2>2 DEF Background, DeadlinePasses, TimerStep, TimerFires,
       TimerDeletes
<1>8. CASE Crash
  <2>1. PICK C \in SUBSET {t \in TxIds : tx[t] = "committing"} :
          /\ tx' = [t \in TxIds |->
                      IF t \in C THEN "committed"
                      ELSE IF tx[t] \in {"open", "committing"} THEN "rolledback"
                      ELSE tx[t]]
          /\ durable' = durable \cup UNION {staged[t] : t \in C}
    BY <1>8 DEF Crash
  <2> DEFINE A == {t \in TxIds \ C : tx[t] \in {"open", "committing"}}
  <2>2. Contract!CEnd(C, A)
    <3>1. statusBar' = [t \in TxIds |-> IF t \in C THEN "committed"
                                        ELSE IF t \in A THEN "rolledback"
                                        ELSE statusBar[t]]
      BY <2>1 DEF statusBar
    <3>2. \A t \in C \cup A : statusBar[t] = "open"
      BY DEF statusBar
    <3>3. QED BY <1>8, <2>1, <3>1, <3>2 DEF Crash, Contract!CEnd
  <2>3. QED BY <2>2 DEF Contract!CNext
<1>9. CASE UNCHANGED vars
  BY <1>9 DEF vars, statusBar
<1>10. QED
  BY <1>1, <1>2, <1>3, <1>4, <1>5, <1>6, <1>7, <1>8, <1>9 DEF Next, Handler

\* The backend of db.go implements the contract: transactions end once, no
\* statement joins one that has ended, and the statements of one take effect
\* together.
THEOREM ContractTheorem ==
  ASSUME RunsOnTx
  PROVE  Spec => KeepsContract
<1>1. Init => Contract!CInit /\ Atomic
  BY ContractInit, ConstantsAssumption DEF Init, Atomic, AllOrNothing
<1>2. IInv /\ Atomic /\ [Next]_vars => Atomic'
  BY AtomicStep DEF IInv
<1>3. IInv /\ Atomic /\ [Next]_vars => [Contract!CNext]_(Contract!cvars)
  BY ContractStep
<1>4. QED
  BY <1>1, <1>2, <1>3, IInvHolds, PTL DEF Spec, KeepsContract, Contract!CSpec

-----------------------------------------------------------------------------
(***************************************************************************)
(* The execContext of postgres.go.                                         *)
(***************************************************************************)

\* A statement that hit a row was applied when it ran.
Immediate == \A r \in Requests : op[r] = "exec" /\ answer[r] = "200" => r \in durable

\* Only the step that runs the statement answers 200.
LEMMA ImmediateStep ==
  ASSUME ~RunsOnTx, TypeOK, Control, Immediate, [Next]_vars
  PROVE  Immediate'
<1> USE DEF TypeOK, Control, txVars, effects, callVars, Goto, Answers, Steps, Immediate
<1>1. ASSUME NEW r \in Requests, CreateTx(r) PROVE Immediate'
  <2>1. ASSUME NEW t \in TxIds, BeginTx(r, t) PROVE Immediate'
    BY <2>1 DEF BeginTx, Receive
  <2>2. CASE BeginTxFails(r)
    BY <2>2 DEF BeginTxFails, Receive
  <2>3. CASE StoreTx(r)
    BY <2>3 DEF StoreTx
  <2>4. QED BY <1>1, <2>1, <2>2, <2>3 DEF CreateTx
<1>2. ASSUME NEW r \in Requests, CommitCall(r) PROVE Immediate'
  <2>1. CASE CommitStarts(r)
    BY <2>1 DEF CommitStarts, CommitError
  <2>2. CASE CommitSucceeds(r)
    BY <2>2 DEF CommitSucceeds
  <2>3. CASE CommitFails(r)
    BY <2>3 DEF CommitFails, CommitError
  <2>4. QED BY <1>2, <2>1, <2>2, <2>3 DEF CommitCall
<1>3. ASSUME NEW r \in Requests, CommitTx(r) PROVE Immediate'
  <2>1. ASSUME NEW t \in ClientIds, LoadForCommit(r, t) PROVE Immediate'
    BY <2>1 DEF LoadForCommit, Receive
  <2>2. CASE DeleteTx(r)
    BY <2>2 DEF DeleteTx
  <2>3. QED BY <1>3, <2>1, <2>2 DEF CommitTx
<1>4. ASSUME NEW r \in Requests, ExecInTx(r) PROVE Immediate'
  <2>1. ASSUME NEW t \in ClientIds, LoadForExec(r, t) PROVE Immediate'
    BY <2>1 DEF LoadForExec, Receive
  <2>2. ASSUME NEW hit \in BOOLEAN, TxExec(r, hit) PROVE Immediate'
    BY <2>2 DEF TxExec
  <2>3. ASSUME NEW hit \in BOOLEAN, PoolExec(r, hit) PROVE Immediate'
    BY <2>3 DEF PoolExec
  <2>4. CASE ExecFails(r)
    BY <2>4 DEF ExecFails
  <2>5. QED BY <1>4, <2>1, <2>2, <2>3, <2>4 DEF ExecInTx
<1>5. ASSUME NEW r \in Requests, ExecAlone(r) PROVE Immediate'
  <2>1. CASE OwnBegin(r)
    BY <2>1 DEF OwnBegin, Receive
  <2>2. CASE OwnBeginFails(r)
    BY <2>2 DEF OwnBeginFails, Receive
  <2>3. ASSUME NEW hit \in BOOLEAN, OwnExec(r, hit) PROVE Immediate'
    BY <2>3 DEF OwnExec
  <2>4. CASE OwnExecFails(r)
    BY <2>4 DEF OwnExecFails
  <2>5. ASSUME NEW ok \in BOOLEAN, OwnCommit(r, ok) PROVE Immediate'
    BY <2>5 DEF OwnCommit
  <2>6. QED BY <1>5, <2>1, <2>2, <2>3, <2>4, <2>5 DEF ExecAlone
<1>6. ASSUME NEW r \in Requests, Reply(r) PROVE Immediate'
  BY <1>6 DEF Reply
<1>7. ASSUME NEW t \in TxIds, Background(t) PROVE Immediate'
  <2>1. CASE DeadlinePasses(t)
    BY <2>1 DEF DeadlinePasses
  <2>2. CASE RollbackOnDone(t)
    BY <2>2 DEF RollbackOnDone
  <2>3. CASE TimerFires(t)
    BY <2>3 DEF TimerFires
  <2>4. CASE TimerDeletes(t)
    BY <2>4 DEF TimerDeletes
  <2>5. QED BY <1>7, <2>1, <2>2, <2>3, <2>4 DEF Background, TimerStep
<1>8. CASE Crash
  BY <1>8 DEF Crash, InFlight
<1>9. CASE UNCHANGED vars
  BY <1>9 DEF vars
<1>10. QED
  BY <1>1, <1>2, <1>3, <1>4, <1>5, <1>6, <1>7, <1>8, <1>9 DEF Next, Handler

\* With PostgreSQL a DELETE that is acknowledged is durable, with or without a
\* transaction id, as the statement never runs on the client's transaction.
THEOREM PostgresDeleteTheorem ==
  ASSUME ~RunsOnTx
  PROVE  Spec => []DeleteAckIsDurable
<1>1. Init => Immediate
  BY DEF Init, Immediate
<1>2. IInv /\ Immediate /\ [Next]_vars => Immediate'
  BY ImmediateStep DEF IInv
<1>3. Immediate => DeleteAckIsDurable
  BY DEF Immediate, DeleteAckIsDurable, Answered
<1>4. QED
  BY <1>1, <1>2, <1>3, IInvHolds, PTL DEF Spec
=============================================================================
