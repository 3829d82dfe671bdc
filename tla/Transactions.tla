---------------------------- MODULE Transactions ----------------------------
(***************************************************************************)
(* The client transactions of the SQL backend (internal/pkg/sql/db.go and  *)
(* postgres/postgres.go) with the HTTP handlers that drive them            *)
(* (internal/app/backend/createDBTransaction.go, commitDBTransaction.go    *)
(* and deleteSingle.go, the only data handler that ever gets a ?tx=, see   *)
(* the route order in backend.go).                                         *)
(*                                                                         *)
(* Every request is served by a goroutine of its own: pc[r] is the call    *)
(* its handler makes next.  Besides these, each transaction has the timer  *)
(* goroutine createTx spawns and the goroutine by which database/sql rolls *)
(* a transaction back once its context is done.  The process may crash and *)
(* be restarted (init/wfc@.service).                                       *)
(***************************************************************************)
EXTENDS FiniteSets, Naturals

CONSTANTS
  Requests,     \* HTTP requests; a request sends at most one statement
  TxIds,        \* the UUIDs createTx draws
  Nil,          \* no transaction id was sent
  Unknown,      \* an id that was never handed out
  RunsOnTx,     \* TRUE: execContext of db.go; FALSE: the one of postgres.go
  LostReply,    \* TRUE: the answer to a statement or commit that did take
                \* effect may be lost on its way from the database
  MaxCrashes    \* bound on the crashes of the process

ASSUME ConstantsAssumption ==
  /\ Nil \notin TxIds /\ Unknown \notin TxIds /\ Nil # Unknown
  /\ RunsOnTx \in BOOLEAN /\ LostReply \in BOOLEAN
  /\ MaxCrashes \in Nat

VARIABLES
  registry,     \* the keys of SqlBackend.Transactions
  tx,           \* tx[t]: state of the *sql.Tx begun for t
  ctxDone,      \* transactions whose context is cancelled or past its deadline
  timer,        \* timer[t]: the goroutine createTx spawns for t
  staged,       \* staged[t]: statements executed on the *sql.Tx of t
  durable,      \* statements whose effect the database keeps
  unheard,      \* statements that ran and whose answer never came (history)
  pc,           \* pc[r]: the next call of the handler of r
  op,           \* op[r]: which handler serves r
  arg,          \* arg[r]: the transaction id of r (Nil for a plain DELETE)
  own,          \* own[r]: the transaction execContext begins itself
  answer,       \* answer[r]: the status the handler is about to send or sent
  crashes       \* crashes so far

vars == <<registry, tx, ctxDone, timer, staged, durable, unheard, pc, op,
          arg, own, answer, crashes>>
txVars == <<tx, ctxDone, staged>>
effects == <<durable, unheard>>
callVars == <<op, arg>>

(***************************************************************************)
(* sync.Map keys are interface values: a UUID and its string form are      *)
(* different keys.  createTx stores under the string, fmt.Sprintf("%s").   *)
(***************************************************************************)
StringKey(t) == <<"string", t>>
UuidKey(t) == <<"uuid", t>>
Keys == {"string", "uuid"} \X TxIds

TxStates == {"none", "open", "committing", "committed", "rolledback"}
EndedStates == {"committed", "rolledback"}
Steps == {"idle", "StoreTx", "Commit", "Committing", "DeleteTx", "Exec",
          "OwnExec", "OwnCommit", "reply", "done", "lost"}

Init ==
  /\ registry = {}
  /\ tx = [t \in TxIds |-> "none"]
  /\ ctxDone = {}
  /\ timer = [t \in TxIds |-> "off"]
  /\ staged = [t \in TxIds |-> {}]
  /\ durable = {}
  /\ unheard = {}
  /\ pc = [r \in Requests |-> "idle"]
  /\ op = [r \in Requests |-> "none"]
  /\ arg = [r \in Requests |-> Nil]
  /\ own = [r \in Requests |-> "none"]
  /\ answer = [r \in Requests |-> "none"]
  /\ crashes = 0

\* The ids a client can send: those an answered POST /?begin handed out, and
\* an id nobody handed out.
Issued == {arg[r] : r \in {q \in Requests : op[q] = "begin" /\ pc[q] = "done"
                                            /\ answer[q] = "200"}}
ClientIds == Issued \cup {Unknown}

Goto(r, l) == pc' = [pc EXCEPT ![r] = l]
Answers(r, code) == answer' = [answer EXCEPT ![r] = code]
Receive(r, o, t) ==
  /\ pc[r] = "idle"
  /\ op' = [op EXCEPT ![r] = o]
  /\ arg' = [arg EXCEPT ![r] = t]

Reply(r) ==
  /\ pc[r] = "reply"
  /\ Goto(r, "done")
  /\ UNCHANGED <<registry, txVars, timer, effects, callVars, own, answer, crashes>>

-----------------------------------------------------------------------------
(* POST /?begin: createTx.                                                 *)

\* BeginTx with a context whose deadline is already running.
BeginTx(r, t) ==
  /\ tx[t] = "none"
  /\ Receive(r, "begin", t)
  /\ tx' = [tx EXCEPT ![t] = "open"]
  /\ Goto(r, "StoreTx")
  /\ UNCHANGED <<registry, ctxDone, timer, staged, effects, own, answer, crashes>>

\* Mutant of BeginTxFails: the entry is stored before the error is looked at.
BeginTxFailsButStores(r) ==
  /\ Receive(r, "begin", Nil)
  /\ registry' = registry \cup {StringKey(Nil)}
  /\ Answers(r, "500")
  /\ Goto(r, "reply")
  /\ UNCHANGED <<txVars, timer, effects, own, crashes>>

BeginTxFails(r) ==
  /\ Receive(r, "begin", Nil)
  /\ Answers(r, "500")
  /\ Goto(r, "reply")
  /\ UNCHANGED <<registry, txVars, timer, effects, own, crashes>>

\* The transaction is registered and its timer goroutine spawned.
StoreTx(r) ==
  /\ pc[r] = "StoreTx"
  /\ registry' = registry \cup {StringKey(arg[r])}
  /\ timer' = [timer EXCEPT ![arg[r]] = "armed"]
  /\ Answers(r, "200")
  /\ Goto(r, "reply")
  /\ UNCHANGED <<txVars, effects, callVars, own, crashes>>

-----------------------------------------------------------------------------
(* The end of a transaction in database/sql.                               *)

\* Tx.Commit refuses a transaction that has ended or whose context is done.
CommitRefused(t) == tx[t] # "open" \/ t \in ctxDone

\* createTx: context.WithTimeout.
DeadlinePasses(t) ==
  /\ tx[t] # "none" /\ t \notin ctxDone
  /\ ctxDone' = ctxDone \cup {t}
  /\ UNCHANGED <<registry, tx, timer, staged, effects, pc, callVars, own,
                 answer, crashes>>

\* Mutant of RollbackOnDone: createTx calls Begin instead of BeginTx.
NoRollbackOnDone(t) == FALSE /\ t \in TxIds /\ UNCHANGED vars

\* BeginTx gets that context, so that database/sql starts a goroutine for it
\* (Tx.awaitDone).
RollbackOnDone(t) ==
  /\ t \in ctxDone /\ tx[t] = "open"
  /\ tx' = [tx EXCEPT ![t] = "rolledback"]
  /\ UNCHANGED <<registry, ctxDone, timer, staged, effects, pc, callVars, own,
                 answer, crashes>>

-----------------------------------------------------------------------------
(* The goroutine createTx spawns.                                          *)

TimerFires(t) ==
  /\ timer[t] = "armed"
  /\ timer' = [timer EXCEPT ![t] = "cancelled"]
  /\ ctxDone' = ctxDone \cup {t}
  /\ UNCHANGED <<registry, tx, staged, effects, pc, callVars, own, answer, crashes>>

\* It looks the transaction up by its string key, and deletes its UUID key.
TimerDeletes(t) ==
  /\ timer[t] = "cancelled"
  /\ timer' = [timer EXCEPT ![t] = "finished"]
  /\ registry' = IF StringKey(t) \in registry THEN registry \ {UuidKey(t)}
                 ELSE registry
  /\ UNCHANGED <<txVars, effects, pc, callVars, own, answer, crashes>>

-----------------------------------------------------------------------------
(* POST /?commit=<id>: commitTx, and the commit that execContext makes of  *)
(* the client's transaction after every statement.                         *)

\* Mutant of LoadForCommit: LoadAndDelete, so that nobody commits twice.
LoadAndDeleteForCommit(r, t) ==
  /\ Receive(r, "commit", t)
  /\ IF StringKey(t) \in registry
     THEN Goto(r, "Commit") /\ UNCHANGED answer
     ELSE Goto(r, "reply") /\ Answers(r, "404")
  /\ registry' = registry \ {StringKey(t)}
  /\ UNCHANGED <<txVars, timer, effects, own, crashes>>

LoadForCommit(r, t) ==
  /\ Receive(r, "commit", t)
  /\ IF StringKey(t) \in registry
     THEN Goto(r, "Commit") /\ UNCHANGED answer
     ELSE Goto(r, "reply") /\ Answers(r, "404")
  /\ UNCHANGED <<registry, txVars, timer, effects, own, crashes>>

\* Mutants of CommitError: commitTx drops the error, as execContext does;
CommitErrorDropped(r) ==
  /\ Goto(r, IF op[r] = "commit" THEN "DeleteTx" ELSE "reply")
  /\ UNCHANGED answer

\* execContext returns it, as commitTx does;
CommitErrorReturned(r) == Goto(r, "reply") /\ Answers(r, "500")

\* the commit is retried until it succeeds.
CommitErrorRetried(r) == Goto(r, "Commit") /\ UNCHANGED answer

\* Where the handler goes with an error of Commit: commitTx returns it,
\* execContext drops it.
CommitError(r) ==
  /\ Goto(r, "reply")
  /\ IF op[r] = "commit" THEN Answers(r, "500") ELSE UNCHANGED answer

CommitStarts(r) ==
  LET t == arg[r] IN
  /\ pc[r] = "Commit"
  /\ IF CommitRefused(t)
     THEN CommitError(r) /\ UNCHANGED tx
     ELSE /\ tx' = [tx EXCEPT ![t] = "committing"]
          /\ Goto(r, "Committing")
          /\ UNCHANGED answer
  /\ UNCHANGED <<registry, ctxDone, timer, staged, effects, callVars, own, crashes>>

CommitSucceeds(r) ==
  LET t == arg[r] IN
  /\ pc[r] = "Committing"
  /\ tx' = [tx EXCEPT ![t] = "committed"]
  /\ durable' = durable \cup staged[t]
  /\ Goto(r, IF op[r] = "commit" THEN "DeleteTx" ELSE "reply")
  /\ UNCHANGED <<registry, ctxDone, timer, staged, unheard, callVars, own,
                 answer, crashes>>

\* The driver reports an error: the commit did not happen, or its
\* acknowledgement was lost.
CommitFails(r) ==
  LET t == arg[r] IN
  /\ pc[r] = "Committing"
  /\ \/ tx' = [tx EXCEPT ![t] = "rolledback"] /\ UNCHANGED durable
     \/ /\ LostReply
        /\ tx' = [tx EXCEPT ![t] = "committed"]
        /\ durable' = durable \cup staged[t]
  /\ CommitError(r)
  /\ UNCHANGED <<registry, ctxDone, timer, staged, unheard, callVars, own, crashes>>

DeleteTx(r) ==
  /\ pc[r] = "DeleteTx"
  /\ registry' = registry \ {StringKey(arg[r])}
  /\ Answers(r, "200")
  /\ Goto(r, "reply")
  /\ UNCHANGED <<txVars, timer, effects, callVars, own, crashes>>

-----------------------------------------------------------------------------
(* DELETE /<table>/<id>, with and without ?tx=<id>: execContext.           *)

\* The assertion txi.( *sql.Tx) panics on an id that is not registered, and
\* negroni's Recovery answers 500.
LoadForExec(r, t) ==
  /\ Receive(r, "exec", t)
  /\ IF StringKey(t) \in registry
     THEN Goto(r, "Exec") /\ UNCHANGED answer
     ELSE Goto(r, "reply") /\ Answers(r, "500")
  /\ UNCHANGED <<registry, txVars, timer, effects, own, crashes>>

\* Mutants of TxExec: the statement runs on the pool, as in postgres.go;
TxExecOnPool(r, hit) ==
  /\ pc[r] = "Exec" /\ RunsOnTx
  /\ durable' = IF hit THEN durable \cup {r} ELSE durable
  /\ Answers(r, IF hit THEN "200" ELSE "404")
  /\ Goto(r, "Commit")
  /\ UNCHANGED <<registry, txVars, timer, unheard, callVars, own, crashes>>

\* it runs on the transaction's connection, ended or not.
TxExecUnchecked(r, hit) ==
  /\ pc[r] = "Exec" /\ RunsOnTx
  /\ staged' = IF hit THEN [staged EXCEPT ![arg[r]] = @ \cup {r}] ELSE staged
  /\ Answers(r, IF hit THEN "200" ELSE "404")
  /\ Goto(r, "Commit")
  /\ UNCHANGED <<registry, tx, ctxDone, timer, effects, callVars, own, crashes>>

\* The statement succeeds; hit: it affected a row, else DeleteSingle answers
\* 404.  ErrTxDone is the answer of a transaction that has ended.
TxExec(r, hit) ==
  LET t == arg[r] IN
  /\ pc[r] = "Exec" /\ RunsOnTx
  /\ tx[t] = "open"
  /\ staged' = IF hit THEN [staged EXCEPT ![t] = @ \cup {r}] ELSE staged
  /\ Answers(r, IF hit THEN "200" ELSE "404")
  /\ Goto(r, "Commit")
  /\ UNCHANGED <<registry, tx, ctxDone, timer, effects, callVars, own, crashes>>

\* Mutant of PoolExec: it runs on the transaction, as in db.go.
PoolExecOnTx(r, hit) ==
  /\ pc[r] = "Exec" /\ ~RunsOnTx
  /\ tx[arg[r]] = "open"
  /\ staged' = IF hit THEN [staged EXCEPT ![arg[r]] = @ \cup {r}] ELSE staged
  /\ Answers(r, IF hit THEN "200" ELSE "404")
  /\ Goto(r, "Commit")
  /\ UNCHANGED <<registry, tx, ctxDone, timer, effects, callVars, own, crashes>>

\* postgres.go: the statement runs on the pool, not on the transaction.
PoolExec(r, hit) ==
  /\ pc[r] = "Exec" /\ ~RunsOnTx
  /\ durable' = IF hit THEN durable \cup {r} ELSE durable
  /\ Answers(r, IF hit THEN "200" ELSE "404")
  /\ Goto(r, "Commit")
  /\ UNCHANGED <<registry, txVars, timer, unheard, callVars, own, crashes>>

\* An error of the statement ends the request and leaves the client's
\* transaction open; so does a statement that took effect, on the transaction
\* or on the pool, and whose answer was lost.
ExecFails(r) ==
  LET t == arg[r] IN
  /\ pc[r] = "Exec"
  /\ \/ UNCHANGED <<staged, effects>>
     \/ /\ LostReply
        /\ unheard' = unheard \cup {r}
        /\ \/ /\ RunsOnTx /\ tx[t] = "open"
              /\ staged' = [staged EXCEPT ![t] = @ \cup {r}]
              /\ UNCHANGED durable
           \/ /\ ~RunsOnTx
              /\ durable' = durable \cup {r}
              /\ UNCHANGED staged
  /\ Answers(r, "500")
  /\ Goto(r, "reply")
  /\ UNCHANGED <<registry, tx, ctxDone, timer, callVars, own, crashes>>

\* Without an id: execContext begins a transaction of its own ...
OwnBegin(r) ==
  /\ Receive(r, "exec", Nil)
  /\ own' = [own EXCEPT ![r] = "open"]
  /\ Goto(r, "OwnExec")
  /\ UNCHANGED <<registry, txVars, timer, effects, answer, crashes>>

OwnBeginFails(r) ==
  /\ Receive(r, "exec", Nil)
  /\ Answers(r, "500")
  /\ Goto(r, "reply")
  /\ UNCHANGED <<registry, txVars, timer, effects, own, crashes>>

\* ... runs the statement on the pool ...
OwnExec(r, hit) ==
  /\ pc[r] = "OwnExec"
  /\ durable' = IF hit THEN durable \cup {r} ELSE durable
  /\ Answers(r, IF hit THEN "200" ELSE "404")
  /\ Goto(r, "OwnCommit")
  /\ UNCHANGED <<registry, txVars, timer, unheard, callVars, own, crashes>>

OwnExecFails(r) ==
  /\ pc[r] = "OwnExec"
  /\ \/ UNCHANGED effects
     \/ /\ LostReply
        /\ durable' = durable \cup {r}
        /\ unheard' = unheard \cup {r}
  /\ Answers(r, "500")
  /\ Goto(r, "OwnCommit")
  /\ UNCHANGED <<registry, txVars, timer, callVars, own, crashes>>

\* ... and commits its own, empty, transaction whatever the statement
\* returned: the deferred function sees the err of Begin.  The error of the
\* commit reaches nobody.
OwnCommit(r, ok) ==
  /\ pc[r] = "OwnCommit"
  /\ own' = [own EXCEPT ![r] = IF ok THEN "committed" ELSE "rolledback"]
  /\ Goto(r, "reply")
  /\ UNCHANGED <<registry, txVars, timer, effects, callVars, answer, crashes>>

-----------------------------------------------------------------------------
(* The process dies and is restarted: the registry and the goroutines are  *)
(* gone, requests in flight get no answer, the database rolls back what is *)
(* open and settles, one way or the other, the commits it had received.    *)

InFlight(r) == pc[r] \notin {"idle", "done", "lost"}

Crash ==
  /\ crashes < MaxCrashes
  /\ crashes' = crashes + 1
  /\ \E C \in SUBSET {t \in TxIds : tx[t] = "committing"} :
       /\ tx' = [t \in TxIds |->
                   IF t \in C THEN "committed"
                   ELSE IF tx[t] \in {"open", "committing"} THEN "rolledback"
                   ELSE tx[t]]
       /\ durable' = durable \cup UNION {staged[t] : t \in C}
  /\ registry' = {}
  /\ timer' = [t \in TxIds |-> "off"]
  /\ pc' = [r \in Requests |-> IF InFlight(r) THEN "lost" ELSE pc[r]]
  /\ own' = [r \in Requests |-> IF own[r] = "open" THEN "rolledback" ELSE own[r]]
  /\ UNCHANGED <<ctxDone, staged, unheard, callVars, answer>>

-----------------------------------------------------------------------------
CreateTx(r) == (\E t \in TxIds : BeginTx(r, t)) \/ BeginTxFails(r) \/ StoreTx(r)
CommitCall(r) == CommitStarts(r) \/ CommitSucceeds(r) \/ CommitFails(r)
CommitTx(r) == (\E t \in ClientIds : LoadForCommit(r, t)) \/ DeleteTx(r)
ExecInTx(r) ==
  \/ \E t \in ClientIds : LoadForExec(r, t)
  \/ \E hit \in BOOLEAN : TxExec(r, hit) \/ PoolExec(r, hit)
  \/ ExecFails(r)
ExecAlone(r) ==
  \/ OwnBegin(r) \/ OwnBeginFails(r)
  \/ \E hit \in BOOLEAN : OwnExec(r, hit)
  \/ OwnExecFails(r)
  \/ \E ok \in BOOLEAN : OwnCommit(r, ok)

Handler(r) == CreateTx(r) \/ CommitCall(r) \/ CommitTx(r) \/ ExecInTx(r)
              \/ ExecAlone(r) \/ Reply(r)
TimerStep(t) == TimerFires(t) \/ TimerDeletes(t)
Background(t) == DeadlinePasses(t) \/ RollbackOnDone(t) \/ TimerStep(t)

Next == (\E r \in Requests : Handler(r)) \/ (\E t \in TxIds : Background(t)) \/ Crash

Spec == Init /\ [][Next]_vars

\* A handler that has begun goes on (goroutines are scheduled, the database
\* answers), timers fire, and the goroutine of database/sql runs.  Nothing
\* obliges a client to send a request, nor the process to crash.
Fairness ==
  /\ \A r \in Requests : WF_vars(InFlight(r) /\ Handler(r))
  /\ \A t \in TxIds : WF_vars(DeadlinePasses(t)) /\ WF_vars(RollbackOnDone(t))
                      /\ WF_vars(TimerStep(t))

FairSpec == Spec /\ Fairness

-----------------------------------------------------------------------------
(* Properties.                                                             *)

TypeOK ==
  /\ registry \subseteq Keys
  /\ tx \in [TxIds -> TxStates]
  /\ ctxDone \subseteq TxIds
  /\ timer \in [TxIds -> {"off", "armed", "cancelled", "finished"}]
  /\ staged \in [TxIds -> SUBSET Requests]
  /\ durable \subseteq Requests
  /\ unheard \subseteq Requests
  /\ pc \in [Requests -> Steps]
  /\ op \in [Requests -> {"none", "begin", "commit", "exec"}]
  /\ arg \in [Requests -> TxIds \cup {Nil, Unknown}]
  /\ own \in [Requests -> {"none", "open", "committed", "rolledback"}]
  /\ answer \in [Requests -> {"none", "200", "404", "500"}]
  /\ crashes \in 0 .. MaxCrashes

Answered(r, o, code) == pc[r] = "done" /\ op[r] = o /\ answer[r] = code

\* "transaction ... successfully committed to the database"
\* (commitDBTransaction.go:41) is never said of a transaction that did not
\* commit, or of which a statement was left out, whatever the timeout, the
\* other requests on the same id and the crashes did meanwhile.
CommitAckIsTrue ==
  \A r \in Requests : Answered(r, "commit", "200") =>
    /\ arg[r] \in TxIds
    /\ tx[arg[r]] = "committed"
    /\ staged[arg[r]] \subseteq durable

\* Of the requests that race to commit one transaction at most one is told
\* that it did: commitTx returns the error of the Commit it lost.
OneCommitAck ==
  \A q, r \in Requests :
    Answered(q, "commit", "200") /\ Answered(r, "commit", "200") /\ arg[q] = arg[r]
      => q = r

\* "transaction ... does not exist in the backend's list of open
\* transactions" (commitDBTransaction.go:23) is only said of a transaction
\* that can no longer be committed: commitTx forgets an id after Commit, not
\* before, and the timer forgets nothing.
NotFoundMeansEnded ==
  \A r \in Requests : Answered(r, "commit", "404") /\ arg[r] \in Issued
    => tx[arg[r]] \in EndedStates

\* A statement sent with a transaction's id takes effect exactly if that
\* transaction executed it and committed.  A statement sent without one takes
\* effect exactly if its request is told so, whatever becomes of the
\* transaction execContext begins beside it, or if the database's answer to
\* it never came.
AllOrNothing ==
  \A r \in Requests : op[r] = "exec" =>
    /\ arg[r] \in TxIds =>
         (r \in durable <=> r \in staged[arg[r]] /\ tx[arg[r]] = "committed")
    /\ arg[r] = Nil =>
         (r \in durable <=> answer[r] = "200" \/ r \in unheard)

\* A DELETE answered with 500 has no effect, then or later: a failed
\* statement does not ride along when the client, or another request,
\* commits the transaction, and a statement that did run is not reported as
\* failed.  (Unless the answer of the database was lost: such a statement of
\* a transaction that stays open is committed with it.)
FailedDeleteHasNoEffect ==
  \A r \in Requests :
    Answered(r, "exec", "500") /\ r \in durable => r \in unheard

\* "Resource ... successfully deleted" (deleteSingle.go:71) is only said of
\* a row whose deletion the database keeps.
DeleteAckIsDurable ==
  \A r \in Requests : Answered(r, "exec", "200") => r \in durable

\* "timeout expired: transaction ... has been deleted from backend"
\* (db.go:151): once the timer goroutine is through, the id is unregistered.
ExpiredIsForgotten ==
  \A t \in TxIds : timer[t] = "finished" => StringKey(t) \notin registry

\* Every request is answered, unless the process dies under it.
RequestsEnd == \A r \in Requests : InFlight(r) ~> pc[r] \in {"done", "lost"}

\* A transaction no client ever commits is ended by its timeout, so that its
\* locks and its connection do not stay behind.
TransactionsEnd ==
  \A t \in TxIds : tx[t] = "open" ~> tx[t] \in EndedStates

\* The contract of TxContract.tla.  A transaction whose commit is under way
\* is still open to the client, who has had no answer.
statusBar == [t \in TxIds |-> IF tx[t] = "committing" THEN "open" ELSE tx[t]]
Contract == INSTANCE TxContract WITH Statements <- Requests,
                                     status <- statusBar, pending <- staged

\* The backend of db.go keeps the contract: no statement joins a transaction
\* that has ended, transactions end once, and statements take effect
\* together.
KeepsContract == Contract!CSpec
=============================================================================
