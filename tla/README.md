# TLA+ models of the workflow connector

These modules model the workflow connector, the HTTP service that gives Signavio
Workflow Accelerator access to the tables of a SQL database. They are translated
from the Go source under `src/`; line numbers below refer to it. TLC checks them
on small instances, and TLAPS proves the properties that matter most for every
number of requests, transactions, tables, rows and relationships.

Contents: [the system](#the-system), [modules](#modules), [runs](#runs),
[proofs](#proofs), [what the models show about the code](#what-the-models-show-about-the-code),
[what is not modelled](#what-is-not-modelled), [plan](#plan).

## The system

One process serves HTTP. Every request runs in a goroutine of its own through
negroni's recovery and logger, then authentication, the route checker and the
context injectors, and then one handler of `internal/app/backend`. A handler
builds a statement from a template of the database's dialect and the type
descriptor of the table, and calls `ExecContext` or `QueryContext` of the
`SqlBackend` (`internal/pkg/sql`), which PostgreSQL and Oracle override in part.
Results go through the formatter to the client. All handlers share one
`SqlBackend`; the only lock in the program is the one inside `sync.Map`.

| Component | State | Operations | Talks to |
|---|---|---|---|
| Client transactions (`db.go`, `postgres.go`, `createDBTransaction.go`, `commitDBTransaction.go`) | `SqlBackend.Transactions` (a `sync.Map` from id to `*sql.Tx`), the `*sql.Tx`, its context, one timer goroutine each | begin, commit, execute a statement in a transaction, timeout | database, `database/sql`'s rollback goroutine |
| Handlers of single resources (`createSingle.go`, `getSingle.go`, `updateSingle.go`, `deleteSingle.go`) | none of their own; the table | POST, GET, PATCH, DELETE; POST and PATCH answer by calling `GetSingle` | statement arguments, exec, query, formatter |
| Statement arguments (`query.go`, `sqlBackend.go`) | none | columns from the data, arguments from the data, text from a template | descriptor |
| Row scanning (`db.go`, `sqlBackend.go`) | `SchemaMapping[...].GolangTypes`: one destination per column, shared by all requests | `queryContext`, `rowsToResults`, `processRow` | database |
| Result sets (`db.go`, `util.go`, `jsonForWorkflowAccelerator.go`) | one result set per request | `deduplicateSingleResource`, resolution of relationships, formatting | row scanning |
| Routes and request context (`backend.go`, `injector.go`, `routeChecker.go`, `auth.go`) | the ordered list of routes | match a route, check credentials and table, put table, columns, id and transaction into the context | all handlers |
| Schema mapping (`sqlBackend.go`) | `SchemaMapping` | read every table's schema at startup, cut a join's columns into tables, name the columns of later queries | database |
| Collections and options (`getCollection.go`, `getCollectionAsOptions.go`, `getSingleAsOption.go`) | none | list rows, or id/name pairs, that answer parameters and a filter | statement arguments, dialects, formatter |
| Dialects (`sqlite`, `mysql`, `postgres`, `oracle`, `sqlserver`) | templates, names of types | number placeholders, coerce values | query |
| Formatting (`jsonForWorkflowAccelerator.go`) | none | rename the unique id and the name, money, relationships | descriptor |
| Configuration and descriptor (`config.go`, `descriptor.go`) | the descriptors | parse, sanity checks, look-ups by key and by table | all |
| Process lifecycle (`main.go`, `wfc@.service`) | `App.server` | start, run, stop, restart on failure | service manager, schema mapping |
| Logging, build, packaging | — | — | — |

What is hard here, by component, and what makes each correct:

- **Transactions.** Two requests may load the same `*sql.Tx` before either uses
  it; the deadline of the context, the timer goroutine and a client's commit
  race; the process may die with a commit under way; an acknowledgement may be
  lost. Correct means: nothing is acknowledged that did not happen, a transaction
  takes effect as a whole or not at all, ends once, and ends even if its client
  never comes back.
- **Resources.** A statement and the query that reports its effect are two calls,
  with other requests between them; columns and arguments are collected apart.
  Correct means: values land in the columns they were sent for, the answer tells
  what the statement did, and deletions are acknowledged once per row.
- **Row scanning.** Destinations are shared, without a lock, and survive from row
  to row and from request to request. Correct means: a request answers the rows of
  its own query.
- **Result sets.** A join multiplies rows; state is carried from row to row.
  Correct means: every related row is shown once, where it belongs.
- **Startup, shutdown, schemas.** `Stop` runs while `run` may still be reading
  schemas; the rows of some of its queries are never closed; columns are named by
  position with a schema that may have changed since. Correct means: the service
  serves only when it has read everything, does not exhaust its connections by
  starting, names no value after another column without noticing, ends when it
  is stopped, and not before the requests under way are answered.
- **Routes and reads.** Routes are tried in the order of registration; three
  look-ups search the descriptors in different directions; placeholders are numbered by
  the templates and arguments collected elsewhere; fields are renamed. Correct
  means: a request reaches the most specific handler with the context of one
  descriptor, gets all rows that answer it and no others, and no field hides another.

The complete list of hazards, each at its line with the properties that watch it,
is in `PROJECT.json`.

## Modules

| Module | Models | Uses |
|---|---|---|
| `TxContract` | abstract specification: what a client may expect of begin, statements and commit | |
| `Transactions` | the registry, `*sql.Tx`, timers, requests, crashes | `TxContract` (refinement) |
| `ScanBuffers` | scanning into shared destinations | |
| `ResultSet` | join, deduplication, relationship formatting | |
| `Selection` | pure: a loop that appends some elements of a slice to another | |
| `QueryArgs` | pure: a body's columns and arguments | `Selection` |
| `TableContract` | abstract specification: what a client may expect of the requests for one table | |
| `Resources` | the handlers of single resources | `QueryArgs`, `TableContract` (refinement) |
| `SchemaMapping` | pure: the columns of tables and joins, and the cutting of a join | |
| `Lifecycle` | the process and its manager, startup, stop, outages, ALTER TABLE, requests | `SchemaMapping` |
| `Descriptors` | pure: sanity checks, look-ups, the names of fields | `Selection` |
| `Routes` | pure: the ordered routes | |
| `Dialects` | pure: which argument a placeholder gets | |
| `Reads` | one request from its route through the middleware to its answer | `Descriptors`, `Routes`, `Dialects`, `QueryArgs` |
| `SequenceLemmas` | lemmas about concatenations and selections, for any length | `Selection` |
| `*_proofs` | theorems about the module they are named after | the module, `SequenceLemmas` |
| `MC*` | constants for TLC | the module they name |

In every module `pc[r]` is the call that the handler of request `r` makes next:
a step ends where the goroutine can be preempted between two effects that others
see (a call to the database, to `sync.Map`, or to a shared word of memory). A
definition named *Mutant of X* is not part of a specification; it is a plausible
bug, kept beside `X`, by which a property is shown to be sensitive.

### Transactions and TxContract

`registry` is the key set of the `sync.Map`. Its keys are interface values, so a
UUID and the string of that UUID are different keys (`StringKey`, `UuidKey`):
`createTx` stores one and its timer deletes the other. `tx[t]`, `ctxDone` and
`RollbackOnDone` are `database/sql`, modelled from how the code uses it: `Commit`
refuses a transaction that has ended or whose context is done; a goroutine rolls
back a transaction whose context is done; once `Commit` has been sent nobody else
ends the transaction. `staged[t]` are the statements executed in `t`; `durable` are those
whose effect the database keeps. `unheard` is history: the statements that took effect, in
their transaction or by themselves, and whose answer the database lost (`LostReply`). Such a
statement is reported as failed, its transaction stays open, and a later commit applies it.

| Action | Code |
|---|---|
| `BeginTx`, `BeginTxFails`, `StoreTx` | `createTx`, db.go:129-157; context and deadline exist before the entry does |
| `TimerFires`, `TimerDeletes` | the goroutine of `createTx`, db.go:144-156 |
| `DeadlinePasses`, `RollbackOnDone` | the context's own deadline, and `database/sql` |
| `LoadForCommit`, `CommitStarts`, `CommitSucceeds`, `CommitFails`, `DeleteTx` | `commitTx`, db.go:159-169 |
| `LoadForExec`, `TxExec`, then the commit actions | `execContext` with an id, db.go:45-54: it commits after the statement and drops the error |
| `ExecFails` | the error of that statement, db.go:49-52, also of one that took effect: nothing is committed, the transaction stays open |
| `PoolExec` | the same in postgres.go:149-167, where the statement runs on the pool (`RunsOnTx = FALSE`) |
| `OwnBegin`, `OwnExec`, `OwnCommit` and their failures | `execContext` without an id: the deferred function commits in every case, as the `err` it sees is that of `Begin` |
| `Crash` | the process dies and is restarted by systemd with an empty registry; the database rolls back what is open and settles the commits under way either way |

`TxContract` knows three variables: the status of each transaction, its pending
statements, and the durable ones. `KeepsContract` is the refinement, with
`committing` read as `open`, since the client has had no answer yet.

Only `DELETE` carries an id in this model: POST and PATCH with `?tx=` match the
route without it, registered before (backend.go:47-62), so they arrive without
one. A request sends at most one statement.

### Resources, QueryArgs and TableContract

`QueryArgs` computes, from the fields of the descriptor and the keys of a body,
the columns (`ColumnNames`) and the arguments (`Args`), with the loops of the
code; `Assigned` is what a database makes of them. `Resources` has one row per
id. The statements' effects are `Inserts`, `Updates` and `Deletes`; the steps of
a request are

| Action | Code |
|---|---|
| `Receive`, `ReceiveUnreadable`, `ReceiveData` | the handlers up to the statement, with their early returns |
| `ExecCreate`, `ExecUpdate`, `ExecUpdateNone`, `ExecDelete` | the statement and the checks of its result |
| `ExecFails` | the statement fails, or the database refuses it |
| `ExecLost` | it takes effect, but the handler gets an error: the connection is lost, or PostgreSQL's `Scan(&id)` fails on an id that is no integer (postgres.go:175) |
| `Query`, `QueryFails` | `GetSingle`, of a GET or called by POST and PATCH |

A database that reports no id of an insertion answers 204; PostgreSQL tells of a
missing row by the `RETURNING` clause, the others by the query after the
statement: both occur. The history variables `effective` and `disturbed` remember
whose statement changed the table, and whose row another request changed between
statement and query. An error of `RowsAffected` after a successful DELETE would be
answered 404 (deleteSingle.go:57); none of the supported drivers reports one, so
it is left out.

`TableContract` knows nothing of the handlers' calls: a request is sent, changes the table
at most once and in one step (`CWrite`), by the data that was sent, and is answered at the
end, by what is in the table then. It says which answers may follow a change and which may
not, and that `500` may be said of any request. Under the refinement (`KeepsContract`) the
statement is the change, and its lost result an answer in the same step; the query of a
GET, and the one after a statement, is `CShow` or `CMissing`; an UPDATE that finds no row
and is followed by the query is a stutter.

### ScanBuffers

A destination is three words: the `Valid` flag, and the data and size of a Go
string. Goroutines touch them one word at a time, in any order, which is what an
unsynchronised program may observe; a word's value is the row it came from.
Which destinations a route takes is `JoinedMapping` (all routes but the option
routes, on a table with relationships) or the table's own. `met` is history: the
requests that overlapped with another one on the same destinations.

### ResultSet

Sequential: the rows of the join are read one by one, those of one main row in
any order (`NextResult`), the connection may be lost at any of them (`RowsFail`,
the `rows.Err()` of `rowsToResults`), then come the two nested loops of
`deduplicateSingleResource` (`DedupeRow`, `NextField`) and the formatter
(`Format`). All ways to relate rows, all selections and all listed descriptors are
initial states. A related row stands for itself and `Null` for the all-NULL row
of a LEFT JOIN.

### Lifecycle and SchemaMapping

`run` and `stop` are the two goroutines of `main.go` that share `App.server`; `unit`
and `starts` are the service manager (`Restart=on-failure`, `StartLimitInterval`).
`mapping` and `joined` are the two kinds of entries of `SchemaMapping`, `columns`
what the database has now, `leaked` the connections kept by rows that
`addRelationshipsToBackendSchemaMapping` neither reads to their end nor closes.

| Action | Code |
|---|---|
| `Start`, `IntervalPasses` | wfc@.service:12-13 |
| `Open` | `NewEndpoint`, `sql.Open`: the database is not asked yet |
| `ReadPlain`, `NoColumns`, `ReadJoined`, `ReadPanics`, `SkipUnrelated`, `StartupFails` | the two loops of `SaveSchemaMapping`, sqlBackend.go:108-151, one table per step |
| `NewServer`, `Listen`, `ServeFails`, `ServeReturns` | the end of `run`, main.go:53-75 |
| `StopAsked`, `StopPanics`, `Shutdown`, `StopReturns` | `Stop`, main.go:30-39: `Shutdown` of a nil server panics, and the process ends by it |
| `Arrive`, `Answer`, `AnswerFails` | GET requests whose rows are named with the mapping by position |
| `AddColumn`, `DropColumn`, `DatabaseGoes`, `DatabaseReturns`, `Killed` | the surroundings |

`SchemaMapping` has no state: `Owners` is how many columns the code gives each
table of a join, `Cut` the result of naming them, `CutPanics` the case in which
the slices do not fit. A column is `<<table, name>>`, so that a value named after
the wrong column is visible.

### Reads, Descriptors, Routes, Dialects

`Reads` follows one request; its state is what the middleware and the handler
pass on: `ctx` (the context values), `args`, `results`, `answer`. The actions are the
stations in the order of `server.go` and the handlers: `MatchRoute` (unmatched
requests are answered without authentication), `BasicAuth`, `RouteChecker`,
`RequestInjector`, `Interpolate`, the query, and the ends of the four handlers,
`GetCollection`, `GetCollectionAsOptions`, `GetSingle`, `GetSingleAsOption`. A request that
changes something is followed to its handler only.

The query is `QueryForOptions`, whose results are rows, or `Query`, whose results are those
of the LEFT JOIN: a result is a pair of a row of the table and, for each relationship, the
index of a related row or 0 (`Join`, `Combinations`). Nothing merges the results of one row,
so that a row with two related rows has two items (db.go:94-108). `FieldResultSet(k, i)` is
what `deduplicateSingleResource` has gathered for the `k`-th relationship up to the `i`-th
result: it starts with the first related row, and grows over all results, those of preceding
rows included (db.go:209-241). `Resolved` is what the formatter makes of it: a list for a
one-to-many field, the last row whose unique id (or whose foreign column, with
`$denormalize`) equals the local column for the others, and no field at all if there is none
(jsonForWorkflowAccelerator.go:164-288). `Item` is the document of a result; what is
shown of the plain fields overwrites relationships of the same name, as they come last.

Several descriptors may show one table. The columns of its join were read at startup with
the last of them, while the statement joins the tables of the one in the context, and the
formatter again takes the last: `Scannable` says that both join the same tables, as
otherwise the first row cannot be scanned; `Panics` that the mapping has no join at all, so
that the handler dereferences nil. Both are answered 500, the panic by the server's
`Recovery` (server.go:25).

`Routes` holds the thirteen routes in the order of registration and gorilla/mux's
rule, the first match. `Descriptors` holds the three look-ups (the table by the
first match of the key, the descriptor by the last match of the key or of the
table), `performSanityChecks`, and under which name a field is shown: `name` if its
`fromColumn` is the `columnAsOptionName` of the descriptor, `id` if it is the unique id
column, its key otherwise. A money field has no `fromColumn` (its amount and currency have),
which equals an option name that the descriptor leaves out: `ShownAs` and `ValueOf` show what
the code makes of it.
`Dialects` holds, per database, which argument each placeholder of the
SELECT templates gets: by position for sqlite and mysql, by a number computed
with `add2` for postgres and oracle. The argument lists come from `QueryArgs`,
with the fields of each descriptor.

## Runs

Runs that pass:

| Run | Instance | States | Shows |
|---|---|---|---|
| `MCTx_safety` | 3 requests, 2 transactions, lost replies, 2 crashes, `execContext` of db.go | 150 768 | `CommitAckIsTrue`, `OneCommitAck`, `NotFoundMeansEnded`, `AllOrNothing`, `FailedDeleteHasNoEffect`, and the refinement `KeepsContract` |
| `MCTx_postgres` | 3 requests, 1 transaction, lost replies, `execContext` of postgres.go | 106 992 | `DeleteAckIsDurable`, and the liveness properties `RequestsEnd`, `TransactionsEnd` |
| `MCResources` | 3 requests of any kind, 2 ids, 7 bodies | 207 246 | `ArgumentsMatch`, `StoredAsSent`, `ReplyShowsWrite`, `DeletedOnce`, `AnswerTellsEffect`, `KeepsContract` |
| `MCScan_undisturbed` | 2 requests, 2 tables (one with relationships), 2 columns, results of up to 2 rows with NULL | 1 768 680 | `UndisturbedIsExact` |
| `MCRes_joins` | 2 rows, 2 related rows, no relationship, one-to-many with many-to-one, two one-to-many | 148 304 | `NoDuplicates`, `SingleIsComplete`, `NothingLost`, `ManyToOneExact`, `EmptyOnlyAfterRelated` |
| `MCLifecycle` | 2 tables, one related to the other, 1 request, 2 connections, 2 starts, 2 alterations, 2 failures | 262 458 | `ServesWhatItRead`, `OneAlterationIsNoticed`, `SteadyService`, the action property `GracefulStop`, and the liveness properties `StopEnds`, `ServesOrEnds` |
| `MCReads` | 4 databases, 8 lists of descriptors (one of them refused), 12 sets of parameters, `$denormalize` among them, every method and kind of path, 2 options at most | 40 584 | `MostSpecificRoute`, `ContextOfOneDescriptor`, `CollectionExact`, `OptionsExact`, `NothingHidden`, `RelatedShownById` |

Runs in which TLC finds a violation; each is a disagreement between the code and
what its own comments, messages or tests say, and each is described below:
`MCTx_delete_ack`, `MCTx_expired`, `MCScan_race`, `MCRes_own`, `MCReads_tx`.

Why the bounds are enough.

- *Transactions.* Three requests are one that begins a transaction and two that
  race for it, or race with its timeout; a race on one id involves a pair, and a
  third party only adds a stutter to it. Two transactions show that one does not
  touch the other. Two crashes separate three lives of the process, so that an id
  may be issued in one, used in another and crash with a commit under way in a
  third. `LostReply` adds the acknowledgement, of a commit or of a statement, that gets lost
  after the effect: three requests are also what a lost statement that a later commit applies
  needs.
- *Resources.* Two ids give a row that exists, one that does not, and a place to
  move to; the bodies hold a money field with either key and with both, an id,
  several fields, a bad date and nothing.
- *ScanBuffers.* Two requests are what a data race needs, two rows what a stale
  destination needs, and the second table and the option routes what "not
  shared" needs.
- *ResultSet.* Two related rows under two relationships is the smallest join that
  multiplies.
- *Lifecycle.* Two tables are a join and a table without one. One alteration may fall
  between any two reads of the startup, or after it; the second one shows that
  `OneAlterationIsNoticed` needs its restriction to one (a column added to the
  first table and one dropped from the second go unnoticed). Two connections are
  one more than the join of this instance leaks, the least with which it can serve.
  With two failures a process is killed or its database goes away at any point, and
  again after the restart; with two starts the manager may give up.
- *Reads.* Four databases are the ones the connector can run with; the descriptors are those of
  `config/descriptor.json` cut down: a table with a one-to-many relationship and one with a
  many-to-one, a table with two relationships, two descriptors of one table with and without
  relationships, a money field with two keys, a descriptor without an option name, and one
  that the sanity checks refuse. One of the four rows of the table has two related rows and
  comes after rows that have none, and one without any comes after it, so that a row is
  repeated and shows what preceding ones have gathered. Parameters hold none, one,
  two and three columns, since the templates number the first column and the tail
  differently; a limit of two cuts a list of three.

Symmetry is used where requests and ids are interchangeable and no liveness is
checked. Deadlock is not checked where the model ends because all requests are
served, or the service is stopped; each cfg says so.

Fairness. `FairSpec` of `Transactions`, used by `MCTx_postgres`: weak fairness of each
request's handler once it has begun (goroutines are scheduled, and the database
answers), of each transaction's deadline and timer (they are timers), and of the
rollback goroutine. It is per request and per transaction, as each has a
goroutine of its own. No client is obliged to send anything: `TransactionsEnd` holds
of a client that begins a transaction and never returns. That instance has no
crash, which would only end transactions sooner.
`FairSpec` of `Lifecycle`: weak fairness of the manager's `Start`, of the goroutine of
`run` and of that of `Stop`, and of the answer to each request, as a query is
answered at least by an error. Nothing is assumed of outages, alterations, stops
and of the database's return; `ServesOrEnds` speaks of behaviours in which the
database is back for good.

## Proofs

Theorems are stated for every value of the constants that the modules' named
assumptions allow. Each proof has an inductive invariant `IInv`, a lemma that the
initial states satisfy it, one lemma or step per action that it is preserved, and
theorems that draw the properties from it.

### Transactions_proofs

Holds for all finite or infinite sets of requests and ids, both values of
`LostReply`, and any bound on crashes; it assumes only `ConstantsAssumption` (the
ids, `Nil` and `Unknown` are distinct).

| Theorem | States |
|---|---|
| `TypeCorrect` | `Spec => []TypeOK` |
| `CommitAckTheorem` | `CommitAckIsTrue` |
| `OneCommitAckTheorem` | `OneCommitAck` |
| `NotFoundTheorem` | `NotFoundMeansEnded` |
| `AllOrNothingTheorem`, `FailedDeleteTheorem` | `AllOrNothing`, `FailedDeleteHasNoEffect`, for the `execContext` of db.go |
| `ContractTheorem` | `KeepsContract`: refinement of `TxContract`, for the `execContext` of db.go |
| `PostgresDeleteTheorem` | `DeleteAckIsDurable`, for the `execContext` of postgres.go |

The inductive invariant is
`IInv == TypeOK /\ Control /\ Registered /\ OneCommitter /\ NotFound /\ Applied /\ Staged`.

- `Control` ties `pc` to the handler and the transaction it works on; typing
  itself needs it, because `staged[arg[r]]` is only a set if `arg[r]` is an id.
- `Registered` says that an id that was handed out is registered until its
  transaction ends. It is the reason why 404 is no accident, and it holds because
  `commitTx` forgets an id after `Commit` and the timer forgets nothing.
- `OneCommitter` says that at most one request is inside `Commit` of a
  transaction or has been told that it committed it; `OneCommitAck` alone is not
  inductive, since two requests inside `Commit` would both be told.
- `Applied` and `Staged` say that a commit leaves no statement behind, and that
  whatever is staged was answered 200 by the request that sent it, or its answer was lost.

Two further layers rest on it: what is durable of a statement, with an id and without
(`Atomic`, which is `AllOrNothing` and that a statement that has yet to run has no effect),
and that PostgreSQL's statements are durable when they are
answered (`Immediate`). A failed statement is neither staged nor durable, unless its
answer was lost, so that `FailedDeleteHasNoEffect` follows from `Staged` and `Atomic`. The refinement proof maps each action to a step of the
contract or to a stutter; a crash maps to one step that ends all transactions.

### SequenceLemmas and QueryArgs_proofs

What a loop over a slice collects is written with `FlattenSeq` in the models: one
sequence for each element, put together. The library states nothing about
`FlattenSeq`, and its induction theorems cannot be used, as they take an operator.
`SequenceLemmas` does without: the set of the numbers up to `n` for which something
holds is a set like any other, and if it holds 0, and `k + 1` with every `k < n`, it
holds them all, since the numbers it lacks would have a least one (`Least`, `UpTo`). From
`UpTo` follow

- `Flatten`: the prefixes of a concatenation exist, and the last of them is
  `FlattenSeq`; this is what its recursive definition says, as a fact about all lengths;
- `FlattenRelated`: sequences of sequences that agree in their lengths one by one,
  and are related position by position, are so after the concatenation;
- `SameLengths`: if no sequence is longer than its counterpart, the concatenations
  are of one length only if each pair is;
- `FlattenRange`, `PickedElements`: the elements of a concatenation and of a selection.

`QueryArgs_proofs` applies them to the loops that collect columns and arguments. Each
field of the descriptor gives some columns and some arguments; `FieldMeets` says that
the two belong together for one field, with the one exception of a money field that is
sent with both keys. `ArgumentsMeetColumns` is the lemma the modules with state use: if
there are as many arguments as columns, the `n`-th argument is the value of the `n`-th
column, and the columns are those sent. The exception needs no hypothesis: such a
field has more columns than arguments and none has fewer, so the lengths differ and the
database refuses the statement.

### Resources_proofs

`TypeCorrect`, `AnswerTellsEffectTheorem`, `DeletedOnceTheorem`, `ArgumentsMatchTheorem`,
`StoredAsSentTheorem`, `ReplyShowsWriteTheorem` and `ContractTheorem`, for any fields, bodies, ids and number of
concurrent requests. `ResourcesAssumption` says that a field has one key, a money field one or
two, and that a body is a function from keys to values, as a decoded JSON object is.
`IInv == TypeOK /\ Functions /\ Control /\ Accounted /\ Foreseen /\ AnswerTellsEffect`.

- `Accounted` is the balance of rows: those that are there and those deleted are
  those at the start and those created. PATCH may move a row to another id, which
  is why rows are counted rather than followed.
- `Foreseen` says what the query after a statement is going to find, unless the
  request was disturbed; it carries the knowledge of the statement over the gap
  between the two calls. Without it `AnswerTellsEffect` is not inductive.

`StoredAsSent` and `ReplyShowsWrite` are proved with a second layer, `DataInv`: what a
statement has written, and what the query after it is going to show. It rests on
`ArgumentsMatchTheorem`, which is a fact about the constants and holds of every body.

`ContractTheorem` maps every step to one of `TableContract` or to a stutter (`ContractStep`).
It needs one layer more, `Untold`: who is not answered yet was told nothing, and a POST that
reads its row back has created it. `WrittenIsSent`, again by `ArgumentsMatchTheorem`, is what
makes a statement's columns and arguments the data of the contract.

### ScanBuffers_proofs

`TypeCorrect` and `UndisturbedTheorem`, for any number of requests, tables, columns,
rows and words of a destination. `IInv == TypeOK /\ Functions /\ Sharing /\ RowExact /\ OutExact`:
`Sharing` says that two requests under way on the same destinations have both
met; `RowExact` relates every word already scanned to the row under way and every word
read to the destination; `OutExact` says that the finished rows are exact.

### ResultSet_proofs

`TypeCorrect`, `NoDuplicatesTheorem`, `NothingLostTheorem`, `ManyToOneExactTheorem`,
`SingleIsCompleteTheorem`, `EmptyOnlyAfterRelatedTheorem`, for any number of rows,
relationships and related rows.
`IInv == TypeOK /\ Given /\ RowsExact /\ LoopExact /\ AttachedExact /\ AnswerExact`.
The heart is `StandsFor(set, i, f)`: what the set of field `f` is after the `i`-th row,
namely the related rows seen so far, without repetition, and the all-NULL row only if
a row that had nothing followed one that had something. `LoopExact` says it of the set under
way, `AttachedExact` of every set already given to a result. It states
precisely what the shared set does, so that both the properties that hold and the
one that does not (`MCRes_own`) can be read from it. `JoinShowsRelated` and `JoinNotEmpty`
are facts about the join: no related row and no main row is left out of it.

### Lifecycle_proofs

`TypeCorrect`, `ServesWhatItReadTheorem`, `GracefulStopTheorem` (an action property) and
`OneAlterationIsNoticedTheorem` for any configuration of tables and relationships and any bounds, and
`SteadyServiceTheorem` under the hypothesis `EnoughConnections`: more connections than
tables with relationships.
`IInv == TypeOK /\ LoopsFromTheStart /\ ReadSoFar /\ ServerState`: `ReadSoFar` says which
tables each of the two loops has read when it is at a given one; `ServerState` ties the
two goroutines together: `Stop` drains only a server that `run` has made.

A second layer, `WaitingIsServed`, says that a request waits only for a process that has
read everything. `SteadyService` has a third, `SteadyInv`. Its parts are `OneLeakEach` (what the
loops have leaked so far is one connection for each table with relationships they have passed,
counted with the cardinalities of `FiniteSetTheorems`) and `NothingAltered` (what was read is
what is there, up to the first alteration). The lemma `WaitingIsAnswered` draws from
them that no error is left to answer with. The hypothesis is needed: with as many connections as
such tables the process starts and answers every request with an error.

The fourth layer, `NamesAsRead`, is of `OneAlterationIsNoticed`. As long as at most one
column has been added or dropped since the process was started, there are columns `C`
of the tables (those before the alteration) such that what was read of each table and of each
join is that of `C` or that of now; `C` and now differ in one table, which has a column
more or less. The two facts about the code are lemmas about any two such databases:
`CutIsExact` (if the pieces into which `prependTableNameToColumnsInJoinedTables` cuts a join
fit its length, every column gets its own table) and `SameJoin` (if the names read for a
join are as many as the columns the query returns, they are the same). Both rest on
`SameLengths`: as all tables but one have their old number of columns, a join
keeps its length only if each of its tables does. With two alterations the argument
breaks, and so does the property. TLC checked `NamesAsRead` as an invariant of the instance
of `MCLifecycle`, with `C` taken from the columns that differ in one table.

### Reads_proofs

`TypeOKTheorem`, `MostSpecificRouteTheorem`, `ContextOfOneDescriptorTheorem`,
`CollectionExactTheorem`, `OptionsExactTheorem`, `RelatedShownByIdTheorem` and
`NothingHiddenTheorem`, for every request, every list of descriptors and every content of
the tables. `ReadsAssumption` says what the types of the code say: paths, descriptors, fields
and rows are sequences, a field has as many columns as keys; and what the
templates and the formatter need: rows have the unique id column, and a relationship is with
another table that has a descriptor (`RelatesTables`).
`IInv == Input /\ Checked /\ Injected /\ Shown`: `Checked` is what a request has passed
when it is at a station of the middleware, `Injected` that a context with a table is
the one made of the descriptors found for the request's key, `Shown` that an answer with rows
is the `Items` of the results.

- `MostSpecificRoute` needs none of it: it is a fact about the thirteen paths, of which
  only two have a literal segment.
- `NothingHidden` is proved field by field: a plain field is the last one that is shown under
  its name (`FieldShown`), as the sanity checks and `Plain` leave each name to one field, and
  a relationship that is shown is not overwritten (`RelationshipShown`).
- `CollectionExact`, `OptionsExact` and `RelatedShownById` have a layer of their own,
  `QueryInv`, which says what the arguments are and what the query returned: an order of the
  rows wanted, for options, or a bijection onto `Join`. `JoinTyped` and `JoinFinite` are facts
  about `Join`, so that it has as many results as elements. The function of
  `CollectionExact` from items to rows is the one that gives a result its row; it is onto
  because a LEFT JOIN drops no row, and injective without relationships because a row has
  one combination of no related rows. That the condition the database evaluates,
  placeholder by placeholder, is the one the parameters state is
  `ArgumentsMeetColumns` again, with both ways in which the templates
  number the placeholders (`CollectionSelects`), and with the filter as the argument of the
  first of them (`OptionsSelect`).
- `RelatedShownById` follows what is gathered. `Gathered` says that after the result in which
  a related row comes, and in every later one, an equal row is in the set (the one of the least
  index is appended); `ResultRepeated` that a row is joined with each of its related rows in
  some result; `IdShown` and `IdTold` that the formatter reduces a row of a table that shows
  its id to that id. The first two give the lower bound of a list and the reference that is
  found; that the set holds nothing but rows of results so far gives the upper bound.
- The type invariant needs `Fresh` (nothing is read before there is a context), since the
  results are typed by the table of the context.
- `PickedIndices` of `SequenceLemmas` (a selection is a sequence at increasing indices) is what
  turns a set gathered in a loop into statements about its elements.

### Only model-checked

Liveness (`RequestsEnd`, `TransactionsEnd`, `StopEnds`, `ServesOrEnds`), as fairness and
`ENABLED` are beyond the prover. Every invariant and action property of the passing
runs is a theorem as well, some under a hypothesis that their section names: the
`execContext` in use (`RunsOnTx`) and `EnoughConnections`.

## What the models show about the code

- **A deletion is acknowledged and rolled back** (`MCTx_delete_ack`, db.go:53).
  `execContext` drops the error of the `Commit` it makes after each statement of a
  client's transaction. If the deadline passes between the two calls, the client
  reads "successfully deleted" of a row that is still there.
- **An expired transaction stays registered** (`MCTx_expired`, db.go:150). The timer
  deletes a `uuid.UUID` from a map whose keys are strings, and logs that the
  transaction "has been deleted from backend".
- **Concurrent requests mix rows** (`MCScan_race`, db.go:187). `rows.Scan` writes the
  destinations allocated at startup; two requests on one table can answer with each
  other's values, or with a string made of two.
- **A row of a collection lists its predecessors' related rows** (`MCRes_own`, db.go:212).
- **The id of a transaction is lost** (`MCReads_tx`, backend.go:47, 57). The routes of
  PATCH and POST without `?tx` are registered before the ones with it and match
  first, so such a statement runs outside its transaction. A DELETE runs inside.

Seen on the way and not kept as runs:

- `execContext` without an id begins a transaction and runs the statement on the
  pool beside it (db.go:56), although db.go:29 says "We will still run the exec
  statement within a new transaction". `TxContract` describes what is left: the
  statement alone decides.
- PostgreSQL runs statements sent with an id outside their transaction
  (postgres.go:154, 161).
- The registry also keeps a transaction that `execContext` committed (db.go:53), so
  that its later commit is answered 500, not 404.
- A resource with two related rows is answered as two objects, by GET of one row
  (db.go:101) and in a collection; the later one lists what the earlier one lists and more.
- A money field of a descriptor without `columnAsOptionName`, which the sanity checks allow, is
  shown as a `name` that is null, and its amount is not shown: its `fromColumn` is empty and
  equals the option name (jsonForWorkflowAccelerator.go:185). `NothingHidden` speaks of
  descriptors with an option name. A relationship called `name` or `id` is overwritten by
  the renamed column.
- A statement of a transaction that took effect while its answer was lost is told to have
  failed, and is committed with the transaction, which stays open (db.go:49-52).
- A row with nothing related is given the all-NULL row if a row before it had
  something (db.go:213 and 231, against the comment at 216-218), and in no other case
  (`EmptyOnlyAfterRelated`).
- A PATCH that changes the id is answered 404 (updateSingle.go:107), although it
  took effect: `AnswerTellsEffect` names this exception, and therefore does not watch it.
- With two descriptors of one table the rows of one are named and shown with the other; if they
  join different tables every request with rows is answered 500
  (db.go:82-88).
- Data with both keys of a money field has two columns and one argument and is
  always refused (sqlBackend.go:49-57).
- A client that sends the key of a relationship adds a column without a name, and the
  database refuses the statement.
- A table whose unique id column is not called `id`, or is its name column as
  well, is answered without an `id`, and related rows of it are shown as null
  (jsonForWorkflowAccelerator.go:185-196, 285). In the shipped descriptor this is `inventory`.
- Each table with relationships keeps one connection for the life of the process
  (sqlBackend.go:248). `SetMaxOpenConns` is never called, so only the database's own limit counts.
- Oracle's filters of collections and options are no valid SQL and need format
  functions the handlers do not pass; such requests are answered 400 or 500.

`NotFoundMeansEnded`, `KeepsContract`, `AnswerTellsEffect`, `OneAlterationIsNoticed` and
`UndisturbedIsExact` say how far the code is right all the same: no client loses an
open transaction, no statement slips into an ended one, whoever is told anything but 500
knows what became of his statement, a single altered table is noticed, and
requests that do not overlap never see each other's leftovers.

## What is not modelled

- SQL Server: its backend sets no `CastBackendTypeToGolangType`, so that the process
  panics at the first table and never serves.
- The text of statements and values: quoting, type names, `to_date` and character sets of
  Oracle, dates and numbers as text. They are conversions without state.
- Key derivation, TLS and installing the service; `Reads` has the outcome of the
  authentication as part of a request.
- Reading the configuration and the descriptor file; their results are constants, and
  `Init` of `Reads` demands what the sanity checks demand.
- Several relationships with one table: the templates give the joined table no alias, and
  the database refuses the query at startup. Relationships with the table itself: the
  columns of both would be gathered under one name. In `Scannable`, two lists of joined
  tables that have by accident the same number of columns in all.
- A relationship whose key is the name of a column of the table: db.go:235 overwrites the
  value of the column. A descriptor without `uniqueIdColumn`, whose statements are no SQL. A
  `fromColumn` of a money field itself.
- SQLite may read a quoted name of no column as a text; `Reads` takes options of a
  descriptor without an option name for refused.
- The order of rows of one unique id.
- Tables whose unique id is not the number that `LastInsertId` reports.
- A request of `Transactions` sends at most one statement. Requests of `Resources` send
  keys the descriptor knows and no relationships; its rows have none.
- A related row of `ResultSet` has no columns: there it stands for itself, and the results
  of the join may get lost on the way. `Reads` has the columns, their names and what is
  shown of them. A one-to-one field is formatted like a many-to-one field.
- Logging, build, packaging.

## Plan

Done, in this order: `TxContract`, `Transactions` and their proofs; `ScanBuffers`,
`ResultSet`, `QueryArgs`, `Resources`, `TableContract`; `SchemaMapping` and `Lifecycle`; `Descriptors`,
`Routes`, `Dialects` and `Reads`; the proofs about `Resources`, `ScanBuffers`, `ResultSet`,
`Lifecycle` and `Reads`.

Then `Selection` and `SequenceLemmas`, with which the properties that depend on what loops
collect were proved.

What would come next: the composition of `ResultSet` with `ScanBuffers`: what a mixed row
does to the sets of related rows.
