------------------------------ MODULE Lifecycle ------------------------------
(***************************************************************************)
(* The life of the process: main.go and the service manager that starts,   *)
(* restarts and stops it (init/wfc@.service), the order in which run opens *)
(* the backend (open and SaveSchemaMapping of sqlBackend.go) and serves,   *)
(* and the requests it serves with the schemas it read.                    *)
(*                                                                         *)
(* run is one goroutine, Stop is called on another: they share App.server. *)
(* Meanwhile the database can be unreachable, and its tables can be        *)
(* altered.                                                                *)
(***************************************************************************)
EXTENDS SchemaMapping, FiniteSets

CONSTANTS
  Requests,        \* GET requests for the rows of a table
  InitialColumns,  \* InitialColumns[t]: the columns of t at the start, in order
  ColumnNames,     \* the names a column can have
  Connections,     \* how many connections the database allows
  StartLimit,      \* starts after which the manager gives up
  MaxAlterations,  \* bound: columns added or dropped
  MaxFailures      \* bound: outages of the database, kills of the process and
                   \* failures of its listener

ASSUME LifecycleAssumption ==
  /\ InitialColumns \in [Range(Tables) -> Seq(ColumnNames)]
  /\ Connections \in Nat \ {0} /\ StartLimit \in Nat \ {0}
  /\ MaxAlterations \in Nat /\ MaxFailures \in Nat

VARIABLES
  unit,       \* the service: active, stopped or failed
  starts,     \* how often it was started within StartLimitInterval
  run,        \* what the run goroutine does next; none if there is no process
  next,       \* the table it is at
  stop,       \* what Stop does next
  server,     \* App.server: nil, ready, or shut down
  mapping,    \* SchemaMapping[t], of the tables read so far: its columns
  joined,     \* SchemaMapping[t + "\x00relationships"]
  leaked,     \* connections held by rows nobody closes
  request,    \* request[r]: its state, and the table it asks for
  answer,     \* answer[r]: the names its values were given, the columns they
              \* came from, and (history) altered at that moment
  columns,    \* columns[t]: the columns of t in the database
  reachable,  \* whether the database answers
  altered,    \* history: alterations since the process was started
  alterations, failures   \* how many there have been

process == <<run, next, stop, server, mapping, joined, leaked>>
manager == <<unit, starts>>
clients == <<request, answer>>
database == <<columns, reachable, altered, alterations, failures>>
vars == <<manager, process, clients, database>>

NothingRead == [t \in {} |-> Null]
NoAnswer == [names |-> <<>>, columns |-> <<>>, altered |-> 0]

Init ==
  /\ unit = "active" /\ starts = 0
  /\ run = "none" /\ next = 1 /\ stop = "none" /\ server = "nil"
  /\ mapping = NothingRead /\ joined = NothingRead /\ leaked = 0
  /\ request = [r \in Requests |-> [state |-> "idle", table |-> Null]]
  /\ answer = [r \in Requests |-> NoAnswer]
  /\ columns = InitialColumns /\ reachable = TRUE
  /\ altered = 0 /\ alterations = 0 /\ failures = 0

-----------------------------------------------------------------------------
\* The process ends with a status: whoever waits for an answer gets none.
\* The manager restarts it unless it ended with 0 or was to be stopped.
Exit(status) ==
  /\ run' = "none" /\ next' = 1 /\ stop' = "none" /\ server' = "nil"
  /\ mapping' = NothingRead /\ joined' = NothingRead /\ leaked' = 0
  /\ unit' = IF stop # "none" THEN IF status = 0 THEN "stopped" ELSE "failed"
             ELSE IF status = 0 THEN "stopped" ELSE "active"
  /\ request' = [r \in Requests |-> IF request[r].state = "waiting"
                                    THEN [request[r] EXCEPT !.state = "cut off"]
                                    ELSE request[r]]
  /\ UNCHANGED <<starts, answer, columns, reachable, altered, alterations>>
Exits(status) == Exit(status) /\ UNCHANGED failures

\* Restart=on-failure, until StartLimitBurst starts in StartLimitInterval.
Start ==
  /\ unit = "active" /\ run = "none"
  /\ IF starts < StartLimit
     THEN /\ starts' = starts + 1 /\ run' = "endpoint" /\ altered' = 0
          /\ UNCHANGED unit
     ELSE unit' = "failed" /\ UNCHANGED <<starts, run, altered>>
  /\ UNCHANGED <<next, stop, server, mapping, joined, leaked, clients,
                 columns, reachable, alterations, failures>>

IntervalPasses ==
  /\ starts > 0 /\ starts' = 0
  /\ UNCHANGED <<unit, process, clients, database>>

\* One step of run, which leaves everything but the process alone.
Run(from, to) ==
  /\ run = from /\ run' = to
  /\ UNCHANGED <<manager, stop, clients, database>>

\* NewEndpoint and sql.Open: a driver that is not supported, or a URL that
\* does not parse, ends the process.  The database is not asked yet.
Open ==
  /\ Run("endpoint", IF Tables = <<>> THEN "server" ELSE "plain")
  /\ UNCHANGED <<next, server, mapping, joined, leaked>>

\* A query gets a connection and an answer.
Answers == reachable /\ leaked < Connections
StartupFails == run \in {"plain", "joined"} /\ ~Answers /\ Exits(1)

\* Mutant of Advance: the loop goes on once more after the last table.
AdvanceOnceMore(loop, after) ==
  /\ Run(loop, IF next > Len(Tables) THEN after ELSE loop)
  /\ next' = IF next > Len(Tables) THEN 1 ELSE next + 1

\* The loops of SaveSchemaMapping: from the last table of the first to the
\* first of the second, and from that to the server.
Advance(loop, after) ==
  /\ Run(loop, IF next = Len(Tables) THEN after ELSE loop)
  /\ next' = IF next = Len(Tables) THEN 1 ELSE next + 1

\* The map with an entry for k.
Put(m, k, v) == [x \in DOMAIN m \cup {k} |-> IF x = k THEN v ELSE m[x]]

\* Mutant of ReadPlain: its rows are not closed either.
ReadPlainLeaking ==
  LET t == Tables[next] IN
  /\ Advance("plain", "joined") /\ Answers /\ columns[t] # <<>>
  /\ mapping' = Put(mapping, t, columns[t])
  /\ leaked' = leaked + 1
  /\ UNCHANGED <<server, joined>>

\* populateBackendSchemaMapping
ReadPlain ==
  LET t == Tables[next] IN
  /\ Advance("plain", "joined") /\ Answers /\ columns[t] # <<>>
  /\ mapping' = Put(mapping, t, columns[t])
  /\ UNCHANGED <<server, joined, leaked>>

NoColumns == run = "plain" /\ Answers /\ columns[Tables[next]] = <<>> /\ Exits(1)

\* addRelationshipsToBackendSchemaMapping: the rows are not closed.
ReadJoined ==
  LET t == Tables[next]
      result == JoinColumns(t, columns)
  IN /\ Advance("joined", "server")
     /\ HasRelationships(t) /\ Answers /\ ~CutPanics(t, mapping, result)
     /\ joined' = Put(joined, t, Cut(t, mapping, result))
     /\ leaked' = leaked + 1
     /\ UNCHANGED <<server, mapping>>

ReadPanics ==
  LET t == Tables[next] IN
  /\ run = "joined" /\ HasRelationships(t) /\ Answers
  /\ CutPanics(t, mapping, JoinColumns(t, columns))
  /\ Exits(2)

\* Mutant of SkipUnrelated: the loop ends at the first such table.
SkipToServer ==
  /\ run = "joined" /\ ~HasRelationships(Tables[next])
  /\ Run("joined", "server") /\ next' = 1
  /\ UNCHANGED <<server, mapping, joined, leaked>>

SkipUnrelated ==
  /\ run = "joined" /\ ~HasRelationships(Tables[next])
  /\ Advance("joined", "server")
  /\ UNCHANGED <<server, mapping, joined, leaked>>

NewServer ==
  /\ Run("server", "listen") /\ server' = "ready"
  /\ UNCHANGED <<next, mapping, joined, leaked>>

\* ListenAndServe returns at once if the server has been shut down.
Listen ==
  /\ Run("listen", IF server = "ready" THEN "serving" ELSE "returned")
  /\ UNCHANGED <<next, server, mapping, joined, leaked>>

\* The port is taken, or accepting connections fails for good.
ServeFails ==
  /\ run \in {"listen", "serving"} /\ server = "ready" /\ failures < MaxFailures
  /\ Exit(1) /\ failures' = failures + 1

\* Mutant of ServeReturns: the process ends when run does.
ServeReturnsAndExits == run = "serving" /\ server = "down" /\ Exits(0)

\* Shutdown has been called: ListenAndServe returns http.ErrServerClosed, and
\* run with it.  The process waits for Stop.
ServeReturns ==
  /\ Run("serving", "returned") /\ server = "down"
  /\ UNCHANGED <<next, server, mapping, joined, leaked>>

-----------------------------------------------------------------------------
\* The service is stopped: Stop is called while run is wherever it is.
StopAsked ==
  /\ unit = "active" /\ run # "none" /\ stop = "none"
  /\ stop' = "asked"
  /\ UNCHANGED <<manager, run, next, server, mapping, joined, leaked, clients, database>>
StopBetweenStarts ==
  /\ unit = "active" /\ run = "none" /\ unit' = "stopped"
  /\ UNCHANGED <<starts, process, clients, database>>

\* Mutant of StopPanics: a server that is not there yet is passed over, and
\* run goes on to make and to start it.
StopIgnored ==
  /\ stop = "asked" /\ server = "nil"
  /\ stop' = "none"
  /\ UNCHANGED <<manager, run, next, server, mapping, joined, leaked, clients, database>>

\* Shutdown of a nil *http.Server.
StopPanics == stop = "asked" /\ server = "nil" /\ Exits(2)

Shutdown ==
  /\ stop = "asked" /\ server = "ready"
  /\ stop' = "draining" /\ server' = "down"
  /\ UNCHANGED <<manager, run, next, mapping, joined, leaked, clients, database>>

Waiting == {r \in Requests : request[r].state = "waiting"}

\* Shutdown returns when no request is left; then os.Exit(0), or main returns.
StopReturns == stop = "draining" /\ Waiting = {} /\ Exits(0)

Killed ==
  /\ run # "none" /\ failures < MaxFailures
  /\ Exit(137) /\ failures' = failures + 1

-----------------------------------------------------------------------------
Arrive(r, t) ==
  /\ run = "serving" /\ server = "ready" /\ request[r].state = "idle"
  /\ request' = [request EXCEPT ![r] = [state |-> "waiting", table |-> t]]
  /\ UNCHANGED <<manager, process, answer, database>>

\* Mutant of NamesFor: the names of the table itself in every case.
NamesForPlain(t) == PlainColumns(t, mapping)

\* queryContextForNonOptionRoutes: the destinations and the names are those of
\* the mapping of the join, if t has relationships, and else of its own.
NamesFor(t) ==
  IF HasRelationships(t) THEN joined[t] ELSE PlainColumns(t, mapping)
Result(t) == IF HasRelationships(t) THEN JoinColumns(t, columns) ELSE PlainColumns(t, columns)

Respond(r, state, a) ==
  /\ request' = [request EXCEPT ![r].state = state]
  /\ answer' = [answer EXCEPT ![r] = a]
  /\ UNCHANGED <<manager, process, database>>

\* rowsToResults: the values of a row get the names by position.
Answer(r) ==
  LET t == request[r].table IN
  /\ request[r].state = "waiting" /\ Answers
  /\ ~ScanFails(NamesFor(t), Result(t))
  /\ Respond(r, "200", [names |-> NamesFor(t), columns |-> Result(t), altered |-> altered])

AnswerFails(r) ==
  LET t == request[r].table IN
  /\ request[r].state = "waiting"
  /\ ~Answers \/ ScanFails(NamesFor(t), Result(t))
  /\ Respond(r, "500", NoAnswer)

-----------------------------------------------------------------------------
\* ALTER TABLE: a new column is the last one.
Alter(t, cols) ==
  /\ reachable /\ alterations < MaxAlterations
  /\ columns' = [columns EXCEPT ![t] = cols]
  /\ altered' = altered + 1 /\ alterations' = alterations + 1
  /\ UNCHANGED <<manager, process, clients, reachable, failures>>
AddColumn(t, c) == c \notin Range(columns[t]) /\ Alter(t, Append(columns[t], c))
DropColumn(t, i) == i \in DOMAIN columns[t] /\ Alter(t, RemoveAt(columns[t], i))

DatabaseGoes ==
  /\ reachable /\ failures < MaxFailures
  /\ reachable' = FALSE /\ failures' = failures + 1
  /\ UNCHANGED <<manager, process, clients, columns, altered, alterations>>
DatabaseReturns ==
  /\ ~reachable /\ reachable' = TRUE
  /\ UNCHANGED <<manager, process, clients, columns, altered, alterations, failures>>

RunStep ==
  \/ Open \/ StartupFails \/ ReadPlain \/ NoColumns \/ ReadJoined \/ ReadPanics
  \/ SkipUnrelated \/ NewServer \/ Listen \/ ServeReturns
StopStep == StopPanics \/ Shutdown \/ StopReturns

Next ==
  \/ Start \/ IntervalPasses
  \/ RunStep \/ ServeFails
  \/ StopAsked \/ StopBetweenStarts \/ StopStep \/ Killed
  \/ \E r \in Requests : (\E t \in Range(Tables) : Arrive(r, t)) \/ Answer(r) \/ AnswerFails(r)
  \/ \E t \in Range(Tables) :
       \/ \E c \in ColumnNames : AddColumn(t, c)
       \/ \E i \in DOMAIN columns[t] : DropColumn(t, i)
  \/ DatabaseGoes \/ DatabaseReturns

Spec == Init /\ [][Next]_vars

\* The manager restarts the service, goroutines are scheduled, and a query is
\* answered, if only by an error.
Fairness ==
  /\ WF_vars(Start) /\ WF_vars(RunStep) /\ WF_vars(StopStep)
  /\ \A r \in Requests : WF_vars(Answer(r) \/ AnswerFails(r))
FairSpec == Spec /\ Fairness

-----------------------------------------------------------------------------
(* Properties.                                                             *)

RequestTypes ==
  [Requests -> [state : {"idle", "waiting", "200", "500", "cut off"},
                table : Range(Tables) \cup {Null}]]

TypeOK ==
  /\ unit \in {"active", "stopped", "failed"} /\ starts \in 0 .. StartLimit
  /\ run \in {"none", "endpoint", "plain", "joined", "server", "listen", "serving", "returned"}
  /\ run \in {"plain", "joined"} => next \in DOMAIN Tables
  /\ stop \in {"none", "asked", "draining"} /\ server \in {"nil", "ready", "down"}
  /\ leaked \in Nat /\ failures \in 0 .. MaxFailures
  /\ request \in RequestTypes

\* Requests are served only when every schema they can need has been read
\* (SaveSchemaMapping, before NewServer): a handler uses the mapping of its
\* table without a check.
ServesWhatItRead ==
  run = "serving" =>
    \A t \in Range(Tables) :
      t \in DOMAIN mapping /\ (HasRelationships(t) => t \in DOMAIN joined)

\* One ALTER TABLE, at whatever moment of the startup or the service, never
\* makes an answer give a value the name of another column, although columns
\* are named, and joins are cut into tables, by position only: the connector
\* fails to start, or the request fails, until the next start.
OneAlterationIsNoticed ==
  \A r \in Requests :
    request[r].state = "200" /\ answer[r].altered <= 1 => answer[r].names = answer[r].columns

\* The queries of the startup leave enough connections to serve, although the
\* rows of some stay open: as long as nothing fails and nothing is altered,
\* every request is answered with its rows.
SteadyService ==
  \A r \in Requests : request[r].state = "500" => failures > 0 \/ alterations > 0

\* A service that is stopped answers the requests under way before it exits
\* (main.go:32), also those that arrived while Stop was being called.
GracefulStop ==
  [][stop = "draining" /\ run' = "none" /\ failures' = failures => Waiting = {}]_vars

\* Stop ends the process, wherever run is.
StopEnds == stop # "none" ~> run = "none"

\* A database that comes back finds the connector serving again, or given up
\* by its manager: no failed start leaves the process hanging.
ServesOrEnds ==
  <>[](reachable /\ \A t \in Range(Tables) : columns[t] # <<>>)
    => <>[](run = "serving" \/ unit # "active")
=============================================================================
