------------------------------ MODULE Resources ------------------------------
(***************************************************************************)
(* The handlers that change one resource, createSingle.go, updateSingle.go *)
(* and deleteSingle.go of internal/app/backend, and getSingle.go, which    *)
(* the first two call to answer with what they wrote: the statement and    *)
(* the query after it are two calls to the database, and other requests    *)
(* come in between.                                                        *)
(*                                                                         *)
(* A statement takes effect by itself: no request here names a             *)
(* transaction (Transactions models those).  The table has no              *)
(* relationships (ResultSet models those), and its unique id is the        *)
(* number that LastInsertId reports, if the database reports one.          *)
(***************************************************************************)
EXTENDS QueryArgs, FiniteSets

CONSTANTS
  Requests,
  Fields,       \* the fields of the type descriptor
  Ids,          \* the unique ids a row can have
  IdKey,        \* the key of the unique id column
  InitialRows,  \* the rows that are there at the start, by their ids
  Bodies,       \* the data of POST and PATCH requests
  Null

Keys == KeysOf(Fields)

ASSUME ResourcesAssumption ==
  /\ AreFields(Fields)
  /\ IdKey \in Keys /\ Null \notin Ids
  /\ DOMAIN InitialRows \subseteq Ids /\ IsFiniteSet(DOMAIN InitialRows)
  /\ \A i \in DOMAIN InitialRows : DOMAIN InitialRows[i] = Keys \ {IdKey}
  /\ \A b \in Bodies : /\ b = [k \in DOMAIN b |-> b[k]] /\ DOMAIN b \subseteq Keys
                       /\ (IdKey \in DOMAIN b => b[IdKey] \in Ids)

VARIABLES
  table,        \* table[i]: the columns of the row with unique id i
  pc,           \* pc[r]: the next call of the handler of r
  op,           \* op[r]: its method
  id,           \* id[r]: the id GetSingle or the statement uses
  body,         \* body[r]: its data
  answer,       \* answer[r]: the status and the row it is answered with
  effective,    \* history: requests whose statement changed the table
  disturbed     \* history: requests whose row another one changed between
                \* their statement and their query

vars == <<table, pc, op, id, body, answer, effective, disturbed>>
request == <<op, body>>

Columns == Keys \ {IdKey}
Rows == DOMAIN table

NoRow == [c \in {} |-> Null]

Init ==
  /\ table = InitialRows
  /\ pc = [r \in Requests |-> "idle"]
  /\ op = [r \in Requests |-> "none"]
  /\ id = [r \in Requests |-> Null]
  /\ body = [r \in Requests |-> NoRow]
  /\ answer = [r \in Requests |-> [code |-> "none", row |-> NoRow]]
  /\ effective = {} /\ disturbed = {}

\* The handler answers, with a row if it shows one.
Reply(r, code, row) ==
  /\ pc' = [pc EXCEPT ![r] = "done"]
  /\ answer' = [answer EXCEPT ![r] = [code |-> code, row |-> row]]

Goto(r, l) == pc' = [pc EXCEPT ![r] = l] /\ UNCHANGED answer

\* The table becomes t by a statement of r that changes the rows of ids.
Changes(r, t, ids) ==
  /\ table' = t
  /\ effective' = effective \cup {r}
  /\ disturbed' = disturbed \cup {q \in Requests \ {r} : pc[q] = "Query" /\ id[q] \in ids}
ChangesNothing == UNCHANGED <<table, effective, disturbed>>

-----------------------------------------------------------------------------
\* GET /<table>/<id> and DELETE /<table>/<id>.
Receive(r, o, i) ==
  /\ pc[r] = "idle"
  /\ op' = [op EXCEPT ![r] = o]
  /\ id' = [id EXCEPT ![r] = i]
  /\ Goto(r, IF o = "GET" THEN "Query" ELSE "Exec")
  /\ UNCHANGED body /\ ChangesNothing

\* POST /<table> and PATCH /<table>/<id>: a body that does not parse is
\* refused ...
ReceiveUnreadable(r, o, i) ==
  /\ pc[r] = "idle"
  /\ op' = [op EXCEPT ![r] = o]
  /\ id' = [id EXCEPT ![r] = i]
  /\ Reply(r, "400", NoRow)
  /\ UNCHANGED body /\ ChangesNothing

\* ... and so is one with no field of the table, or a date that is none.
ReceiveData(r, o, i, b) ==
  /\ pc[r] = "idle"
  /\ op' = [op EXCEPT ![r] = o]
  /\ id' = [id EXCEPT ![r] = i]
  /\ body' = [body EXCEPT ![r] = b]
  /\ IF ColumnNames(Fields, b) # <<>> /\ ~CoerceFails(Fields, b)
     THEN Goto(r, "Exec")
     ELSE Reply(r, "400", NoRow)
  /\ ChangesNothing

\* The row with the columns the statement of r assigns.
Written(r, row) ==
  LET values == Assigned(ColumnNames(Fields, body[r]), Args(Fields, body[r]))
  IN [c \in Columns |-> IF c \in DOMAIN values THEN values[c] ELSE row[c]]
Accepted(r) == Accepts(ColumnNames(Fields, body[r]), Args(Fields, body[r]))

\* The statement fails, also because the database refuses it.
ExecFails(r) ==
  /\ pc[r] = "Exec"
  /\ Reply(r, "500", NoRow)
  /\ UNCHANGED <<request, id>> /\ ChangesNothing

\* The effects of the statements.  A new row gets the id that was sent, or
\* one the database picks.
Inserts(r, i) ==
  /\ pc[r] = "Exec" /\ op[r] = "POST" /\ Accepted(r)
  /\ i \in Ids \ Rows
  /\ IdKey \in DOMAIN body[r] => i = body[r][IdKey]
  /\ Changes(r, [j \in Rows \cup {i} |->
                   IF j = i THEN Written(r, [c \in Columns |-> Null]) ELSE table[j]], {i})

\* A row is written, and takes another id if one was sent.
Updates(r) ==
  LET from == id[r]
      to == IF IdKey \in DOMAIN body[r] THEN body[r][IdKey] ELSE from
  IN /\ pc[r] = "Exec" /\ op[r] = "PATCH" /\ Accepted(r)
     /\ from \in Rows /\ (to # from => to \notin Rows)
     /\ Changes(r, [j \in (Rows \ {from}) \cup {to} |->
                      IF j = to THEN Written(r, table[from]) ELSE table[j]], {from, to})

Deletes(r) ==
  /\ pc[r] = "Exec" /\ op[r] = "DELETE" /\ id[r] \in Rows
  /\ Changes(r, [j \in Rows \ {id[r]} |-> table[j]], {id[r]})

\* Mutant of ExecLost: a statement without a result is sent again.
ExecLostRetried(r) ==
  /\ (\E i \in Ids : Inserts(r, i)) \/ Updates(r) \/ Deletes(r)
  /\ Goto(r, "Exec")
  /\ UNCHANGED <<request, id>>

\* The statement takes effect, but its result does not arrive, or does not
\* say which row it was about.
ExecLost(r) ==
  /\ (\E i \in Ids : Inserts(r, i)) \/ Updates(r) \/ Deletes(r)
  /\ Reply(r, "500", NoRow)
  /\ UNCHANGED <<request, id>>

\* Mutant of ExecCreate: the id the database reports is not kept.
ExecCreateForgetsId(r, i, reports) ==
  /\ pc[r] = "Exec" /\ op[r] = "POST" /\ Accepted(r)
  /\ i \in Ids \ Rows
  /\ Goto(r, "Query")
  /\ UNCHANGED <<request, id>> /\ ChangesNothing

\* The database may report the id (LastInsertId); if not, the answer is 204.
ExecCreate(r, i, reports) ==
  /\ Inserts(r, i)
  /\ IF reports THEN id' = [id EXCEPT ![r] = i] /\ Goto(r, "Query")
     ELSE Reply(r, "204", NoRow) /\ UNCHANGED id
  /\ UNCHANGED request

ExecUpdate(r) == Updates(r) /\ Goto(r, "Query") /\ UNCHANGED <<request, id>>

\* There is no such row: of PostgreSQL the statement returns no id, which
\* UpdateSingle answers with 404; of the others it affects no row, and the
\* query says so.
ExecUpdateNone(r, returning) ==
  /\ pc[r] = "Exec" /\ op[r] = "PATCH" /\ Accepted(r)
  /\ id[r] \notin Rows
  /\ IF returning THEN Reply(r, "404", NoRow) ELSE Goto(r, "Query")
  /\ UNCHANGED <<request, id>> /\ ChangesNothing

\* Mutant of ExecDelete: the affected rows are not looked at.
ExecDeleteUnchecked(r) ==
  /\ pc[r] = "Exec" /\ op[r] = "DELETE"
  /\ Changes(r, [j \in Rows \ {id[r]} |-> table[j]], {id[r]})
  /\ Reply(r, "200", NoRow)
  /\ UNCHANGED <<request, id>>

\* The affected rows tell whether there was one with the id.
ExecDelete(r) ==
  /\ \/ Deletes(r) /\ Reply(r, "200", NoRow)
     \/ /\ pc[r] = "Exec" /\ op[r] = "DELETE" /\ id[r] \notin Rows
        /\ ChangesNothing /\ Reply(r, "404", NoRow)
  /\ UNCHANGED <<request, id>>

\* Mutant of QueryFails: any error is taken for a row that is not there.
QueryFailsNotFound(r) ==
  /\ pc[r] = "Query"
  /\ Reply(r, "404", NoRow)
  /\ UNCHANGED <<request, id>> /\ ChangesNothing

\* GetSingle, of a GET or called by the other handlers.
QueryFails(r) ==
  /\ pc[r] = "Query"
  /\ Reply(r, "500", NoRow)
  /\ UNCHANGED <<request, id>> /\ ChangesNothing

Query(r) ==
  /\ pc[r] = "Query"
  /\ IF id[r] \in Rows
     THEN Reply(r, IF op[r] = "POST" THEN "201" ELSE "200", table[id[r]])
     ELSE Reply(r, "404", NoRow)
  /\ UNCHANGED <<request, id>> /\ ChangesNothing

Handler(r) ==
  \/ \E i \in Ids : Receive(r, "GET", i) \/ Receive(r, "DELETE", i)
  \/ ReceiveUnreadable(r, "POST", Null)
  \/ \E i \in Ids : ReceiveUnreadable(r, "PATCH", i)
  \/ \E b \in Bodies : ReceiveData(r, "POST", Null, b)
  \/ \E b \in Bodies, i \in Ids : ReceiveData(r, "PATCH", i, b)
  \/ ExecFails(r) \/ ExecLost(r)
  \/ \E i \in Ids, reports \in BOOLEAN : ExecCreate(r, i, reports)
  \/ ExecUpdate(r)
  \/ \E returning \in BOOLEAN : ExecUpdateNone(r, returning)
  \/ ExecDelete(r)
  \/ QueryFails(r) \/ Query(r)

Next == \E r \in Requests : Handler(r)

Spec == Init /\ [][Next]_vars

-----------------------------------------------------------------------------
(* Properties.                                                             *)

TypeOK ==
  /\ Rows \subseteq Ids /\ \A i \in Rows : DOMAIN table[i] = Columns
  /\ pc \in [Requests -> {"idle", "Exec", "Query", "done"}]
  /\ op \in [Requests -> {"none", "GET", "POST", "PATCH", "DELETE"}]
  /\ id \in [Requests -> Ids \cup {Null}]
  /\ \A r \in Requests : pc[r] = "Query" => id[r] \in Ids
  /\ effective \cup disturbed \subseteq Requests

Answered(r, o, code) == pc[r] = "done" /\ op[r] = o /\ answer[r].code = code
Sends(r, c, v) == c \in DOMAIN body[r] /\ body[r][c] = v

\* Columns and arguments are collected in loops of their own, and of different
\* lengths (a money field has two columns and one argument): what the database
\* accepts nevertheless assigns exactly the data that was sent.
ArgumentsMatch ==
  \A b \in Bodies :
    Accepts(ColumnNames(Fields, b), Args(Fields, b)) => Assigned(ColumnNames(Fields, b), Args(Fields, b)) = b

\* No value ends up in a column it was not sent for, although columns and
\* arguments are collected apart: what a column holds was there at the start
\* or was sent for it by a request that was not refused.
StoredAsSent ==
  \A i \in Rows, c \in Columns :
    \/ table[i][c] \in {InitialRows[j][c] : j \in DOMAIN InitialRows} \cup {Null}
    \/ \E r \in effective : Sends(r, c, table[i][c])

\* A POST or PATCH that succeeds shows what it wrote ("it succeeds when
\* provided with valid parameters", crud_test.go:359-381), unless another
\* request changed the row between its statement and its query.
ReplyShowsWrite ==
  \A r \in Requests \ disturbed :
    Answered(r, "POST", "201") \/ Answered(r, "PATCH", "200") =>
      \A c \in DOMAIN body[r] \cap Columns : answer[r].row[c] = body[r][c]

\* "Resource ... successfully deleted" (deleteSingle.go:71) is said of a row
\* that this request deleted, and of each row at most once, however many
\* requests delete it at the same time and whatever ids PATCH gives it in
\* between: statements that took effect account for every row there is.
DeletedOnce ==
  LET by(o) == {r \in effective : op[r] = o}
  IN /\ \A r \in Requests : Answered(r, "DELETE", "200") => r \in effective
     /\ Cardinality(Rows) + Cardinality(by("DELETE"))
          = Cardinality(DOMAIN InitialRows) + Cardinality(by("POST"))

\* Who is told anything but 500 knows what became of his statement: it took
\* effect if he was told 200, 201 or 204, and did not if he was told 400 or
\* 404.  Only a POST or PATCH whose row another request changed or deleted
\* before the query, and a PATCH that changes the id itself, which the query
\* then does not follow, may be told 404 of a row they wrote.
AnswerTellsEffect ==
  \A r \in Requests :
    pc[r] = "done" /\ op[r] # "GET" /\ answer[r].code # "500" =>
      \/ r \in effective <=> answer[r].code \in {"200", "201", "204"}
      \/ op[r] \in {"PATCH", "POST"} /\ r \in disturbed
      \/ op[r] = "PATCH" /\ IdKey \in DOMAIN body[r]

\* The contract of TableContract.tla.
Contract == INSTANCE TableContract WITH method <- op, data <- body, about <- id,
                                        wrote <- effective, told <- answer

\* The handlers keep the contract, although a statement and the query that
\* answers it are two calls, results get lost, and columns and arguments are
\* collected apart: each request changes the table at most once, by the data it
\* sent, and is shown a row as it is then.
KeepsContract == Contract!CSpec
=============================================================================
