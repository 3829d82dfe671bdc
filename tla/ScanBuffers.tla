----------------------------- MODULE ScanBuffers -----------------------------
(***************************************************************************)
(* How the rows of a query become results (queryContext, rowsToResults,    *)
(* processRow and switchOnValueType of internal/pkg/sql/db.go).  The       *)
(* destinations that rows.Scan writes, one *sql.NullXxx per column, are    *)
(* allocated once, when the schema is read at startup (newSchemaMapping in *)
(* sqlBackend.go), and every request that queries the table writes and     *)
(* reads the same ones, with no lock.                                      *)
(*                                                                         *)
(* A destination is a word that says whether the value is NULL and the two *)
(* words of a Go string, its data and its size.  Requests race on them:    *)
(* the words of a column are written, and read, in any order.  A word      *)
(* holds the row it was scanned from, so that a mixture shows.             *)
(***************************************************************************)
EXTENDS Naturals, Sequences

CONSTANTS
  Requests,       \* GET requests, each served by a goroutine of its own
  Tables,         \* tables of the database
  Related,        \* those whose type descriptor has relationships
  Ids,            \* the rows of every table
  NullCells,      \* the <<row, column>> that are NULL
  NumColumns,     \* columns of a table
  OptionColumns,  \* columns of the option routes: unique id and name
  ResultSets,     \* the results of queries, as sequences of rows
  Null            \* NULL, and the words a NULL leaves behind

ASSUME ScanAssumption ==
  /\ Related \subseteq Tables
  /\ NumColumns \in Nat \ {0} /\ ResultSets \subseteq Seq(Ids)
  /\ OptionColumns \in Seq(1 .. NumColumns) /\ OptionColumns # <<>>
  /\ NullCells \subseteq Ids \X (1 .. NumColumns)
  /\ Null \notin Ids

VARIABLES
  buf,      \* buf[m][c]: the destination of column c in mapping m
  pc,       \* pc[r]: what the goroutine of r does next
  query,    \* query[r]: its route, table, mapping, columns and result set
  at,       \* at[r]: the row and the column it is at
  todo,     \* todo[r]: the words of that destination it has yet to touch
  got,      \* got[r]: the words it has read of each column of the row
  out,      \* out[r]: the results so far
  met       \* history: requests that overlapped with one that should not matter
            \* to them but may (see Peers)

vars == <<buf, pc, query, at, todo, got, out, met>>

Words == {"valid", "data", "size"}
NoWords == [w \in Words |-> Null]

\* The keys of SqlBackend.SchemaMapping.
Mappings == Tables \X {"plain", "relationships"}

\* Mutant of JoinedMapping: every route scans into the table's destinations.
PlainMapping(t) == <<t, "plain">>

\* Routes other than the option routes scan the join, if there is one.
JoinedMapping(t) == <<t, IF t \in Related THEN "relationships" ELSE "plain">>

\* The option routes scan into the destinations of the table itself, those of
\* the columns of the unique id and of the name.
OptionQuery(t, rows) ==
  [route |-> "options", table |-> t, mapping |-> <<t, "plain">>,
   columns |-> OptionColumns, rows |-> rows]
RowQuery(t, rows) ==
  [route |-> "rows", table |-> t, mapping |-> JoinedMapping(t),
   columns |-> [i \in 1 .. NumColumns |-> i], rows |-> rows]

Init ==
  /\ buf = [m \in Mappings |-> [c \in 1 .. NumColumns |-> NoWords]]
  /\ pc = [r \in Requests |-> "idle"]
  /\ query = [r \in Requests |-> <<>>]
  /\ at = [r \in Requests |-> [row |-> 0, col |-> 0]]
  /\ todo = [r \in Requests |-> {}]
  /\ got = [r \in Requests |-> <<>>]
  /\ out = [r \in Requests |-> <<>>]
  /\ met = {}

Active(r) == pc[r] \in {"next", "scan", "read"}
Column(r) == query[r].columns[at[r].col]
Row(r) == query[r].rows[at[r].row]
IsNull(id, c) == <<id, c>> \in NullCells

\* The requests under way on the same table whose route may share its
\* destinations: of a table that is joined with others, the option routes
\* have destinations of their own.
Peers(r, q) ==
  {p \in Requests \ {r} : Active(p) /\ query[p].table = q.table
                          /\ (q.table \in Related => query[p].route = q.route)}

\* queryContext: the database has evaluated the query.
QueryContext(r, q) ==
  /\ pc[r] = "idle"
  /\ query' = [query EXCEPT ![r] = q]
  /\ pc' = [pc EXCEPT ![r] = "next"]
  /\ met' = IF Peers(r, q) = {} THEN met ELSE met \cup Peers(r, q) \cup {r}
  /\ UNCHANGED <<buf, at, todo, got, out>>

\* Mutant of NextRow: the loop goes on once more after the last row.
NextRowOnceMore(r) ==
  /\ pc[r] = "next" /\ at[r].row <= Len(query[r].rows)
  /\ at' = [at EXCEPT ![r] = [row |-> @.row + 1, col |-> 1]]
  /\ todo' = [todo EXCEPT ![r] = Words]
  /\ got' = [got EXCEPT ![r] = [i \in DOMAIN query[r].columns |-> NoWords]]
  /\ pc' = [pc EXCEPT ![r] = "scan"]
  /\ UNCHANGED <<buf, query, out, met>>

\* rowsToResults: rows.Next; after the last row the results are returned.
NextRow(r) ==
  /\ pc[r] = "next" /\ at[r].row < Len(query[r].rows)
  /\ at' = [at EXCEPT ![r] = [row |-> @.row + 1, col |-> 1]]
  /\ todo' = [todo EXCEPT ![r] = Words]
  /\ got' = [got EXCEPT ![r] = [i \in DOMAIN query[r].columns |-> NoWords]]
  /\ pc' = [pc EXCEPT ![r] = "scan"]
  /\ UNCHANGED <<buf, query, out, met>>

NoMoreRows(r) ==
  /\ pc[r] = "next" /\ at[r].row = Len(query[r].rows)
  /\ pc' = [pc EXCEPT ![r] = "done"]
  /\ UNCHANGED <<buf, query, at, todo, got, out, met>>

\* The word is dealt with; after the words of a column come those of the
\* next, and after the last column comes the phase named next.
WordDone(r, w, next) ==
  IF todo[r] # {w}
  THEN todo' = [todo EXCEPT ![r] = @ \ {w}] /\ UNCHANGED <<at, pc>>
  ELSE LET last == at[r].col = Len(query[r].columns) IN
       /\ at' = [at EXCEPT ![r].col = IF last THEN 1 ELSE @ + 1]
       /\ todo' = [todo EXCEPT ![r] = Words]
       /\ pc' = IF last THEN [pc EXCEPT ![r] = next] ELSE pc

\* Mutant of ScanWord: a NULL leaves in the destination what was there.
ScanWordUnlessNull(r, w) ==
  /\ pc[r] = "scan" /\ w \in todo[r]
  /\ buf' = IF IsNull(Row(r), Column(r)) THEN buf
            ELSE [buf EXCEPT ![query[r].mapping][Column(r)][w] = Row(r)]
  /\ WordDone(r, w, "read")
  /\ UNCHANGED <<query, got, out, met>>

\* processRow: rows.Scan(values...), word by word.  A NULL clears the
\* destination.
ScanWord(r, w) ==
  /\ pc[r] = "scan" /\ w \in todo[r]
  /\ buf' = [buf EXCEPT ![query[r].mapping][Column(r)][w] =
                          IF IsNull(Row(r), Column(r)) THEN Null ELSE Row(r)]
  /\ WordDone(r, w, "read")
  /\ UNCHANGED <<query, got, out, met>>

\* switchOnValueType: NULL unless the destination is valid.
Value(words) ==
  IF words["valid"] = Null THEN Null ELSE <<words["data"], words["size"]>>

\* processRow: the destinations are read, column by column, into the result
\* that is appended to the results.
ReadWord(r, w) ==
  LET now == [got[r] EXCEPT ![at[r].col][w] = buf[query[r].mapping][Column(r)][w]]
  IN /\ pc[r] = "read" /\ w \in todo[r]
     /\ got' = [got EXCEPT ![r] = now]
     /\ WordDone(r, w, "next")
     /\ out' = IF pc'[r] = "next"
               THEN [out EXCEPT ![r] = Append(@, [i \in DOMAIN now |-> Value(now[i])])]
               ELSE out
     /\ UNCHANGED <<buf, query, met>>

Next ==
  \E r \in Requests :
    \/ \E t \in Tables, rows \in ResultSets :
         QueryContext(r, OptionQuery(t, rows)) \/ QueryContext(r, RowQuery(t, rows))
    \/ NextRow(r)
    \/ NoMoreRows(r)
    \/ \E w \in Words : ScanWord(r, w) \/ ReadWord(r, w)

Spec == Init /\ [][Next]_vars

-----------------------------------------------------------------------------
(* Properties.                                                             *)

Cells == (Ids \cup {Null}) \X (Ids \cup {Null}) \cup {Null}
TypeOK ==
  /\ buf \in [Mappings -> [1 .. NumColumns -> [Words -> Ids \cup {Null}]]]
  /\ pc \in [Requests -> {"idle", "next", "scan", "read", "done"}]
  /\ \A r \in Requests :
       /\ at[r] \in [row : Nat, col : Nat]
       /\ pc[r] \in {"scan", "read"} => /\ at[r].row \in DOMAIN query[r].rows
                                       /\ at[r].col \in DOMAIN query[r].columns
       /\ todo[r] \subseteq Words
       /\ \A n \in DOMAIN out[r] : \A i \in DOMAIN out[r][n] : out[r][n][i] \in Cells
  /\ met \subseteq Requests

\* What the database returned to r.
Expected(r) ==
  [n \in DOMAIN query[r].rows |->
     [i \in DOMAIN query[r].columns |->
        LET id == query[r].rows[n] IN
        IF IsNull(id, query[r].columns[i]) THEN Null ELSE <<id, id>>]]

\* "GET /equipment/2" answers with the row whose id is 2
\* (crud_test.go:17-35), whatever other requests are being served.
AnswersItsOwnRows == \A r \in Requests : pc[r] = "done" => out[r] = Expected(r)

\* A request that no other request on the same destinations overlapped with
\* answers exactly the rows of its own query, although the destinations still
\* hold what earlier requests, and its own earlier rows, left in them, and
\* although other requests are at the same time scanning other tables, or,
\* through the option routes, the same joined table.
UndisturbedIsExact ==
  \A r \in Requests \ met : pc[r] = "done" => out[r] = Expected(r)
=============================================================================
