---------------------------- MODULE SchemaMapping ----------------------------
(***************************************************************************)
(* How internal/pkg/sql/sqlBackend.go names the columns of a query.  The   *)
(* columns of each table, and of each join of a table with the tables it   *)
(* is related to, are read once, at startup, and the rows of every later   *)
(* query are named by position with what was read then.  A driver does not *)
(* say which table a column of a join belongs to: the join is cut into     *)
(* tables by the number of columns each of them had when it was read by    *)
(* itself.                                                                 *)
(*                                                                         *)
(* A column is <<table, name>>.  Tables are read with SELECT *, so that a  *)
(* query returns the columns a table has at that moment, in its order.     *)
(***************************************************************************)
EXTENDS Naturals, Sequences, SequencesExt

CONSTANTS
  Tables,       \* Database.Tables of the configuration, in order
  Relations,    \* Relations[t]: the tables that t has relationships with
  Null

ASSUME SchemaAssumption ==
  /\ Tables \in Seq(Range(Tables))
  /\ Relations \in [Range(Tables) -> Seq(Range(Tables))]
  /\ \A t \in Range(Tables) :
       /\ t \notin Range(Relations[t])
       /\ \A i, j \in DOMAIN Relations[t] : Relations[t][i] = Relations[t][j] => i = j

HasRelationships(t) == Relations[t] # <<>>

\* The query templates select t first, then the related tables in the order
\* of the fields of the type descriptor.
JoinedTables(t) == <<t>> \o Relations[t]

\* What SELECT * returns, of the table alone and of the join.
PlainColumns(t, columns) == [i \in DOMAIN columns[t] |-> <<t, columns[t][i]>>]
JoinColumns(t, columns) ==
  FlattenSeq([i \in DOMAIN JoinedTables(t) |-> PlainColumns(JoinedTables(t)[i], columns)])

\* The number of columns of each table is that of its own mapping ...
Owners(t, mapping) ==
  FlattenSeq([i \in DOMAIN JoinedTables(t) |->
                [j \in DOMAIN mapping[JoinedTables(t)[i]] |-> JoinedTables(t)[i]]])

\* ... and a join that has fewer columns than that, or more, ends the process:
\* the slice of the columns, or the index of the column types, is out of range.
CutPanics(t, mapping, result) == Len(Owners(t, mapping)) # Len(result)

\* Mutant of Cut: the related tables come first.
CutRelatedFirst(t, mapping, result) ==
  LET owners == FlattenSeq([i \in DOMAIN JoinedTables(t) |->
                  LET u == (Relations[t] \o <<t>>)[i] IN [j \in DOMAIN mapping[u] |-> u]])
  IN [i \in DOMAIN result |-> <<owners[i], result[i][2]>>]

\* prependTableNameToColumnsInJoinedTables
Cut(t, mapping, result) ==
  [i \in DOMAIN result |-> <<Owners(t, mapping)[i], result[i][2]>>]

\* rows.Scan refuses a row that has not as many columns as destinations.
ScanFails(names, result) == DOMAIN names # DOMAIN result
=============================================================================
