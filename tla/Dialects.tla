------------------------------- MODULE Dialects -------------------------------
(***************************************************************************)
(* The query templates of the databases, as far as they decide which       *)
(* argument a placeholder gets: sqlite, mysql, postgres and oracle of      *)
(* internal/pkg/sql, filled in by Interpolate of internal/pkg/query.       *)
(*                                                                         *)
(* A condition is [column, arg]: the column is compared with, or assigned, *)
(* the arg-th argument.  sqlite and mysql write "?", which takes the       *)
(* arguments in the order of the text; postgres and oracle write the       *)
(* number, which the template computes from the index of the column with   *)
(* the function add2.                                                     *)
(***************************************************************************)
EXTENDS Naturals, Sequences

Numbered(d) == d \in {"postgres", "oracle"}
Ordered(d) == d # "oracle"

\* Mutant of Add2: the index is taken to start at 1.
Add1(index) == index + 1

Add2(index) == index + 2

\* The number of the i-th column in {{head}} {{range tail}}, and in a range
\* over all columns after a first placeholder.
HeadTail(d, i) == IF Numbered(d) /\ i > 1 THEN Add2(i - 2) ELSE i
AfterFirst(d, i) == IF Numbered(d) THEN Add2(i - 1) ELSE i + 1

Bind(column, arg) == [column |-> column, arg |-> arg]

CollectionConditions(d, columns) ==
  [i \in DOMAIN columns |-> Bind(columns[i], HeadTail(d, i))]
OptionsConditions(d, columns) ==
  [i \in DOMAIN columns |-> Bind(columns[i], AfterFirst(d, i))]

\* Oracle's numbers go through format, which needs the format functions; the
\* handlers of the GET routes do not pass them.
Renders(d, route, columns) ==
  d # "oracle" \/ columns = <<>> \/ (route = "GetCollection" /\ Len(columns) = 1)

\* Oracle's templates lack a quote after the first column of a condition, have
\* a space within the name of a column of a join, and name a table by an
\* alias that is not there.
IsSQL(d, route, columns, related) ==
  d = "oracle" => columns = <<>> /\ (route = "GetCollection" => ~related)
=============================================================================
