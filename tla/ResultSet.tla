------------------------------ MODULE ResultSet ------------------------------
(***************************************************************************)
(* From the rows of a query to the JSON the client gets, when the type     *)
(* descriptor of the table has relationships: the LEFT JOIN of the query   *)
(* templates, deduplicateSingleResource of internal/pkg/sql/db.go, and the *)
(* formatter of internal/pkg/formatting/jsonForWorkflowAccelerator.go.     *)
(*                                                                         *)
(* A related row stands for itself; Null is the all-NULL row by which a    *)
(* LEFT JOIN says that there is none.  The loop of the code over the       *)
(* relationship fields and, for each, over the rows is kept.               *)
(***************************************************************************)
EXTENDS Naturals, Sequences, FiniteSets, SequencesExt

CONSTANTS
  Mains,        \* rows of the table that is queried, by unique id
  Related,      \* rows of the related tables, by unique id
  Descriptors,  \* type descriptors: the kinds of their relationship fields
  Null

ASSUME ResultSetAssumption ==
  /\ Null \notin Related /\ IsFiniteSet(Mains)
  /\ Descriptors \subseteq Seq({"oneToMany", "manyToOne"})

VARIABLES
  kinds,        \* the descriptor of the table: the kind of each field, in order
  links,        \* links[m][f]: the rows that row m is related to by field f
  wanted,       \* the rows the WHERE clause selects, in the order of the query
  route,        \* GetSingle or GetCollection
  reading,      \* the row in wanted whose part of the join is being read
  rows,         \* the rows of the join: [main, rel], rel[f] a related row or Null
  pc,
  field, row,   \* where the two loops are
  fieldResultSet, containsResults,   \* as in the code, for the current field
  attached,     \* attached[i][f]: the set the i-th result is given for field f
  answer        \* [shape, items]

vars == <<kinds, links, wanted, route, reading, rows, pc, field, row, fieldResultSet,
          containsResults, attached, answer>>
input == <<kinds, links, wanted, route>>
loop == <<field, row, fieldResultSet, containsResults, attached>>

Fields == DOMAIN kinds
RelatedSets(f) ==
  IF kinds[f] = "manyToOne" THEN {{}} \cup {{x} : x \in Related} ELSE SUBSET Related

\* GetSingle asks for one id, which may not be there; GetCollection for the
\* rows that match its parameters, or for all.
Selections(o) ==
  IF o = "GetSingle" THEN {<<>>} \cup {<<m>> : m \in Mains}
  ELSE UNION {SetToSeqs(S) : S \in SUBSET Mains}

Init ==
  /\ kinds \in Descriptors
  /\ links \in {l \in [Mains -> [Fields -> SUBSET Related]] :
                  \A m \in Mains, f \in Fields : l[m][f] \in RelatedSets(f)}
  /\ route \in {"GetSingle", "GetCollection"}
  /\ wanted \in Selections(route)
  /\ reading = 1 /\ rows = <<>>
  /\ pc = "query"
  /\ field = 1 /\ row = 1
  /\ fieldResultSet = <<>> /\ containsResults = FALSE
  /\ attached = <<>>
  /\ answer = [shape |-> "none", items |-> <<>>]

\* The rows m contributes: one for every choice of a related row per field.
OrNull(S) == IF S = {} THEN {Null} ELSE S
JoinOf(m) ==
  {[main |-> m, rel |-> x] :
     x \in {y \in [Fields -> Related \cup {Null}] :
              \A f \in Fields : y[f] \in OrNull(links[m][f])}}

\* rowsToResults: the next row.  Those of one main row come one after the
\* other, in any order.
NextResult ==
  /\ pc = "query" /\ reading <= Len(wanted)
  /\ \E x \in JoinOf(wanted[reading]) \ Range(rows) :
       /\ rows' = Append(rows, x)
       /\ reading' = IF JoinOf(wanted[reading]) \subseteq Range(rows) \cup {x}
                     THEN reading + 1 ELSE reading
  /\ UNCHANGED <<input, pc, loop, answer>>

\* The connection is lost before the last row.
RowsFail ==
  /\ pc = "query"
  /\ pc' = "done" /\ answer' = [shape |-> "500", items |-> <<>>]
  /\ UNCHANGED <<input, reading, rows, loop>>

\* queryContextForNonOptionRoutes: no result, or no relationship, and nothing
\* is deduplicated.
RowsEnd ==
  /\ pc = "query" /\ reading > Len(wanted)
  /\ attached' = [i \in DOMAIN rows |-> [f \in Fields |-> <<>>]]
  /\ pc' = IF rows = <<>> \/ kinds = <<>> THEN "format" ELSE "dedupe"
  /\ UNCHANGED <<input, reading, rows, field, row, fieldResultSet, containsResults, answer>>

\* Mutant of AppendNoDuplicates: plain append.
AppendAlways(list, item) == Append(list, item)

AppendNoDuplicates(list, item) ==
  IF \E i \in DOMAIN list : list[i] = item THEN list ELSE Append(list, item)

\* Mutant of DedupeRow: the set starts anew at every row.
DedupeRowAfresh ==
  /\ pc = "dedupe" /\ row <= Len(rows)
  /\ LET item == rows[row].rel[field]
         set == IF item # Null THEN AppendNoDuplicates(<<>>, item) ELSE <<>>
     IN /\ fieldResultSet' = set
        /\ containsResults' = (item # Null)
        /\ attached' = [attached EXCEPT ![row][field] = set]
  /\ row' = row + 1
  /\ UNCHANGED <<input, reading, rows, pc, field, answer>>

\* Mutant of DedupeRow: only the first related row of a field is kept.
DedupeFirstOnly ==
  /\ pc = "dedupe" /\ row <= Len(rows)
  /\ LET item == rows[row].rel[field]
         set == IF item # Null /\ ~containsResults
                THEN AppendNoDuplicates(fieldResultSet, item) ELSE fieldResultSet
     IN /\ fieldResultSet' = set
        /\ containsResults' = (containsResults \/ item # Null)
        /\ attached' = [attached EXCEPT ![row][field] = set]
  /\ row' = row + 1
  /\ UNCHANGED <<input, reading, rows, pc, field, answer>>

\* Mutant of DedupeRow: the flag is not looked at.
DedupeUnflagged ==
  /\ pc = "dedupe" /\ row <= Len(rows)
  /\ LET set == AppendNoDuplicates(fieldResultSet, rows[row].rel[field])
     IN /\ fieldResultSet' = set
        /\ containsResults' = TRUE
        /\ attached' = [attached EXCEPT ![row][field] = set]
  /\ row' = row + 1
  /\ UNCHANGED <<input, reading, rows, pc, field, answer>>

\* deduplicateSingleResource, one row of the inner loop: containsResults is
\* set by the first related row and never reset, fieldResultSet only grows.
DedupeRow ==
  /\ pc = "dedupe" /\ row <= Len(rows)
  /\ LET item == rows[row].rel[field]
         contains == containsResults \/ item # Null
         set == IF contains THEN AppendNoDuplicates(fieldResultSet, item)
                ELSE fieldResultSet
     IN /\ fieldResultSet' = set
        /\ containsResults' = contains
        /\ attached' = [attached EXCEPT ![row][field] = set]
  /\ row' = row + 1
  /\ UNCHANGED <<input, reading, rows, pc, field, answer>>

\* Mutant of NextField: the loop goes on once more after the last field.
NextFieldOnceMore ==
  /\ pc = "dedupe" /\ row > Len(rows)
  /\ fieldResultSet' = <<>> /\ containsResults' = FALSE
  /\ row' = 1
  /\ field' = field + 1
  /\ pc' = IF field > Len(kinds) THEN "format" ELSE "dedupe"
  /\ UNCHANGED <<input, reading, rows, attached, answer>>

\* The outer loop.
NextField ==
  /\ pc = "dedupe" /\ row > Len(rows)
  /\ fieldResultSet' = <<>> /\ containsResults' = FALSE
  /\ row' = 1
  /\ field' = field + 1
  /\ pc' = IF field = Len(kinds) THEN "format" ELSE "dedupe"
  /\ UNCHANGED <<input, reading, rows, attached, answer>>

\* The value of the local column that refers to the related table.
LocalKey(m, f) == IF links[m][f] = {} THEN Null ELSE CHOOSE x \in links[m][f] : TRUE

\* Mutant of Resolved: the related rows are not compared with the local key.
ResolvedToFirst(i, f) ==
  IF attached[i][f] = <<>> \/ kinds[f] = "oneToMany" THEN attached[i][f]
  ELSE attached[i][f][1]

\* buildAndRecursivelyResolveRelationships: nothing related is an empty list;
\* the related rows of a oneToMany field are listed; of the others the one is
\* taken that the local column refers to.
Resolved(i, f) ==
  LET set == attached[i][f]
      key == LocalKey(rows[i].main, f)
  IN IF set = <<>> \/ kinds[f] = "oneToMany" THEN set
     ELSE IF key \in Range(set) THEN key
     ELSE "absent"

\* GetSingle answers 404 if there is no result, an object if there is one,
\* and else a list; GetCollection always answers a list.
Shape ==
  IF route = "GetCollection" THEN "list"
  ELSE IF rows = <<>> THEN "404"
  ELSE IF Len(rows) = 1 THEN "object" ELSE "list"

Format ==
  /\ pc = "format"
  /\ answer' =
       [shape |-> Shape,
        items |-> [i \in DOMAIN rows |->
                     [main |-> rows[i].main, rel |-> [f \in Fields |-> Resolved(i, f)]]]]
  /\ pc' = "done"
  /\ UNCHANGED <<input, reading, rows, loop>>

Next == NextResult \/ RowsFail \/ RowsEnd \/ DedupeRow \/ NextField \/ Format

Spec == Init /\ [][Next]_vars

-----------------------------------------------------------------------------
(* Properties.                                                             *)

TypeOK ==
  /\ pc \in {"query", "dedupe", "format", "done"}
  /\ reading \in 1 .. Len(wanted) + 1
  /\ \A i \in DOMAIN rows : rows[i].main \in Mains
                            /\ rows[i].rel \in [Fields -> Related \cup {Null}]
  /\ field \in 1 .. Len(kinds) + 1 /\ (pc = "dedupe" => field \in Fields)
  /\ row \in 1 .. Len(rows) + 1
  /\ fieldResultSet \in Seq(Related \cup {Null}) /\ containsResults \in BOOLEAN
  /\ pc \in {"dedupe", "format"} => DOMAIN attached = DOMAIN rows
  /\ answer.shape \in {"none", "404", "500", "object", "list"}

Items == answer.items
Many(f) == f \in Fields /\ kinds[f] = "oneToMany"

\* deduplicateSingleResource: no related row is listed twice, however often
\* the join repeats it.
NoDuplicates ==
  \A i \in DOMAIN attached : \A f \in Fields : IsInjective(attached[i][f])

\* The last result of GET /<table>/<id> lists exactly the related rows,
\* although every other relationship multiplies the rows of the join.
SingleIsComplete ==
  pc = "done" /\ route = "GetSingle" /\ Items # <<>> =>
    \A f \in Fields : Many(f) =>
      Range(Items[Len(Items)].rel[f]) = links[wanted[1]][f]

\* Whatever is not answered with 500 has a result for every row the WHERE
\* clause selects, and that result misses no related row by the time the last
\* row of the join that belongs to it has been seen.
NothingLost ==
  pc = "done" /\ answer.shape # "500" =>
    /\ \A k \in DOMAIN wanted : \E i \in DOMAIN Items : Items[i].main = wanted[k]
    /\ \A i \in DOMAIN Items : \A f \in Fields :
         Many(f) /\ (\A j \in DOMAIN Items : j > i => Items[j].main # Items[i].main)
           => links[Items[i].main][f] \subseteq Range(Items[i].rel[f])

\* A manyToOne field that refers to a row shows that row in every result,
\* whatever the rows before it left in the shared set.
ManyToOneExact ==
  pc = "done" =>
    \A i \in DOMAIN Items : \A f \in Fields :
      kinds[f] = "manyToOne" /\ links[Items[i].main][f] # {}
        => links[Items[i].main][f] = {Items[i].rel[f]}

\* The all-NULL row is listed only where containsResults is left over from
\* another row (db.go:213): in a collection in which a row with nothing related
\* follows one with something.  "If the result set of a related table is empty,
\* ... do not append it" (db.go:216-218) holds of everything else.
EmptyOnlyAfterRelated ==
  pc = "done" =>
    \A i \in DOMAIN Items : \A f \in Fields :
      Many(f) /\ Null \in Range(Items[i].rel[f]) =>
        \E k \in 1 .. i : \E j \in 1 .. k - 1 :
          links[Items[k].main][f] = {} /\ links[Items[j].main][f] # {}

\* "/equipment?name=Buntfink+SteelKettle" lists the one recipe of that
\* equipment (crud_test.go:240-252): a result lists its own related rows.
OwnRelatedOnly ==
  pc = "done" =>
    \A i \in DOMAIN Items : \A f \in Fields :
      Many(f) => Range(Items[i].rel[f]) \subseteq links[Items[i].main][f] \cup {Null}
=============================================================================
