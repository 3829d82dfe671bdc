----------------------------- MODULE Descriptors -----------------------------
(***************************************************************************)
(* The type descriptors of descriptor.json: what performSanityChecks of    *)
(* internal/pkg/descriptor demands of them, how internal/pkg/util finds    *)
(* one, and under which name the formatter shows the value of a field.     *)
(*                                                                         *)
(* A type descriptor is a record [key, table, optionName, uniqueId,        *)
(* fields]; optionName and uniqueId are its columnAsOptionName and         *)
(* uniqueIdColumn.  A field is [key, type, keys, columns, kind, withTable, *)
(* local, foreign]: its key, and the keys a client can send for it, each   *)
(* with its column; a money field has those of its amount and of its       *)
(* currency, or of the amount alone if the currency is fixed.  The column  *)
(* of a relationship is the empty name, and so is an option name that the  *)
(* descriptor leaves out.                                                  *)
(***************************************************************************)
EXTENDS Selection

CONSTANT Null

\* The three lookups.  Keys and tables need not be distinct: one finds the
\* first match, the others the last.
WithKey(tds, key) == {i \in DOMAIN tds : tds[i].key = key}
WithTable(tds, table) == {i \in DOMAIN tds : tds[i].table = table}

TableOfKey(tds, key) ==
  IF WithKey(tds, key) = {} THEN Null ELSE tds[Min(WithKey(tds, key))].table
DescriptorOfKey(tds, key) ==
  IF WithKey(tds, key) = {} THEN Null ELSE tds[Max(WithKey(tds, key))]

DescriptorOfTable(tds, table) ==
  IF WithTable(tds, table) = {} THEN Null ELSE tds[Max(WithTable(tds, table))]

IsRelationship(f) == f.withTable # Null
Relationships(td) ==
  Picked(td.fields, {i \in DOMAIN td.fields : IsRelationship(td.fields[i])})
PlainFields(td) == {i \in DOMAIN td.fields : ~IsRelationship(td.fields[i])}

\* performSanityChecks.  Two checks are left out, as nothing here depends on
\* them: that a money field has no column for a currency that is fixed, and
\* that a type has a name.
UniqueIdColumnMatches(td) ==
  \A i \in DOMAIN td.fields : td.fields[i].key = "id" => td.uniqueId = "id"
ColumnAsOptionNameMatches(td) ==
  \A i \in DOMAIN td.fields : td.fields[i].key = "name" => td.optionName = "name"
HasColumns(td) ==
  \A i \in PlainFields(td) : td.fields[i].type # "money" => td.fields[i].columns[1] # ""

\* Mutant of Sane: the column of the name is not checked.
SaneButName(td) == UniqueIdColumnMatches(td) /\ HasColumns(td)

Sane(td) == UniqueIdColumnMatches(td) /\ ColumnAsOptionNameMatches(td) /\ HasColumns(td)

\* The property fromColumn: a money field has none, and no check wants one.
FromColumn(f) == IF f.type = "money" THEN "" ELSE f.columns[1]

\* A row and a document are Go maps, which give nil for a key they do not have.
Lookup(map, key) == IF key \in DOMAIN map THEN map[key] ELSE Null

\* buildResultFromQueryResultsWithoutRelationships: the name a field is shown
\* under, also that of a money field if the descriptor has no option name.
ShownAs(td, f) ==
  IF FromColumn(f) = td.optionName THEN "name"
  ELSE IF FromColumn(f) = td.uniqueId THEN "id"
  ELSE f.key

\* ... and its value: that of the column, nil, or an amount of money.
ValueOf(td, f, row) ==
  IF f.type # "money" \/ FromColumn(f) \in {td.optionName, td.uniqueId}
  THEN Lookup(row, FromColumn(f))
  ELSE IF \A i \in DOMAIN f.columns : Lookup(row, f.columns[i]) = Null THEN Null
  ELSE [i \in DOMAIN f.columns |-> Lookup(row, f.columns[i])]

\* formatAsAWorkflowType of a row and the fields that are no relationships: a
\* later field overwrites an earlier one of the same name.
Formatted(td, row) ==
  LET shownAs(n) == {i \in PlainFields(td) : ShownAs(td, td.fields[i]) = n}
  IN [n \in {ShownAs(td, td.fields[i]) : i \in PlainFields(td)} |->
        ValueOf(td, td.fields[Max(shownAs(n))], row)]

\* normalizeResultSet: a related row is shown as what its formatted form has
\* under the name of its unique id column.
Normalized(td, row) == Lookup(Formatted(td, row), td.uniqueId)
=============================================================================
