------------------------------ MODULE QueryArgs ------------------------------
(***************************************************************************)
(* How the body, or the query, of a request becomes the columns and the    *)
(* arguments of a statement.  The columns are collected by the handlers    *)
(* (getColumnNamesFromRequestData, util.GetColumnNamesFromRequestData),    *)
(* the arguments by CoerceRequestDataToGolangNativeTypes of                *)
(* internal/pkg/query/query.go, each in a loop of its own over the fields  *)
(* of the type descriptor: nothing but the order of the loops ties an      *)
(* argument to its column.                                                 *)
(*                                                                         *)
(* A column is named like the key the client sends for it.  Every date     *)
(* field has a kind (date, datetime or time), as in the descriptors of the *)
(* repository.                                                             *)
(***************************************************************************)
EXTENDS Selection

\* The values the date coercion of a database refuses: what
\* time.ParseInLocation cannot parse, and none with sqlite, which passes every
\* value on as it is.
CONSTANT NotDates

\* The fields of a type descriptor, in order: [type, keys]; a money field has
\* the keys of its amount and of its currency.
AreFields(fields) ==
  /\ fields \in Seq(Range(fields))
  /\ \A i \in DOMAIN fields :
       /\ fields[i].type \in {"default", "date", "money"}
       /\ fields[i].keys \in Seq(Range(fields[i].keys))
       /\ Len(fields[i].keys) \in 1 .. IF fields[i].type = "money" THEN 2 ELSE 1

KeysOf(fields) == UNION {Range(fields[i].keys) : i \in DOMAIN fields}

\* The keys of a field that the body holds, by their indices.
Sent(f, body) == {k \in DOMAIN f.keys : f.keys[k] \in DOMAIN body}

\* Every key the client sent is a column of the statement ...
ColumnNames(fields, body) ==
  FlattenSeq([i \in DOMAIN fields |-> Picked(fields[i].keys, Sent(fields[i], body))])

\* ... and every field of which a key was sent has an argument: of a money
\* field the amount, or else the currency.
FieldArgs(f, body) ==
  IF Sent(f, body) = {} THEN <<>> ELSE <<body[f.keys[Min(Sent(f, body))]]>>

\* Mutant of Args: the dates are collected first.
ArgsDatesFirst(fields, body) ==
  LET dates == {i \in DOMAIN fields : fields[i].type = "date"}
      sorted == Picked(fields, dates) \o Picked(fields, DOMAIN fields \ dates)
  IN FlattenSeq([i \in DOMAIN sorted |-> FieldArgs(sorted[i], body)])

Args(fields, body) == FlattenSeq([i \in DOMAIN fields |-> FieldArgs(fields[i], body)])

\* A date that is refused; a null is passed on as it is.
CoerceFails(fields, body) ==
  \E i \in DOMAIN fields :
    /\ fields[i].type = "date"
    /\ fields[i].keys[1] \in DOMAIN body
    /\ body[fields[i].keys[1]] \in NotDates

\* The database refuses a statement with more placeholders than arguments,
\* and otherwise takes the arguments in the order of the columns.
Accepts(columns, args) == Len(columns) = Len(args)
Assigned(columns, args) ==
  [c \in Range(columns) |-> args[CHOOSE i \in DOMAIN columns : columns[i] = c]]
=============================================================================
