---------------------------- MODULE MCResources ----------------------------
EXTENDS Resources, TLC

CONSTANT bad

\* A table like those of the repository's descriptor: id, name, purchase
\* date, and a price of amount and currency.
MCFields == <<
  [type |-> "default", keys |-> <<"id">>],
  [type |-> "default", keys |-> <<"name">>],
  [type |-> "date",    keys |-> <<"date">>],
  [type |-> "money",   keys |-> <<"amount", "currency">>] >>
MCNotDates == {bad}

MCIds == 1 .. 2
MCInitialRows ==
  1 :> [date |-> "d0", amount |-> "a0", currency |-> "c0", name |-> "n0"]

\* One of the keys of a money field, or both; the id, which PATCH may
\* change; several fields; a date that is none; nothing the table knows.
MCBodies == {
  [amount |-> "a1"],
  [currency |-> "c1"],
  [amount |-> "a2", currency |-> "c2"],
  [id |-> 2, name |-> "n1"],
  [name |-> "n2", date |-> "d1", amount |-> "a3"],
  [name |-> "n3", date |-> bad],
  <<>> }

Symmetry == Permutations(Requests)
=============================================================================
