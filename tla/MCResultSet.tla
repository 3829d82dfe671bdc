----------------------------- MODULE MCResultSet -----------------------------
(* Instances of ResultSet for TLC.                                         *)
EXTENDS ResultSet

\* No relationship, one relationship of each kind, two of the kind whose
\* joins multiply.
MCDescriptors ==
  {<<>>, <<"oneToMany", "manyToOne">>, <<"oneToMany", "oneToMany">>}
MCOneMany == {<<"oneToMany">>}
=============================================================================
