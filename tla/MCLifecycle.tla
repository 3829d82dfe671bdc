----------------------------- MODULE MCLifecycle -----------------------------
(* Instances of Lifecycle for TLC.                                         *)
EXTENDS Lifecycle, TLC

CONSTANTS recipes, ingredients, r1

\* recipes have a relationship with ingredients.
MCTables == <<ingredients, recipes>>
MCRelations == recipes :> <<ingredients>> @@ ingredients :> <<>>
MCColumns == recipes :> <<"id", "name">> @@ ingredients :> <<"id">>
=============================================================================
