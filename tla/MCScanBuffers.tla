--------------------------- MODULE MCScanBuffers ---------------------------
(* Instances of ScanBuffers for TLC.                                       *)
EXTENDS ScanBuffers, TLC

CONSTANTS equipment, recipes, espresso, lungo, r1, r2, r3

\* Two columns; the second is NULL in the second row, and the option routes
\* read the name, then the id.
MCNullCells == {<<lungo, 2>>}
MCOptionColumns == <<2, 1>>

\* No row, a row with a NULL, and two rows of which the second has one.
MCResultSets == {<<>>, <<lungo>>, <<espresso, lungo>>}

\* Single rows.
MCSingleRows == {<<espresso>>, <<lungo>>}

Symmetry == Permutations(Requests)
=============================================================================
