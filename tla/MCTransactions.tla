--------------------------- MODULE MCTransactions ---------------------------
(* Instances of Transactions for TLC.                                      *)
EXTENDS Transactions, TLC

\* Requests, and transactions, are interchangeable (no temporal property).
Symmetry == Permutations(Requests) \cup Permutations(TxIds)
=============================================================================
