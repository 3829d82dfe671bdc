----------------------------- MODULE TxContract -----------------------------
(***************************************************************************)
(* What a client of the connector may expect of POST /?begin, of a         *)
(* statement sent with ?tx=<id>, and of POST /?commit=<id>: a transaction  *)
(* is open from its begin to its one end; the statements executed in it    *)
(* are pending until then and take effect together, when it commits, or    *)
(* not at all; a statement sent without an id takes effect by itself.      *)
(***************************************************************************)
CONSTANTS TxIds,        \* identifiers of the transactions clients begin
          Statements    \* statements clients send

VARIABLES status,       \* status[t]: where transaction t is in its life
          pending,      \* pending[t]: the statements executed in t
          durable       \* the statements whose effect the database keeps

cvars == <<status, pending, durable>>

CInit ==
  /\ status = [t \in TxIds |-> "none"]
  /\ pending = [t \in TxIds |-> {}]
  /\ durable = {}

CBegin(t) ==
  /\ status[t] = "none"
  /\ status' = [status EXCEPT ![t] = "open"]
  /\ UNCHANGED <<pending, durable>>

\* s joins the open transaction t, and has no effect elsewhere.
CStage(t, s) ==
  /\ status[t] = "open"
  /\ s \notin durable
  /\ \A u \in TxIds : s \notin pending[u]
  /\ pending' = [pending EXCEPT ![t] = @ \cup {s}]
  /\ UNCHANGED <<status, durable>>

\* Some open transactions end, those of C by committing and those of A by
\* being rolled back.  A crash may end several in one step.
CEnd(C, A) ==
  /\ C \cap A = {}
  /\ \A t \in C \cup A : status[t] = "open"
  /\ status' = [t \in TxIds |-> IF t \in C THEN "committed"
                                ELSE IF t \in A THEN "rolledback" ELSE status[t]]
  /\ durable' = durable \cup UNION {pending[t] : t \in C}
  /\ UNCHANGED pending

\* A statement outside of any transaction.
CAlone(s) ==
  /\ s \notin durable
  /\ \A u \in TxIds : s \notin pending[u]
  /\ durable' = durable \cup {s}
  /\ UNCHANGED <<status, pending>>

CNext ==
  \/ \E t \in TxIds : CBegin(t)
  \/ \E t \in TxIds, s \in Statements : CStage(t, s)
  \/ \E C, A \in SUBSET TxIds : CEnd(C, A)
  \/ \E s \in Statements : CAlone(s)

CSpec == CInit /\ [][CNext]_cvars
=============================================================================
