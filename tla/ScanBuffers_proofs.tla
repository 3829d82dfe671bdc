------------------------- MODULE ScanBuffers_proofs -------------------------
(***************************************************************************)
(* Proofs about ScanBuffers, for any number of requests, tables, columns   *)
(* and rows.                                                               *)
(***************************************************************************)
EXTENDS ScanBuffers, SequenceTheorems, TLAPS

(***************************************************************************)
(* The inductive invariant, in named parts.                                *)
(***************************************************************************)

\* The queries of the two kinds of routes.
IsQuery(q) ==
  \E t \in Tables, rows \in ResultSets : q = OptionQuery(t, rows) \/ q = RowQuery(t, rows)

Functions ==
  /\ DOMAIN query = Requests /\ DOMAIN at = Requests /\ DOMAIN todo = Requests
  /\ DOMAIN got = Requests /\ DOMAIN out = Requests
  /\ \A r \in Requests :
       /\ pc[r] # "idle" => IsQuery(query[r])
       /\ pc[r] = "idle" => at[r].row = 0 /\ out[r] = <<>>
       /\ out[r] \in Seq(Seq(Cells))
       /\ pc[r] \in {"scan", "read"} =>
            got[r] \in [DOMAIN query[r].columns -> [Words -> Ids \cup {Null}]]

\* Two requests that are under way on the same destinations have met.
Sharing ==
  \A p, q \in Requests :
    p # q /\ Active(p) /\ Active(q) /\ query[p].mapping = query[q].mapping => p \in met

\* The word of a destination after column c of the row was scanned into it.
Word(row, c) == IF IsNull(row, c) THEN Null ELSE row

\* The words that the request has dealt with since it began the columns.
Touched(r, i, w) == i < at[r].col \/ (i = at[r].col /\ w \notin todo[r])

\* Both halves of processRow, of a request that met no other: the destinations
\* hold the words that were scanned, and got those that were read.
RowExactOf(r) ==
  \A i \in DOMAIN query[r].columns, w \in Words :
    LET c == query[r].columns[i] IN
    /\ pc[r] = "read" \/ (pc[r] = "scan" /\ Touched(r, i, w)) =>
         buf[query[r].mapping][c][w] = Word(Row(r), c)
    /\ pc[r] = "read" /\ Touched(r, i, w) => got[r][i][w] = Word(Row(r), c)
RowExact == \A r \in Requests \ met : RowExactOf(r)

\* The rows that are finished, and what they have to be.
Finished(r) == IF pc[r] \in {"scan", "read"} THEN at[r].row - 1 ELSE at[r].row
ExpectedRow(q, n) ==
  [i \in DOMAIN q.columns |->
     IF IsNull(q.rows[n], q.columns[i]) THEN Null ELSE <<q.rows[n], q.rows[n]>>]

OutExactOf(r) ==
  pc[r] # "idle" =>
    /\ Len(out[r]) = Finished(r)
    /\ \A n \in 1 .. Finished(r) : out[r][n] = ExpectedRow(query[r], n)
    /\ pc[r] = "done" => at[r].row = Len(query[r].rows)
OutExact == \A r \in Requests \ met : OutExactOf(r)

IInv == TypeOK /\ Functions /\ Sharing /\ RowExact /\ OutExact

-----------------------------------------------------------------------------

\* What the two kinds of queries have in common, and when they share their
\* destinations.
LEMMA QueryFacts ==
  ASSUME NEW q, IsQuery(q)
  PROVE  /\ q.rows \in Seq(Ids) /\ q.columns \in Seq(1 .. NumColumns) /\ Len(q.columns) \in Nat \ {0}
         /\ q.mapping \in Mappings
  <1>1. PICK t \in Tables, rows \in ResultSets : q = OptionQuery(t, rows) \/ q = RowQuery(t, rows)
    BY DEF IsQuery
  <1>2. q.mapping \in Mappings /\ q.rows = rows
    BY <1>1 DEF OptionQuery, RowQuery, JoinedMapping, Mappings
  <1>3. q.rows \in Seq(Ids)
    BY <1>2, ScanAssumption
  <1>4. CASE q = OptionQuery(t, rows)
    <2>1. q.columns = OptionColumns
      BY <1>4 DEF OptionQuery
    <2>2. OptionColumns \in Seq(1 .. NumColumns) /\ OptionColumns # <<>>
      BY ScanAssumption
    <2>3. QED BY <1>2, <1>3, <2>1, <2>2, EmptySeq, LenProperties
  <1>5. CASE q = RowQuery(t, rows)
    <2> DEFINE columns == [i \in 1 .. NumColumns |-> i]
    <2>1. q.columns = columns /\ NumColumns \in Nat \ {0}
      BY <1>5, ScanAssumption DEF RowQuery
    <2>2. columns \in Seq(1 .. NumColumns) /\ Len(columns) = NumColumns
      BY <2>1, SeqDef, LenProperties
    <2>3. QED BY <1>2, <1>3, <2>1, <2>2
  <1>6. QED BY <1>1, <1>4, <1>5

LEMMA SharingMakesPeers ==
  ASSUME NEW p, NEW q, IsQuery(p), IsQuery(q), p.mapping = q.mapping
  PROVE  p.table = q.table /\ (q.table \in Related => p.route = q.route)
  BY DEF IsQuery, OptionQuery, RowQuery, JoinedMapping

\* No request has arrived.
LEMMA InitHolds == Init => IInv
  <1> SUFFICES ASSUME Init PROVE IInv
    OBVIOUS
  <1>1. TypeOK
    BY DEF Init, TypeOK, NoWords
  <1>2. Functions
    BY EmptySeq DEF Init, Functions
  <1>3. Sharing /\ RowExact /\ OutExact
    BY DEF Init, Sharing, RowExact, RowExactOf, OutExact, OutExactOf, Active
  <1>4. QED BY <1>1, <1>2, <1>3 DEF IInv

\* Where a request is, when it scans or reads.
LEMMA Position ==
  ASSUME IInv, NEW r \in Requests, pc[r] \in {"scan", "read"}
  PROVE  /\ Row(r) \in Ids /\ Column(r) \in 1 .. NumColumns /\ query[r].mapping \in Mappings
         /\ at[r].row \in 1 .. Len(query[r].rows) /\ at[r].col \in 1 .. Len(query[r].columns)
         /\ Len(query[r].columns) \in Nat \ {0} /\ Len(query[r].rows) \in Nat
         /\ DOMAIN query[r].columns = 1 .. Len(query[r].columns)
         /\ \A i \in DOMAIN query[r].columns : query[r].columns[i] \in 1 .. NumColumns
  <1>1. /\ query[r].rows \in Seq(Ids) /\ query[r].columns \in Seq(1 .. NumColumns)
        /\ Len(query[r].columns) \in Nat \ {0} /\ query[r].mapping \in Mappings
    BY QueryFacts DEF IInv, Functions
  <1>2. at[r].row \in DOMAIN query[r].rows /\ at[r].col \in DOMAIN query[r].columns
    BY DEF IInv, TypeOK
  <1>3. /\ DOMAIN query[r].rows = 1 .. Len(query[r].rows) /\ Len(query[r].rows) \in Nat
        /\ DOMAIN query[r].columns = 1 .. Len(query[r].columns)
    BY <1>1, LenProperties
  <1>4. \A i \in DOMAIN query[r].columns : query[r].columns[i] \in 1 .. NumColumns
    BY <1>1, <1>3, ElementOfSeq
  <1>5. query[r].rows[at[r].row] \in Ids
    BY <1>1, <1>2, <1>3, ElementOfSeq
  <1>6. QED BY <1>1, <1>2, <1>3, <1>4, <1>5 DEF Row, Column

\* How WordDone moves on: to the next word, to the next column, or, when all
\* words of all columns have been dealt with, to the next phase.
LEMMA WordDoneFacts ==
  ASSUME IInv, NEW r \in Requests, pc[r] \in {"scan", "read"}, NEW w \in todo[r],
         NEW next \in {"read", "next"}, next # pc[r], WordDone(r, w, next)
  PROVE  /\ \A q \in Requests \ {r} : pc'[q] = pc[q] /\ at'[q] = at[q] /\ todo'[q] = todo[q]
         /\ DOMAIN at' = Requests /\ DOMAIN todo' = Requests
         /\ pc' \in [Requests -> {"idle", "next", "scan", "read", "done"}]
         /\ todo'[r] \subseteq Words
         /\ at'[r] \in [row : Nat, col : Nat] /\ at'[r].row = at[r].row
         /\ at'[r].col \in 1 .. Len(query[r].columns)
         /\ \/ /\ pc' = pc
               /\ \A i \in DOMAIN query[r].columns, v \in Words :
                    Touched(r, i, v)' <=> Touched(r, i, v) \/ (i = at[r].col /\ v = w)
            \/ /\ pc' = [pc EXCEPT ![r] = next]
               /\ \A i \in DOMAIN query[r].columns, v \in Words :
                    /\ Touched(r, i, v) \/ (i = at[r].col /\ v = w)
                    /\ ~Touched(r, i, v)'
  <1> DEFINE n == Len(query[r].columns)
  <1>1. /\ at[r].col \in 1 .. n /\ n \in Nat \ {0} /\ DOMAIN query[r].columns = 1 .. n
        /\ w \in Words /\ todo[r] \subseteq Words /\ at[r] \in [row : Nat, col : Nat]
        /\ DOMAIN at = Requests /\ DOMAIN todo = Requests
        /\ pc \in [Requests -> {"idle", "next", "scan", "read", "done"}]
    BY Position DEF IInv, TypeOK, Functions
  <1> DEFINE cols == DOMAIN query[r].columns
  <1> HIDE DEF cols, n, IInv
  <1>2. CASE todo[r] # {w}
    <2>1. todo' = [todo EXCEPT ![r] = @ \ {w}] /\ UNCHANGED <<at, pc>>
      BY <1>2 DEF WordDone
    <2>2. todo'[r] = todo[r] \ {w} /\ at'[r] = at[r]
      BY <1>1, <2>1
    <2>3. \A i \in cols, v \in Words :
            Touched(r, i, v)' <=> Touched(r, i, v) \/ (i = at[r].col /\ v = w)
      BY <1>1, <2>2 DEF Touched, cols
    <2>4. QED BY <1>1, <2>1, <2>2, <2>3 DEF n, cols
  <1>3. CASE todo[r] = {w} /\ at[r].col # n
    <2>1. /\ todo' = [todo EXCEPT ![r] = Words] /\ at' = [at EXCEPT ![r].col = @ + 1]
          /\ pc' = pc
      BY <1>3 DEF WordDone, n
    <2>2. todo'[r] = Words /\ at'[r] = [row |-> at[r].row, col |-> at[r].col + 1]
      BY <1>1, <2>1
    <2>3. \A i \in 1 .. n, v \in Words :
            Touched(r, i, v)' <=> Touched(r, i, v) \/ (i = at[r].col /\ v = w)
      BY <1>1, <1>3, <2>2 DEF Touched
    <2>4. at'[r].col \in 1 .. n
      BY <1>1, <1>3, <2>2
    <2>5. QED BY <1>1, <2>1, <2>2, <2>3, <2>4 DEF n
  <1>4. CASE todo[r] = {w} /\ at[r].col = n
    <2>1. /\ todo' = [todo EXCEPT ![r] = Words] /\ at' = [at EXCEPT ![r].col = 1]
          /\ pc' = [pc EXCEPT ![r] = next]
      BY <1>4 DEF WordDone, n
    <2>2. todo'[r] = Words /\ at'[r] = [row |-> at[r].row, col |-> 1]
      BY <1>1, <2>1
    <2>3. \A i \in 1 .. n, v \in Words :
            /\ Touched(r, i, v) \/ (i = at[r].col /\ v = w)
            /\ ~Touched(r, i, v)'
      BY <1>1, <1>4, <2>2 DEF Touched
    <2>4. QED BY <1>1, <2>1, <2>2, <2>3 DEF n
  <1>5. QED BY <1>2, <1>3, <1>4

-----------------------------------------------------------------------------

\* The other requests, in a step of r that leaves the destinations of those
\* that met nobody alone.
LEMMA OthersKept ==
  ASSUME IInv, NEW r \in Requests, met \subseteq met',
         \A q \in Requests \ {r} :
           /\ pc'[q] = pc[q] /\ query'[q] = query[q] /\ at'[q] = at[q] /\ todo'[q] = todo[q]
           /\ got'[q] = got[q] /\ out'[q] = out[q]
           /\ q \notin met' /\ pc[q] \in {"scan", "read"} =>
                buf'[query[q].mapping] = buf[query[q].mapping],
         r \notin met' => RowExactOf(r)' /\ OutExactOf(r)'
  PROVE  RowExact' /\ OutExact'
  <1>1. ASSUME NEW q \in Requests \ met', q # r
        PROVE  RowExactOf(q)' /\ OutExactOf(q)'
    <2>1. RowExactOf(q) /\ OutExactOf(q)
      BY <1>1 DEF IInv, RowExact, OutExact
    <2>2. RowExactOf(q)'
      BY <1>1, <2>1 DEF RowExactOf, Touched, Row
    <2>3. OutExactOf(q)'
      BY <1>1, <2>1 DEF OutExactOf, Finished
    <2>4. QED BY <2>2, <2>3
  <1>2. QED BY <1>1 DEF RowExact, OutExact

\* A request that is scanning has destinations no request uses that met none.
LEMMA Undisturbed ==
  ASSUME IInv, NEW r \in Requests, pc[r] = "scan",
         NEW q \in Requests \ met, q # r, pc[q] \in {"scan", "read"}
  PROVE  query[q].mapping # query[r].mapping
  BY DEF IInv, Sharing, Active

\* A request arrives.
LEMMA QueryContextHolds ==
  ASSUME IInv, NEW r \in Requests, NEW q, IsQuery(q), QueryContext(r, q)
  PROVE  IInv'
  <1>1. /\ query' = [query EXCEPT ![r] = q] /\ pc' = [pc EXCEPT ![r] = "next"]
        /\ pc[r] = "idle" /\ UNCHANGED <<buf, at, todo, got, out>>
        /\ met' = IF Peers(r, q) = {} THEN met ELSE met \cup Peers(r, q) \cup {r}
    BY DEF QueryContext
  <1>2. /\ query'[r] = q /\ pc'[r] = "next" /\ met \subseteq met' /\ met' \subseteq Requests
        /\ \A p \in Requests \ {r} : query'[p] = query[p] /\ pc'[p] = pc[p]
    BY <1>1 DEF IInv, Functions, TypeOK, Peers
  <1>3. TypeOK'
    BY <1>1, <1>2 DEF IInv, TypeOK
  <1>4. Functions'
    BY <1>1, <1>2 DEF IInv, Functions
  <1>5. Sharing'
    <2> SUFFICES ASSUME NEW p1 \in Requests, NEW p2 \in Requests, p1 # p2,
                        Active(p1)', Active(p2)', query'[p1].mapping = query'[p2].mapping
                 PROVE  p1 \in met'
      BY DEF Sharing
    <2>1. ASSUME NEW p \in Requests, p # r, Active(p)', query'[p].mapping = q.mapping
          PROVE  p \in met' /\ r \in met'
      <3>1. Active(p) /\ IsQuery(query[p])
        BY <1>2, <2>1 DEF Active, IInv, Functions
      <3>2. p \in Peers(r, q)
        BY <1>2, <2>1, <3>1, SharingMakesPeers DEF Peers
      <3>3. QED BY <1>1, <3>2
    <2>2. CASE p1 = r \/ p2 = r
      BY <1>2, <2>1, <2>2
    <2>3. CASE p1 # r /\ p2 # r
      BY <1>2, <2>3 DEF IInv, Sharing, Active
    <2>4. QED BY <2>2, <2>3
  <1>6. RowExact' /\ OutExact'
    <2>1. RowExactOf(r)'
      BY <1>2 DEF RowExactOf
    <2>2. OutExactOf(r)'
      BY <1>1, <1>2, EmptySeq DEF OutExactOf, Finished, IInv, Functions
    <2>3. QED BY <1>1, <1>2, <2>1, <2>2, OthersKept
  <1>7. QED BY <1>3, <1>4, <1>5, <1>6 DEF IInv

\* The next row, if there is one.
LEMMA RowsHolds ==
  ASSUME IInv, NEW r \in Requests, NextRow(r) \/ NoMoreRows(r)
  PROVE  IInv'
  <1>1. IsQuery(query[r]) /\ pc[r] = "next"
    BY DEF NextRow, NoMoreRows, IInv, Functions
  <1>2. /\ query[r].rows \in Seq(Ids) /\ Len(query[r].rows) \in Nat
        /\ DOMAIN query[r].rows = 1 .. Len(query[r].rows)
        /\ Len(query[r].columns) \in Nat \ {0} /\ DOMAIN query[r].columns = 1 .. Len(query[r].columns)
    BY <1>1, QueryFacts, LenProperties
  <1>3. at[r] \in [row : Nat, col : Nat]
    BY DEF IInv, TypeOK
  <1>4. Sharing'
    <2>1. query' = query /\ met' = met /\ \A q \in Requests \ {r} : pc'[q] = pc[q]
      BY DEF NextRow, NoMoreRows, IInv, TypeOK
    <2>2. \A q \in Requests : Active(q)' => Active(q)
      BY <1>1, <2>1 DEF Active
    <2>3. QED BY <2>1, <2>2 DEF IInv, Sharing
  <1>5. CASE NextRow(r)
    <2>1. /\ at'[r] = [row |-> at[r].row + 1, col |-> 1] /\ todo'[r] = Words
          /\ got'[r] = [i \in DOMAIN query[r].columns |-> NoWords] /\ pc'[r] = "scan"
          /\ UNCHANGED <<buf, query, out, met>> /\ at[r].row < Len(query[r].rows)
          /\ \A q \in Requests \ {r} : pc'[q] = pc[q] /\ at'[q] = at[q] /\ todo'[q] = todo[q]
                                      /\ got'[q] = got[q]
      BY <1>5 DEF NextRow, IInv, Functions, TypeOK
    <2>2. TypeOK'
      <3>1. /\ at'[r] \in [row : Nat, col : Nat]
            /\ at'[r].row \in DOMAIN query[r].rows /\ at'[r].col \in DOMAIN query[r].columns
        BY <1>2, <1>3, <2>1
      <3>2. pc' \in [Requests -> {"idle", "next", "scan", "read", "done"}]
        BY <1>5 DEF NextRow, IInv, TypeOK
      <3>3. QED BY <2>1, <3>1, <3>2 DEF IInv, TypeOK
    <2>3. Functions'
      <3>1. got'[r] \in [DOMAIN query[r].columns -> [Words -> Ids \cup {Null}]]
        BY <2>1 DEF NoWords
      <3>2. DOMAIN at' = Requests /\ DOMAIN todo' = Requests /\ DOMAIN got' = Requests
        BY <1>5 DEF NextRow, IInv, Functions
      <3>3. QED BY <1>1, <2>1, <3>1, <3>2 DEF IInv, Functions
    <2>4. RowExactOf(r)'
      BY <1>2, <2>1 DEF RowExactOf, Touched
    <2>5. r \notin met => OutExactOf(r)'
      <3>1. Finished(r)' = Finished(r)
        BY <1>1, <1>3, <2>1 DEF Finished
      <3>2. QED BY <1>1, <2>1, <3>1 DEF OutExactOf, IInv, OutExact
    <2>6. RowExact' /\ OutExact'
      BY <2>1, <2>4, <2>5, OthersKept
    <2>7. QED BY <1>4, <2>2, <2>3, <2>6 DEF IInv
  <1>6. CASE NoMoreRows(r)
    <2>1. /\ pc' = [pc EXCEPT ![r] = "done"] /\ pc'[r] = "done"
          /\ UNCHANGED <<buf, query, at, todo, got, out, met>>
          /\ at[r].row = Len(query[r].rows)
          /\ \A q \in Requests \ {r} : pc'[q] = pc[q]
      BY <1>6 DEF NoMoreRows, IInv, TypeOK
    <2>2. TypeOK' /\ Functions'
      BY <1>1, <2>1 DEF IInv, TypeOK, Functions
    <2>3. RowExactOf(r)' /\ (r \notin met => OutExactOf(r)')
      BY <1>1, <2>1 DEF RowExactOf, OutExactOf, Finished, IInv, OutExact
    <2>4. RowExact' /\ OutExact'
      BY <2>1, <2>3, OthersKept
    <2>5. QED BY <1>4, <2>2, <2>4 DEF IInv
  <1>7. QED BY <1>5, <1>6

\* A word is scanned.
LEMMA ScanWordHolds ==
  ASSUME IInv, NEW r \in Requests, NEW w \in Words, ScanWord(r, w)
  PROVE  IInv'
  <1> DEFINE m == query[r].mapping
             c == Column(r)
  <1>1. /\ pc[r] = "scan" /\ w \in todo[r] /\ WordDone(r, w, "read")
        /\ UNCHANGED <<query, got, out, met>>
        /\ buf' = [buf EXCEPT ![m][c][w] = Word(Row(r), c)]
    BY DEF ScanWord, Word
  <1>2. /\ Row(r) \in Ids /\ c \in 1 .. NumColumns /\ m \in Mappings
        /\ DOMAIN query[r].columns = 1 .. Len(query[r].columns)
        /\ \A i \in DOMAIN query[r].columns : query[r].columns[i] \in 1 .. NumColumns
        /\ at[r].row \in 1 .. Len(query[r].rows) /\ Len(query[r].rows) \in Nat
    BY <1>1, Position
  <1>3. /\ \A q \in Requests \ {r} : pc'[q] = pc[q] /\ at'[q] = at[q] /\ todo'[q] = todo[q]
        /\ DOMAIN at' = Requests /\ DOMAIN todo' = Requests
        /\ pc' \in [Requests -> {"idle", "next", "scan", "read", "done"}]
        /\ todo'[r] \subseteq Words
        /\ at'[r] \in [row : Nat, col : Nat] /\ at'[r].row = at[r].row
        /\ at'[r].col \in 1 .. Len(query[r].columns)
        /\ \/ /\ pc' = pc
              /\ \A i \in DOMAIN query[r].columns, v \in Words :
                   Touched(r, i, v)' <=> Touched(r, i, v) \/ (i = at[r].col /\ v = w)
           \/ /\ pc' = [pc EXCEPT ![r] = "read"]
              /\ \A i \in DOMAIN query[r].columns, v \in Words :
                   /\ Touched(r, i, v) \/ (i = at[r].col /\ v = w)
                   /\ ~Touched(r, i, v)'
    BY <1>1, WordDoneFacts
  <1>4. pc'[r] \in {"scan", "read"}
    BY <1>1, <1>3 DEF IInv, TypeOK
  <1>5. buf \in [Mappings -> [1 .. NumColumns -> [Words -> Ids \cup {Null}]]]
    BY DEF IInv, TypeOK
  <1>6. Word(Row(r), c) \in Ids \cup {Null}
    BY <1>2 DEF Word
  <1> HIDE DEF m, c
  <1>7. buf' \in [Mappings -> [1 .. NumColumns -> [Words -> Ids \cup {Null}]]]
    BY <1>1, <1>2, <1>5, <1>6
  <1>8. /\ \A x \in Mappings \ {m} : buf'[x] = buf[x]
        /\ \A d \in 1 .. NumColumns, v \in Words :
             buf'[m][d][v] = IF d = c /\ v = w THEN Word(Row(r), c) ELSE buf[m][d][v]
    BY <1>1, <1>2, <1>5
  <1>9. TypeOK'
    <2>1. at'[r].row \in DOMAIN query[r].rows /\ at'[r].col \in DOMAIN query[r].columns
      BY <1>1, <1>2, <1>3 DEF IInv, TypeOK
    <2>2. QED BY <1>1, <1>3, <1>7, <2>1 DEF IInv, TypeOK
  <1>10. Functions'
    BY <1>1, <1>3, <1>4 DEF IInv, Functions
  <1>11. Sharing'
    <2>1. \A q \in Requests : Active(q)' => Active(q)
      BY <1>1, <1>3 DEF Active
    <2>2. QED BY <1>1, <2>1 DEF IInv, Sharing
  <1>12. ASSUME r \notin met
         PROVE  RowExactOf(r)' /\ OutExactOf(r)'
    <2>1. RowExactOf(r) /\ OutExactOf(r)
      BY <1>12 DEF IInv, RowExact, OutExact
    <2>2. Row(r)' = Row(r) /\ Row(r) = query[r].rows[at[r].row]
      BY <1>1, <1>3 DEF Row
    <2>3. ASSUME NEW i \in DOMAIN query[r].columns, NEW v \in Words,
                 Touched(r, i, v) \/ (i = at[r].col /\ v = w)
          PROVE  buf'[m][query[r].columns[i]][v] = Word(Row(r), query[r].columns[i])
      <3>1. Touched(r, i, v) => buf[m][query[r].columns[i]][v] = Word(Row(r), query[r].columns[i])
        BY <1>1, <2>1 DEF RowExactOf, m
      <3>2. i = at[r].col => query[r].columns[i] = c
        BY DEF c, Column
      <3>3. query[r].columns[i] \in 1 .. NumColumns
        BY <1>2
      <3>4. QED BY <1>8, <2>3, <3>1, <3>2, <3>3
    <2>4. RowExactOf(r)'
      <3> SUFFICES ASSUME NEW i \in DOMAIN query[r].columns, NEW v \in Words
                   PROVE  /\ pc'[r] = "read" \/ (pc'[r] = "scan" /\ Touched(r, i, v)') =>
                               buf'[m][query[r].columns[i]][v] = Word(Row(r), query[r].columns[i])
                          /\ ~(pc'[r] = "read" /\ Touched(r, i, v)')
        BY <1>1, <2>2 DEF RowExactOf, m, Word
      <3>1. CASE pc' = pc
        BY <1>1, <1>3, <2>3, <3>1
      <3>2. CASE pc' # pc
        BY <1>1, <1>3, <1>4, <2>3, <3>2
      <3>3. QED BY <3>1, <3>2
    <2>5. OutExactOf(r)'
      <3>1. Finished(r)' = Finished(r)
        BY <1>1, <1>3, <1>4 DEF Finished
      <3>2. QED BY <1>1, <1>4, <2>1, <3>1 DEF OutExactOf
    <2>6. QED BY <2>4, <2>5
  <1>13. ASSUME NEW q \in Requests \ met, q # r, pc[q] \in {"scan", "read"}
         PROVE  buf'[query[q].mapping] = buf[query[q].mapping]
    <2>1. query[q].mapping # m /\ query[q].mapping \in Mappings
      BY <1>1, <1>13, Undisturbed, Position DEF m
    <2>2. QED BY <1>8, <2>1
  <1>14. RowExact' /\ OutExact'
    BY <1>1, <1>3, <1>12, <1>13, OthersKept
  <1>15. QED BY <1>9, <1>10, <1>11, <1>14 DEF IInv

\* A word is read; after the last one the row is appended to the results.
LEMMA ReadWordHolds ==
  ASSUME IInv, NEW r \in Requests, NEW w \in Words, ReadWord(r, w)
  PROVE  IInv'
  <1> DEFINE m == query[r].mapping
             c == Column(r)
             cols == DOMAIN query[r].columns
             now == [got[r] EXCEPT ![at[r].col][w] = buf[m][c][w]]
             result == [i \in DOMAIN now |-> Value(now[i])]
  <1>1. /\ pc[r] = "read" /\ w \in todo[r] /\ WordDone(r, w, "next")
        /\ UNCHANGED <<buf, query, met>> /\ got' = [got EXCEPT ![r] = now]
        /\ out' = IF pc'[r] = "next" THEN [out EXCEPT ![r] = Append(@, result)] ELSE out
    BY DEF ReadWord
  <1>2. /\ Row(r) \in Ids /\ c \in 1 .. NumColumns /\ m \in Mappings
        /\ cols = 1 .. Len(query[r].columns) /\ Len(query[r].columns) \in Nat
        /\ \A i \in cols : query[r].columns[i] \in 1 .. NumColumns
        /\ at[r].row \in 1 .. Len(query[r].rows) /\ Len(query[r].rows) \in Nat
        /\ at[r].col \in cols
    BY <1>1, Position
  <1>3. /\ \A q \in Requests \ {r} : pc'[q] = pc[q] /\ at'[q] = at[q] /\ todo'[q] = todo[q]
        /\ DOMAIN at' = Requests /\ DOMAIN todo' = Requests
        /\ pc' \in [Requests -> {"idle", "next", "scan", "read", "done"}]
        /\ todo'[r] \subseteq Words
        /\ at'[r] \in [row : Nat, col : Nat] /\ at'[r].row = at[r].row
        /\ at'[r].col \in 1 .. Len(query[r].columns)
        /\ \/ /\ pc' = pc
              /\ \A i \in cols, v \in Words :
                   Touched(r, i, v)' <=> Touched(r, i, v) \/ (i = at[r].col /\ v = w)
           \/ /\ pc' = [pc EXCEPT ![r] = "next"]
              /\ \A i \in cols, v \in Words :
                   /\ Touched(r, i, v) \/ (i = at[r].col /\ v = w)
                   /\ ~Touched(r, i, v)'
    BY <1>1, WordDoneFacts
  <1>4. pc'[r] \in {"read", "next"} /\ (pc' # pc => pc'[r] = "next")
    BY <1>1, <1>3 DEF IInv, TypeOK
  <1>5. /\ got[r] \in [cols -> [Words -> Ids \cup {Null}]]
        /\ out[r] \in Seq(Seq(Cells)) /\ DOMAIN got = Requests /\ DOMAIN out = Requests
        /\ buf[m][c][w] \in Ids \cup {Null}
    <2>1. /\ got[r] \in [cols -> [Words -> Ids \cup {Null}]]
          /\ out[r] \in Seq(Seq(Cells)) /\ DOMAIN got = Requests /\ DOMAIN out = Requests
      BY <1>1 DEF IInv, Functions
    <2>2. buf \in [Mappings -> [1 .. NumColumns -> [Words -> Ids \cup {Null}]]]
      BY DEF IInv, TypeOK
    <2>3. buf[m][c][w] \in Ids \cup {Null}
      <3>1. m \in Mappings /\ c \in 1 .. NumColumns /\ w \in Words
        BY <1>2
      <3> HIDE DEF m, c
      <3>2. buf[m] \in [1 .. NumColumns -> [Words -> Ids \cup {Null}]]
        BY <2>2, <3>1
      <3>3. buf[m][c] \in [Words -> Ids \cup {Null}]
        BY <3>1, <3>2
      <3>4. QED BY <3>1, <3>3
    <2>4. QED BY <2>1, <2>3
  <1>6. /\ now \in [cols -> [Words -> Ids \cup {Null}]]
        /\ \A i \in cols, v \in Words :
             now[i][v] = IF i = at[r].col /\ v = w THEN buf[m][c][w] ELSE got[r][i][v]
    <2> HIDE DEF m, c, cols
    <2>1. QED BY <1>2, <1>5
  <1> HIDE DEF now
  <1>7. result \in Seq(Cells)
    <2>1. \A i \in cols : now[i]["valid"] \in Ids \cup {Null} /\ now[i]["data"] \in Ids \cup {Null}
                           /\ now[i]["size"] \in Ids \cup {Null}
      BY <1>6 DEF Words
    <2>2. \A i \in cols : Value(now[i]) \in Cells
      BY <2>1 DEF Value, Cells
    <2>3. DOMAIN now = 1 .. Len(query[r].columns)
      BY <1>2, <1>6
    <2>4. QED BY <1>2, <2>2, <2>3, SeqDef
  <1> HIDE DEF result
  <1>8. /\ got'[r] = now /\ \A q \in Requests \ {r} : got'[q] = got[q] /\ out'[q] = out[q]
        /\ out'[r] = IF pc'[r] = "next" THEN Append(out[r], result) ELSE out[r]
        /\ DOMAIN got' = Requests /\ DOMAIN out' = Requests
    BY <1>1, <1>5
  <1>9. out'[r] \in Seq(Seq(Cells))
    BY <1>5, <1>7, <1>8, AppendProperties
  <1>10. TypeOK'
    <2>1. at'[r].row \in DOMAIN query[r].rows /\ at'[r].col \in DOMAIN query[r].columns
      BY <1>1, <1>2, <1>3 DEF IInv, TypeOK
    <2>2. \A q \in Requests : out'[q] \in Seq(Seq(Cells))
      BY <1>8, <1>9 DEF IInv, Functions
    <2>3. \A q \in Requests : \A n \in DOMAIN out'[q] : \A i \in DOMAIN out'[q][n] : out'[q][n][i] \in Cells
      <3>1. \A S, x, i : x \in Seq(S) /\ i \in DOMAIN x => x[i] \in S
        BY ElementOfSeq, LenProperties
      <3>2. QED BY <2>2, <3>1
    <2>4. QED BY <1>1, <1>3, <2>1, <2>3 DEF IInv, TypeOK
  <1>11. Functions'
    BY <1>1, <1>3, <1>4, <1>6, <1>8, <1>9 DEF IInv, Functions
  <1>12. Sharing'
    <2>1. \A q \in Requests : Active(q)' => Active(q)
      BY <1>1, <1>3 DEF Active
    <2>2. QED BY <1>1, <2>1 DEF IInv, Sharing
  <1>13. ASSUME r \notin met
         PROVE  RowExactOf(r)' /\ OutExactOf(r)'
    <2>1. RowExactOf(r) /\ OutExactOf(r)
      BY <1>13 DEF IInv, RowExact, OutExact
    <2>2. Row(r)' = Row(r) /\ Row(r) = query[r].rows[at[r].row]
      BY <1>1, <1>3 DEF Row
    <2>3. \A i \in cols, v \in Words :
            buf[m][query[r].columns[i]][v] = Word(Row(r), query[r].columns[i])
      BY <1>1, <2>1 DEF RowExactOf
    <2>4. ASSUME NEW i \in cols, NEW v \in Words, Touched(r, i, v) \/ (i = at[r].col /\ v = w)
          PROVE  now[i][v] = Word(Row(r), query[r].columns[i])
      <3>1. Touched(r, i, v) => got[r][i][v] = Word(Row(r), query[r].columns[i])
        BY <1>1, <2>1 DEF RowExactOf
      <3>2. i = at[r].col => query[r].columns[i] = c
        BY DEF Column
      <3>3. QED BY <1>6, <2>3, <2>4, <3>1, <3>2
    <2>5. RowExactOf(r)'
      <3>1. CASE pc' = pc
        BY <1>1, <1>3, <1>8, <2>2, <2>3, <2>4, <3>1 DEF RowExactOf, Word
      <3>2. CASE pc' # pc
        BY <1>4, <3>2 DEF RowExactOf
      <3>3. QED BY <3>1, <3>2
    <2>6. OutExactOf(r)'
      <3>1. CASE pc'[r] = "read"
        <4>1. Finished(r)' = Finished(r)
          BY <1>1, <1>3, <3>1 DEF Finished
        <4>2. QED BY <1>1, <1>8, <2>1, <3>1, <4>1 DEF OutExactOf
      <3>2. CASE pc'[r] = "next"
        <4>1. Finished(r)' = at[r].row /\ Finished(r) = at[r].row - 1
          BY <1>1, <1>3, <3>2 DEF Finished
        <4>2. pc' = [pc EXCEPT ![r] = "next"]
          BY <1>1, <1>3, <3>2
        <4>3. \A i \in cols, v \in Words : now[i][v] = Word(Row(r), query[r].columns[i])
          BY <1>1, <1>3, <2>4, <3>2
        <4>4. result = ExpectedRow(query[r], at[r].row)
          <5>1. \A i \in cols :
                  Value(now[i]) = IF IsNull(Row(r), query[r].columns[i]) THEN Null ELSE <<Row(r), Row(r)>>
            BY <1>2, <4>3, ScanAssumption DEF Value, Word, Words
          <5>2. DOMAIN now = cols
            BY <1>6
          <5>3. QED BY <2>2, <5>1, <5>2 DEF result, ExpectedRow
        <4>5. Len(out[r]) = at[r].row - 1
              /\ \A n \in 1 .. at[r].row - 1 : out[r][n] = ExpectedRow(query[r], n)
          BY <1>1, <2>1, <4>1 DEF OutExactOf
        <4>6. /\ Len(out'[r]) = at[r].row
              /\ \A n \in 1 .. at[r].row : out'[r][n] = ExpectedRow(query[r], n)
          <5>1. out'[r] = Append(out[r], result) /\ at[r].row \in Nat
            BY <1>2, <1>8, <3>2
          <5>2. /\ Len(Append(out[r], result)) = Len(out[r]) + 1
                /\ \A n \in 1 .. Len(out[r]) : Append(out[r], result)[n] = out[r][n]
                /\ Append(out[r], result)[Len(out[r]) + 1] = result
            BY <1>5, <1>7, AppendProperties
          <5>3. \A n \in 1 .. at[r].row : n \in 1 .. at[r].row - 1 \/ n = at[r].row
            BY <5>1
          <5>4. QED BY <4>4, <4>5, <5>1, <5>2, <5>3
        <4>7. QED BY <1>1, <3>2, <4>1, <4>6 DEF OutExactOf
      <3>3. QED BY <1>4, <3>1, <3>2
    <2>7. QED BY <2>5, <2>6
  <1>14. RowExact' /\ OutExact'
    BY <1>1, <1>3, <1>8, <1>13, OthersKept
  <1>15. QED BY <1>10, <1>11, <1>12, <1>14 DEF IInv

\* Every step keeps the invariant.
LEMMA StepHolds ==
  ASSUME IInv, [Next]_vars
  PROVE  IInv'
  <1>1. ASSUME NEW r \in Requests, NEW t \in Tables, NEW rows \in ResultSets,
               QueryContext(r, OptionQuery(t, rows)) \/ QueryContext(r, RowQuery(t, rows))
        PROVE  IInv'
    BY <1>1, QueryContextHolds DEF IsQuery
  <1>2. CASE UNCHANGED vars
    <2>1. TypeOK' /\ Functions'
      BY <1>2 DEF vars, IInv, TypeOK, Functions
    <2>2. Sharing'
      BY <1>2 DEF vars, IInv, Sharing, Active
    <2>3. RowExact' /\ OutExact'
      BY <1>2 DEF vars, IInv, RowExact, RowExactOf, Touched, Row, OutExact, OutExactOf, Finished
    <2>4. QED BY <2>1, <2>2, <2>3 DEF IInv
  <1>3. QED BY <1>1, <1>2, RowsHolds, ScanWordHolds, ReadWordHolds DEF Next

\* The invariant holds of every behaviour.
LEMMA InvariantHolds == Spec => []IInv
  <1> QED BY InitHolds, StepHolds, PTL DEF Spec

-----------------------------------------------------------------------------

\* However requests interleave, the loops of rowsToResults and processRow stay
\* within the rows and the columns, and results are made of what was scanned.
THEOREM TypeCorrect == Spec => []TypeOK
  <1>1. IInv => TypeOK
    BY DEF IInv
  <1>2. QED BY <1>1, InvariantHolds, PTL

\* For any number of requests, tables, columns and rows, a request that met no
\* other on its destinations answers exactly the rows of its query, word by
\* word, although nothing but the keys of the schema mapping keeps requests
\* apart (processRow).
THEOREM UndisturbedTheorem == Spec => []UndisturbedIsExact
  <1>1. IInv => UndisturbedIsExact
    <2> SUFFICES ASSUME IInv, NEW r \in Requests \ met, pc[r] = "done"
                 PROVE  out[r] = Expected(r)
      BY DEF UndisturbedIsExact
    <2>1. /\ out[r] \in Seq(Seq(Cells)) /\ query[r].rows \in Seq(Ids)
          /\ Len(out[r]) = Len(query[r].rows)
          /\ \A n \in 1 .. Len(out[r]) : out[r][n] = ExpectedRow(query[r], n)
      BY QueryFacts DEF IInv, Functions, OutExact, OutExactOf, Finished
    <2>2. DOMAIN out[r] = 1 .. Len(out[r]) /\ DOMAIN query[r].rows = 1 .. Len(out[r])
      BY <2>1, LenProperties
    <2>3. out[r] = [n \in DOMAIN query[r].rows |-> ExpectedRow(query[r], n)]
      BY <2>1, <2>2, LenProperties
    <2>4. QED BY <2>2, <2>3 DEF Expected, ExpectedRow
  <1>2. QED BY <1>1, InvariantHolds, PTL
=============================================================================
