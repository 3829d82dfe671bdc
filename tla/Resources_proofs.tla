-------------------------- MODULE Resources_proofs --------------------------
(***************************************************************************)
(* Proofs about Resources, for any number of concurrent requests, any ids  *)
(* and rows, and any bodies.                                               *)
(*                                                                         *)
(* What became of a statement is proved without a word about the data.     *)
(* What the statement writes rests on ArgumentsMatchTheorem: the columns   *)
(* and the arguments of a body, collected apart, belong together.  With    *)
(* that, every step is one of TableContract.                               *)
(***************************************************************************)
EXTENDS Resources, QueryArgs_proofs, FiniteSetTheorems

(***************************************************************************)
(* The inductive invariant, in named parts.                                *)
(***************************************************************************)

Functions ==
  /\ DOMAIN answer = Requests
  /\ body \in [Requests -> Bodies \cup {NoRow}]

\* Where a request is tells its method, and that its statement has not taken
\* effect yet.
Control ==
  \A r \in Requests :
    /\ pc[r] \in {"idle", "Exec"} => r \notin effective
    /\ pc[r] = "Exec" => op[r] \in {"POST", "PATCH", "DELETE"}
    /\ pc[r] = "Exec" /\ op[r] = "PATCH" => id[r] \in Ids
    /\ pc[r] = "Exec" /\ op[r] # "DELETE" => body[r] \in Bodies
    /\ pc[r] = "Query" => op[r] \in {"GET", "POST", "PATCH"}

By(o) == {r \in effective : op[r] = o}

\* Rows that are there or were deleted were there at the start or created.
Accounted ==
  /\ IsFiniteSet(Rows) /\ IsFiniteSet(effective)
  /\ Cardinality(Rows) + Cardinality(By("DELETE"))
       = Cardinality(DOMAIN InitialRows) + Cardinality(By("POST"))

\* What the query of a statement is going to find, unless another request
\* changes that row first.
Foreseen ==
  \A r \in Requests : pc[r] = "Query" /\ op[r] # "GET" =>
    \/ r \in disturbed
    \/ r \in effective /\ (id[r] \in Rows \/ (op[r] = "PATCH" /\ IdKey \in DOMAIN body[r]))
    \/ r \notin effective /\ op[r] = "PATCH" /\ id[r] \notin Rows

IInv == TypeOK /\ Functions /\ Control /\ Accounted /\ Foreseen /\ AnswerTellsEffect

-----------------------------------------------------------------------------

\* The statement of r takes effect.
Effect(r) == (\E i \in Ids : Inserts(r, i)) \/ Updates(r) \/ Deletes(r)

\* The rows and the history after a statement that takes effect.
LEMMA EffectOnRows ==
  ASSUME IInv, NEW r \in Requests, Effect(r)
  PROVE  /\ pc[r] = "Exec" /\ effective' = effective \cup {r} /\ r \notin effective
         /\ Rows' \subseteq Ids /\ \A i \in Rows' : DOMAIN table'[i] = Columns
         /\ disturbed \subseteq disturbed' /\ disturbed' \subseteq Requests
         /\ \A q \in Requests \ {r} : pc[q] = "Query" =>
              q \in disturbed' \/ (id[q] \in Rows' <=> id[q] \in Rows)
         /\ IsFiniteSet(Rows') /\ Cardinality(Rows) \in Nat
         /\ Cardinality(Rows') = Cardinality(Rows) + (CASE op[r] = "POST" -> 1
                                                        [] op[r] = "PATCH" -> 0
                                                        [] op[r] = "DELETE" -> -1)
  <1> USE DEF IInv, TypeOK, Functions, Control, Accounted, Changes
  <1>1. IsFiniteSet(Rows) /\ Cardinality(Rows) \in Nat
    BY FS_CardinalityType
  <1>2. ASSUME NEW i \in Ids, Inserts(r, i)
        PROVE  /\ op[r] = "POST" /\ pc[r] = "Exec" /\ i \notin Rows /\ Rows' = Rows \cup {i}
               /\ \A j \in Rows' : DOMAIN table'[j] = Columns
               /\ Changes(r, table', {i})
    BY <1>2 DEF Inserts, Rows, Written
  <1>3. ASSUME Updates(r)
        PROVE  \E from \in Rows, to \in Ids :
                 /\ op[r] = "PATCH" /\ pc[r] = "Exec"
                 /\ to # from => to \notin Rows
                 /\ Rows' = (Rows \ {from}) \cup {to}
                 /\ \A j \in Rows' : DOMAIN table'[j] = Columns
                 /\ Changes(r, table', {from, to})
    <2> DEFINE from == id[r]
               to == IF IdKey \in DOMAIN body[r] THEN body[r][IdKey] ELSE from
    <2>1. from \in Rows
      BY <1>3 DEF Updates
    <2>2. to \in Ids
      BY <2>1, ResourcesAssumption DEF NoRow
    <2>3. /\ table' = [j \in (Rows \ {from}) \cup {to} |->
                         IF j = to THEN Written(r, table[from]) ELSE table[j]]
          /\ op[r] = "PATCH" /\ pc[r] = "Exec"
          /\ to # from => to \notin Rows
          /\ Changes(r, table', {from, to})
      BY <1>3 DEF Updates
    <2>4. Rows' = (Rows \ {from}) \cup {to}
      BY <2>3 DEF Rows
    <2>5. \A j \in Rows' : DOMAIN table'[j] = Columns
      BY <2>3, <2>4 DEF Written, Rows
    <2> HIDE DEF to
    <2>6. QED BY <2>1, <2>2, <2>3, <2>4, <2>5
  <1>4. ASSUME Deletes(r)
        PROVE  /\ op[r] = "DELETE" /\ pc[r] = "Exec"
               /\ id[r] \in Rows /\ Rows' = Rows \ {id[r]}
               /\ \A j \in Rows' : DOMAIN table'[j] = Columns
               /\ Changes(r, table', {id[r]})
    BY <1>4 DEF Deletes, Rows
  <1>5. CASE \E i \in Ids : Inserts(r, i)
    <2>1. PICK i \in Ids : Inserts(r, i)
      BY <1>5
    <2>2. IsFiniteSet(Rows') /\ Cardinality(Rows') = Cardinality(Rows) + 1
      BY <1>1, <1>2, <2>1, FS_AddElement
    <2>3. QED BY <1>1, <1>2, <2>1, <2>2
  <1>6. CASE Updates(r)
    <2>1. PICK from \in Rows, to \in Ids :
                 /\ op[r] = "PATCH" /\ pc[r] = "Exec"
                 /\ to # from => to \notin Rows
                 /\ Rows' = (Rows \ {from}) \cup {to}
                 /\ \A j \in Rows' : DOMAIN table'[j] = Columns
                 /\ Changes(r, table', {from, to})
      BY <1>3, <1>6
    <2> DEFINE others == Rows \ {from}
    <2>2. IsFiniteSet(others) /\ Cardinality(others) = Cardinality(Rows) - 1
      BY <1>1, FS_RemoveElement
    <2>3. to \notin others /\ Rows' = others \cup {to}
      BY <2>1
    <2> HIDE DEF others
    <2>4. IsFiniteSet(Rows') /\ Cardinality(Rows') = Cardinality(Rows)
      <3>1. IsFiniteSet(others \cup {to})
            /\ Cardinality(others \cup {to}) = Cardinality(others) + 1
        BY <2>2, <2>3, FS_AddElement
      <3>2. QED BY <1>1, <2>2, <2>3, <3>1
    <2>5. QED BY <1>1, <2>1, <2>4
  <1>7. CASE Deletes(r)
    <2>1. IsFiniteSet(Rows') /\ Cardinality(Rows') = Cardinality(Rows) - 1
      BY <1>1, <1>4, <1>7, FS_RemoveElement
    <2>2. QED BY <1>1, <1>4, <1>7, <2>1
  <1>8. QED BY <1>5, <1>6, <1>7 DEF Effect

\* The history after it accounts for the rows.
LEMMA EffectAccounted ==
  ASSUME IInv, NEW r \in Requests, Effect(r), UNCHANGED request
  PROVE  Accounted'
  <1> DEFINE deleted == By("DELETE")
             created == By("POST")
  <1> USE DEF IInv, Accounted
  <1>1. /\ effective' = effective \cup {r} /\ r \notin effective /\ pc[r] = "Exec"
        /\ IsFiniteSet(Rows') /\ Cardinality(Rows) \in Nat
        /\ Cardinality(Rows') = Cardinality(Rows) + (CASE op[r] = "POST" -> 1
                                                       [] op[r] = "PATCH" -> 0
                                                       [] op[r] = "DELETE" -> -1)
    BY EffectOnRows
  <1>2. op[r] \in {"POST", "PATCH", "DELETE"} /\ op' = op
    BY <1>1 DEF Control, request
  <1>3. IsFiniteSet(effective')
    BY <1>1, FS_AddElement
  <1>4. /\ deleted' = IF op[r] = "DELETE" THEN deleted \cup {r} ELSE deleted
        /\ created' = IF op[r] = "POST" THEN created \cup {r} ELSE created
    BY <1>1, <1>2 DEF By
  <1>5. /\ IsFiniteSet(deleted) /\ Cardinality(deleted) \in Nat /\ r \notin deleted
        /\ IsFiniteSet(created) /\ Cardinality(created) \in Nat /\ r \notin created
    BY <1>1, FS_Subset, FS_CardinalityType DEF By
  <1>6. Cardinality(DOMAIN InitialRows) \in Nat
    BY ResourcesAssumption, FS_CardinalityType
  <1>7. Cardinality(Rows) + Cardinality(deleted)
          = Cardinality(DOMAIN InitialRows) + Cardinality(created)
    OBVIOUS
  <1> HIDE DEF deleted, created
  <1>8. /\ Cardinality(deleted \cup {r}) = Cardinality(deleted) + 1
        /\ Cardinality(created \cup {r}) = Cardinality(created) + 1
    BY <1>5, FS_AddElement
  <1>9. /\ Cardinality(deleted') = Cardinality(deleted) + (IF op[r] = "DELETE" THEN 1 ELSE 0)
        /\ Cardinality(created') = Cardinality(created) + (IF op[r] = "POST" THEN 1 ELSE 0)
    BY <1>4, <1>5, <1>8
  <1>10. Cardinality(Rows') + Cardinality(deleted')
           = Cardinality(DOMAIN InitialRows) + Cardinality(created')
    <2>1. CASE op[r] = "POST"
      BY <1>1, <1>5, <1>6, <1>7, <1>9, <2>1
    <2>2. CASE op[r] = "PATCH"
      BY <1>1, <1>5, <1>6, <1>7, <1>9, <2>2
    <2>3. CASE op[r] = "DELETE"
      BY <1>1, <1>5, <1>6, <1>7, <1>9, <2>3
    <2>4. QED BY <1>2, <2>1, <2>2, <2>3
  <1>11. QED BY <1>1, <1>3, <1>10 DEF deleted, created

\* Before the first request.
LEMMA InitHolds == Init => IInv
  <1> SUFFICES ASSUME Init PROVE IInv
    OBVIOUS
  <1>1. TypeOK /\ Functions /\ Control /\ Foreseen
    BY ResourcesAssumption DEF Init, TypeOK, Functions, Control, Foreseen, Rows, Columns
  <1>2. AnswerTellsEffect
    BY DEF Init, AnswerTellsEffect
  <1>3. By("DELETE") = {} /\ By("POST") = {} /\ Rows = DOMAIN InitialRows
    BY DEF Init, By, Rows
  <1>4. Accounted
    BY <1>3, ResourcesAssumption, FS_EmptySet, FS_CardinalityType DEF Accounted, Init
  <1>5. QED BY <1>1, <1>2, <1>4 DEF IInv

\* A statement that takes effect, whatever its handler does next.
LEMMA EffectHolds ==
  ASSUME IInv, NEW r \in Requests, Effect(r), UNCHANGED request,
         \/ /\ op[r] = "POST" /\ Goto(r, "Query")
            /\ \E i \in Ids : id' = [id EXCEPT ![r] = i] /\ i \in Rows'
         \/ /\ op[r] = "PATCH" /\ Goto(r, "Query") /\ UNCHANGED id
            /\ id[r] \in Rows' \/ IdKey \in DOMAIN body[r]
         \/ UNCHANGED id /\ (\E code \in {"200", "204", "500"} : Reply(r, code, NoRow))
  PROVE  IInv'
  <1>1. Accounted'
    BY EffectAccounted
  <1>2. /\ pc[r] = "Exec" /\ effective' = effective \cup {r} /\ r \notin effective
        /\ Rows' \subseteq Ids /\ \A i \in Rows' : DOMAIN table'[i] = Columns
        /\ disturbed \subseteq disturbed' /\ disturbed' \subseteq Requests
        /\ \A q \in Requests \ {r} : pc[q] = "Query" =>
              q \in disturbed' \/ (id[q] \in Rows' <=> id[q] \in Rows)
    BY EffectOnRows
  <1>3. op' = op /\ body' = body
    BY DEF request
  <1>4. \A q \in Requests \ {r} : pc'[q] = pc[q] /\ id'[q] = id[q] /\ answer'[q] = answer[q]
    BY DEF IInv, TypeOK, Functions, Goto, Reply
  <1>5. /\ pc'[r] = "Query" => op[r] \in {"POST", "PATCH"} /\ id'[r] \in Ids
                              /\ (id'[r] \in Rows' \/ (op[r] = "PATCH" /\ IdKey \in DOMAIN body[r]))
        /\ pc'[r] \in {"Query", "done"}
        /\ pc'[r] = "done" => answer'[r].code \in {"200", "204", "500"}
    BY <1>2 DEF IInv, TypeOK, Functions, Goto, Reply, Control
  <1>6. TypeOK'
    <2>1. pc' \in [Requests -> {"idle", "Exec", "Query", "done"}]
          /\ id' \in [Requests -> Ids \cup {Null}]
      BY DEF IInv, TypeOK, Goto, Reply
    <2>2. \A q \in Requests : pc'[q] = "Query" => id'[q] \in Ids
      BY <1>4, <1>5 DEF IInv, TypeOK
    <2>3. QED BY <1>2, <1>3, <2>1, <2>2 DEF IInv, TypeOK
  <1>7. Functions'
    BY <1>3 DEF IInv, Functions, Goto, Reply
  <1>8. Control'
    BY <1>2, <1>3, <1>4, <1>5 DEF IInv, Control
  <1>9. Foreseen'
    BY <1>2, <1>3, <1>4, <1>5 DEF IInv, Foreseen
  <1>10. AnswerTellsEffect'
    BY <1>2, <1>3, <1>4, <1>5 DEF IInv, AnswerTellsEffect
  <1>11. QED BY <1>1, <1>6, <1>7, <1>8, <1>9, <1>10 DEF IInv

\* A step that leaves the table alone.
LEMMA QuietHolds ==
  ASSUME IInv, NEW r \in Requests, ChangesNothing,
         \A q \in Requests \ {r} :
           pc'[q] = pc[q] /\ op'[q] = op[q] /\ id'[q] = id[q] /\ body'[q] = body[q]
           /\ answer'[q] = answer[q],
         TypeOK', Functions',
         r \in effective => op'[r] = op[r],
         pc'[r] \in {"idle", "Exec"} => r \notin effective,
         pc'[r] = "Exec" => op'[r] \in {"POST", "PATCH", "DELETE"}
                            /\ (op'[r] = "PATCH" => id'[r] \in Ids)
                            /\ (op'[r] # "DELETE" => body'[r] \in Bodies),
         pc'[r] = "Query" => /\ op'[r] \in {"GET", "PATCH"}
                             /\ op'[r] = "PATCH" => r \notin effective /\ id'[r] \notin Rows,
         pc'[r] = "done" /\ op'[r] # "GET" /\ answer'[r].code # "500" =>
           \/ r \in effective <=> answer'[r].code \in {"200", "201", "204"}
           \/ op'[r] \in {"PATCH", "POST"} /\ r \in disturbed
           \/ op'[r] = "PATCH" /\ IdKey \in DOMAIN body'[r]
  PROVE  IInv'
  <1>1. table' = table /\ effective' = effective /\ disturbed' = disturbed /\ Rows' = Rows
    BY DEF ChangesNothing, Rows
  <1>2. Control' /\ Foreseen'
    BY <1>1 DEF IInv, Control, Foreseen
  <1>3. AnswerTellsEffect'
    BY <1>1 DEF IInv, AnswerTellsEffect
  <1>4. \A o : By(o)' = By(o)
    BY <1>1 DEF By, IInv, TypeOK
  <1>5. Accounted'
    BY <1>1, <1>4 DEF IInv, Accounted
  <1>6. QED BY <1>2, <1>3, <1>5 DEF IInv

\* Every step keeps the invariant.
LEMMA StepHolds ==
  ASSUME IInv, [Next]_vars
  PROVE  IInv'
<1> USE DEF IInv, TypeOK, Functions, Control, request
<1>1. ASSUME NEW r \in Requests, NEW o \in {"GET", "DELETE"}, NEW i \in Ids, Receive(r, o, i)
      PROVE  IInv'
  <2>1. TypeOK' /\ Functions'
    BY <1>1 DEF Receive, Goto, ChangesNothing, Rows
  <2>2. r \notin effective /\ op'[r] = o /\ pc'[r] = IF o = "GET" THEN "Query" ELSE "Exec"
    BY <1>1 DEF Receive, Goto
  <2>3. QED BY <1>1, <2>1, <2>2, QuietHolds DEF Receive, Goto
<1>2. ASSUME NEW r \in Requests, NEW o \in {"POST", "PATCH"}, NEW i \in Ids \cup {Null},
             ReceiveUnreadable(r, o, i)
      PROVE  IInv'
  <2>1. TypeOK' /\ Functions'
    BY <1>2 DEF ReceiveUnreadable, Reply, ChangesNothing, Rows
  <2>2. r \notin effective /\ op'[r] = o /\ pc'[r] = "done" /\ answer'[r].code = "400"
    BY <1>2 DEF ReceiveUnreadable, Reply
  <2>3. QED BY <1>2, <2>1, <2>2, QuietHolds DEF ReceiveUnreadable, Reply
<1>3. ASSUME NEW r \in Requests, NEW o \in {"POST", "PATCH"}, NEW i \in Ids \cup {Null},
             o = "PATCH" => i \in Ids, NEW b \in Bodies, ReceiveData(r, o, i, b)
      PROVE  IInv'
  <2>1. TypeOK' /\ Functions'
    BY <1>3 DEF ReceiveData, Reply, Goto, ChangesNothing, Rows
  <2>2. /\ r \notin effective /\ op'[r] = o /\ id'[r] = i /\ body'[r] = b
        /\ pc'[r] = "Exec" \/ (pc'[r] = "done" /\ answer'[r].code = "400")
    BY <1>3 DEF ReceiveData, Reply, Goto
  <2>3. ChangesNothing
        /\ \A q \in Requests \ {r} :
             pc'[q] = pc[q] /\ op'[q] = op[q] /\ id'[q] = id[q] /\ body'[q] = body[q]
             /\ answer'[q] = answer[q]
    BY <1>3 DEF ReceiveData, Reply, Goto
  <2>4. QED BY <1>3, <2>1, <2>2, <2>3, QuietHolds
<1>4. ASSUME NEW r \in Requests, ExecFails(r) \/ QueryFails(r)
      PROVE  IInv'
  <2>1. TypeOK' /\ Functions'
    BY <1>4 DEF ExecFails, QueryFails, Reply, ChangesNothing, Rows
  <2>2. op' = op /\ pc'[r] = "done" /\ answer'[r].code = "500"
    BY <1>4 DEF ExecFails, QueryFails, Reply
  <2>3. QED BY <1>4, <2>1, <2>2, QuietHolds DEF ExecFails, QueryFails, Reply
<1>5. ASSUME NEW r \in Requests, ExecLost(r)
      PROVE  IInv'
  BY <1>5, EffectHolds DEF ExecLost, Effect
<1>6. ASSUME NEW r \in Requests, NEW i \in Ids, NEW reports \in BOOLEAN, ExecCreate(r, i, reports)
      PROVE  IInv'
  <2>1. op[r] = "POST" /\ i \in Rows' /\ Effect(r) /\ UNCHANGED request
    BY <1>6 DEF ExecCreate, Inserts, Changes, Rows, Effect
  <2>2. QED BY <1>6, <2>1, EffectHolds DEF ExecCreate
<1>7. ASSUME NEW r \in Requests, ExecUpdate(r)
      PROVE  IInv'
  <2>1. op[r] = "PATCH" /\ (id[r] \in Rows' \/ IdKey \in DOMAIN body[r])
    BY <1>7 DEF ExecUpdate, Updates, Changes, Rows
  <2>2. QED BY <1>7, <2>1, EffectHolds DEF ExecUpdate, Effect
<1>8. ASSUME NEW r \in Requests, NEW returning \in BOOLEAN, ExecUpdateNone(r, returning)
      PROVE  IInv'
  <2>1. TypeOK' /\ Functions'
    BY <1>8 DEF ExecUpdateNone, Reply, Goto, ChangesNothing, Rows
  <2>2. /\ op' = op /\ op[r] = "PATCH" /\ id' = id /\ id[r] \notin Rows /\ r \notin effective
        /\ pc'[r] = "Query" \/ (pc'[r] = "done" /\ answer'[r].code = "404")
    BY <1>8 DEF ExecUpdateNone, Reply, Goto
  <2>3. ChangesNothing
        /\ \A q \in Requests \ {r} :
             pc'[q] = pc[q] /\ op'[q] = op[q] /\ id'[q] = id[q] /\ body'[q] = body[q]
             /\ answer'[q] = answer[q]
    BY <1>8 DEF ExecUpdateNone, Reply, Goto
  <2>4. QED BY <1>8, <2>1, <2>2, <2>3, QuietHolds
<1>9. ASSUME NEW r \in Requests, ExecDelete(r)
      PROVE  IInv'
  <2>1. CASE Deletes(r) /\ Reply(r, "200", NoRow)
    BY <1>9, <2>1, EffectHolds DEF ExecDelete, Effect
  <2>2. CASE /\ pc[r] = "Exec" /\ op[r] = "DELETE" /\ id[r] \notin Rows
             /\ ChangesNothing /\ Reply(r, "404", NoRow)
    <3>1. TypeOK' /\ Functions'
      BY <1>9, <2>2 DEF ExecDelete, Reply, ChangesNothing, Rows
    <3>2. op' = op /\ pc'[r] = "done" /\ answer'[r].code = "404" /\ r \notin effective
      BY <1>9, <2>2 DEF ExecDelete, Reply
    <3>3. QED BY <1>9, <2>2, <3>1, <3>2, QuietHolds DEF ExecDelete, Reply
  <2>3. QED BY <1>9, <2>1, <2>2 DEF ExecDelete
<1>10. ASSUME NEW r \in Requests, Query(r)
       PROVE  IInv'
  <2>1. TypeOK' /\ Functions'
    BY <1>10 DEF Query, Reply, ChangesNothing, Rows
  <2>2. /\ op' = op /\ body' = body /\ pc'[r] = "done" /\ pc[r] = "Query"
        /\ id[r] \in Rows => answer'[r].code \in {"200", "201"}
        /\ id[r] \notin Rows => answer'[r].code = "404"
    BY <1>10 DEF Query, Reply
  <2>3. op[r] # "GET" =>
          \/ r \in effective <=> answer'[r].code \in {"200", "201", "204"}
          \/ op[r] \in {"PATCH", "POST"} /\ r \in disturbed
          \/ op[r] = "PATCH" /\ IdKey \in DOMAIN body[r]
    BY <2>2 DEF Foreseen
  <2>4. QED BY <1>10, <2>1, <2>2, <2>3, QuietHolds DEF Query, Reply
<1>11. CASE UNCHANGED vars
  <2>1. Rows' = Rows /\ \A o : By(o)' = By(o)
    BY <1>11 DEF vars, Rows, By
  <2>2. Accounted' /\ Foreseen' /\ AnswerTellsEffect'
    BY <1>11, <2>1 DEF vars, Accounted, Foreseen, AnswerTellsEffect
  <2>3. QED BY <1>11, <2>1, <2>2 DEF vars
<1>12. QED
  <2> HIDE DEF IInv
  <2>1. QED BY <1>1, <1>2, <1>3, <1>4, <1>5, <1>6, <1>7, <1>8, <1>9, <1>10, <1>11 DEF Next, Handler

\* The invariant holds of every behaviour.
LEMMA InvariantHolds == Spec => []IInv
  <1> QED BY InitHolds, StepHolds, PTL DEF Spec

-----------------------------------------------------------------------------

\* However requests interleave, the state is one the handlers can be in: the
\* query that follows a statement has the id of a row.
THEOREM TypeCorrect == Spec => []TypeOK
  <1>1. IInv => TypeOK
    BY DEF IInv
  <1>2. QED BY <1>1, InvariantHolds, PTL

\* For any number of requests, who is not answered with 500 knows what became
\* of his statement (CreateSingle, UpdateSingle, DeleteSingle), although
\* results are lost and other requests come between statement and query.
THEOREM AnswerTellsEffectTheorem == Spec => []AnswerTellsEffect
  <1>1. IInv => AnswerTellsEffect
    BY DEF IInv
  <1>2. QED BY <1>1, InvariantHolds, PTL

\* For any number of requests, each row is deleted once, and who is told so
\* deleted one (DeleteSingle).
THEOREM DeletedOnceTheorem == Spec => []DeletedOnce
  <1>1. IInv => DeletedOnce
    <2> SUFFICES ASSUME IInv PROVE DeletedOnce
      OBVIOUS
    <2>1. \A r \in Requests : Answered(r, "DELETE", "200") => r \in effective
      BY DEF IInv, AnswerTellsEffect, Answered
    <2>2. QED BY <2>1 DEF IInv, Accounted, By, DeletedOnce
  <1>2. QED BY <1>1, InvariantHolds, PTL

-----------------------------------------------------------------------------
(***************************************************************************)
(* The data.                                                               *)
(***************************************************************************)

\* What the database accepts of a body assigns exactly that body: the columns
\* of GetColumnNamesFromRequestData and the arguments of
\* CoerceRequestDataToGolangNativeTypes belong together, whatever the fields.
THEOREM ArgumentsMatchTheorem == ArgumentsMatch
  <1> SUFFICES ASSUME NEW b \in Bodies, Accepts(ColumnNames(Fields, b), Args(Fields, b))
               PROVE  Assigned(ColumnNames(Fields, b), Args(Fields, b)) = b
    BY DEF ArgumentsMatch
  <1> DEFINE names == [i \in DOMAIN Fields |-> Fields[i].keys]
             cols == ColumnNames(Fields, b)
             args == Args(Fields, b)
  <1>1. /\ AreFields(Fields) /\ DOMAIN b \subseteq Keys /\ b = [k \in DOMAIN b |-> b[k]]
    BY ResourcesAssumption, Zenon
  <1>2. Names(Fields, names, Keys) /\ \A i \in DOMAIN Fields : names[i] = Fields[i].keys
    <2> SUFFICES ASSUME NEW i \in DOMAIN Fields
                 PROVE  /\ names[i] = Fields[i].keys
                        /\ names[i] \in Seq(Keys) /\ Len(names[i]) = Len(Fields[i].keys)
      BY Zenon DEF Names
    <2>1. names[i] = Fields[i].keys
      OBVIOUS
    <2>2. Fields[i].keys \in Seq(Range(Fields[i].keys))
      BY <1>1 DEF AreFields
    <2>3. Range(Fields[i].keys) \subseteq Keys
      BY DEF Keys, KeysOf
    <2> HIDE DEF names
    <2>4. Fields[i].keys \in Seq(Keys)
      BY <2>2, <2>3
    <2>5. QED BY <2>1, <2>4
  <1>3. cols = NamesSent(Fields, b, names)
    BY Zenon DEF ColumnNames, NamesSent
  <1>4. Len(cols) = Len(args)
    BY DEF Accepts
  <1> HIDE DEF names, cols
  <1>5. /\ cols \in Seq(Keys)
        /\ OfSentKeys(Fields, b, names, cols, args) /\ AllSentKeys(Fields, b, names, cols, args)
    BY <1>1, <1>2, <1>3, <1>4, ArgumentsMeetColumns, NamesSentType
  <1> HIDE DEF args
  <1>6. DOMAIN cols = 1 .. Len(cols)
    BY <1>5
  <1>7. ASSUME NEW p \in 1 .. Len(cols)
        PROVE  cols[p] \in DOMAIN b /\ args[p] = b[cols[p]]
    <2>1. PICK i \in DOMAIN Fields :
            \E k \in Sent(Fields[i], b) : cols[p] = names[i][k] /\ args[p] = b[Fields[i].keys[k]]
      BY <1>5 DEF OfSentKeys
    <2>2. PICK k \in Sent(Fields[i], b) : cols[p] = names[i][k] /\ args[p] = b[Fields[i].keys[k]]
      BY <2>1
    <2>3. cols[p] = Fields[i].keys[k]
      BY <1>2, <2>2
    <2>4. Fields[i].keys[k] \in DOMAIN b
      BY DEF Sent
    <2>5. QED BY <2>2, <2>3, <2>4
  <1>8. ASSUME NEW c \in DOMAIN b
        PROVE  \E p \in DOMAIN cols : cols[p] = c
    <2>1. PICK i \in DOMAIN Fields : c \in Range(Fields[i].keys)
      BY <1>1 DEF Keys, KeysOf
    <2>2. PICK k \in DOMAIN Fields[i].keys : Fields[i].keys[k] = c
      BY <2>1 DEF Range
    <2>3. k \in Sent(Fields[i], b)
      BY <2>2 DEF Sent
    <2>4. PICK p \in 1 .. Len(cols) : cols[p] = names[i][k]
      BY <1>5, <2>3 DEF AllSentKeys
    <2>5. cols[p] = c
      BY <1>2, <2>2, <2>4
    <2>6. QED BY <1>6, <2>5
  <1>9. Range(cols) = DOMAIN b
    BY <1>6, <1>7, <1>8 DEF Range
  <1>10. ASSUME NEW c \in DOMAIN b
         PROVE  args[CHOOSE p \in DOMAIN cols : cols[p] = c] = b[c]
    <2> DEFINE p == CHOOSE q \in DOMAIN cols : cols[q] = c
    <2>1. p \in DOMAIN cols /\ cols[p] = c
      BY <1>8, Zenon
    <2> HIDE DEF p
    <2>2. args[p] = b[c]
      BY <1>6, <1>7, <2>1
    <2>3. QED BY <2>2 DEF p
  <1>11. Assigned(cols, args) = [c \in DOMAIN b |-> b[c]]
    <2>1. Assigned(cols, args) = [c \in DOMAIN b |-> args[CHOOSE p \in DOMAIN cols : cols[p] = c]]
      BY <1>9, Zenon DEF Assigned
    <2>2. QED BY <1>10, <2>1
  <1>12. QED BY <1>1, <1>11, Zenon DEF cols, args

\* What a request wrote is there for its query to find, unless another one
\* changed the row.
Shown ==
  \A r \in Requests \ disturbed :
    pc[r] = "Query" /\ r \in effective /\ id[r] \in Rows =>
      \A c \in DOMAIN body[r] \cap Columns : table[id[r]][c] = body[r][c]

DataInv == IInv /\ StoredAsSent /\ Shown /\ ReplyShowsWrite

\* A statement leaves the data of other requests' rows alone, and writes what
\* was sent.
LEMMA EffectOnData ==
  ASSUME IInv, NEW r \in Requests, Effect(r)
  PROVE  /\ \A q \in Requests \ {r} :
              pc[q] = "Query" /\ id[q] \in Rows' /\ q \notin disturbed' =>
                id[q] \in Rows /\ table'[id[q]] = table[id[q]]
         /\ op[r] = "POST" => \A i \in Rows' \ Rows, c \in DOMAIN body[r] \cap Columns :
                                table'[i][c] = body[r][c]
         /\ op[r] = "PATCH" /\ id[r] \in Rows' =>
              \A c \in DOMAIN body[r] \cap Columns : table'[id[r]][c] = body[r][c]
         /\ \A i \in Rows', c \in Columns :
              \/ table'[i][c] = Null \/ Sends(r, c, table'[i][c])
              \/ \E j \in Rows : table'[i][c] = table[j][c]
  <1> USE DEF IInv, TypeOK, Control, Changes, Rows
  <1>1. ASSUME op[r] # "DELETE", Accepted(r), NEW row, NEW c \in Columns
        PROVE  Written(r, row)[c] = IF c \in DOMAIN body[r] THEN body[r][c] ELSE row[c]
    <2>1. body[r] \in Bodies
      BY <1>1, EffectOnRows
    <2>2. Assigned(ColumnNames(Fields, body[r]), Args(Fields, body[r])) = body[r]
      BY <1>1, <2>1, ArgumentsMatchTheorem DEF ArgumentsMatch, Accepted
    <2>3. QED BY <2>2 DEF Written
  <1>2. ASSUME NEW i \in Ids, Inserts(r, i)
        PROVE  /\ \A j \in Rows : j # i => table'[j] = table[j]
               /\ Rows' = Rows \cup {i} /\ i \notin Rows
               /\ \A c \in Columns : table'[i][c] = IF c \in DOMAIN body[r] THEN body[r][c] ELSE Null
               /\ op[r] = "POST"
               /\ \A q \in Requests \ {r} : pc[q] = "Query" /\ id[q] = i => q \in disturbed'
    <2>1. table' = [j \in Rows \cup {i} |->
                      IF j = i THEN Written(r, [c \in Columns |-> Null]) ELSE table[j]]
      BY <1>2 DEF Inserts
    <2>2. \A c \in Columns : table'[i][c] = IF c \in DOMAIN body[r] THEN body[r][c] ELSE Null
      BY <1>1, <1>2, <2>1 DEF Inserts
    <2>3. QED BY <1>2, <2>1, <2>2 DEF Inserts
  <1>3. ASSUME Updates(r)
        PROVE  \E from \in Rows, to \in Rows' :
                 /\ \A j \in Rows' : j # to => j \in Rows /\ table'[j] = table[j]
                 /\ \A c \in Columns :
                      table'[to][c] = IF c \in DOMAIN body[r] THEN body[r][c] ELSE table[from][c]
                 /\ op[r] = "PATCH" /\ from = id[r] /\ (from \in Rows' => to = from)
                 /\ \A q \in Requests \ {r} : pc[q] = "Query" /\ id[q] = to => q \in disturbed'
    <2> DEFINE from == id[r]
               to == IF IdKey \in DOMAIN body[r] THEN body[r][IdKey] ELSE from
    <2>1. /\ table' = [j \in (Rows \ {from}) \cup {to} |->
                         IF j = to THEN Written(r, table[from]) ELSE table[j]]
          /\ op[r] = "PATCH" /\ Accepted(r) /\ from \in Rows
          /\ Changes(r, table', {from, to})
      BY <1>3 DEF Updates
    <2> HIDE DEF to
    <2>2. Rows' = (Rows \ {from}) \cup {to}
      BY <2>1
    <2>3. \A c \in Columns :
            table'[to][c] = IF c \in DOMAIN body[r] THEN body[r][c] ELSE table[from][c]
      BY <1>1, <2>1
    <2>4. /\ \A j \in Rows' : j # to => j \in Rows /\ table'[j] = table[j]
          /\ \A q \in Requests \ {r} : pc[q] = "Query" /\ id[q] = to => q \in disturbed'
      BY <2>1, <2>2
    <2>5. QED BY <2>1, <2>2, <2>3, <2>4
  <1>4. ASSUME Deletes(r)
        PROVE  op[r] = "DELETE" /\ \A j \in Rows' : j \in Rows /\ table'[j] = table[j]
    BY <1>4 DEF Deletes
  <1> HIDE DEF IInv, TypeOK, Control, Changes, Rows
  <1>5. CASE \E i \in Ids : Inserts(r, i)
    <2>1. PICK i \in Ids : Inserts(r, i)
      BY <1>5
    <2>2. QED BY <1>2, <2>1 DEF Sends
  <1>6. CASE Updates(r)
    <2>1. PICK from \in Rows, to \in Rows' :
                 /\ \A j \in Rows' : j # to => j \in Rows /\ table'[j] = table[j]
                 /\ \A c \in Columns :
                      table'[to][c] = IF c \in DOMAIN body[r] THEN body[r][c] ELSE table[from][c]
                 /\ op[r] = "PATCH" /\ from = id[r] /\ (from \in Rows' => to = from)
                 /\ \A q \in Requests \ {r} : pc[q] = "Query" /\ id[q] = to => q \in disturbed'
      BY <1>3, <1>6
    <2>2. QED BY <2>1 DEF Sends
  <1>7. CASE Deletes(r)
    BY <1>4, <1>7
  <1>8. QED BY <1>5, <1>6, <1>7 DEF Effect

\* A request that does not change the table does not change what is stored.
LEMMA StoredKept ==
  ASSUME IInv, StoredAsSent, NEW r \in Requests, ChangesNothing,
         r \in effective => body'[r] = body[r],
         \A q \in Requests \ {r} : body'[q] = body[q]
  PROVE  StoredAsSent'
  BY DEF IInv, TypeOK, ChangesNothing, StoredAsSent, Rows, Sends

\* A statement that takes effect stores what was sent with it.
LEMMA EffectStores ==
  ASSUME IInv, StoredAsSent, NEW r \in Requests, Effect(r), UNCHANGED request
  PROVE  StoredAsSent'
  <1>1. /\ effective' = effective \cup {r} /\ body' = body
        /\ \A i \in Rows', c \in Columns :
             \/ table'[i][c] = Null \/ Sends(r, c, table'[i][c])
             \/ \E j \in Rows : table'[i][c] = table[j][c]
    BY EffectOnRows, EffectOnData DEF request
  <1>2. \A q, c, v : Sends(q, c, v)' <=> Sends(q, c, v')
    BY <1>1 DEF Sends
  <1> SUFFICES ASSUME NEW i \in Rows', NEW c \in Columns
               PROVE  \/ table'[i][c] \in {InitialRows[j][c] : j \in DOMAIN InitialRows} \cup {Null}
                      \/ \E q \in effective' : Sends(q, c, table[i][c])'
    BY DEF StoredAsSent
  <1>3. CASE table'[i][c] = Null
    BY <1>3
  <1>4. CASE Sends(r, c, table'[i][c])
    BY <1>1, <1>4 DEF Sends
  <1>5. ASSUME NEW j \in Rows, table'[i][c] = table[j][c]
        PROVE  \/ table'[i][c] \in {InitialRows[k][c] : k \in DOMAIN InitialRows} \cup {Null}
               \/ \E q \in effective' : Sends(q, c, table[i][c])'
    BY <1>1, <1>5 DEF StoredAsSent, Sends
  <1>6. QED BY <1>1, <1>3, <1>4, <1>5

\* What the other requests wrote stays there for them, or they are disturbed.
LEMMA OthersShown ==
  ASSUME IInv, Shown, ReplyShowsWrite, NEW r \in Requests,
         disturbed \subseteq disturbed',
         effective' \in {effective, effective \cup {r}},
         \A q \in Requests \ {r} :
           /\ pc'[q] = pc[q] /\ op'[q] = op[q] /\ id'[q] = id[q] /\ body'[q] = body[q]
           /\ answer'[q] = answer[q]
           /\ pc[q] = "Query" /\ id[q] \in Rows' /\ q \notin disturbed' =>
                id[q] \in Rows /\ table'[id[q]] = table[id[q]],
         r \notin disturbed' /\ pc'[r] = "Query" /\ r \in effective' /\ id'[r] \in Rows' =>
           \A c \in DOMAIN body'[r] \cap Columns : table'[id'[r]][c] = body'[r][c],
         r \notin disturbed' /\ pc'[r] = "done" /\ op'[r] \in {"POST", "PATCH"}
           /\ answer'[r].code \in {"200", "201"} =>
           \A c \in DOMAIN body'[r] \cap Columns : answer'[r].row[c] = body'[r][c]
  PROVE  Shown' /\ ReplyShowsWrite'
  <1>1. Shown'
    BY DEF Shown
  <1>2. ReplyShowsWrite'
    BY DEF ReplyShowsWrite, Answered
  <1>3. QED BY <1>1, <1>2

\* Every step of a request keeps what is stored, and shown, as it was sent.
LEMMA DataStep ==
  ASSUME DataInv, [Next]_vars
  PROVE  StoredAsSent' /\ Shown' /\ ReplyShowsWrite'
<1> USE DEF DataInv
<1>1. ASSUME NEW r \in Requests, ExecLost(r) \/ ExecUpdate(r)
                                 \/ (Deletes(r) /\ Reply(r, "200", NoRow) /\ UNCHANGED <<request, id>>)
      PROVE  StoredAsSent' /\ Shown' /\ ReplyShowsWrite'
  <2>1. Effect(r) /\ UNCHANGED request /\ UNCHANGED id
    BY <1>1 DEF ExecLost, ExecUpdate, Effect
  <2>2. \A q \in Requests \ {r} : pc'[q] = pc[q] /\ answer'[q] = answer[q]
    BY <1>1 DEF ExecLost, ExecUpdate, Reply, Goto, IInv, TypeOK, Functions
  <2>3. \/ pc'[r] = "Query" /\ op[r] = "PATCH"
        \/ pc'[r] = "done" /\ (op[r] \notin {"POST", "PATCH"} \/ answer'[r].code = "500")
    BY <1>1 DEF ExecLost, ExecUpdate, Reply, Goto, IInv, TypeOK, Functions, Updates, Deletes
  <2>4. Shown' /\ ReplyShowsWrite'
    BY <2>1, <2>2, <2>3, EffectOnRows, EffectOnData, OthersShown DEF request
  <2>5. QED BY <2>1, <2>4, EffectStores
<1>2. ASSUME NEW r \in Requests, NEW i \in Ids, NEW reports \in BOOLEAN, ExecCreate(r, i, reports)
      PROVE  StoredAsSent' /\ Shown' /\ ReplyShowsWrite'
  <2>1. Effect(r) /\ UNCHANGED request /\ op[r] = "POST" /\ i \in Rows' \ Rows
    BY <1>2 DEF ExecCreate, Effect, Inserts, Changes, Rows
  <2>2. \A q \in Requests \ {r} : pc'[q] = pc[q] /\ answer'[q] = answer[q] /\ id'[q] = id[q]
    BY <1>2 DEF ExecCreate, Reply, Goto, IInv, TypeOK, Functions
  <2>3. (pc'[r] = "Query" /\ id'[r] = i) \/ (pc'[r] = "done" /\ answer'[r].code = "204")
    BY <1>2 DEF ExecCreate, Reply, Goto, IInv, TypeOK, Functions
  <2>4. Shown' /\ ReplyShowsWrite'
    BY <2>1, <2>2, <2>3, EffectOnRows, EffectOnData, OthersShown DEF request
  <2>5. QED BY <2>1, <2>4, EffectStores
<1>3. ASSUME NEW r \in Requests, Query(r)
      PROVE  StoredAsSent' /\ Shown' /\ ReplyShowsWrite'
  <2>1. /\ UNCHANGED <<request, id>> /\ ChangesNothing /\ Rows' = Rows
        /\ pc'[r] = "done" /\ pc[r] = "Query"
        /\ \A q \in Requests \ {r} : pc'[q] = pc[q] /\ answer'[q] = answer[q]
        /\ answer'[r].code \in {"200", "201"} => id[r] \in Rows /\ answer'[r].row = table[id[r]]
    BY <1>3 DEF Query, Reply, IInv, TypeOK, Functions, ChangesNothing, Rows
  <2>2. op[r] \in {"POST", "PATCH"} /\ r \notin disturbed /\ id[r] \in Rows =>
          \A c \in DOMAIN body[r] \cap Columns : table[id[r]][c] = body[r][c]
    BY <2>1 DEF IInv, Foreseen, Shown
  <2>3. Shown' /\ ReplyShowsWrite'
    BY <2>1, <2>2, OthersShown DEF request, ChangesNothing
  <2>4. QED BY <2>1, <2>3, StoredKept DEF request
<1>4. ASSUME NEW r \in Requests, ChangesNothing,
             r \in effective => body'[r] = body[r],
             \A q \in Requests \ {r} :
               pc'[q] = pc[q] /\ op'[q] = op[q] /\ id'[q] = id[q] /\ body'[q] = body[q]
               /\ answer'[q] = answer[q],
             pc'[r] = "Query" => r \notin effective,
             pc'[r] = "done" => answer'[r].code \notin {"200", "201"} \/ op'[r] = "DELETE"
      PROVE  StoredAsSent' /\ Shown' /\ ReplyShowsWrite'
  <2>1. Rows' = Rows
    BY <1>4 DEF ChangesNothing, Rows
  <2>2. Shown' /\ ReplyShowsWrite'
    BY <1>4, <2>1, OthersShown DEF ChangesNothing
  <2>3. QED BY <1>4, <2>2, StoredKept
<1>5. ASSUME NEW r \in Requests, NEW o, NEW i,
             Receive(r, o, i) \/ ReceiveUnreadable(r, o, i)
               \/ (\E b \in Bodies : ReceiveData(r, o, i, b))
      PROVE  StoredAsSent' /\ Shown' /\ ReplyShowsWrite'
  <2>1. /\ ChangesNothing /\ r \notin effective
        /\ pc'[r] \in {"Query", "Exec"} \/ (pc'[r] = "done" /\ answer'[r].code = "400")
        /\ \A q \in Requests \ {r} :
             pc'[q] = pc[q] /\ op'[q] = op[q] /\ id'[q] = id[q] /\ body'[q] = body[q]
             /\ answer'[q] = answer[q]
    BY <1>5 DEF Receive, ReceiveUnreadable, ReceiveData, Reply, Goto, IInv, TypeOK, Functions, Control
  <2>2. QED BY <1>4, <2>1
<1>6. ASSUME NEW r \in Requests, NEW returning \in BOOLEAN,
             ExecFails(r) \/ QueryFails(r) \/ ExecUpdateNone(r, returning)
      PROVE  StoredAsSent' /\ Shown' /\ ReplyShowsWrite'
  <2>1. /\ ChangesNothing /\ UNCHANGED <<request, id>>
        /\ \/ pc'[r] = "Query" /\ r \notin effective
           \/ pc'[r] = "done" /\ answer'[r].code \in {"404", "500"}
        /\ \A q \in Requests \ {r} : pc'[q] = pc[q] /\ answer'[q] = answer[q]
    BY <1>6 DEF ExecFails, QueryFails, ExecUpdateNone, Reply, Goto, IInv, TypeOK, Functions, Control
  <2>2. QED BY <1>4, <2>1 DEF request
<1>7. ASSUME NEW r \in Requests, ExecDelete(r)
      PROVE  StoredAsSent' /\ Shown' /\ ReplyShowsWrite'
  <2>1. CASE Deletes(r) /\ Reply(r, "200", NoRow)
    BY <1>1, <1>7, <2>1 DEF ExecDelete
  <2>2. CASE /\ pc[r] = "Exec" /\ op[r] = "DELETE" /\ id[r] \notin Rows
             /\ ChangesNothing /\ Reply(r, "404", NoRow)
    <3>1. /\ UNCHANGED <<request, id>> /\ pc'[r] = "done" /\ answer'[r].code = "404"
          /\ \A q \in Requests \ {r} : pc'[q] = pc[q] /\ answer'[q] = answer[q]
      BY <1>7, <2>2 DEF ExecDelete, Reply, IInv, TypeOK, Functions
    <3>2. QED BY <1>4, <2>2, <3>1 DEF request
  <2>3. QED BY <1>7, <2>1, <2>2 DEF ExecDelete
<1>8. CASE UNCHANGED vars
  <2>1. Rows' = Rows
    BY <1>8 DEF vars, Rows
  <2>2. QED BY <1>8, <2>1 DEF vars, StoredAsSent, Sends, Shown, ReplyShowsWrite, Answered
<1>9. QED
  BY <1>1, <1>2, <1>3, <1>5, <1>6, <1>7, <1>8 DEF Next, Handler

\* The data of every behaviour.
LEMMA DataHolds == Spec => []DataInv
  <1>1. Init => DataInv
    <2> SUFFICES ASSUME Init PROVE DataInv
      OBVIOUS
    <2>1. StoredAsSent /\ Shown /\ ReplyShowsWrite
      BY DEF Init, StoredAsSent, Shown, ReplyShowsWrite, Answered, Rows
    <2>2. QED BY <2>1, InitHolds DEF DataInv
  <1>2. DataInv /\ [Next]_vars => DataInv'
    BY StepHolds, DataStep DEF DataInv
  <1>3. QED BY <1>1, <1>2, PTL DEF Spec

\* For any fields and any number of requests, the table holds nothing but what
\* was sent for it (CreateSingle, UpdateSingle).
THEOREM StoredAsSentTheorem == Spec => []StoredAsSent
  <1>1. DataInv => StoredAsSent
    BY DEF DataInv
  <1>2. QED BY <1>1, DataHolds, PTL

\* A POST or PATCH that no other request comes between is answered with what it
\* wrote (GetSingle, called by the other handlers).
THEOREM ReplyShowsWriteTheorem == Spec => []ReplyShowsWrite
  <1>1. DataInv => ReplyShowsWrite
    BY DEF DataInv
  <1>2. QED BY <1>1, DataHolds, PTL

-----------------------------------------------------------------------------
(***************************************************************************)
(* The handlers keep the contract of TableContract.                        *)
(***************************************************************************)

\* Nothing was said yet to who is not answered, nothing is known yet of who
\* did not ask, and a POST that is read back has created its row.
Untold ==
  \A r \in Requests :
    /\ pc[r] # "done" => answer[r] = [code |-> "none", row |-> NoRow]
    /\ pc[r] = "idle" => op[r] = "none" /\ body[r] = NoRow
    /\ pc[r] = "Query" /\ op[r] = "POST" => r \in effective

\* Every step of a handler keeps the history of the request before its answer.
LEMMA UntoldStep ==
  ASSUME IInv, Untold, [Next]_vars
  PROVE  Untold'
<1> USE DEF IInv, TypeOK, Functions, Untold, request
<1>1. ASSUME NEW r \in Requests, Handler(r)
      PROVE  Untold'
  <2>1. \A q \in Requests \ {r} :
          /\ pc'[q] = pc[q] /\ op'[q] = op[q] /\ body'[q] = body[q] /\ answer'[q] = answer[q]
          /\ q \in effective => q \in effective'
    <3>1. \A q \in Requests \ {r} :
            pc'[q] = pc[q] /\ op'[q] = op[q] /\ body'[q] = body[q] /\ answer'[q] = answer[q]
      BY <1>1 DEF Handler, Receive, ReceiveUnreadable, ReceiveData, ExecFails, ExecLost, ExecCreate,
                  ExecUpdate, ExecUpdateNone, ExecDelete, QueryFails, Query, Reply, Goto
    <3>2. effective \subseteq effective'
      BY <1>1 DEF Handler, Receive, ReceiveUnreadable, ReceiveData, ExecFails, ExecLost, ExecCreate,
                  ExecUpdate, ExecUpdateNone, ExecDelete, QueryFails, Query, Inserts, Updates, Deletes,
                  Changes, ChangesNothing
    <3>3. QED BY <3>1, <3>2
  <2>2. CASE \E o, i : \/ Receive(r, o, i) \/ ReceiveUnreadable(r, o, i)
                     \/ \E b \in Bodies : ReceiveData(r, o, i, b)
    <3>1. /\ pc'[r] # "idle" /\ (pc'[r] = "Query" => op'[r] # "POST")
          /\ pc'[r] # "done" => pc[r] # "done" /\ answer'[r] = answer[r]
      <4>1. ASSUME NEW o, NEW i, Receive(r, o, i)
            PROVE  /\ pc'[r] # "idle" /\ (pc'[r] = "Query" => op'[r] # "POST")
                   /\ pc'[r] # "done" => pc[r] # "done" /\ answer'[r] = answer[r]
        BY <4>1 DEF Receive, Goto
      <4>2. ASSUME NEW o, NEW i, \/ ReceiveUnreadable(r, o, i)
                                \/ \E b \in Bodies : ReceiveData(r, o, i, b)
            PROVE  /\ pc'[r] # "idle" /\ pc'[r] # "Query"
                   /\ pc'[r] # "done" => pc[r] # "done" /\ answer'[r] = answer[r]
        BY <4>2 DEF ReceiveUnreadable, ReceiveData, Goto, Reply
      <4>3. QED BY <2>2, <4>1, <4>2
    <3>2. QED BY <2>1, <3>1
  <2>3. CASE \/ ExecLost(r) \/ ExecUpdate(r) \/ ExecDelete(r)
             \/ \E i \in Ids, reports \in BOOLEAN : ExecCreate(r, i, reports)
    <3>1. /\ pc'[r] # "idle" /\ op'[r] = op[r]
          /\ pc'[r] # "done" => pc[r] # "done" /\ answer'[r] = answer[r]
      BY <2>3 DEF ExecLost, ExecCreate, ExecUpdate, ExecDelete, Inserts, Updates, Reply, Goto
    <3>2. pc'[r] = "Query" => op[r] = "PATCH" \/ r \in effective'
      BY <2>3 DEF ExecLost, ExecCreate, ExecUpdate, ExecDelete, Inserts, Updates, Changes, Reply
    <3>3. QED BY <2>1, <3>1, <3>2
  <2>4. CASE \/ ExecFails(r) \/ QueryFails(r) \/ Query(r)
             \/ \E returning \in BOOLEAN : ExecUpdateNone(r, returning)
    <3>1. /\ pc'[r] # "idle" /\ op'[r] = op[r] /\ (pc'[r] = "Query" => op[r] = "PATCH")
          /\ pc'[r] # "done" => pc[r] # "done" /\ answer'[r] = answer[r]
      BY <2>4 DEF ExecFails, QueryFails, Query, ExecUpdateNone, Reply, Goto
    <3>2. QED BY <2>1, <3>1
  <2>5. QED BY <1>1, <2>2, <2>3, <2>4 DEF Handler
<1>2. CASE UNCHANGED vars
  BY <1>2 DEF vars
<1>3. QED BY <1>1, <1>2 DEF Next

\* A statement that takes effect writes the data that was sent.
LEMMA WrittenIsSent ==
  ASSUME IInv, NEW r \in Requests, pc[r] = "Exec", op[r] # "DELETE", Accepted(r), NEW row
  PROVE  Written(r, row) = Contract!With(row, body[r])
  <1>1. body[r] \in Bodies
    BY DEF IInv, Control
  <1>2. Assigned(ColumnNames(Fields, body[r]), Args(Fields, body[r])) = body[r]
    BY <1>1, ArgumentsMatchTheorem DEF ArgumentsMatch, Accepted
  <1>3. QED BY <1>2 DEF Written, Contract!With

\* A handler answers who was not answered yet.
LEMMA TellsOnce ==
  ASSUME Untold, NEW r \in Requests, pc[r] # "done", NEW code, NEW row, Reply(r, code, row)
  PROVE  Contract!Tell(r, code, row)
  BY DEF Untold, Reply, Contract!Tell, Contract!NotTold, Contract!NoData, NoRow

\* The effects of the statements are those of the contract.
LEMMA EffectIsWrite ==
  ASSUME IInv, NEW r \in Requests
  PROVE  /\ \A i \in Ids : Inserts(r, i) =>
              /\ op[r] = "POST" /\ i \notin DOMAIN table
              /\ IdKey \in DOMAIN body[r] => i = body[r][IdKey]
              /\ table' = [j \in DOMAIN table \cup {i} |->
                             IF j = i THEN Contract!With([c \in Columns |-> Null], body[r])
                             ELSE table[j]]
         /\ Updates(r) =>
              LET from == id[r]
                  to == IF IdKey \in DOMAIN body[r] THEN body[r][IdKey] ELSE from
              IN /\ op[r] = "PATCH" /\ from \in DOMAIN table
                 /\ to \notin DOMAIN table \ {from}
                 /\ table' = [j \in (DOMAIN table \ {from}) \cup {to} |->
                                IF j = to THEN Contract!With(table[from], body[r]) ELSE table[j]]
  <1>1. ASSUME NEW i \in Ids, Inserts(r, i)
        PROVE  table' = [j \in Rows \cup {i} |->
                           IF j = i THEN Contract!With([c \in Columns |-> Null], body[r])
                           ELSE table[j]]
    <2>1. Written(r, [c \in Columns |-> Null]) = Contract!With([c \in Columns |-> Null], body[r])
      BY <1>1, WrittenIsSent DEF Inserts
    <2>2. QED BY <1>1, <2>1, Zenon DEF Inserts, Changes
  <1>2. ASSUME Updates(r)
        PROVE  LET from == id[r]
                   to == IF IdKey \in DOMAIN body[r] THEN body[r][IdKey] ELSE from
               IN /\ op[r] = "PATCH" /\ from \in Rows
                  /\ to \notin Rows \ {from}
                  /\ table' = [j \in (Rows \ {from}) \cup {to} |->
                                 IF j = to THEN Contract!With(table[from], body[r]) ELSE table[j]]
    <2>1. Written(r, table[id[r]]) = Contract!With(table[id[r]], body[r])
      BY <1>2, WrittenIsSent DEF Updates
    <2>2. QED BY <1>2, <2>1, Zenon DEF Updates, Changes
  <1>3. QED BY <1>1, <1>2, Zenon DEF Rows, Inserts

\* Every step of the handlers is one the contract allows, or none of its
\* business.
LEMMA ContractStep ==
  ASSUME IInv, Untold, [Next]_vars
  PROVE  [Contract!CNext]_(Contract!cvars)
<1> USE DEF request
<1>1. ASSUME NEW r \in Requests, NEW o \in {"GET", "DELETE"}, NEW i \in Ids, Receive(r, o, i)
      PROVE  Contract!CAsk(r, o, i, NoRow)
  <2>1. body = [body EXCEPT ![r] = NoRow]
    BY <1>1 DEF Receive, Untold, IInv, Functions
  <2>2. QED BY <1>1, <2>1 DEF Receive, Goto, ChangesNothing, Untold, Contract!CAsk,
              Contract!NotTold, Contract!NoData, NoRow
<1>2. ASSUME NEW r \in Requests, NEW o \in {"POST", "PATCH"}, NEW i, ReceiveUnreadable(r, o, i)
      PROVE  Contract!CAsk(r, o, i, NoRow)
  <2>1. body = [body EXCEPT ![r] = NoRow]
    BY <1>2 DEF ReceiveUnreadable, Untold, IInv, Functions
  <2>2. Contract!Tell(r, "400", NoRow)
    BY <1>2, TellsOnce DEF ReceiveUnreadable
  <2>3. QED BY <1>2, <2>1, <2>2 DEF ReceiveUnreadable, ChangesNothing, Untold, Contract!CAsk,
              Contract!NotTold, Contract!NoData, NoRow
<1>3. ASSUME NEW r \in Requests, NEW o \in {"POST", "PATCH"}, NEW i, NEW b \in Bodies,
             ReceiveData(r, o, i, b)
      PROVE  Contract!CAsk(r, o, i, b)
  <2>1. UNCHANGED answer \/ Contract!Tell(r, "400", NoRow)
    BY <1>3, TellsOnce DEF ReceiveData, Goto
  <2>2. QED BY <1>3, <2>1 DEF ReceiveData, ChangesNothing, Untold, Contract!CAsk,
              Contract!NotTold, Contract!NoData, NoRow
<1>4. ASSUME NEW r \in Requests, ExecFails(r) \/ QueryFails(r)
      PROVE  Contract!CFails(r)
  <2>1. op[r] # "none" /\ Contract!Tell(r, "500", NoRow)
    BY <1>4, TellsOnce DEF ExecFails, QueryFails, IInv, Control
  <2>2. QED BY <1>4, <2>1 DEF ExecFails, QueryFails, ChangesNothing, Contract!CFails,
              Contract!NoData, NoRow
<1>5. ASSUME NEW r \in Requests, Effect(r)
      PROVE  /\ r \notin effective /\ effective' = effective \cup {r}
             /\ pc[r] = "Exec" /\ answer[r] = Contract!NotTold
  BY <1>5, EffectOnRows DEF Untold, Contract!NotTold, Contract!NoData, NoRow
<1>6. ASSUME NEW r \in Requests, ExecLost(r)
      PROVE  Contract!CWrite(r)
  <2>1. Effect(r) /\ UNCHANGED <<request, id>> /\ Reply(r, "500", NoRow)
    BY <1>6 DEF ExecLost, Effect
  <2>2. Contract!Tell(r, "500", NoRow)
    BY <1>5, <2>1, TellsOnce
  <2>3. (\E i \in Ids : Contract!CPost(r, i)) \/ Contract!CPatch(r) \/ Contract!CDelete(r)
    <3>1. ASSUME NEW i \in Ids, Inserts(r, i) PROVE Contract!CPost(r, i)
      BY <2>1, <2>2, <3>1, EffectIsWrite, Zenon DEF Contract!CPost, Contract!NoData, NoRow
    <3>2. ASSUME Updates(r) PROVE Contract!CPatch(r)
      BY <2>1, <2>2, <3>2, EffectIsWrite, Zenon DEF Contract!CPatch, Contract!NoData, NoRow
    <3>3. ASSUME Deletes(r) PROVE Contract!CDelete(r)
      BY <2>1, <2>2, <3>3, Zenon DEF Deletes, Changes, Rows, Contract!CDelete, Contract!NoData, NoRow
    <3>4. QED BY <2>1, <3>1, <3>2, <3>3 DEF Effect
  <2>4. QED BY <1>5, <2>1, <2>3 DEF Contract!CWrite
<1>7. ASSUME NEW r \in Requests, NEW i \in Ids, NEW reports \in BOOLEAN, ExecCreate(r, i, reports)
      PROVE  Contract!CWrite(r)
  <2>1. Effect(r) /\ Inserts(r, i) /\ UNCHANGED request
    BY <1>7 DEF ExecCreate, Effect
  <2>2. \/ id' = [id EXCEPT ![r] = i] /\ UNCHANGED answer
        \/ UNCHANGED id /\ Contract!Tell(r, "204", NoRow)
    BY <1>5, <1>7, <2>1, TellsOnce DEF ExecCreate, Goto
  <2>3. Contract!CPost(r, i)
    BY <2>1, <2>2, EffectIsWrite, Zenon DEF Contract!CPost, Contract!NoData, NoRow
  <2>4. QED BY <1>5, <2>1, <2>3 DEF Contract!CWrite
<1>8. ASSUME NEW r \in Requests, ExecUpdate(r)
      PROVE  Contract!CWrite(r)
  <2>1. Effect(r) /\ Updates(r) /\ UNCHANGED <<request, id, answer>>
    BY <1>8 DEF ExecUpdate, Effect, Goto
  <2>2. Contract!CPatch(r)
    BY <2>1, EffectIsWrite, Zenon DEF Contract!CPatch
  <2>3. QED BY <1>5, <2>1, <2>2 DEF Contract!CWrite
<1>9. ASSUME NEW r \in Requests, NEW returning \in BOOLEAN, ExecUpdateNone(r, returning)
      PROVE  Contract!CMissing(r) \/ UNCHANGED Contract!cvars
  <2>1. CASE returning
    <3>1. Contract!Tell(r, "404", NoRow)
      BY <1>9, <2>1, TellsOnce DEF ExecUpdateNone
    <3>2. QED BY <1>9, <2>1, <3>1 DEF ExecUpdateNone, ChangesNothing, Rows, Contract!CMissing,
                Contract!NoData, NoRow
  <2>2. CASE ~returning
    BY <1>9, <2>2 DEF ExecUpdateNone, ChangesNothing, Goto, Contract!cvars
  <2>3. QED BY <2>1, <2>2
<1>10. ASSUME NEW r \in Requests, ExecDelete(r)
       PROVE  Contract!CWrite(r) \/ Contract!CMissing(r)
  <2>1. CASE Deletes(r) /\ Reply(r, "200", NoRow)
    <3>1. Effect(r) /\ UNCHANGED <<request, id>>
      BY <1>10, <2>1 DEF ExecDelete, Effect
    <3>2. Contract!Tell(r, "200", NoRow)
      BY <1>5, <2>1, <3>1, TellsOnce
    <3>3. Contract!CDelete(r)
      BY <2>1, <3>1, <3>2, Zenon DEF Deletes, Changes, Rows, Contract!CDelete, Contract!NoData, NoRow
    <3>4. QED BY <1>5, <3>1, <3>3 DEF Contract!CWrite
  <2>2. CASE /\ pc[r] = "Exec" /\ op[r] = "DELETE" /\ id[r] \notin Rows
             /\ ChangesNothing /\ Reply(r, "404", NoRow)
    <3>1. Contract!Tell(r, "404", NoRow) /\ r \notin effective
      BY <2>2, TellsOnce DEF IInv, Control
    <3>2. QED BY <1>10, <2>2, <3>1 DEF ExecDelete, ChangesNothing, Rows, Contract!CMissing,
                Contract!NoData, NoRow
  <2>3. QED BY <1>10, <2>1, <2>2 DEF ExecDelete
<1>11. ASSUME NEW r \in Requests, Query(r)
       PROVE  Contract!CShow(r) \/ Contract!CMissing(r)
  <2>1. op[r] \in {"GET", "POST", "PATCH"} /\ (op[r] = "POST" => r \in effective)
    BY <1>11 DEF Query, IInv, Control, Untold
  <2>2. CASE id[r] \in Rows
    <3>1. Contract!Tell(r, IF op[r] = "POST" THEN "201" ELSE "200", table[id[r]])
      BY <1>11, <2>2, TellsOnce DEF Query
    <3>2. QED BY <1>11, <2>1, <2>2, <3>1 DEF Query, ChangesNothing, Rows, Contract!CShow
  <2>3. CASE id[r] \notin Rows
    <3>1. Contract!Tell(r, "404", NoRow)
      BY <1>11, <2>3, TellsOnce DEF Query
    <3>2. QED BY <1>11, <2>1, <2>3, <3>1 DEF Query, ChangesNothing, Rows, Contract!CMissing,
                Contract!NoData, NoRow
  <2>4. QED BY <2>2, <2>3
<1>12. CASE UNCHANGED vars
  BY <1>12 DEF vars, Contract!cvars
<1>13. ASSUME NEW r \in Requests, Handler(r)
       PROVE  [Contract!CNext]_(Contract!cvars)
  <2>1. ASSUME NEW o \in {"GET", "DELETE"}, NEW i \in Ids, Receive(r, o, i)
        PROVE  Contract!CNext
    BY <1>1, <2>1 DEF Contract!CNext, Contract!NoData, NoRow
  <2>2. ASSUME ReceiveUnreadable(r, "POST", Null) \/ \E i \in Ids : ReceiveUnreadable(r, "PATCH", i)
        PROVE  Contract!CNext
    BY <1>2, <2>2 DEF Contract!CNext, Contract!NoData, NoRow
  <2>3. ASSUME NEW b \in Bodies,
               ReceiveData(r, "POST", Null, b) \/ \E i \in Ids : ReceiveData(r, "PATCH", i, b)
        PROVE  Contract!CNext
    BY <1>3, <2>3 DEF Contract!CNext
  <2>4. ASSUME Contract!CWrite(r) \/ Contract!CShow(r) \/ Contract!CMissing(r) \/ Contract!CFails(r)
        PROVE  Contract!CNext
    BY <2>4 DEF Contract!CNext
  <2>5. QED BY <1>4, <1>6, <1>7, <1>8, <1>9, <1>10, <1>11, <1>13, <2>1, <2>2, <2>3, <2>4 DEF Handler
<1>14. QED BY <1>12, <1>13 DEF Next

\* For any fields, bodies and number of concurrent requests, the handlers change
\* the table, and answer, as TableContract says (CreateSingle, GetSingle,
\* UpdateSingle, DeleteSingle).
THEOREM ContractTheorem == Spec => KeepsContract
  <1>1. Init => Untold /\ Contract!CInit
    BY ResourcesAssumption DEF Init, Untold, Contract!CInit, Contract!NotTold, Contract!NoData, NoRow
  <1>2. IInv /\ Untold /\ [Next]_vars => Untold' /\ [Contract!CNext]_(Contract!cvars)
    BY UntoldStep, ContractStep
  <1>3. Spec => []IInv
    BY InvariantHolds
  <1>4. QED BY <1>1, <1>2, <1>3, PTL DEF Spec, KeepsContract, Contract!CSpec
=============================================================================
