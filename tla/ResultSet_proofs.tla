-------------------------- MODULE ResultSet_proofs --------------------------
(***************************************************************************)
(* Proofs about ResultSet, for any number of rows, related rows and        *)
(* relationships.                                                          *)
(***************************************************************************)
EXTENDS ResultSet, SequenceTheorems, FiniteSetTheorems, TLAPS

Kinds == {"oneToMany", "manyToOne"}

(***************************************************************************)
(* The inductive invariant, in named parts.                                *)
(***************************************************************************)

\* What the database holds and what is asked of it, which no step changes.
Given ==
  /\ kinds \in Seq(Kinds)
  /\ links \in [Mains -> [Fields -> SUBSET Related]]
  /\ \A m \in Mains, f \in Fields :
       kinds[f] = "manyToOne" => links[m][f] = {} \/ \E x \in Related : links[m][f] = {x}
  /\ wanted \in Seq(Mains)
  /\ route = "GetSingle" => Len(wanted) <= 1

\* The rows are rows of the join of the rows that are wanted, and those of the
\* main rows before the one that is being read are all there.
RowsExact ==
  /\ rows \in Seq(UNION {JoinOf(m) : m \in Mains})
  /\ \A i \in DOMAIN rows : \E k \in DOMAIN wanted : rows[i] \in JoinOf(wanted[k])
  /\ \A k \in 1 .. reading - 1 : JoinOf(wanted[k]) \subseteq Range(rows)
  /\ pc \in {"dedupe", "format"} => reading = Len(wanted) + 1

\* A set that stands for the rows up to the i-th: it has their related rows,
\* and the all-NULL row at most if one that has none follows one that has one.
StandsFor(set, i, f) ==
  /\ set \in Seq(Related \cup {Null}) /\ IsInjective(set)
  /\ Range(set) \ {Null} = {rows[j].rel[f] : j \in 1 .. i} \ {Null}
  /\ Null \in Range(set) => \E k \in 1 .. i : \E j \in 1 .. k - 1 :
                              rows[k].rel[f] = Null /\ rows[j].rel[f] # Null

\* The two loops of deduplicateSingleResource.
LoopExact ==
  /\ pc = "query" => field = 1 /\ row = 1 /\ fieldResultSet = <<>> /\ containsResults = FALSE
                     /\ attached = <<>>
  /\ pc = "dedupe" =>
       /\ StandsFor(fieldResultSet, row - 1, field)
       /\ containsResults <=> \E j \in 1 .. row - 1 : rows[j].rel[field] # Null

AttachedTo(i, f) ==
  pc = "format" \/ f < field \/ (f = field /\ i < row)
AttachedExact ==
  pc \in {"dedupe", "format"} =>
    /\ DOMAIN attached = DOMAIN rows
    /\ \A i \in DOMAIN rows : DOMAIN attached[i] = Fields
    /\ \A i \in DOMAIN rows, f \in Fields :
         IF AttachedTo(i, f) THEN StandsFor(attached[i][f], i, f) ELSE attached[i][f] = <<>>

\* The answer shows what is attached.
AnswerExact ==
  IF pc = "done" /\ answer.shape # "500"
  THEN /\ reading = Len(wanted) + 1
       /\ DOMAIN attached = DOMAIN rows
       /\ \A i \in DOMAIN rows, f \in Fields : StandsFor(attached[i][f], i, f)
       /\ answer.items = [i \in DOMAIN rows |->
            [main |-> rows[i].main, rel |-> [f \in Fields |-> Resolved(i, f)]]]
  ELSE answer.items = <<>> /\ (pc = "done" => attached = <<>>)

IInv == TypeOK /\ Given /\ RowsExact /\ LoopExact /\ AttachedExact /\ AnswerExact

-----------------------------------------------------------------------------
(***************************************************************************)
(* The join.                                                               *)
(***************************************************************************)

\* A row of the join has, for each field, a row it is related to, or Null if
\* there is none.
LEMMA JoinRow ==
  ASSUME NEW m, NEW x \in JoinOf(m)
  PROVE  /\ x.main = m /\ x.rel \in [Fields -> Related \cup {Null}]
         /\ \A f \in Fields : x.rel[f] \in OrNull(links[m][f])
  BY DEF JoinOf

\* There is a choice for every field.
LEMMA ChoiceExists ==
  ASSUME Given, NEW m \in Mains, NEW f \in Fields
  PROVE  OrNull(links[m][f]) # {} /\ OrNull(links[m][f]) \subseteq Related \cup {Null}
  <1>1. links[m][f] \subseteq Related
    BY DEF Given
  <1>2. QED BY <1>1 DEF OrNull

\* The join shows every related row.
LEMMA JoinShowsRelated ==
  ASSUME Given, NEW m \in Mains, NEW f \in Fields, NEW v \in links[m][f]
  PROVE  \E x \in JoinOf(m) : x.main = m /\ x.rel[f] = v
  <1> DEFINE y == [g \in Fields |-> IF g = f THEN v ELSE CHOOSE u : u \in OrNull(links[m][g])]
  <1>1. \A g \in Fields : OrNull(links[m][g]) # {} /\ OrNull(links[m][g]) \subseteq Related \cup {Null}
    BY ChoiceExists
  <1>2. \A g \in Fields : y[g] \in OrNull(links[m][g])
    <2>1. v \in OrNull(links[m][f])
      BY DEF OrNull
    <2>2. ASSUME NEW g \in Fields, g # f
          PROVE  (CHOOSE u : u \in OrNull(links[m][g])) \in OrNull(links[m][g])
      BY <1>1
    <2>3. QED BY <2>1, <2>2
  <1>3. y \in [Fields -> Related \cup {Null}] /\ y[f] = v
    BY <1>1, <1>2
  <1> HIDE DEF y
  <1>4. [main |-> m, rel |-> y] \in JoinOf(m)
    BY <1>2, <1>3 DEF JoinOf
  <1>5. QED BY <1>3, <1>4

\* No row of the table is left out of it.
LEMMA JoinNotEmpty ==
  ASSUME Given, NEW m \in Mains
  PROVE  JoinOf(m) # {}
  <1> DEFINE y == [g \in Fields |-> CHOOSE u : u \in OrNull(links[m][g])]
  <1>1. \A g \in Fields : OrNull(links[m][g]) # {} /\ OrNull(links[m][g]) \subseteq Related \cup {Null}
    BY ChoiceExists
  <1>2. \A g \in Fields : y[g] \in OrNull(links[m][g])
    BY <1>1
  <1>3. y \in [Fields -> Related \cup {Null}]
    BY <1>1, <1>2
  <1> HIDE DEF y
  <1>4. QED BY <1>2, <1>3 DEF JoinOf

-----------------------------------------------------------------------------
(***************************************************************************)
(* The sets of related rows.                                               *)
(***************************************************************************)

\* AppendNoDuplicates keeps a list without repetitions, and the item is in it.
LEMMA AppendNoDuplicatesFacts ==
  ASSUME NEW S, NEW list \in Seq(S), IsInjective(list), NEW item \in S
  PROVE  LET new == AppendNoDuplicates(list, item)
         IN new \in Seq(S) /\ IsInjective(new) /\ Range(new) = Range(list) \cup {item}
  <1>1. CASE \E i \in DOMAIN list : list[i] = item
    BY <1>1 DEF AppendNoDuplicates, Range
  <1>2. CASE ~\E i \in DOMAIN list : list[i] = item
    <2> DEFINE new == Append(list, item)
               n == Len(list)
    <2>1. AppendNoDuplicates(list, item) = new
      BY <1>2 DEF AppendNoDuplicates
    <2>2. /\ new \in Seq(S) /\ Len(new) = n + 1 /\ new[n + 1] = item
          /\ \A i \in 1 .. n : new[i] = list[i]
          /\ n \in Nat /\ DOMAIN list = 1 .. n
      BY AppendProperties, LenProperties
    <2>3. DOMAIN new = 1 .. n + 1
      BY <2>2, LenProperties
    <2> HIDE DEF new, n
    <2>4. \A i \in 1 .. n + 1 : i \in 1 .. n \/ i = n + 1
      BY <2>2
    <2>5. \A i \in 1 .. n : i \in 1 .. n + 1 /\ n + 1 \in 1 .. n + 1
      BY <2>2
    <2>6. n + 1 \in 1 .. n + 1
      BY <2>2
    <2>7. IsInjective(new)
      BY <1>2, <2>2, <2>3, <2>4 DEF IsInjective
    <2>8. Range(new) = Range(list) \cup {item}
      BY <2>2, <2>3, <2>4, <2>5, <2>6 DEF Range
    <2>9. QED BY <2>1, <2>2, <2>7, <2>8
  <1>3. QED BY <1>1, <1>2

\* The rows read so far, as a sequence of rows of the join.
LEMMA RowFacts ==
  ASSUME Given, RowsExact
  PROVE  /\ Len(rows) \in Nat /\ DOMAIN rows = 1 .. Len(rows)
         /\ \A i \in DOMAIN rows : \E k \in DOMAIN wanted :
              /\ rows[i] \in JoinOf(wanted[k]) /\ wanted[k] \in Mains /\ rows[i].main = wanted[k]
         /\ \A i \in DOMAIN rows :
              /\ rows[i].main \in Mains /\ rows[i].rel \in [Fields -> Related \cup {Null}]
              /\ \A f \in Fields : /\ rows[i].rel[f] \in OrNull(links[rows[i].main][f])
                                   /\ rows[i].rel[f] \in Related \cup {Null}
  <1>1. Len(rows) \in Nat /\ DOMAIN rows = 1 .. Len(rows)
    BY LenProperties DEF RowsExact
  <1>2. \A k \in DOMAIN wanted : wanted[k] \in Mains
    BY ElementOfSeq, LenProperties DEF Given
  <1>3. ASSUME NEW i \in DOMAIN rows
        PROVE  \E k \in DOMAIN wanted :
              /\ rows[i] \in JoinOf(wanted[k]) /\ wanted[k] \in Mains /\ rows[i].main = wanted[k]
    <2>1. PICK k \in DOMAIN wanted : rows[i] \in JoinOf(wanted[k])
      BY <1>3 DEF RowsExact
    <2>2. QED BY <1>2, <2>1, JoinRow
  <1>4. ASSUME NEW i \in DOMAIN rows
        PROVE  /\ rows[i].main \in Mains /\ rows[i].rel \in [Fields -> Related \cup {Null}]
               /\ \A f \in Fields : /\ rows[i].rel[f] \in OrNull(links[rows[i].main][f])
                                    /\ rows[i].rel[f] \in Related \cup {Null}
    <2>1. rows[i] \in JoinOf(rows[i].main) /\ rows[i].main \in Mains
      BY <1>3
    <2>2. QED BY <2>1, JoinRow
  <1>5. QED BY <1>1, <1>3, <1>4

\* One row of the inner loop: the set stands for that row too.
LEMMA DedupeRowSet ==
  ASSUME IInv, DedupeRow
  PROVE  /\ StandsFor(fieldResultSet', row, field)
         /\ containsResults' <=> \E j \in 1 .. row : rows[j].rel[field] # Null
         /\ containsResults' \in BOOLEAN
         /\ attached' = [attached EXCEPT ![row][field] = fieldResultSet']
  <1> DEFINE item == rows[row].rel[field]
             contains == containsResults \/ item # Null
             set == IF contains THEN AppendNoDuplicates(fieldResultSet, item) ELSE fieldResultSet
  <1>1. /\ pc = "dedupe" /\ row <= Len(rows)
        /\ fieldResultSet' = set /\ containsResults' = contains
        /\ attached' = [attached EXCEPT ![row][field] = set]
    BY DEF DedupeRow
  <1>2. field \in Fields /\ row \in 1 .. Len(rows) /\ row \in DOMAIN rows /\ Len(rows) \in Nat
    <2>1. Len(rows) \in Nat /\ DOMAIN rows = 1 .. Len(rows)
      BY RowFacts DEF IInv
    <2>2. field \in Fields /\ row \in 1 .. Len(rows) + 1
      BY <1>1 DEF IInv, TypeOK
    <2>3. QED BY <1>1, <2>1, <2>2
  <1>3. item \in Related \cup {Null}
    BY <1>2, RowFacts DEF IInv
  <1>4. /\ StandsFor(fieldResultSet, row - 1, field)
        /\ containsResults <=> \E j \in 1 .. row - 1 : rows[j].rel[field] # Null
    BY <1>1 DEF IInv, LoopExact
  <1>5. \A j : j \in 1 .. row <=> j \in 1 .. row - 1 \/ j = row
    BY <1>2
  <1>6. contains <=> \E j \in 1 .. row : rows[j].rel[field] # Null
    BY <1>4, <1>5
  <1>7. CASE contains
    <2>1. /\ set \in Seq(Related \cup {Null}) /\ IsInjective(set)
          /\ Range(set) = Range(fieldResultSet) \cup {item}
      <3>1. fieldResultSet \in Seq(Related \cup {Null}) /\ IsInjective(fieldResultSet)
        BY <1>4 DEF StandsFor
      <3>2. QED BY <1>3, <1>7, <3>1, AppendNoDuplicatesFacts
    <2> HIDE DEF set
    <2>2. Range(set) \ {Null} = {rows[j].rel[field] : j \in 1 .. row} \ {Null}
      <3>1. {rows[j].rel[field] : j \in 1 .. row}
              = {rows[j].rel[field] : j \in 1 .. row - 1} \cup {item}
        BY <1>5
      <3>2. QED BY <1>4, <2>1, <3>1 DEF StandsFor
    <2>3. ASSUME Null \in Range(set)
          PROVE  \E k \in 1 .. row : \E j \in 1 .. k - 1 :
                   rows[k].rel[field] = Null /\ rows[j].rel[field] # Null
      <3>1. CASE Null \in Range(fieldResultSet)
        BY <1>4, <1>5, <3>1 DEF StandsFor
      <3>2. CASE Null \notin Range(fieldResultSet)
        <4>1. item = Null
          BY <2>1, <2>3, <3>2
        <4>2. PICK j \in 1 .. row - 1 : rows[j].rel[field] # Null
          BY <1>4, <1>7, <4>1
        <4>3. row \in 1 .. row
          BY <1>2
        <4>4. QED BY <4>1, <4>2, <4>3
      <3>3. QED BY <3>1, <3>2
    <2>4. QED BY <1>1, <1>6, <1>7, <2>1, <2>2, <2>3 DEF StandsFor
  <1>8. CASE ~contains
    <2>1. set = fieldResultSet /\ item = Null
      BY <1>8
    <2>2. {rows[j].rel[field] : j \in 1 .. row} \ {Null}
            = {rows[j].rel[field] : j \in 1 .. row - 1} \ {Null}
      BY <1>5, <2>1
    <2>3. StandsFor(set, row, field)
      BY <1>4, <1>5, <2>1, <2>2 DEF StandsFor
    <2>4. QED BY <1>1, <1>6, <2>3
  <1>9. QED BY <1>7, <1>8

-----------------------------------------------------------------------------
(***************************************************************************)
(* The steps.                                                              *)
(***************************************************************************)

\* The WHERE clause selects rows of the table, of GetSingle one at most.
LEMMA InitHolds == Init => IInv
  <1> SUFFICES ASSUME Init PROVE IInv
    OBVIOUS
  <1>1. kinds \in Seq(Kinds)
    BY ResultSetAssumption DEF Init, Kinds
  <1>2. wanted \in Seq(Mains) /\ Len(wanted) \in Nat /\ (route = "GetSingle" => Len(wanted) <= 1)
    <2>1. CASE route = "GetSingle"
      <3>1. wanted = <<>> \/ \E m \in Mains : wanted = <<m>>
        BY <2>1 DEF Init, Selections
      <3>2. CASE wanted = <<>>
        BY <3>2, EmptySeq
      <3>3. CASE \E m \in Mains : wanted = <<m>>
        <4>1. PICK m \in Mains : wanted = <<m>>
          BY <3>3
        <4>2. <<m>> \in Seq(Mains) /\ Len(<<m>>) = 1
          OBVIOUS
        <4>3. QED BY <4>1, <4>2
      <3>4. QED BY <3>1, <3>2, <3>3
    <2>2. CASE route # "GetSingle"
      <3>1. PICK S \in SUBSET Mains : wanted \in SetToSeqs(S)
        BY <2>2 DEF Init, Selections
      <3>2. Cardinality(S) \in Nat
        BY ResultSetAssumption, FS_Subset, FS_CardinalityType
      <3>3. wanted \in [1 .. Cardinality(S) -> Mains]
        BY <3>1 DEF SetToSeqs
      <3>4. wanted \in Seq(Mains)
        BY <3>2, <3>3, SeqDef
      <3>5. QED BY <2>2, <3>4, LenProperties
    <2>3. QED BY <2>1, <2>2
  <1>3. /\ links \in [Mains -> [Fields -> SUBSET Related]]
        /\ \A m \in Mains, f \in Fields :
             kinds[f] = "manyToOne" => links[m][f] = {} \/ \E x \in Related : links[m][f] = {x}
    BY DEF Init, RelatedSets
  <1>4. Len(kinds) \in Nat
    BY <1>1, LenProperties
  <1>5. TypeOK
    <2>1. /\ pc = "query" /\ reading = 1 /\ field = 1 /\ row = 1 /\ rows = <<>> /\ fieldResultSet = <<>>
          /\ containsResults = FALSE /\ answer.shape = "none"
      BY DEF Init
    <2>2. Len(rows) = 0 /\ DOMAIN rows = {} /\ <<>> \in Seq(Related \cup {Null})
      BY <2>1, EmptySeq
    <2>3. 1 \in 1 .. Len(wanted) + 1 /\ 1 \in 1 .. Len(kinds) + 1 /\ 1 \in 1 .. 0 + 1
      BY <1>2, <1>4
    <2>4. QED BY <2>1, <2>2, <2>3 DEF TypeOK
  <1>6. RowsExact /\ LoopExact /\ AttachedExact /\ AnswerExact
    BY EmptySeq DEF Init, RowsExact, LoopExact, AttachedExact, AnswerExact
  <1>7. QED BY <1>1, <1>2, <1>3, <1>5, <1>6 DEF IInv, Given

LEMMA NextResultHolds ==
  ASSUME IInv, NextResult
  PROVE  IInv'
  <1> DEFINE J == UNION {JoinOf(m) : m \in Mains}
             n == Len(rows)
  <1>1. PICK x \in JoinOf(wanted[reading]) \ Range(rows) :
          /\ rows' = Append(rows, x)
          /\ reading' = IF JoinOf(wanted[reading]) \subseteq Range(rows) \cup {x}
                        THEN reading + 1 ELSE reading
    BY DEF NextResult
  <1>2. /\ pc = "query" /\ reading <= Len(wanted)
        /\ UNCHANGED <<kinds, links, wanted, route, pc, field, row, fieldResultSet, containsResults,
                       attached, answer>>
    BY DEF NextResult, input, loop
  <1>3. /\ Len(wanted) \in Nat /\ DOMAIN wanted = 1 .. Len(wanted)
        /\ reading \in DOMAIN wanted /\ wanted[reading] \in Mains /\ reading \in Nat
    <2>1. Len(wanted) \in Nat /\ DOMAIN wanted = 1 .. Len(wanted)
      BY LenProperties DEF IInv, Given
    <2>2. reading \in 1 .. Len(wanted)
      BY <1>2, <2>1 DEF IInv, TypeOK
    <2>3. QED BY <2>1, <2>2, ElementOfSeq DEF IInv, Given
  <1>4. x \in J
    BY <1>3
  <1>5. rows \in Seq(J)
    BY DEF IInv, RowsExact
  <1> HIDE DEF J
  <1>6. /\ rows' \in Seq(J) /\ Len(rows') = n + 1 /\ rows'[n + 1] = x /\ n \in Nat
        /\ \A i \in 1 .. n : rows'[i] = rows[i]
        /\ DOMAIN rows = 1 .. n
    BY <1>1, <1>4, <1>5, AppendProperties, LenProperties
  <1>7. DOMAIN rows' = 1 .. n + 1
    BY <1>6, LenProperties
  <1> HIDE DEF n
  <1>8. \A i \in 1 .. n + 1 : i \in 1 .. n \/ i = n + 1
    BY <1>6
  <1>9. \A i \in 1 .. n : i \in 1 .. n + 1
    BY <1>6
  <1>10. n + 1 \in 1 .. n + 1
    BY <1>6
  <1>11. Range(rows') = Range(rows) \cup {x}
    BY <1>6, <1>7, <1>8, <1>9, <1>10 DEF Range
  <1>12. Given'
    BY <1>2 DEF IInv, Given, Fields, Kinds
  <1>13. RowsExact'
    <2>1. rows' \in Seq(UNION {JoinOf(m) : m \in Mains})'
      BY <1>2, <1>6 DEF J, JoinOf, OrNull, Fields
    <2>2. \A k : JoinOf(wanted[k])' = JoinOf(wanted[k])
      BY <1>2 DEF JoinOf, OrNull, Fields
    <2>3. \A i \in DOMAIN rows' : \E k \in DOMAIN wanted : rows'[i] \in JoinOf(wanted[k])
      BY <1>1, <1>3, <1>6, <1>7, <1>8 DEF IInv, RowsExact
    <2>4. \A k \in 1 .. reading' - 1 : JoinOf(wanted[k]) \subseteq Range(rows')
      <3>1. CASE reading' = reading
        BY <1>11, <3>1 DEF IInv, RowsExact
      <3>2. CASE reading' # reading
        <4>1. reading' = reading + 1 /\ JoinOf(wanted[reading]) \subseteq Range(rows')
          BY <1>1, <1>11, <3>2
        <4>2. \A k \in 1 .. reading' - 1 : k \in 1 .. reading - 1 \/ k = reading
          BY <1>3, <4>1
        <4>3. QED BY <1>11, <4>1, <4>2 DEF IInv, RowsExact
      <3>3. QED BY <3>1, <3>2
    <2>5. QED BY <1>2, <2>1, <2>2, <2>3, <2>4 DEF RowsExact
  <1>14. TypeOK'
    <2>1. reading' \in 1 .. Len(wanted) + 1
      BY <1>1, <1>3
    <2>2. /\ \A i \in DOMAIN rows' : rows'[i].main \in Mains
                                   /\ rows'[i].rel \in [Fields -> Related \cup {Null}]
          /\ row \in 1 .. Len(rows') + 1
      <3>1. x.main \in Mains /\ x.rel \in [Fields -> Related \cup {Null}]
        BY <1>3, JoinRow
      <3>2. row = 1
        BY <1>2 DEF IInv, LoopExact
      <3>3. QED BY <1>6, <1>7, <1>8, <3>1, <3>2 DEF IInv, TypeOK
    <2>3. QED BY <1>2, <2>1, <2>2 DEF IInv, TypeOK, Fields
  <1>15. LoopExact' /\ AttachedExact' /\ AnswerExact'
    BY <1>2 DEF IInv, LoopExact, AttachedExact, AnswerExact
  <1>16. QED BY <1>12, <1>13, <1>14, <1>15 DEF IInv

\* What is given, and the rows, after a step that changes neither.
LEMMA RowsKept ==
  ASSUME IInv, UNCHANGED <<kinds, links, wanted, route, reading, rows>>,
         pc' \in {"dedupe", "format"} => reading = Len(wanted) + 1
  PROVE  Given' /\ RowsExact' /\ Fields' = Fields
  <1>1. Given' /\ Fields' = Fields
    BY DEF IInv, Given, Fields
  <1>2. \A m : JoinOf(m)' = JoinOf(m)
    BY DEF JoinOf, OrNull, Fields
  <1>3. (UNION {JoinOf(m) : m \in Mains})' = UNION {JoinOf(m) : m \in Mains}
    BY <1>2
  <1>4. QED BY <1>1, <1>2, <1>3 DEF IInv, RowsExact

LEMMA RowsFailHolds ==
  ASSUME IInv, RowsFail
  PROVE  IInv'
  <1>1. /\ pc = "query" /\ pc' = "done" /\ answer' = [shape |-> "500", items |-> <<>>]
        /\ UNCHANGED <<kinds, links, wanted, route, reading, rows, field, row, fieldResultSet,
                       containsResults, attached>>
    BY DEF RowsFail, input, loop
  <1>2. Given' /\ RowsExact' /\ Fields' = Fields
    BY <1>1, RowsKept
  <1>3. TypeOK'
    BY <1>1, <1>2 DEF IInv, TypeOK
  <1>4. LoopExact' /\ AttachedExact' /\ AnswerExact'
    BY <1>1 DEF IInv, LoopExact, AttachedExact, AnswerExact
  <1>5. QED BY <1>2, <1>3, <1>4 DEF IInv

\* Before the loops every field of every result is still without a set.
LEMMA RowsEndHolds ==
  ASSUME IInv, RowsEnd
  PROVE  IInv'
  <1>1. /\ pc = "query" /\ reading > Len(wanted)
        /\ attached' = [i \in DOMAIN rows |-> [f \in Fields |-> <<>>]]
        /\ pc' = IF rows = <<>> \/ kinds = <<>> THEN "format" ELSE "dedupe"
        /\ UNCHANGED <<kinds, links, wanted, route, reading, rows, field, row, fieldResultSet,
                       containsResults, answer>>
    BY DEF RowsEnd, input
  <1>2. /\ reading = Len(wanted) + 1
        /\ Len(kinds) \in Nat /\ Fields = 1 .. Len(kinds) /\ (kinds # <<>> => Len(kinds) # 0)
        /\ Len(rows) \in Nat /\ DOMAIN rows = 1 .. Len(rows) /\ (rows = <<>> => Len(rows) = 0)
    <2>1. Len(wanted) \in Nat /\ Len(kinds) \in Nat /\ Fields = 1 .. Len(kinds)
      BY LenProperties DEF IInv, Given, Fields
    <2>2. kinds # <<>> => Len(kinds) # 0
      BY EmptySeq DEF IInv, Given
    <2>3. reading \in 1 .. Len(wanted) + 1
      BY DEF IInv, TypeOK
    <2>4. reading = Len(wanted) + 1
      BY <1>1, <2>1, <2>3
    <2>5. Len(rows) \in Nat /\ DOMAIN rows = 1 .. Len(rows) /\ (rows = <<>> => Len(rows) = 0)
      BY RowFacts, EmptySeq DEF IInv
    <2>6. QED BY <2>1, <2>2, <2>4, <2>5
  <1>3. Given' /\ RowsExact' /\ Fields' = Fields
    BY <1>1, <1>2, RowsKept
  <1>4. field = 1 /\ row = 1 /\ fieldResultSet = <<>> /\ containsResults = FALSE /\ answer.items = <<>>
    BY <1>1 DEF IInv, LoopExact, AnswerExact
  <1>5. pc' \in {"dedupe", "format"} /\ (pc' = "dedupe" => field \in Fields)
    BY <1>1, <1>2, <1>4
  <1>6. DOMAIN attached' = DOMAIN rows
    BY <1>1
  <1>7. TypeOK'
    BY <1>1, <1>3, <1>5, <1>6 DEF IInv, TypeOK
  <1>8. \A j : j \notin 1 .. 0
    OBVIOUS
  <1>9. LoopExact'
    <2>1. IsInjective(<<>>) /\ Range(<<>>) = {} /\ <<>> \in Seq(Related \cup {Null})
      BY EmptySeq DEF IsInjective, Range
    <2>2. row' - 1 = 0
      BY <1>1, <1>4
    <2>3. StandsFor(fieldResultSet, row - 1, field)'
      BY <1>1, <1>4, <1>8, <2>1, <2>2 DEF StandsFor
    <2>4. QED BY <1>1, <1>4, <1>5, <1>8, <2>2, <2>3 DEF LoopExact
  <1>10. AttachedExact'
    <2>1. \A i \in DOMAIN rows : DOMAIN attached'[i] = Fields
      BY <1>1
    <2>2. \A i \in DOMAIN rows, f \in Fields : attached'[i][f] = <<>>
      BY <1>1
    <2>3. CASE pc' = "dedupe"
      <3>1. \A i \in DOMAIN rows, f \in Fields : ~(f < 1) /\ ~(i < 1)
        BY <1>2
      <3>2. QED BY <1>1, <1>3, <1>4, <1>6, <2>1, <2>2, <2>3, <3>1 DEF AttachedExact, AttachedTo
    <2>4. CASE pc' # "dedupe"
      <3>1. rows = <<>> \/ kinds = <<>>
        BY <1>1, <2>4
      <3>2. \A i \in DOMAIN rows, f \in Fields : FALSE
        <4>1. CASE rows = <<>>
          BY <1>2, <4>1
        <4>2. CASE kinds = <<>>
          BY <4>2 DEF Fields
        <4>3. QED BY <3>1, <4>1, <4>2
      <3>3. QED BY <1>1, <1>3, <1>6, <2>1, <3>2 DEF AttachedExact
    <2>5. QED BY <2>3, <2>4
  <1>11. AnswerExact'
    BY <1>1, <1>4, <1>5 DEF AnswerExact
  <1>12. QED BY <1>3, <1>7, <1>9, <1>10, <1>11 DEF IInv

\* The numbers that the two loops count.
LEMMA LoopNumbers ==
  ASSUME IInv, pc = "dedupe"
  PROVE  /\ Len(rows) \in Nat /\ DOMAIN rows = 1 .. Len(rows)
         /\ Len(kinds) \in Nat /\ Fields = 1 .. Len(kinds)
         /\ field \in Fields /\ row \in 1 .. Len(rows) + 1
  <1>1. Len(rows) \in Nat /\ DOMAIN rows = 1 .. Len(rows)
    BY RowFacts DEF IInv
  <1>2. Len(kinds) \in Nat /\ Fields = 1 .. Len(kinds)
    BY LenProperties DEF IInv, Given, Fields
  <1>3. QED BY <1>1, <1>2 DEF IInv, TypeOK

\* What a set of the results stands for, after a step that changes neither the
\* set nor the rows.
LEMMA AttachedKept ==
  ASSUME UNCHANGED <<rows, attached>>, NEW i, NEW f
  PROVE  StandsFor(attached[i][f], i, f)' <=> StandsFor(attached[i][f], i, f)
  <1>1. attached'[i][f] = attached[i][f]
    OBVIOUS
  <1>2. {rows'[j].rel[f] : j \in 1 .. i} = {rows[j].rel[f] : j \in 1 .. i}
    OBVIOUS
  <1>3. \A j : rows'[j].rel[f] = rows[j].rel[f]
    OBVIOUS
  <1>4. QED BY <1>1, <1>2, <1>3 DEF StandsFor

LEMMA DedupeRowHolds ==
  ASSUME IInv, DedupeRow
  PROVE  IInv'
  <1>1. /\ pc = "dedupe" /\ row <= Len(rows) /\ row' = row + 1
        /\ UNCHANGED <<kinds, links, wanted, route, reading, rows, pc, field, answer>>
    BY DEF DedupeRow, input
  <1>2. /\ StandsFor(fieldResultSet', row, field)
        /\ containsResults' <=> \E j \in 1 .. row : rows[j].rel[field] # Null
        /\ containsResults' \in BOOLEAN
        /\ attached' = [attached EXCEPT ![row][field] = fieldResultSet']
    BY DedupeRowSet
  <1>3. /\ Len(rows) \in Nat /\ DOMAIN rows = 1 .. Len(rows)
        /\ Len(kinds) \in Nat /\ Fields = 1 .. Len(kinds)
        /\ field \in Fields /\ row \in 1 .. Len(rows) + 1
    BY <1>1, LoopNumbers
  <1>4. row \in DOMAIN rows /\ row' \in 1 .. Len(rows) + 1 /\ row' - 1 = row
    BY <1>1, <1>3
  <1>5. Given' /\ RowsExact' /\ Fields' = Fields
    <2>1. reading = Len(wanted) + 1
      BY <1>1 DEF IInv, RowsExact
    <2>2. QED BY <1>1, <2>1, RowsKept
  <1>6. /\ DOMAIN attached = DOMAIN rows /\ \A i \in DOMAIN rows : DOMAIN attached[i] = Fields
        /\ \A i \in DOMAIN rows, f \in Fields :
             IF AttachedTo(i, f) THEN StandsFor(attached[i][f], i, f) ELSE attached[i][f] = <<>>
    BY <1>1 DEF IInv, AttachedExact
  <1>7. /\ DOMAIN attached' = DOMAIN rows /\ \A i \in DOMAIN rows : DOMAIN attached'[i] = Fields
        /\ attached'[row][field] = fieldResultSet'
        /\ \A i \in DOMAIN rows, f \in Fields :
             i # row \/ f # field => attached'[i][f] = attached[i][f]
    BY <1>2, <1>3, <1>4, <1>6
  <1>8. TypeOK'
    BY <1>1, <1>2, <1>4, <1>5, <1>7 DEF IInv, TypeOK, StandsFor
  <1>9. LoopExact'
    BY <1>1, <1>2, <1>4 DEF LoopExact, StandsFor
  <1>10. AttachedExact'
    <2>1. ASSUME NEW i \in DOMAIN rows, NEW f \in Fields
          PROVE  IF AttachedTo(i, f)' THEN StandsFor(attached'[i][f], i, f) ELSE attached'[i][f] = <<>>
      <3>1. i \in Nat /\ f \in Nat /\ row \in Nat /\ field \in Nat
        BY <1>3, <1>4, <2>1
      <3>2. AttachedTo(i, f)' <=> AttachedTo(i, f) \/ (i = row /\ f = field)
        BY <1>1, <3>1 DEF AttachedTo
      <3>3. CASE i = row /\ f = field
        BY <1>2, <1>7, <3>2, <3>3
      <3>4. CASE ~(i = row /\ f = field)
        BY <1>6, <1>7, <2>1, <3>2, <3>4
      <3>5. QED BY <3>3, <3>4
    <2>2. ASSUME NEW i \in DOMAIN rows, NEW f \in Fields
          PROVE  IF AttachedTo(i, f)' THEN StandsFor(attached[i][f], i, f)' ELSE attached'[i][f] = <<>>
      BY <1>1, <2>1 DEF StandsFor
    <2>3. QED BY <1>1, <1>5, <1>7, <2>2 DEF AttachedExact
  <1>11. AnswerExact'
    BY <1>1 DEF IInv, AnswerExact
  <1>12. QED BY <1>5, <1>8, <1>9, <1>10, <1>11 DEF IInv

\* The next field starts with an empty set; after the last one every result has
\* its set for every field.
LEMMA NextFieldHolds ==
  ASSUME IInv, NextField
  PROVE  IInv'
  <1>1. /\ pc = "dedupe" /\ row > Len(rows)
        /\ fieldResultSet' = <<>> /\ containsResults' = FALSE /\ row' = 1 /\ field' = field + 1
        /\ pc' = IF field = Len(kinds) THEN "format" ELSE "dedupe"
        /\ UNCHANGED <<kinds, links, wanted, route, reading, rows, attached, answer>>
    BY DEF NextField, input
  <1>2. /\ Len(rows) \in Nat /\ DOMAIN rows = 1 .. Len(rows)
        /\ Len(kinds) \in Nat /\ Fields = 1 .. Len(kinds)
        /\ field \in Fields /\ row \in 1 .. Len(rows) + 1
    BY <1>1, LoopNumbers
  <1>3. /\ row = Len(rows) + 1 /\ row' \in 1 .. Len(rows) + 1 /\ row' - 1 = 0
        /\ field' \in 1 .. Len(kinds) + 1 /\ (pc' = "dedupe" => field' \in Fields)
        /\ pc' \in {"dedupe", "format"}
    BY <1>1, <1>2
  <1>4. Given' /\ RowsExact' /\ Fields' = Fields
    <2>1. reading = Len(wanted) + 1
      BY <1>1 DEF IInv, RowsExact
    <2>2. QED BY <1>1, <2>1, RowsKept
  <1>5. IsInjective(<<>>) /\ Range(<<>>) = {} /\ <<>> \in Seq(Related \cup {Null})
    BY EmptySeq DEF IsInjective, Range
  <1>6. /\ DOMAIN attached = DOMAIN rows /\ \A i \in DOMAIN rows : DOMAIN attached[i] = Fields
        /\ \A i \in DOMAIN rows, f \in Fields :
             IF AttachedTo(i, f) THEN StandsFor(attached[i][f], i, f) ELSE attached[i][f] = <<>>
    BY <1>1 DEF IInv, AttachedExact
  <1>7. TypeOK'
    BY <1>1, <1>3, <1>4, <1>5, <1>6 DEF IInv, TypeOK
  <1>8. LoopExact'
    <2>1. \A j : j \notin 1 .. 0
      OBVIOUS
    <2>2. StandsFor(fieldResultSet, row - 1, field)'
      BY <1>1, <1>3, <1>5, <2>1 DEF StandsFor
    <2>3. QED BY <1>1, <1>3, <2>1, <2>2 DEF LoopExact
  <1>9. AttachedExact'
    <2>1. ASSUME NEW i \in DOMAIN rows, NEW f \in Fields
          PROVE  AttachedTo(i, f)' <=> AttachedTo(i, f)
      <3>1. i \in 1 .. Len(rows) /\ f \in 1 .. Len(kinds) /\ field \in 1 .. Len(kinds)
        BY <1>2, <2>1
      <3>2. QED BY <1>1, <1>2, <1>3, <3>1 DEF AttachedTo
    <2>2. ASSUME NEW i \in DOMAIN rows, NEW f \in Fields
          PROVE  IF AttachedTo(i, f)' THEN StandsFor(attached[i][f], i, f)' ELSE attached'[i][f] = <<>>
      BY <1>1, <1>6, <2>1, AttachedKept
    <2>3. QED BY <1>1, <1>4, <1>6, <2>2 DEF AttachedExact
  <1>10. AnswerExact'
    BY <1>1, <1>3 DEF IInv, AnswerExact
  <1>11. QED BY <1>4, <1>7, <1>8, <1>9, <1>10 DEF IInv

\* The answer has a result for every row.
LEMMA FormatHolds ==
  ASSUME IInv, Format
  PROVE  IInv'
  <1>1. /\ pc = "format" /\ pc' = "done"
        /\ UNCHANGED <<kinds, links, wanted, route, reading, rows, field, row, fieldResultSet,
                       containsResults, attached>>
        /\ answer' = [shape |-> Shape,
                      items |-> [i \in DOMAIN rows |->
                         [main |-> rows[i].main, rel |-> [f \in Fields |-> Resolved(i, f)]]]]
    BY DEF Format, input, loop
  <1>2. Given' /\ RowsExact' /\ Fields' = Fields
    BY <1>1, RowsKept
  <1>3. Shape \in {"404", "object", "list"}
    BY DEF Shape
  <1>4. TypeOK'
    BY <1>1, <1>2, <1>3 DEF IInv, TypeOK
  <1>5. LoopExact' /\ AttachedExact'
    BY <1>1 DEF LoopExact, AttachedExact
  <1>6. AnswerExact'
    <2>1. /\ reading = Len(wanted) + 1 /\ DOMAIN attached = DOMAIN rows
          /\ \A i \in DOMAIN rows, f \in Fields : StandsFor(attached[i][f], i, f)
      BY <1>1 DEF IInv, RowsExact, AttachedExact, AttachedTo
    <2>2. \A i \in DOMAIN rows, f \in Fields : StandsFor(attached[i][f], i, f)'
      BY <1>1, <2>1, AttachedKept
    <2>3. \A i, f : Resolved(i, f)' = Resolved(i, f)
      BY <1>1 DEF Resolved, LocalKey
    <2>4. answer'.shape # "500" /\ answer'.items
            = [i \in DOMAIN rows |-> [main |-> rows[i].main, rel |-> [f \in Fields |-> Resolved(i, f)]]]
      BY <1>1, <1>3
    <2>5. QED BY <1>1, <1>2, <2>1, <2>2, <2>3, <2>4 DEF AnswerExact
  <1>7. QED BY <1>2, <1>4, <1>5, <1>6 DEF IInv

LEMMA StepHolds ==
  IInv /\ [Next]_vars => IInv'
  <1> SUFFICES ASSUME IInv, [Next]_vars PROVE IInv'
    OBVIOUS
  <1>1. CASE Next
    BY <1>1, NextResultHolds, RowsFailHolds, RowsEndHolds, DedupeRowHolds, NextFieldHolds, FormatHolds
    DEF Next
  <1>2. CASE UNCHANGED vars
    <2>1. UNCHANGED <<kinds, links, wanted, route, reading, rows, pc, field, row, fieldResultSet,
                      containsResults, attached, answer>>
      BY <1>2 DEF vars
    <2>2. Given' /\ RowsExact' /\ Fields' = Fields
      BY <2>1, RowsKept DEF IInv, RowsExact
    <2>3. TypeOK'
      BY <2>1, <2>2 DEF IInv, TypeOK
    <2>4. LoopExact'
      BY <2>1 DEF IInv, LoopExact, StandsFor
    <2>5. AttachedExact'
      BY <2>1, <2>2, AttachedKept DEF IInv, AttachedExact, AttachedTo
    <2>6. \A i, f : Resolved(i, f)' = Resolved(i, f)
      BY <2>1 DEF Resolved, LocalKey
    <2>7. AnswerExact'
      BY <2>1, <2>2, <2>6, AttachedKept DEF IInv, AnswerExact
    <2>8. QED BY <2>2, <2>3, <2>4, <2>5, <2>7 DEF IInv
  <1>3. QED BY <1>1, <1>2

\* The invariant of every behaviour.
LEMMA InvariantHolds == Spec => []IInv
  BY InitHolds, StepHolds, PTL DEF Spec

-----------------------------------------------------------------------------
(***************************************************************************)
(* The properties.                                                         *)
(***************************************************************************)

\* What an answer other than 500 shows, and of what.
LEMMA Answered ==
  ASSUME IInv, pc = "done", NEW i \in DOMAIN Items
  PROVE  /\ answer.shape # "500" /\ DOMAIN Items = DOMAIN rows /\ i \in DOMAIN rows
         /\ rows[i].main \in Mains /\ Items[i].main = rows[i].main
         /\ \A f \in Fields : /\ StandsFor(attached[i][f], i, f)
                              /\ Items[i].rel[f] = Resolved(i, f)
  <1>1. answer.shape # "500"
    BY DEF IInv, AnswerExact, Items
  <1>2. /\ \A k \in DOMAIN rows, f \in Fields : StandsFor(attached[k][f], k, f)
        /\ Items = [k \in DOMAIN rows |->
                      [main |-> rows[k].main, rel |-> [f \in Fields |-> Resolved(k, f)]]]
    BY <1>1 DEF IInv, AnswerExact, Items
  <1>3. i \in DOMAIN rows
    BY <1>2
  <1>4. QED BY <1>1, <1>2, <1>3, RowFacts DEF IInv

\* The rows of an answer are those of the whole join.
LEMMA JoinIsRead ==
  ASSUME IInv, pc = "done", answer.shape # "500", NEW k \in DOMAIN wanted
  PROVE  JoinOf(wanted[k]) \subseteq Range(rows) /\ wanted[k] \in Mains
  <1>1. reading = Len(wanted) + 1
    BY DEF IInv, AnswerExact
  <1>2. Len(wanted) \in Nat /\ k \in 1 .. Len(wanted) /\ wanted[k] \in Mains
    BY LenProperties, ElementOfSeq DEF IInv, Given
  <1>3. k \in 1 .. reading - 1
    BY <1>1, <1>2
  <1>4. QED BY <1>2, <1>3 DEF IInv, RowsExact

\* Everything that a row is related to has been seen at its last result.
LEMMA LastResultHasAll ==
  ASSUME IInv, pc = "done", NEW i \in DOMAIN Items, NEW f \in Fields,
         \A j \in DOMAIN Items : j > i => Items[j].main # Items[i].main
  PROVE  links[Items[i].main][f] \subseteq Range(attached[i][f])
  <1> DEFINE m == rows[i].main
  <1>1. /\ answer.shape # "500" /\ DOMAIN Items = DOMAIN rows /\ i \in DOMAIN rows
        /\ m \in Mains /\ Items[i].main = m /\ StandsFor(attached[i][f], i, f)
    BY Answered
  <1>2. SUFFICES ASSUME NEW v \in links[m][f]
                 PROVE  v \in Range(attached[i][f])
    BY <1>1
  <1>3. v \in Related
    BY <1>1 DEF IInv, Given
  <1>4. PICK x \in JoinOf(m) : x.main = m /\ x.rel[f] = v
    BY <1>1, JoinShowsRelated DEF IInv
  <1>5. PICK k \in DOMAIN wanted : m = wanted[k]
    BY <1>1, RowFacts DEF IInv
  <1>6. PICK j \in DOMAIN rows : rows[j] = x
    BY <1>1, <1>4, <1>5, JoinIsRead DEF Range
  <1>7. ~(j > i)
    BY <1>1, <1>4, <1>6, Answered
  <1>8. j \in 1 .. i
    <2>1. Len(rows) \in Nat /\ i \in 1 .. Len(rows) /\ j \in 1 .. Len(rows)
      BY <1>1, RowFacts DEF IInv
    <2>2. QED BY <1>7, <2>1
  <1>9. v \in {rows[q].rel[f] : q \in 1 .. i} \ {Null}
    BY <1>3, <1>4, <1>6, <1>8, ResultSetAssumption
  <1>10. QED BY <1>1, <1>9 DEF StandsFor

\* The variables keep their types.
THEOREM TypeCorrect == Spec => []TypeOK
  <1>1. IInv => TypeOK
    BY DEF IInv
  <1>2. QED BY <1>1, InvariantHolds, PTL

\* No related row is listed twice, for any number of relationships and rows.
THEOREM NoDuplicatesTheorem == Spec => []NoDuplicates
  <1>1. IInv => NoDuplicates
    <2> SUFFICES ASSUME IInv PROVE NoDuplicates
      OBVIOUS
    <2>1. CASE pc = "query" \/ (pc = "done" /\ answer.shape = "500")
      <3>1. DOMAIN attached = {}
        BY <2>1 DEF IInv, LoopExact, AnswerExact
      <3>2. QED BY <3>1 DEF NoDuplicates
    <2>2. CASE pc \in {"dedupe", "format"}
      <3>1. IsInjective(<<>>)
        BY DEF IsInjective
      <3>2. \A i \in DOMAIN rows, f \in Fields : IsInjective(attached[i][f])
        BY <2>2, <3>1 DEF IInv, AttachedExact, StandsFor
      <3>3. QED BY <2>2, <3>2 DEF IInv, AttachedExact, NoDuplicates
    <2>3. CASE pc = "done" /\ answer.shape # "500"
      <3>1. \A i \in DOMAIN rows, f \in Fields : StandsFor(attached[i][f], i, f)
        BY <2>3 DEF IInv, AnswerExact
      <3>2. DOMAIN attached = DOMAIN rows
        BY <2>3 DEF IInv, AnswerExact
      <3>3. \A i \in DOMAIN rows, f \in Fields : IsInjective(attached[i][f])
        BY <3>1 DEF StandsFor
      <3>4. QED BY <3>2, <3>3 DEF NoDuplicates
    <2>4. pc \in {"query", "dedupe", "format", "done"}
      BY DEF IInv, TypeOK
    <2>5. QED BY <2>1, <2>2, <2>3, <2>4
  <1>2. QED BY <1>1, InvariantHolds, PTL

\* No result is missing, and at its last result a row misses nothing.
THEOREM NothingLostTheorem == Spec => []NothingLost
  <1>1. IInv => NothingLost
    <2> SUFFICES ASSUME IInv, pc = "done", answer.shape # "500"
                 PROVE  /\ \A k \in DOMAIN wanted : \E i \in DOMAIN Items : Items[i].main = wanted[k]
                        /\ \A i \in DOMAIN Items : \A f \in Fields :
                             Many(f) /\ (\A j \in DOMAIN Items : j > i => Items[j].main # Items[i].main)
                               => links[Items[i].main][f] \subseteq Range(Items[i].rel[f])
      BY DEF NothingLost
    <2>1. ASSUME NEW k \in DOMAIN wanted
          PROVE  \E i \in DOMAIN Items : Items[i].main = wanted[k]
      <3>1. JoinOf(wanted[k]) \subseteq Range(rows) /\ wanted[k] \in Mains
        BY JoinIsRead
      <3>2. PICK x \in JoinOf(wanted[k]) : x \in Range(rows)
        BY <3>1, JoinNotEmpty DEF IInv
      <3>3. PICK i \in DOMAIN rows : rows[i] = x
        BY <3>2 DEF Range
      <3>4. x.main = wanted[k]
        BY <3>2, JoinRow
      <3>5. DOMAIN Items = DOMAIN rows
        BY DEF IInv, AnswerExact, Items
      <3>6. QED BY <3>3, <3>4, <3>5, Answered
    <2>2. ASSUME NEW i \in DOMAIN Items, NEW f \in Fields, Many(f),
                 \A j \in DOMAIN Items : j > i => Items[j].main # Items[i].main
          PROVE  links[Items[i].main][f] \subseteq Range(Items[i].rel[f])
      <3>1. Items[i].rel[f] = attached[i][f]
        BY <2>2, Answered DEF Many, Resolved
      <3>2. QED BY <2>2, <3>1, LastResultHasAll
    <2>3. QED BY <2>1, <2>2
  <1>2. QED BY <1>1, InvariantHolds, PTL

\* A manyToOne field shows the row it refers to, in every result.
THEOREM ManyToOneExactTheorem == Spec => []ManyToOneExact
  <1>1. IInv => ManyToOneExact
    <2> SUFFICES ASSUME IInv, pc = "done", NEW i \in DOMAIN Items, NEW f \in Fields,
                        kinds[f] = "manyToOne", links[Items[i].main][f] # {}
                 PROVE  links[Items[i].main][f] = {Items[i].rel[f]}
      BY DEF ManyToOneExact
    <2> DEFINE m == rows[i].main
    <2>1. /\ i \in DOMAIN rows /\ m \in Mains /\ Items[i].main = m
          /\ StandsFor(attached[i][f], i, f) /\ Items[i].rel[f] = Resolved(i, f)
      BY Answered
    <2>2. PICK x \in Related : links[m][f] = {x}
      BY <2>1 DEF IInv, Given
    <2>3. rows[i].rel[f] = x /\ x # Null
      <3>1. rows[i].rel[f] \in OrNull(links[m][f])
        BY <2>1, RowFacts DEF IInv
      <3>2. QED BY <2>2, <3>1, ResultSetAssumption DEF OrNull
    <2>4. i \in 1 .. i
      BY <2>1, RowFacts DEF IInv
    <2>5. x \in Range(attached[i][f])
      BY <2>1, <2>3, <2>4 DEF StandsFor
    <2>6. attached[i][f] # <<>>
      BY <2>5 DEF Range
    <2>7. LocalKey(m, f) = x
      BY <2>2 DEF LocalKey
    <2>8. Resolved(i, f) = x
      BY <2>5, <2>6, <2>7 DEF Resolved
    <2>9. QED BY <2>1, <2>2, <2>8
  <1>2. QED BY <1>1, InvariantHolds, PTL

\* The last result of GET /<table>/<id> lists the related rows and no other.
THEOREM SingleIsCompleteTheorem == Spec => []SingleIsComplete
  <1>1. IInv => SingleIsComplete
    <2> DEFINE n == Len(Items)
    <2> SUFFICES ASSUME IInv, pc = "done", route = "GetSingle", Items # <<>>, NEW f \in Fields, Many(f)
                 PROVE  Range(Items[n].rel[f]) = links[wanted[1]][f]
      BY DEF SingleIsComplete
    <2>1. /\ answer.shape # "500"
          /\ Items = [k \in DOMAIN rows |->
                        [main |-> rows[k].main, rel |-> [g \in Fields |-> Resolved(k, g)]]]
      BY DEF IInv, AnswerExact, Items
    <2>2. Len(rows) \in Nat /\ DOMAIN rows = 1 .. Len(rows)
      BY RowFacts DEF IInv
    <2>3. n = Len(rows) /\ n \in DOMAIN Items
      <3>1. Items \in [1 .. Len(rows) -> Range(Items)]
        BY <2>1, <2>2 DEF Range
      <3>2. Items \in Seq(Range(Items))
        BY <2>2, <3>1, SeqDef
      <3>3. n \in Nat /\ DOMAIN Items = 1 .. n /\ n # 0
        BY <3>2, LenProperties, EmptySeq
      <3>4. n = Len(rows)
        BY <2>1, <2>2, <3>3
      <3>5. QED BY <3>3, <3>4
    <2> HIDE DEF n
    <2>4. /\ n \in DOMAIN rows /\ StandsFor(attached[n][f], n, f) /\ Items[n].main = rows[n].main
          /\ Items[n].rel[f] = attached[n][f]
      BY <2>3, Answered DEF Many, Resolved
    <2>5. \A j \in DOMAIN rows : rows[j].main = wanted[1] /\ wanted[1] \in Mains
      <3>1. Len(wanted) \in Nat /\ DOMAIN wanted = 1 .. Len(wanted) /\ Len(wanted) <= 1
        BY LenProperties DEF IInv, Given
      <3>2. \A k \in DOMAIN wanted : k = 1
        BY <3>1
      <3>3. QED BY <3>2, RowFacts DEF IInv
    <2> DEFINE R == links[wanted[1]][f]
    <2>6. R \subseteq Related /\ Null \notin R
      BY <2>4, <2>5, ResultSetAssumption DEF IInv, Given
    <2>7. \A j \in 1 .. n : rows[j].rel[f] \in OrNull(R)
      BY <2>2, <2>3, <2>5, RowFacts DEF IInv
    <2>8. R \subseteq Range(attached[n][f])
      <3>1. \A j \in DOMAIN Items : ~(j > n)
        BY <2>1, <2>2, <2>3
      <3>2. QED BY <2>3, <2>4, <2>5, <3>1, LastResultHasAll
    <2> HIDE DEF R
    <2>9. ASSUME NEW y \in Range(attached[n][f])
          PROVE  y \in R
      <3>1. y # Null
        <4>1. SUFFICES ASSUME y = Null PROVE FALSE
          OBVIOUS
        <4>2. PICK k \in 1 .. n : \E j \in 1 .. k - 1 :
                 rows[k].rel[f] = Null /\ rows[j].rel[f] # Null
          BY <2>4, <4>1 DEF StandsFor
        <4>3. PICK j \in 1 .. k - 1 : rows[k].rel[f] = Null /\ rows[j].rel[f] # Null
          BY <4>2
        <4>4. j \in 1 .. n
          BY <2>2, <2>3, <4>2, <4>3
        <4>5. QED BY <2>6, <2>7, <4>2, <4>3, <4>4 DEF OrNull
      <3>2. PICK j \in 1 .. n : y = rows[j].rel[f]
        BY <2>4, <3>1 DEF StandsFor
      <3>3. QED BY <2>7, <3>1, <3>2 DEF OrNull
    <2>10. QED BY <2>4, <2>8, <2>9 DEF R
  <1>2. QED BY <1>1, InvariantHolds, PTL

\* No row but one that follows another, and has nothing, is given the all-NULL
\* row.
THEOREM EmptyOnlyAfterRelatedTheorem == Spec => []EmptyOnlyAfterRelated
  <1>1. IInv => EmptyOnlyAfterRelated
    <2> SUFFICES ASSUME IInv, pc = "done", NEW i \in DOMAIN Items, NEW f \in Fields,
                        Many(f), Null \in Range(Items[i].rel[f])
                 PROVE  \E k \in 1 .. i : \E j \in 1 .. k - 1 :
                          links[Items[k].main][f] = {} /\ links[Items[j].main][f] # {}
      BY DEF EmptyOnlyAfterRelated
    <2>1. /\ DOMAIN Items = DOMAIN rows /\ i \in DOMAIN rows
          /\ StandsFor(attached[i][f], i, f) /\ Items[i].rel[f] = attached[i][f]
      BY Answered DEF Many, Resolved
    <2>2. PICK k \in 1 .. i : \E j \in 1 .. k - 1 :
             rows[k].rel[f] = Null /\ rows[j].rel[f] # Null
      BY <2>1 DEF StandsFor
    <2>3. PICK j \in 1 .. k - 1 : rows[k].rel[f] = Null /\ rows[j].rel[f] # Null
      BY <2>2
    <2>4. k \in DOMAIN rows /\ j \in DOMAIN rows
      <3>1. Len(rows) \in Nat /\ i \in 1 .. Len(rows) /\ DOMAIN rows = 1 .. Len(rows)
        BY <2>1, RowFacts DEF IInv
      <3>2. QED BY <2>2, <2>3, <3>1
    <2>5. \A q \in DOMAIN rows :
            /\ Items[q].main = rows[q].main /\ rows[q].main \in Mains
            /\ rows[q].rel[f] \in OrNull(links[rows[q].main][f])
            /\ links[rows[q].main][f] \subseteq Related
      BY <2>1, Answered, RowFacts DEF IInv, Given
    <2>6. links[Items[k].main][f] = {} /\ links[Items[j].main][f] # {}
      BY <2>3, <2>4, <2>5, ResultSetAssumption DEF OrNull
    <2>7. QED BY <2>2, <2>3, <2>6
  <1>2. QED BY <1>1, InvariantHolds, PTL
=============================================================================
