-------------------------- MODULE QueryArgs_proofs --------------------------
(***************************************************************************)
(* Proofs about QueryArgs, for any fields and any data: where there are as *)
(* many arguments as columns, they belong together.  No field has more     *)
(* arguments than columns, so if the totals are equal, each field has as   *)
(* many arguments as columns (SameLengths), and the two loops of the code  *)
(* are at the same place.                                                  *)
(***************************************************************************)
EXTENDS QueryArgs, SequenceLemmas

\* What is picked of one element ...
LEMMA PickedOne ==
  ASSUME NEW S, NEW s \in Seq(S), NEW I, Len(s) = 1
  PROVE  Picked(s, I) = IF 1 \in I THEN <<s[1]>> ELSE <<>>
  <1> DEFINE a == [i \in DOMAIN s |-> IF i \in I THEN <<s[i]>> ELSE <<>>]
  <1>1. a \in Seq(Seq(S)) /\ Len(a) = 1
    BY PickedPieces, Zenon
  <1>2. a[1] = IF 1 \in I THEN <<s[1]>> ELSE <<>>
    <2>1. 1 \in DOMAIN s
      OBVIOUS
    <2>2. QED BY <2>1, Zenon
  <1>3. Picked(s, I) = FlattenSeq(a)
    BY Zenon DEF Picked
  <1> HIDE DEF a
  <1>4. FlattenSeq(a) = a[1]
    BY <1>1, FlattenOne
  <1>5. QED BY <1>2, <1>3, <1>4, Zenon

\* ... and of two.
LEMMA PickedTwo ==
  ASSUME NEW S, NEW s \in Seq(S), NEW I, Len(s) = 2
  PROVE  Picked(s, I) = (IF 1 \in I THEN <<s[1]>> ELSE <<>>) \o (IF 2 \in I THEN <<s[2]>> ELSE <<>>)
  <1> DEFINE a == [i \in DOMAIN s |-> IF i \in I THEN <<s[i]>> ELSE <<>>]
  <1>1. a \in Seq(Seq(S)) /\ Len(a) = 2
    BY PickedPieces, Zenon
  <1>2. /\ a[1] = IF 1 \in I THEN <<s[1]>> ELSE <<>>
        /\ a[2] = IF 2 \in I THEN <<s[2]>> ELSE <<>>
    <2>1. 1 \in DOMAIN s /\ 2 \in DOMAIN s
      OBVIOUS
    <2>2. QED BY <2>1, Zenon
  <1>3. Picked(s, I) = FlattenSeq(a)
    BY Zenon DEF Picked
  <1> HIDE DEF a
  <1>4. FlattenSeq(a) = a[1] \o a[2]
    BY <1>1, FlattenTwo
  <1>5. QED BY <1>2, <1>3, <1>4, Zenon

\* Two elements put together.
LEMMA TwoTogether ==
  ASSUME NEW x, NEW y
  PROVE  <<x>> \o <<y>> = <<x, y>>
  <1>1. <<x>> \in Seq({x, y}) /\ <<y>> \in Seq({x, y}) /\ <<x, y>> \in Seq({x, y})
    OBVIOUS
  <1>2. Len(<<x>> \o <<y>>) = 2 /\ <<x>> \o <<y>> \in Seq({x, y})
    BY <1>1
  <1>3. (<<x>> \o <<y>>)[1] = x /\ (<<x>> \o <<y>>)[2] = y
    BY <1>1
  <1>4. \A i \in 1 .. 2 : i = 1 \/ i = 2
    OBVIOUS
  <1>5. Len(<<x, y>>) = 2 /\ <<x, y>>[1] = x /\ <<x, y>>[2] = y
    OBVIOUS
  <1>6. \A i \in 1 .. Len(<<x>> \o <<y>>) : (<<x>> \o <<y>>)[i] = <<x, y>>[i]
    BY <1>2, <1>3, <1>4, <1>5
  <1>7. QED BY <1>1, <1>2, <1>5, <1>6, SeqEqual

\* The least of one number, and of two.
LEMMA LeastOfTwo == Min({1}) = 1 /\ Min({2}) = 2 /\ Min({1, 2}) = 1
  BY DEF Min

\* The keys of a field by their names, with the values sent for them.
Pairs(f, body, names) == [k \in 1 .. Len(names) |-> <<names[k], body[f.keys[k]]>>]

\* The arguments are as many as the columns, or fewer, and pairs has for each
\* column its argument, if there are as many.
Meet(cols, args, pairs) ==
  /\ Len(args) <= Len(cols) /\ Len(pairs) = Len(cols)
  /\ \A j \in 1 .. Len(cols) : pairs[j][1] = cols[j]
  /\ Len(args) = Len(cols) => \A j \in 1 .. Len(cols) : pairs[j][2] = args[j]

\* One field has no more arguments than columns, and if it has as many, each
\* belongs to its column.
LEMMA FieldMeets ==
  ASSUME NEW f, NEW body, NEW S, NEW names \in Seq(S), NEW K, f.keys \in Seq(K),
         Len(f.keys) \in {1, 2}, Len(names) = Len(f.keys)
  PROVE  Meet(Picked(names, Sent(f, body)), FieldArgs(f, body),
              Picked(Pairs(f, body, names), Sent(f, body)))
  <1> DEFINE cols == Picked(names, Sent(f, body))
             pairs == Picked(Pairs(f, body, names), Sent(f, body))
             args == FieldArgs(f, body)
             T == {body[f.keys[k]] : k \in 1 .. Len(f.keys)}
             zip == Pairs(f, body, names)
             I == Sent(f, body)
  <1>1. zip \in Seq(S \X T) /\ Len(zip) = Len(names)
    <2>1. zip \in [1 .. Len(names) -> S \X T]
      BY DEF Pairs
    <2> HIDE DEF zip
    <2>2. QED BY <2>1
  <1>2. I \subseteq 1 .. Len(f.keys)
    BY DEF Sent
  <1>3. ASSUME Len(f.keys) = 1 PROVE Meet(cols, args, pairs)
    <2>1. /\ cols = IF 1 \in I THEN <<names[1]>> ELSE <<>>
          /\ pairs = IF 1 \in I THEN <<zip[1]>> ELSE <<>>
      <3>1. zip \in Seq(S \X T) /\ Len(zip) = 1 /\ Len(names) = 1
        BY <1>1, <1>3
      <3> HIDE DEF zip, I
      <3>2. QED BY <3>1, PickedOne DEF zip, I
    <2>2. zip[1] = <<names[1], body[f.keys[1]]>>
      BY <1>3 DEF Pairs
    <2>3. I = {} \/ I = {1}
      <3> HIDE DEF I
      <3>1. 1 .. Len(f.keys) = {1}
        BY <1>3
      <3>2. I \subseteq {1}
        BY <1>2, <3>1, Zenon
      <3>3. QED BY <3>2, Zenon
    <2>4. args = IF I = {} THEN <<>> ELSE <<body[f.keys[Min(I)]]>>
      BY Zenon DEF FieldArgs
    <2> HIDE DEF zip, I, cols, pairs, args
    <2>5. CASE I = {}
      <3>1. cols = <<>> /\ pairs = <<>> /\ args = <<>>
        BY <2>1, <2>4, <2>5
      <3>2. QED BY <3>1 DEF Meet
    <2>6. CASE I = {1}
      <3>1. cols = <<names[1]>> /\ pairs = <<zip[1]>> /\ args = <<body[f.keys[1]]>>
        <4>1. Min(I) = 1
          BY <2>6, LeastOfTwo
        <4>2. QED BY <2>1, <2>4, <2>6, <4>1
      <3>2. QED BY <2>2, <3>1 DEF Meet
    <2>7. QED BY <2>3, <2>5, <2>6
  <1>4. ASSUME Len(f.keys) = 2 PROVE Meet(cols, args, pairs)
    <2>1. /\ cols = (IF 1 \in I THEN <<names[1]>> ELSE <<>>) \o (IF 2 \in I THEN <<names[2]>> ELSE <<>>)
          /\ pairs = (IF 1 \in I THEN <<zip[1]>> ELSE <<>>) \o (IF 2 \in I THEN <<zip[2]>> ELSE <<>>)
      <3>1. zip \in Seq(S \X T) /\ Len(zip) = 2 /\ Len(names) = 2
        BY <1>1, <1>4
      <3> HIDE DEF zip, I
      <3>2. QED BY <3>1, PickedTwo DEF zip, I
    <2>2. zip[1] = <<names[1], body[f.keys[1]]>> /\ zip[2] = <<names[2], body[f.keys[2]]>>
      BY <1>4 DEF Pairs
    <2>3. I = {} \/ I = {1} \/ I = {2} \/ I = {1, 2}
      <3> HIDE DEF I
      <3>1. 1 .. Len(f.keys) = {1, 2}
        BY <1>4
      <3>2. I \subseteq {1, 2}
        BY <1>2, <3>1, Zenon
      <3>3. QED BY <3>2
    <2>4. args = IF I = {} THEN <<>> ELSE <<body[f.keys[Min(I)]]>>
      BY Zenon DEF FieldArgs
    <2> HIDE DEF zip, I, cols, pairs, args
    <2>5. CASE I = {}
      <3>1. cols = <<>> \o <<>> /\ pairs = <<>> \o <<>> /\ args = <<>>
        BY <2>1, <2>4, <2>5
      <3>2. QED BY <3>1 DEF Meet
    <2>6. CASE I = {1}
      <3>1. /\ cols = <<names[1]>> \o <<>> /\ pairs = <<zip[1]>> \o <<>>
            /\ args = <<body[f.keys[1]]>>
        <4>1. Min(I) = 1
          BY <2>6, LeastOfTwo
        <4>2. QED BY <2>1, <2>4, <2>6, <4>1
      <3>2. cols = <<names[1]>> /\ pairs = <<zip[1]>>
        BY <3>1
      <3>3. QED BY <2>2, <3>1, <3>2 DEF Meet
    <2>7. CASE I = {2}
      <3>1. /\ cols = <<>> \o <<names[2]>> /\ pairs = <<>> \o <<zip[2]>>
            /\ args = <<body[f.keys[2]]>>
        <4>1. Min(I) = 2
          BY <2>7, LeastOfTwo
        <4>2. QED BY <2>1, <2>4, <2>7, <4>1
      <3>2. cols = <<names[2]>> /\ pairs = <<zip[2]>>
        BY <3>1
      <3>3. QED BY <2>2, <3>1, <3>2 DEF Meet
    <2>8. CASE I = {1, 2}
      <3>1. /\ cols = <<names[1]>> \o <<names[2]>> /\ pairs = <<zip[1]>> \o <<zip[2]>>
            /\ args = <<body[f.keys[1]]>>
        <4>1. Min(I) = 1
          BY <2>8, LeastOfTwo
        <4>2. QED BY <2>1, <2>4, <2>8, <4>1
      <3>2. cols = <<names[1], names[2]>> /\ pairs = <<zip[1], zip[2]>>
        BY <3>1, TwoTogether, Zenon
      <3>3. QED BY <2>2, <3>1, <3>2 DEF Meet
    <2>9. QED BY <2>3, <2>5, <2>6, <2>7, <2>8
  <1>5. QED BY <1>3, <1>4

\* The keys of a field are one, or two, and those sent are among them.
LEMMA FieldKeys ==
  ASSUME NEW fields, AreFields(fields), NEW i \in DOMAIN fields, NEW body
  PROVE  /\ fields[i].keys \in Seq(KeysOf(fields)) /\ Len(fields[i].keys) \in {1, 2}
         /\ DOMAIN fields[i].keys = 1 .. Len(fields[i].keys)
         /\ Sent(fields[i], body) \subseteq 1 .. Len(fields[i].keys)
  <1>1. /\ fields[i].keys \in Seq(Range(fields[i].keys))
        /\ Len(fields[i].keys) \in 1 .. IF fields[i].type = "money" THEN 2 ELSE 1
    BY DEF AreFields
  <1>2. Len(fields[i].keys) \in {1, 2}
    <2>1. CASE fields[i].type = "money"
      <3>1. Len(fields[i].keys) \in 1 .. 2
        BY <1>1, <2>1, Zenon
      <3>2. QED BY <3>1
    <2>2. CASE fields[i].type # "money"
      <3>1. Len(fields[i].keys) \in 1 .. 1
        BY <1>1, <2>2, Zenon
      <3>2. QED BY <3>1
    <2>3. QED BY <2>1, <2>2
  <1>3. DOMAIN fields[i].keys = 1 .. Len(fields[i].keys)
    BY <1>1
  <1>4. Range(fields[i].keys) \subseteq KeysOf(fields)
    BY DEF KeysOf
  <1>5. fields[i].keys \in Seq(KeysOf(fields))
    BY <1>1, <1>4
  <1>6. Sent(fields[i], body) \subseteq 1 .. Len(fields[i].keys)
    BY <1>3 DEF Sent
  <1>7. QED BY <1>2, <1>3, <1>5, <1>6

\* The argument of a field is a value that was sent.
LEMMA FieldArgsType ==
  ASSUME NEW fields, AreFields(fields), NEW i \in DOMAIN fields, NEW body
  PROVE  FieldArgs(fields[i], body) \in Seq({body[k] : k \in KeysOf(fields)})
  <1> DEFINE I == Sent(fields[i], body)
             T == {body[k] : k \in KeysOf(fields)}
  <1>1. /\ fields[i].keys \in Seq(KeysOf(fields)) /\ I \subseteq 1 .. Len(fields[i].keys)
    BY FieldKeys
  <1>2. \A k \in 1 .. Len(fields[i].keys) : body[fields[i].keys[k]] \in T
    BY <1>1, ElementOfSeq
  <1>3. CASE I = {}
    BY <1>3 DEF FieldArgs
  <1>4. CASE I # {}
    <2>1. FieldArgs(fields[i], body) = <<body[fields[i].keys[Min(I)]]>>
      BY <1>4, Zenon DEF FieldArgs
    <2> HIDE DEF I, T
    <2>2. I \subseteq Nat
      BY <1>1
    <2>3. Min(I) \in I
      <3>1. \E j \in I : \A k \in I : j <= k
        BY <1>4, <2>2, Least
      <3>2. QED BY <3>1 DEF Min
    <2>4. body[fields[i].keys[Min(I)]] \in T
      BY <1>1, <1>2, <2>3
    <2>5. QED BY <2>1, <2>4 DEF T
  <1>5. QED BY <1>3, <1>4

\* So are all arguments.
LEMMA ArgsType ==
  ASSUME NEW fields, AreFields(fields), NEW body
  PROVE  Args(fields, body) \in Seq({body[k] : k \in KeysOf(fields)})
  <1> DEFINE n == Len(fields)
             T == {body[k] : k \in KeysOf(fields)}
             b == [i \in DOMAIN fields |-> FieldArgs(fields[i], body)]
  <1>1. n \in Nat /\ DOMAIN fields = 1 .. n
    BY DEF AreFields
  <1>2. \A i \in 1 .. n : FieldArgs(fields[i], body) \in Seq(T)
    BY <1>1, FieldArgsType
  <1>3. b \in [1 .. n -> Seq(T)]
    <2> HIDE DEF n, T
    <2>1. QED BY <1>1, <1>2
  <1>4. Args(fields, body) = FlattenSeq(b)
    BY Zenon DEF Args
  <1> HIDE DEF b, n, T
  <1>5. b \in Seq(Seq(T))
    BY <1>1, <1>3
  <1>6. Args(fields, body) \in Seq(T)
    BY <1>4, <1>5, FlattenType
  <1>7. QED BY <1>6 DEF T

\* Each key of each field has a name.
Names(fields, names, S) ==
  \A i \in DOMAIN fields : names[i] \in Seq(S) /\ Len(names[i]) = Len(fields[i].keys)

\* The names of the keys that were sent.
NamesSent(fields, body, names) ==
  FlattenSeq([i \in DOMAIN fields |-> Picked(names[i], Sent(fields[i], body))])

\* Every column is that of a key which was sent, with the value sent for it ...
OfSentKeys(fields, body, names, cols, args) ==
  \A p \in 1 .. Len(cols) : \E i \in DOMAIN fields : \E k \in Sent(fields[i], body) :
    cols[p] = names[i][k] /\ args[p] = body[fields[i].keys[k]]

\* ... and every such key has its column.
AllSentKeys(fields, body, names, cols, args) ==
  \A i \in DOMAIN fields : \A k \in Sent(fields[i], body) : \E p \in 1 .. Len(cols) :
    cols[p] = names[i][k] /\ args[p] = body[fields[i].keys[k]]

\* The columns are names.
LEMMA NamesSentType ==
  ASSUME NEW fields, AreFields(fields), NEW body, NEW S, NEW names, Names(fields, names, S)
  PROVE  NamesSent(fields, body, names) \in Seq(S)
  <1> DEFINE n == Len(fields)
             a == [i \in DOMAIN fields |-> Picked(names[i], Sent(fields[i], body))]
  <1>1. n \in Nat /\ DOMAIN fields = 1 .. n
    BY DEF AreFields
  <1>2. \A i \in 1 .. n : Picked(names[i], Sent(fields[i], body)) \in Seq(S)
    BY <1>1, PickedElements DEF Names
  <1>3. a \in [1 .. n -> Seq(S)]
    <2> HIDE DEF n
    <2>1. QED BY <1>1, <1>2
  <1>4. NamesSent(fields, body, names) = FlattenSeq(a)
    BY Zenon DEF NamesSent
  <1> HIDE DEF a, n
  <1>5. a \in Seq(Seq(S))
    BY <1>1, <1>3
  <1>6. QED BY <1>4, <1>5, FlattenType

\* If there are as many arguments as columns, they belong together, whatever
\* fields the descriptor has and whatever keys were sent.
LEMMA ArgumentsMeetColumns ==
  ASSUME NEW fields, AreFields(fields), NEW body, NEW S, NEW names, Names(fields, names, S),
         Len(NamesSent(fields, body, names)) = Len(Args(fields, body))
  PROVE  /\ OfSentKeys(fields, body, names, NamesSent(fields, body, names), Args(fields, body))
         /\ AllSentKeys(fields, body, names, NamesSent(fields, body, names), Args(fields, body))
  <1> DEFINE n == Len(fields)
             cols == NamesSent(fields, body, names)
             T == {body[k] : k \in KeysOf(fields)}
             a == [i \in DOMAIN fields |-> Picked(names[i], Sent(fields[i], body))]
             b == [i \in DOMAIN fields |-> FieldArgs(fields[i], body)]
             c == [i \in DOMAIN fields |->
                     Picked(Pairs(fields[i], body, names[i]), Sent(fields[i], body))]
  <1>1. n \in Nat /\ DOMAIN fields = 1 .. n
    BY DEF AreFields
  <1>2. ASSUME NEW i \in 1 .. n
        PROVE  /\ fields[i].keys \in Seq(KeysOf(fields)) /\ Len(fields[i].keys) \in {1, 2}
               /\ DOMAIN fields[i].keys = 1 .. Len(fields[i].keys)
               /\ names[i] \in Seq(S) /\ Len(names[i]) = Len(fields[i].keys)
               /\ Sent(fields[i], body) \subseteq 1 .. Len(fields[i].keys)
    <2>1. i \in DOMAIN fields
      BY <1>1
    <2>2. names[i] \in Seq(S) /\ Len(names[i]) = Len(fields[i].keys)
      BY <2>1 DEF Names
    <2>3. QED BY <2>1, <2>2, FieldKeys
  <1>3. ASSUME NEW i \in 1 .. n
        PROVE  /\ Pairs(fields[i], body, names[i]) \in Seq(S \X T)
               /\ DOMAIN Pairs(fields[i], body, names[i]) = 1 .. Len(fields[i].keys)
               /\ \A k \in 1 .. Len(fields[i].keys) :
                    Pairs(fields[i], body, names[i])[k] = <<names[i][k], body[fields[i].keys[k]]>>
    <2> DEFINE zip == Pairs(fields[i], body, names[i])
    <2>1. \A k \in 1 .. Len(fields[i].keys) : body[fields[i].keys[k]] \in T /\ names[i][k] \in S
      BY <1>2, ElementOfSeq
    <2>2. zip \in [1 .. Len(names[i]) -> S \X T]
      BY <1>2, <2>1 DEF Pairs
    <2>3. Len(names[i]) \in Nat
      BY <1>2
    <2>4. zip \in Seq(S \X T)
      <3> HIDE DEF zip, T
      <3>1. QED BY <2>2, <2>3, IsSequence
    <2>5. /\ DOMAIN zip = 1 .. Len(fields[i].keys)
          /\ \A k \in 1 .. Len(fields[i].keys) : zip[k] = <<names[i][k], body[fields[i].keys[k]]>>
      BY <1>2, Zenon DEF Pairs
    <2> HIDE DEF zip, T
    <2>6. QED BY <2>4, <2>5 DEF zip
  <1>4. /\ a \in Seq(Seq(S)) /\ Len(a) = n /\ \A i \in 1 .. n : a[i] = Picked(names[i], Sent(fields[i], body))
    <2>1. \A i \in 1 .. n : Picked(names[i], Sent(fields[i], body)) \in Seq(S)
      BY <1>2, PickedElements
    <2>2. a \in [1 .. n -> Seq(S)] /\ \A i \in 1 .. n : a[i] = Picked(names[i], Sent(fields[i], body))
      <3> HIDE DEF n
      <3>1. QED BY <1>1, <2>1
    <2> HIDE DEF a, n
    <2>3. QED BY <1>1, <2>2
  <1>5. /\ b \in Seq(Seq(T)) /\ Len(b) = n /\ \A i \in 1 .. n : b[i] = FieldArgs(fields[i], body)
    <2> HIDE DEF T
    <2>1. b \in [1 .. n -> Seq(T)] /\ \A i \in 1 .. n : b[i] = FieldArgs(fields[i], body)
      <3>1. \A i \in 1 .. n : FieldArgs(fields[i], body) \in Seq(T)
        BY <1>1, FieldArgsType DEF T
      <3> HIDE DEF n
      <3>2. QED BY <1>1, <3>1
    <2> HIDE DEF b, n
    <2>2. QED BY <1>1, <2>1
  <1>6. /\ c \in Seq(Seq(S \X T)) /\ Len(c) = n
        /\ \A i \in 1 .. n : c[i] = Picked(Pairs(fields[i], body, names[i]), Sent(fields[i], body))
    <2> HIDE DEF T
    <2>1. \A i \in 1 .. n : Picked(Pairs(fields[i], body, names[i]), Sent(fields[i], body)) \in Seq(S \X T)
      BY <1>3, PickedElements
    <2>2. /\ c \in [1 .. n -> Seq(S \X T)]
          /\ \A i \in 1 .. n : c[i] = Picked(Pairs(fields[i], body, names[i]), Sent(fields[i], body))
      <3> HIDE DEF n
      <3>1. QED BY <1>1, <2>1
    <2> HIDE DEF c, n
    <2>3. QED BY <1>1, <2>2
  <1>7. cols = FlattenSeq(a) /\ Args(fields, body) = FlattenSeq(b)
    BY Zenon DEF Args, NamesSent
  <1> HIDE DEF cols
  <1>8. ASSUME NEW i \in 1 .. n
        PROVE  Meet(a[i], b[i], c[i])
    <2> HIDE DEF T, a, b, c, n
    <2>1. Meet(Picked(names[i], Sent(fields[i], body)), FieldArgs(fields[i], body),
               Picked(Pairs(fields[i], body, names[i]), Sent(fields[i], body)))
      BY <1>2, FieldMeets
    <2>2. QED BY <1>4, <1>5, <1>6, <2>1, Zenon
  <1>9. cols \in Seq(S)
    <2> HIDE DEF a
    <2>1. QED BY <1>4, <1>7, FlattenType
  <1> DEFINE F == FlattenSeq(c)
  <1>10. ASSUME Len(cols) = Len(Args(fields, body))
         PROVE  /\ Len(F) = Len(cols)
                /\ \A p \in 1 .. Len(cols) : F[p][1] = cols[p] /\ F[p][2] = Args(fields, body)[p]
    <2> HIDE DEF T, a, b, c, n
    <2>1. \A i \in 1 .. n : Len(b[i]) = Len(a[i])
      <3>1. \A i \in 1 .. n : Len(b[i]) <= Len(a[i])
        BY <1>8 DEF Meet
      <3>2. Len(FlattenSeq(b)) = Len(FlattenSeq(a))
        BY <1>7, <1>10
      <3>3. Within(b, a)
        BY <1>4, <1>5, <3>1 DEF Within
      <3>4. Level(b, a)
        <4>1. a \in Seq(Seq(S)) /\ b \in Seq(Seq(T))
          BY <1>4, <1>5
        <4>2. QED BY ONLY <3>2, <3>3, <4>1, SameLengths
      <3>5. QED BY <1>5, <3>4 DEF Level
    <2> DEFINE R1 == {z \in (S \X T) \X S : z[1][1] = z[2]}
               R2 == {z \in (S \X T) \X T : z[1][2] = z[2]}
    <2>2. ASSUME NEW i \in 1 .. n
          PROVE  /\ Len(c[i]) = Len(a[i]) /\ Len(c[i]) = Len(b[i])
                 /\ \A j \in 1 .. Len(c[i]) : <<c[i][j], a[i][j]>> \in R1 /\ <<c[i][j], b[i][j]>> \in R2
      <3>1. Len(c[i]) = Len(a[i]) /\ Len(c[i]) = Len(b[i])
        BY <1>8, <2>1 DEF Meet
      <3>2. c[i] \in Seq(S \X T) /\ a[i] \in Seq(S) /\ b[i] \in Seq(T)
        BY <1>4, <1>5, <1>6, ElementOfSeq
      <3>3. ASSUME NEW j \in 1 .. Len(c[i])
            PROVE  <<c[i][j], a[i][j]>> \in R1 /\ <<c[i][j], b[i][j]>> \in R2
        <4>1. c[i][j] \in S \X T /\ a[i][j] \in S /\ b[i][j] \in T
          BY <3>1, <3>2, ElementOfSeq
        <4>2. c[i][j][1] = a[i][j] /\ c[i][j][2] = b[i][j]
          BY <1>8, <2>1, <3>1 DEF Meet
        <4>3. QED BY <4>1, <4>2
      <3>4. QED BY <3>1, <3>3
    <2>3. /\ Len(FlattenSeq(c)) = Len(FlattenSeq(a))
          /\ \A p \in 1 .. Len(FlattenSeq(c)) : <<FlattenSeq(c)[p], FlattenSeq(a)[p]>> \in R1
      <3> HIDE DEF R1, R2
      <3>1. Len(c) = Len(a) /\ Len(c) = n
        BY <1>4, <1>6
      <3>2. QED BY <1>4, <1>6, <2>2, <3>1, FlattenRelated
    <2>4. /\ Len(FlattenSeq(c)) = Len(FlattenSeq(b))
          /\ \A p \in 1 .. Len(FlattenSeq(c)) : <<FlattenSeq(c)[p], FlattenSeq(b)[p]>> \in R2
      <3> HIDE DEF R1, R2
      <3>1. Len(c) = Len(b) /\ Len(c) = n
        BY <1>5, <1>6
      <3>2. QED BY <1>5, <1>6, <2>2, <3>1, FlattenRelated
    <2>5. ASSUME NEW p \in 1 .. Len(FlattenSeq(c))
          PROVE  FlattenSeq(c)[p][1] = FlattenSeq(a)[p] /\ FlattenSeq(c)[p][2] = FlattenSeq(b)[p]
      BY <2>3, <2>4
    <2>6. QED BY <1>7, <2>3, <2>5
  <1>11. F \in Seq(S \X T) /\ Range(F) = UNION {Range(c[i]) : i \in 1 .. n}
    <2> HIDE DEF T, c, n
    <2>1. QED BY <1>6, FlattenType, FlattenRange
  <1>12. ASSUME NEW i \in 1 .. n
         PROVE  Range(c[i]) = {<<names[i][k], body[fields[i].keys[k]]>> : k \in Sent(fields[i], body)}
    <2> DEFINE zip == Pairs(fields[i], body, names[i])
               I == Sent(fields[i], body)
    <2>1. Range(Picked(zip, I)) = {zip[k] : k \in I \cap DOMAIN zip}
      <3>1. zip \in Seq(S \X T)
        BY <1>3
      <3> HIDE DEF zip, I
      <3>2. QED BY <3>1, PickedElements
    <2>2. I \cap DOMAIN zip = I
      <3>1. DOMAIN zip = 1 .. Len(fields[i].keys) /\ I \subseteq 1 .. Len(fields[i].keys)
        BY <1>2, <1>3
      <3> HIDE DEF zip, I
      <3>2. QED BY <3>1
    <2>3. \A k \in I : zip[k] = <<names[i][k], body[fields[i].keys[k]]>>
      <3>1. I \subseteq 1 .. Len(fields[i].keys)
        BY <1>2
      <3> HIDE DEF I
      <3>2. QED BY <1>3, <3>1
    <2>4. c[i] = Picked(zip, I)
      <3> HIDE DEF c
      <3>1. QED BY <1>6
    <2> HIDE DEF zip, c, F
    <2>5. {zip[k] : k \in I \cap DOMAIN zip} =
            {<<names[i][k], body[fields[i].keys[k]]>> : k \in I}
      <3> HIDE DEF I
      <3>1. QED BY <2>2, <2>3
    <2>6. QED BY <2>1, <2>4, <2>5, Zenon
  <1>13. Len(cols) = Len(Args(fields, body))
    BY DEF cols
  <1>14. /\ Len(F) = Len(cols) /\ DOMAIN F = 1 .. Len(cols)
         /\ \A p \in 1 .. Len(cols) : F[p][1] = cols[p] /\ F[p][2] = Args(fields, body)[p]
    <2> HIDE DEF F, T
    <2>1. QED BY <1>10, <1>11, <1>13
  <1>15. ASSUME NEW p \in 1 .. Len(cols)
         PROVE  \E i \in DOMAIN fields : \E k \in Sent(fields[i], body) :
                  cols[p] = names[i][k] /\ Args(fields, body)[p] = body[fields[i].keys[k]]
    <2>1. F[p] \in Range(F)
      <3> HIDE DEF F
      <3>1. QED BY <1>14 DEF Range
    <2>2. PICK i \in 1 .. n : F[p] \in Range(c[i])
      <3> HIDE DEF F, c, n
      <3>1. QED BY <1>11, <2>1
    <2>3. PICK k \in Sent(fields[i], body) : F[p] = <<names[i][k], body[fields[i].keys[k]]>>
      <3> HIDE DEF F, c, n
      <3>1. QED BY <1>12, <2>2
    <2>4. i \in DOMAIN fields
      BY <1>1
    <2> HIDE DEF F, c, n
    <2>5. cols[p] = names[i][k] /\ Args(fields, body)[p] = body[fields[i].keys[k]]
      BY <1>14, <2>3
    <2>6. QED BY <2>4, <2>5
  <1>16. ASSUME NEW i \in DOMAIN fields, NEW k \in Sent(fields[i], body)
         PROVE  \E p \in 1 .. Len(cols) :
                  cols[p] = names[i][k] /\ Args(fields, body)[p] = body[fields[i].keys[k]]
    <2> DEFINE z == <<names[i][k], body[fields[i].keys[k]]>>
    <2>1. i \in 1 .. n
      BY <1>1
    <2> HIDE DEF F, c, n
    <2>2. z \in Range(c[i])
      BY <1>12, <2>1
    <2>3. z \in Range(F)
      <3> HIDE DEF z
      <3>1. QED BY <1>11, <2>1, <2>2
    <2>4. PICK p \in 1 .. Len(cols) : F[p] = z
      BY <1>14, <2>3 DEF Range
    <2>5. cols[p] = names[i][k] /\ Args(fields, body)[p] = body[fields[i].keys[k]]
      BY <1>14, <2>4
    <2>6. QED BY <2>5
  <1>17. OfSentKeys(fields, body, names, cols, Args(fields, body))
    BY <1>15 DEF OfSentKeys
  <1>18. AllSentKeys(fields, body, names, cols, Args(fields, body))
    BY <1>16 DEF AllSentKeys
  <1>19. QED BY <1>17, <1>18 DEF cols
=============================================================================
