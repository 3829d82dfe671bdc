--------------------------- MODULE SequenceLemmas ---------------------------
(***************************************************************************)
(* Facts about sequences that are built by loops over slices, for any      *)
(* length: FlattenSeq, which puts sequences together, and Picked.  No      *)
(* induction theorem is used, as those take an operator: what holds for 0, *)
(* and for k + 1 if it holds for k, holds up to n because a set of numbers *)
(* where it does not would have a least element.                           *)
(***************************************************************************)
EXTENDS Selection, SequenceTheorems, WellFoundedInduction, TLAPS

\* A set of numbers has a least one.
LEMMA Least ==
  ASSUME NEW S, S \subseteq Nat, S # {}
  PROVE  \E i \in S : \A j \in S : i <= j
  <1> DEFINE less == OpToRel(<, Nat)
  <1>1. \A x, y \in Nat : x < y => <<x, y>> \in less
    BY DEF OpToRel
  <1>2. IsWellFoundedOn(less, Nat)
    BY NatLessThanWellFounded
  <1>3. PICK i \in S : \A j \in S : <<j, i>> \notin less
    <2> HIDE DEF less
    <2>1. QED BY <1>2, WFMin
  <1>4. \A j \in S : i <= j
    <2> HIDE DEF less
    <2> SUFFICES ASSUME NEW j \in S PROVE i <= j
      OBVIOUS
    <2>1. i \in Nat /\ j \in Nat
      OBVIOUS
    <2>2. ~(j < i)
      BY <1>1, <1>3, <2>1
    <2>3. QED BY <2>1, <2>2
  <1>5. QED BY <1>4

\* ... and a greatest one, if it is bounded.
LEMMA Greatest ==
  ASSUME NEW n \in Nat, NEW S, S \subseteq 0 .. n, S # {}
  PROVE  \E i \in S : \A j \in S : j <= i
  <1> DEFINE R == {n - i : i \in S}
  <1>1. R \subseteq Nat /\ R # {}
    <2>1. PICK i : i \in S
      OBVIOUS
    <2>2. n - i \in R
      BY <2>1
    <2>3. \A j \in 0 .. n : n - j \in Nat
      OBVIOUS
    <2>4. QED BY <2>2, <2>3
  <1>2. PICK r \in R : \A q \in R : r <= q
    <2> HIDE DEF R
    <2>1. QED BY <1>1, Least
  <1>3. PICK i \in S : r = n - i
    OBVIOUS
  <1>4. \A j \in S : n - i <= n - j
    BY <1>2, <1>3
  <1>5. QED BY <1>4

\* What holds of 0, and of k + 1 when it holds of k < n, holds of all numbers
\* up to n: induction, for the set of the numbers of which it holds.
LEMMA UpTo ==
  ASSUME NEW n \in Nat, NEW H, 0 \in H,
         \A k \in 0 .. n : k \in H /\ k < n => k + 1 \in H
  PROVE  \A k \in 0 .. n : k \in H
  <1> SUFFICES ASSUME NEW m \in 0 .. n, m \notin H PROVE FALSE
    OBVIOUS
  <1> DEFINE rest == {k \in 0 .. n : k \notin H}
  <1>1. rest \subseteq Nat /\ rest # {}
    OBVIOUS
  <1>2. PICK i \in rest : \A j \in rest : i <= j
    <2> HIDE DEF rest
    <2>1. QED BY <1>1, Least
  <1>3. i # 0 /\ i - 1 \in 0 .. n /\ i - 1 < n /\ i - 1 \notin rest
    BY <1>2
  <1>4. i - 1 \in H
    BY <1>3
  <1>5. (i - 1) + 1 \in H
    BY <1>3, <1>4
  <1>6. (i - 1) + 1 = i
    BY <1>2
  <1>7. QED BY <1>5, <1>6

\* A function on 1 .. n is a sequence.
LEMMA IsSequence ==
  ASSUME NEW n \in Nat, NEW S, NEW f \in [1 .. n -> S]
  PROVE  f \in Seq(S) /\ Len(f) = n /\ DOMAIN f = 1 .. n
  OBVIOUS

-----------------------------------------------------------------------------
\* f[k] is what the first k of the sequences are when they are put together.
IsPrefixes(f, seqs) ==
  /\ f[0] = <<>>
  /\ \A k \in 1 .. Len(seqs) : f[k] = f[k - 1] \o seqs[k]

\* The elements of a sequence of sequences.
LEMMA SequenceOfSequences ==
  ASSUME NEW S, NEW seqs \in Seq(Seq(S))
  PROVE  /\ Len(seqs) \in Nat /\ DOMAIN seqs = 1 .. Len(seqs)
         /\ \A k \in 1 .. Len(seqs) : seqs[k] \in Seq(S)
  BY ElementOfSeq, LenProperties

\* There is such a function: FlattenSeq is well defined.
LEMMA PrefixesExist ==
  ASSUME NEW S, NEW seqs \in Seq(Seq(S))
  PROVE  \E f : IsPrefixes(f, seqs)
  <1> DEFINE n == Len(seqs)
             Good(f, m) == f[0] = <<>> /\ \A k \in 1 .. m : f[k] = f[k - 1] \o seqs[k]
             H == {m \in Nat : \E f : Good(f, m)}
  <1>1. n \in Nat
    OBVIOUS
  <1>2. 0 \in H
    <2>1. Good([k \in {0} |-> <<>>], 0)
      OBVIOUS
    <2>2. QED BY <2>1
  <1>3. ASSUME NEW m \in 0 .. n, m \in H, m < n PROVE m + 1 \in H
    <2>1. PICK f : Good(f, m)
      BY <1>3
    <2> DEFINE g == [k \in 0 .. m + 1 |-> IF k = m + 1 THEN f[m] \o seqs[m + 1] ELSE f[k]]
    <2>2. g[0] = <<>>
      BY <2>1
    <2>3. ASSUME NEW k \in 1 .. m + 1 PROVE g[k] = g[k - 1] \o seqs[k]
      <3>1. CASE k = m + 1
        <4>1. m \in 0 .. m + 1 /\ m + 1 \in 0 .. m + 1 /\ m # m + 1 /\ k - 1 = m
          BY <1>1, <3>1
        <4>2. g[m + 1] = f[m] \o seqs[m + 1] /\ g[m] = f[m]
          BY <4>1, Zenon
        <4>3. QED BY <3>1, <4>1, <4>2, Zenon
      <3>2. CASE k # m + 1
        <4>1. k \in 1 .. m /\ g[k] = f[k] /\ g[k - 1] = f[k - 1]
          BY <3>2
        <4>2. QED BY <2>1, <4>1
      <3>3. QED BY <3>1, <3>2
    <2>4. Good(g, m + 1)
      BY <2>2, <2>3
    <2> HIDE DEF g, Good
    <2>5. QED BY <2>4
  <1>4. n \in H
    <2> HIDE DEF H, n
    <2>1. \A k \in 0 .. n : k \in H /\ k < n => k + 1 \in H
      BY <1>3
    <2>2. \A k \in 0 .. n : k \in H
      BY <1>1, <1>2, <2>1, UpTo, Zenon
    <2>3. QED BY <1>1, <2>2
  <1>5. PICK f : Good(f, n)
    BY <1>4
  <1>6. IsPrefixes(f, seqs)
    BY <1>5 DEF IsPrefixes
  <1>7. QED BY <1>6

\* They are sequences.
LEMMA PrefixesAreSequences ==
  ASSUME NEW S, NEW seqs \in Seq(Seq(S)), NEW f, IsPrefixes(f, seqs)
  PROVE  \A k \in 0 .. Len(seqs) : f[k] \in Seq(S)
  <1> DEFINE H == {k \in Nat : f[k] \in Seq(S)}
  <1>1. 0 \in H
    <2>1. f[0] = <<>>
      BY Zenon DEF IsPrefixes
    <2>2. <<>> \in Seq(S) /\ 0 \in Nat
      OBVIOUS
    <2>3. QED BY <2>1, <2>2, Zenon
  <1>2. ASSUME NEW k \in 0 .. Len(seqs), k \in H, k < Len(seqs) PROVE k + 1 \in H
    <2>1. k + 1 \in 1 .. Len(seqs) /\ (k + 1) - 1 = k
      BY <1>2
    <2>2. f[k + 1] = f[k] \o seqs[k + 1]
      BY <2>1 DEF IsPrefixes
    <2>3. seqs[k + 1] \in Seq(S) /\ f[k] \in Seq(S)
      BY <1>2, <2>1
    <2>4. f[k + 1] \in Seq(S)
      BY <2>2, <2>3
    <2>5. QED BY <2>4
  <1>3. \A k \in 0 .. Len(seqs) : k \in H
    <2> HIDE DEF H
    <2>1. Len(seqs) \in Nat
      OBVIOUS
    <2>2. QED BY <1>1, <1>2, <2>1, UpTo, Zenon
  <1>4. QED BY <1>3

\* FlattenSeq is the last of them.
LEMMA FlattenIsLast ==
  ASSUME NEW S, NEW seqs \in Seq(Seq(S))
  PROVE  \E f : IsPrefixes(f, seqs) /\ FlattenSeq(seqs) = f[Len(seqs)]
  <1> DEFINE n == Len(seqs)
  <1>1. PICK f : IsPrefixes(f, seqs)
    BY PrefixesExist
  <1>2. CASE n = 0
    <2>1. seqs = <<>> /\ f[0] = <<>>
      BY <1>1, <1>2 DEF IsPrefixes
    <2>2. FlattenSeq(seqs) = seqs
      BY <1>2 DEF FlattenSeq
    <2>3. QED BY <1>1, <1>2, <2>1, <2>2
  <1>3. CASE n # 0
    <2> DEFINE Body(g) == [i \in 1 .. n |-> IF i = 1 THEN seqs[i] ELSE g[i - 1] \o seqs[i]]
               g0 == [i \in 1 .. n |-> f[i]]
               h == CHOOSE g : g = Body(g)
    <2>1. n \in Nat /\ n > 0
      BY <1>3
    <2>2. g0 = Body(g0)
      <3> SUFFICES ASSUME NEW i \in 1 .. n
                   PROVE  f[i] = IF i = 1 THEN seqs[i] ELSE g0[i - 1] \o seqs[i]
        OBVIOUS
      <3>1. f[i] = f[i - 1] \o seqs[i] /\ f[0] = <<>>
        BY <1>1, Zenon DEF IsPrefixes
      <3>2. CASE i = 1
        <4>1. i - 1 = 0 /\ 1 \in 1 .. n
          BY <3>2
        <4>2. f[1] = <<>> \o seqs[1]
          BY <3>1, <3>2, <4>1, Zenon
        <4>3. seqs[1] \in Seq(S)
          BY <4>1, SequenceOfSequences
        <4>4. f[1] = seqs[1]
          BY <4>2, <4>3
        <4>5. QED BY <3>2, <4>4
      <3>3. CASE i # 1
        <4>1. g0[i - 1] = f[i - 1]
          BY <3>3
        <4>2. QED BY <3>1, <3>3, <4>1
      <3>4. QED BY <3>2, <3>3
    <2>3. h = Body(h)
      <3> HIDE DEF Body, g0
      <3>1. QED BY <2>2
    <2>4. FlattenSeq(seqs) = h[n]
      BY <1>3 DEF FlattenSeq
    <2>5. DOMAIN h = 1 .. n /\ \A i \in 1 .. n : h[i] = IF i = 1 THEN seqs[i] ELSE h[i - 1] \o seqs[i]
      <3> HIDE DEF h
      <3>1. QED BY <2>3
    <2>6. \A i \in 0 .. n : i \in {j \in Nat : j = 0 \/ h[j] = f[j]}
      <3> DEFINE H == {j \in Nat : j = 0 \/ h[j] = f[j]}
      <3> HIDE DEF h
      <3>1. 0 \in H
        OBVIOUS
      <3>2. ASSUME NEW i \in 0 .. n, i \in H, i < n PROVE i + 1 \in H
        <4>1. f[i + 1] = f[i] \o seqs[i + 1] /\ f[0] = <<>>
          <5>1. i + 1 \in 1 .. n /\ (i + 1) - 1 = i
            BY <3>2
          <5>2. f[i + 1] = f[(i + 1) - 1] \o seqs[i + 1] /\ f[0] = <<>>
            BY <1>1, <5>1, Zenon DEF IsPrefixes
          <5>3. QED BY <5>1, <5>2
        <4>2. h[i + 1] = IF i + 1 = 1 THEN seqs[i + 1] ELSE h[i] \o seqs[i + 1]
          <5>1. i + 1 \in 1 .. n /\ (i + 1) - 1 = i
            BY <3>2
          <5>2. QED BY <2>5, <5>1
        <4>3. CASE i = 0
          <5>1. i + 1 = 1
            BY <4>3
          <5>2. f[1] = <<>> \o seqs[1] /\ h[1] = seqs[1]
            BY <4>1, <4>2, <4>3, <5>1, Zenon
          <5>3. seqs[1] \in Seq(S)
            BY <2>1, SequenceOfSequences
          <5>4. f[1] = h[1]
            BY <5>2, <5>3
          <5>5. QED BY <5>4, <4>3
        <4>4. CASE i # 0
          <5>1. h[i] = f[i] /\ i + 1 # 1
            BY <3>2, <4>4
          <5>2. h[i + 1] = f[i + 1]
            BY <4>1, <4>2, <5>1
          <5>3. QED BY <5>2
        <4>5. QED BY <4>3, <4>4
      <3>3. QED
        <4> HIDE DEF H
        <4>1. \A i \in 0 .. n : i \in H /\ i < n => i + 1 \in H
          BY <3>2
        <4>2. \A i \in 0 .. n : i \in H
          BY <2>1, <3>1, <4>1, UpTo, Zenon
        <4>3. QED BY <4>2 DEF H
    <2>7. h[n] = f[n]
      <3> HIDE DEF h
      <3>1. QED BY <2>1, <2>6
    <2>8. QED BY <1>1, <2>4, <2>7
  <1>4. QED BY <1>2, <1>3

\* All that is to be known of FlattenSeq: its value is the n-th of n steps.
Flattens(f, seqs, S, n) ==
  /\ Len(seqs) = n /\ f[0] = <<>> /\ FlattenSeq(seqs) = f[n]
  /\ \A k \in 0 .. n : f[k] \in Seq(S)
  /\ \A k \in 0 .. n : k < n =>
       k + 1 \in 1 .. n /\ seqs[k + 1] \in Seq(S) /\ f[k + 1] = f[k] \o seqs[k + 1]

\* Its prefixes say what FlattenSeq is.
LEMMA Flatten ==
  ASSUME NEW S, NEW seqs \in Seq(Seq(S))
  PROVE  \E f : Flattens(f, seqs, S, Len(seqs))
  <1>1. PICK f : IsPrefixes(f, seqs) /\ FlattenSeq(seqs) = f[Len(seqs)]
    BY FlattenIsLast
  <1>2. \A k \in 0 .. Len(seqs) : f[k] \in Seq(S)
    BY <1>1, PrefixesAreSequences
  <1>3. ASSUME NEW k \in 0 .. Len(seqs), k < Len(seqs)
        PROVE  /\ k + 1 \in 1 .. Len(seqs) /\ seqs[k + 1] \in Seq(S)
               /\ f[k + 1] = f[k] \o seqs[k + 1]
    <2>1. k + 1 \in 1 .. Len(seqs) /\ (k + 1) - 1 = k
      BY <1>3
    <2>2. f[k + 1] = f[(k + 1) - 1] \o seqs[k + 1]
      BY <1>1, <2>1, Zenon DEF IsPrefixes
    <2>3. QED BY <2>1, <2>2, SequenceOfSequences
  <1>4. f[0] = <<>>
    BY <1>1, Zenon DEF IsPrefixes
  <1>5. QED BY <1>1, <1>2, <1>3, <1>4, Zenon DEF Flattens

\* It is a sequence.
LEMMA FlattenType ==
  ASSUME NEW S, NEW seqs \in Seq(Seq(S))
  PROVE  FlattenSeq(seqs) \in Seq(S)
  <1>1. Len(seqs) \in 0 .. Len(seqs)
    OBVIOUS
  <1>2. QED BY <1>1, Flatten, Zenon DEF Flattens

\* One sequence stays as it is.
LEMMA FlattenOne ==
  ASSUME NEW S, NEW seqs \in Seq(Seq(S)), Len(seqs) = 1
  PROVE  FlattenSeq(seqs) = seqs[1]
  <1>1. PICK f : Flattens(f, seqs, S, Len(seqs))
    BY Flatten, Zenon
  <1>2. 0 \in 0 .. Len(seqs) /\ 0 < Len(seqs) /\ 0 + 1 = 1
    OBVIOUS
  <1>3. f[1] = f[0] \o seqs[1] /\ seqs[1] \in Seq(S)
    BY <1>1, <1>2, Zenon DEF Flattens
  <1>4. f[1] = <<>> \o seqs[1]
    BY <1>1, <1>3, Zenon DEF Flattens
  <1>5. f[1] = seqs[1]
    BY <1>3, <1>4
  <1>6. QED BY <1>1, <1>5 DEF Flattens

\* Two sequences are put together.
LEMMA FlattenTwo ==
  ASSUME NEW S, NEW seqs \in Seq(Seq(S)), Len(seqs) = 2
  PROVE  FlattenSeq(seqs) = seqs[1] \o seqs[2]
  <1>1. PICK f : Flattens(f, seqs, S, Len(seqs))
    BY Flatten, Zenon
  <1>2. /\ 0 \in 0 .. Len(seqs) /\ 0 < Len(seqs) /\ 0 + 1 = 1
        /\ 1 \in 0 .. Len(seqs) /\ 1 < Len(seqs) /\ 1 + 1 = 2
    OBVIOUS
  <1>3. f[1] = f[0] \o seqs[1] /\ seqs[1] \in Seq(S)
    BY <1>1, <1>2, Zenon DEF Flattens
  <1>4. f[2] = f[1] \o seqs[2]
    BY <1>1, <1>2, Zenon DEF Flattens
  <1>5. f[1] = <<>> \o seqs[1]
    BY <1>1, <1>3, Zenon DEF Flattens
  <1>6. f[1] = seqs[1]
    BY <1>3, <1>5
  <1>7. QED BY <1>1, <1>4, <1>6 DEF Flattens

\* Sequences that are as long as each other, one by one, are so together, and
\* what is related at each position of them is related at each position of all.
LEMMA FlattenRelated ==
  ASSUME NEW S, NEW T, NEW a \in Seq(Seq(S)), NEW b \in Seq(Seq(T)), Len(a) = Len(b), NEW R,
         \A i \in 1 .. Len(a) : /\ Len(a[i]) = Len(b[i])
                                /\ \A j \in 1 .. Len(a[i]) : <<a[i][j], b[i][j]>> \in R
  PROVE  /\ Len(FlattenSeq(a)) = Len(FlattenSeq(b))
         /\ \A p \in 1 .. Len(FlattenSeq(a)) : <<FlattenSeq(a)[p], FlattenSeq(b)[p]>> \in R
  <1> DEFINE n == Len(a)
  <1>1. n \in Nat /\ Len(b) = n
    OBVIOUS
  <1>2. PICK f : Flattens(f, a, S, n)
    BY Flatten
  <1>3. PICK g : Flattens(g, b, T, n)
    BY <1>1, Flatten
  <1> DEFINE Good(s, t) == Len(s) = Len(t) /\ \A p \in 1 .. Len(s) : <<s[p], t[p]>> \in R
             H == {k \in Nat : Good(f[k], g[k])}
  <1>4. 0 \in H
    <2>1. Good(<<>>, <<>>)
      OBVIOUS
    <2> HIDE DEF Good
    <2>2. QED BY <1>2, <1>3, <2>1 DEF Flattens
  <1>5. ASSUME NEW s \in Seq(S), NEW t \in Seq(T), NEW u \in Seq(S), NEW v \in Seq(T),
               Good(s, t), Good(u, v)
        PROVE  Good(s \o u, t \o v)
    <2>1. Len(s) = Len(t) /\ Len(u) = Len(v)
      BY <1>5
    <2>2. Len(s \o u) = Len(s) + Len(u) /\ Len(t \o v) = Len(t) + Len(v)
      BY ConcatProperties
    <2>3. ASSUME NEW p \in 1 .. Len(s \o u) PROVE <<(s \o u)[p], (t \o v)[p]>> \in R
      <3>1. CASE p \in 1 .. Len(s)
        <4>1. (s \o u)[p] = s[p] /\ (t \o v)[p] = t[p]
          BY <2>1, <3>1
        <4>2. QED BY <1>5, <3>1, <4>1
      <3>2. CASE p \notin 1 .. Len(s)
        <4> DEFINE q == p - Len(s)
        <4>1. q \in 1 .. Len(u) /\ q \in 1 .. Len(v) /\ (s \o u)[p] = u[q] /\ (t \o v)[p] = v[q]
          BY <2>1, <3>2
        <4> HIDE DEF q
        <4>2. QED BY <1>5, <4>1
      <3>3. QED BY <3>1, <3>2
    <2>4. QED BY <2>1, <2>2, <2>3
  <1>6. ASSUME NEW k \in 0 .. n, k \in H, k < n PROVE k + 1 \in H
    <2>1. Good(f[k], g[k]) /\ f[k] \in Seq(S) /\ g[k] \in Seq(T)
      BY <1>2, <1>3, <1>6 DEF Flattens
    <2>2. /\ k + 1 \in 1 .. n
          /\ a[k + 1] \in Seq(S) /\ f[k + 1] = f[k] \o a[k + 1]
          /\ b[k + 1] \in Seq(T) /\ g[k + 1] = g[k] \o b[k + 1]
      BY <1>2, <1>3, <1>6 DEF Flattens
    <2>3. Good(a[k + 1], b[k + 1])
      BY <2>2
    <2>4. k + 1 \in Nat
      BY <2>2
    <2> HIDE DEF Good
    <2>5. Good(f[k + 1], g[k + 1])
      BY <1>5, <2>1, <2>2, <2>3
    <2>6. QED BY <2>4, <2>5
  <1>7. n \in H
    <2> HIDE DEF H
    <2>1. n \in 0 .. n
      BY <1>1
    <2>2. \A k \in 0 .. n : k \in H
      BY <1>1, <1>4, <1>6, UpTo, Zenon
    <2>3. QED BY <2>1, <2>2
  <1>8. QED BY <1>2, <1>3, <1>7 DEF Flattens

\* No sequence is longer than its counterpart; each is as long as it.
Within(s, t) == Len(s) = Len(t) /\ \A i \in 1 .. Len(s) : Len(s[i]) <= Len(t[i])
Level(s, t) == \A i \in 1 .. Len(s) : Len(s[i]) = Len(t[i])

\* If no sequence is longer than its counterpart, all together are only as long
\* if each is.
LEMMA SameLengths ==
  ASSUME NEW S, NEW T, NEW a \in Seq(Seq(S)), NEW b \in Seq(Seq(T)), Within(a, b),
         Len(FlattenSeq(a)) = Len(FlattenSeq(b))
  PROVE  Level(a, b)
  <1> DEFINE n == Len(a)
  <1>1. n \in Nat /\ Len(b) = n
    BY DEF Within
  <1>2. PICK f : Flattens(f, a, S, n)
    BY Flatten
  <1>3. PICK g : Flattens(g, b, T, n)
    BY <1>1, Flatten
  <1> DEFINE Same(k) == \A i \in 1 .. k : Len(a[i]) = Len(b[i])
             H == {k \in Nat : /\ Len(f[k]) \in Nat /\ Len(g[k]) \in Nat
                               /\ Len(f[k]) <= Len(g[k])
                               /\ Len(f[k]) = Len(g[k]) => Same(k)}
  <1>4. 0 \in H
    <2>1. f[0] = <<>> /\ g[0] = <<>>
      BY <1>2, <1>3 DEF Flattens
    <2>2. Len(f[0]) = 0 /\ Len(g[0]) = 0
      BY <2>1
    <2>3. Same(0)
      OBVIOUS
    <2> HIDE DEF Same
    <2>4. QED BY <2>2, <2>3
  <1>5. ASSUME NEW k \in 0 .. n, k \in H, k < n PROVE k + 1 \in H
    <2>1. /\ k + 1 \in 1 .. n /\ k \in Nat
          /\ a[k + 1] \in Seq(S) /\ f[k + 1] = f[k] \o a[k + 1] /\ f[k] \in Seq(S)
          /\ b[k + 1] \in Seq(T) /\ g[k + 1] = g[k] \o b[k + 1] /\ g[k] \in Seq(T)
      BY <1>2, <1>3, <1>5 DEF Flattens
    <2>2. /\ Len(f[k + 1]) = Len(f[k]) + Len(a[k + 1])
          /\ Len(g[k + 1]) = Len(g[k]) + Len(b[k + 1])
      <3>1. Len(f[k] \o a[k + 1]) = Len(f[k]) + Len(a[k + 1])
        BY <2>1, ConcatProperties
      <3>2. Len(g[k] \o b[k + 1]) = Len(g[k]) + Len(b[k + 1])
        BY <2>1, ConcatProperties
      <3>3. QED BY <2>1, <3>1, <3>2
    <2>3. /\ Len(f[k]) \in Nat /\ Len(g[k]) \in Nat /\ Len(f[k]) <= Len(g[k])
          /\ Len(a[k + 1]) \in Nat /\ Len(b[k + 1]) \in Nat
          /\ Len(a[k + 1]) <= Len(b[k + 1])
          /\ Len(f[k]) = Len(g[k]) => Same(k)
      <3>1. Len(a[k + 1]) \in Nat /\ Len(b[k + 1]) \in Nat
        BY <2>1, LenProperties
      <3>2. Len(a[k + 1]) <= Len(b[k + 1])
        BY <2>1 DEF Within
      <3> HIDE DEF Same
      <3>3. QED BY <1>5, <3>1, <3>2
    <2>4. /\ Len(f[k + 1]) \in Nat /\ Len(g[k + 1]) \in Nat /\ Len(f[k + 1]) <= Len(g[k + 1])
          /\ Len(f[k + 1]) = Len(g[k + 1]) =>
               Len(f[k]) = Len(g[k]) /\ Len(a[k + 1]) = Len(b[k + 1])
      <3>1. PICK x \in Nat, y \in Nat, u \in Nat, v \in Nat :
              x = Len(f[k]) /\ y = Len(g[k]) /\ u = Len(a[k + 1]) /\ v = Len(b[k + 1])
        BY <2>3
      <3>2. x <= y /\ u <= v /\ Len(f[k + 1]) = x + u /\ Len(g[k + 1]) = y + v
        BY <2>2, <2>3, <3>1
      <3>3. /\ x + u \in Nat /\ y + v \in Nat /\ x + u <= y + v
            /\ x + u = y + v => x = y /\ u = v
        BY <3>2
      <3>4. QED BY <3>1, <3>2, <3>3, Zenon
    <2>5. ASSUME Len(f[k + 1]) = Len(g[k + 1]) PROVE Same(k + 1)
      <3>1. Len(f[k]) = Len(g[k]) /\ Len(a[k + 1]) = Len(b[k + 1])
        BY <2>4, <2>5
      <3>2. Same(k)
        BY <2>3, <3>1
      <3>3. \A i \in 1 .. k + 1 : i \in 1 .. k \/ i = k + 1
        BY <2>1
      <3>4. QED BY <3>1, <3>2, <3>3
    <2>6. k + 1 \in Nat
      BY <2>1
    <2> HIDE DEF Same
    <2>7. QED BY <2>4, <2>5, <2>6
  <1>6. n \in H
    <2> HIDE DEF H
    <2>1. n \in 0 .. n
      BY <1>1
    <2>2. \A k \in 0 .. n : k \in H
      BY <1>1, <1>4, <1>5, UpTo, Zenon
    <2>3. QED BY <2>1, <2>2
  <1>7. QED BY <1>2, <1>3, <1>6 DEF Flattens, Level

\* The elements of all of them are those of each.
LEMMA FlattenRange ==
  ASSUME NEW S, NEW a \in Seq(Seq(S))
  PROVE  Range(FlattenSeq(a)) = UNION {Range(a[i]) : i \in 1 .. Len(a)}
  <1> DEFINE n == Len(a)
  <1>1. n \in Nat
    OBVIOUS
  <1>2. PICK f : Flattens(f, a, S, n)
    BY Flatten
  <1> DEFINE Upto(k) == UNION {Range(a[i]) : i \in 1 .. k}
             H == {k \in Nat : Range(f[k]) = Upto(k)}
  <1>3. 0 \in H
    <2>1. f[0] = <<>> /\ Range(<<>>) = {}
      BY <1>2 DEF Flattens, Range
    <2>2. Upto(0) = {}
      OBVIOUS
    <2> HIDE DEF Upto
    <2>3. QED BY <2>1, <2>2
  <1>4. ASSUME NEW k \in 0 .. n, k \in H, k < n PROVE k + 1 \in H
    <2>1. /\ k + 1 \in 1 .. n /\ k \in Nat /\ k + 1 \in Nat
          /\ a[k + 1] \in Seq(S) /\ f[k + 1] = f[k] \o a[k + 1] /\ f[k] \in Seq(S)
      <3> HIDE DEF H, Upto
      <3>1. /\ k + 1 \in 1 .. n /\ a[k + 1] \in Seq(S)
            /\ f[k + 1] = f[k] \o a[k + 1] /\ f[k] \in Seq(S)
        BY <1>2, <1>4 DEF Flattens
      <3>2. k \in Nat /\ k + 1 \in Nat
        BY <1>1
      <3>3. QED BY <3>1, <3>2
    <2>2. Range(f[k] \o a[k + 1]) = Range(f[k]) \cup Range(a[k + 1])
      BY <2>1, RangeConcatenation
    <2>3. Upto(k + 1) = Upto(k) \cup Range(a[k + 1])
      <3>1. 1 .. k + 1 = 1 .. k \cup {k + 1}
        BY <2>1
      <3>2. QED BY <3>1
    <2>4. Range(f[k]) = Upto(k)
      BY <1>4
    <2> HIDE DEF Upto
    <2>5. QED BY <2>1, <2>2, <2>3, <2>4
  <1>5. n \in H
    <2> HIDE DEF H
    <2>1. n \in 0 .. n
      BY <1>1
    <2>2. \A k \in 0 .. n : k \in H
      BY <1>1, <1>3, <1>4, UpTo, Zenon
    <2>3. QED BY <2>1, <2>2
  <1>6. QED BY <1>2, <1>5 DEF Flattens

-----------------------------------------------------------------------------
\* A loop that appends some of the elements of a sequence.
LEMMA PickedPieces ==
  ASSUME NEW S, NEW s \in Seq(S), NEW I
  PROVE  /\ [i \in DOMAIN s |-> IF i \in I THEN <<s[i]>> ELSE <<>>] \in Seq(Seq(S))
         /\ Len([i \in DOMAIN s |-> IF i \in I THEN <<s[i]>> ELSE <<>>]) = Len(s)
  <1> DEFINE a == [i \in DOMAIN s |-> IF i \in I THEN <<s[i]>> ELSE <<>>]
  <1>1. DOMAIN s = 1 .. Len(s) /\ Len(s) \in Nat
    OBVIOUS
  <1>2. \A i \in 1 .. Len(s) : a[i] \in Seq(S)
    <2> SUFFICES ASSUME NEW i \in 1 .. Len(s) PROVE a[i] \in Seq(S)
      OBVIOUS
    <2>1. <<s[i]>> \in Seq(S) /\ <<>> \in Seq(S)
      OBVIOUS
    <2>2. a[i] = IF i \in I THEN <<s[i]>> ELSE <<>>
      BY <1>1
    <2>3. QED BY <2>1, <2>2, Zenon
  <1>3. a \in [1 .. Len(s) -> Seq(S)]
    <2>1. a = [i \in 1 .. Len(s) |-> a[i]]
      BY <1>1
    <2> HIDE DEF a
    <2>2. QED BY <1>2, <2>1
  <1> HIDE DEF a
  <1>4. a \in Seq(Seq(S)) /\ Len(a) = Len(s)
    BY <1>1, <1>3, SeqDef
  <1>5. QED BY <1>4 DEF a

\* It gives a sequence of them.
LEMMA PickedElements ==
  ASSUME NEW S, NEW s \in Seq(S), NEW I
  PROVE  Picked(s, I) \in Seq(S) /\ Range(Picked(s, I)) = {s[i] : i \in I \cap DOMAIN s}
  <1> DEFINE a == [i \in DOMAIN s |-> IF i \in I THEN <<s[i]>> ELSE <<>>]
  <1>1. a \in Seq(Seq(S)) /\ Len(a) = Len(s) /\ DOMAIN s = 1 .. Len(s) /\ Picked(s, I) = FlattenSeq(a)
    <2>1. a \in Seq(Seq(S)) /\ Len(a) = Len(s)
      BY PickedPieces, Zenon
    <2>2. Picked(s, I) = FlattenSeq(a)
      BY Zenon DEF Picked
    <2> HIDE DEF a
    <2>3. QED BY <2>1, <2>2
  <1>2. \A i \in 1 .. Len(s) : Range(a[i]) = IF i \in I THEN {s[i]} ELSE {}
    <2> SUFFICES ASSUME NEW i \in 1 .. Len(s)
                 PROVE  Range(a[i]) = IF i \in I THEN {s[i]} ELSE {}
      OBVIOUS
    <2>1. Range(<<s[i]>>) = {s[i]} /\ Range(<<>>) = {}
      BY DEF Range
    <2>2. a[i] = IF i \in I THEN <<s[i]>> ELSE <<>>
      BY <1>1
    <2>3. QED BY <2>1, <2>2, Zenon
  <1>3. FlattenSeq(a) \in Seq(S) /\ Range(FlattenSeq(a)) = UNION {Range(a[i]) : i \in 1 .. Len(a)}
    <2> HIDE DEF a
    <2>1. QED BY <1>1, FlattenType, FlattenRange
  <1>4. UNION {Range(a[i]) : i \in 1 .. Len(a)} = {s[i] : i \in I \cap DOMAIN s}
    <2> HIDE DEF a
    <2>1. QED BY <1>1, <1>2
  <1>5. QED BY <1>1, <1>3, <1>4

\* The indices the elements come from, in order.
IndicesOf(q, p, s, I) ==
  /\ q \in [1 .. Len(p) -> I \cap DOMAIN s]
  /\ \A x \in 1 .. Len(p) : p[x] = s[q[x]]
  /\ \A x, y \in 1 .. Len(p) : x < y => q[x] < q[y]

\* Each element is taken from an index of its own.
LEMMA PickedIndices ==
  ASSUME NEW S, NEW s \in Seq(S), NEW I
  PROVE  \E q : IndicesOf(q, Picked(s, I), s, I)
  <1> DEFINE a == [i \in DOMAIN s |-> IF i \in I THEN <<s[i]>> ELSE <<>>]
             n == Len(s)
  <1>1. a \in Seq(Seq(S)) /\ Len(a) = n /\ DOMAIN s = 1 .. n /\ n \in Nat /\ Picked(s, I) = FlattenSeq(a)
    <2>1. a \in Seq(Seq(S)) /\ Len(a) = Len(s)
      BY PickedPieces, Zenon
    <2>2. Picked(s, I) = FlattenSeq(a)
      BY Zenon DEF Picked
    <2> HIDE DEF a
    <2>3. QED BY <2>1, <2>2
  <1>2. PICK f : Flattens(f, a, S, n)
    <2> HIDE DEF a, n
    <2>1. QED BY <1>1, Flatten, Zenon
  <1>3. \A i \in 1 .. n : a[i] = IF i \in I THEN <<s[i]>> ELSE <<>>
    BY <1>1
  <1> DEFINE Good(k, q) ==
               /\ q \in [1 .. Len(f[k]) -> I \cap (1 .. k)]
               /\ \A x \in 1 .. Len(f[k]) : f[k][x] = s[q[x]]
               /\ \A x, y \in 1 .. Len(f[k]) : x < y => q[x] < q[y]
             H == {k \in 0 .. n : \E q : Good(k, q)}
  <1> HIDE DEF a
  <1>4. f[0] = <<>> /\ FlattenSeq(a) = f[n] /\ (\A k \in 0 .. n : f[k] \in Seq(S))
        /\ \A k \in 0 .. n : k < n => k + 1 \in 1 .. n /\ f[k + 1] = f[k] \o a[k + 1]
    BY <1>2, Zenon DEF Flattens
  <1>5. 0 \in H
    <2>1. Good(0, [x \in {} |-> 0])
      BY <1>4
    <2>2. 0 \in 0 .. n
      BY <1>1
    <2> HIDE DEF Good, n
    <2>3. QED BY <2>1, <2>2
  <1>6. ASSUME NEW k \in 0 .. n, k \in H, k < n PROVE k + 1 \in H
    <2>1. PICK q : Good(k, q)
      BY <1>6
    <2>2. k + 1 \in 1 .. n /\ k \in Nat /\ k + 1 \in 0 .. n
      <3> HIDE DEF H
      <3>1. QED BY <1>1, <1>6
    <2>3. f[k + 1] = f[k] \o a[k + 1] /\ f[k] \in Seq(S) /\ Len(f[k]) \in Nat
      <3> HIDE DEF H, n
      <3>1. f[k + 1] = f[k] \o a[k + 1] /\ f[k] \in Seq(S)
        BY <1>4, <1>6, Zenon
      <3>2. QED BY <3>1
    <2>4. CASE k + 1 \notin I
      <3>1. a[k + 1] = <<>>
        BY <1>3, <2>2, <2>4
      <3>2. f[k + 1] = f[k]
        BY <2>3, <3>1
      <3>3. I \cap (1 .. k) \subseteq I \cap (1 .. k + 1)
        BY <2>2
      <3>4. Good(k + 1, q)
        BY <2>1, <3>2, <3>3
      <3>5. QED BY <2>2, <3>4
    <2>5. CASE k + 1 \in I
      <3> DEFINE m == Len(f[k])
                 r == [x \in 1 .. m + 1 |-> IF x <= m THEN q[x] ELSE k + 1]
      <3>1. a[k + 1] = <<s[k + 1]>> /\ s[k + 1] \in S
        <4>1. s[k + 1] \in S
          <5> HIDE DEF H
          <5>1. QED BY <1>1, <2>2, ElementOfSeq
        <4>2. QED BY <1>3, <2>2, <2>5, <4>1
      <3>2. f[k + 1] = f[k] \o <<s[k + 1]>>
        BY <2>3, <3>1
      <3>3. /\ Len(f[k + 1]) = m + 1 /\ f[k + 1][m + 1] = s[k + 1]
            /\ \A x \in 1 .. m : f[k + 1][x] = f[k][x]
        BY <2>3, <3>1, <3>2
      <3>4. m \in Nat
        BY <2>3
      <3>5. \A x \in 1 .. m : q[x] \in I \cap (1 .. k)
        BY <2>1
      <3>6. (\A x \in 1 .. m : f[k][x] = s[q[x]]) /\ (\A x, y \in 1 .. m : x < y => q[x] < q[y])
        BY <2>1
      <3> HIDE DEF m
      <3>7. /\ \A x \in 1 .. m : r[x] = q[x]
            /\ r[m + 1] = k + 1
        BY <3>4
      <3>8. r \in [1 .. m + 1 -> I \cap (1 .. k + 1)]
        <4>1. ASSUME NEW x \in 1 .. m + 1 PROVE (IF x <= m THEN q[x] ELSE k + 1) \in I \cap (1 .. k + 1)
          <5>1. CASE x <= m
            <6>1. x \in 1 .. m
              BY <3>4, <5>1
            <6>2. q[x] \in I \cap (1 .. k)
              BY <3>5, <6>1
            <6>3. QED BY <2>2, <5>1, <6>2
          <5>2. CASE ~(x <= m)
            BY <2>2, <2>5, <5>2
          <5>3. QED BY <5>1, <5>2
        <4>2. QED BY <4>1
      <3> HIDE DEF r
      <3>9. ASSUME NEW x \in 1 .. m + 1 PROVE f[k + 1][x] = s[r[x]]
        <4>1. x \in 1 .. m \/ x = m + 1
          BY <3>4
        <4>2. QED BY <3>3, <3>6, <3>7, <4>1
      <3>10. ASSUME NEW x \in 1 .. m + 1, NEW y \in 1 .. m + 1, x < y PROVE r[x] < r[y]
        <4>1. x \in 1 .. m /\ (y \in 1 .. m \/ y = m + 1)
          BY <3>4, <3>10
        <4>2. CASE y \in 1 .. m
          BY <3>6, <3>7, <3>10, <4>1, <4>2
        <4>3. CASE y = m + 1
          <5>1. q[x] \in 1 .. k
            BY <3>5, <4>1
          <5>2. q[x] < k + 1
            BY <2>2, <5>1
          <5>3. QED BY <3>7, <4>1, <4>3, <5>2
        <4>4. QED BY <4>1, <4>2, <4>3
      <3>11. Good(k + 1, r)
        BY <3>3, <3>8, <3>9, <3>10
      <3>12. QED BY <2>2, <3>11
    <2>6. QED BY <2>4, <2>5
  <1>7. \A k \in 0 .. n : k \in H
    <2> HIDE DEF H, n
    <2>1. QED BY <1>1, <1>5, <1>6, UpTo, Zenon
  <1>8. PICK q : Good(n, q)
    <2>1. n \in 0 .. n
      BY <1>1
    <2>2. n \in H
      BY <1>7, <2>1
    <2> HIDE DEF Good, n
    <2>3. QED BY <2>2
  <1>9. QED
    <2>1. f[n] = Picked(s, I) /\ DOMAIN s = 1 .. n
      BY <1>1, <1>4
    <2> HIDE DEF n
    <2>2. QED BY <1>8, <2>1 DEF IndicesOf
=============================================================================
