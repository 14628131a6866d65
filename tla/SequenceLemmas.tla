--------------------------- MODULE SequenceLemmas ---------------------------
(***************************************************************************)
(* Laws of flattened and filtered sequences.  The library's induction      *)
(* theorems take an operator that the provers cannot instantiate; Climb,   *)
(* which is about a set and rests on a least counterexample, replaces them *)
(***************************************************************************)
EXTENDS Integers, Filtering, SequenceTheorems, WellFoundedInduction, TLAPS

-----------------------------------------------------------------------------
(* Flattened sequences.                                                    *)

\* A set of numbers that holds 0 and, up to n, every successor.
LEMMA Climb ==
  ASSUME NEW n \in Nat, NEW T, 0 \in T, \A i \in 0 .. n - 1 : i \in T => i + 1 \in T
  PROVE  \A i \in 0 .. n : i \in T
<1> DEFINE U == {i \in 0 .. n : i \notin T}
<1>1. SUFFICES ASSUME U # {} PROVE FALSE
  OBVIOUS
<1>2. U \in SUBSET Nat
  OBVIOUS
<1>3. PICK x \in U : \A y \in U : ~(<<y, x>> \in OpToRel(<, Nat))
  BY <1>1, <1>2, WFMin, NatLessThanWellFounded, Zenon
<1>4. \A y \in U : ~(y < x)
  BY <1>2, <1>3, Zenon DEF OpToRel
<1>5. x \in 0 .. n /\ x \notin T /\ x # 0
  OBVIOUS
<1>6. x - 1 \in 0 .. n - 1 /\ x - 1 \in 0 .. n /\ x - 1 < x /\ (x - 1) + 1 = x
  BY <1>5
<1>7. x - 1 \in T
  BY <1>4, <1>6
<1>8. QED
  BY <1>5, <1>6, <1>7

\* Concatenation is associative.
LEMMA Regroup ==
  ASSUME NEW S, NEW a \in Seq(S), NEW b \in Seq(S), NEW c \in Seq(S)
  PROVE  (a \o b) \o c = a \o (b \o c)
BY ConcatAssociative

\* F[i] is the concatenation of the first i elements of s.
Joins(s, F) == F[0] = <<>> /\ \A i \in 1 .. Len(s) : F[i] = F[i - 1] \o s[i]

\* There is such a function.
LEMMA JoinsExist ==
  ASSUME NEW S, NEW s \in Seq(Seq(S))
  PROVE  \E F \in [0 .. Len(s) -> Seq(S)] : Joins(s, F)
<1> DEFINE P(n) == \E F \in [0 .. n -> Seq(S)] :
                     F[0] = <<>> /\ \A i \in 1 .. n : F[i] = F[i - 1] \o s[i]
           T == {n \in Nat : P(n)}
<1>1. 0 \in T
  <2> DEFINE E == [i \in 0 .. 0 |-> <<>>]
  <2>1. E \in [0 .. 0 -> Seq(S)] /\ E[0] = <<>> /\ \A i \in 1 .. 0 : E[i] = E[i - 1] \o s[i]
    OBVIOUS
  <2>2. QED
    BY <2>1
<1>2. ASSUME NEW n \in 0 .. Len(s) - 1, n \in T
      PROVE  n + 1 \in T
  <2>1. PICK F \in [0 .. n -> Seq(S)] : F[0] = <<>> /\ \A i \in 1 .. n : F[i] = F[i - 1] \o s[i]
    BY <1>2
  <2> DEFINE G == [i \in 0 .. n + 1 |-> IF i <= n THEN F[i] ELSE F[n] \o s[n + 1]]
  <2>2. s[n + 1] \in Seq(S) /\ F[n] \in Seq(S)
    OBVIOUS
  <2>3. F[n] \o s[n + 1] \in Seq(S)
    BY <2>2
  <2>4. G \in [0 .. n + 1 -> Seq(S)]
    BY <2>3
  <2>5. G[0] = <<>>
    BY <2>1
  <2>6. ASSUME NEW i \in 1 .. n + 1
        PROVE  G[i] = G[i - 1] \o s[i]
    <3>1. CASE i = n + 1
      <4>1. n \in 0 .. n + 1 /\ n + 1 \in 0 .. n + 1 /\ ~(n + 1 <= n) /\ (n + 1) - 1 = n
        OBVIOUS
      <4>2. G[n] = F[n] /\ G[n + 1] = F[n] \o s[n + 1]
        BY <4>1
      <4> HIDE DEF G
      <4>3. QED
        BY <3>1, <4>1, <4>2
    <3>2. CASE i # n + 1
      <4>1. i \in 1 .. n /\ i - 1 \in 0 .. n + 1 /\ i - 1 <= n
        BY <3>2
      <4>2. G[i] = F[i] /\ G[i - 1] = F[i - 1]
        BY <4>1
      <4>3. QED
        BY <2>1, <4>1, <4>2
    <3>3. QED
      BY <3>1, <3>2
  <2>7. P(n + 1)
    BY <2>4, <2>5, <2>6
  <2>8. n + 1 \in Nat
    OBVIOUS
  <2>9. QED
    BY <2>7, <2>8, Zenon
<1>3. Len(s) \in T
  <2> HIDE DEF T
  <2>1. Len(s) \in Nat
    OBVIOUS
  <2> DEFINE m == Len(s)
  <2> HIDE DEF m
  <2>2. m \in Nat /\ \A n \in 0 .. m - 1 : n \in T => n + 1 \in T
    BY <1>2, <2>1 DEF m
  <2>3. \A i \in 0 .. m : i \in T
    BY <1>1, <2>2, Climb
  <2>4. QED
    BY <2>2, <2>3 DEF m
<1>4. QED
  BY <1>3 DEF Joins

\* There is only one, and flattening is its last value.
LEMMA FlattenIs ==
  ASSUME NEW S, NEW s \in Seq(Seq(S)), NEW F \in [0 .. Len(s) -> Seq(S)], Joins(s, F)
  PROVE  FlattenSeq(s) = F[Len(s)]
<1> DEFINE n == Len(s)
           Step(g) == [i \in 1 .. n |-> IF i = 1 THEN s[i] ELSE g[i - 1] \o s[i]]
           flatten == CHOOSE g : g = Step(g)
<1>1. CASE n = 0
  <2>1. s = <<>>
    BY <1>1
  <2>2. QED
    BY <1>1, <2>1 DEF FlattenSeq, Joins
<1>2. CASE n # 0
  <2>1. FlattenSeq(s) = flatten[n]
    BY <1>2 DEF FlattenSeq
  <2> DEFINE G == [i \in 1 .. n |-> F[i]]
  <2>2. F[1] = s[1]
    <3>1. 1 \in 1 .. Len(s) /\ 1 - 1 = 0 /\ s[1] \in Seq(S)
      BY <1>2
    <3>2. F[1] = F[1 - 1] \o s[1] /\ F[0] = <<>>
      BY <3>1, Zenon DEF Joins
    <3>3. <<>> \o s[1] = s[1]
      BY <3>1, ConcatEmptySeq
    <3>4. QED
      BY <3>1, <3>2, <3>3
  <2>3. G = Step(G)
    <3>1. ASSUME NEW i \in 1 .. n
          PROVE  F[i] = IF i = 1 THEN s[i] ELSE G[i - 1] \o s[i]
      <4>1. CASE i = 1
        BY <2>2, <4>1
      <4>2. CASE i # 1
        <5>1. i - 1 \in 1 .. n
          BY <4>2
        <5>2. G[i - 1] = F[i - 1]
          BY <5>1
        <5>3. F[i] = F[i - 1] \o s[i]
          BY SMTT(30) DEF Joins
        <5>4. QED
          BY <4>2, <5>2, <5>3, Zenon
      <4>3. QED
        BY <4>1, <4>2
    <3>2. QED
      BY <3>1, Zenon
  <2>4. flatten = Step(flatten)
    BY <2>3
  <2> DEFINE T == {i \in 0 .. n : i = 0 \/ flatten[i] = F[i]}
  <2>5. ASSUME NEW i \in 0 .. n - 1, i \in T
        PROVE  i + 1 \in T
    <3>1. i + 1 \in 1 .. n /\ (i + 1) - 1 = i
      OBVIOUS
    <3>2. flatten[i + 1] = IF i + 1 = 1 THEN s[i + 1] ELSE flatten[(i + 1) - 1] \o s[i + 1]
      BY <2>4, <3>1, Zenon
    <3>3. F[i + 1] = F[i] \o s[i + 1]
      BY <3>1 DEF Joins
    <3> HIDE DEF flatten
    <3>4. CASE i = 0
      BY <2>2, <3>2, <3>4
    <3>5. CASE i # 0
      <4>1. flatten[i] = F[i] /\ i + 1 # 1
        BY <2>5, <3>5
      <4>2. flatten[i + 1] = flatten[i] \o s[i + 1]
        BY <3>1, <3>2, <4>1
      <4>3. flatten[i + 1] = F[i + 1]
        BY <3>3, <4>1, <4>2, Zenon
      <4>4. QED
        BY <3>1, <4>3
    <3>6. QED
      BY <3>4, <3>5
  <2> HIDE DEF flatten
  <2>6. 0 \in T
    OBVIOUS
  <2>7. \A i \in 0 .. n : i \in T
    <3> HIDE DEF T
    <3>1. n \in Nat
      OBVIOUS
    <3>2. QED
      BY <2>5, <2>6, <3>1, Climb
  <2>8. n \in T
    BY <2>7
  <2>9. QED
    BY <1>2, <2>1, <2>8
<1>3. QED
  BY <1>1, <1>2

\* Flattening sequences of bytes gives a sequence of bytes.
LEMMA FlattenType ==
  ASSUME NEW S, NEW s \in Seq(Seq(S))
  PROVE  FlattenSeq(s) \in Seq(S) /\ FlattenSeq(<<>>) = <<>>
<1>1. PICK F \in [0 .. Len(s) -> Seq(S)] : Joins(s, F)
  BY JoinsExist
<1>2. FlattenSeq(s) = F[Len(s)]
  BY <1>1, FlattenIs
<1>3. Len(s) \in 0 .. Len(s)
  OBVIOUS
<1>4. FlattenSeq(<<>>) = <<>>
  BY DEF FlattenSeq
<1>5. QED
  BY <1>2, <1>3, <1>4

\* The last element comes last.
LEMMA FlattenAppend ==
  ASSUME NEW S, NEW s \in Seq(Seq(S)), NEW x \in Seq(S)
  PROVE  FlattenSeq(Append(s, x)) = FlattenSeq(s) \o x
<1> DEFINE n == Len(s)
           t == Append(s, x)
<1>1. PICK F \in [0 .. n -> Seq(S)] : Joins(s, F)
  BY JoinsExist
<1>2. FlattenSeq(s) = F[n]
  BY <1>1, FlattenIs
<1> DEFINE G == [i \in 0 .. n + 1 |-> IF i <= n THEN F[i] ELSE F[n] \o x]
<1>3. n \in Nat /\ t \in Seq(Seq(S)) /\ Len(t) = n + 1 /\ t[n + 1] = x
      /\ \A i \in 1 .. n : t[i] = s[i]
  OBVIOUS
<1> HIDE DEF t
<1>4. n \in 0 .. n + 1 /\ n + 1 \in 0 .. n + 1 /\ ~(n + 1 <= n) /\ (n + 1) - 1 = n
  BY <1>3
<1>5. F[n] \o x \in Seq(S)
  <2>1. n \in 0 .. n
    BY <1>3
  <2>2. F[n] \in Seq(S)
    BY <2>1
  <2>3. QED
    BY <2>2, ConcatProperties
<1>6. G \in [0 .. n + 1 -> Seq(S)]
  BY <1>5
<1>7. G[n] = F[n] /\ G[n + 1] = F[n] \o x
  BY <1>4
<1>8. \A i \in 0 .. n : G[i] = F[i]
  OBVIOUS
<1>9. G[0] = <<>>
  BY <1>1, <1>3, <1>8 DEF Joins
<1> HIDE DEF G
<1>10. ASSUME NEW i \in 1 .. n + 1
       PROVE  G[i] = G[i - 1] \o t[i]
  <2>1. CASE i = n + 1
    BY <1>3, <1>4, <1>7, <2>1
  <2>2. CASE i # n + 1
    <3>1. i \in 1 .. n /\ i \in 0 .. n /\ i - 1 \in 0 .. n
      BY <1>3, <2>2
    <3>2. F[i] = F[i - 1] \o s[i]
      BY <1>1, <3>1 DEF Joins
    <3>3. QED
      BY <1>3, <1>8, <3>1, <3>2, Zenon
  <2>3. QED
    BY <2>1, <2>2
<1>11. Joins(t, G)
  BY <1>3, <1>9, <1>10 DEF Joins
<1>12. FlattenSeq(t) = G[Len(t)]
  <2>1. G \in [0 .. Len(t) -> Seq(S)]
    BY <1>3, <1>6
  <2>2. QED
    BY <1>3, <1>11, <2>1, FlattenIs
<1>13. QED
  BY <1>2, <1>3, <1>7, <1>12 DEF t

\* The first element comes first.
LEMMA FlattenHead ==
  ASSUME NEW S, NEW s \in Seq(Seq(S)), s # <<>>
  PROVE  FlattenSeq(s) = Head(s) \o FlattenSeq(Tail(s))
<1>0. ASSUME NEW a \in Seq(S), NEW b \in Seq(S), NEW c \in Seq(S)
      PROVE  (a \o b) \o c = a \o (b \o c)
  BY Regroup, SMTT(60)
<1> DEFINE n == Len(s)
           h == Head(s)
           t == Tail(s)
<1>1. n \in Nat /\ n # 0 /\ h \in Seq(S) /\ t \in Seq(Seq(S)) /\ Len(t) = n - 1 /\ h = s[1]
      /\ \A i \in 1 .. n - 1 : t[i] = s[i + 1]
  OBVIOUS
<1> HIDE DEF h, t
<1>2. PICK F \in [0 .. Len(t) -> Seq(S)] : Joins(t, F)
  BY <1>1, JoinsExist
<1>3. FlattenSeq(t) = F[n - 1] /\ F \in [0 .. n - 1 -> Seq(S)]
  BY <1>1, <1>2, FlattenIs
<1> DEFINE G == [i \in 0 .. n |-> IF i = 0 THEN <<>> ELSE h \o F[i - 1]]
<1>4. \A i \in 1 .. n : h \o F[i - 1] \in Seq(S)
  <2>1. ASSUME NEW i \in 1 .. n
        PROVE  h \o F[i - 1] \in Seq(S)
    <3>1. i - 1 \in 0 .. n - 1
      BY <1>1
    <3>2. F[i - 1] \in Seq(S)
      BY <1>3, <3>1
    <3>3. QED
      BY <1>1, <3>2, ConcatProperties
  <2>2. QED
    BY <2>1
<1>5. G \in [0 .. n -> Seq(S)]
  BY <1>4
<1>6. G[0] = <<>> /\ \A i \in 1 .. n : G[i] = h \o F[i - 1]
  <2>1. 0 \in 0 .. n /\ \A i \in 1 .. n : i \in 0 .. n /\ i # 0
    BY <1>1
  <2>2. QED
    BY <2>1, Zenon
<1> HIDE DEF G
<1>7. ASSUME NEW i \in 1 .. n
      PROVE  G[i] = G[i - 1] \o s[i]
  <2>1. CASE i = 1
    <3>1. F[0] = <<>> /\ 1 - 1 = 0
      BY <1>2 DEF Joins
    <3>2. G[1] = h \o F[1 - 1]
      BY <1>6, <2>1, Zenon
    <3>3. G[1] = h
      BY <1>1, <3>1, <3>2, ConcatEmptySeq
    <3>4. <<>> \o h = h
      BY <1>1, ConcatEmptySeq
    <3>5. QED
      BY <1>1, <1>6, <2>1, <3>1, <3>3, <3>4, Zenon
  <2>2. CASE i # 1
    <3>1. i - 1 \in 1 .. n - 1 /\ i - 1 \in 1 .. n /\ (i - 1) + 1 = i /\ (i - 1) - 1 \in 0 .. n - 1
          /\ i - 1 \in 0 .. n - 1
      BY <1>1, <2>2
    <3>2. t[i - 1] = s[i] /\ s[i] \in Seq(S)
      BY <1>1, <3>1
    <3>3. F[i - 1] = F[(i - 1) - 1] \o t[i - 1]
      BY <1>1, <1>2, <3>1 DEF Joins
    <3> DEFINE p == F[(i - 1) - 1]
    <3>4. p \in Seq(S)
      BY <1>3, <3>1
    <3>5. F[i - 1] = p \o s[i]
      BY <3>2, <3>3
    <3>6. G[i - 1] = h \o p
      BY <1>6, <3>1
    <3> HIDE DEF p
    <3>7. G[i] = h \o F[i - 1]
      BY <1>6
    <3>8. (h \o p) \o s[i] = h \o (p \o s[i])
      BY <1>0, <1>1, <3>2, <3>4, Zenon
    <3>9. QED
      BY <3>5, <3>6, <3>7, <3>8, Zenon
  <2>3. QED
    BY <2>1, <2>2
<1>8. Joins(s, G)
  BY <1>6, <1>7 DEF Joins
<1>9. FlattenSeq(s) = G[n]
  BY <1>5, <1>8, FlattenIs
<1>10. G[n] = h \o F[n - 1]
  <2>1. n \in 1 .. n
    BY <1>1
  <2>2. QED
    BY <1>6, <2>1, Zenon
<1>11. QED
  BY <1>3, <1>9, <1>10 DEF h, t

-----------------------------------------------------------------------------
(* Filtered sequences.                                                     *)

\* What a filter keeps of one element.
Kept(x, D) == IF x \in D THEN <<x>> ELSE <<>>
Cells(s, D) == [i \in DOMAIN s |-> IF s[i] \in D THEN <<s[i]>> ELSE <<>>]

\* It is one element of the set or none.
LEMMA KeptType ==
  ASSUME NEW S, NEW D, NEW x \in S
  PROVE  Kept(x, D) \in Seq(S \cap D)
<1> DEFINE T == S \cap D
<1>1. CASE x \in D
  <2>1. x \in T
    BY <1>1
  <2> HIDE DEF T
  <2>2. <<x>> \in Seq(T)
    BY <2>1
  <2>3. QED
    BY <1>1, <2>2 DEF Kept, T
<1>2. CASE x \notin D
  <2> HIDE DEF T
  <2>1. <<>> \in Seq(T)
    OBVIOUS
  <2>2. QED
    BY <1>2, <2>1 DEF Kept, T
<1>3. QED
  BY <1>1, <1>2

\* One sequence per element.
LEMMA CellsType ==
  ASSUME NEW S, NEW D, NEW s \in Seq(S)
  PROVE  Cells(s, D) \in Seq(Seq(S \cap D)) /\ Len(Cells(s, D)) = Len(s)
<1>1. DOMAIN s = 1 .. Len(s) /\ Len(s) \in Nat /\ \A i \in 1 .. Len(s) : s[i] \in S
  OBVIOUS
<1>2. \A i \in 1 .. Len(s) : (IF s[i] \in D THEN <<s[i]>> ELSE <<>>) \in Seq(S \cap D)
  BY <1>1, KeptType, Zenon DEF Kept
<1>3. Cells(s, D) \in [1 .. Len(s) -> Seq(S \cap D)]
  BY <1>1, <1>2, Zenon DEF Cells
<1>4. QED
  BY <1>1, <1>3

\* A filter gives elements of its set.
LEMMA OnlyType ==
  ASSUME NEW S, NEW D, NEW s \in Seq(S)
  PROVE  Only(s, D) \in Seq(S \cap D) /\ Only(s, D) \in Seq(D) /\ Only(s, D) \in Seq(S)
<1>1. Only(s, D) = FlattenSeq(Cells(s, D))
  BY DEF Only, Cells
<1>2. Only(s, D) \in Seq(S \cap D)
  BY <1>1, CellsType, FlattenType
<1>3. QED
  BY <1>2

\* Nothing is kept of nothing.
LEMMA OnlyEmpty == ASSUME NEW D PROVE Only(<<>>, D) = <<>>
<1>1. Len(Cells(<<>>, D)) = 0 /\ Cells(<<>>, D) \in Seq({})
  BY DEF Cells
<1>2. Cells(<<>>, D) = <<>>
  BY <1>1
<1>3. FlattenSeq(<<>>) = <<>>
  BY DEF FlattenSeq
<1>4. QED
  BY <1>2, <1>3, Zenon DEF Only, Cells

\* The last element is kept or not.
LEMMA OnlyAppend ==
  ASSUME NEW S, NEW D, NEW s \in Seq(S), NEW x \in S
  PROVE  Only(Append(s, x), D) = Only(s, D) \o Kept(x, D)
<1> DEFINE t == Append(s, x)
<1>1. t \in Seq(S) /\ Len(t) = Len(s) + 1 /\ t[Len(s) + 1] = x /\ Len(s) \in Nat
      /\ \A i \in 1 .. Len(s) : t[i] = s[i]
  OBVIOUS
<1>2. Kept(x, D) \in Seq(S \cap D)
  BY KeptType
<1> DEFINE c == Cells(s, D)
           a == Append(c, Kept(x, D))
<1>3. c \in Seq(Seq(S \cap D)) /\ Len(c) = Len(s) /\ Cells(t, D) \in Seq(Seq(S \cap D))
      /\ Len(Cells(t, D)) = Len(s) + 1
  BY <1>1, CellsType, ZenonT(40)
<1>4. a \in Seq(Seq(S \cap D)) /\ Len(a) = Len(s) + 1 /\ a[Len(s) + 1] = Kept(x, D)
      /\ \A i \in 1 .. Len(s) : a[i] = c[i]
  <2> HIDE DEF c
  <2>1. QED
    BY <1>2, <1>3
<1>5. ASSUME NEW i \in 1 .. Len(s) + 1
      PROVE  Cells(t, D)[i] = a[i]
  <2>1. Cells(t, D)[i] = IF t[i] \in D THEN <<t[i]>> ELSE <<>>
    <3>1. i \in DOMAIN t
      BY <1>1
    <3> HIDE DEF t
    <3>2. QED
      BY <3>1 DEF Cells
  <2>2. CASE i = Len(s) + 1
    BY <1>1, <1>4, <2>1, <2>2, Zenon DEF Kept
  <2>3. CASE i # Len(s) + 1
    <3>1. i \in 1 .. Len(s) /\ i \in DOMAIN s
      BY <1>1, <2>3
    <3>2. c[i] = IF s[i] \in D THEN <<s[i]>> ELSE <<>>
      BY <3>1 DEF Cells
    <3>3. QED
      BY <1>1, <1>4, <2>1, <3>1, <3>2, Zenon
  <2>4. QED
    BY <2>2, <2>3
<1>6. Cells(t, D) = a
  <2> DEFINE u == Cells(t, D)
  <2>1. u \in Seq(Seq(S \cap D)) /\ Len(u) = Len(a) /\ a \in Seq(Seq(S \cap D))
        /\ \A i \in 1 .. Len(u) : u[i] = a[i]
    BY <1>3, <1>4, <1>5
  <2> HIDE DEF u, a
  <2>2. u = a
    BY <2>1, SeqEqual
  <2>3. QED
    BY <2>2 DEF u
<1>7. FlattenSeq(a) = FlattenSeq(c) \o Kept(x, D)
  <2> HIDE DEF c
  <2>1. QED
    BY <1>2, <1>3, FlattenAppend
<1>8. QED
  BY <1>6, <1>7 DEF Only, Cells

\* Two sequences are filtered one after the other.
LEMMA OnlyConcat ==
  ASSUME NEW S, NEW D, NEW s \in Seq(S), NEW t \in Seq(S)
  PROVE  Only(s \o t, D) = Only(s, D) \o Only(t, D)
<1> DEFINE n == Len(t)
           P(i) == SubSeq(t, 1, i)
           T == {i \in 0 .. n : Only(s \o P(i), D) = Only(s, D) \o Only(P(i), D)}
<1>1. n \in Nat /\ \A i \in 0 .. n : P(i) \in Seq(S)
  OBVIOUS
<1>2. 0 \in T
  <2>1. P(0) = <<>> /\ s \o <<>> = s /\ 0 \in 0 .. n
    OBVIOUS
  <2>2. Only(<<>>, D) = <<>>
    BY OnlyEmpty
  <2>3. Only(s, D) \o <<>> = Only(s, D)
    BY OnlyType, ConcatEmptySeq
  <2> HIDE DEF P
  <2>4. QED
    BY <2>1, <2>2, <2>3
<1>3. ASSUME NEW i \in 0 .. n - 1, i \in T
      PROVE  i + 1 \in T
  <2>1. i \in 0 .. n /\ i + 1 \in 1 .. n /\ i + 1 \in 0 .. n /\ t[i + 1] \in S
    OBVIOUS
  <2> DEFINE x == t[i + 1]
             p == P(i)
  <2>2. P(i + 1) = Append(p, x)
    <3>1. SubSeq(t, 1, i + 1) = SubSeq(t, 1, i) \o <<t[i + 1]>>
      BY <2>1
    <3>2. SubSeq(t, 1, i) \in Seq(S)
      BY <1>1, <2>1
    <3> DEFINE q == SubSeq(t, 1, i)
    <3> HIDE DEF q
    <3>3. q \o <<x>> = Append(q, x)
      BY <2>1, <3>2, AppendIsConcat DEF q
    <3>4. QED
      BY <3>1, <3>3 DEF q
  <2>3. p \in Seq(S) /\ x \in S /\ Only(s \o p, D) = Only(s, D) \o Only(p, D)
    BY <1>1, <1>3, <2>1
  <2> HIDE DEF p, x, P
  <2>4. s \o Append(p, x) = Append(s \o p, x) /\ s \o p \in Seq(S)
    BY <2>3
  <2>5. Only(Append(s \o p, x), D) = Only(s \o p, D) \o Kept(x, D)
    BY <2>3, <2>4, OnlyAppend
  <2>6. Only(Append(p, x), D) = Only(p, D) \o Kept(x, D)
    BY <2>3, OnlyAppend
  <2>7. (Only(s, D) \o Only(p, D)) \o Kept(x, D) = Only(s, D) \o (Only(p, D) \o Kept(x, D))
    <3> DEFINE a == Only(s, D)
               b == Only(p, D)
               c == Kept(x, D)
    <3>1. a \in Seq(S \cap D) /\ b \in Seq(S \cap D) /\ c \in Seq(S \cap D)
      BY <2>3, OnlyType, KeptType
    <3> HIDE DEF a, b, c
    <3>2. (a \o b) \o c = a \o (b \o c)
      BY <3>1, Regroup, SMTT(30)
    <3>3. QED
      BY <3>2 DEF a, b, c
  <2>8. Only(s \o P(i + 1), D) = Only(s, D) \o Only(P(i + 1), D)
    BY <2>2, <2>3, <2>4, <2>5, <2>6, <2>7, Zenon
  <2>9. QED
    BY <2>1, <2>8
<1>4. \A i \in 0 .. n : i \in T
  <2> HIDE DEF T, n
  <2>1. QED
    BY <1>1, <1>2, <1>3, Climb
<1>5. n \in T /\ P(n) = t
  BY <1>1, <1>4, SubSeqFull
<1>6. QED
  BY <1>5

\* A filter of one element.
LEMMA OnlyOne ==
  ASSUME NEW D, NEW x
  PROVE  Only(<<x>>, D) = Kept(x, D)
<1>1. Append(<<>>, x) = <<x>> /\ <<>> \in Seq({x}) /\ x \in {x}
  OBVIOUS
<1>2. Only(<<x>>, D) = <<>> \o Kept(x, D)
  BY <1>1, OnlyAppend, OnlyEmpty
<1>3. Kept(x, D) \in Seq({x} \cap D)
  BY <1>1, KeptType
<1>4. <<>> \o Kept(x, D) = Kept(x, D)
  BY <1>3, ConcatEmptySeq
<1>5. QED
  BY <1>2, <1>4

\* A sequence over the set is kept as it is.
LEMMA OnlyAll ==
  ASSUME NEW D, NEW s \in Seq(D)
  PROVE  Only(s, D) = s
<1> DEFINE n == Len(s)
           P(i) == SubSeq(s, 1, i)
           T == {i \in 0 .. n : Only(P(i), D) = P(i)}
<1>1. n \in Nat /\ \A i \in 0 .. n : P(i) \in Seq(D)
  OBVIOUS
<1>2. 0 \in T
  <2>1. P(0) = <<>> /\ 0 \in 0 .. n
    OBVIOUS
  <2> HIDE DEF P
  <2>2. QED
    BY <2>1, OnlyEmpty
<1>3. ASSUME NEW i \in 0 .. n - 1, i \in T
      PROVE  i + 1 \in T
  <2>1. i \in 0 .. n /\ i + 1 \in 1 .. n /\ i + 1 \in 0 .. n /\ s[i + 1] \in D
    OBVIOUS
  <2> DEFINE x == s[i + 1]
             p == P(i)
  <2>2. P(i + 1) = p \o <<x>>
    BY <2>1
  <2>3. p \in Seq(D) /\ x \in D /\ Only(p, D) = p
    BY <1>1, <1>3, <2>1
  <2> HIDE DEF p, x, P
  <2>4. Only(p \o <<x>>, D) = Only(p, D) \o <<x>>
    <3>1. p \o <<x>> = Append(p, x)
      BY <2>3, AppendIsConcat
    <3>2. Only(Append(p, x), D) = Only(p, D) \o Kept(x, D)
      BY <2>3, OnlyAppend
    <3>3. Kept(x, D) = <<x>>
      BY <2>3 DEF Kept
    <3>4. QED
      BY <3>1, <3>2, <3>3
  <2>5. QED
    BY <2>1, <2>2, <2>3, <2>4
<1>4. \A i \in 0 .. n : i \in T
  <2> HIDE DEF T, n
  <2>1. QED
    BY <1>1, <1>2, <1>3, Climb
<1>5. n \in T /\ P(n) = s
  BY <1>1, <1>4, SubSeqFull
<1>6. QED
  BY <1>5

\* A sequence outside the set is dropped.
LEMMA OnlyNone ==
  ASSUME NEW S, NEW D, NEW s \in Seq(S), S \cap D = {}
  PROVE  Only(s, D) = <<>>
<1>1. Only(s, D) \in Seq({})
  BY OnlyType
<1>2. QED
  BY <1>1

-----------------------------------------------------------------------------
(* Pieces of sequences.                                                    *)

\* Concatenation under a name that the provers leave alone: its laws below are
\* all they see of it.
Cat(a, b) == a \o b

\* Concatenation joins the elements and is associative.
LEMMA Grouped ==
  ASSUME NEW S
  PROVE  /\ \A a, b, c \in Seq(S) : Cat(Cat(a, b), c) = Cat(a, Cat(b, c))
         /\ \A a, b \in Seq(S) : Cat(a, b) \in Seq(S)
<1>1. ASSUME NEW a \in Seq(S), NEW b \in Seq(S), NEW c \in Seq(S)
      PROVE  (a \o b) \o c = a \o (b \o c)
  BY Regroup
<1>2. \A a, b \in Seq(S) : a \o b \in Seq(S)
  OBVIOUS
<1>3. QED
  BY <1>1, <1>2, Zenon DEF Cat

\* Lengths and elements of a concatenation.
LEMMA Joined ==
  ASSUME NEW S, NEW a \in Seq(S), NEW b \in Seq(S)
  PROVE  /\ Cat(a, b) \in Seq(S) /\ Len(Cat(a, b)) = Len(a) + Len(b)
         /\ Len(a) \in Nat /\ Len(b) \in Nat
         /\ \A i \in 1 .. Len(a) : Cat(a, b)[i] = a[i]
         /\ \A i \in 1 .. Len(b) : Cat(a, b)[Len(a) + i] = b[i]
BY DEF Cat

\* Nothing added in front or behind.
LEMMA JoinedEmpty ==
  ASSUME NEW S
  PROVE  \A a \in Seq(S) : Cat(a, <<>>) = a /\ Cat(<<>>, a) = a /\ <<>> \in Seq(S)
BY DEF Cat

\* The elements behind the m-th up to the n-th.
LEMMA Piece ==
  ASSUME NEW S, NEW s \in Seq(S), NEW m \in Nat, NEW n \in Nat, m <= n, n <= Len(s)
  PROVE  /\ SubSeq(s, m + 1, n) \in Seq(S) /\ Len(SubSeq(s, m + 1, n)) = n - m
         /\ \A i \in 1 .. n - m : SubSeq(s, m + 1, n)[i] = s[m + i]
<1>1. \A i \in 1 .. Len(s) : s[i] \in S
  OBVIOUS
<1>2. m + 1 \in Int /\ n \in Int /\ \A i \in m + 1 .. n : s[i] \in S
  BY <1>1
<1>3. /\ SubSeq(s, m + 1, n) \in Seq(S)
      /\ Len(SubSeq(s, m + 1, n)) = IF m + 1 <= n THEN n - (m + 1) + 1 ELSE 0
      /\ \A i \in 1 .. n - (m + 1) + 1 : SubSeq(s, m + 1, n)[i] = s[(m + 1) + i - 1]
  BY <1>2, SubSeqProperties
<1>4. QED
  BY <1>3, SMTT(30)

\* Two pieces in a row, and the whole.
LEMMA Pieces ==
  ASSUME NEW S, NEW s \in Seq(S), NEW l \in Nat, NEW m \in Nat, NEW n \in Nat,
         l <= m, m <= n, n <= Len(s)
  PROVE  Cat(SubSeq(s, l + 1, m), SubSeq(s, m + 1, n)) = SubSeq(s, l + 1, n)
<1>1. l + 1 \in 1 .. Len(s) + 1 /\ m \in (l + 1) - 1 .. Len(s) /\ n \in m .. Len(s)
  OBVIOUS
<1>2. QED
  BY <1>1, ConcatAdjacentSubSeq DEF Cat

\* The first n elements and the rest.
LEMMA Halves ==
  ASSUME NEW S, NEW s \in Seq(S), NEW n \in Nat, n <= Len(s)
  PROVE  /\ SubSeq(s, 1, n) \in Seq(S) /\ SubSeq(s, n + 1, Len(s)) \in Seq(S)
         /\ Len(SubSeq(s, 1, n)) = n /\ Len(SubSeq(s, n + 1, Len(s))) = Len(s) - n
         /\ Cat(SubSeq(s, 1, n), SubSeq(s, n + 1, Len(s))) = s
<1>1. Len(s) \in Nat /\ 0 \in Nat /\ 0 <= n /\ 0 + 1 = 1 /\ n - 0 = n
  OBVIOUS
<1>2. SubSeq(s, 0 + 1, n) \in Seq(S) /\ Len(SubSeq(s, 0 + 1, n)) = n - 0
  BY <1>1, Piece
<1>3. SubSeq(s, n + 1, Len(s)) \in Seq(S) /\ Len(SubSeq(s, n + 1, Len(s))) = Len(s) - n
  BY <1>1, Piece
<1>4. SubSeq(s, 1, n) \o SubSeq(s, n + 1, Len(s)) = SubSeq(s, 1, Len(s))
  <2>1. 1 \in 1 .. Len(s) + 1 /\ n \in 1 - 1 .. Len(s) /\ Len(s) \in n .. Len(s)
    BY <1>1
  <2>2. QED
    BY <2>1, ConcatAdjacentSubSeq
<1>5. SubSeq(s, 1, Len(s)) = s
  BY SubSeqFull
<1>6. QED
  BY <1>1, <1>2, <1>3, <1>4, <1>5 DEF Cat

\* Elements added behind three pieces.
LEMMA AddBehind ==
  ASSUME NEW S, NEW g \in Seq(S), NEW x \in Seq(S), NEW y \in Seq(S), NEW d \in Seq(S)
  PROVE  Cat(g, Cat(x, Cat(y, d))) = Cat(Cat(g, Cat(x, y)), d)
BY Grouped

\* Elements that move from the front of the rest to the end of the first piece.
LEMMA MoveFront ==
  ASSUME NEW S, NEW g \in Seq(S), NEW x \in Seq(S), NEW y \in Seq(S), NEW d \in Seq(S)
  PROVE  Cat(Cat(g, x), Cat(y, d)) = Cat(g, Cat(Cat(x, y), d))
BY Grouped

\* What a concatenation begins with.
LEMMA Begins ==
  ASSUME NEW S, NEW a \in Seq(S), NEW x \in Seq(S)
  PROVE  IsPrefix(a, Cat(a, x))
<1> DEFINE c == Cat(a, x)
<1>1. c \in Seq(S) /\ Len(c) = Len(a) + Len(x) /\ Len(a) \in Nat /\ Len(x) \in Nat
      /\ \A i \in 1 .. Len(a) : c[i] = a[i]
  BY DEF Cat
<1> HIDE DEF c
<1>2. Len(a) <= Len(c)
  BY <1>1
<1>3. SubSeq(c, 1, Len(a)) \in Seq(S) /\ Len(SubSeq(c, 1, Len(a))) = Len(a)
  BY <1>1, <1>2, Halves
<1>4. \A i \in 1 .. Len(a) : SubSeq(c, 1, Len(a))[i] = a[i]
  <2>1. 0 + 1 = 1 /\ Len(a) - 0 = Len(a) /\ 0 <= Len(a) /\ 0 \in Nat /\ \A i \in 1 .. Len(a) : 0 + i = i
    BY <1>1
  <2>2. \A i \in 1 .. Len(a) - 0 : SubSeq(c, 0 + 1, Len(a))[i] = c[0 + i]
    BY <1>1, <1>2, <2>1, Piece
  <2>3. QED
    BY <1>1, <2>1, <2>2
<1>5. SubSeq(c, 1, Len(a)) = a
  BY <1>3, <1>4, SeqEqual
<1>6. SubSeq(a, 1, Len(a)) = a
  BY SubSeqFull
<1>7. QED
  BY <1>2, <1>5, <1>6 DEF IsPrefix, c

-----------------------------------------------------------------------------
(* Rising sequences of numbers.                                            *)

Rising(s) == \A i, j \in 1 .. Len(s) : i < j => s[i] < s[j]

\* Every element is above lo and not above hi.
Between(s, lo, hi) == \A i \in 1 .. Len(s) : lo < s[i] /\ s[i] <= hi

\* A rising sequence followed by one that is above it.
LEMMA RisingCat ==
  ASSUME NEW a \in Seq(Nat), NEW b \in Seq(Nat), NEW l \in Nat, NEW m \in Nat, NEW h \in Nat,
         l <= m, m <= h, Rising(a), Rising(b), Between(a, l, m), Between(b, m, h)
  PROVE  Rising(Cat(a, b)) /\ Between(Cat(a, b), l, h)
<1> DEFINE c == Cat(a, b)
           p == Len(a)
           q == Len(b)
<1>1. /\ c \in Seq(Nat) /\ Len(c) = p + q /\ p \in Nat /\ q \in Nat
      /\ (\A i \in 1 .. p : c[i] = a[i]) /\ \A i \in 1 .. q : c[p + i] = b[i]
  BY DEF Cat
<1>2. /\ \A i \in 1 .. p : a[i] \in Nat /\ l < a[i] /\ a[i] <= m
      /\ \A i \in 1 .. q : b[i] \in Nat /\ m < b[i] /\ b[i] <= h
  BY DEF Between
<1>3. (\A i, j \in 1 .. p : i < j => a[i] < a[j]) /\ \A i, j \in 1 .. q : i < j => b[i] < b[j]
  BY DEF Rising
<1> HIDE DEF c, p, q
<1>4. \A i \in p + 1 .. p + q : i - p \in 1 .. q /\ c[i] = b[i - p]
  <2>1. \A i \in p + 1 .. p + q : i - p \in 1 .. q /\ i = p + (i - p)
    BY <1>1
  <2>2. QED
    BY <1>1, <2>1
<1>5. \A i \in 1 .. p + q : i \in 1 .. p \/ i \in p + 1 .. p + q
  BY <1>1
<1>6. \A i \in 1 .. p + q : l < c[i] /\ c[i] <= h
  <2>1. ASSUME NEW i \in 1 .. p PROVE l < c[i] /\ c[i] <= h
    <3>1. c[i] = a[i] /\ a[i] \in Nat /\ l < a[i] /\ a[i] <= m
      BY <1>1, <1>2
    <3>2. QED
      BY <3>1
  <2>2. ASSUME NEW i \in p + 1 .. p + q PROVE l < c[i] /\ c[i] <= h
    <3>1. PICK j \in 1 .. q : c[i] = b[j]
      BY <1>4
    <3>2. b[j] \in Nat /\ m < b[j] /\ b[j] <= h
      BY <1>2
    <3>3. QED
      BY <3>1, <3>2
  <2>3. QED
    BY <1>5, <2>1, <2>2
<1>7. ASSUME NEW i \in 1 .. p + q, NEW j \in 1 .. p + q, i < j PROVE c[i] < c[j]
  <2>1. CASE j \in 1 .. p
    <3>1. i \in 1 .. p
      BY <1>1, <1>7, <2>1
    <3>2. QED
      BY <1>1, <1>3, <1>7, <2>1, <3>1
  <2>2. CASE i \in 1 .. p /\ j \in p + 1 .. p + q
    <3>1. c[i] = a[i] /\ c[j] = b[j - p] /\ j - p \in 1 .. q
      BY <1>1, <1>4, <2>2
    <3>2. QED
      BY <1>2, <2>2, <3>1
  <2>3. CASE i \in p + 1 .. p + q /\ j \in p + 1 .. p + q
    <3>1. c[i] = b[i - p] /\ c[j] = b[j - p] /\ i - p \in 1 .. q /\ j - p \in 1 .. q /\ i - p < j - p
      BY <1>1, <1>4, <1>7, <2>3, SMTT(30)
    <3>2. QED
      BY <1>3, <3>1
  <2>4. QED
    BY <1>1, <1>5, <1>7, <2>1, <2>2, <2>3
<1>8. QED
  BY <1>1, <1>6, <1>7 DEF Rising, Between, c

\* A sequence of elements of D.
LEMMA SeqOver ==
  ASSUME NEW S, NEW s \in Seq(S), NEW D, \A i \in 1 .. Len(s) : s[i] \in D
  PROVE  s \in Seq(D)
<1>1. Len(s) \in Nat /\ s \in [1 .. Len(s) -> D]
  OBVIOUS
<1>2. QED
  BY <1>1

\* The part of a rising sequence up to w is its beginning.
LEMMA OnlyBelow ==
  ASSUME NEW s \in Seq(Nat), Rising(s), NEW w \in Nat
  PROVE  \E k \in 0 .. Len(s) : /\ Only(s, 0 .. w) = SubSeq(s, 1, k)
                                /\ \A i \in 1 .. k : s[i] <= w
                                /\ \A i \in k + 1 .. Len(s) : s[i] > w
<1> DEFINE n == Len(s)
           Split(i, k) == (\A j \in 1 .. k : s[j] <= w) /\ \A j \in k + 1 .. i : s[j] > w
           T == {i \in 0 .. n : \E k \in 0 .. i : Split(i, k)}
<1>1. n \in Nat /\ \A i \in 1 .. n : s[i] \in Nat
  OBVIOUS
<1>2. 0 \in T
  <2>1. 0 \in 0 .. n /\ 0 \in 0 .. 0 /\ Split(0, 0)
    BY <1>1
  <2>2. QED
    BY <2>1
<1>3. ASSUME NEW i \in 0 .. n - 1, i \in T PROVE i + 1 \in T
  <2>1. PICK k \in 0 .. i : Split(i, k)
    BY <1>3
  <2>2. i + 1 \in 1 .. n /\ i + 1 \in 0 .. n /\ s[i + 1] \in Nat /\ k \in 0 .. i + 1 /\ i + 1 \in 0 .. i + 1
    BY <1>1
  <2>3. CASE s[i + 1] <= w
    <3>1. \A j \in 1 .. i + 1 : s[j] <= w
      <4>1. ASSUME NEW j \in 1 .. i + 1 PROVE s[j] <= w
        <5>1. j = i + 1 \/ (j \in 1 .. n /\ j < i + 1)
          BY <1>1, <2>2
        <5>2. CASE j \in 1 .. n /\ j < i + 1
          <6>1. s[j] < s[i + 1] /\ s[j] \in Nat
            BY <1>1, <2>2, <5>2 DEF Rising
          <6>2. QED
            BY <2>2, <2>3, <6>1
        <5>3. QED
          BY <2>3, <5>1, <5>2
      <4>2. QED
        BY <4>1
    <3>2. Split(i + 1, i + 1)
      BY <3>1, <2>2
    <3>3. QED
      BY <2>2, <3>2
  <2>4. CASE s[i + 1] > w
    <3>1. \A j \in k + 1 .. i + 1 : j \in k + 1 .. i \/ j = i + 1
      BY <1>1
    <3>2. Split(i + 1, k)
      BY <2>1, <2>4, <3>1
    <3>3. QED
      BY <2>2, <3>2
  <2>5. QED
    BY <2>2, <2>3, <2>4
<1>4. n \in T
  <2>1. \A i \in 0 .. n - 1 : i \in T => i + 1 \in T
    BY <1>3
  <2> HIDE DEF T
  <2>2. \A i \in 0 .. n : i \in T
    BY <1>1, <1>2, <2>1, Climb
  <2>3. QED
    BY <1>1, <2>2
<1>5. PICK k \in 0 .. n : Split(n, k)
  BY <1>4
<1> DEFINE a == SubSeq(s, 1, k)
           b == SubSeq(s, k + 1, n)
<1>6. k \in Nat /\ k <= n
  BY <1>1
<1>7. a \in Seq(Nat) /\ b \in Seq(Nat) /\ Len(a) = k /\ Len(b) = n - k /\ Cat(a, b) = s
  BY <1>6, Halves
<1>8. Only(a, 0 .. w) = a
  <2>1. \A i \in 1 .. k : a[i] = s[i]
    BY <1>6
  <2>2. \A i \in 1 .. k : a[i] \in 0 .. w
    BY <1>1, <1>5, <1>6, <2>1
  <2> HIDE DEF a
  <2>3. a \in Seq(0 .. w)
    BY <1>7, <2>2, SeqOver
  <2>4. QED
    BY <2>3, OnlyAll
<1>9. Only(b, 0 .. w) = <<>>
  <2> DEFINE S == {x \in Nat : x > w}
  <2>1. \A i \in 1 .. n - k : b[i] = s[k + i]
    BY <1>1, <1>6, Piece
  <2>2. \A i \in 1 .. n - k : k + i \in k + 1 .. n /\ k + i \in 1 .. n
    BY <1>1, <1>6
  <2>3. \A i \in 1 .. n - k : b[i] \in S
    BY <1>1, <1>5, <2>1, <2>2
  <2>4. S \cap (0 .. w) = {}
    OBVIOUS
  <2> HIDE DEF b, S
  <2>5. b \in Seq(S)
    BY <1>7, <2>3, SeqOver
  <2>6. QED
    BY <2>4, <2>5, OnlyNone
<1>10. Only(s, 0 .. w) = a
  <2> HIDE DEF a, b, Split, T
  <2>1. Only(Cat(a, b), 0 .. w) = Cat(Only(a, 0 .. w), Only(b, 0 .. w))
    BY <1>7, OnlyConcat, ZenonT(40) DEF Cat
  <2>2. QED
    BY <1>7, <1>8, <1>9, <2>1, JoinedEmpty, Zenon
<1>11. QED
  BY <1>5, <1>10

\* With a higher limit there is more behind.
LEMMA OnlyGrows ==
  ASSUME NEW s \in Seq(Nat), Rising(s), NEW v \in Nat, NEW w \in Nat, v <= w
  PROVE  \E x \in Seq(Nat) : Only(s, 0 .. w) = Cat(Only(s, 0 .. v), x)
<1> DEFINE n == Len(s)
<1>1. PICK k \in 0 .. n : /\ Only(s, 0 .. v) = SubSeq(s, 1, k)
                          /\ \A i \in 1 .. k : s[i] <= v
                          /\ \A i \in k + 1 .. n : s[i] > v
  BY OnlyBelow
<1>2. PICK m \in 0 .. n : /\ Only(s, 0 .. w) = SubSeq(s, 1, m)
                          /\ \A i \in 1 .. m : s[i] <= w
                          /\ \A i \in m + 1 .. n : s[i] > w
  BY OnlyBelow
<1>3. n \in Nat /\ k \in Nat /\ m \in Nat /\ m <= n /\ 0 \in Nat /\ 0 <= k /\ 0 + 1 = 1
      /\ \A i \in 1 .. n : s[i] \in Nat
  OBVIOUS
<1>4. k <= m
  <2>1. SUFFICES ASSUME k > m PROVE FALSE
    BY <1>3
  <2>2. k \in 1 .. k /\ k \in m + 1 .. n /\ k \in 1 .. n
    BY <1>3, <2>1
  <2>3. s[k] <= v /\ s[k] > w /\ s[k] \in Nat
    BY <1>1, <1>2, <1>3, <2>2
  <2>4. QED
    BY <2>3
<1>5. Cat(SubSeq(s, 0 + 1, k), SubSeq(s, k + 1, m)) = SubSeq(s, 0 + 1, m)
  BY <1>3, <1>4, Pieces, ZenonT(40)
<1>6. SubSeq(s, k + 1, m) \in Seq(Nat)
  BY <1>3, <1>4, Piece
<1>7. Only(s, 0 .. w) = Cat(Only(s, 0 .. v), SubSeq(s, k + 1, m))
  BY <1>1, <1>2, <1>3, <1>5
<1>8. QED
  BY <1>6, <1>7

\* Rising sequences on top of each other: the i-th lies between E[i - 1] and E[i].
Layers(s, E) == \A i \in 1 .. Len(s) : E[i - 1] <= E[i] /\ Rising(s[i]) /\ Between(s[i], E[i - 1], E[i])

\* The first i layers rise, up to E[i].
LEMMA LayersRise ==
  ASSUME NEW s \in Seq(Seq(Nat)), NEW E \in [0 .. Len(s) -> Nat], Layers(s, E),
         NEW F \in [0 .. Len(s) -> Seq(Nat)], Joins(s, F)
  PROVE  \A i \in 0 .. Len(s) : E[0] <= E[i] /\ Rising(F[i]) /\ Between(F[i], E[0], E[i])
<1> DEFINE n == Len(s)
           Up(i) == E[0] <= E[i] /\ Rising(F[i]) /\ Between(F[i], E[0], E[i])
           T == {i \in 0 .. n : Up(i)}
<1>1. n \in Nat /\ 0 \in 0 .. n /\ E[0] \in Nat /\ \A i \in 1 .. n : s[i] \in Seq(Nat)
  OBVIOUS
<1>2. 0 \in T
  <2>1. F[0] = <<>> /\ Len(<<>>) = 0
    BY DEF Joins
  <2>2. Rising(F[0]) /\ Between(F[0], E[0], E[0]) /\ E[0] <= E[0]
    BY <1>1, <2>1 DEF Rising, Between
  <2>3. QED
    BY <1>1, <2>2
<1>3. ASSUME NEW i \in 0 .. n - 1, i \in T PROVE i + 1 \in T
  <2>1. i + 1 \in 1 .. n /\ i + 1 \in 0 .. n /\ i \in 0 .. n /\ (i + 1) - 1 = i
    BY <1>1
  <2>2. F[i + 1] = Cat(F[i], s[i + 1])
    BY <2>1 DEF Joins, Cat
  <2>3. E[i] <= E[i + 1] /\ Rising(s[i + 1]) /\ Between(s[i + 1], E[i], E[i + 1])
    BY <2>1 DEF Layers
  <2>4. E[i] \in Nat /\ E[i + 1] \in Nat /\ F[i] \in Seq(Nat) /\ s[i + 1] \in Seq(Nat)
    BY <1>1, <2>1
  <2>5. E[0] <= E[i] /\ Rising(F[i]) /\ Between(F[i], E[0], E[i])
    BY <1>3
  <2>6. Rising(Cat(F[i], s[i + 1])) /\ Between(Cat(F[i], s[i + 1]), E[0], E[i + 1])
    BY <1>1, <2>3, <2>4, <2>5, RisingCat
  <2>7. E[0] <= E[i + 1]
    BY <1>1, <2>3, <2>4, <2>5
  <2>8. QED
    BY <2>1, <2>2, <2>6, <2>7
<1>4. \A i \in 0 .. n - 1 : i \in T => i + 1 \in T
  BY <1>3
<1> HIDE DEF T
<1>5. \A i \in 0 .. n : i \in T
  BY <1>1, <1>2, <1>4, Climb
<1>6. QED
  BY <1>5 DEF T

\* What is not above E[j] is the first j layers.
LEMMA LayersCut ==
  ASSUME NEW s \in Seq(Seq(Nat)), NEW E \in [0 .. Len(s) -> Nat], Layers(s, E),
         NEW F \in [0 .. Len(s) -> Seq(Nat)], Joins(s, F), NEW j \in 0 .. Len(s)
  PROVE  Only(F[Len(s)], 0 .. E[j]) = F[j]
<1> DEFINE n == Len(s)
           D == 0 .. E[j]
           T == {i \in 0 .. n : i < j \/ (E[j] <= E[i] /\ Only(F[i], D) = F[j])}
<1>1. n \in Nat /\ 0 \in 0 .. n /\ n \in 0 .. n /\ j \in Nat /\ E[j] \in Nat /\ F[j] \in Seq(Nat)
      /\ E[j] <= E[j] /\ ~(n < j) /\ \A i \in 1 .. n : s[i] \in Seq(Nat)
  OBVIOUS
<1>2. Only(F[j], D) = F[j]
  <2>1. Between(F[j], E[0], E[j])
    BY LayersRise
  <2>2. \A i \in 1 .. Len(F[j]) : F[j][i] \in D
    BY <1>1, <2>1 DEF Between
  <2>3. F[j] \in Seq(D)
    BY <1>1, <2>2, SeqOver
  <2>4. QED
    BY <2>3, OnlyAll
<1> HIDE DEF D
<1>3. 0 \in T
  <2>1. 0 < j \/ j = 0
    BY <1>1
  <2>2. QED
    BY <1>1, <1>2, <2>1
<1>4. ASSUME NEW i \in 0 .. n - 1, i \in T PROVE i + 1 \in T
  <2>1. i + 1 \in 1 .. n /\ i + 1 \in 0 .. n /\ i \in 0 .. n /\ (i + 1) - 1 = i
    BY <1>1
  <2>2. i + 1 < j \/ i + 1 = j \/ ~(i < j)
    BY <1>1
  <2>3. CASE i + 1 = j
    BY <1>1, <1>2, <2>1, <2>3
  <2>4. CASE ~(i < j)
    <3>1. E[j] <= E[i] /\ Only(F[i], D) = F[j]
      BY <1>4, <2>4
    <3>2. F[i + 1] = F[i] \o s[i + 1]
      BY <2>1 DEF Joins
    <3>3. E[i] <= E[i + 1] /\ Between(s[i + 1], E[i], E[i + 1])
      BY <2>1 DEF Layers
    <3>4. E[i] \in Nat /\ E[i + 1] \in Nat /\ F[i] \in Seq(Nat) /\ s[i + 1] \in Seq(Nat)
      BY <1>1, <2>1
    <3>5. Only(s[i + 1], D) = <<>>
      <4> DEFINE S == {x \in Nat : x > E[j]}
                 t == s[i + 1]
      <4>1. \A k \in 1 .. Len(t) : t[k] \in S
        BY <1>1, <3>1, <3>3, <3>4, SMTT(30) DEF Between
      <4>2. S \cap D = {}
        BY <1>1 DEF D
      <4>3. t \in Seq(Nat)
        BY <3>4
      <4> HIDE DEF S, t
      <4>4. t \in Seq(S)
        BY <4>1, <4>3, SeqOver
      <4>5. Only(t, D) = <<>>
        BY <4>2, <4>4, OnlyNone
      <4>6. QED
        BY <4>5 DEF t
    <3>6. Only(F[i] \o s[i + 1], D) = Only(F[i], D) \o Only(s[i + 1], D)
      BY <3>4, OnlyConcat, ZenonT(40)
    <3>7. F[j] \o <<>> = F[j]
      BY <1>1
    <3>8. E[j] <= E[i + 1]
      BY <1>1, <3>1, <3>3, <3>4
    <3>9. Only(F[i + 1], D) = F[j]
      BY <3>1, <3>2, <3>5, <3>6, <3>7, Zenon
    <3>10. QED
      BY <2>1, <3>8, <3>9
  <2>5. QED
    BY <2>1, <2>2, <2>3, <2>4
<1>5. \A i \in 0 .. n - 1 : i \in T => i + 1 \in T
  BY <1>4
<1> HIDE DEF T
<1>6. \A i \in 0 .. n : i \in T
  BY <1>1, <1>3, <1>5, Climb
<1>7. n \in T
  BY <1>1, <1>6
<1>8. QED
  BY <1>1, <1>7 DEF T, D
=============================================================================
