---------------------------- MODULE SieveProofs ----------------------------
(***************************************************************************)
(* What Sift does, for all sequences and sets.  Induction over the natural *)
(* numbers is stated about sets of numbers, as the provers cannot be given *)
(* a theorem that is about a predicate; it comes from the order of the     *)
(* finite sets 0..n by inclusion, which is well-founded.                   *)
(***************************************************************************)
EXTENDS Sieve, Integers, FiniteSets, FiniteSetTheorems, WellFoundedInduction, TLAPS

-----------------------------------------------------------------------------
(* Induction.                                                              *)

\* A set of natural numbers that is not empty has a smallest element.
LEMMA LeastNumber ==
  ASSUME NEW T \in SUBSET Nat, T # {}
  PROVE  \E m \in T : \A k \in T : m <= k
<1> DEFINE Upto == {0..n : n \in T}
<1>1. Upto # {} /\ Upto \subseteq FiniteSubsetsOf(Nat)
  <2>1. ASSUME NEW n \in Nat PROVE 0..n \in FiniteSubsetsOf(Nat)
    <3>1. IsFiniteSet(0..n)
      BY FS_Interval
    <3> QED BY <3>1 DEF FiniteSubsetsOf
  <2> QED BY <2>1
<1>2. PICK x \in Upto : \A y \in Upto : ~(<<y, x>> \in StrictSubsetOrdering(Nat))
  <2>1. IsWellFoundedOn(StrictSubsetOrdering(Nat), FiniteSubsetsOf(Nat))
    BY FS_StrictSubsetOrderingWellFounded
  <2> HIDE DEF Upto
  <2> QED BY <1>1, <2>1, WFMin
<1>3. PICK m \in T : x = 0..m
  OBVIOUS
<1>4. ASSUME NEW k \in T, k < m PROVE FALSE
  <2>1. 0..k \in Upto
    OBVIOUS
  <2>2. 0..k \subseteq 0..m /\ 0..k # 0..m /\ 0..m \subseteq Nat
    BY <1>4
  <2>3. <<0..k, 0..m>> \in StrictSubsetOrdering(Nat)
    BY <2>2 DEF StrictSubsetOrdering
  <2> QED BY <1>2, <1>3, <2>1, <2>3
<1> QED BY <1>4

\* What has 0 and with every number the next has them all.
LEMMA Induction ==
  ASSUME NEW T, 0 \in T, \A n \in Nat : n \in T => n + 1 \in T
  PROVE  \A n \in Nat : n \in T
<1> SUFFICES ASSUME NEW n \in Nat, n \notin T PROVE FALSE
  OBVIOUS
<1> DEFINE Out == {k \in Nat : k \notin T}
<1>1. PICK m \in Out : \A k \in Out : m <= k
  <2>1. Out \in SUBSET Nat /\ n \in Out
    OBVIOUS
  <2> HIDE DEF Out
  <2> QED BY <2>1, LeastNumber
<1>2. m # 0 /\ m \in Nat
  OBVIOUS
<1>3. m - 1 \in Nat /\ m - 1 \notin Out
  BY <1>1, <1>2
<1>4. m - 1 \in T /\ m = (m - 1) + 1
  BY <1>2, <1>3
<1> QED BY <1>1, <1>3, <1>4

\* The same up to a number.
LEMMA InductionTo ==
  ASSUME NEW m \in Nat, NEW T, 0 \in T, \A n \in 1..m : n - 1 \in T => n \in T
  PROVE  0..m \subseteq T
<1> DEFINE In == {n \in Nat : n <= m => n \in T}
<1>1. 0 \in In
  OBVIOUS
<1>2. ASSUME NEW n \in Nat, n \in In PROVE n + 1 \in In
  <2> SUFFICES ASSUME n + 1 <= m PROVE n + 1 \in T
    OBVIOUS
  <2>1. n + 1 \in 1..m /\ (n + 1) - 1 = n /\ n \in T
    BY <1>2
  <2> QED BY <2>1
<1>3. \A n \in Nat : n \in In
  <2> HIDE DEF In
  <2> QED BY <1>1, <1>2, Induction
<1> QED BY <1>3

\* The functions that give b at 0 and at n what f makes, for n, of the one before.
Steps(A, m) == [1..m -> [A -> A]]
Runs(A, b, m, f) == {g \in [0..m -> A] : g[0] = b /\ \A n \in 1..m : g[n] = f[n][g[n - 1]]}

\* There is one: by induction over its domain.
LEMMA Recursion ==
  ASSUME NEW A, NEW b \in A, NEW m \in Nat, NEW f \in Steps(A, m)
  PROVE  Runs(A, b, m, f) # {}
<1> DEFINE Good(g, k) == g[0] = b /\ \A n \in 1..k : g[n] = f[n][g[n - 1]]
           There == {k \in Nat : k <= m => \E g \in [0..k -> A] : Good(g, k)}
<1>1. 0 \in There
  <2> DEFINE g == [n \in 0..0 |-> b]
  <2>1. g \in [0..0 -> A] /\ Good(g, 0)
    OBVIOUS
  <2> HIDE DEF g, Good
  <2> QED BY <2>1
<1>2. ASSUME NEW k \in Nat, k \in There PROVE k + 1 \in There
  <2> SUFFICES ASSUME k + 1 <= m PROVE \E g \in [0..(k + 1) -> A] : Good(g, k + 1)
    OBVIOUS
  <2>1. PICK g \in [0..k -> A] : Good(g, k)
    BY <1>2
  <2> DEFINE h == [n \in 0..(k + 1) |-> IF n = k + 1 THEN f[k + 1][g[k]] ELSE g[n]]
  <2>2. g[k] \in A /\ k + 1 \in 1..m
    OBVIOUS
  <2>3. h \in [0..(k + 1) -> A]
    <3>1. f[k + 1][g[k]] \in A
      BY <2>2 DEF Steps
    <3> QED BY <3>1
  <2>4. h[0] = b
    BY <2>1
  <2>5. ASSUME NEW n \in 1..(k + 1) PROVE h[n] = f[n][h[n - 1]]
    <3>1. n - 1 \in 0..k /\ h[n - 1] = g[n - 1]
      OBVIOUS
    <3>2. CASE n = k + 1
      <4>1. n - 1 = k /\ h[n] = f[k + 1][g[k]]
        BY <3>2
      <4> QED BY <3>1, <3>2, <4>1
    <3>3. CASE n # k + 1
      <4>1. n \in 1..k /\ h[n] = g[n]
        BY <3>3
      <4>2. g[n] = f[n][g[n - 1]]
        BY <2>1, <4>1
      <4> QED BY <3>1, <4>1, <4>2
    <3> QED BY <3>2, <3>3
  <2> HIDE DEF h
  <2> QED BY <2>3, <2>4, <2>5
<1>3. m \in There
  <2> HIDE DEF There
  <2> QED BY <1>1, <1>2, Induction
<1> QED BY <1>3 DEF Runs

-----------------------------------------------------------------------------
(* Sift.                                                                   *)

\* The function that Sifted names.
LEMMA SiftedIs ==
  ASSUME NEW R, NEW s \in Seq(R), NEW S
  PROVE  Sifted(s, S) = [n \in 0..Len(s) |->
           IF n = 0 THEN <<>>
           ELSE IF s[n] \in S THEN Append(Sifted(s, S)[n - 1], s[n]) ELSE Sifted(s, S)[n - 1]]
<1> DEFINE Step(g, n) == IF n = 0 THEN <<>> ELSE IF s[n] \in S THEN Append(g[n - 1], s[n]) ELSE g[n - 1]
           A == Seq(R)
           f == [n \in 1..Len(s) |-> [x \in A |-> IF s[n] \in S THEN Append(x, s[n]) ELSE x]]
<1>1. <<>> \in A /\ Len(s) \in Nat
  OBVIOUS
<1>2. ASSUME NEW n \in 1..Len(s), NEW x \in A
      PROVE  /\ f[n][x] = IF s[n] \in S THEN Append(x, s[n]) ELSE x
             /\ f[n][x] \in A
  OBVIOUS
<1>3. PICK g \in [0..Len(s) -> A] : g[0] = <<>> /\ \A n \in 1..Len(s) : g[n] = f[n][g[n - 1]]
  <2>1. f \in Steps(A, Len(s))
    BY DEF Steps
  <2>2. Runs(A, <<>>, Len(s), f) # {}
    <3> HIDE DEF f, A
    <3> QED BY <1>1, <2>1, Recursion
  <2> HIDE DEF f, A
  <2> QED BY <2>2 DEF Runs
<1>4. ASSUME NEW n \in 0..Len(s) PROVE g[n] = Step(g, n)
  <2>1. CASE n # 0
    <3>1. n \in 1..Len(s) /\ n - 1 \in 0..Len(s)
      BY <1>1, <2>1
    <3>2. g[n - 1] \in A
      BY <3>1
    <3> HIDE DEF f, A
    <3> QED BY <1>2, <1>3, <2>1, <3>1, <3>2
  <2>2. CASE n = 0
    BY <1>3, <2>2
  <2> QED BY <2>1, <2>2
<1>5. g = [n \in 0..Len(s) |-> Step(g, n)]
  <2>1. g = [n \in 0..Len(s) |-> g[n]]
    OBVIOUS
  <2> HIDE DEF Step
  <2> QED BY <1>4, <2>1
<1>6. Sifted(s, S) = CHOOSE h : h = [n \in 0..Len(s) |-> Step(h, n)]
  BY DEF Sifted
<1> QED BY <1>5, <1>6

\* One element more.
LEMMA SiftedSteps ==
  ASSUME NEW R, NEW s \in Seq(R), NEW S
  PROVE  /\ Sifted(s, S)[0] = <<>>
         /\ \A n \in 0..Len(s) : n + 1 \in 0..Len(s) =>
              Sifted(s, S)[n + 1] =
                IF s[n + 1] \in S THEN Append(Sifted(s, S)[n], s[n + 1]) ELSE Sifted(s, S)[n]
<1> DEFINE f == Sifted(s, S)
<1>1. f = [n \in 0..Len(s) |->
             IF n = 0 THEN <<>> ELSE IF s[n] \in S THEN Append(f[n - 1], s[n]) ELSE f[n - 1]]
  BY SiftedIs
<1>2. Len(s) \in Nat
  OBVIOUS
<1> HIDE DEF f
<1>3. f[0] = <<>>
  BY <1>1, <1>2
<1>4. ASSUME NEW n \in 0..Len(s), n + 1 \in 0..Len(s)
      PROVE  f[n + 1] = IF s[n + 1] \in S THEN Append(f[n], s[n + 1]) ELSE f[n]
  <2>1. n + 1 # 0 /\ (n + 1) - 1 = n
    BY <1>2, <1>4
  <2> QED BY <1>1, <1>4, <2>1
<1> QED BY <1>3, <1>4 DEF f

\* Whatever is kept is of the sequence and of the set.
LEMMA SiftedIn ==
  ASSUME NEW R, NEW s \in Seq(R), NEW S
  PROVE  \A n \in 0..Len(s) : Sifted(s, S)[n] \in Seq(R \cap S)
<1> DEFINE In == {n \in Nat : n \in 0..Len(s) => Sifted(s, S)[n] \in Seq(R \cap S)}
<1>1. 0 \in In
  <2>1. Sifted(s, S)[0] = <<>>
    BY SiftedSteps
  <2>2. <<>> \in Seq(R \cap S)
    OBVIOUS
  <2> QED BY <2>1, <2>2
<1>2. ASSUME NEW n \in Nat, n \in In PROVE n + 1 \in In
  <2> SUFFICES ASSUME n + 1 \in 0..Len(s) PROVE Sifted(s, S)[n + 1] \in Seq(R \cap S)
    OBVIOUS
  <2>1. n \in 0..Len(s) /\ s[n + 1] \in R
    OBVIOUS
  <2>2. Sifted(s, S)[n] \in Seq(R \cap S)
    BY <1>2, <2>1
  <2>3. Sifted(s, S)[n + 1] =
          IF s[n + 1] \in S THEN Append(Sifted(s, S)[n], s[n + 1]) ELSE Sifted(s, S)[n]
    BY <2>1, SiftedSteps
  <2> QED BY <2>1, <2>2, <2>3
<1>3. \A n \in Nat : n \in In
  <2> HIDE DEF In
  <2> QED BY <1>1, <1>2, Induction
<1> QED BY <1>3

\* What is kept of a beginning does not depend on what follows it.
LEMMA SiftedSame ==
  ASSUME NEW R, NEW s \in Seq(R), NEW t \in Seq(R), NEW S,
         NEW m \in Nat, m <= Len(s), m <= Len(t), \A i \in 1..m : s[i] = t[i]
  PROVE  Sifted(s, S)[m] = Sifted(t, S)[m]
<1> DEFINE Same == {n \in Nat : n <= m => Sifted(s, S)[n] = Sifted(t, S)[n]}
<1>1. 0 \in Same
  BY SiftedSteps
<1>2. ASSUME NEW n \in Nat, n \in Same PROVE n + 1 \in Same
  <2> SUFFICES ASSUME n + 1 <= m PROVE Sifted(s, S)[n + 1] = Sifted(t, S)[n + 1]
    OBVIOUS
  <2>1. /\ n \in 0..Len(s) /\ n + 1 \in 0..Len(s) /\ n \in 0..Len(t) /\ n + 1 \in 0..Len(t)
        /\ s[n + 1] = t[n + 1]
    OBVIOUS
  <2>2. Sifted(s, S)[n] = Sifted(t, S)[n]
    BY <1>2
  <2>3. Sifted(s, S)[n + 1] =
          IF s[n + 1] \in S THEN Append(Sifted(s, S)[n], s[n + 1]) ELSE Sifted(s, S)[n]
    BY <2>1, SiftedSteps
  <2>4. Sifted(t, S)[n + 1] =
          IF t[n + 1] \in S THEN Append(Sifted(t, S)[n], t[n + 1]) ELSE Sifted(t, S)[n]
    BY <2>1, SiftedSteps
  <2> QED BY <2>1, <2>2, <2>3, <2>4
<1>3. \A n \in Nat : n \in Same
  <2> HIDE DEF Same
  <2> QED BY <1>1, <1>2, Induction
<1> QED BY <1>3

\* What Sift returns is a sequence of elements of both.
LEMMA SiftIn ==
  ASSUME NEW R, NEW s \in Seq(R), NEW S
  PROVE  Sift(s, S) \in Seq(R \cap S)
<1>1. Len(s) \in 0..Len(s)
  OBVIOUS
<1> QED BY <1>1, SiftedIn DEF Sift

\* Nothing is kept of nothing.
LEMMA SiftEmpty == \A S : Sift(<<>>, S) = <<>>
<1>1. <<>> \in Seq({})
  OBVIOUS
<1> QED BY <1>1, SiftedSteps DEF Sift

\* An element at the end is kept at the end, or is not kept.
LEMMA SiftAppend ==
  ASSUME NEW R, NEW s \in Seq(R), NEW e \in R, NEW S
  PROVE  Sift(Append(s, e), S) = IF e \in S THEN Append(Sift(s, S), e) ELSE Sift(s, S)
<1> DEFINE t == Append(s, e)
           m == Len(s)
<1>1. /\ t \in Seq(R) /\ m \in Nat /\ Len(t) = m + 1 /\ t[m + 1] = e
      /\ \A i \in 1..m : t[i] = s[i]
  OBVIOUS
<1> HIDE DEF t
<1>2. Sifted(t, S)[m] = Sifted(s, S)[m]
  BY <1>1, SiftedSame
<1>3. Sifted(t, S)[m + 1] = IF t[m + 1] \in S THEN Append(Sifted(t, S)[m], t[m + 1]) ELSE Sifted(t, S)[m]
  BY <1>1, SiftedSteps
<1> QED BY <1>1, <1>2, <1>3 DEF Sift, t

\* What is kept of two sequences one after the other is what is kept of each.
LEMMA SiftConcat ==
  ASSUME NEW R, NEW s \in Seq(R), NEW t \in Seq(R), NEW S
  PROVE  Sift(s \o t, S) = Sift(s, S) \o Sift(t, S)
<1> DEFINE Some(n) == SubSeq(t, 1, n)
           Sums == {n \in Nat : n <= Len(t) => Sift(s \o Some(n), S) = Sift(s, S) \o Sift(Some(n), S)}
<1>1. Sift(s, S) \in Seq(R \cap S)
  BY SiftIn
<1>2. 0 \in Sums
  <2>1. Some(0) = <<>> /\ s \o <<>> = s
    OBVIOUS
  <2>2. Sift(s, S) \o <<>> = Sift(s, S)
    BY <1>1
  <2> QED BY <2>1, <2>2, SiftEmpty
<1>3. ASSUME NEW n \in Nat, n \in Sums PROVE n + 1 \in Sums
  <2> SUFFICES ASSUME n + 1 <= Len(t)
               PROVE  Sift(s \o Some(n + 1), S) = Sift(s, S) \o Sift(Some(n + 1), S)
    OBVIOUS
  <2> DEFINE e == t[n + 1]
  <2>1. e \in R /\ Some(n) \in Seq(R) /\ s \o Some(n) \in Seq(R)
    OBVIOUS
  <2>2. Some(n + 1) = Append(Some(n), e)
    OBVIOUS
  <2>3. s \o Append(Some(n), e) = Append(s \o Some(n), e)
    BY <2>1
  <2>4. Sift(s \o Some(n), S) = Sift(s, S) \o Sift(Some(n), S)
    BY <1>3
  <2>5. Sift(Some(n), S) \in Seq(R \cap S)
    BY <2>1, SiftIn
  <2> HIDE DEF Some, e
  <2>6. Sift(Some(n + 1), S) = IF e \in S THEN Append(Sift(Some(n), S), e) ELSE Sift(Some(n), S)
    <3>1. Sift(Append(Some(n), e), S) = IF e \in S THEN Append(Sift(Some(n), S), e) ELSE Sift(Some(n), S)
      BY <2>1, SiftAppend
    <3> QED BY <2>2, <3>1
  <2>7. Sift(s \o Some(n + 1), S) =
          IF e \in S THEN Append(Sift(s \o Some(n), S), e) ELSE Sift(s \o Some(n), S)
    <3>1. Sift(Append(s \o Some(n), e), S) =
            IF e \in S THEN Append(Sift(s \o Some(n), S), e) ELSE Sift(s \o Some(n), S)
      BY <2>1, SiftAppend
    <3> QED BY <2>2, <2>3, <3>1
  <2>8. e \in S => Sift(s, S) \o Append(Sift(Some(n), S), e) = Append(Sift(s, S) \o Sift(Some(n), S), e)
    BY <1>1, <2>1, <2>5
  <2> QED BY <2>4, <2>6, <2>7, <2>8
<1>4. \A n \in Nat : n \in Sums
  <2> HIDE DEF Sums
  <2> QED BY <1>2, <1>3, Induction
<1>5. Len(t) \in Nat /\ Some(Len(t)) = t
  OBVIOUS
<1>6. Len(t) \in Sums
  <2> HIDE DEF Sums
  <2> QED BY <1>4, <1>5
<1>7. Sift(s \o Some(Len(t)), S) = Sift(s, S) \o Sift(Some(Len(t)), S)
  <2> HIDE DEF Some
  <2> QED BY <1>5, <1>6
<1> HIDE DEF Some
<1> QED BY <1>5, <1>7

\* The first element is kept as the first, or is not kept.
LEMMA SiftTail ==
  ASSUME NEW R, NEW s \in Seq(R), s # <<>>, NEW S
  PROVE  Sift(s, S) = IF Head(s) \in S THEN <<Head(s)>> \o Sift(Tail(s), S) ELSE Sift(Tail(s), S)
<1>1. Head(s) \in R /\ Tail(s) \in Seq(R) /\ <<Head(s)>> \in Seq(R) /\ s = <<Head(s)>> \o Tail(s)
  OBVIOUS
<1>2. <<Head(s)>> = Append(<<>>, Head(s)) /\ <<>> \in Seq(R)
  OBVIOUS
<1>3. Sift(<<Head(s)>>, S) = IF Head(s) \in S THEN <<Head(s)>> ELSE <<>>
  <2>1. Sift(Append(<<>>, Head(s)), S) =
          IF Head(s) \in S THEN Append(Sift(<<>>, S), Head(s)) ELSE Sift(<<>>, S)
    BY <1>1, <1>2, SiftAppend
  <2> QED BY <1>2, <2>1, SiftEmpty
<1>4. Sift(s, S) = Sift(<<Head(s)>>, S) \o Sift(Tail(s), S)
  <2> DEFINE h == <<Head(s)>>
             t == Tail(s)
  <2>1. h \in Seq(R) /\ t \in Seq(R) /\ s = h \o t
    BY <1>1
  <2> HIDE DEF h, t
  <2>2. Sift(h \o t, S) = Sift(h, S) \o Sift(t, S)
    BY <2>1, SiftConcat
  <2> QED BY <2>1, <2>2 DEF h, t
<1>5. Sift(Tail(s), S) \in Seq(R \cap S)
  BY <1>1, SiftIn
<1>6. <<>> \o Sift(Tail(s), S) = Sift(Tail(s), S)
  BY <1>5
<1> QED BY <1>3, <1>4, <1>6

\* Nothing is kept of a sequence without elements in the set.
LEMMA SiftNone ==
  ASSUME NEW R, NEW s \in Seq(R), NEW S, \A i \in 1..Len(s) : s[i] \notin S
  PROVE  Sift(s, S) = <<>>
<1> DEFINE Gone == {n \in Nat : n \in 0..Len(s) => Sifted(s, S)[n] = <<>>}
<1>1. 0 \in Gone
  BY SiftedSteps
<1>2. ASSUME NEW n \in Nat, n \in Gone PROVE n + 1 \in Gone
  <2> SUFFICES ASSUME n + 1 \in 0..Len(s) PROVE Sifted(s, S)[n + 1] = <<>>
    OBVIOUS
  <2>1. n \in 0..Len(s) /\ s[n + 1] \notin S
    OBVIOUS
  <2>2. Sifted(s, S)[n] = <<>>
    BY <1>2, <2>1
  <2> QED BY <2>1, <2>2, SiftedSteps
<1>3. \A n \in Nat : n \in Gone
  <2> HIDE DEF Gone
  <2> QED BY <1>1, <1>2, Induction
<1>4. Len(s) \in Nat
  OBVIOUS
<1> QED BY <1>3, <1>4 DEF Sift

\* A sequence of elements of the set is kept as it is.
LEMMA SiftAll ==
  ASSUME NEW R, NEW s \in Seq(R), NEW S, \A i \in 1..Len(s) : s[i] \in S
  PROVE  Sift(s, S) = s
<1> DEFINE All == {n \in Nat : n \in 0..Len(s) => Sifted(s, S)[n] = SubSeq(s, 1, n)}
<1>1. 0 \in All
  <2>1. SubSeq(s, 1, 0) = <<>>
    OBVIOUS
  <2> QED BY <2>1, SiftedSteps
<1>2. ASSUME NEW n \in Nat, n \in All PROVE n + 1 \in All
  <2> SUFFICES ASSUME n + 1 \in 0..Len(s) PROVE Sifted(s, S)[n + 1] = SubSeq(s, 1, n + 1)
    OBVIOUS
  <2>1. n \in 0..Len(s) /\ s[n + 1] \in S
    OBVIOUS
  <2>2. Sifted(s, S)[n] = SubSeq(s, 1, n)
    BY <1>2, <2>1
  <2>3. SubSeq(s, 1, n + 1) = Append(SubSeq(s, 1, n), s[n + 1])
    OBVIOUS
  <2>4. Sifted(s, S)[n + 1] = Append(Sifted(s, S)[n], s[n + 1])
    BY <2>1, SiftedSteps
  <2> QED BY <2>2, <2>3, <2>4
<1>3. \A n \in Nat : n \in All
  <2> HIDE DEF All
  <2> QED BY <1>1, <1>2, Induction
<1>4. Len(s) \in Nat /\ SubSeq(s, 1, Len(s)) = s
  OBVIOUS
<1> QED BY <1>3, <1>4 DEF Sift

\* An element of the set is kept.
LEMMA SiftSome ==
  ASSUME NEW R, NEW s \in Seq(R), NEW S, NEW i \in 1..Len(s), s[i] \in S
  PROVE  Sift(s, S) # <<>>
<1> DEFINE m == Len(s)
           T == {n \in 0..m : i <= n => Sifted(s, S)[n] # <<>>}
<1>1. m \in Nat /\ i \in Nat /\ 1 <= i /\ i <= m
  OBVIOUS
<1>2. 0 \in T
  BY <1>1
<1>3. ASSUME NEW n \in 1..m, n - 1 \in T PROVE n \in T
  <2> SUFFICES ASSUME i <= n PROVE Sifted(s, S)[n] # <<>>
    BY <1>1
  <2>1. n - 1 \in 0..m /\ (n - 1) + 1 = n /\ n \in 0..m /\ n \in Nat /\ s[n] \in R
    BY <1>1
  <2>2. Sifted(s, S)[n] = IF s[n] \in S THEN Append(Sifted(s, S)[n - 1], s[n]) ELSE Sifted(s, S)[n - 1]
    BY <2>1, SiftedSteps
  <2>3. Sifted(s, S)[n - 1] \in Seq(R \cap S)
    BY <2>1, SiftedIn
  <2>4. CASE s[n] \in S
    <3>1. Append(Sifted(s, S)[n - 1], s[n]) # <<>>
      BY <2>1, <2>3, <2>4
    <3> QED BY <2>2, <2>4, <3>1
  <2>5. CASE s[n] \notin S
    <3>1. i <= n - 1
      BY <1>1, <2>1, <2>5
    <3> QED BY <1>3, <2>2, <2>5, <3>1
  <2> QED BY <2>4, <2>5
<1>4. 0..m \subseteq T
  <2> HIDE DEF T, m
  <2> QED BY <1>1, <1>2, <1>3, InductionTo
<1> QED BY <1>1, <1>4 DEF Sift

\* What is in the sequence and in the set is somewhere in what is kept.
LEMMA SiftHas ==
  ASSUME NEW R, NEW s \in Seq(R), NEW S, NEW i \in 1..Len(s), s[i] \in S
  PROVE  \E k \in 1..Len(Sift(s, S)) : Sift(s, S)[k] = s[i]
<1> DEFINE m == Len(s)
           e == s[i]
           T == {n \in 0..m : i <= n =>
                   \E k \in 1..Len(Sifted(s, S)[n]) : Sifted(s, S)[n][k] = e}
<1>1. m \in Nat /\ i \in Nat /\ 1 <= i /\ i <= m
  OBVIOUS
<1>2. 0 \in T
  BY <1>1
<1>3. ASSUME NEW n \in 1..m, n - 1 \in T PROVE n \in T
  <2> SUFFICES ASSUME i <= n
               PROVE  \E k \in 1..Len(Sifted(s, S)[n]) : Sifted(s, S)[n][k] = e
    BY <1>1
  <2>1. n - 1 \in 0..m /\ (n - 1) + 1 = n /\ n \in 0..m /\ n \in Nat /\ s[n] \in R
    BY <1>1
  <2> DEFINE u == Sifted(s, S)[n - 1]
             v == Sifted(s, S)[n]
  <2>2. v = IF s[n] \in S THEN Append(u, s[n]) ELSE u
    BY <2>1, SiftedSteps
  <2>3. u \in Seq(R)
    <3>1. u \in Seq(R \cap S)
      BY <2>1, SiftedIn
    <3> HIDE DEF u
    <3> QED BY <3>1
  <2>4. CASE i = n
    <3>1. v = Append(u, e)
      BY <2>2, <2>4
    <3> HIDE DEF u, v, e
    <3>2. Len(v) \in 1..Len(v) /\ v[Len(v)] = e
      BY <2>3, <3>1
    <3> QED BY <3>2 DEF v, e
  <2>5. CASE i # n
    <3>1. i <= n - 1
      BY <1>1, <2>1, <2>5
    <3>2. PICK k \in 1..Len(u) : u[k] = e
      BY <1>3, <3>1
    <3> HIDE DEF u, v, e
    <3>3. k \in 1..Len(v) /\ v[k] = e
      BY <2>1, <2>2, <2>3, <3>2
    <3> QED BY <3>3 DEF v, e
  <2> QED BY <2>4, <2>5
<1>4. 0..m \subseteq T
  <2> HIDE DEF T, m
  <2> QED BY <1>1, <1>2, <1>3, InductionTo
<1>5. m \in T
  <2> HIDE DEF T, m
  <2> QED BY <1>1, <1>4
<1> QED BY <1>1, <1>5 DEF Sift

\* A sequence of which each element is related to all that follow it.
Ordered(s, O) == \A i, j \in 1..Len(s) : i < j => <<s[i], s[j]>> \in O

\* Leaving some out keeps the order of the others.
LEMMA SiftOrdered ==
  ASSUME NEW R, NEW s \in Seq(R), NEW S, NEW O, Ordered(s, O)
  PROVE  Ordered(Sift(s, S), O)
<1> DEFINE m == Len(s)
           Good(n, t) == /\ t \in Seq(R)
                         /\ \A i \in 1..Len(t) : \E k \in 1..n : t[i] = s[k]
                         /\ Ordered(t, O)
           T == {n \in 0..m : Good(n, Sifted(s, S)[n])}
<1>1. m \in Nat
  OBVIOUS
<1>2. 0 \in T
  <2>1. Sifted(s, S)[0] = <<>>
    BY SiftedSteps
  <2>2. Good(0, <<>>)
    BY DEF Ordered
  <2>3. Good(0, Sifted(s, S)[0])
    <3> HIDE DEF Good
    <3> QED BY <2>1, <2>2
  <2> HIDE DEF Good
  <2> QED BY <1>1, <2>3
<1>3. ASSUME NEW n \in 1..m, n - 1 \in T PROVE n \in T
  <2>1. n - 1 \in 0..m /\ (n - 1) + 1 = n /\ n \in 0..m /\ n \in Nat /\ s[n] \in R
    BY <1>1
  <2> DEFINE u == Sifted(s, S)[n - 1]
             v == Sifted(s, S)[n]
  <2>2. v = IF s[n] \in S THEN Append(u, s[n]) ELSE u
    BY <2>1, SiftedSteps
  <2>3. Good(n - 1, u)
    BY <1>3
  <2> HIDE DEF u, v
  <2>4. CASE v = u
    BY <1>1, <2>1, <2>3, <2>4 DEF v
  <2>5. CASE v = Append(u, s[n])
    <3>1. /\ v \in Seq(R) /\ Len(v) = Len(u) + 1 /\ v[Len(v)] = s[n] /\ Len(u) \in Nat
          /\ \A i \in 1..Len(u) : v[i] = u[i]
      BY <2>1, <2>3, <2>5
    <3>2. ASSUME NEW i \in 1..Len(v) PROVE \E k \in 1..n : v[i] = s[k]
      <4>1. CASE i = Len(v)
        BY <2>1, <3>1, <4>1
      <4>2. CASE i # Len(v)
        <5>1. i \in 1..Len(u)
          BY <3>1, <4>2
        <5>2. PICK k \in 1..n - 1 : u[i] = s[k]
          BY <2>3, <5>1
        <5> QED BY <2>1, <3>1, <5>1, <5>2
      <4> QED BY <4>1, <4>2
    <3>3. ASSUME NEW i \in 1..Len(v), NEW j \in 1..Len(v), i < j PROVE <<v[i], v[j]>> \in O
      <4>1. i \in 1..Len(u) /\ v[i] = u[i]
        BY <3>1, <3>3
      <4>2. CASE j # Len(v)
        <5>1. j \in 1..Len(u) /\ v[j] = u[j]
          BY <3>1, <4>2
        <5> QED BY <2>3, <3>3, <4>1, <5>1 DEF Ordered
      <4>3. CASE j = Len(v)
        <5>1. PICK k \in 1..n - 1 : u[i] = s[k]
          BY <2>3, <4>1
        <5>2. k \in 1..Len(s) /\ n \in 1..Len(s) /\ k < n
          BY <1>1, <2>1
        <5>3. <<s[k], s[n]>> \in O
          BY <5>2 DEF Ordered
        <5> QED BY <3>1, <4>1, <4>3, <5>1, <5>3
      <4> QED BY <4>2, <4>3
    <3> QED BY <2>1, <3>1, <3>2, <3>3 DEF v, Ordered
  <2> QED BY <2>2, <2>4, <2>5
<1>4. 0..m \subseteq T
  <2> HIDE DEF T, m
  <2> QED BY <1>1, <1>2, <1>3, InductionTo
<1>5. m \in T
  <2> HIDE DEF T, m
  <2> QED BY <1>1, <1>4
<1> QED BY <1>5 DEF Sift
=============================================================================
