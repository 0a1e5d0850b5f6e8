----------------------------- MODULE ListTheorems ------------------------------
(***************************************************************************)
(* What the proofs about lists of nodes and of groups keep needing: heads  *)
(* and tails, what is in a list and how often, the list of a set of        *)
(* numbers in their order, sums, and the least number with a property.     *)
(***************************************************************************)
EXTENDS Integers, Sequences, SequencesExt, FiniteSets, FiniteSetTheorems, SequenceTheorems,
        WellFoundedInduction, TLAPS

-------------------------------------------------------------------------------
(***************************************************************************)
(* What is in a list                                                       *)
(***************************************************************************)
\* A list and what is in it.
IsList(s) ==
    /\ DOMAIN s = 1 .. Len(s) /\ Len(s) \in Nat
    /\ \A i \in 1 .. Len(s) : s[i] \in ToSet(s)
    /\ \A x \in ToSet(s) : \E i \in 1 .. Len(s) : x = s[i]
    /\ IsInjective(s) <=> \A i, j \in 1 .. Len(s) : s[i] = s[j] => i = j
    /\ Len(s) = 0 => s = <<>>

LEMMA InList ==
    ASSUME NEW S, NEW s \in Seq(S)
    PROVE  IsList(s)
  <1>1. DOMAIN s = 1 .. Len(s) /\ Len(s) \in Nat
    BY LenProperties
  <1>2. /\ \A i \in DOMAIN s : s[i] \in ToSet(s)
        /\ \A x \in ToSet(s) : \E i \in DOMAIN s : x = s[i]
    BY DEF ToSet
  <1>3. IsInjective(s) <=> \A i, j \in DOMAIN s : s[i] = s[j] => i = j
    BY DEF IsInjective
  <1>4. Len(s) = 0 => s = <<>>
    BY EmptySeq
  <1> QED
    BY <1>1, <1>2, <1>3, <1>4 DEF IsList

LEMMA ElementsOf == \A S : \A s \in Seq(S) : ToSet(s) \subseteq S
  BY InList, ElementOfSeq DEF IsList

LEMMA NoElements == ToSet(<<>>) = {} /\ IsInjective(<<>>) /\ \A S : <<>> \in Seq(S)
  BY EmptySeq DEF ToSet, IsInjective

LEMMA HeadAndTail ==
    ASSUME NEW S, NEW s \in Seq(S), s # <<>>
    PROVE  /\ Head(s) \in S /\ Tail(s) \in Seq(S)
           /\ ToSet(s) = {Head(s)} \cup ToSet(Tail(s))
           /\ IsInjective(s) => IsInjective(Tail(s)) /\ Head(s) \notin ToSet(Tail(s))
           /\ Len(s) = 1 => Tail(s) = <<>>
  <1>1. /\ Head(s) = s[1] /\ Head(s) \in S /\ Tail(s) \in Seq(S)
        /\ Len(Tail(s)) = Len(s) - 1 /\ Len(s) \in Nat \ {0}
        /\ \A i \in 1 .. Len(Tail(s)) : Tail(s)[i] = s[i + 1]
    BY HeadTailProperties, EmptySeq
  <1>0. IsList(s) /\ IsList(Tail(s))
    BY <1>1, InList
  <1>2. ASSUME NEW x \in ToSet(s), x # s[1]
        PROVE  x \in ToSet(Tail(s))
    <2>1. PICK i \in 1 .. Len(s) : x = s[i]
      BY <1>0 DEF IsList
    <2>2. i - 1 \in 1 .. Len(Tail(s)) /\ x = Tail(s)[i - 1]
      BY <1>1, <1>2, <2>1
    <2> QED
      BY <1>1, <2>2, <1>0 DEF IsList
  <1>3. ASSUME NEW x \in ToSet(Tail(s))
        PROVE  \E i \in 2 .. Len(s) : x = s[i]
    <2>1. PICK i \in 1 .. Len(Tail(s)) : x = Tail(s)[i]
      BY <1>1, <1>0 DEF IsList
    <2> QED
      BY <1>1, <2>1
  <1>4. ToSet(s) = {Head(s)} \cup ToSet(Tail(s))
    <2>1. s[1] \in ToSet(s) /\ \A i \in 2 .. Len(s) : s[i] \in ToSet(s)
      BY <1>1, <1>0 DEF IsList
    <2> QED
      BY <1>1, <1>2, <1>3, <2>1
  <1>5. ASSUME IsInjective(s)
        PROVE  IsInjective(Tail(s)) /\ Head(s) \notin ToSet(Tail(s))
    <2>1. \A i, j \in 1 .. Len(s) : s[i] = s[j] => i = j
      BY <1>5, <1>0 DEF IsList
    <2>2. ASSUME NEW i \in 1 .. Len(Tail(s)), NEW j \in 1 .. Len(Tail(s)), Tail(s)[i] = Tail(s)[j]
          PROVE  i = j
      <3>1. i + 1 \in 1 .. Len(s) /\ j + 1 \in 1 .. Len(s) /\ s[i + 1] = s[j + 1]
        BY <1>1, <2>2
      <3>2. i + 1 = j + 1
        BY <2>1, <3>1
      <3> QED
        BY <1>1, <3>2
    <2>3. IsInjective(Tail(s))
      BY <1>1, <2>2, <1>0 DEF IsList
    <2>4. \A i \in 2 .. Len(s) : s[i] # s[1]
      BY <1>1, <2>1
    <2> QED
      BY <1>1, <1>3, <2>3, <2>4
  <1>6. Len(s) = 1 => Tail(s) = <<>>
    BY <1>0, <1>1 DEF IsList
  <1> QED
    BY <1>1, <1>4, <1>5, <1>6

LEMMA SeqOfElements ==
    ASSUME NEW S, NEW s \in Seq(S), NEW T, ToSet(s) \subseteq T
    PROVE  s \in Seq(T)
  <1>1. IsList(s)
    BY InList
  <1>2. s \in [1 .. Len(s) -> T]
    BY <1>1, LenProperties DEF IsList
  <1> QED
    BY <1>1, <1>2, SeqDef DEF IsList

\* A list of the members of S without repetitions.
Lists(s, S) == s \in Seq(S) /\ ToSet(s) = S /\ IsInjective(s)

LEMMA JoinedLists ==
    ASSUME NEW T, NEW S \in SUBSET T, NEW q \in Seq(T), IsInjective(q),
           S \cap ToSet(q) = {}, NEW s, Lists(s, S)
    PROVE  q \o s \in Seq(T) /\ IsInjective(q \o s)
  <1>1. s \in Seq(T)
    BY SeqOfElements DEF Lists
  <1> DEFINE t == q \o s
             m == Len(q)
             n == Len(s)
  <1>2. IsList(q) /\ IsList(s) /\ m \in Nat /\ n \in Nat
    BY <1>1, InList DEF IsList
  <1>3. t \in Seq(T) /\ Len(t) = m + n
        /\ \A i \in 1 .. m + n : t[i] = IF i <= m THEN q[i] ELSE s[i - m]
    BY <1>1, ConcatProperties
  <1>4. IsList(t)
    BY <1>3, InList
  <1>5. \A i \in 1 .. m : q[i] \in ToSet(q)
    BY <1>2 DEF IsList
  <1>6. \A i \in 1 .. n : s[i] \in S
    BY <1>2 DEF IsList, Lists
  <1>7. /\ \A i, j \in 1 .. m : q[i] = q[j] => i = j
        /\ \A i, j \in 1 .. n : s[i] = s[j] => i = j
    BY <1>2 DEF IsList, Lists
  <1> HIDE DEF t, m, n
  <1>8. ASSUME NEW i \in 1 .. m + n, NEW j \in 1 .. m + n, t[i] = t[j]
        PROVE  i = j
    <2>1. CASE i <= m /\ j <= m
      <3>1. i \in 1 .. m /\ j \in 1 .. m /\ q[i] = q[j]
        BY <1>2, <1>3, <1>8, <2>1
      <3> QED
        BY <1>7, <3>1
    <2>2. CASE ~(i <= m) /\ ~(j <= m)
      <3>1. i - m \in 1 .. n /\ j - m \in 1 .. n /\ s[i - m] = s[j - m]
        BY <1>2, <1>3, <1>8, <2>2
      <3>2. i - m = j - m
        BY <1>7, <3>1
      <3> QED
        BY <1>2, <3>2
    <2>3. CASE i <= m /\ ~(j <= m)
      <3>1. i \in 1 .. m /\ j - m \in 1 .. n /\ q[i] = s[j - m]
        BY <1>2, <1>3, <1>8, <2>3
      <3> QED
        BY <1>5, <1>6, <3>1
    <2>4. CASE ~(i <= m) /\ j <= m
      <3>1. j \in 1 .. m /\ i - m \in 1 .. n /\ q[j] = s[i - m]
        BY <1>2, <1>3, <1>8, <2>4
      <3> QED
        BY <1>5, <1>6, <3>1
    <2> QED
      BY <2>1, <2>2, <2>3, <2>4
  <1>9. IsInjective(t)
    BY <1>3, <1>4, <1>8 DEF IsList
  <1> QED
    BY <1>3, <1>9 DEF t

-------------------------------------------------------------------------------
(***************************************************************************)
(* Sets of numbers                                                         *)
(***************************************************************************)
\* The least number of a set: the way around an induction over the numbers.
LEMMA LeastNumber ==
    ASSUME NEW S \in SUBSET Nat, S # {}
    PROVE  \E n \in S : \A m \in S : n <= m
  <1> DEFINE R == StrictSubsetOrdering(Nat)
             T == {0 .. n : n \in S}
  <1>1. IsWellFoundedOn(R, FiniteSubsetsOf(Nat))
    BY FS_StrictSubsetOrderingWellFounded
  <1>2. T \subseteq FiniteSubsetsOf(Nat) /\ T # {}
    <2>1. \A n \in S : IsFiniteSet(0 .. n) /\ 0 .. n \in SUBSET Nat
      BY FS_Interval
    <2> QED
      BY <2>1 DEF FiniteSubsetsOf
  <1> HIDE DEF R, T
  <1>3. PICK D \in T : \A E \in T : <<E, D>> \notin R
    BY <1>1, <1>2, WFMin
  <1>4. PICK n \in S : D = 0 .. n
    BY DEF T
  <1>5. ASSUME NEW m \in S, ~(n <= m)
        PROVE  FALSE
    <2>1. m \in Nat /\ n \in Nat /\ m < n
      BY <1>5
    <2>2. 0 .. m \subseteq D /\ 0 .. m # D
      BY <1>4, <2>1
    <2>3. 0 .. m \in T
      BY DEF T
    <2>4. 0 .. m \in SUBSET Nat /\ D \in SUBSET Nat
      BY <1>4, <2>1
    <2>5. <<0 .. m, D>> \in R
      BY <2>2, <2>4 DEF R, StrictSubsetOrdering
    <2> QED
      BY <1>3, <2>3, <2>5
  <1> QED
    BY <1>5

\* Counting the members of a finite set of positions up to each of them numbers
\* them without gaps.
LEMMA Numbering ==
    ASSUME NEW I \in SUBSET Nat, IsFiniteSet(I),
           NEW f, f = [i \in I |-> Cardinality({j \in I : j <= i})]
    PROVE  /\ \A i \in I : f[i] \in 1 .. Cardinality(I)
           /\ \A k \in 1 .. Cardinality(I) : \E i \in I : f[i] = k
           /\ \A i, j \in I : f[i] = f[j] => i = j
  <1> DEFINE Upto(i) == {j \in I : j <= i}
             c == Cardinality(I)
  <1>1. c \in Nat
    BY FS_CardinalityType
  <1>2. ASSUME NEW i \in I
        PROVE  /\ Upto(i) \in SUBSET I /\ i \in Upto(i) /\ IsFiniteSet(Upto(i))
               /\ Cardinality(Upto(i)) \in 1 .. c
    <2>1. Upto(i) \in SUBSET I /\ i \in Upto(i)
      OBVIOUS
    <2> HIDE DEF Upto
    <2>2. IsFiniteSet(Upto(i)) /\ Cardinality(Upto(i)) <= c /\ Cardinality(Upto(i)) \in Nat
      BY <2>1, FS_Subset, FS_CardinalityType
    <2>3. Cardinality(Upto(i)) # 0
      BY <2>1, <2>2, FS_EmptySet
    <2> QED
      BY <1>1, <2>1, <2>2, <2>3
  <1>3. ASSUME NEW i \in I, NEW j \in I, i < j
        PROVE  Cardinality(Upto(i)) # Cardinality(Upto(j))
    <2>1. Upto(i) \in SUBSET Upto(j) /\ j \notin Upto(i)
      <3>1. /\ i \in Nat /\ j \in Nat /\ ~(j <= i)
            /\ \A x \in I : x \in Nat /\ (x <= i => x <= j)
        BY <1>3
      <3> QED
        BY <3>1
    <2>2. IsFiniteSet(Upto(j)) /\ j \in Upto(j)
      BY <1>2
    <2> HIDE DEF Upto
    <2> QED
      BY <2>1, <2>2, FS_Subset
  <1>4. \A i \in I : f[i] = Cardinality(Upto(i))
    OBVIOUS
  <1> HIDE DEF Upto
  <1>5. f \in Injection(I, 1 .. c)
    <2>1. f \in [I -> 1 .. c]
      BY <1>2, <1>4
    <2>2. ASSUME NEW i \in I, NEW j \in I, f[i] = f[j]
          PROVE  i = j
      <3>1. i \in Nat /\ j \in Nat
        OBVIOUS
      <3>2. ~(i < j) /\ ~(j < i)
        BY <1>3, <1>4, <2>2
      <3> QED
        BY <3>1, <3>2
    <2> QED
      BY <2>1, <2>2 DEF Injection, IsInjective
  <1>6. f \in Surjection(I, 1 .. c)
    <2>1. IsFiniteSet(1 .. c) /\ Cardinality(1 .. c) = c
      BY <1>1, FS_Interval
    <2> QED
      BY <1>5, <2>1, FS_Injection
  <1> QED
    BY <1>2, <1>4, <1>5, <1>6 DEF Surjection, Injection, IsInjective

\* A set of numbers in their order: the k-th is the one with k of them up to it.
Numbered(S) ==
    [k \in 1 .. Cardinality(S) |-> CHOOSE g \in S : Cardinality({h \in S : h <= g}) = k]

LEMMA NumberedLists ==
    ASSUME NEW S \in SUBSET Nat, IsFiniteSet(S)
    PROVE  Lists(Numbered(S), S)
  <1> DEFINE c == Cardinality(S)
             f == [g \in S |-> Cardinality({h \in S : h <= g})]
             Pick(k) == CHOOSE g \in S : Cardinality({h \in S : h <= g}) = k
             s == Numbered(S)
  <1>1. S \in SUBSET Nat /\ IsFiniteSet(S) /\ c \in Nat
    BY FS_CardinalityType
  <1>2. /\ \A g \in S : f[g] \in 1 .. c
        /\ \A k \in 1 .. c : \E g \in S : f[g] = k
        /\ \A g, h \in S : f[g] = f[h] => g = h
    BY <1>1, Numbering
  <1>3. s = [k \in 1 .. c |-> Pick(k)]
    BY DEF Numbered
  <1>4. \A k \in 1 .. c : Pick(k) \in S /\ f[Pick(k)] = k
    BY <1>2
  <1>5. \A g \in S : Pick(f[g]) \in S /\ f[Pick(f[g])] = f[g]
    BY <1>2, <1>4
  <1> HIDE DEF f, Pick
  <1>6. s \in [1 .. c -> S]
    BY <1>3, <1>4
  <1>7. s \in Seq(S) /\ DOMAIN s = 1 .. c
    BY <1>1, <1>6, SeqDef
  <1>8. ASSUME NEW i \in 1 .. c, NEW j \in 1 .. c, s[i] = s[j]
        PROVE  i = j
    BY <1>3, <1>4, <1>8
  <1>9. ASSUME NEW g \in S
        PROVE  f[g] \in 1 .. c /\ s[f[g]] = g
    <2>1. f[g] \in 1 .. c
      BY <1>2
    <2>2. Pick(f[g]) = g
      BY <1>2, <1>5
    <2> QED
      BY <1>3, <2>1, <2>2
  <1>10. ToSet(s) = S
    BY <1>6, <1>7, <1>9 DEF ToSet
  <1> QED
    BY <1>7, <1>8, <1>10 DEF Lists, IsInjective

\* It is in their order.
LEMMA NumberedGrow ==
    ASSUME NEW S \in SUBSET Nat, IsFiniteSet(S), NEW k \in 2 .. Cardinality(S)
    PROVE  Numbered(S)[k - 1] < Numbered(S)[k]
  <1> DEFINE c == Cardinality(S)
             Upto(g) == {h \in S : h <= g}
             Pick(i) == CHOOSE g \in S : Cardinality(Upto(g)) = i
             f == [g \in S |-> Cardinality({h \in S : h <= g})]
  <1>0. S \in SUBSET Nat /\ IsFiniteSet(S) /\ c \in Nat
    BY FS_CardinalityType
  <1>1. k - 1 \in 1 .. c /\ k \in 1 .. c
    BY <1>0
  <1>2. /\ \A g \in S : f[g] \in 1 .. c
        /\ \A i \in 1 .. c : \E g \in S : f[g] = i
        /\ \A g, h \in S : f[g] = f[h] => g = h
    BY <1>0, Numbering
  <1>3. \A i \in 1 .. c : \E g \in S : Cardinality(Upto(g)) = i
    BY <1>2
  <1>4. \A i \in 1 .. c : Pick(i) \in S /\ Cardinality(Upto(Pick(i))) = i
    BY <1>3
  <1>5. Numbered(S)[k - 1] = Pick(k - 1) /\ Numbered(S)[k] = Pick(k)
    BY <1>1 DEF Numbered
  <1> HIDE DEF Pick
  <1>6. ASSUME ~(Pick(k - 1) < Pick(k))
        PROVE  FALSE
    <2>0. PICK g \in S, h \in S : /\ g = Pick(k - 1) /\ Cardinality(Upto(g)) = k - 1
                                /\ h = Pick(k) /\ Cardinality(Upto(h)) = k
      BY <1>1, <1>4
    <2>1. g \in Nat /\ h \in Nat /\ h <= g
      BY <1>6, <2>0
    <2>2. Upto(h) \subseteq Upto(g) /\ Upto(g) \subseteq S
      <3>1. \A x \in S : x \in Nat /\ (x <= h => x <= g)
        BY <2>1
      <3> QED
        BY <3>1
    <2> HIDE DEF Upto
    <2>3. IsFiniteSet(Upto(g))
      BY <2>2, FS_Subset
    <2>4. Cardinality(Upto(h)) <= Cardinality(Upto(g))
      BY <2>2, <2>3, FS_Subset
    <2>5. k <= k - 1
      BY <2>0, <2>4
    <2> QED
      BY <1>0, <2>5
  <1> QED
    BY <1>5, <1>6

-------------------------------------------------------------------------------
(***************************************************************************)
(* Sums                                                                    *)
(***************************************************************************)
\* f[k] is the sum of the first k of the n weights w.
IsSumOf(f, w, n) == f = [k \in 0 .. n |-> IF k = 0 THEN 0 ELSE f[k - 1] + w[k]]

LEMMA SumsExist ==
    ASSUME NEW w, NEW c \in Nat
    PROVE  \E f : IsSumOf(f, w, c)
  <1> DEFINE Bad == {n \in Nat : ~\E f : IsSumOf(f, w, n)}
  <1>1. ASSUME Bad # {} PROVE FALSE
    <2>1. PICK n \in Bad : \A m \in Bad : n <= m
      BY <1>1, LeastNumber
    <2>2. CASE n = 0
      <3> DEFINE f == [k \in 0 .. 0 |-> 0]
      <3>1. IsSumOf(f, w, 0)
        BY DEF IsSumOf
      <3> QED
        BY <2>2, <3>1
    <2>3. CASE n # 0
      <3>1. n - 1 \in Nat /\ n \in Nat /\ n - 1 \notin Bad
        BY <2>1, <2>3
      <3>2. PICK g : IsSumOf(g, w, n - 1)
        BY <3>1
      <3>3. \A k \in 0 .. n - 1 : g[k] = IF k = 0 THEN 0 ELSE g[k - 1] + w[k]
        BY <3>2 DEF IsSumOf
      <3> DEFINE f == [k \in 0 .. n |-> IF k < n THEN g[k] ELSE g[n - 1] + w[n]]
      <3>4. \A k \in 0 .. n : f[k] = IF k = 0 THEN 0 ELSE f[k - 1] + w[k]
        <4> SUFFICES ASSUME NEW k \in 0 .. n
                     PROVE  f[k] = IF k = 0 THEN 0 ELSE f[k - 1] + w[k]
          OBVIOUS
        <4>1. CASE k < n
          <5>1. k \in 0 .. n - 1 /\ f[k] = g[k] /\ (k # 0 => f[k - 1] = g[k - 1])
            BY <3>1, <4>1
          <5> QED
            BY <3>3, <5>1
        <4>2. CASE k = n
          <5>1. f[k] = g[n - 1] + w[n] /\ f[k - 1] = g[n - 1] /\ k # 0
            BY <2>3, <3>1, <4>2
          <5> QED
            BY <4>2, <5>1
        <4> QED
          BY <3>1, <4>1, <4>2
      <3>5. DOMAIN f = 0 .. n /\ f = [k \in 0 .. n |-> f[k]]
        OBVIOUS
      <3> HIDE DEF f
      <3>6. IsSumOf(f, w, n)
        BY <3>4, <3>5 DEF IsSumOf
      <3> QED
        BY <2>1, <3>6
    <2> QED
      BY <2>2, <2>3
  <1> QED
    BY <1>1

\* Sums of natural numbers only grow.
LEMMA SumsGrow ==
    ASSUME NEW c \in Nat, NEW w \in [1 .. c -> Nat], NEW f, IsSumOf(f, w, c)
    PROVE  /\ f[0] = 0 /\ \A k \in 0 .. c : f[k] \in Nat
           /\ \A k \in 1 .. c : f[k] = f[k - 1] + w[k]
           /\ \A j, k \in 0 .. c : j <= k => f[j] <= f[k]
  <1>1. \A k \in 0 .. c : f[k] = IF k = 0 THEN 0 ELSE f[k - 1] + w[k]
    BY DEF IsSumOf
  <1>2. f[0] = 0 /\ \A k \in 1 .. c : f[k] = f[k - 1] + w[k]
    BY <1>1
  <1>3. \A k \in 0 .. c : f[k] \in Nat
    <2> DEFINE Bad == {k \in 0 .. c : f[k] \notin Nat}
    <2>1. ASSUME Bad # {} PROVE FALSE
      <3>1. Bad \in SUBSET Nat
        OBVIOUS
      <3>2. PICK k \in Bad : \A m \in Bad : k <= m
        BY <2>1, <3>1, LeastNumber
      <3>3. k # 0 /\ k \in 1 .. c
        BY <1>2, <3>2
      <3>4. k - 1 \in 0 .. c /\ k - 1 \notin Bad
        BY <3>2, <3>3
      <3>5. f[k - 1] \in Nat /\ w[k] \in Nat /\ f[k] = f[k - 1] + w[k]
        BY <1>2, <3>3, <3>4
      <3> QED
        BY <3>2, <3>5
    <2> QED
      BY <2>1
  <1>4. ASSUME NEW j \in 0 .. c
        PROVE  \A k \in 0 .. c : j <= k => f[j] <= f[k]
    <2> DEFINE Bad == {k \in j .. c : ~(f[j] <= f[k])}
    <2>1. ASSUME Bad # {} PROVE FALSE
      <3>1. Bad \in SUBSET Nat
        OBVIOUS
      <3>2. PICK k \in Bad : \A m \in Bad : k <= m
        BY <2>1, <3>1, LeastNumber
      <3>3. k # j /\ k \in 1 .. c
        BY <1>3, <3>2
      <3>4. k - 1 \in j .. c /\ k - 1 \notin Bad
        BY <3>2, <3>3
      <3>5. f[k - 1] \in Nat /\ w[k] \in Nat /\ f[k] = f[k - 1] + w[k] /\ f[j] \in Nat
        BY <1>2, <1>3, <3>3, <3>4
      <3> QED
        BY <3>2, <3>4, <3>5
    <2> QED
      BY <2>1
  <1> QED
    BY <1>2, <1>3, <1>4

LEMMA SumOrder ==
    \A a, b, x, y \in Nat : a <= x /\ b <= y => a + b <= x + y
  OBVIOUS

\* A sum of some of the weights in their order, each of them no more than it was.
LEMMA PartOfSum ==
    ASSUME NEW c \in Nat, NEW w \in [1 .. c -> Nat], NEW f, IsSumOf(f, w, c),
           NEW d \in Nat, NEW v \in [1 .. d -> Nat], NEW g, IsSumOf(g, v, d),
           NEW p \in [1 .. d -> 1 .. c], \A k \in 2 .. d : p[k - 1] < p[k],
           \A k \in 1 .. d : v[k] <= w[p[k]]
    PROVE  g[d] <= f[c]
  <1>1. /\ f[0] = 0 /\ \A k \in 0 .. c : f[k] \in Nat
        /\ \A k \in 1 .. c : f[k] = f[k - 1] + w[k]
        /\ \A j, k \in 0 .. c : j <= k => f[j] <= f[k]
    BY SumsGrow
  <1>2. /\ g[0] = 0 /\ \A k \in 0 .. d : g[k] \in Nat
        /\ \A k \in 1 .. d : g[k] = g[k - 1] + v[k]
    BY SumsGrow
  <1> DEFINE Bad == {k \in 1 .. d : ~(g[k] <= f[p[k]])}
  <1>3. ASSUME Bad # {} PROVE FALSE
    <2>1. Bad \in SUBSET Nat
      OBVIOUS
    <2>2. PICK k \in Bad : \A m \in Bad : k <= m
      BY <1>3, <2>1, LeastNumber
    <2>3. PICK i \in 1 .. c : i = p[k]
      BY <2>2
    <2>4. /\ k \in 1 .. d /\ k - 1 \in 0 .. d /\ i \in 0 .. c /\ i - 1 \in 0 .. c
          /\ v[k] \in Nat /\ w[i] \in Nat /\ v[k] <= w[i]
      BY <2>2, <2>3
    <2>5. /\ g[k] = g[k - 1] + v[k] /\ f[i] = f[i - 1] + w[i]
          /\ f[i - 1] \in Nat /\ g[k - 1] \in Nat
      BY <1>1, <1>2, <2>4
    <2>6. g[k - 1] <= f[i - 1]
      <3>1. CASE k = 1
        BY <1>2, <2>5, <3>1
      <3>2. CASE k # 1
        <4>1. k - 1 \in 1 .. d /\ k - 1 \notin Bad /\ k \in 2 .. d
          BY <2>2, <2>4, <3>2
        <4>2. PICK h \in 1 .. c : h = p[k - 1]
          BY <4>1
        <4>3. h < i
          BY <2>3, <4>1, <4>2
        <4>4. h \in 0 .. c /\ h <= i - 1
          BY <4>3
        <4>5. f[h] <= f[i - 1] /\ f[h] \in Nat
          BY <1>1, <2>4, <4>4
        <4>6. g[k - 1] <= f[h]
          BY <4>1, <4>2
        <4>7. g[k - 1] \in Nat /\ f[i - 1] \in Nat
          BY <2>5
        <4> HIDE DEF Bad
        <4> QED
          BY <4>5, <4>6, <4>7
      <3> QED
        BY <2>4, <3>1, <3>2
    <2>7. g[k] <= f[i]
      <3>1. g[k - 1] + v[k] <= f[i - 1] + w[i]
        BY <2>4, <2>5, <2>6, SumOrder
      <3> QED
        BY <2>5, <3>1
    <2> QED
      BY <2>2, <2>3, <2>7
  <1>4. CASE d = 0
    <2>1. 0 \in 0 .. c /\ c \in 0 .. c
      OBVIOUS
    <2> QED
      BY <1>1, <1>2, <1>4, <2>1
  <1>5. CASE d # 0
    <2>1. d \in 1 .. d /\ d \in 0 .. d /\ p[d] \in 1 .. c /\ p[d] \in 0 .. c /\ c \in 0 .. c
          /\ p[d] <= c
      BY <1>5
    <2>2. g[d] <= f[p[d]] /\ f[p[d]] <= f[c] /\ g[d] \in Nat /\ f[p[d]] \in Nat /\ f[c] \in Nat
      BY <1>1, <1>2, <1>3, <2>1
    <2> QED
      BY <2>2
  <1> QED
    BY <1>4, <1>5

-------------------------------------------------------------------------------
(***************************************************************************)
(* Lists put one after the other                                           *)
(***************************************************************************)

\* The positions and the members of a list.
LEMMA SeqFacts ==
    \A S : \A s \in Seq(S) : Len(s) \in Nat /\ DOMAIN s = 1 .. Len(s) /\ \A i \in 1 .. Len(s) : s[i] \in S
  OBVIOUS

\* One list after another, under a name of its own.
Join(s, t) == s \o t

\* Putting lists together is associative, with the empty list as its unit.
LEMMA JoinFacts ==
    ASSUME NEW T
    PROVE  /\ \A s, t \in Seq(T) : Join(s, t) \in Seq(T)
           /\ \A s \in Seq(T) : Join(s, <<>>) = s /\ Join(<<>>, s) = s
           /\ \A s, t, u \in Seq(T) : Join(Join(s, t), u) = Join(s, Join(t, u))
  <1>1. ASSUME NEW s \in Seq(T), NEW t \in Seq(T) PROVE Join(s, t) \in Seq(T)
    BY ConcatProperties DEF Join
  <1>2. ASSUME NEW s \in Seq(T) PROVE Join(s, <<>>) = s /\ Join(<<>>, s) = s
    BY ConcatEmptySeq, Zenon DEF Join
  <1>3. ASSUME NEW s \in Seq(T), NEW t \in Seq(T), NEW u \in Seq(T)
        PROVE  Join(Join(s, t), u) = Join(s, Join(t, u))
    <2>1. (s \o t) \o u = s \o (t \o u)
      BY ConcatAssociative
    <2> QED
      BY <2>1, Zenon DEF Join
  <1> QED
    BY <1>1, <1>2, <1>3

\* f[k] is the first k of the n lists ss, one after the other.
IsFlatOf(f, ss, n) == f = [k \in 0 .. n |-> IF k = 0 THEN <<>> ELSE Join(f[k - 1], ss[k])]

\* The function FlattenSeq is defined by, for the first c lists.
LEMMA FlatsExist ==
    ASSUME NEW ss, NEW c \in Nat
    PROVE  \E f : IsFlatOf(f, ss, c)
  <1> DEFINE Bad == {n \in Nat : ~\E f : IsFlatOf(f, ss, n)}
  <1>1. ASSUME Bad # {} PROVE FALSE
    <2>1. PICK n \in Bad : \A m \in Bad : n <= m
      BY <1>1, LeastNumber
    <2>2. CASE n = 0
      <3> DEFINE f == [k \in 0 .. 0 |-> <<>>]
      <3>1. IsFlatOf(f, ss, 0)
        BY DEF IsFlatOf
      <3> QED
        BY <2>2, <3>1
    <2>3. CASE n # 0
      <3>1. n - 1 \in Nat /\ n \in Nat /\ n - 1 \notin Bad
        BY <2>1, <2>3
      <3>2. PICK g : IsFlatOf(g, ss, n - 1)
        BY <3>1
      <3>3. \A k \in 0 .. n - 1 : g[k] = IF k = 0 THEN <<>> ELSE Join(g[k - 1], ss[k])
        BY <3>2 DEF IsFlatOf
      <3> DEFINE f == [k \in 0 .. n |-> IF k < n THEN g[k] ELSE Join(g[n - 1], ss[n])]
      <3>4. \A k \in 0 .. n : f[k] = IF k = 0 THEN <<>> ELSE Join(f[k - 1], ss[k])
        <4> SUFFICES ASSUME NEW k \in 0 .. n
                     PROVE  f[k] = IF k = 0 THEN <<>> ELSE Join(f[k - 1], ss[k])
          OBVIOUS
        <4>1. CASE k < n
          <5>1. k \in 0 .. n - 1 /\ f[k] = g[k] /\ (k # 0 => f[k - 1] = g[k - 1])
            BY <3>1, <4>1
          <5> QED
            BY <3>3, <5>1
        <4>2. CASE k = n
          <5>1. f[k] = Join(g[n - 1], ss[n]) /\ f[k - 1] = g[n - 1] /\ k # 0
            BY <2>3, <3>1, <4>2
          <5> QED
            BY <4>2, <5>1
        <4> QED
          BY <3>1, <4>1, <4>2
      <3>5. DOMAIN f = 0 .. n /\ f = [k \in 0 .. n |-> f[k]]
        OBVIOUS
      <3> HIDE DEF f
      <3>6. IsFlatOf(f, ss, n)
        BY <3>4, <3>5 DEF IsFlatOf
      <3> QED
        BY <2>1, <3>6
    <2> QED
      BY <2>2, <2>3
  <1> QED
    BY <1>1

\* It starts empty and puts one list after another.
LEMMA FlatSteps ==
    ASSUME NEW c \in Nat, NEW ss, NEW f, IsFlatOf(f, ss, c)
    PROVE  f[0] = <<>> /\ \A k \in 1 .. c : f[k] = Join(f[k - 1], ss[k])
  <1>1. \A k \in 0 .. c : f[k] = IF k = 0 THEN <<>> ELSE Join(f[k - 1], ss[k])
    BY DEF IsFlatOf
  <1> QED
    BY <1>1

\* What it has put together is a list of the same things.
LEMMA FlatsType ==
    ASSUME NEW T, NEW c \in Nat, NEW ss, \A i \in 1 .. c : ss[i] \in Seq(T), NEW f, IsFlatOf(f, ss, c)
    PROVE  \A k \in 0 .. c : f[k] \in Seq(T)
  <1>2. f[0] = <<>> /\ \A k \in 1 .. c : f[k] = Join(f[k - 1], ss[k])
    BY FlatSteps
  <1> DEFINE Bad == {k \in 0 .. c : f[k] \notin Seq(T)}
  <1>3. ASSUME Bad # {} PROVE FALSE
    <2>1. Bad \in SUBSET Nat
      OBVIOUS
    <2>2. PICK k \in Bad : \A m \in Bad : k <= m
      BY <1>3, <2>1, LeastNumber
    <2>3. k # 0
      BY <1>2, <2>2, EmptySeq
    <2>4. k \in 1 .. c /\ k - 1 \in 0 .. c /\ k - 1 \notin Bad
      BY <2>2, <2>3
    <2>5. f[k - 1] \in Seq(T) /\ ss[k] \in Seq(T) /\ f[k] = Join(f[k - 1], ss[k])
      BY <1>2, <2>4
    <2>6. f[k] \in Seq(T)
      BY <2>5, JoinFacts
    <2> QED
      BY <2>2, <2>6
  <1> QED
    BY <1>3

\* FlattenSeq puts all lists of a list one after the other.
LEMMA FlattenIsFlat ==
    ASSUME NEW T, NEW ss \in Seq(Seq(T)), NEW f, IsFlatOf(f, ss, Len(ss))
    PROVE  FlattenSeq(ss) = f[Len(ss)] /\ FlattenSeq(ss) \in Seq(T)
  <1> DEFINE c == Len(ss)
             Is(g) == g = [i \in 1 .. c |-> IF i = 1 THEN ss[i] ELSE Join(g[i - 1], ss[i])]
             h == CHOOSE g : Is(g)
  <1>1. c \in Nat /\ \A i \in 1 .. c : ss[i] \in Seq(T)
    BY LenProperties, ElementOfSeq
  <1>2. /\ f[0] = <<>> /\ \A k \in 0 .. c : f[k] \in Seq(T)
        /\ \A k \in 1 .. c : f[k] = Join(f[k - 1], ss[k])
    BY <1>1, FlatsType, FlatSteps
  <1>3. CASE c = 0
    <2>1. ss = <<>>
      BY <1>3, EmptySeq
    <2>2. FlattenSeq(ss) = ss
      BY <1>3 DEF FlattenSeq
    <2> QED
      BY <1>2, <1>3, <2>1, <2>2, EmptySeq
  <1>4. CASE c # 0
    <2>1. FlattenSeq(ss) = h[c]
      BY <1>4, Zenon DEF FlattenSeq, Join
    <2> DEFINE e == [i \in 1 .. c |-> f[i]]
    <2>2. Is(e)
      <3>1. \A i \in 1 .. c : e[i] = IF i = 1 THEN ss[i] ELSE Join(e[i - 1], ss[i])
        <4> SUFFICES ASSUME NEW i \in 1 .. c PROVE e[i] = IF i = 1 THEN ss[i] ELSE Join(e[i - 1], ss[i])
          OBVIOUS
        <4>1. CASE i = 1
          <5>1. f[i] = Join(<<>>, ss[i]) /\ ss[i] \in Seq(T)
            BY <1>1, <1>2, <4>1
          <5> QED
            BY <4>1, <5>1, JoinFacts
        <4>2. CASE i # 1
          <5>1. i - 1 \in 1 .. c
            BY <1>1, <4>2
          <5> QED
            BY <1>2, <4>2, <5>1
        <4> QED
          BY <4>1, <4>2
      <3>2. e = [i \in 1 .. c |-> e[i]]
        OBVIOUS
      <3> HIDE DEF e
      <3> QED
        BY <3>1, <3>2
    <2>3. Is(h)
      <3> HIDE DEF Is
      <3> QED
        BY <2>2
    <2>4. \A i \in 1 .. c : h[i] = IF i = 1 THEN ss[i] ELSE Join(h[i - 1], ss[i])
      BY <2>3
    <2> HIDE DEF h, e, Is
    <2> DEFINE Bad == {i \in 1 .. c : h[i] # f[i]}
    <2>5. ASSUME Bad # {} PROVE FALSE
      <3>1. Bad \in SUBSET Nat
        OBVIOUS
      <3>2. PICK i \in Bad : \A m \in Bad : i <= m
        BY <2>5, <3>1, LeastNumber
      <3>3. CASE i = 1
        <4>1. h[1] = ss[1] /\ f[1] = Join(<<>>, ss[1]) /\ ss[1] \in Seq(T)
          BY <1>1, <1>2, <2>4, <3>2, <3>3
        <4> QED
          BY <3>2, <3>3, <4>1, JoinFacts
      <3>4. CASE i # 1
        <4>1. i \in 1 .. c /\ i - 1 \in 1 .. c /\ i - 1 \notin Bad
          BY <1>1, <3>2, <3>4
        <4>2. h[i] = Join(h[i - 1], ss[i]) /\ f[i] = Join(f[i - 1], ss[i]) /\ h[i - 1] = f[i - 1]
          BY <1>2, <2>4, <3>4, <4>1
        <4> QED
          BY <3>2, <4>2
      <3> QED
        BY <3>3, <3>4
    <2>6. c \in 1 .. c /\ c \in 0 .. c
      BY <1>1, <1>4
    <2> QED
      BY <1>2, <2>1, <2>5, <2>6
  <1> QED
    BY <1>3, <1>4

\* The lists put together are a list of the same things.
LEMMA FlattenType == \A T : \A ss \in Seq(Seq(T)) : FlattenSeq(ss) \in Seq(T)
  <1> SUFFICES ASSUME NEW T, NEW ss \in Seq(Seq(T)) PROVE FlattenSeq(ss) \in Seq(T)
    OBVIOUS
  <1>1. Len(ss) \in Nat
    BY LenProperties
  <1>2. PICK f : IsFlatOf(f, ss, Len(ss))
    BY <1>1, FlatsExist
  <1> QED
    BY <1>2, FlattenIsFlat

\* FlattenSeq distributes over the joining of lists of lists.
LEMMA FlattenJoined ==
    ASSUME NEW T, NEW ss \in Seq(Seq(T)), NEW tt \in Seq(Seq(T))
    PROVE  FlattenSeq(ss \o tt) = FlattenSeq(ss) \o FlattenSeq(tt)
  <1> DEFINE m == Len(ss)
             n == Len(tt)
             both == ss \o tt
  <1>1. /\ both \in Seq(Seq(T)) /\ Len(both) = m + n /\ m \in Nat /\ n \in Nat
        /\ \A i \in 1 .. m + n : both[i] = IF i <= m THEN ss[i] ELSE tt[i - m]
    BY ConcatProperties, LenProperties
  <1>2. /\ \A i \in 1 .. m : ss[i] \in Seq(T)
        /\ \A i \in 1 .. n : tt[i] \in Seq(T)
        /\ \A i \in 1 .. m + n : both[i] \in Seq(T)
    BY <1>1, ElementOfSeq
  <1> HIDE DEF both
  <1>3. PICK f : IsFlatOf(f, ss, m)
    BY <1>1, FlatsExist
  <1>4. PICK g : IsFlatOf(g, tt, n)
    BY <1>1, FlatsExist
  <1>5. m + n \in Nat
    BY <1>1
  <1>6. PICK h : IsFlatOf(h, both, m + n)
    BY <1>5, FlatsExist
  <1>7. /\ f[0] = <<>> /\ \A k \in 0 .. m : f[k] \in Seq(T)
        /\ \A k \in 1 .. m : f[k] = Join(f[k - 1], ss[k])
    BY <1>1, <1>2, <1>3, FlatsType, FlatSteps
  <1>8. /\ g[0] = <<>> /\ \A k \in 0 .. n : g[k] \in Seq(T)
        /\ \A k \in 1 .. n : g[k] = Join(g[k - 1], tt[k])
    BY <1>1, <1>2, <1>4, FlatsType, FlatSteps
  <1>9. /\ h[0] = <<>>
        /\ \A k \in 1 .. m + n : h[k] = Join(h[k - 1], both[k])
    BY <1>2, <1>5, <1>6, FlatsType, FlatSteps
  <1> DEFINE J == /\ \A s, t \in Seq(T) : Join(s, t) \in Seq(T)
                  /\ \A s \in Seq(T) : Join(s, <<>>) = s /\ Join(<<>>, s) = s
                  /\ \A s, t, u \in Seq(T) : Join(Join(s, t), u) = Join(s, Join(t, u))
  <1>0. J
    BY JoinFacts
  <1>10. \A k \in 0 .. m : h[k] = f[k]
    <2> DEFINE Bad == {k \in 0 .. m : h[k] # f[k]}
    <2>1. ASSUME Bad # {} PROVE FALSE
      <3>1. Bad \in SUBSET Nat
        OBVIOUS
      <3>2. PICK k \in Bad : \A j \in Bad : k <= j
        BY <2>1, <3>1, LeastNumber
      <3>3. k # 0
        BY <1>7, <1>9, <3>2
      <3>4. k \in 1 .. m /\ k - 1 \in 0 .. m /\ k - 1 \notin Bad /\ k \in 1 .. m + n /\ k <= m
        BY <1>1, <3>2, <3>3
      <3>5. h[k] = Join(h[k - 1], ss[k]) /\ f[k] = Join(f[k - 1], ss[k]) /\ h[k - 1] = f[k - 1]
        BY <1>1, <1>7, <1>9, <3>4
      <3> QED
        BY <3>2, <3>5
    <2> QED
      BY <2>1
  <1>11. \A k \in 0 .. n : h[m + k] = Join(f[m], g[k])
    <2> DEFINE Bad == {k \in 0 .. n : h[m + k] # Join(f[m], g[k])}
    <2>1. ASSUME Bad # {} PROVE FALSE
      <3>1. Bad \in SUBSET Nat
        OBVIOUS
      <3>2. PICK k \in Bad : \A j \in Bad : k <= j
        BY <2>1, <3>1, LeastNumber
      <3>3. m \in 0 .. m /\ f[m] \in Seq(T)
        BY <1>1, <1>7
      <3>4. k # 0
        <4>1. m + 0 = m /\ Join(f[m], <<>>) = f[m]
          BY <1>1, <1>0, <3>3
        <4> QED
          BY <1>8, <1>10, <3>2, <3>3, <4>1
      <3>5. /\ k \in 1 .. n /\ k - 1 \in 0 .. n /\ k - 1 \notin Bad /\ m + k \in 1 .. m + n
            /\ ~(m + k <= m) /\ (m + k) - m = k /\ (m + k) - 1 = m + (k - 1)
        BY <1>1, <3>2, <3>4
      <3>6. both[m + k] = tt[k]
        BY <1>1, <3>5
      <3>7. h[m + k] = Join(h[m + (k - 1)], tt[k])
        BY <1>9, <3>5, <3>6
      <3>8. h[m + (k - 1)] = Join(f[m], g[k - 1])
        BY <3>5
      <3>9. g[k - 1] \in Seq(T) /\ tt[k] \in Seq(T) /\ g[k] = Join(g[k - 1], tt[k])
        BY <1>2, <1>8, <3>5
      <3>10. Join(Join(f[m], g[k - 1]), tt[k]) = Join(f[m], Join(g[k - 1], tt[k]))
        BY <3>3, <3>9, <1>0
      <3> QED
        BY <3>2, <3>7, <3>8, <3>9, <3>10
    <2> QED
      BY <2>1
  <1>12. FlattenSeq(ss) = f[m] /\ FlattenSeq(tt) = g[n]
    BY <1>3, <1>4, FlattenIsFlat
  <1>13. FlattenSeq(both) = h[m + n]
    BY <1>1, <1>6, FlattenIsFlat
  <1>14. h[m + n] = Join(f[m], g[n])
    BY <1>1, <1>11
  <1> QED
    BY <1>12, <1>13, <1>14, Zenon DEF both, Join

\* The length and the members of two lists put together.
LEMMA JoinLists ==
    ASSUME NEW T, NEW s \in Seq(T), NEW t \in Seq(T)
    PROVE  /\ Join(s, t) \in Seq(T) /\ Len(Join(s, t)) = Len(s) + Len(t)
           /\ \A i \in 1 .. Len(s) : Join(s, t)[i] = s[i]
           /\ \A i \in 1 .. Len(t) : Join(s, t)[Len(s) + i] = t[i]
  <1> DEFINE u == s \o t
  <1>1. /\ u \in Seq(T) /\ Len(u) = Len(s) + Len(t) /\ Len(s) \in Nat /\ Len(t) \in Nat
        /\ \A i \in 1 .. Len(s) + Len(t) : u[i] = IF i <= Len(s) THEN s[i] ELSE t[i - Len(s)]
    BY ConcatProperties, LenProperties
  <1> HIDE DEF u
  <1>2. \A i \in 1 .. Len(s) : u[i] = s[i]
    BY <1>1
  <1>3. \A i \in 1 .. Len(t) : u[Len(s) + i] = t[i]
    <2> SUFFICES ASSUME NEW i \in 1 .. Len(t) PROVE u[Len(s) + i] = t[i]
      OBVIOUS
    <2>1. Len(s) + i \in 1 .. Len(s) + Len(t) /\ ~(Len(s) + i <= Len(s)) /\ (Len(s) + i) - Len(s) = i
      BY <1>1
    <2> QED
      BY <1>1, <2>1
  <1>4. Join(s, t) = u
    BY Zenon DEF Join, u
  <1> QED
    BY <1>1, <1>2, <1>3, <1>4

\* The members of the second list come after the first.
LEMMA JoinedAfter == \A T : \A s, t \in Seq(T) : \A i \in 1 .. Len(t) : Join(s, t)[Len(s) + i] = t[i]
  <1> SUFFICES ASSUME NEW T, NEW s \in Seq(T), NEW t \in Seq(T)
               PROVE  \A i \in 1 .. Len(t) : Join(s, t)[Len(s) + i] = t[i]
    OBVIOUS
  <1> QED
    BY JoinLists

\* To append is to join a list of one.
LEMMA AppendJoins == \A T : \A s \in Seq(T) : \A x \in T : Append(s, x) = Join(s, <<x>>)
  <1> SUFFICES ASSUME NEW T, NEW s \in Seq(T), NEW x \in T PROVE Append(s, x) = Join(s, <<x>>)
    OBVIOUS
  <1>1. Append(s, x) = s \o <<x>>
    BY AppendIsConcat
  <1> QED
    BY <1>1, Zenon DEF Join

\* Of no lists, the empty list.
LEMMA FlattenNone == FlattenSeq(<<>>) = <<>>
  BY DEF FlattenSeq

\* Of one list, that list.
LEMMA FlattenOne == \A T : \A t \in Seq(T) : FlattenSeq(<<t>>) = t
  <1> SUFFICES ASSUME NEW T, NEW t \in Seq(T) PROVE FlattenSeq(<<t>>) = t
    OBVIOUS
  <1> DEFINE one == <<t>>
  <1>1. one \in Seq(Seq(T)) /\ Len(one) = 1 /\ one[1] = t
    OBVIOUS
  <1> HIDE DEF one
  <1>2. PICK f : IsFlatOf(f, one, 1)
    BY FlatsExist
  <1>3. FlattenSeq(one) = f[1]
    BY <1>1, <1>2, FlattenIsFlat
  <1>4. f[0] = <<>> /\ f[1] = Join(f[1 - 1], one[1])
    BY <1>2, FlatSteps
  <1>5. f[1] = Join(<<>>, t)
    BY <1>1, <1>4
  <1>6. Join(<<>>, t) = t
    BY JoinFacts
  <1> QED
    BY <1>3, <1>5, <1>6 DEF one

\* One more list is joined at the end.
LEMMA FlattenAppend ==
    ASSUME NEW T, NEW ss \in Seq(Seq(T)), NEW t \in Seq(T)
    PROVE  FlattenSeq(Append(ss, t)) = Join(FlattenSeq(ss), t)
  <1> DEFINE V == Seq(T)
             one == <<t>>
  <1>1. t \in V /\ ss \in Seq(V)
    OBVIOUS
  <1>2. Append(ss, t) = Join(ss, one) /\ one \in Seq(V) /\ Len(one) = 1 /\ one[1] = t
    <2> HIDE DEF V
    <2>1. Append(ss, t) = Join(ss, <<t>>)
      BY <1>1, AppendJoins
    <2> QED
      BY <1>1, <2>1
  <1> HIDE DEF one
  <1>3. one \in Seq(Seq(T))
    BY <1>2
  <1>4. FlattenSeq(ss \o one) = FlattenSeq(ss) \o FlattenSeq(one)
    BY <1>3, FlattenJoined
  <1>5. FlattenSeq(Join(ss, one)) = Join(FlattenSeq(ss), FlattenSeq(one))
    BY <1>4, Zenon DEF Join
  <1>6. FlattenSeq(one) = t
    <2>1. PICK f : IsFlatOf(f, one, 1)
      BY FlatsExist
    <2>2. FlattenSeq(one) = f[1]
      BY <1>2, <1>3, <2>1, FlattenIsFlat
    <2>3. f[0] = <<>> /\ f[1] = Join(f[1 - 1], one[1])
      BY <2>1, FlatSteps
    <2>4. f[1] = Join(<<>>, t)
      BY <1>2, <2>3
    <2> QED
      BY <2>2, <2>4, JoinFacts
  <1> QED
    BY <1>2, <1>5, <1>6

\* Min is the least member of a set of numbers.
LEMMA LeastOf ==
    ASSUME NEW S \in SUBSET Nat, S # {}
    PROVE  Min(S) \in S /\ \A y \in S : Min(S) <= y
  <1>1. \E x \in S : \A y \in S : x <= y
    BY LeastNumber
  <1> QED
    BY <1>1 DEF Min
================================================================================
