------------------------- MODULE FlowDocumentProofs -------------------------
(***************************************************************************)
(* Lemmas about documents and flow files, for every document: what the     *)
(* edits keep, and what the compiler and the importer make of one.         *)
(*                                                                         *)
(* Lists are filtered and folded by recursive functions.  An induction on  *)
(* a set of numbers (Induction) shows for each that it is well defined,    *)
(* and what it computes.                                                   *)
(***************************************************************************)
EXTENDS FlowCompiler, SequenceTheorems, FiniteSetTheorems, WellFoundedInduction, TLAPS

(***************************************************************************)
(* Induction, and the smallest and the largest number of a set.            *)
(***************************************************************************)
\* A set of numbers that is not empty has a smallest member.
LEMMA SmallestMember ==
    ASSUME NEW T \in SUBSET Nat, T # {}
    PROVE  \E n \in T : \A m \in T : n <= m
<1> DEFINE R == {p \in Nat \X Nat : p[1] < p[2]}
<1>1. IsWellFoundedOn(R, Nat)
  BY NatLessThanWellFounded DEF OpToRel
<1>2. PICK n \in T : \A m \in T : ~ (<<m, n>> \in R)
  <2> HIDE DEF R
  <2> QED
    BY <1>1, WFMin
<1>3. ASSUME NEW m \in T PROVE n <= m
  <2>1. n \in Nat /\ m \in Nat
    OBVIOUS
  <2>2. ~ (m < n)
    BY <1>2, <2>1
  <2> QED
    BY <2>1, <2>2
<1> QED
  BY <1>3

\* What holds of 0, and of n + 1 if of n, holds of every number.
LEMMA Induction ==
    ASSUME NEW S, 0 \in S, \A n \in Nat : n \in S => n + 1 \in S
    PROVE  Nat \subseteq S
<1> DEFINE T == Nat \ S
<1> SUFFICES ASSUME T # {} PROVE FALSE
  OBVIOUS
<1>1. PICK n \in T : \A m \in T : n <= m
  <2>1. T \in SUBSET Nat
    OBVIOUS
  <2> HIDE DEF T
  <2> QED
    BY <2>1, SmallestMember
<1>2. n - 1 \in T
  BY <1>1
<1> QED
  BY <1>1, <1>2

LEMMA LargestMember ==
    ASSUME NEW n \in Nat, NEW T \in SUBSET (1 .. n), T # {}
    PROVE  \E k \in T : \A m \in T : k >= m
<1> DEFINE Up == {n - m : m \in T}
<1>0. \A m \in T : m \in Nat /\ n - m \in Nat
  OBVIOUS
<1>1. PICK k \in Up : \A m \in Up : k <= m
  <2>1. Up \in SUBSET Nat /\ Up # {}
    BY <1>0
  <2> HIDE DEF Up
  <2> QED
    BY <2>1, SmallestMember
<1>2. PICK m \in T : k = n - m
  BY <1>1
<1>3. ASSUME NEW i \in T PROVE m >= i
  <2>1. k <= n - i
    BY <1>1
  <2> QED
    BY <1>0, <1>2, <2>1
<1> QED
  BY <1>3

\* The Min and Max of the library are what they are called.
LEMMA MinProperties ==
    ASSUME NEW T \in SUBSET Nat, T # {}
    PROVE  Min(T) \in T /\ \A m \in T : Min(T) <= m
  BY SmallestMember DEF Min

LEMMA MaxProperties ==
    ASSUME NEW n \in Nat, NEW T \in SUBSET (1 .. n), T # {}
    PROVE  Max(T) \in T /\ \A m \in T : Max(T) >= m
  BY LargestMember DEF Max

-----------------------------------------------------------------------------
(***************************************************************************)
(* Lists.                                                                  *)
(***************************************************************************)
LEMMA ToSetOfSeq ==
    ASSUME NEW S, NEW s \in Seq(S)
    PROVE  /\ ToSet(s) = {s[i] : i \in 1 .. Len(s)}
           /\ ToSet(s) \subseteq S
           /\ s \in Seq(ToSet(s))
  BY DEF ToSet

LEMMA InToSet ==
    ASSUME NEW S, NEW s \in Seq(S), NEW e
    PROVE  e \in ToSet(s) <=> \E i \in 1 .. Len(s) : e = s[i]
  BY ToSetOfSeq

LEMMA ToSetOfConcat ==
    ASSUME NEW S, NEW s \in Seq(S), NEW t \in Seq(S)
    PROVE  s \o t \in Seq(S) /\ ToSet(s \o t) = ToSet(s) \cup ToSet(t)
<1>1. s \o t \in Seq(S) /\ Len(s \o t) = Len(s) + Len(t)
  OBVIOUS
<1>2. \A i \in 1 .. Len(s) : i \in 1 .. Len(s \o t) /\ (s \o t)[i] = s[i]
  OBVIOUS
<1>3. \A i \in 1 .. Len(t) : i + Len(s) \in 1 .. Len(s \o t) /\ (s \o t)[i + Len(s)] = t[i]
  OBVIOUS
<1>4. ASSUME NEW e \in ToSet(s \o t) PROVE e \in ToSet(s) \cup ToSet(t)
  <2>1. PICK i \in 1 .. Len(s \o t) : e = (s \o t)[i]
    BY <1>1, <1>4, InToSet
  <2>2. CASE i <= Len(s)
    <3>1. i \in 1 .. Len(s)
      BY <2>2
    <3>2. e = s[i]
      BY <1>2, <2>1, <3>1
    <3> QED
      BY <3>1, <3>2, InToSet
  <2>3. CASE i > Len(s)
    <3>1. i - Len(s) \in 1 .. Len(t) /\ (i - Len(s)) + Len(s) = i
      BY <1>1, <2>3
    <3>2. e = t[i - Len(s)]
      BY <1>3, <2>1, <3>1
    <3> QED
      BY <3>1, <3>2, InToSet
  <2> QED
    BY <2>2, <2>3
<1>5. ASSUME NEW e \in ToSet(s) PROVE e \in ToSet(s \o t)
  <2>1. PICK i \in 1 .. Len(s) : e = s[i]
    BY <1>5, InToSet
  <2> QED
    BY <1>1, <1>2, <2>1, InToSet
<1>6. ASSUME NEW e \in ToSet(t) PROVE e \in ToSet(s \o t)
  <2>1. PICK i \in 1 .. Len(t) : e = t[i]
    BY <1>6, InToSet
  <2> QED
    BY <1>1, <1>3, <2>1, InToSet
<1> QED
  BY <1>1, <1>4, <1>5, <1>6

LEMMA ToSetOfAppend ==
    ASSUME NEW S, NEW s \in Seq(S), NEW e \in S
    PROVE  Append(s, e) \in Seq(S) /\ ToSet(Append(s, e)) = ToSet(s) \cup {e}
<1>1. <<e>> \in Seq(S) /\ Append(s, e) = s \o <<e>>
  OBVIOUS
<1>2. ToSet(<<e>>) = {e}
  BY DEF ToSet
<1> DEFINE one == <<e>>
<1> HIDE DEF one
<1>3. s \o one \in Seq(S) /\ ToSet(s \o one) = ToSet(s) \cup ToSet(one)
  BY <1>1, ToSetOfConcat DEF one
<1> QED
  BY <1>1, <1>2, <1>3 DEF one

\* The recursive function in Only is well defined.
LEMMA OnlyIsDefined ==
    ASSUME NEW S, NEW s \in Seq(S), NEW set
    PROVE  \E kept : kept = [i \in 0 .. Len(s) |->
               IF i = 0 THEN << >>
               ELSE IF s[i] \in set THEN Append(kept[i - 1], s[i]) ELSE kept[i - 1]]
<1> DEFINE Body(f, i) == IF i = 0 THEN << >>
                         ELSE IF s[i] \in set THEN Append(f[i - 1], s[i]) ELSE f[i - 1]
           Upto == {n \in Nat : \E f : f = [i \in 0 .. n |-> Body(f, i)]}
<1>1. 0 \in Upto
  <2> DEFINE f == [i \in 0 .. 0 |-> << >>]
  <2>1. f = [i \in 0 .. 0 |-> Body(f, i)]
    OBVIOUS
  <2> QED
    BY <2>1
<1>2. ASSUME NEW n \in Nat, n \in Upto PROVE n + 1 \in Upto
  <2>1. PICK f : f = [i \in 0 .. n |-> Body(f, i)]
    BY <1>2
  <2>2. \A i \in 0 .. n : f[i] = Body(f, i)
    <3> HIDE DEF Body
    <3> QED
      BY <2>1
  <2> DEFINE g == [i \in 0 .. n + 1 |-> IF i = n + 1 THEN Body(f, i) ELSE f[i]]
  <2>3. ASSUME NEW i \in 0 .. n + 1 PROVE g[i] = Body(g, i)
    <3>1. CASE i = 0
      BY <2>2, <3>1
    <3>2. CASE i \in 1 .. n
      BY <2>2, <3>2
    <3>3. CASE i = n + 1
      BY <3>3
    <3> QED
      BY <3>1, <3>2, <3>3
  <2>4. g = [i \in 0 .. n + 1 |-> Body(g, i)]
    BY <2>3
  <2> HIDE DEF g
  <2> QED
    BY <2>4
<1>3. Len(s) \in Upto
  <2> HIDE DEF Upto
  <2> QED
    BY <1>1, <1>2, Induction
<1> QED
  BY <1>3

\* What it computes: the elements of the set, in the order of the list.
LEMMA OnlyProperties ==
    ASSUME NEW S, NEW s \in Seq(S), NEW set
    PROVE  /\ Only(s, set) \in Seq(S \cap set)
           /\ ToSet(Only(s, set)) = ToSet(s) \cap set
           /\ Len(Only(s, set)) <= Len(s)
           /\ \E at \in [1 .. Len(Only(s, set)) -> 1 .. Len(s)] :
                 /\ \A i \in 1 .. Len(Only(s, set)) : Only(s, set)[i] = s[at[i]]
                 /\ \A i, j \in 1 .. Len(Only(s, set)) : i < j => at[i] < at[j]
<1> DEFINE IsKept(f) == f = [i \in 0 .. Len(s) |->
               IF i = 0 THEN << >>
               ELSE IF s[i] \in set THEN Append(f[i - 1], s[i]) ELSE f[i - 1]]
           kept == CHOOSE f : IsKept(f)
           Embeds(t, n) == \E at \in [1 .. Len(t) -> 1 .. n] :
                             /\ \A i \in 1 .. Len(t) : t[i] = s[at[i]]
                             /\ \A i, j \in 1 .. Len(t) : i < j => at[i] < at[j]
           Right(n) == /\ kept[n] \in Seq(S \cap set)
                       /\ ToSet(kept[n]) = {s[i] : i \in 1 .. n} \cap set
                       /\ Len(kept[n]) <= n
                       /\ Embeds(kept[n], n)
           Upto == {n \in Nat : n <= Len(s) => Right(n)}
<1>1. IsKept(kept)
  <2>1. \E f : IsKept(f)
    BY OnlyIsDefined
  <2> HIDE DEF IsKept
  <2> QED
    BY <2>1
<1>7. Only(s, set) = kept[Len(s)]
  BY DEF Only
<1> HIDE DEF kept
<1>2. /\ kept[0] = << >>
      /\ \A n \in Nat : n + 1 <= Len(s) =>
           kept[n + 1] = IF s[n + 1] \in set THEN Append(kept[n], s[n + 1]) ELSE kept[n]
  <2>1. \A i \in 0 .. Len(s) : kept[i] =
           IF i = 0 THEN << >>
           ELSE IF s[i] \in set THEN Append(kept[i - 1], s[i]) ELSE kept[i - 1]
    BY <1>1
  <2>2. ASSUME NEW n \in Nat, n + 1 <= Len(s)
        PROVE  kept[n + 1] = IF s[n + 1] \in set THEN Append(kept[n], s[n + 1]) ELSE kept[n]
    <3>1. n + 1 \in 0 .. Len(s) /\ n + 1 # 0 /\ (n + 1) - 1 = n
      BY <2>2
    <3> QED
      BY <2>1, <3>1
  <2>3. 0 \in 0 .. Len(s)
    OBVIOUS
  <2> QED
    BY <2>1, <2>2, <2>3
<1>3. Right(0)
  <2>1. ToSet(<< >>) = {}
    BY DEF ToSet
  <2>2. Embeds(<< >>, 0)
    <3> DEFINE nowhere == [i \in 1 .. 0 |-> i]
    <3>1. 1 .. Len(<< >>) = 1 .. 0 /\ nowhere \in [1 .. 0 -> 1 .. 0] /\ 1 .. 0 = {}
      OBVIOUS
    <3> HIDE DEF nowhere
    <3> QED
      BY <3>1
  <2>3. {s[i] : i \in 1 .. 0} = {}
    OBVIOUS
  <2>4. << >> \in Seq(S \cap set)
    OBVIOUS
  <2> HIDE DEF Embeds
  <2> QED
    BY <1>2, <2>1, <2>2, <2>3, <2>4
<1>4. ASSUME NEW n \in Nat, n + 1 <= Len(s), Right(n) PROVE Right(n + 1)
  <2>0. n + 1 \in 1 .. Len(s) /\ s[n + 1] \in S
    BY <1>4
  <2>a. {s[i] : i \in 1 .. n + 1} = {s[i] : i \in 1 .. n} \cup {s[n + 1]}
    OBVIOUS
  <2>1. CASE s[n + 1] \notin set
    <3>1. kept[n + 1] = kept[n]
      BY <1>2, <1>4, <2>1
    <3>2. Embeds(kept[n], n + 1)
      <4>1. PICK at \in [1 .. Len(kept[n]) -> 1 .. n] :
                   /\ \A i \in 1 .. Len(kept[n]) : kept[n][i] = s[at[i]]
                   /\ \A i, j \in 1 .. Len(kept[n]) : i < j => at[i] < at[j]
        BY <1>4
      <4>2. at \in [1 .. Len(kept[n]) -> 1 .. n + 1]
        OBVIOUS
      <4> QED
        BY <4>1, <4>2
    <3>5. Len(kept[n]) <= n + 1
      <4>1. Len(kept[n]) \in Nat /\ Len(kept[n]) <= n
        BY <1>4
      <4> QED
        BY <4>1
    <3>3. ToSet(kept[n]) = {s[i] : i \in 1 .. n + 1} \cap set
      BY <1>4, <2>1, <2>a
    <3>4. kept[n] \in Seq(S \cap set)
      BY <1>4
    <3> HIDE DEF Embeds
    <3> QED
      BY <3>1, <3>2, <3>3, <3>4, <3>5
  <2>2. CASE s[n + 1] \in set
    <3> DEFINE t == kept[n]
               u == Append(t, s[n + 1])
    <3>0. kept[n + 1] = u
      BY <1>2, <1>4, <2>2
    <3>1. t \in Seq(S \cap set) /\ s[n + 1] \in S \cap set
      BY <1>4, <2>0, <2>2
    <3> HIDE DEF t
    <3>2. /\ u \in Seq(S \cap set)
          /\ Len(u) = Len(t) + 1
          /\ \A i \in 1 .. Len(t) : u[i] = t[i]
          /\ u[Len(t) + 1] = s[n + 1]
      BY <3>1
    <3>3. ToSet(u) = ToSet(t) \cup {s[n + 1]}
      BY <3>1, ToSetOfAppend
    <3>5. Len(u) <= n + 1
      <4>1. Len(t) \in Nat /\ Len(t) <= n
        BY <1>4, <3>1 DEF t
      <4> QED
        BY <3>2, <4>1
    <3>4. Embeds(u, n + 1)
      <4>1. PICK at \in [1 .. Len(t) -> 1 .. n] :
                   /\ \A i \in 1 .. Len(t) : t[i] = s[at[i]]
                   /\ \A i, j \in 1 .. Len(t) : i < j => at[i] < at[j]
        BY <1>4 DEF t
      <4> DEFINE to == [i \in 1 .. Len(u) |-> IF i = Len(t) + 1 THEN n + 1 ELSE at[i]]
      <4> HIDE DEF u
      <4>0. Len(t) \in Nat
        BY <3>1
      <4>2. to \in [1 .. Len(u) -> 1 .. n + 1]
        BY <3>2, <4>0
      <4>3. \A i \in 1 .. Len(u) : u[i] = s[to[i]]
        BY <3>2, <4>0, <4>1
      <4>4. \A i, j \in 1 .. Len(u) : i < j => to[i] < to[j]
        <5> SUFFICES ASSUME NEW i \in 1 .. Len(u), NEW j \in 1 .. Len(u), i < j
                     PROVE  to[i] < to[j]
          OBVIOUS
        <5>1. i \in 1 .. Len(t) /\ to[i] = at[i] /\ at[i] \in 1 .. n
          <6>1. i \in 1 .. Len(t)
            <7>1. Len(u) = Len(t) + 1 /\ i \in 1 .. Len(u) /\ j \in 1 .. Len(u) /\ i < j
              BY <3>2
            <7> HIDE DEF to
            <7> QED
              BY <4>0, <7>1
          <6>2. to[i] = at[i]
            <7>1. i # Len(t) + 1
              BY <4>0, <6>1
            <7> QED
              BY <7>1
          <6>3. at[i] \in 1 .. n
            BY <6>1
          <6> QED
            BY <6>1, <6>2, <6>3
        <5>2. CASE j = Len(t) + 1
          BY <3>2, <5>1, <5>2
        <5>3. CASE j # Len(t) + 1
          <6>1. j \in 1 .. Len(t)
            <7>1. Len(u) = Len(t) + 1 /\ j \in 1 .. Len(u)
              BY <3>2
            <7> HIDE DEF to
            <7> QED
              BY <4>0, <5>3, <7>1
          <6>2. to[j] = at[j]
            BY <5>3
          <6> QED
            BY <4>1, <5>1, <6>1, <6>2
        <5> QED
          BY <5>2, <5>3
      <4> HIDE DEF to
      <4> QED
        BY <4>2, <4>3, <4>4
    <3>6. ToSet(u) = {s[i] : i \in 1 .. n + 1} \cap set
      <4>1. ToSet(t) = {s[i] : i \in 1 .. n} \cap set
        BY <1>4 DEF t
      <4> HIDE DEF u
      <4> QED
        BY <2>2, <2>a, <3>3, <4>1
    <3> HIDE DEF u, Embeds
    <3> QED
      BY <3>0, <3>2, <3>4, <3>5, <3>6
  <2> QED
    BY <2>1, <2>2
<1>5. Len(s) \in Upto
  <2>1. 0 \in Upto
    BY <1>3
  <2>2. \A n \in Nat : n \in Upto => n + 1 \in Upto
    <3> HIDE DEF Right
    <3> QED
      BY <1>4
  <2> HIDE DEF Upto
  <2> QED
    BY <2>1, <2>2, Induction
<1>6. Right(Len(s))
  <2> HIDE DEF Right
  <2> QED
    BY <1>5
<1>8. {s[i] : i \in 1 .. Len(s)} = ToSet(s)
  BY ToSetOfSeq
<1> HIDE DEF Embeds
<1>9. Embeds(Only(s, set), Len(s))
  BY <1>6, <1>7
<1> QED
  BY <1>6, <1>7, <1>8, <1>9 DEF Embeds

-----------------------------------------------------------------------------
(***************************************************************************)
(* Recursion over a list, for a step given as a function.                  *)
(***************************************************************************)
\* A value computed from element to element exists.
Recurs(g, V, base, f, n) ==
    /\ g \in [0 .. n -> V]
    /\ g[0] = base
    /\ \A i \in 1 .. n : g[i] = f[<<g[i - 1], i>>]

LEMMA Recursion ==
    ASSUME NEW V, NEW base \in V, NEW n \in Nat, NEW f \in [V \X (1 .. n) -> V]
    PROVE  \E g : Recurs(g, V, base, f, n)
<1> USE DEF Recurs
<1> DEFINE Right(g, k) == Recurs(g, V, base, f, k)
           Upto == {k \in Nat : k <= n => \E g : Right(g, k)}
<1>1. 0 \in Upto
  <2> DEFINE g == [i \in 0 .. 0 |-> base]
  <2>1. Right(g, 0)
    OBVIOUS
  <2> HIDE DEF g, Right, Recurs
  <2> QED
    BY <2>1
<1>2. ASSUME NEW k \in Nat, k \in Upto, k + 1 <= n PROVE \E g : Right(g, k + 1)
  <2>1. PICK g : Right(g, k)
    BY <1>2
  <2> DEFINE last == f[<<g[k], k + 1>>]
             h == [i \in 0 .. k + 1 |-> IF i = k + 1 THEN last ELSE g[i]]
  <2>2. last \in V
    <3>1. g[k] \in V /\ k + 1 \in 1 .. n
      BY <1>2, <2>1
    <3> QED
      BY <3>1
  <2> HIDE DEF last
  <2>3. h \in [0 .. k + 1 -> V] /\ h[0] = base
    BY <2>1, <2>2
  <2>4. ASSUME NEW i \in 1 .. k + 1 PROVE h[i] = f[<<h[i - 1], i>>]
    <3>1. CASE i = k + 1
      <4>1. h[i] = last /\ h[i - 1] = g[k]
        BY <3>1
      <4> QED
        BY <3>1, <4>1 DEF last
    <3>2. CASE i # k + 1
      <4>1. i \in 1 .. k /\ h[i] = g[i] /\ h[i - 1] = g[i - 1]
        BY <3>2
      <4> QED
        BY <2>1, <4>1
    <3> QED
      BY <3>1, <3>2
  <2>5. Right(h, k + 1)
    BY <2>3, <2>4
  <2> HIDE DEF h, Right, Recurs
  <2> QED
    BY <2>5
<1>3. n \in Upto
  <2>1. \A k \in Nat : k \in Upto => k + 1 \in Upto
    <3> HIDE DEF Right, Recurs
    <3> QED
      BY <1>2
  <2> HIDE DEF Upto
  <2> QED
    BY <1>1, <2>1, Induction
<1>4. n <= n
  OBVIOUS
<1> HIDE DEF Recurs
<1> QED
  BY <1>3, <1>4

\* The fold of the library descends from a set of positions to the set without its
\* largest one.
Folds(g, V, base, f, n) ==
    /\ g \in [SUBSET (1 .. n) -> V]
    /\ \A s \in SUBSET (1 .. n) :
          g[s] = IF s = {} THEN base ELSE f[<<g[s \ {Max(s)}], Max(s)>>]

LEMMA FoldIsDefined ==
    ASSUME NEW V, NEW base \in V, NEW n \in Nat, NEW f \in [V \X (1 .. n) -> V]
    PROVE  \E g : Folds(g, V, base, f, n)
<1> USE DEF Folds
<1> DEFINE Right(g, k) == Folds(g, V, base, f, k)
           Upto == {k \in Nat : k <= n => \E g : Right(g, k)}
<1>1. 0 \in Upto
  <2> DEFINE g == [s \in SUBSET (1 .. 0) |-> base]
  <2>1. \A s \in SUBSET (1 .. 0) : s = {}
    OBVIOUS
  <2>2. Right(g, 0)
    BY <2>1
  <2> HIDE DEF g, Right, Folds
  <2> QED
    BY <2>2
<1>2. ASSUME NEW k \in Nat, k \in Upto, k + 1 <= n PROVE \E g : Right(g, k + 1)
  <2>1. PICK g : Right(g, k)
    <3>1. k <= n
      BY <1>2
    <3> HIDE DEF Right, Folds
    <3> QED
      BY <1>2, <3>1
  <2> DEFINE l == k + 1
             h == [s \in SUBSET (1 .. l) |-> IF l \in s THEN f[<<g[s \ {l}], l>>] ELSE g[s]]
  <2>2. /\ l \in 1 .. n /\ l \in Nat
        /\ \A s \in SUBSET (1 .. l) : s \ {l} \in SUBSET (1 .. k)
        /\ \A s \in SUBSET (1 .. l) : l \notin s => s \in SUBSET (1 .. k)
        /\ \A s \in SUBSET (1 .. k) : l \notin s /\ s \in SUBSET (1 .. l)
    BY <1>2
  <2> HIDE DEF l
  <2>3. \A s \in SUBSET (1 .. k) : g[s] \in V
    BY <2>1
  <2>4. h \in [SUBSET (1 .. l) -> V]
    BY <2>2, <2>3
  <2>5. ASSUME NEW s \in SUBSET (1 .. l)
        PROVE  h[s] = IF s = {} THEN base ELSE f[<<h[s \ {Max(s)}], Max(s)>>]
    <3>1. CASE l \in s
      <4>1. Max(s) = l
        <5>1. Max(s) \in s /\ Max(s) >= l
          BY <2>2, <3>1, MaxProperties
        <5>2. Max(s) \in 1 .. l
          BY <5>1
        <5> HIDE DEF h
        <5> QED
          BY <2>2, <5>1, <5>2
      <4>2. h[s] = f[<<g[s \ {l}], l>>]
        BY <3>1
      <4>3. s \ {l} \in SUBSET (1 .. l) /\ h[s \ {l}] = g[s \ {l}]
        OBVIOUS
      <4> HIDE DEF h
      <4> QED
        BY <3>1, <4>1, <4>2, <4>3
    <3>2. CASE l \notin s
      <4>1. h[s] = g[s] /\ s \in SUBSET (1 .. k)
        BY <2>2, <3>2
      <4>2. s \ {Max(s)} \in SUBSET (1 .. k) /\ h[s \ {Max(s)}] = g[s \ {Max(s)}]
        BY <2>2, <4>1
      <4> HIDE DEF h
      <4> QED
        BY <2>1, <4>1, <4>2
    <3> QED
      BY <3>1, <3>2
  <2>6. Right(h, l)
    BY <2>4, <2>5
  <2> HIDE DEF h, Right, Folds
  <2> QED
    BY <2>6 DEF l
<1>3. n \in Upto
  <2>1. \A k \in Nat : k \in Upto => k + 1 \in Upto
    <3> HIDE DEF Right, Folds
    <3> QED
      BY <1>2
  <2> HIDE DEF Upto
  <2> QED
    BY <1>1, <2>1, Induction
<1>4. n <= n
  OBVIOUS
<1> HIDE DEF Folds
<1> QED
  BY <1>3, <1>4

\* The sets of positions a fold comes by.
LEMMA FirstPositions ==
    ASSUME NEW k \in Nat
    PROVE  /\ 1 .. k + 1 # {} /\ Max(1 .. k + 1) = k + 1
           /\ (1 .. k + 1) \ {k + 1} = 1 .. k
           /\ 1 .. 0 = {}
<1>1. 1 .. k + 1 # {} /\ k + 1 \in 1 .. k + 1
  OBVIOUS
<1>2. Max(1 .. k + 1) \in 1 .. k + 1 /\ Max(1 .. k + 1) >= k + 1
  <2> DEFINE n == k + 1
             T == 1 .. n
  <2>1. n \in Nat /\ T \in SUBSET (1 .. n) /\ T # {} /\ n \in T
    BY <1>1
  <2> HIDE DEF n, T
  <2>2. Max(T) \in T /\ Max(T) >= n
    BY <2>1, MaxProperties
  <2> QED
    BY <2>2 DEF n, T
<1> QED
  BY <1>1, <1>2

\* Dedupe keeps every edge, once or more often.
LEMMA DedupeKeepsAll ==
    ASSUME NEW S, NEW edges \in Seq(S)
    PROVE  Dedupe(edges) \in Seq(S) /\ ToSet(Dedupe(edges)) = ToSet(edges)
<1> DEFINE n == Len(edges)
           Add(kept, e) == IF Contains(kept, e) THEN kept ELSE Append(kept, e)
           Body(g, s) == IF s = {} THEN << >> ELSE Add(g[s \ {Max(s)}], edges[Max(s)])
           IsFold(g) == g = [s \in SUBSET (1 .. n) |-> Body(g, s)]
           fold == CHOOSE g : IsFold(g)
<1>0. n \in Nat /\ DOMAIN edges = 1 .. n /\ << >> \in Seq(S)
  OBVIOUS
<1>1. Dedupe(edges) = fold[1 .. n]
  BY <1>0 DEF Dedupe, FoldLeft, MapThenFoldSet
<1>2. \E g : IsFold(g)
  <2> DEFINE f == [x \in Seq(S) \X (1 .. n) |-> Add(x[1], edges[x[2]])]
  <2>1. \A v \in Seq(S), i \in 1 .. n : Add(v, edges[i]) \in Seq(S) /\ f[<<v, i>>] = Add(v, edges[i])
    <3>1. \A v \in Seq(S), i \in 1 .. n : Add(v, edges[i]) \in Seq(S)
      <4>1. \A v \in Seq(S), i \in 1 .. n : Append(v, edges[i]) \in Seq(S)
        OBVIOUS
      <4> QED
        BY <4>1
    <3> HIDE DEF Add
    <3> QED
      BY <3>1
  <2>2. f \in [Seq(S) \X (1 .. n) -> Seq(S)]
    <3> HIDE DEF Add
    <3>1. \A x \in Seq(S) \X (1 .. n) : Add(x[1], edges[x[2]]) \in Seq(S)
      BY <2>1
    <3> QED
      BY <3>1
  <2> HIDE DEF f, Add
  <2>3. PICK g \in [SUBSET (1 .. n) -> Seq(S)] :
           \A s \in SUBSET (1 .. n) : g[s] = IF s = {} THEN << >> ELSE f[<<g[s \ {Max(s)}], Max(s)>>]
    <3> DEFINE V == Seq(S)
               base == << >>
    <3>1. base \in V /\ n \in Nat /\ f \in [V \X (1 .. n) -> V]
      BY <1>0, <2>2
    <3> HIDE DEF V, base, n
    <3>2. PICK g : Folds(g, V, base, f, n)
      BY <3>1, FoldIsDefined
    <3> QED
      BY <3>2 DEF Folds, V, base
  <2>4. \A s \in SUBSET (1 .. n) : s # {} => Max(s) \in 1 .. n /\ g[s \ {Max(s)}] \in Seq(S)
    <3>1. \A s \in SUBSET (1 .. n) : s # {} => Max(s) \in s
      BY <1>0, MaxProperties
    <3> HIDE DEF n
    <3> QED
      BY <3>1
  <2>5. \A s \in SUBSET (1 .. n) : g[s] = Body(g, s)
    BY <2>1, <2>3, <2>4
  <2> HIDE DEF Body
  <2>6. IsFold(g)
    BY <2>3, <2>5
  <2> QED
    BY <2>6
<1>3. IsFold(fold)
  <2> HIDE DEF IsFold
  <2> QED
    BY <1>2
<1> HIDE DEF fold
<1>4. /\ fold[1 .. 0] = << >>
      /\ \A k \in Nat : k + 1 <= n => fold[1 .. k + 1] = Add(fold[1 .. k], edges[k + 1])
  <2>1. \A s \in SUBSET (1 .. n) : fold[s] = Body(fold, s)
    <3> HIDE DEF Body
    <3> QED
      BY <1>3
  <2>2. 1 .. 0 \in SUBSET (1 .. n) /\ 1 .. 0 = {}
    BY <1>0
  <2>3. ASSUME NEW k \in Nat, k + 1 <= n PROVE fold[1 .. k + 1] = Add(fold[1 .. k], edges[k + 1])
    <3>1. 1 .. k + 1 \in SUBSET (1 .. n)
      BY <1>0, <2>3
    <3> DEFINE s == 1 .. k + 1
    <3>2. s # {} /\ Max(s) = k + 1 /\ s \ {Max(s)} = 1 .. k
      BY FirstPositions
    <3>3. fold[s] = Body(fold, s)
      BY <2>1, <3>1
    <3> HIDE DEF s, Add
    <3>4. fold[s] = Add(fold[1 .. k], edges[k + 1])
      BY <3>2, <3>3
    <3> QED
      BY <3>4 DEF s
  <2> QED
    BY <2>1, <2>2, <2>3
<1> DEFINE Right(k) == fold[1 .. k] \in Seq(S) /\ ToSet(fold[1 .. k]) = {edges[i] : i \in 1 .. k}
           Upto == {k \in Nat : k <= n => Right(k)}
<1>5. 0 \in Upto
  <2>1. ToSet(<< >>) = {} /\ 1 .. 0 = {}
    BY DEF ToSet
  <2> QED
    BY <1>0, <1>4, <2>1
<1>6. ASSUME NEW k \in Nat, k \in Upto PROVE k + 1 \in Upto
  <2> SUFFICES ASSUME k + 1 <= n PROVE Right(k + 1)
    OBVIOUS
  <2> DEFINE t == fold[1 .. k]
             e == edges[k + 1]
  <2>1. t \in Seq(S) /\ ToSet(t) = {edges[i] : i \in 1 .. k} /\ e \in S /\ fold[1 .. k + 1] = Add(t, e)
    BY <1>0, <1>4, <1>6
  <2>2. {edges[i] : i \in 1 .. k + 1} = {edges[i] : i \in 1 .. k} \cup {e}
    OBVIOUS
  <2> HIDE DEF t, e, n
  <2>3. CASE Contains(t, e)
    <3>1. e \in ToSet(t)
      BY <2>1, <2>3, InToSet DEF Contains
    <3> QED
      BY <2>1, <2>2, <2>3, <3>1
  <2>4. CASE ~ Contains(t, e)
    <3>1. fold[1 .. k + 1] = Append(t, e)
      BY <2>1, <2>4
    <3>2. Append(t, e) \in Seq(S) /\ ToSet(Append(t, e)) = ToSet(t) \cup {e}
      BY <2>1, ToSetOfAppend
    <3> QED
      BY <2>1, <2>2, <3>1, <3>2
  <2> QED
    BY <2>3, <2>4
<1>7. Right(n)
  <2>1. n \in Upto
    <3> HIDE DEF Upto
    <3> QED
      BY <1>0, <1>5, <1>6, Induction
  <2> QED
    BY <1>0, <2>1
<1>8. {edges[i] : i \in 1 .. n} = ToSet(edges)
  BY ToSetOfSeq
<1> QED
  BY <1>1, <1>7, <1>8

\* FlattenSeq puts lists one after the other.
LEMMA FlattenKeepsAll ==
    ASSUME NEW S, NEW seqs \in Seq(Seq(S))
    PROVE  /\ FlattenSeq(seqs) \in Seq(S)
           /\ ToSet(FlattenSeq(seqs)) = UNION {ToSet(seqs[i]) : i \in 1 .. Len(seqs)}
<1> DEFINE n == Len(seqs)
           Body(g, i) == IF i = 1 THEN seqs[i] ELSE g[i - 1] \o seqs[i]
           IsFlat(g) == g = [i \in 1 .. n |-> Body(g, i)]
           flat == CHOOSE g : IsFlat(g)
<1>0. n \in Nat /\ DOMAIN seqs = 1 .. n /\ \A i \in 1 .. n : seqs[i] \in Seq(S)
  OBVIOUS
<1>1. CASE n = 0
  <2>1. seqs = << >> /\ 1 .. n = {} /\ ToSet(<< >>) = {}
    BY <1>1 DEF ToSet
  <2>2. FlattenSeq(seqs) = seqs
    BY <1>1 DEF FlattenSeq
  <2>3. {ToSet(seqs[i]) : i \in 1 .. n} = {} /\ << >> \in Seq(S)
    BY <2>1
  <2>4. UNION {} = {}
    OBVIOUS
  <2> HIDE DEF n
  <2> QED
    BY <2>1, <2>2, <2>3, <2>4 DEF n
<1>2. CASE n # 0
  <2>1. FlattenSeq(seqs) = flat[n]
    BY <1>2 DEF FlattenSeq
  <2>2. \E g : IsFlat(g)
    <3> DEFINE V == Seq(S)
               f == [x \in V \X (1 .. n) |-> IF x[2] = 1 THEN seqs[x[2]] ELSE x[1] \o seqs[x[2]]]
    <3>1. \A v \in V, i \in 1 .. n : v \o seqs[i] \in V
      BY <1>0
    <3>2. f \in [V \X (1 .. n) -> V]
      BY <1>0, <3>1
    <3>3. \A v \in V, i \in 1 .. n : f[<<v, i>>] = IF i = 1 THEN seqs[i] ELSE v \o seqs[i]
      OBVIOUS
    <3>4. << >> \in V
      OBVIOUS
    <3> HIDE DEF V, f, n
    <3>a. PICK h : Recurs(h, V, << >>, f, n)
      BY <1>0, <3>2, <3>4, Recursion
    <3>5. h \in [0 .. n -> V] /\ h[0] = << >> /\ \A i \in 1 .. n : h[i] = f[<<h[i - 1], i>>]
      BY <3>a DEF Recurs
    <3> DEFINE g == [i \in 1 .. n |-> h[i]]
    <3>6. \A i \in 1 .. n : h[i] = IF i = 1 THEN seqs[i] ELSE h[i - 1] \o seqs[i]
      <4>1. \A i \in 1 .. n : h[i - 1] \in V
        <5>1. \A i \in 1 .. n : i - 1 \in 0 .. n
          BY <1>0
        <5> QED
          BY <3>5, <5>1
      <4> QED
        BY <3>3, <3>5, <4>1
    <3>7. \A i \in 1 .. n : g[i] = Body(g, i)
      <4> SUFFICES ASSUME NEW i \in 1 .. n PROVE g[i] = Body(g, i)
        OBVIOUS
      <4>1. CASE i = 1
        BY <3>6, <4>1
      <4>2. CASE i # 1
        <5>1. i - 1 \in 1 .. n /\ g[i - 1] = h[i - 1]
          BY <1>0, <4>2
        <5> QED
          BY <3>6, <4>2, <5>1
      <4> QED
        BY <4>1, <4>2
    <3>8. IsFlat(g)
      <4> HIDE DEF Body
      <4> QED
        BY <3>7
    <3> HIDE DEF g, IsFlat
    <3> QED
      BY <3>8
  <2>3. IsFlat(flat)
    <3> HIDE DEF IsFlat
    <3> QED
      BY <2>2
  <2> HIDE DEF flat
  <2>4. \A i \in 1 .. n : flat[i] = IF i = 1 THEN seqs[i] ELSE flat[i - 1] \o seqs[i]
    BY <2>3
  <2> DEFINE Right(k) == /\ flat[k] \in Seq(S)
                         /\ ToSet(flat[k]) = UNION {ToSet(seqs[i]) : i \in 1 .. k}
             Upto == {k \in Nat : k \in 1 .. n => Right(k)}
  <2>5. 0 \in Upto
    OBVIOUS
  <2>6. ASSUME NEW k \in Nat, k \in Upto PROVE k + 1 \in Upto
    <3> SUFFICES ASSUME k + 1 \in 1 .. n PROVE Right(k + 1)
      OBVIOUS
    <3> DEFINE l == k + 1
               t == seqs[l]
    <3>1. t \in Seq(S)
      BY <1>0
    <3>2. CASE k = 0
      <4>1. flat[l] = t /\ 1 .. l = {l}
        <5>1. l = 1 /\ 1 .. 1 = {1} /\ 1 \in 1 .. n
          BY <3>2
        <5> HIDE DEF l
        <5>2. flat[1] = seqs[1]
          BY <2>4, <5>1
        <5> QED
          BY <5>1, <5>2
      <4>2. UNION {ToSet(seqs[i]) : i \in {l}} = ToSet(t)
        OBVIOUS
      <4> HIDE DEF l, t
      <4> QED
        BY <3>1, <4>1, <4>2 DEF l
    <3>3. CASE k # 0
      <4>1. k \in 1 .. n /\ l # 1 /\ l - 1 = k /\ 1 .. l = (1 .. k) \cup {l}
        BY <3>3
      <4>2. Right(k) /\ flat[l] = flat[k] \o t
        BY <2>4, <2>6, <4>1
      <4>3. flat[l] \in Seq(S) /\ ToSet(flat[l]) = ToSet(flat[k]) \cup ToSet(t)
        BY <3>1, <4>2, ToSetOfConcat
      <4>4. UNION {ToSet(seqs[i]) : i \in (1 .. k) \cup {l}}
              = (UNION {ToSet(seqs[i]) : i \in 1 .. k}) \cup ToSet(t)
        OBVIOUS
      <4> HIDE DEF l, t
      <4> QED
        BY <4>1, <4>2, <4>3, <4>4 DEF l
    <3> QED
      BY <3>2, <3>3
  <2>7. Right(n)
    <3>1. n \in Upto
      <4> HIDE DEF Upto
      <4> QED
        BY <1>0, <2>5, <2>6, Induction
    <3> QED
      BY <1>0, <1>2, <3>1
  <2> QED
    BY <2>1, <2>7
<1> QED
  BY <1>1, <1>2

-----------------------------------------------------------------------------
(***************************************************************************)
(* The links of a document and those of the flow it compiles to.           *)
(***************************************************************************)
LEMMA ListOver ==
    ASSUME NEW s, IsList(s), NEW S, ToSet(s) \subseteq S
    PROVE  s \in Seq(S)
<1>1. Len(s) \in Nat /\ s \in [1 .. Len(s) -> ToSet(s)]
  BY DEF IsList
<1> QED
  BY <1>1

\* What is left of a list.
LEMMA Filtered ==
    ASSUME NEW list, IsList(list), NEW set
    PROVE  /\ IsList(Only(list, set)) /\ ToSet(Only(list, set)) = ToSet(list) \cap set
           /\ Len(Only(list, set)) <= Len(list)
<1> DEFINE S == ToSet(list)
           kept == Only(list, set)
<1>1. list \in Seq(S)
  BY DEF IsList
<1> HIDE DEF S
<1>2. kept \in Seq(S \cap set) /\ ToSet(kept) = ToSet(list) \cap set /\ Len(kept) <= Len(list)
  BY <1>1, OnlyProperties
<1> HIDE DEF kept
<1>3. IsList(kept)
  BY <1>2, ToSetOfSeq DEF IsList
<1> QED
  BY <1>2, <1>3 DEF kept

\* The image of a list, element by element.
LEMMA Image ==
    ASSUME NEW list, IsList(list), NEW image, DOMAIN image = DOMAIN list,
           image = [i \in DOMAIN image |-> image[i]]
    PROVE  /\ ToSet(image) = {image[i] : i \in 1 .. Len(list)}
           /\ IsList(image) /\ Len(image) = Len(list)
<1> DEFINE n == Len(list)
<1>1. n \in Nat /\ DOMAIN list = 1 .. n
  BY DEF IsList
<1> HIDE DEF n
<1>2. ToSet(image) = {image[i] : i \in 1 .. n}
  BY <1>1 DEF ToSet
<1> DEFINE T == ToSet(image)
<1>3. \A i \in 1 .. n : image[i] \in T
  BY <1>2
<1> HIDE DEF T
<1>4. image \in [1 .. n -> T]
  BY <1>1, <1>3
<1>5. image \in Seq(T) /\ Len(image) = n
  BY <1>1, <1>4
<1> QED
  BY <1>2, <1>5 DEF IsList, T, n

\* The steps of two lists together.
LEMMA BothLists ==
    ASSUME NEW t, IsList(t), NEW s, IsList(s)
    PROVE  /\ IsList(t \o s) /\ ToSet(t \o s) = ToSet(t) \cup ToSet(s)
           /\ IdsOf(t \o s) = IdsOf(t) \cup IdsOf(s)
<1> DEFINE S == ToSet(t) \cup ToSet(s)
<1>1. t \in Seq(S) /\ s \in Seq(S)
  BY ListOver
<1> HIDE DEF S
<1>2. t \o s \in Seq(S) /\ ToSet(t \o s) = ToSet(t) \cup ToSet(s)
  BY <1>1, ToSetOfConcat
<1> QED
  BY <1>2 DEF S, IsList, IdsOf

LEMMA StepsAreAList ==
    ASSUME NEW doc, IsDocument(doc)
    PROVE  /\ IsList(Steps(doc))
           /\ ToSet(Steps(doc)) = ToSet(doc.triggers) \cup ToSet(doc.steps)
           /\ \A s \in ToSet(Steps(doc)) : IsStep(s)
<1> DEFINE S == ToSet(doc.triggers) \cup ToSet(doc.steps)
<1>1. doc.triggers \in Seq(S) /\ doc.steps \in Seq(S)
  BY ListOver DEF IsDocument
<1> HIDE DEF S
<1>2. Steps(doc) \in Seq(S) /\ ToSet(Steps(doc)) = ToSet(doc.triggers) \cup ToSet(doc.steps)
  BY <1>1, ToSetOfConcat DEF Steps
<1> QED
  BY <1>2 DEF IsList, S, IsDocument

\* The lists that one list of lists is made of.
ListsOver(seqs, n, S) ==
    /\ DOMAIN seqs = 1 .. n /\ seqs = [i \in 1 .. n |-> seqs[i]]
    /\ \A i \in 1 .. n : IsList(seqs[i]) /\ ToSet(seqs[i]) \subseteq S

LEMMA FlattenOver ==
    ASSUME NEW S, NEW n \in Nat, NEW seqs, ListsOver(seqs, n, S)
    PROVE  /\ FlattenSeq(seqs) \in Seq(S)
           /\ ToSet(FlattenSeq(seqs)) = UNION {ToSet(seqs[i]) : i \in 1 .. n}
<1>0. /\ DOMAIN seqs = 1 .. n /\ seqs = [i \in 1 .. n |-> seqs[i]]
      /\ \A i \in 1 .. n : IsList(seqs[i]) /\ ToSet(seqs[i]) \subseteq S
  BY DEF ListsOver
<1>1. \A i \in 1 .. n : seqs[i] \in Seq(S)
  BY <1>0, ListOver
<1>2. seqs \in Seq(Seq(S)) /\ Len(seqs) = n
  <2> DEFINE T == Seq(S)
  <2> HIDE DEF T
  <2>1. seqs \in [1 .. n -> T]
    BY <1>0, <1>1 DEF T
  <2>2. seqs \in Seq(T) /\ Len(seqs) = n
    BY <2>1
  <2> QED
    BY <2>2 DEF T
<1> QED
  BY <1>2, FlattenKeepsAll

\* An edge of the file, as a link.
Link(e) == IF e.targetHandle = Selected THEN <<e.target, e.source>> ELSE <<e.source, e.target>>

LEMMA LinksOfFlow ==
    ASSUME NEW flow
    PROVE  FlowLinks(flow) = {Link(e) : e \in ToSet(flow.edges)}
  BY DEF FlowLinks, Link

\* A handle is known by its form and its name.
LEMMA HandleForm ==
    /\ \A form, name : IsHandle(Handle(form, name))
    /\ \A kind, h : IsHandle(h) => IsHandle(Prefixed(kind, h)) /\ IsHandle(Unprefixed(kind, h))
<1>1. \A form, name : IsHandle(Handle(form, name))
  BY DEF IsHandle, Handle
<1> QED
  BY <1>1 DEF Prefixed, Unprefixed, Output, Plain

LEMMA HandlesOfEdges ==
    IsHandle(NoHandle) /\ \A x : IsHandle(Plain(x)) /\ IsHandle(ButtonOf(x))
  BY HandleForm DEF NoHandle, Plain, ButtonOf

\* The edge of a route leads where the route leads (compiler.py, compile_route).
LEMMA RouteLink ==
    ASSUME NEW doc, NEW r, IsRoute(r), r.targetHandle # Selected
    PROVE  Link(CompileRoute(doc, r)) = <<r.source, r.target>>
<1> DEFINE h == Prefixed(KindOf(doc, r.source), r.handle)
<1>1. CompileRoute(doc, r) = [r EXCEPT !.handle = h]
  BY DEF CompileRoute
<1> HIDE DEF h
<1>2. [r EXCEPT !.handle = h]
        = [source |-> r.source, target |-> r.target, handle |-> h, targetHandle |-> r.targetHandle]
  BY DEF IsRoute
<1> QED
  BY <1>1, <1>2 DEF Link

\* The edges a step has besides its routes.
PressEdge(s, b) == Route(s.id, b.next, ButtonOf(b.text))
EditEdge(s)     == [Route(s.id, s.target, NoHandle) EXCEPT !.targetHandle = Selected]

PressEdges(s) ==
    IF s.kind \in ButtonKinds THEN {PressEdge(s, b) : b \in {c \in ToSet(s.buttons) : c.next # None}}
    ELSE {}
EditEdges(s) == IF s.kind \in TargetKinds /\ s.target # None THEN {EditEdge(s)} ELSE {}
RawEdges(s)  == IF s.kind = "raw_node" THEN ToSet(s.routes) ELSE {}

LEMMA ImplicitSet ==
    ASSUME NEW s, IsStep(s)
    PROVE  /\ IsList(ImplicitEdges(s))
           /\ ToSet(ImplicitEdges(s)) = (PressEdges(s) \cup EditEdges(s)) \cup RawEdges(s)
<1> DEFINE set     == {b \in ToSet(s.buttons) : b.next # None}
           pressed == Only(s.buttons, set)
           n       == Len(pressed)
           buttons == [i \in DOMAIN pressed |-> PressEdge(s, pressed[i])]
           edited  == EditEdge(s)
           A == IF s.kind \in ButtonKinds THEN buttons ELSE << >>
           B == IF s.kind \in TargetKinds /\ s.target # None THEN <<edited>> ELSE << >>
           C == IF s.kind = "raw_node" THEN s.routes ELSE << >>
<1>0. IsList(<< >>) /\ ToSet(<< >>) = {}
  BY DEF IsList, ToSet
<1>1. ImplicitEdges(s) = (A \o B) \o C
  BY DEF ImplicitEdges, PressEdge, EditEdge
<1>2. IsList(A) /\ ToSet(A) = PressEdges(s)
  <2>1. IsList(s.buttons)
    BY DEF IsStep
  <2>2. IsList(pressed) /\ ToSet(pressed) = set
    <3>1. ToSet(s.buttons) \cap set = set
      OBVIOUS
    <3> HIDE DEF set
    <3> QED
      BY <2>1, <3>1, Filtered
  <2> HIDE DEF pressed
  <2>3. DOMAIN buttons = DOMAIN pressed /\ buttons = [i \in DOMAIN buttons |-> buttons[i]]
        /\ \A i \in DOMAIN pressed : buttons[i] = PressEdge(s, pressed[i])
    OBVIOUS
  <2> HIDE DEF buttons
  <2>4. IsList(buttons)
    BY <2>2, <2>3, Image
  <2>5. ToSet(buttons) = {PressEdge(s, b) : b \in set}
    <3> HIDE DEF set
    <3> QED
      BY <2>2, <2>3 DEF ToSet
  <2> QED
    BY <1>0, <2>4, <2>5 DEF PressEdges
<1>3. IsList(B) /\ ToSet(B) = EditEdges(s)
  <2> HIDE DEF edited
  <2>1. IsList(<<edited>>) /\ ToSet(<<edited>>) = {edited}
    BY DEF IsList, ToSet
  <2> QED
    BY <1>0, <2>1 DEF EditEdges, edited
<1>4. IsList(C) /\ ToSet(C) = RawEdges(s)
  BY <1>0 DEF IsStep, RawEdges
<1> HIDE DEF A, B, C
<1>5. IsList(A \o B) /\ ToSet(A \o B) = PressEdges(s) \cup EditEdges(s)
  BY <1>2, <1>3, BothLists
<1> DEFINE AB == A \o B
<1> HIDE DEF AB
<1>6. IsList(AB \o C) /\ ToSet(AB \o C) = (PressEdges(s) \cup EditEdges(s)) \cup RawEdges(s)
  BY <1>4, <1>5, BothLists DEF AB
<1> QED
  BY <1>1, <1>6 DEF AB

\* The links of these edges: from a step to what a button leads to, and from the
\* message to its edit (compiler.py, compile_implicit_edges).
LinksOfStep(s) ==
    (IF s.kind \in ButtonKinds THEN {<<s.id, b.next>> : b \in {c \in ToSet(s.buttons) : c.next # None}}
     ELSE {})
    \cup (IF s.kind \in TargetKinds /\ s.target # None THEN {<<s.target, s.id>>} ELSE {})
    \cup (IF s.kind = "raw_node" THEN {<<r.source, r.target>> : r \in ToSet(s.routes)} ELSE {})

\* Only the edit of a message has an edge to what it edits.
EdgeOf(s, e) == IsRoute(e) /\ (e.targetHandle = Selected => e.source = s.id /\ s.kind \in TargetKinds)

LEMMA ImplicitLinks ==
    ASSUME NEW s, IsStep(s), Ordinary(s.routes)
    PROVE  /\ IsList(ImplicitEdges(s))
           /\ {Link(e) : e \in ToSet(ImplicitEdges(s))} = LinksOfStep(s)
           /\ \A e \in ToSet(ImplicitEdges(s)) : EdgeOf(s, e)
<1> DEFINE links(set) == {Link(e) : e \in set}
<1>1. /\ IsList(ImplicitEdges(s))
      /\ ToSet(ImplicitEdges(s)) = (PressEdges(s) \cup EditEdges(s)) \cup RawEdges(s)
  BY ImplicitSet
<1>2. \A b : Link(PressEdge(s, b)) = <<s.id, b.next>> /\ EdgeOf(s, PressEdge(s, b))
  <2>1. \A b : PressEdge(s, b).handle = ButtonOf(b.text)
    BY DEF PressEdge, Route
  <2> QED
    BY <2>1, HandlesOfEdges DEF Link, EdgeOf, IsRoute, PressEdge, Route, NoHandle, Selected, Handle
<1>3. Link(EditEdge(s)) = <<s.target, s.id>> /\ (s.kind \in TargetKinds => EdgeOf(s, EditEdge(s)))
  BY HandlesOfEdges DEF Link, EditEdge, Route, EdgeOf, IsRoute
<1>4. \A r \in ToSet(s.routes) : Link(r) = <<r.source, r.target>> /\ EdgeOf(s, r)
  BY DEF Ordinary, Link, EdgeOf, IsStep
<1>5. /\ links(PressEdges(s)) =
            (IF s.kind \in ButtonKinds THEN {<<s.id, b.next>> : b \in {c \in ToSet(s.buttons) : c.next # None}}
             ELSE {})
      /\ \A e \in PressEdges(s) : EdgeOf(s, e)
  BY <1>2 DEF PressEdges
<1>6. /\ links(EditEdges(s)) = (IF s.kind \in TargetKinds /\ s.target # None THEN {<<s.target, s.id>>} ELSE {})
      /\ \A e \in EditEdges(s) : EdgeOf(s, e)
  BY <1>3 DEF EditEdges
<1>7. /\ links(RawEdges(s)) =
            (IF s.kind = "raw_node" THEN {<<r.source, r.target>> : r \in ToSet(s.routes)} ELSE {})
      /\ \A e \in RawEdges(s) : EdgeOf(s, e)
  BY <1>4 DEF RawEdges
<1>8. links(ToSet(ImplicitEdges(s))) = (links(PressEdges(s)) \cup links(EditEdges(s))) \cup links(RawEdges(s))
  BY <1>1
<1> HIDE DEF links
<1>9. links(ToSet(ImplicitEdges(s))) = LinksOfStep(s)
  BY <1>5, <1>6, <1>7, <1>8 DEF LinksOfStep
<1>10. \A e \in ToSet(ImplicitEdges(s)) : EdgeOf(s, e)
  BY <1>1, <1>5, <1>6, <1>7
<1> QED
  BY <1>1, <1>9, <1>10 DEF links

AllRoutes(doc) == ToSet(doc.routes) \cup UNION {ToSet(s.routes) : s \in ToSet(Steps(doc))}

\* The nodes and the edges of a flow are those of its steps and routes
\* (compiler.py, compile_document).
LEMMA CompiledNodes ==
    ASSUME NEW doc, IsDocument(doc)
    PROVE  /\ ToSet(Compile(doc).nodes) = {CompileStep(s) : s \in ToSet(Steps(doc))}
           /\ IsList(Compile(doc).nodes)
           /\ Len(Compile(doc).nodes) = Len(Steps(doc))
           /\ IdsOf(Compile(doc).nodes) = IdsOf(Steps(doc))
<1> DEFINE steps == Steps(doc)
           n == Len(steps)
           nodes == [i \in DOMAIN steps |-> CompileStep(steps[i])]
<1>1. IsList(steps) /\ DOMAIN steps = 1 .. n /\ ToSet(steps) = {steps[i] : i \in 1 .. n}
  BY StepsAreAList, ToSetOfSeq DEF IsList
<1>2. Compile(doc).nodes = nodes
  BY DEF Compile
<1>3. DOMAIN nodes = DOMAIN steps /\ nodes = [i \in DOMAIN nodes |-> nodes[i]]
  OBVIOUS
<1>4. \A i \in 1 .. n : nodes[i] = CompileStep(steps[i])
  BY <1>1
<1> HIDE DEF steps, n, nodes
<1>5. ToSet(nodes) = {nodes[i] : i \in 1 .. n} /\ IsList(nodes) /\ Len(nodes) = n
  BY <1>1, <1>3, Image DEF n
<1>6. ToSet(nodes) = {CompileStep(s) : s \in ToSet(steps)}
  BY <1>1, <1>4, <1>5
<1>7. \A s : CompileStep(s).id = s.id
  BY DEF CompileStep
<1>8. IdsOf(nodes) = IdsOf(steps)
  BY <1>6, <1>7 DEF IdsOf
<1> QED
  BY <1>2, <1>5, <1>6, <1>8 DEF steps, n

LEMMA CompiledEdges ==
    ASSUME NEW doc, IsDocument(doc), OrdinaryDocument(doc)
    PROVE  /\ ToSet(Compile(doc).edges) =
                  {CompileRoute(doc, r) : r \in AllRoutes(doc)}
                  \cup UNION {ToSet(ImplicitEdges(s)) : s \in ToSet(Steps(doc))}
           /\ IsList(Compile(doc).edges)
<1> DEFINE steps == Steps(doc)
           n == Len(steps)
           own == [i \in DOMAIN steps |-> steps[i].routes]
           implicit == [i \in DOMAIN steps |-> ImplicitEdges(steps[i])]
           routes == doc.routes \o FlattenSeq(own)
           compiled == [i \in DOMAIN routes |-> CompileRoute(doc, routes[i])]
           extra == FlattenSeq(implicit)
           Extra == UNION {ToSet(ImplicitEdges(s)) : s \in ToSet(steps)}
<1>1. IsList(steps) /\ DOMAIN steps = 1 .. n /\ n \in Nat /\ ToSet(steps) = {steps[i] : i \in 1 .. n}
  BY StepsAreAList, ToSetOfSeq DEF IsList
<1>2. Compile(doc).edges = Dedupe(compiled \o extra)
  BY DEF Compile
<1>3. \A i \in 1 .. n : /\ IsStep(steps[i]) /\ Ordinary(steps[i].routes)
                        /\ steps[i] \in ToSet(steps)
  <2>1. \A i \in 1 .. n : steps[i] \in ToSet(steps)
    BY <1>1
  <2>2. \A s \in ToSet(steps) : IsStep(s) /\ Ordinary(s.routes)
    BY StepsAreAList DEF OrdinaryDocument
  <2> HIDE DEF steps
  <2> QED
    BY <2>1, <2>2
<1> HIDE DEF steps, n
<1>4. ToSet(routes) = AllRoutes(doc) /\ IsList(routes)
  <2> DEFINE S == AllRoutes(doc)
  <2>1. /\ DOMAIN own = 1 .. n /\ own = [i \in 1 .. n |-> own[i]]
        /\ \A i \in 1 .. n : own[i] = steps[i].routes
    BY <1>1
  <2>2. \A i \in 1 .. n : IsList(own[i]) /\ ToSet(own[i]) \subseteq S
    BY <1>3, <2>1 DEF AllRoutes, IsStep, steps
  <2> HIDE DEF own
  <2>3. doc.routes \in Seq(S)
    BY ListOver DEF IsDocument, AllRoutes
  <2> HIDE DEF S
  <2>4. FlattenSeq(own) \in Seq(S) /\ ToSet(FlattenSeq(own)) = UNION {ToSet(own[i]) : i \in 1 .. n}
    <3>1. ListsOver(own, n, S)
      BY <2>1, <2>2 DEF ListsOver
    <3> QED
      BY <1>1, <3>1, FlattenOver
  <2>5. UNION {ToSet(own[i]) : i \in 1 .. n} = UNION {ToSet(s.routes) : s \in ToSet(steps)}
    BY <1>1, <2>1
  <2>6. routes \in Seq(S) /\ ToSet(routes) = ToSet(doc.routes) \cup ToSet(FlattenSeq(own))
    BY <2>3, <2>4, ToSetOfConcat
  <2> HIDE DEF routes
  <2> QED
    BY <2>4, <2>5, <2>6, ToSetOfSeq DEF AllRoutes, IsList, steps
<1>5. ToSet(compiled) = {CompileRoute(doc, r) : r \in AllRoutes(doc)} /\ IsList(compiled)
  <2> DEFINE m == Len(routes)
  <2> HIDE DEF routes
  <2>1. DOMAIN routes = 1 .. m /\ ToSet(routes) = {routes[i] : i \in 1 .. m}
    BY <1>4, ToSetOfSeq DEF IsList
  <2>2. /\ DOMAIN compiled = DOMAIN routes /\ compiled = [i \in DOMAIN compiled |-> compiled[i]]
        /\ \A i \in 1 .. m : compiled[i] = CompileRoute(doc, routes[i])
    BY <2>1
  <2> HIDE DEF compiled
  <2>3. ToSet(compiled) = {compiled[i] : i \in 1 .. m} /\ IsList(compiled)
    BY <1>4, <2>2, Image
  <2> QED
    BY <1>4, <2>1, <2>2, <2>3
<1>6. ToSet(extra) = Extra /\ extra \in Seq(Extra)
  <2>1. /\ DOMAIN implicit = 1 .. n /\ implicit = [i \in 1 .. n |-> implicit[i]]
        /\ \A i \in 1 .. n : implicit[i] = ImplicitEdges(steps[i])
    BY <1>1
  <2>2. \A i \in 1 .. n : IsList(implicit[i]) /\ ToSet(implicit[i]) \subseteq Extra
    <3>1. \A i \in 1 .. n : IsList(implicit[i])
      BY <1>3, <2>1, ImplicitLinks
    <3> QED
      BY <1>3, <2>1, <3>1
  <2> HIDE DEF implicit
  <2>3. Extra = UNION {ToSet(implicit[i]) : i \in 1 .. n}
    BY <1>1, <2>1
  <2>4. ListsOver(implicit, n, Extra)
    BY <2>1, <2>2 DEF ListsOver
  <2> HIDE DEF Extra
  <2> QED
    BY <1>1, <2>3, <2>4, FlattenOver
<1> HIDE DEF compiled, extra, Extra
<1>7. /\ ToSet(compiled \o extra) = ToSet(compiled) \cup Extra
      /\ compiled \o extra \in Seq(ToSet(compiled) \cup Extra)
  <2> DEFINE S == ToSet(compiled) \cup Extra
  <2>1. compiled \in Seq(S) /\ extra \in Seq(S)
    BY <1>5, <1>6, ListOver
  <2> HIDE DEF S
  <2>2. compiled \o extra \in Seq(S) /\ ToSet(compiled \o extra) = ToSet(compiled) \cup ToSet(extra)
    BY <2>1, ToSetOfConcat
  <2> QED
    BY <1>6, <2>2 DEF S
<1>8. ToSet(Dedupe(compiled \o extra)) = ToSet(compiled \o extra) /\ IsList(Dedupe(compiled \o extra))
  BY <1>7, DedupeKeepsAll, ToSetOfSeq DEF IsList
<1> QED
  BY <1>2, <1>5, <1>7, <1>8 DEF Extra, steps

\* The validator finds the links the compiler writes (validator.py,
\* build_dsl_adjacency).
LEMMA CompiledLinks ==
    ASSUME NEW doc, IsDocument(doc), OrdinaryDocument(doc)
    PROVE  FlowLinks(Compile(doc)) = Links(doc)
<1> DEFINE steps == ToSet(Steps(doc))
           R == AllRoutes(doc)
           edges == ToSet(Compile(doc).edges)
           routed == {<<r.source, r.target>> : r \in R}
<1>1. \A s \in steps : /\ Ordinary(s.routes)
                       /\ {Link(e) : e \in ToSet(ImplicitEdges(s))} = LinksOfStep(s)
  <2>1. \A s \in steps : IsStep(s) /\ Ordinary(s.routes)
    BY StepsAreAList DEF OrdinaryDocument
  <2> QED
    BY <2>1, ImplicitLinks
<1>2. \A r \in R : IsRoute(r) /\ r.targetHandle # Selected
  <2>1. \A s \in steps : IsStep(s) /\ Ordinary(s.routes)
    BY StepsAreAList DEF OrdinaryDocument
  <2> QED
    BY <2>1 DEF AllRoutes, IsDocument, OrdinaryDocument, IsStep, Ordinary
<1>3. edges = {CompileRoute(doc, r) : r \in R} \cup UNION {ToSet(ImplicitEdges(s)) : s \in steps}
  BY CompiledEdges
<1> HIDE DEF steps, R, edges
<1>4. FlowLinks(Compile(doc)) = {Link(e) : e \in edges}
  BY LinksOfFlow DEF edges
<1>5. {Link(e) : e \in edges} = routed \cup UNION {LinksOfStep(s) : s \in steps}
  <2>1. \A r \in R : Link(CompileRoute(doc, r)) = <<r.source, r.target>>
    BY <1>2, RouteLink
  <2>2. {Link(e) : e \in {CompileRoute(doc, r) : r \in R}} = routed
    BY <2>1
  <2>3. {Link(e) : e \in UNION {ToSet(ImplicitEdges(s)) : s \in steps}}
          = UNION {{Link(e) : e \in ToSet(ImplicitEdges(s))} : s \in steps}
    OBVIOUS
  <2>4. UNION {{Link(e) : e \in ToSet(ImplicitEdges(s))} : s \in steps}
          = UNION {LinksOfStep(s) : s \in steps}
    BY <1>1
  <2> HIDE DEF routed
  <2> QED
    BY <1>3, <2>2, <2>3, <2>4
<1>6. \A s \in steps : ToSet(s.routes) \subseteq R
  BY DEF AllRoutes, R, steps
<1> DEFINE pressed == UNION {{<<s.id, b.next>> : b \in {c \in ToSet(s.buttons) : c.next # None}} :
                               s \in {t \in steps : t.kind \in ButtonKinds}}
           edited == {<<s.target, s.id>> : s \in {t \in steps : t.kind \in TargetKinds /\ t.target # None}}
<1>7. routed \cup UNION {LinksOfStep(s) : s \in steps} = (routed \cup pressed) \cup edited
  <2>1. \A s \in steps : LinksOfStep(s) \subseteq (routed \cup pressed) \cup edited
    BY <1>6 DEF LinksOfStep
  <2>2. \A l \in pressed : \E s \in steps : l \in LinksOfStep(s)
    BY DEF LinksOfStep
  <2>3. \A l \in edited : \E s \in steps : l \in LinksOfStep(s)
    BY DEF LinksOfStep
  <2> HIDE DEF routed, pressed, edited
  <2> QED
    BY <2>1, <2>2, <2>3
<1>8. Links(doc) = (routed \cup pressed) \cup edited
  <2>1. R = ToSet(doc.routes) \cup UNION {ToSet(s.routes) : s \in steps}
    BY DEF AllRoutes, R, steps
  <2> HIDE DEF routed, pressed, edited
  <2>2. routed = {<<r.source, r.target>> :
                    r \in ToSet(doc.routes) \cup UNION {ToSet(s.routes) : s \in steps}}
    BY <2>1 DEF routed
  <2> QED
    BY <2>2, Zenon DEF Links, steps, pressed, edited
<1> QED
  BY <1>4, <1>5, <1>7, <1>8

-----------------------------------------------------------------------------
(***************************************************************************)
(* What the validator accepts.                                             *)
(***************************************************************************)
\* There are as many ids as steps if no two steps share one, and only then.
LEMMA IdsAreCounted ==
    ASSUME NEW list, IsList(list)
    PROVE  Cardinality(IdsOf(list)) = Len(list) <=> DistinctIds(list)
<1> DEFINE n == Len(list)
           S == IdsOf(list)
           f == [i \in 1 .. n |-> list[i].id]
<1>1. n \in Nat /\ DOMAIN list = 1 .. n /\ ToSet(list) = {list[i] : i \in 1 .. n}
  <2>1. list \in Seq(ToSet(list))
    BY DEF IsList
  <2> QED
    BY <2>1, ToSetOfSeq
<1>2. S = {list[i].id : i \in 1 .. n}
  BY <1>1 DEF IdsOf
<1> HIDE DEF S
<1>3. f \in [1 .. n -> S]
  BY <1>2
<1>4. f \in Surjection(1 .. n, S)
  BY <1>2, <1>3 DEF Surjection
<1>5. f \in Injection(1 .. n, S) <=> DistinctIds(list)
  <2>1. DistinctIds(list) <=> \A i, j \in 1 .. n : f[i] = f[j] => i = j
    BY <1>1 DEF DistinctIds
  <2>2. DOMAIN f = 1 .. n
    OBVIOUS
  <2> HIDE DEF f
  <2> QED
    BY <1>3, <2>1, <2>2 DEF Injection, IsInjective
<1>6. IsFiniteSet(1 .. n) /\ Cardinality(1 .. n) = n
  <2> HIDE DEF n, f
  <2>1. n \in Int /\ 1 \in Int
    BY <1>1
  <2>2. IsFiniteSet(1 .. n) /\ Cardinality(1 .. n) = IF 1 > n THEN 0 ELSE n - 1 + 1
    BY <2>1, FS_Interval
  <2> QED
    BY <1>1, <2>2
<1> HIDE DEF f
<1>7. Cardinality(S) = Cardinality(1 .. n) <=> f \in Injection(1 .. n, S)
  <2> DEFINE T == 1 .. n
  <2> HIDE DEF T
  <2>1. f \in Surjection(T, S) /\ IsFiniteSet(T)
    BY <1>4, <1>6 DEF T
  <2>2. Cardinality(S) = Cardinality(T) <=> f \in Injection(T, S)
    BY <2>1, FS_Surjection
  <2> QED
    BY <2>2 DEF T
<1> QED
  BY <1>5, <1>6, <1>7 DEF S, n

\* A document without errors: each check of the validator, as it is needed.
LEMMA Checked ==
    ASSUME NEW doc, Accepted(doc)
    PROVE  /\ Cardinality(IdsOf(Steps(doc))) = Len(Steps(doc))
           /\ Unreachable(doc) = {}
           /\ \A e \in ToSet(Compile(doc).edges) :
                 /\ e.source \in IdsOf(Compile(doc).nodes)
                 /\ e.target \in IdsOf(Compile(doc).nodes)
<1>1. DocumentErrors(doc) = {} /\ CompiledErrors(Compile(doc)) = {}
  BY DEF Accepted, Errors
<1>2. ~ (Cardinality(IdsOf(Steps(doc))) # Len(Steps(doc)))
  BY <1>1, Zenon DEF DocumentErrors
<1>3. doc.triggers # << >>
  BY <1>1 DEF DocumentErrors
<1>4. ~ (doc.triggers # << >> /\ Unreachable(doc) # {})
  BY <1>1, Zenon DEF DocumentErrors
<1>5. "edge source missing" \notin CompiledErrors(Compile(doc))
      /\ "edge target missing" \notin CompiledErrors(Compile(doc))
  BY <1>1
<1> DEFINE flow == Compile(doc)
<1> HIDE DEF flow
<1>6. \A e \in ToSet(flow.edges) : e.source \in IdsOf(flow.nodes) /\ e.target \in IdsOf(flow.nodes)
  <2>1. "edge source missing" \notin CompiledErrors(flow)
        /\ "edge target missing" \notin CompiledErrors(flow)
    BY <1>5 DEF flow
  <2> QED
    BY <2>1 DEF CompiledErrors
<1> QED
  BY <1>2, <1>3, <1>4, <1>6 DEF flow

\* More triggers reach more.
LEMMA ReachableGrows ==
    ASSUME NEW few, NEW more, few \subseteq more, NEW links
    PROVE  /\ Reachable(few, links) \subseteq Reachable(more, links)
           /\ few \cap Ids \subseteq Reachable(more, links)
  BY DEF Reachable

\* The file of an accepted document is sound if what it stores as triggers are
\* triggers (validate_document and validate_compiled_flow in validator.py, the
\* compiler in compiler.py).
LEMMA AcceptedFlowIsSound ==
    ASSUME NEW doc, IsDocument(doc), OrdinaryDocument(doc), Accepted(doc),
           IdsOf(doc.triggers) \subseteq Ids,
           \A t \in ToSet(doc.triggers) : t.kind \in TriggerKinds
    PROVE  SoundFlow(Compile(doc))
<1> DEFINE flow == Compile(doc)
           ids == IdsOf(flow.nodes)
           roots == {n.id : n \in {m \in ToSet(flow.nodes) : m.type \in TriggerKinds}}
           links == FlowLinks(flow)
<1>1. /\ ids = IdsOf(Steps(doc)) /\ Len(flow.nodes) = Len(Steps(doc))
      /\ ToSet(flow.nodes) = {CompileStep(s) : s \in ToSet(Steps(doc))}
      /\ links = Links(doc)
  BY CompiledNodes, CompiledLinks
<1>2. /\ Cardinality(IdsOf(Steps(doc))) = Len(Steps(doc)) /\ Unreachable(doc) = {}
      /\ \A e \in ToSet(flow.edges) : e.source \in ids /\ e.target \in ids
  BY Checked
<1>3. ToSet(Steps(doc)) = ToSet(doc.triggers) \cup ToSet(doc.steps)
  BY StepsAreAList
<1>4. IdsOf(doc.triggers) \subseteq roots
  <2> SUFFICES ASSUME NEW t \in ToSet(doc.triggers) PROVE t.id \in roots
    BY DEF IdsOf
  <2>1. CompileStep(t) \in ToSet(flow.nodes)
    BY <1>1, <1>3
  <2>2. CompileStep(t).id = t.id /\ CompileStep(t).type = t.kind
    BY DEF CompileStep
  <2> QED
    BY <2>1, <2>2
<1>5. \A l \in links : l[1] \in ids /\ l[2] \in ids
  BY <1>2 DEF FlowLinks
<1>6. ids \subseteq Reachable(roots, links)
  <2>1. ids = IdsOf(doc.triggers) \cup IdsOf(doc.steps)
    BY <1>1, <1>3 DEF IdsOf
  <2>2. IdsOf(doc.steps) \subseteq Reachable(IdsOf(doc.triggers), links)
    BY <1>1, <1>2 DEF Unreachable
  <2> HIDE DEF roots, links, ids
  <2>3. /\ Reachable(IdsOf(doc.triggers), links) \subseteq Reachable(roots, links)
        /\ IdsOf(doc.triggers) \cap Ids \subseteq Reachable(roots, links)
    BY <1>4, ReachableGrows
  <2> QED
    BY <2>1, <2>2, <2>3
<1> QED
  BY <1>1, <1>2, <1>5, <1>6 DEF SoundFlow

\* The edge of a route is one, and keeps what the route says of its target.
LEMMA RouteForm ==
    ASSUME NEW doc, NEW r, IsRoute(r)
    PROVE  IsRoute(CompileRoute(doc, r)) /\ CompileRoute(doc, r).targetHandle = r.targetHandle
<1> DEFINE h == Prefixed(KindOf(doc, r.source), r.handle)
           e == [source |-> r.source, target |-> r.target, handle |-> h, targetHandle |-> r.targetHandle]
<1>1. CompileRoute(doc, r) = [r EXCEPT !.handle = h]
  BY DEF CompileRoute
<1> HIDE DEF h
<1>2. [r EXCEPT !.handle = h] = e
  BY DEF IsRoute
<1>3. IsRoute(e) /\ e.targetHandle = r.targetHandle
  BY HandleForm DEF IsRoute, h
<1> QED
  BY <1>1, <1>2, <1>3

\* A document of distinct ids compiles to a flow file in its form.
LEMMA CompiledForm ==
    ASSUME NEW doc, IsDocument(doc), OrdinaryDocument(doc), IdsOf(Steps(doc)) \subseteq Ids,
           DistinctIds(Steps(doc))
    PROVE  IsFlow(Compile(doc))
<1> DEFINE flow == Compile(doc)
           steps == ToSet(Steps(doc))
<1>1. IsDocument(doc) /\ OrdinaryDocument(doc) /\ IdsOf(Steps(doc)) \subseteq Ids
  OBVIOUS
<1>2. \A s \in steps : IsStep(s) /\ Ordinary(s.routes)
  BY <1>1, StepsAreAList DEF OrdinaryDocument
<1>3. \A s, t \in steps : s.id = t.id => s = t
  BY DEF DistinctIds, ToSet
<1>4. /\ ToSet(flow.nodes) = {CompileStep(s) : s \in steps} /\ IsList(flow.nodes)
      /\ IdsOf(flow.nodes) \subseteq Ids
  BY <1>1, CompiledNodes
<1>5. /\ ToSet(flow.edges) = {CompileRoute(doc, r) : r \in AllRoutes(doc)}
                             \cup UNION {ToSet(ImplicitEdges(s)) : s \in steps}
      /\ IsList(flow.edges)
  BY <1>1, CompiledEdges
<1>6. \A r \in AllRoutes(doc) : IsRoute(r) /\ r.targetHandle # Selected
  BY <1>1, <1>2 DEF AllRoutes, IsDocument, OrdinaryDocument, IsStep, Ordinary
<1> HIDE DEF flow, steps
<1>7. \A e \in ToSet(flow.edges) :
         IsRoute(e) /\ (e.targetHandle = Selected => \E s \in steps : EdgeOf(s, e))
  <2>1. \A r \in AllRoutes(doc) :
           IsRoute(CompileRoute(doc, r)) /\ CompileRoute(doc, r).targetHandle # Selected
    BY <1>6, RouteForm
  <2>2. \A s \in steps : \A e \in ToSet(ImplicitEdges(s)) : EdgeOf(s, e)
    BY <1>2, ImplicitLinks
  <2> QED
    BY <1>5, <2>1, <2>2 DEF EdgeOf
<1>8. \A s \in steps : /\ CompileStep(s).id = s.id /\ CompileStep(s).type = s.kind
                       /\ IsList(CompileStep(s).texts)
  <2> SUFFICES ASSUME NEW s \in steps PROVE IsList(CompileStep(s).texts)
    BY DEF CompileStep
  <2> DEFINE texts == [i \in DOMAIN s.buttons |-> s.buttons[i].text]
  <2>1. CompileStep(s).texts = IF s.kind \in ButtonKinds THEN texts ELSE << >>
    BY DEF CompileStep
  <2>2. IsList(s.buttons) /\ DOMAIN texts = DOMAIN s.buttons /\ texts = [i \in DOMAIN texts |-> texts[i]]
    BY <1>2 DEF IsStep
  <2> HIDE DEF texts
  <2>3. IsList(texts) /\ IsList(<< >>)
    BY <2>2, Image DEF IsList
  <2> QED
    BY <2>1, <2>3
<1>9. ASSUME NEW e \in ToSet(flow.edges), NEW n \in ToSet(flow.nodes),
             e.targetHandle = Selected, e.source = n.id
      PROVE  n.type \in TargetKinds
  <2>1. PICK s \in steps : EdgeOf(s, e)
    BY <1>7, <1>9
  <2>2. PICK t \in steps : n = CompileStep(t)
    BY <1>4
  <2>3. s = t
    BY <1>3, <1>8, <1>9, <2>1, <2>2 DEF EdgeOf
  <2> QED
    BY <1>8, <1>9, <2>1, <2>2, <2>3 DEF EdgeOf
<1>10. \A n \in ToSet(flow.nodes) : IsList(n.texts)
  BY <1>4, <1>8
<1> QED
  BY <1>4, <1>5, <1>7, <1>9, <1>10 DEF IsFlow, flow

\* What is written to the file.
LEMMA AcceptedFileIsProper ==
    ASSUME NEW doc, ProperDocument(doc), Accepted(doc)
    PROVE  IsFlow(Compile(doc)) /\ SoundFlow(Compile(doc))
<1>1. IsDocument(doc) /\ OrdinaryDocument(doc)
      /\ (\A t \in ToSet(doc.triggers) : t.kind \in TriggerKinds)
      /\ IdsOf(Steps(doc)) \subseteq Ids
  BY DEF ProperDocument
<1>2. IdsOf(doc.triggers) \subseteq Ids
  BY <1>1, StepsAreAList DEF IdsOf
<1>3. SoundFlow(Compile(doc))
  BY <1>1, <1>2, AcceptedFlowIsSound
<1>4. DistinctIds(Steps(doc))
  BY <1>1, StepsAreAList, Checked, IdsAreCounted
<1> QED
  BY <1>1, <1>3, <1>4, CompiledForm

-----------------------------------------------------------------------------
(***************************************************************************)
(* The edits, list by list.                                                *)
(***************************************************************************)
\* What is left without the steps of one id (parser.py, the comprehensions of
\* replace_step and remove_step).
LEMMA WithoutEffect ==
    ASSUME NEW list, IsList(list), NEW id
    PROVE  /\ IsList(Without(list, id))
           /\ ToSet(Without(list, id)) = {s \in ToSet(list) : s.id # id}
           /\ IdsOf(Without(list, id)) = IdsOf(list) \ {id}
           /\ DistinctIds(list) => DistinctIds(Without(list, id))
<1> DEFINE S == ToSet(list)
           set == {s \in S : s.id # id}
           kept == Only(list, set)
           n == Len(kept)
<1>1. Without(list, id) = kept
  BY DEF Without
<1>2. IsList(kept) /\ ToSet(kept) = set
  <2>1. S \cap set = set
    OBVIOUS
  <2>2. ToSet(kept) = S \cap set /\ IsList(kept)
    <3> HIDE DEF set
    <3> QED
      BY Filtered
  <2> QED
    BY <2>1, <2>2
<1>3. IdsOf(kept) = IdsOf(list) \ {id}
  BY <1>2 DEF IdsOf
<1>4. ASSUME DistinctIds(list) PROVE DistinctIds(kept)
  <2>1. PICK at \in [1 .. n -> 1 .. Len(list)] :
           /\ \A i \in 1 .. n : kept[i] = list[at[i]]
           /\ \A i, j \in 1 .. n : i < j => at[i] < at[j]
    <3>1. list \in Seq(S)
      BY DEF IsList
    <3> HIDE DEF S, set
    <3> QED
      BY <3>1, OnlyProperties
  <2>2. n \in Nat /\ DOMAIN kept = 1 .. n /\ Len(list) \in Nat /\ DOMAIN list = 1 .. Len(list)
    BY <1>2 DEF IsList
  <2> HIDE DEF kept, n
  <2> SUFFICES ASSUME NEW i \in 1 .. n, NEW j \in 1 .. n, kept[i].id = kept[j].id
               PROVE  i = j
    BY <2>2 DEF DistinctIds
  <2>3. at[i] \in 1 .. Len(list) /\ at[j] \in 1 .. Len(list)
    OBVIOUS
  <2>4. at[i] = at[j]
    BY <1>4, <2>1, <2>2, <2>3 DEF DistinctIds
  <2>5. ~ (i < j) /\ ~ (j < i)
    BY <2>1, <2>3, <2>4
  <2> QED
    BY <2>2, <2>5
<1> QED
  BY <1>1, <1>2, <1>3, <1>4

\* A step at the end of a list.
LEMMA AtTheEnd ==
    ASSUME NEW list, IsList(list), NEW step
    PROVE  /\ IsList(list \o <<step>>)
           /\ ToSet(list \o <<step>>) = ToSet(list) \cup {step}
           /\ IdsOf(list \o <<step>>) = IdsOf(list) \cup {step.id}
           /\ DistinctIds(list) /\ step.id \notin IdsOf(list) => DistinctIds(list \o <<step>>)
           /\ list \o << >> = list
<1> DEFINE S == ToSet(list) \cup {step}
           n == Len(list)
           longer == Append(list, step)
<1>1. list \in Seq(S) /\ step \in S
  BY ListOver
<1> HIDE DEF S
<1>2. longer = list \o <<step>> /\ list \o << >> = list
  BY <1>1
<1>3. longer \in Seq(S) /\ ToSet(longer) = ToSet(list) \cup {step}
  BY <1>1, ToSetOfAppend
<1>4. IsList(longer)
  BY <1>3 DEF S, IsList
<1>5. /\ n \in Nat /\ DOMAIN list = 1 .. n /\ DOMAIN longer = 1 .. n + 1
      /\ \A i \in 1 .. n : longer[i] = list[i] /\ list[i] \in ToSet(list)
      /\ longer[n + 1] = step
  BY <1>1 DEF ToSet
<1> HIDE DEF longer
<1>6. IdsOf(longer) = IdsOf(list) \cup {step.id}
  BY <1>3 DEF IdsOf
<1>7. ASSUME DistinctIds(list), step.id \notin IdsOf(list) PROVE DistinctIds(longer)
  <2> SUFFICES ASSUME NEW i \in 1 .. n + 1, NEW j \in 1 .. n + 1, longer[i].id = longer[j].id
               PROVE  i = j
    BY <1>5 DEF DistinctIds
  <2>1. \A k \in 1 .. n : longer[k].id # step.id
    BY <1>5, <1>7 DEF IdsOf
  <2>2. CASE i \in 1 .. n /\ j \in 1 .. n
    BY <1>5, <1>7, <2>2 DEF DistinctIds
  <2>3. CASE i = n + 1 \/ j = n + 1
    BY <1>5, <2>1, <2>3
  <2> QED
    BY <1>5, <2>2, <2>3
<1> QED
  BY <1>2, <1>3, <1>4, <1>6, <1>7

\* A document, by its lists.
Doc(t, s, r) == [triggers |-> t, steps |-> s, routes |-> r]

LEMMA DocFields ==
    ASSUME NEW t, NEW s, NEW r
    PROVE  /\ Doc(t, s, r).triggers = t /\ Doc(t, s, r).steps = s /\ Doc(t, s, r).routes = r
           /\ Doc(t, s, r) = [triggers |-> Doc(t, s, r).triggers, steps |-> Doc(t, s, r).steps,
                              routes |-> Doc(t, s, r).routes]
           /\ Steps(Doc(t, s, r)) = t \o s
  BY DEF Doc, Steps

\* A step, by its fields.
StepOf(id, kind, global, value, buttons, target, branches, routes) ==
    [id |-> id, kind |-> kind, global |-> global, value |-> value, buttons |-> buttons,
     target |-> target, branches |-> branches, routes |-> routes]

\* What is left of a step that refers to the removed one.
LEMMA ForgetEffect ==
    ASSUME NEW step, IsStep(step), Ordinary(step.routes), NEW id
    PROVE  /\ IsStep(Forget(step, id)) /\ Ordinary(Forget(step, id).routes)
           /\ Forget(step, id).id = step.id /\ Forget(step, id).kind = step.kind
           /\ Forget(step, id).target = (IF step.target = id THEN None ELSE step.target)
           /\ ToSet(Forget(step, id).routes) = {r \in ToSet(step.routes) : r.source # id /\ r.target # id}
           /\ {b.next : b \in ToSet(Forget(step, id).buttons)}
                 \subseteq ({b.next : b \in ToSet(step.buttons)} \ {id}) \cup {None}
<1> DEFINE routes == Avoiding(step.routes, id)
           target == IF step.target = id THEN None ELSE step.target
           b == step.buttons
           n == Len(b)
           left == [i \in DOMAIN b |-> IF b[i].next = id THEN [b[i] EXCEPT !.next = None] ELSE b[i]]
           s == Forget(step, id)
<1>1. /\ IsList(b) /\ \A x \in ToSet(b) : IsButton(x)
      /\ IsList(step.routes) /\ \A r \in ToSet(step.routes) : IsRoute(r)
  BY DEF IsStep
<1>2. /\ s.id = step.id /\ s.kind = step.kind /\ s.routes = routes /\ s.target = target /\ s.buttons = left
      /\ s = [id |-> s.id, kind |-> s.kind, global |-> s.global, value |-> s.value, buttons |-> s.buttons,
              target |-> s.target, branches |-> s.branches, routes |-> s.routes]
  <2> DEFINE First(x) == [step EXCEPT !.routes = x]
             Second(x, y) == [First(x) EXCEPT !.target = y]
             Third(x, y, z) == [Second(x, y) EXCEPT !.buttons = z]
  <2>1. s = Third(routes, target, left)
    BY DEF Forget
  <2>2. step = StepOf(step.id, step.kind, step.global, step.value, b, step.target, step.branches, step.routes)
    BY DEF IsStep, StepOf
  <2> HIDE DEF s, routes, target, left, b
  <2>3. \A x, y, z : Third(x, y, z) =
           StepOf(step.id, step.kind, step.global, step.value, z, y, step.branches, x)
    <3>1. \A x : First(x) = StepOf(step.id, step.kind, step.global, step.value, b, step.target, step.branches, x)
      BY <2>2 DEF StepOf
    <3> HIDE DEF First
    <3>2. \A x, y : Second(x, y) = StepOf(step.id, step.kind, step.global, step.value, b, y, step.branches, x)
      BY <3>1 DEF StepOf
    <3> HIDE DEF Second
    <3> QED
      BY <3>2 DEF StepOf
  <2>4. s = StepOf(step.id, step.kind, step.global, step.value, left, target, step.branches, routes)
    BY <2>1, <2>3
  <2> QED
    BY <2>4 DEF StepOf
<1>3. /\ ToSet(routes) = {r \in ToSet(step.routes) : r.source # id /\ r.target # id}
      /\ IsList(routes)
  <2> DEFINE set == {r \in ToSet(step.routes) : r.source # id /\ r.target # id}
  <2>1. routes = Only(step.routes, set)
    BY DEF Avoiding
  <2>2. ToSet(step.routes) \cap set = set
    OBVIOUS
  <2> HIDE DEF set, routes
  <2>3. IsList(routes) /\ ToSet(routes) = ToSet(step.routes) \cap set
    BY <1>1, <2>1, Filtered
  <2> QED
    BY <2>2, <2>3 DEF set
<1>4. /\ IsList(left) /\ ToSet(left) = {left[i] : i \in 1 .. n}
      /\ DOMAIN b = 1 .. n /\ \A i \in 1 .. n : b[i] \in ToSet(b)
  <2>1. DOMAIN left = DOMAIN b /\ left = [i \in DOMAIN left |-> left[i]]
    OBVIOUS
  <2>2. DOMAIN b = 1 .. n /\ \A i \in 1 .. n : b[i] \in ToSet(b)
    BY <1>1 DEF IsList, ToSet
  <2> HIDE DEF left, b, n
  <2> QED
    BY <1>1, <2>1, <2>2, Image DEF n
<1>5. \A i \in 1 .. n : IsButton(left[i]) /\ left[i].next = (IF b[i].next = id THEN None ELSE b[i].next)
  <2> TAKE i \in 1 .. n
  <2>1. left[i] = IF b[i].next = id THEN [b[i] EXCEPT !.next = None] ELSE b[i]
    BY <1>4
  <2>2. IsButton(b[i])
    BY <1>1, <1>4
  <2> HIDE DEF left, b
  <2> DEFINE x == b[i]
  <2>3. x = [text |-> x.text, next |-> x.next] /\ left[i] = IF x.next = id THEN [x EXCEPT !.next = None] ELSE x
    BY <2>1, <2>2 DEF IsButton
  <2> HIDE DEF x
  <2>4. IsButton(left[i]) /\ left[i].next = (IF x.next = id THEN None ELSE x.next)
    <3>1. CASE x.next = id
      <4>1. [x EXCEPT !.next = None] = [text |-> x.text, next |-> None]
        BY <2>3
      <4> QED
        BY <2>3, <3>1, <4>1 DEF IsButton
    <3>2. CASE x.next # id
      BY <2>3, <3>2 DEF IsButton
    <3> QED
      BY <3>1, <3>2
  <2> QED
    BY <2>4 DEF x
<1> HIDE DEF s, routes, left, b, n
<1>6. IsStep(s)
  <2>1. \A x \in ToSet(left) : IsButton(x)
    BY <1>4, <1>5
  <2>2. \A r \in ToSet(routes) : IsRoute(r)
    BY <1>1, <1>3
  <2> QED
    BY <1>2, <1>3, <1>4, <2>1, <2>2 DEF IsStep
<1>7. {x.next : x \in ToSet(left)} \subseteq ({x.next : x \in ToSet(b)} \ {id}) \cup {None}
  BY <1>4, <1>5
<1> QED
  BY <1>2, <1>3, <1>6, <1>7 DEF s, b, Ordinary

OrdinarySteps(list) == \A s \in ToSet(list) : IsStep(s) /\ Ordinary(s.routes)

\* What is left of a list of steps.
Rest(list, id) == [i \in DOMAIN Without(list, id) |-> Forget(Without(list, id)[i], id)]

LEMMA RestEffect ==
    ASSUME NEW list, IsList(list), OrdinarySteps(list), NEW id
    PROVE  /\ IsList(Rest(list, id))
           /\ ToSet(Rest(list, id)) = {Forget(s, id) : s \in {x \in ToSet(list) : x.id # id}}
           /\ IdsOf(Rest(list, id)) = IdsOf(list) \ {id}
           /\ DistinctIds(list) => DistinctIds(Rest(list, id))
           /\ OrdinarySteps(Rest(list, id))
<1> DEFINE kept == Without(list, id)
           n == Len(kept)
           rest == Rest(list, id)
<1>1. /\ IsList(kept) /\ ToSet(kept) = {s \in ToSet(list) : s.id # id}
      /\ IdsOf(kept) = IdsOf(list) \ {id}
      /\ DistinctIds(list) => DistinctIds(kept)
  BY WithoutEffect
<1>2. rest = [i \in DOMAIN kept |-> Forget(kept[i], id)]
  BY DEF Rest
<1> HIDE DEF kept, rest
<1>3. DOMAIN rest = DOMAIN kept /\ rest = [i \in DOMAIN rest |-> rest[i]]
  BY <1>2
<1>4. IsList(rest) /\ ToSet(rest) = {rest[i] : i \in 1 .. n}
  BY <1>1, <1>3, Image
<1>5. DOMAIN kept = 1 .. n /\ ToSet(kept) = {kept[i] : i \in 1 .. n}
  <2>1. kept \in Seq(ToSet(kept))
    BY <1>1 DEF IsList
  <2> QED
    BY <2>1, ToSetOfSeq
<1>6. ToSet(rest) = {Forget(s, id) : s \in ToSet(kept)}
  BY <1>2, <1>4, <1>5
<1>7. \A s \in ToSet(kept) :
         /\ IsStep(Forget(s, id)) /\ Ordinary(Forget(s, id).routes)
         /\ Forget(s, id).id = s.id
  <2> TAKE s \in ToSet(kept)
  <2>1. IsStep(s) /\ Ordinary(s.routes)
    BY <1>1 DEF OrdinarySteps
  <2> QED
    BY <2>1, ForgetEffect
<1>8. IdsOf(rest) = IdsOf(kept)
  BY <1>6, <1>7 DEF IdsOf
<1>9. DistinctIds(kept) => DistinctIds(rest)
  <2>1. \A i \in DOMAIN kept : rest[i].id = kept[i].id
    BY <1>2, <1>5, <1>7
  <2> QED
    BY <1>3, <2>1 DEF DistinctIds
<1>10. OrdinarySteps(rest)
  BY <1>6, <1>7 DEF OrdinarySteps
<1> QED
  BY <1>1, <1>4, <1>6, <1>8, <1>9, <1>10 DEF rest

\* What replace_step makes of a document.
LEMMA ReplacedDocument ==
    ASSUME NEW d, d = Doc(d.triggers, d.steps, d.routes), NEW step, NEW asTrigger
    PROVE  ReplaceStep(d, step, asTrigger) =
             IF IsTrigger(step, asTrigger)
             THEN Doc(Without(d.triggers, step.id) \o <<step>>, Without(d.steps, step.id) \o << >>, d.routes)
             ELSE Doc(Without(d.triggers, step.id) \o << >>, Without(d.steps, step.id) \o <<step>>, d.routes)
<1> DEFINE t == d.triggers
           s == d.steps
           r == d.routes
           tt == Without(t, step.id)
           ss == Without(s, step.id)
           a == IF IsTrigger(step, asTrigger) THEN <<step>> ELSE << >>
           b == IF ~ IsTrigger(step, asTrigger) THEN <<step>> ELSE << >>
<1>1. d = Doc(t, s, r)
  OBVIOUS
<1>2. ReplaceStep(d, step, asTrigger) = [d EXCEPT !.triggers = tt \o a, !.steps = ss \o b]
  BY DEF ReplaceStep
<1> HIDE DEF t, s, r, tt, ss, a, b
<1>3. \A x, y : [Doc(t, s, r) EXCEPT !.triggers = x, !.steps = y] = Doc(x, y, r)
  <2>1. \A x : [Doc(t, s, r) EXCEPT !.triggers = x] = Doc(x, s, r)
    BY DEF Doc
  <2>2. \A x, y : [Doc(x, s, r) EXCEPT !.steps = y] = Doc(x, y, r)
    BY DEF Doc
  <2>3. \A x, y : [Doc(t, s, r) EXCEPT !.triggers = x, !.steps = y]
                    = [[Doc(t, s, r) EXCEPT !.triggers = x] EXCEPT !.steps = y]
    OBVIOUS
  <2> QED
    BY <2>1, <2>2, <2>3
<1>4. ReplaceStep(d, step, asTrigger) = Doc(tt \o a, ss \o b, r)
  BY <1>1, <1>2, <1>3
<1> QED
  BY <1>4 DEF a, b, t, s, r, tt, ss

\* What upsert_route makes of a document.
LEMMA ConnectedDocument ==
    ASSUME NEW d, d = Doc(d.triggers, d.steps, d.routes), NEW route
    PROVE  UpsertRoute(d, route) =
             Doc(d.triggers, d.steps, Append(Only(d.routes, ToSet(d.routes) \ {route}), route))
<1> DEFINE t == d.triggers
           s == d.steps
           r == d.routes
           longer == Append(Only(r, ToSet(r) \ {route}), route)
<1>1. UpsertRoute(d, route) = [d EXCEPT !.routes = longer]
  BY DEF UpsertRoute
<1>2. d = Doc(t, s, r)
  OBVIOUS
<1> HIDE DEF t, s, r, longer
<1>3. \A x : [Doc(t, s, r) EXCEPT !.routes = x] = Doc(t, s, x)
  BY DEF Doc
<1>4. UpsertRoute(d, route) = Doc(t, s, longer)
  BY <1>1, <1>2, <1>3
<1> QED
  BY <1>4 DEF t, s, r, longer

\* What remove_step leaves of a document.
LEMMA RemovedDocument ==
    ASSUME NEW d, NEW id
    PROVE  RemoveStep(d, id) = Doc(Rest(d.triggers, id), Rest(d.steps, id), Avoiding(d.routes, id))
  BY DEF RemoveStep, Doc, Rest

LEMMA AvoidingEffect ==
    ASSUME NEW list, IsList(list), NEW id
    PROVE  /\ IsList(Avoiding(list, id)) /\ Len(Avoiding(list, id)) <= Len(list)
           /\ ToSet(Avoiding(list, id)) = {r \in ToSet(list) : r.source # id /\ r.target # id}
<1> DEFINE set == {r \in ToSet(list) : r.source # id /\ r.target # id}
           routes == Avoiding(list, id)
<1>1. routes = Only(list, set)
  BY DEF Avoiding
<1>2. ToSet(list) \cap set = set
  OBVIOUS
<1> HIDE DEF set, routes
<1>3. IsList(routes) /\ ToSet(routes) = ToSet(list) \cap set /\ Len(routes) <= Len(list)
  BY <1>1, Filtered
<1> QED
  BY <1>2, <1>3 DEF set, routes

-----------------------------------------------------------------------------
(***************************************************************************)
(* Every edit makes a proper document of a proper document.                *)
(***************************************************************************)
ProperSteps(list) == \A s \in ToSet(list) : IsStep(s) /\ Ordinary(s.routes) /\ s.id \in Ids

AllTriggers(list) == \A t \in ToSet(list) : t.kind \in TriggerKinds

ProperLists(t, s, r) ==
    /\ IsList(t) /\ IsList(s) /\ IsList(r)
    /\ ProperSteps(t) /\ ProperSteps(s) /\ AllTriggers(t)
    /\ (\A x \in ToSet(r) : IsRoute(x)) /\ Ordinary(r)

LEMMA ProperByLists ==
    ASSUME NEW t, NEW s, NEW r
    PROVE  ProperDocument(Doc(t, s, r)) <=> ProperLists(t, s, r)
<1> DEFINE d == Doc(t, s, r)
<1>1. d.triggers = t /\ d.steps = s /\ d.routes = r /\ Steps(d) = t \o s
      /\ d = [triggers |-> d.triggers, steps |-> d.steps, routes |-> d.routes]
  BY DocFields
<1> HIDE DEF d
<1>2. IsList(t) /\ IsList(s) => ToSet(t \o s) = ToSet(t) \cup ToSet(s)
  BY BothLists
<1>3. ProperDocument(d) <=>
        /\ IsList(t) /\ IsList(s) /\ IsList(r)
        /\ \A x \in ToSet(t \o s) : IsStep(x) /\ Ordinary(x.routes) /\ x.id \in Ids
        /\ AllTriggers(t)
        /\ (\A x \in ToSet(r) : IsRoute(x)) /\ Ordinary(r)
  BY <1>1 DEF ProperDocument, IsDocument, OrdinaryDocument, IdsOf, AllTriggers
<1>4. ProperDocument(d) <=> ProperLists(t, s, r)
  BY <1>2, <1>3 DEF ProperLists, ProperSteps
<1> QED
  BY <1>4 DEF d

LEMMA ListsOfProper ==
    ASSUME NEW d, ProperDocument(d)
    PROVE  /\ d = Doc(d.triggers, d.steps, d.routes)
           /\ ProperLists(d.triggers, d.steps, d.routes)
<1>1. d = Doc(d.triggers, d.steps, d.routes)
  BY DEF ProperDocument, IsDocument, Doc
<1> QED
  BY <1>1, ProperByLists

LEMMA ReplaceKeepsProper ==
    ASSUME NEW d, ProperDocument(d), NEW step, IsStep(step), Ordinary(step.routes), step.id \in Ids,
           NEW asTrigger, IsTrigger(step, asTrigger) => step.kind \in TriggerKinds
    PROVE  ProperDocument(ReplaceStep(d, step, asTrigger))
<1> DEFINE tt == Without(d.triggers, step.id)
           ss == Without(d.steps, step.id)
           r == d.routes
           t1 == tt \o <<step>>
           s1 == ss \o <<step>>
<1>1. ProperLists(d.triggers, d.steps, r)
  BY ListsOfProper
<1>2. /\ IsList(tt) /\ ToSet(tt) \subseteq ToSet(d.triggers)
      /\ IsList(ss) /\ ToSet(ss) \subseteq ToSet(d.steps)
  BY <1>1, WithoutEffect DEF ProperLists
<1>3. ReplaceStep(d, step, asTrigger) =
        IF IsTrigger(step, asTrigger) THEN Doc(t1, ss \o << >>, r) ELSE Doc(tt \o << >>, s1, r)
  BY ListsOfProper, ReplacedDocument
<1> HIDE DEF tt, ss
<1>4. /\ IsList(t1) /\ ToSet(t1) = ToSet(tt) \cup {step} /\ tt \o << >> = tt
      /\ IsList(s1) /\ ToSet(s1) = ToSet(ss) \cup {step} /\ ss \o << >> = ss
  BY <1>2, AtTheEnd
<1> HIDE DEF t1, s1, r
<1>5. CASE IsTrigger(step, asTrigger)
  <2>1. ProperLists(t1, ss, r)
    BY <1>1, <1>2, <1>4, <1>5 DEF ProperLists, ProperSteps, AllTriggers
  <2>2. ReplaceStep(d, step, asTrigger) = Doc(t1, ss, r)
    BY <1>3, <1>4, <1>5
  <2> QED
    BY <2>1, <2>2, ProperByLists
<1>6. CASE ~ IsTrigger(step, asTrigger)
  <2>1. ProperLists(tt, s1, r)
    BY <1>1, <1>2, <1>4 DEF ProperLists, ProperSteps, AllTriggers
  <2>2. ReplaceStep(d, step, asTrigger) = Doc(tt, s1, r)
    BY <1>3, <1>4, <1>6
  <2> QED
    BY <2>1, <2>2, ProperByLists
<1> QED
  BY <1>5, <1>6

LEMMA RemoveKeepsProper ==
    ASSUME NEW d, ProperDocument(d), NEW id
    PROVE  ProperDocument(RemoveStep(d, id))
<1> DEFINE t == Rest(d.triggers, id)
           s == Rest(d.steps, id)
           r == Avoiding(d.routes, id)
<1>1. ProperLists(d.triggers, d.steps, d.routes)
  BY ListsOfProper
<1>2. /\ IsList(t) /\ OrdinarySteps(t)
      /\ ToSet(t) = {Forget(x, id) : x \in {y \in ToSet(d.triggers) : y.id # id}}
      /\ IsList(s) /\ OrdinarySteps(s)
      /\ ToSet(s) = {Forget(x, id) : x \in {y \in ToSet(d.steps) : y.id # id}}
  <2>1. /\ IsList(d.triggers) /\ OrdinarySteps(d.triggers)
        /\ IsList(d.steps) /\ OrdinarySteps(d.steps)
    BY <1>1 DEF ProperLists, ProperSteps, OrdinarySteps
  <2> QED
    BY <2>1, RestEffect
<1>3. IsList(r) /\ ToSet(r) \subseteq ToSet(d.routes)
  BY <1>1, AvoidingEffect DEF ProperLists
<1>4. RemoveStep(d, id) = Doc(t, s, r)
  BY RemovedDocument
<1> HIDE DEF t, s, r
<1>5. \A list : ProperSteps(list) =>
        \A x \in ToSet(list) : Forget(x, id).id = x.id /\ Forget(x, id).kind = x.kind
  BY ForgetEffect DEF ProperSteps
<1>6. ProperSteps(t) /\ ProperSteps(s) /\ AllTriggers(t)
  <2>1. \A x \in ToSet(t) : x.id \in Ids /\ x.kind \in TriggerKinds
    BY <1>1, <1>2, <1>5 DEF ProperLists, ProperSteps, AllTriggers
  <2>2. \A x \in ToSet(s) : x.id \in Ids
    BY <1>1, <1>2, <1>5 DEF ProperLists, ProperSteps
  <2> QED
    BY <1>2, <2>1, <2>2 DEF ProperSteps, OrdinarySteps, AllTriggers
<1>7. ProperLists(t, s, r)
  BY <1>1, <1>2, <1>3, <1>6 DEF ProperLists, Ordinary
<1> QED
  BY <1>4, <1>7, ProperByLists

\* A list of routes with one added.
RouteList(r) == IsList(r) /\ (\A x \in ToSet(r) : IsRoute(x)) /\ Ordinary(r)

LEMMA AddedRoute ==
    ASSUME NEW r, RouteList(r), NEW route, IsRoute(route), route.targetHandle # Selected
    PROVE  /\ RouteList(Append(Only(r, ToSet(r) \ {route}), route))
           /\ ToSet(Append(Only(r, ToSet(r) \ {route}), route)) \subseteq ToSet(r) \cup {route}
<1> DEFINE set == ToSet(r) \ {route}
           kept == Only(r, set)
           S == ToSet(kept) \cup {route}
           longer == Append(kept, route)
<1>1. IsList(kept) /\ ToSet(kept) = ToSet(r) \cap set
  <2> HIDE DEF set
  <2> QED
    BY Filtered DEF RouteList
<1>2. ToSet(kept) \subseteq ToSet(r)
  BY <1>1
<1> HIDE DEF kept
<1>3. kept \in Seq(S) /\ route \in S
  BY <1>1, ListOver
<1> HIDE DEF S
<1>4. longer \in Seq(S) /\ ToSet(longer) = ToSet(kept) \cup {route}
  BY <1>3, ToSetOfAppend
<1> HIDE DEF longer
<1>5. RouteList(longer) /\ ToSet(longer) \subseteq ToSet(r) \cup {route}
  BY <1>2, <1>4 DEF RouteList, IsList, Ordinary, S
<1> QED
  BY <1>5 DEF longer, kept, set

LEMMA ConnectKeepsProper ==
    ASSUME NEW d, ProperDocument(d), NEW route, IsRoute(route), route.targetHandle # Selected
    PROVE  ProperDocument(UpsertRoute(d, route))
<1> DEFINE r == Append(Only(d.routes, ToSet(d.routes) \ {route}), route)
<1>1. ProperLists(d.triggers, d.steps, d.routes) /\ UpsertRoute(d, route) = Doc(d.triggers, d.steps, r)
  BY ListsOfProper, ConnectedDocument
<1>2. RouteList(r)
  BY <1>1, AddedRoute DEF ProperLists, RouteList
<1> HIDE DEF r
<1>3. ProperLists(d.triggers, d.steps, r)
  BY <1>1, <1>2 DEF ProperLists, RouteList
<1> QED
  BY <1>1, <1>3, ProperByLists

\* A fold of the library, for steps that stay in a set: there is one, and what it
\* returns is in the set.
FoldBy(g, V, base, f, n) ==
    /\ g \in [SUBSET (1 .. n) -> V]
    /\ g[{}] = base
    /\ \A s \in SUBSET (1 .. n) : s # {} =>
          /\ Max(s) \in 1 .. n /\ g[s \ {Max(s)}] \in V
          /\ g[s] = f[<<g[s \ {Max(s)}], Max(s)>>]

LEMMA FoldExists ==
    ASSUME NEW V, NEW base \in V, NEW n \in Nat, NEW f \in [V \X (1 .. n) -> V]
    PROVE  \E g : FoldBy(g, V, base, f, n)
<1>1. PICK g : Folds(g, V, base, f, n)
  BY FoldIsDefined
<1>2. \A s \in SUBSET (1 .. n) : s # {} => Max(s) \in 1 .. n /\ s \ {Max(s)} \in SUBSET (1 .. n)
  <2>1. \A s \in SUBSET (1 .. n) : s # {} => Max(s) \in s
    BY MaxProperties
  <2> QED
    BY <2>1
<1>3. {} \in SUBSET (1 .. n)
  OBVIOUS
<1> QED
  BY <1>1, <1>2, <1>3 DEF Folds, FoldBy

LEMMA FoldStays ==
    ASSUME NEW V, NEW n \in Nat, NEW fold, fold[{}] \in V,
           \A s \in SUBSET (1 .. n) : s # {} /\ fold[s \ {Max(s)}] \in V => fold[s] \in V
    PROVE  fold[1 .. n] \in V
<1> DEFINE Upto == {k \in Nat : k <= n => fold[1 .. k] \in V}
<1>1. 0 \in Upto
  <2>1. 1 .. 0 = {}
    OBVIOUS
  <2> QED
    BY <2>1
<1>2. ASSUME NEW k \in Nat, k \in Upto PROVE k + 1 \in Upto
  <2> SUFFICES ASSUME k + 1 <= n PROVE fold[1 .. k + 1] \in V
    OBVIOUS
  <2> DEFINE s == 1 .. k + 1
  <2>1. s # {} /\ Max(s) = k + 1 /\ s \ {k + 1} = 1 .. k
    BY FirstPositions
  <2>2. s \in SUBSET (1 .. n) /\ fold[1 .. k] \in V
    BY <1>2
  <2> HIDE DEF s
  <2>3. fold[s] \in V
    BY <2>1, <2>2
  <2> QED
    BY <2>3 DEF s
<1>3. n \in Upto
  <2> HIDE DEF Upto
  <2> QED
    BY <1>1, <1>2, Induction
<1> QED
  BY <1>3

\* Connecting several routes, one after the other (tools/dsl_tools.py, connect_steps).
LEMMA ConnectAllKeepsProper ==
    ASSUME NEW d, ProperDocument(d), NEW routes, RouteList(routes)
    PROVE  ProperDocument(FoldLeft(UpsertRoute, d, routes))
<1> DEFINE n == Len(routes)
           R == ToSet(d.routes) \cup ToSet(routes)
           V == {Doc(d.triggers, d.steps, r) : r \in Seq(R)}
           Body(g, s) == IF s = {} THEN d ELSE UpsertRoute(g[s \ {Max(s)}], routes[Max(s)])
           IsFold(g) == g = [s \in SUBSET (1 .. n) |-> Body(g, s)]
           fold == CHOOSE g : IsFold(g)
<1>0. n \in Nat /\ DOMAIN routes = 1 .. n /\ \A i \in 1 .. n : routes[i] \in ToSet(routes)
  BY DEF RouteList, IsList, ToSet
<1>1. FoldLeft(UpsertRoute, d, routes) = fold[1 .. n]
  BY <1>0 DEF FoldLeft, MapThenFoldSet
<1>2. ProperLists(d.triggers, d.steps, d.routes) /\ d = Doc(d.triggers, d.steps, d.routes)
  BY ListsOfProper
<1>3. d \in V
  <2>1. d.routes \in Seq(R)
    BY <1>2, ListOver DEF ProperLists
  <2> HIDE DEF R
  <2> QED
    BY <1>2, <2>1
<1>4. \A v \in V : ProperDocument(v)
  <2> SUFFICES ASSUME NEW r \in Seq(R) PROVE ProperDocument(Doc(d.triggers, d.steps, r))
    OBVIOUS
  <2>1. IsList(r) /\ ToSet(r) \subseteq R
    <3> HIDE DEF R
    <3> QED
      BY ToSetOfSeq DEF IsList
  <2>2. ProperLists(d.triggers, d.steps, r)
    BY <1>2, <2>1 DEF ProperLists, RouteList, Ordinary
  <2> QED
    BY <2>2, ProperByLists
<1>5. ASSUME NEW v \in V, NEW i \in 1 .. n PROVE UpsertRoute(v, routes[i]) \in V
  <2>1. PICK r \in Seq(R) : v = Doc(d.triggers, d.steps, r)
    BY <1>5
  <2> DEFINE longer == Append(Only(r, ToSet(r) \ {routes[i]}), routes[i])
  <2>2. v.triggers = d.triggers /\ v.steps = d.steps /\ v.routes = r
    BY <2>1, DocFields
  <2>3. UpsertRoute(v, routes[i]) = Doc(d.triggers, d.steps, longer)
    BY <2>1, <2>2, ConnectedDocument
  <2>4. RouteList(r) /\ ToSet(r) \subseteq R
    <3>1. ProperDocument(v)
      BY <1>4
    <3>2. RouteList(r)
      BY <2>2, <3>1, ListsOfProper DEF ProperLists, RouteList
    <3> HIDE DEF R
    <3> QED
      BY <3>2, ToSetOfSeq
  <2>5. IsRoute(routes[i]) /\ routes[i].targetHandle # Selected /\ routes[i] \in R
    BY <1>0 DEF RouteList, Ordinary
  <2>6. RouteList(longer) /\ ToSet(longer) \subseteq R
    BY <2>4, <2>5, AddedRoute
  <2> HIDE DEF longer, R
  <2>7. longer \in Seq(R)
    BY <2>6, ListOver DEF RouteList
  <2> QED
    BY <2>3, <2>7
<1> HIDE DEF V
<1>6. \E g : IsFold(g)
  <2> DEFINE f == [x \in V \X (1 .. n) |-> UpsertRoute(x[1], routes[x[2]])]
  <2>1. /\ f \in [V \X (1 .. n) -> V]
        /\ \A v \in V, i \in 1 .. n : f[<<v, i>>] = UpsertRoute(v, routes[i])
    BY <1>5
  <2> HIDE DEF f, n, Body, IsFold
  <2>2. PICK g : FoldBy(g, V, d, f, n)
    <3>1. n \in Nat /\ d \in V /\ f \in [V \X (1 .. n) -> V]
      BY <1>0, <1>3, <2>1
    <3> QED
      BY <3>1, FoldExists
  <2>3. \A s \in SUBSET (1 .. n) : g[s] = Body(g, s)
    BY <2>1, <2>2 DEF Body, FoldBy
  <2>4. IsFold(g)
    BY <2>2, <2>3 DEF IsFold, FoldBy
  <2> QED
    BY <2>4
<1>7. IsFold(fold)
  <2> HIDE DEF IsFold
  <2> QED
    BY <1>6
<1> HIDE DEF fold
<1>8. \A s \in SUBSET (1 .. n) : fold[s] = Body(fold, s)
  <2> HIDE DEF Body
  <2> QED
    BY <1>7
<1>9. fold[{}] \in V
  BY <1>3, <1>8
<1>10. \A s \in SUBSET (1 .. n) : s # {} /\ fold[s \ {Max(s)}] \in V => fold[s] \in V
  <2>1. \A s \in SUBSET (1 .. n) : s # {} => Max(s) \in 1 .. n
    <3>1. \A s \in SUBSET (1 .. n) : s # {} => Max(s) \in s
      BY <1>0, MaxProperties
    <3> HIDE DEF n
    <3> QED
      BY <3>1
  <2> QED
    BY <1>5, <1>8, <2>1
<1>11. fold[1 .. n] \in V
  BY <1>0, <1>9, <1>10, FoldStays
<1> QED
  BY <1>1, <1>4, <1>11

-----------------------------------------------------------------------------
(***************************************************************************)
(* A sound file is read back as a proper document (importer.py).           *)
(***************************************************************************)
\* What is read of a node: a step and its routes.
ReadForm(read) ==
    /\ IsStep(read.step) /\ Ordinary(read.step.routes) /\ read.step.id \in Ids
    /\ RouteList(read.routes)

ReadOf(step, routes) == [step |-> step, routes |-> routes]

LEMMA EmptyList == IsList(<< >>) /\ ToSet(<< >>) = {} /\ RouteList(<< >>)
  BY DEF IsList, ToSet, RouteList, Ordinary

\* An old-style condition and the else it leads to (importer.py, try_merge_if_chain).
LEMMA MergedForm ==
    ASSUME NEW flow, NEW node, node.id \in Ids, NEW other
    PROVE  /\ ReadForm(MergeChain(flow, node, other))
           /\ MergeChain(flow, node, other).step.kind = "if_condition"
<1> DEFINE branch(id, handles, name) ==
               LET edges == From(flow, id)
                   i == FirstBy(edges, handles)
               IN  IF i = 0 THEN << >> ELSE <<Route(node.id, edges[i].target, Plain(name))>>
           a == branch(node.id, {Plain("true")}, "branch_0")
           b == branch(other, {NoHandle, Plain("true")}, "branch_1")
           step == [Bare(node.id, "if_condition") EXCEPT !.branches = TRUE]
<1>1. MergeChain(flow, node, other) = ReadOf(step, a \o b)
  BY DEF MergeChain, ReadOf
<1>2. IsStep(step) /\ Ordinary(step.routes) /\ step.id = node.id /\ step.kind = "if_condition"
  <2> DEFINE yes == TRUE
             e == << >>
             no == FALSE
             S0 == Bare(node.id, "if_condition")
  <2>0. S0 = StepOf(node.id, "if_condition", no, None, e, None, no, e) /\ step = [S0 EXCEPT !.branches = yes]
    BY DEF Bare, StepOf
  <2> HIDE DEF S0, step, e, yes, no
  <2>1. step = StepOf(node.id, "if_condition", no, None, e, None, yes, e)
    BY <2>0 DEF StepOf
  <2>2. IsList(e) /\ ToSet(e) = {}
    BY EmptyList DEF e
  <2> QED
    BY <2>1, <2>2 DEF StepOf, IsStep, Ordinary
<1>3. \A target, name : RouteList(<<Route(node.id, target, Plain(name))>>)
  <2> SUFFICES ASSUME NEW target, NEW name PROVE RouteList(<<Route(node.id, target, Plain(name))>>)
    OBVIOUS
  <2> DEFINE r == Route(node.id, target, Plain(name))
  <2>1. IsRoute(r) /\ r.targetHandle # Selected
    BY HandlesOfEdges DEF Route, IsRoute, NoHandle, Selected, Handle
  <2> HIDE DEF r
  <2>2. IsList(<<r>>) /\ ToSet(<<r>>) = {r}
    BY DEF IsList, ToSet
  <2> QED
    BY <2>1, <2>2 DEF RouteList, Ordinary, r
<1>4. RouteList(a) /\ RouteList(b)
  <2>1. a = << >> \/ \E target : a = <<Route(node.id, target, Plain("branch_0"))>>
    OBVIOUS
  <2>2. b = << >> \/ \E target : b = <<Route(node.id, target, Plain("branch_1"))>>
    OBVIOUS
  <2> HIDE DEF a, b
  <2> QED
    BY <1>3, <2>1, <2>2, EmptyList
<1> HIDE DEF a, b, step
<1>5. RouteList(a \o b)
  BY <1>4, BothLists DEF RouteList, Ordinary
<1> QED
  BY <1>1, <1>2, <1>5 DEF ReadForm, ReadOf

\* The edges of a node, those to an edited message, and the others.
LEMMA FromEffect ==
    ASSUME NEW flow, IsFlow(flow), NEW id
    PROVE  /\ IsList(From(flow, id))
           /\ ToSet(From(flow, id)) = {e \in ToSet(flow.edges) : e.source = id}
<1> DEFINE set == {e \in ToSet(flow.edges) : e.source = id}
           edges == flow.edges
<1>1. From(flow, id) = Only(edges, set) /\ IsList(edges)
  BY DEF From, IsFlow
<1>2. ToSet(edges) \cap set = set
  OBVIOUS
<1> HIDE DEF set, edges
<1>3. IsList(Only(edges, set)) /\ ToSet(Only(edges, set)) = ToSet(edges) \cap set
  BY <1>1, Filtered
<1> QED
  BY <1>1, <1>2, <1>3 DEF set, edges

\* The last position at which a list has a handle or an id.
LastHandle(edges, h) == SelectLastInSeq(edges, LAMBDA e : e.handle = h)
LastId(list, id)     == SelectLastInSeq(list, LAMBDA s : s.id = id)

LEMMA LastPositions ==
    ASSUME NEW list, IsList(list)
    PROVE  /\ \A h : \/ LastHandle(list, h) = 0 /\ \A e \in ToSet(list) : e.handle # h
                     \/ LastHandle(list, h) # 0 /\ \E e \in ToSet(list) :
                           e.handle = h /\ list[LastHandle(list, h)] = e
           /\ \A id : \/ LastId(list, id) = 0 /\ \A s \in ToSet(list) : s.id # id
                      \/ LastId(list, id) # 0 /\ \E s \in ToSet(list) :
                            s.id = id /\ list[LastId(list, id)] = s
<1> DEFINE n == Len(list)
<1>1. n \in Nat /\ ToSet(list) = {list[i] : i \in 1 .. n}
  <2>1. list \in Seq(ToSet(list))
    BY DEF IsList
  <2> QED
    BY <2>1, ToSetOfSeq
<1> HIDE DEF n
<1>2. ASSUME NEW h
      PROVE  \/ LastHandle(list, h) = 0 /\ \A e \in ToSet(list) : e.handle # h
             \/ LastHandle(list, h) # 0 /\ \E e \in ToSet(list) :
                   e.handle = h /\ list[LastHandle(list, h)] = e
  <2> DEFINE I == {i \in 1 .. n : list[i].handle = h}
  <2>1. LastHandle(list, h) = IF I # {} THEN Max(I) ELSE 0
    BY DEF LastHandle, SelectLastInSeq, n
  <2>2. I \in SUBSET (1 .. n)
    OBVIOUS
  <2>3. CASE I # {}
    <3> DEFINE m == Max(I)
    <3>1. m \in I
      <4> HIDE DEF I
      <4> QED
        BY <1>1, <2>2, <2>3, MaxProperties
    <3> HIDE DEF m
    <3>2. m # 0 /\ list[m] \in ToSet(list) /\ list[m].handle = h
      BY <1>1, <3>1
    <3>3. LastHandle(list, h) = m
      BY <2>1, <2>3 DEF m
    <3> QED
      BY <3>2, <3>3
  <2>4. CASE I = {}
    <3>1. \A e \in ToSet(list) : e.handle # h
      BY <1>1, <2>4
    <3> QED
      BY <2>1, <2>4, <3>1
  <2> QED
    BY <2>3, <2>4
<1>3. ASSUME NEW id
      PROVE  \/ LastId(list, id) = 0 /\ \A s \in ToSet(list) : s.id # id
             \/ LastId(list, id) # 0 /\ \E s \in ToSet(list) :
                   s.id = id /\ list[LastId(list, id)] = s
  <2> DEFINE I == {i \in 1 .. n : list[i].id = id}
  <2>1. LastId(list, id) = IF I # {} THEN Max(I) ELSE 0
    BY DEF LastId, SelectLastInSeq, n
  <2>2. I \in SUBSET (1 .. n)
    OBVIOUS
  <2>3. CASE I # {}
    <3> DEFINE m == Max(I)
    <3>1. m \in I
      <4> HIDE DEF I
      <4> QED
        BY <1>1, <2>2, <2>3, MaxProperties
    <3> HIDE DEF m
    <3>2. m # 0 /\ list[m] \in ToSet(list) /\ list[m].id = id
      BY <1>1, <3>1
    <3>3. LastId(list, id) = m
      BY <2>1, <2>3 DEF m
    <3> QED
      BY <3>2, <3>3
  <2>4. CASE I = {}
    <3>1. \A s \in ToSet(list) : s.id # id
      BY <1>1, <2>4
    <3> QED
      BY <2>1, <2>4, <3>1
  <2> QED
    BY <2>3, <2>4
<1> QED
  BY <1>2, <1>3

\* A step as it is read: never global.
ReadStep(id, kind, value, buttons, target, branches, routes) ==
    [id |-> id, kind |-> kind, global |-> FALSE, value |-> value, buttons |-> buttons,
     target |-> target, branches |-> branches, routes |-> routes]

\* The edges of a node: the edit of a message, the presses of buttons, and routes.
IsEdit(kind, e)  == kind \in TargetKinds /\ e.targetHandle = Selected
IsPress(kind, e) == kind \in ButtonKinds /\ IsButtonEdge(e)

EditsOf(kind, edges)  == Only(edges, {e \in ToSet(edges) : IsEdit(kind, e)})
OthersOf(kind, edges) == Only(edges, ToSet(edges) \ ToSet(EditsOf(kind, edges)))
PlainOf(kind, edges) ==
    Only(OthersOf(kind, edges), {e \in ToSet(OthersOf(kind, edges)) : ~ IsPress(kind, e)})
ReadRoute(kind, e) == [e EXCEPT !.handle = Unprefixed(kind, @)]
ReadRoutes(kind, edges) ==
    [i \in DOMAIN PlainOf(kind, edges) |-> ReadRoute(kind, PlainOf(kind, edges)[i])]
ReadTarget(kind, edges) ==
    IF EditsOf(kind, edges) = << >> THEN None ELSE Last(EditsOf(kind, edges)).target
ReadButtons(node, edges) == HydrateButtons(node.texts, OthersOf(node.type, edges))

LEMMA ReadNode ==
    ASSUME NEW node, NEW edges
    PROVE  IF node.type = "raw_node"
           THEN ImportNode(node, edges) =
                   ReadOf(ReadStep(node.id, node.type, node.value, << >>, None, node.branches, edges), << >>)
           ELSE ImportNode(node, edges) =
                   ReadOf(ReadStep(node.id, node.type, node.value, ReadButtons(node, edges),
                                   ReadTarget(node.type, edges), node.branches, << >>),
                          ReadRoutes(node.type, edges))
<1> DEFINE kind == node.type
           e == << >>
           no == FALSE
           S0 == Bare(node.id, kind)
           S1(a) == [S0 EXCEPT !.value = a]
           S2(a, b) == [S1(a) EXCEPT !.branches = b]
           S3(a, b, c) == [S2(a, b) EXCEPT !.buttons = c]
           S4(a, b, c, x) == [S3(a, b, c) EXCEPT !.target = x]
           R3(a, b, c) == [S2(a, b) EXCEPT !.routes = c]
           raw == R3(node.value, node.branches, edges)
           step == S4(node.value, node.branches, ReadButtons(node, edges), ReadTarget(kind, edges))
<1>1. ImportNode(node, edges) = IF kind = "raw_node" THEN ReadOf(raw, e)
                                ELSE ReadOf(step, ReadRoutes(kind, edges))
  BY DEF ImportNode, ReadOf, ReadButtons, ReadTarget, ReadRoutes, ReadRoute, PlainOf, OthersOf, EditsOf,
         IsEdit, IsPress
<1>2. S0 = StepOf(node.id, kind, no, None, e, None, no, e)
  BY DEF Bare, StepOf
<1> HIDE DEF S0, e, kind, no
<1>3. \A a : S1(a) = StepOf(node.id, kind, no, a, e, None, no, e)
  BY <1>2 DEF StepOf
<1> HIDE DEF S1
<1>4. \A a, b : S2(a, b) = StepOf(node.id, kind, no, a, e, None, b, e)
  BY <1>3 DEF StepOf
<1> HIDE DEF S2
<1>5. \A a, b, c : R3(a, b, c) = StepOf(node.id, kind, no, a, e, None, b, c)
  BY <1>4 DEF StepOf
<1>6. \A a, b, c : S3(a, b, c) = StepOf(node.id, kind, no, a, c, None, b, e)
  BY <1>4 DEF StepOf
<1> HIDE DEF S3, R3
<1>7. \A a, b, c, x : S4(a, b, c, x) = StepOf(node.id, kind, no, a, c, x, b, e)
  BY <1>6 DEF StepOf
<1> HIDE DEF S4
<1>8. /\ raw = StepOf(node.id, kind, no, node.value, e, None, node.branches, edges)
      /\ step = StepOf(node.id, kind, no, node.value, ReadButtons(node, edges), ReadTarget(kind, edges),
                       node.branches, e)
  BY <1>5, <1>7
<1>9. \A id, k, a, c, x, b, r : StepOf(id, k, no, a, c, x, b, r) = ReadStep(id, k, a, c, x, b, r)
  BY DEF StepOf, ReadStep, no
<1> HIDE DEF raw, step
<1> QED
  BY <1>1, <1>8, <1>9 DEF kind, e

\* Which edges become what.
LEMMA EdgesAreSplit ==
    ASSUME NEW edges, IsList(edges), NEW kind
    PROVE  /\ IsList(EditsOf(kind, edges)) /\ IsList(OthersOf(kind, edges)) /\ IsList(ReadRoutes(kind, edges))
           /\ ToSet(EditsOf(kind, edges)) = {e \in ToSet(edges) : IsEdit(kind, e)}
           /\ ToSet(OthersOf(kind, edges)) = {e \in ToSet(edges) : ~ IsEdit(kind, e)}
           /\ ToSet(ReadRoutes(kind, edges)) =
                 {ReadRoute(kind, e) : e \in {f \in ToSet(edges) : ~ IsEdit(kind, f) /\ ~ IsPress(kind, f)}}
<1> DEFINE E == {e \in ToSet(edges) : IsEdit(kind, e)}
           edits == EditsOf(kind, edges)
           R == ToSet(edges) \ ToSet(edits)
           others == OthersOf(kind, edges)
           P == {e \in ToSet(others) : ~ IsPress(kind, e)}
           plain == PlainOf(kind, edges)
           routes == ReadRoutes(kind, edges)
<1>1. IsList(edits) /\ ToSet(edits) = E
  <2>1. edits = Only(edges, E)
    BY DEF EditsOf
  <2>2. ToSet(edges) \cap E = E
    OBVIOUS
  <2> HIDE DEF E, edits
  <2> QED
    BY <2>1, <2>2, Filtered
<1> HIDE DEF edits
<1>2. IsList(others) /\ ToSet(others) = R
  <2>1. others = Only(edges, R)
    BY DEF OthersOf, edits
  <2>2. ToSet(edges) \cap R = R
    OBVIOUS
  <2> HIDE DEF R, others
  <2> QED
    BY <2>1, <2>2, Filtered
<1> HIDE DEF others
<1>3. IsList(plain) /\ ToSet(plain) = P
  <2>1. plain = Only(others, P)
    BY DEF PlainOf, others
  <2>2. ToSet(others) \cap P = P
    OBVIOUS
  <2> HIDE DEF P, plain
  <2> QED
    BY <1>2, <2>1, <2>2, Filtered
<1> HIDE DEF plain
<1>4. routes = [i \in DOMAIN plain |-> ReadRoute(kind, plain[i])]
  BY DEF ReadRoutes, plain
<1>5. IsList(routes) /\ ToSet(routes) = {ReadRoute(kind, e) : e \in ToSet(plain)}
  <2> HIDE DEF P, routes
  <2>1. /\ DOMAIN routes = DOMAIN plain /\ \A i \in DOMAIN plain : routes[i] = ReadRoute(kind, plain[i])
        /\ routes = [i \in DOMAIN routes |-> routes[i]]
    BY <1>4
  <2> QED
    BY <1>3, <2>1, Image DEF ToSet
<1>6. P = {f \in ToSet(edges) : ~ IsEdit(kind, f) /\ ~ IsPress(kind, f)}
  BY <1>1, <1>2
<1>7. R = {e \in ToSet(edges) : ~ IsEdit(kind, e)}
  BY <1>1
<1> QED
  BY <1>1, <1>2, <1>3, <1>5, <1>6, <1>7 DEF edits, others, routes

LEMMA LastOfList ==
    ASSUME NEW list, IsList(list)
    PROVE  \/ list = << >> /\ ToSet(list) = {}
           \/ list # << >> /\ Last(list) \in ToSet(list)
<1> DEFINE n == Len(list)
<1>1. /\ n \in Nat /\ list \in [1 .. n -> ToSet(list)] /\ list \in Seq(ToSet(list))
      /\ ToSet(list) = {list[i] : i \in 1 .. n}
  <2>1. list \in Seq(ToSet(list))
    BY DEF IsList
  <2> QED
    BY <2>1, ToSetOfSeq
<1>2. CASE n = 0
  <2>1. list = << >>
    BY <1>1, <1>2
  <2> QED
    BY <2>1, EmptyList
<1>3. CASE n # 0
  <2>1. list # << >>
    BY <1>3
  <2>2. n \in 1 .. n
    BY <1>1, <1>3
  <2>3. Last(list) = list[n]
    BY DEF Last
  <2> QED
    BY <1>1, <2>1, <2>2, <2>3
<1> QED
  BY <1>2, <1>3

\* A button is read with the target of an edge that presses it.
LEMMA HydratedButtons ==
    ASSUME NEW texts, IsList(texts), NEW edges, IsList(edges)
    PROVE  /\ IsList(HydrateButtons(texts, edges))
           /\ ToSet(HydrateButtons(texts, edges)) =
                 {HydrateButtons(texts, edges)[i] : i \in DOMAIN texts}
           /\ [i \in DOMAIN HydrateButtons(texts, edges) |-> HydrateButtons(texts, edges)[i].text] = texts
           /\ ToSet(texts) = {texts[i] : i \in DOMAIN texts}
           /\ \A i \in DOMAIN texts :
                 /\ IsButton(HydrateButtons(texts, edges)[i])
                 /\ HydrateButtons(texts, edges)[i].text = texts[i]
                 /\ \/ /\ HydrateButtons(texts, edges)[i].next = None
                       /\ \A e \in ToSet(edges) : e.handle # ButtonOf(texts[i])
                    \/ \E e \in ToSet(edges) :
                          e.handle = ButtonOf(texts[i]) /\ HydrateButtons(texts, edges)[i].next = e.target
<1> DEFINE bs == HydrateButtons(texts, edges)
           h(i) == ButtonOf(texts[i])
           j(i) == LastHandle(edges, h(i))
           next(i) == IF j(i) = 0 THEN None ELSE edges[j(i)].target
<1>1. bs = [i \in DOMAIN texts |-> [text |-> texts[i], next |-> next(i)]]
  BY DEF HydrateButtons, LastHandle
<1>2. ASSUME NEW i \in DOMAIN texts
      PROVE  \/ next(i) = None /\ \A e \in ToSet(edges) : e.handle # ButtonOf(texts[i])
             \/ \E e \in ToSet(edges) : e.handle = ButtonOf(texts[i]) /\ next(i) = e.target
  <2> DEFINE x == ButtonOf(texts[i])
  <2>1. next(i) = IF LastHandle(edges, x) = 0 THEN None ELSE edges[LastHandle(edges, x)].target
    OBVIOUS
  <2> HIDE DEF next, x
  <2>2. \/ LastHandle(edges, x) = 0 /\ \A e \in ToSet(edges) : e.handle # x
        \/ LastHandle(edges, x) # 0 /\ \E e \in ToSet(edges) :
              e.handle = x /\ edges[LastHandle(edges, x)] = e
    BY LastPositions
  <2> QED
    BY <2>1, <2>2 DEF x
<1> HIDE DEF next
<1>3. /\ DOMAIN bs = DOMAIN texts /\ bs = [i \in DOMAIN bs |-> bs[i]]
      /\ \A i \in DOMAIN texts : bs[i].text = texts[i] /\ bs[i].next = next(i) /\ IsButton(bs[i])
  BY <1>1 DEF IsButton
<1> HIDE DEF bs
<1>4. DOMAIN texts = 1 .. Len(texts) /\ texts = [i \in DOMAIN texts |-> texts[i]]
  BY DEF IsList
<1>5. IsList(bs) /\ ToSet(bs) = {bs[i] : i \in DOMAIN texts}
  BY <1>3, <1>4, Image
<1>6. [i \in DOMAIN bs |-> bs[i].text] = texts
  BY <1>3, <1>4
<1> QED
  BY <1>2, <1>3, <1>5, <1>6 DEF bs, ToSet

\* A route keeps everything but the prefix of its handle.
RouteOf(source, target, handle, targetHandle) ==
    [source |-> source, target |-> target, handle |-> handle, targetHandle |-> targetHandle]

LEMMA RouteIsRead ==
    ASSUME NEW e, IsRoute(e), NEW kind
    PROVE  /\ IsRoute(ReadRoute(kind, e))
           /\ ReadRoute(kind, e) = RouteOf(e.source, e.target, Unprefixed(kind, e.handle), e.targetHandle)
           /\ ReadRoute(kind, e).source = e.source /\ ReadRoute(kind, e).target = e.target
           /\ ReadRoute(kind, e).targetHandle = e.targetHandle
<1> DEFINE h == Unprefixed(kind, e.handle)
           r == RouteOf(e.source, e.target, h, e.targetHandle)
<1>1. e = RouteOf(e.source, e.target, e.handle, e.targetHandle) /\ IsHandle(h)
  BY HandleForm DEF IsRoute, RouteOf
<1>2. ReadRoute(kind, e) = [e EXCEPT !.handle = h]
  BY DEF ReadRoute
<1> HIDE DEF h
<1>3. ReadRoute(kind, e) = r
  BY <1>1, <1>2 DEF RouteOf
<1>4. IsRoute(r) /\ r.source = e.source /\ r.target = e.target /\ r.targetHandle = e.targetHandle
  BY <1>1 DEF RouteOf, IsRoute
<1> HIDE DEF r
<1> QED
  BY <1>3, <1>4 DEF r, h

\* A node read on its own (importer.py, import_node).
LEMMA ImportedForm ==
    ASSUME NEW flow, IsFlow(flow), NEW node \in ToSet(flow.nodes)
    PROVE  /\ ReadForm(ImportNode(node, From(flow, node.id)))
           /\ ImportNode(node, From(flow, node.id)).step.kind = node.type
<1> DEFINE kind  == node.type
           edges == From(flow, node.id)
           none  == << >>
           read  == ImportNode(node, edges)
<1>1. node.id \in Ids /\ IsList(node.texts) /\ IsList(none) /\ ToSet(none) = {} /\ RouteList(none)
  BY EmptyList DEF IsFlow, IdsOf
<1>2. /\ IsList(edges)
      /\ \A e \in ToSet(edges) : IsRoute(e) /\ (e.targetHandle = Selected => kind \in TargetKinds)
  <2>1. IsList(edges) /\ ToSet(edges) = {e \in ToSet(flow.edges) : e.source = node.id}
    BY FromEffect
  <2> HIDE DEF edges
  <2> QED
    BY <2>1 DEF IsFlow
<1>3. CASE kind = "raw_node"
  <2> DEFINE step == ReadStep(node.id, kind, node.value, none, None, node.branches, edges)
  <2>1. read = ReadOf(step, none)
    BY <1>3, ReadNode
  <2> HIDE DEF edges, none, read, kind
  <2>2. IsStep(step) /\ Ordinary(step.routes)
    BY <1>1, <1>2, <1>3 DEF ReadStep, IsStep, Ordinary, TargetKinds
  <2>3. step.id = node.id /\ step.kind = kind
    BY DEF ReadStep
  <2> HIDE DEF step
  <2> QED
    BY <1>1, <2>1, <2>2, <2>3 DEF ReadForm, ReadOf, read, edges, kind
<1>4. CASE kind # "raw_node"
  <2> DEFINE buttons == ReadButtons(node, edges)
             target  == ReadTarget(kind, edges)
             routes  == ReadRoutes(kind, edges)
             step    == ReadStep(node.id, kind, node.value, buttons, target, node.branches, none)
  <2>1. read = ReadOf(step, routes)
    BY <1>4, ReadNode
  <2> HIDE DEF edges, none, read, kind
  <2>2. /\ IsList(OthersOf(kind, edges)) /\ IsList(routes)
        /\ ToSet(routes) = {ReadRoute(kind, e) : e \in {f \in ToSet(edges) : ~ IsEdit(kind, f) /\ ~ IsPress(kind, f)}}
    BY <1>2, EdgesAreSplit
  <2>3. IsList(buttons) /\ \A b \in ToSet(buttons) : IsButton(b)
    <3> DEFINE others == OthersOf(kind, edges)
               texts  == node.texts
    <3>1. buttons = HydrateButtons(texts, others)
      BY DEF ReadButtons, kind
    <3>2. IsList(texts) /\ IsList(others)
      BY <1>1, <2>2
    <3> HIDE DEF texts, others, buttons
    <3> QED
      BY <3>1, <3>2, HydratedButtons
  <2> HIDE DEF buttons, target, routes
  <2>4. IsStep(step) /\ Ordinary(step.routes)
    BY <1>1, <2>3 DEF ReadStep, IsStep, Ordinary
  <2>5. step.id = node.id /\ step.kind = kind
    BY DEF ReadStep
  <2>6. RouteList(routes)
    <3>1. \A e \in ToSet(edges) : ~ IsEdit(kind, e) =>
             IsRoute(ReadRoute(kind, e)) /\ ReadRoute(kind, e).targetHandle # Selected
      BY <1>2, RouteIsRead DEF IsEdit
    <3> QED
      BY <2>2, <3>1 DEF RouteList, Ordinary
  <2> HIDE DEF step
  <2> QED
    BY <1>1, <2>1, <2>4, <2>5, <2>6 DEF ReadForm, ReadOf, read, edges, kind
<1> QED
  BY <1>3, <1>4

\* A sound flow leads to its conditions: one that was merged is no trigger.
LEMMA ConditionsAreReached ==
    ASSUME NEW flow, IsFlow(flow), SoundFlow(flow),
           NEW node \in ToSet(flow.nodes), node.type = "if_condition"
    PROVE  HasIncoming(flow, node.id)
<1> SUFFICES ASSUME ~ HasIncoming(flow, node.id) PROVE FALSE
  OBVIOUS
<1> DEFINE roots == {n.id : n \in {m \in ToSet(flow.nodes) : m.type \in TriggerKinds}}
           links == FlowLinks(flow)
           S == Ids \ {node.id}
<1>1. node.id \in IdsOf(flow.nodes) /\ IdsOf(flow.nodes) \subseteq Ids
  BY DEF IdsOf, IsFlow
<1>2. node.id \in Reachable(roots, links)
  BY <1>1 DEF SoundFlow
<1>3. roots \subseteq S
  <2> SUFFICES ASSUME NEW m \in ToSet(flow.nodes), m.type \in TriggerKinds
               PROVE  m.id \in Ids /\ m.id # node.id
    OBVIOUS
  <2>1. m.id \in Ids
    BY <1>1 DEF IdsOf
  <2>2. DistinctIds(flow.nodes)
    BY IdsAreCounted DEF SoundFlow, IsFlow
  <2>3. m.id = node.id => m = node
    BY <2>2 DEF DistinctIds, ToSet
  <2> QED
    BY <2>1, <2>3 DEF TriggerKinds
<1>4. ClosedUnder(S, links)
  <2> SUFFICES ASSUME NEW l \in links PROVE l[2] \in S
    BY DEF ClosedUnder
  <2>1. l[2] \in Ids
    BY <1>1 DEF SoundFlow
  <2>2. PICK e \in ToSet(flow.edges) : l = Link(e)
    BY LinksOfFlow
  <2>3. CASE e.targetHandle = Selected
    <3>1. l[2] = e.source
      BY <2>2, <2>3 DEF Link
    <3>2. e.source # node.id
      BY <2>3 DEF IsFlow, TargetKinds
    <3> QED
      BY <2>1, <3>1, <3>2
  <2>4. CASE e.targetHandle # Selected
    <3>1. l[2] = e.target
      BY <2>2, <2>4 DEF Link
    <3>2. e.target # node.id
      BY DEF HasIncoming
    <3> QED
      BY <2>1, <3>1, <3>2
  <2> QED
    BY <2>3, <2>4
<1>5. S \in SUBSET Ids
  OBVIOUS
<1> HIDE DEF S, roots, links
<1>6. node.id \in S
  BY <1>2, <1>3, <1>4, <1>5 DEF Reachable
<1> QED
  BY <1>6 DEF S

\* A condition that would be merged is no trigger: something leads to it.
Readable(flow) ==
    \A node \in ToSet(flow.nodes) :
        node.type = "if_condition" /\ ~ node.branches /\ ElseOf(flow, node) # None
            => HasIncoming(flow, node.id)

\* Adding what was read to a document.
Grows(d, read, p) ==
    /\ ProperDocument(p)
    /\ ToSet(p.triggers) \subseteq ToSet(d.triggers) \cup {read.step}
    /\ ToSet(p.steps) \subseteq ToSet(d.steps) \cup {read.step}
    /\ ToSet(p.routes) \subseteq ToSet(d.routes) \cup ToSet(read.routes)

LEMMA PlaceKeepsProper ==
    ASSUME NEW d, ProperDocument(d), NEW read, ReadForm(read), NEW isTrigger \in BOOLEAN,
           isTrigger => read.step.kind \in TriggerKinds
    PROVE  Grows(d, read, Place(d, read, isTrigger))
<1> DEFINE p == Place(d, read, isTrigger)
           t1 == d.triggers \o <<read.step>>
           s1 == d.steps \o <<read.step>>
           t == IF isTrigger THEN t1 ELSE d.triggers
           s == IF isTrigger THEN d.steps ELSE s1
           r == d.routes \o read.routes
<1>1. ProperLists(d.triggers, d.steps, d.routes)
  BY ListsOfProper
<1>2. /\ IsList(t1) /\ ToSet(t1) = ToSet(d.triggers) \cup {read.step}
      /\ IsList(s1) /\ ToSet(s1) = ToSet(d.steps) \cup {read.step}
      /\ Append(d.triggers, read.step) = t1 /\ Append(d.steps, read.step) = s1
  <2>1. IsList(d.triggers) /\ IsList(d.steps)
    BY <1>1 DEF ProperLists
  <2>2. \A list, e : IsList(list) => Append(list, e) = list \o <<e>>
    <3> SUFFICES ASSUME NEW list, IsList(list), NEW e PROVE Append(list, e) = list \o <<e>>
      OBVIOUS
    <3>1. list \in Seq(ToSet(list) \cup {e}) /\ e \in ToSet(list) \cup {e}
      BY ListOver
    <3> DEFINE S == ToSet(list) \cup {e}
    <3> HIDE DEF S
    <3>2. list \in Seq(S) /\ e \in S
      BY <3>1 DEF S
    <3> QED
      BY <3>2
  <2>3. /\ IsList(t1) /\ ToSet(t1) = ToSet(d.triggers) \cup {read.step}
        /\ IsList(s1) /\ ToSet(s1) = ToSet(d.steps) \cup {read.step}
    BY <2>1, AtTheEnd
  <2> QED
    BY <2>1, <2>2, <2>3
<1>3. p = Doc(t, s, r)
  BY <1>2 DEF Place, Doc
<1>4. IsList(r) /\ ToSet(r) = ToSet(d.routes) \cup ToSet(read.routes)
  BY <1>1, BothLists DEF ProperLists, ReadForm, RouteList
<1> HIDE DEF p, t1, s1, r
<1>5. /\ ToSet(t) \subseteq ToSet(d.triggers) \cup {read.step}
      /\ ToSet(s) \subseteq ToSet(d.steps) \cup {read.step}
      /\ IsList(t) /\ IsList(s) /\ AllTriggers(t)
  BY <1>1, <1>2 DEF ProperLists, AllTriggers
<1> HIDE DEF t, s
<1>6. ProperLists(t, s, r)
  BY <1>1, <1>4, <1>5 DEF ProperLists, ProperSteps, ReadForm, RouteList, Ordinary
<1> QED
  BY <1>3, <1>4, <1>5, <1>6, ProperByLists, DocFields DEF p, Grows

LEMMA EmptyIsProper == ProperDocument(EmptyDocument)
<1> DEFINE e == << >>
<1>1. EmptyDocument = Doc(e, e, e)
  BY DEF EmptyDocument, Doc
<1>2. IsList(e) /\ ToSet(e) = {} /\ RouteList(e)
  BY EmptyList
<1> HIDE DEF e
<1>3. ProperLists(e, e, e)
  BY <1>2 DEF ProperLists, ProperSteps, AllTriggers, RouteList
<1> QED
  BY <1>1, <1>3, ProperByLists

\* One turn of the loop: a proper document of what has been read so far is one
\* afterwards.
SeenAs(doc, visited) == [doc |-> doc, visited |-> visited]

ReadAt(flow, node) ==
    {ImportNode(node, From(flow, node.id)), MergeChain(flow, node, ElseOf(flow, node))}

VisitedAt(flow, node) == {node.id, ElseOf(flow, node)}

TurnKeeps(flow, node, d, visited) ==
    \/ ImportNext(flow, SeenAs(d, visited), node) = SeenAs(d, visited)
    \/ \E read \in ReadAt(flow, node), more \in SUBSET VisitedAt(flow, node) : \E p :
          /\ Grows(d, read, p)
          /\ ImportNext(flow, SeenAs(d, visited), node) = SeenAs(p, visited \cup more)

LEMMA ImportNextKeepsProper ==
    ASSUME NEW flow, IsFlow(flow), Readable(flow), NEW node \in ToSet(flow.nodes),
           NEW d, ProperDocument(d), NEW visited
    PROVE  TurnKeeps(flow, node, d, visited)
<1> DEFINE seen == SeenAs(d, visited)
           other == ElseOf(flow, node)
           rootless == ~ HasIncoming(flow, node.id)
           merged == MergeChain(flow, node, other)
           alone == ImportNode(node, From(flow, node.id))
           isTrigger == node.type \in TriggerKinds /\ rootless
<1>1. seen.doc = d /\ seen.visited = visited
  BY DEF SeenAs
<1>2. ReadForm(alone) /\ alone.step.kind = node.type /\ node.id \in Ids
  BY ImportedForm DEF IsFlow, IdsOf
<1>3. ReadForm(merged)
  BY <1>2, MergedForm
<1>4. alone \in ReadAt(flow, node) /\ merged \in ReadAt(flow, node)
  BY DEF ReadAt
<1>5. {node.id, other} \in SUBSET VisitedAt(flow, node) /\ {node.id} \in SUBSET VisitedAt(flow, node)
  BY DEF VisitedAt
<1>6. CASE node.id \in visited
  <2>1. ImportNext(flow, seen, node) = seen
    BY <1>1, <1>6 DEF ImportNext
  <2> QED
    BY <2>1 DEF TurnKeeps
<1>7. CASE node.id \notin visited /\ node.type = "if_condition" /\ ~ node.branches /\ other # None
  <2> DEFINE p == Place(d, merged, rootless)
             more == {node.id, other}
  <2>1. ImportNext(flow, seen, node) = SeenAs(p, visited \cup more)
    BY <1>1, <1>7 DEF ImportNext, SeenAs
  <2>2. rootless \in BOOLEAN /\ ~ rootless
    BY <1>7 DEF Readable
  <2> HIDE DEF merged, rootless
  <2>3. Grows(d, merged, p)
    BY <1>3, <2>2, PlaceKeepsProper
  <2> HIDE DEF seen, p, more, other
  <2> QED
    BY <1>4, <1>5, <2>1, <2>3 DEF TurnKeeps, seen, more
<1>8. CASE node.id \notin visited /\ ~ (node.type = "if_condition" /\ ~ node.branches /\ other # None)
  <2> DEFINE p == Place(d, alone, isTrigger)
             more == {node.id}
  <2>1. ImportNext(flow, seen, node) = SeenAs(p, visited \cup more)
    BY <1>1, <1>8 DEF ImportNext, SeenAs
  <2>2. isTrigger \in BOOLEAN /\ (isTrigger => alone.step.kind \in TriggerKinds)
    BY <1>2
  <2> HIDE DEF alone, isTrigger
  <2>3. Grows(d, alone, p)
    BY <1>2, <2>2, PlaceKeepsProper
  <2> HIDE DEF seen, p, more
  <2> QED
    BY <1>4, <1>5, <2>1, <2>3 DEF TurnKeeps, seen, more
<1> QED
  BY <1>6, <1>7, <1>8

\* Everything that may have been read on the way.
Documents(A, B) == {d \in {Doc(t, s, r) : t \in Seq(A), s \in Seq(A), r \in Seq(B)} : ProperDocument(d)}

LEMMA InDocuments ==
    ASSUME NEW A, NEW B, NEW d
    PROVE  d \in Documents(A, B) <=>
              /\ ProperDocument(d)
              /\ ToSet(d.triggers) \subseteq A /\ ToSet(d.steps) \subseteq A /\ ToSet(d.routes) \subseteq B
<1>1. ASSUME d \in Documents(A, B)
      PROVE  /\ ProperDocument(d)
             /\ ToSet(d.triggers) \subseteq A /\ ToSet(d.steps) \subseteq A /\ ToSet(d.routes) \subseteq B
  <2>1. PICK t \in Seq(A), s \in Seq(A), r \in Seq(B) : d = Doc(t, s, r)
    BY <1>1 DEF Documents
  <2>2. d.triggers = t /\ d.steps = s /\ d.routes = r
    BY <2>1, DocFields
  <2>3. ToSet(t) \subseteq A /\ ToSet(s) \subseteq A /\ ToSet(r) \subseteq B
    BY ToSetOfSeq
  <2> QED
    BY <1>1, <2>2, <2>3 DEF Documents
<1>2. ASSUME ProperDocument(d), ToSet(d.triggers) \subseteq A, ToSet(d.steps) \subseteq A,
             ToSet(d.routes) \subseteq B
      PROVE  d \in Documents(A, B)
  <2>1. d = Doc(d.triggers, d.steps, d.routes) /\ ProperLists(d.triggers, d.steps, d.routes)
    BY <1>2, ListsOfProper
  <2>2. d.triggers \in Seq(A) /\ d.steps \in Seq(A) /\ d.routes \in Seq(B)
    BY <1>2, <2>1, ListOver DEF ProperLists
  <2>3. d \in {Doc(t, s, r) : t \in Seq(A), s \in Seq(A), r \in Seq(B)}
    BY <2>1, <2>2
  <2> QED
    BY <1>2, <2>3 DEF Documents
<1> QED
  BY <1>1, <1>2

\* The loop over the nodes, turn by turn (importer.py, import_flow_document).
Turns(flow, h) ==
    /\ h[0] = SeenAs(EmptyDocument, {})
    /\ \A i \in 1 .. Len(flow.nodes) : h[i] = ImportNext(flow, h[i - 1], flow.nodes[i])
    /\ \A i \in 0 .. Len(flow.nodes) :
          ProperDocument(h[i].doc) /\ h[i] = SeenAs(h[i].doc, h[i].visited)
    /\ Import(flow) = h[Len(flow.nodes)].doc

LEMMA ImportTurns ==
    ASSUME NEW flow, IsFlow(flow), Readable(flow)
    PROVE  \E h : Turns(flow, h)
<1> DEFINE nodes == flow.nodes
           n == Len(nodes)
           reads == UNION {ReadAt(flow, x) : x \in ToSet(nodes)}
           A == {read.step : read \in reads}
           B == UNION {ToSet(read.routes) : read \in reads}
           W == UNION {VisitedAt(flow, x) : x \in ToSet(nodes)}
           D == Documents(A, B)
           V == {SeenAs(d, v) : d \in D, v \in SUBSET W}
           base == SeenAs(EmptyDocument, {})
           turn(seen, x) == ImportNext(flow, seen, x)
           Body(g, s) == IF s = {} THEN base ELSE turn(g[s \ {Max(s)}], nodes[Max(s)])
           IsFold(g) == g = [s \in SUBSET (1 .. n) |-> Body(g, s)]
           fold == CHOOSE g : IsFold(g)
<1>0. n \in Nat /\ DOMAIN nodes = 1 .. n /\ \A i \in 1 .. n : nodes[i] \in ToSet(nodes)
  BY DEF IsFlow, IsList, ToSet
<1>1. Import(flow) = fold[1 .. n].doc
  BY <1>0 DEF Import, FoldLeft, MapThenFoldSet, SeenAs
<1>2. base \in V
  <2>1. ProperDocument(EmptyDocument)
    BY EmptyIsProper
  <2>2. /\ ToSet(EmptyDocument.triggers) = {} /\ ToSet(EmptyDocument.steps) = {}
        /\ ToSet(EmptyDocument.routes) = {}
    BY EmptyList DEF EmptyDocument
  <2> HIDE DEF A, B, W
  <2>3. EmptyDocument \in D
    BY <2>1, <2>2, InDocuments
  <2> QED
    BY <2>3
<1>3. \A v \in V : ProperDocument(v.doc)
  <2>1. \A d \in D : ProperDocument(d)
    BY DEF Documents
  <2>2. \A d, v : SeenAs(d, v).doc = d
    BY DEF SeenAs
  <2> HIDE DEF D, W
  <2> QED
    BY <2>1, <2>2
<1>4. ASSUME NEW v \in V, NEW i \in 1 .. n PROVE turn(v, nodes[i]) \in V
  <2> DEFINE x == nodes[i]
  <2>0. x \in ToSet(nodes) /\ nodes[i] = x
    BY <1>0
  <2>1. PICK d \in D, visited \in SUBSET W : v = SeenAs(d, visited)
    <3> HIDE DEF D, W
    <3> QED
      BY <1>4
  <2> HIDE DEF x
  <2>2. ProperDocument(d) /\ ToSet(d.triggers) \subseteq A /\ ToSet(d.steps) \subseteq A /\ ToSet(d.routes) \subseteq B
    <3> HIDE DEF A, B
    <3> QED
      BY InDocuments
  <2>3. ASSUME NEW read \in ReadAt(flow, x), NEW more \in SUBSET VisitedAt(flow, x), NEW p,
               Grows(d, read, p)
        PROVE  SeenAs(p, visited \cup more) \in V
    <3> DEFINE w == visited \cup more
    <3>1. read \in reads
      BY <2>0, <2>3
    <3> HIDE DEF reads
    <3>2. read.step \in A /\ ToSet(read.routes) \subseteq B
      BY <3>1
    <3>3. VisitedAt(flow, x) \subseteq W
      BY <2>0
    <3> HIDE DEF W
    <3>4. w \in SUBSET W
      BY <3>3
    <3> HIDE DEF A, B, w
    <3>5. p \in D
      BY <2>2, <2>3, <3>2, InDocuments DEF Grows
    <3> HIDE DEF D
    <3> QED
      BY <3>4, <3>5 DEF w
  <2>4. SeenAs(d, visited) \in V
    <3> HIDE DEF D, W
    <3> QED
      OBVIOUS
  <2>5. TurnKeeps(flow, x, d, visited)
    <3>1. x \in ToSet(flow.nodes)
      BY <2>0
    <3> QED
      BY <2>2, <3>1, ImportNextKeepsProper
  <2>6. ImportNext(flow, SeenAs(d, visited), x) \in V
    <3> HIDE DEF V
    <3> QED
      BY <2>3, <2>4, <2>5 DEF TurnKeeps
  <2> HIDE DEF V
  <2>7. turn(v, x) = ImportNext(flow, SeenAs(d, visited), x)
    BY <2>1
  <2> HIDE DEF turn
  <2> QED
    BY <2>0, <2>6, <2>7
<1> HIDE DEF V, base, turn
<1>6. \E g : IsFold(g)
  <2> DEFINE f == [x \in V \X (1 .. n) |-> turn(x[1], nodes[x[2]])]
  <2>1. /\ f \in [V \X (1 .. n) -> V]
        /\ \A v \in V, i \in 1 .. n : f[<<v, i>>] = turn(v, nodes[i])
    BY <1>4
  <2> HIDE DEF f, n, Body, IsFold
  <2>2. PICK g : FoldBy(g, V, base, f, n)
    <3>1. n \in Nat /\ base \in V /\ f \in [V \X (1 .. n) -> V]
      BY <1>0, <1>2, <2>1
    <3> QED
      BY <3>1, FoldExists
  <2>3. \A s \in SUBSET (1 .. n) : g[s] = Body(g, s)
    BY <2>1, <2>2 DEF Body, FoldBy
  <2>4. IsFold(g)
    BY <2>2, <2>3 DEF IsFold, FoldBy
  <2> QED
    BY <2>4
<1>7. IsFold(fold)
  <2> HIDE DEF IsFold
  <2> QED
    BY <1>6
<1> HIDE DEF fold
<1>8. \A s \in SUBSET (1 .. n) : fold[s] = Body(fold, s)
  <2> HIDE DEF Body
  <2> QED
    BY <1>7
<1>9. fold[{}] \in V
  BY <1>2, <1>8
<1>10. \A s \in SUBSET (1 .. n) : s # {} /\ fold[s \ {Max(s)}] \in V => fold[s] \in V
  <2>1. \A s \in SUBSET (1 .. n) : s # {} => Max(s) \in 1 .. n
    <3>1. \A s \in SUBSET (1 .. n) : s # {} => Max(s) \in s
      BY <1>0, MaxProperties
    <3> HIDE DEF n
    <3> QED
      BY <3>1
  <2> QED
    BY <1>4, <1>8, <2>1
<1>11. \A i \in 0 .. n : fold[1 .. i] \in V
  <2> SUFFICES ASSUME NEW i \in 0 .. n PROVE fold[1 .. i] \in V
    OBVIOUS
  <2>1. i \in Nat /\ SUBSET (1 .. i) \subseteq SUBSET (1 .. n)
    BY <1>0
  <2>2. \A s \in SUBSET (1 .. i) : s # {} /\ fold[s \ {Max(s)}] \in V => fold[s] \in V
    BY <1>10, <2>1
  <2> QED
    BY <1>9, <2>1, <2>2, FoldStays
<1> DEFINE h == [i \in 0 .. n |-> fold[1 .. i]]
<1>12. h[0] = SeenAs(EmptyDocument, {})
  <2>1. 1 .. 0 = {} /\ 0 \in 0 .. n
    BY <1>0
  <2>2. fold[{}] = base
    BY <1>8
  <2> QED
    BY <2>1, <2>2 DEF base
<1>13. \A i \in 1 .. n : h[i] = ImportNext(flow, h[i - 1], nodes[i])
  <2> SUFFICES ASSUME NEW i \in 1 .. n PROVE h[i] = ImportNext(flow, h[i - 1], nodes[i])
    OBVIOUS
  <2> DEFINE s == 1 .. i
  <2>1. i \in Nat /\ i \in 0 .. n /\ i - 1 \in 0 .. n /\ s \in SUBSET (1 .. n) /\ s # {}
        /\ s \in SUBSET (1 .. i)
    BY <1>0
  <2>2. Max(s) = i
    <3>1. Max(s) \in s /\ \A m \in s : Max(s) >= m
      <4> HIDE DEF s
      <4> QED
        BY <2>1, MaxProperties
    <3> QED
      BY <2>1, <3>1
  <2>3. s \ {i} = 1 .. i - 1
    BY <2>1
  <2> HIDE DEF s
  <2>4. fold[s] = turn(fold[s \ {i}], nodes[i])
    BY <1>8, <2>1, <2>2
  <2>5. h[i] = fold[s] /\ h[i - 1] = fold[s \ {i}]
    BY <2>1, <2>3 DEF s
  <2> HIDE DEF h
  <2> QED
    BY <2>4, <2>5 DEF turn
<1>14. \A i \in 0 .. n : ProperDocument(h[i].doc) /\ h[i] = SeenAs(h[i].doc, h[i].visited)
  <2>1. \A i \in 0 .. n : h[i] \in V
    BY <1>11
  <2>2. \A v \in V : v = SeenAs(v.doc, v.visited)
    <3>1. \A d, v : SeenAs(d, v) = SeenAs(SeenAs(d, v).doc, SeenAs(d, v).visited)
      BY DEF SeenAs
    <3> HIDE DEF D, W
    <3> QED
      BY <3>1 DEF V
  <2> HIDE DEF h
  <2> QED
    BY <1>3, <2>1, <2>2
<1>15. Import(flow) = h[n].doc
  <2>1. n \in 0 .. n
    BY <1>0
  <2> QED
    BY <1>1, <2>1
<1> HIDE DEF h
<1>16. Turns(flow, h)
  BY <1>12, <1>13, <1>14, <1>15 DEF Turns
<1> QED
  BY <1>16

\* A sound file is read back as a proper document.
LEMMA ImportIsProper ==
    ASSUME NEW flow, IsFlow(flow), SoundFlow(flow)
    PROVE  ProperDocument(Import(flow))
<1>1. Readable(flow)
  BY ConditionsAreReached DEF Readable
<1>2. PICK h : Turns(flow, h)
  BY <1>1, ImportTurns
<1>3. Len(flow.nodes) \in 0 .. Len(flow.nodes)
  BY DEF IsFlow, IsList
<1> QED
  BY <1>2, <1>3 DEF Turns
=============================================================================
