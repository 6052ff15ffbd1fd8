--------------------------- MODULE SubsequenceProofs ---------------------------
(* What is picked of a sequence: as many elements as places, each place in *)
(* its order, and nothing that was left out.                               *)
EXTENDS Subsequence, FiniteSetTheorems, TLAPS

(* Some places of a sequence: how many they are up to one of them.         *)
LEMMA RankType ==
  ASSUME NEW at, IsFiniteSet(at), at \subseteq Nat, NEW i \in at
  PROVE  Rank(at, i) \in 1 .. Cardinality(at)
<1>1. {j \in at : j <= i} \in SUBSET at
  OBVIOUS
<1>2. /\ IsFiniteSet({j \in at : j <= i})
      /\ Rank(at, i) <= Cardinality(at)
  BY <1>1, FS_Subset DEF Rank
<1>3. Rank(at, i) \in Nat /\ Cardinality(at) \in Nat
  BY <1>2, FS_CardinalityType DEF Rank
<1>4. i \in {j \in at : j <= i}
  OBVIOUS
<1>5. {j \in at : j <= i} # {}
  BY <1>4
<1>6. Rank(at, i) # 0
  BY <1>2, <1>5, FS_EmptySet DEF Rank
<1> QED
  BY <1>2, <1>3, <1>6

(* A later place has more places up to it.                                 *)
LEMMA RankGrows ==
  ASSUME NEW at, IsFiniteSet(at), at \subseteq Nat, NEW i \in at, NEW j \in at, i < j
  PROVE  Rank(at, i) < Rank(at, j)
<1> DEFINE I == {k \in at : k <= i}
           J == {k \in at : k <= j}
<1>0. i \in Nat /\ j \in Nat /\ \A k \in at : k \in Nat
  OBVIOUS
<1>1. /\ j \in J /\ j \notin I
      /\ J \in SUBSET at
      /\ I \in SUBSET J
  <2>1. j \in J /\ j \notin I
    BY <1>0
  <2>2. \A k \in I : k \in J
    BY <1>0
  <2> QED
    BY <2>1, <2>2
<1>2. I # J
  BY <1>1
<1>3. IsFiniteSet(J)
  BY <1>1, FS_Subset
<1>4. /\ IsFiniteSet(I) /\ Cardinality(I) <= Cardinality(J)
      /\ Cardinality(I) # Cardinality(J)
  BY <1>1, <1>2, <1>3, FS_Subset
<1>5. Cardinality(I) \in Nat /\ Cardinality(J) \in Nat
  BY <1>3, <1>4, FS_CardinalityType
<1>6. Cardinality(I) < Cardinality(J)
  BY <1>4, <1>5
<1> QED
  BY <1>6 DEF Rank

(* The place that comes k-th.                                              *)
Place(at, k) == CHOOSE i \in at : Rank(at, i) = k

(* There is one for each number up to their count, and no two.             *)
LEMMA RankOnto ==
  ASSUME NEW at, IsFiniteSet(at), at \subseteq Nat, NEW k \in 1 .. Cardinality(at)
  PROVE  \E i \in at : Rank(at, i) = k
<1> DEFINE n == Cardinality(at)
           f == [i \in at |-> Rank(at, i)]
<1>1. n \in Nat
  BY FS_CardinalityType
<1>2. f \in [at -> 1 .. n]
  BY RankType
<1>3. \A i, j \in at : f[i] = f[j] => i = j
  <2> SUFFICES ASSUME NEW i \in at, NEW j \in at, f[i] = f[j], i # j
               PROVE  FALSE
    OBVIOUS
  <2>1. Rank(at, i) = Rank(at, j)
    OBVIOUS
  <2>4. Rank(at, i) \in 1 .. n /\ Rank(at, j) \in 1 .. n
    BY RankType
  <2>2. i < j \/ j < i
    OBVIOUS
  <2>3. Rank(at, i) < Rank(at, j) \/ Rank(at, j) < Rank(at, i)
    BY <2>2, RankGrows
  <2> QED
    BY <1>1, <2>1, <2>3, <2>4
<1>4. f \in Injection(at, 1 .. n)
  BY <1>2, <1>3 DEF Injection, IsInjective
<1>5. IsFiniteSet(1 .. n) /\ Cardinality(1 .. n) = n
  BY <1>1, FS_Interval
<1>6. f \in Surjection(at, 1 .. n)
  BY <1>4, <1>5, FS_Injection
<1> QED
  BY <1>6 DEF Surjection

LEMMA PlaceRank ==
  ASSUME NEW at, IsFiniteSet(at), at \subseteq Nat, NEW k \in 1 .. Cardinality(at)
  PROVE  Place(at, k) \in at /\ Rank(at, Place(at, k)) = k
BY RankOnto DEF Place

LEMMA RankPlace ==
  ASSUME NEW at, IsFiniteSet(at), at \subseteq Nat, NEW i \in at
  PROVE  Place(at, Rank(at, i)) = i
<1> DEFINE j == Place(at, Rank(at, i))
<1>1. Rank(at, i) \in 1 .. Cardinality(at)
  BY RankType
<1>2. j \in at /\ Rank(at, j) = Rank(at, i)
  BY <1>1, PlaceRank
<1>3. Rank(at, i) \in Nat
  BY <1>1
<1>4. i < j => Rank(at, i) < Rank(at, j)
  BY <1>2, RankGrows
<1>5. j < i => Rank(at, j) < Rank(at, i)
  BY <1>2, RankGrows
<1>6. i \in Nat /\ j \in Nat
  BY <1>2
<1> QED
  BY <1>2, <1>3, <1>4, <1>5, <1>6

(* Places keep the order of their numbers, both ways.                      *)
LEMMA PlaceGrows ==
  ASSUME NEW at, IsFiniteSet(at), at \subseteq Nat,
         NEW k \in 1 .. Cardinality(at), NEW m \in 1 .. Cardinality(at)
  PROVE  k < m <=> Place(at, k) < Place(at, m)
<1> DEFINE i == Place(at, k)
           j == Place(at, m)
<1>1. i \in at /\ Rank(at, i) = k /\ j \in at /\ Rank(at, j) = m
  BY PlaceRank
<1>2. k \in Nat /\ m \in Nat
  OBVIOUS
<1>6. i \in Nat /\ j \in Nat
  BY <1>1
<1>3. i < j => k < m
  BY <1>1, RankGrows
<1>4. j < i => m < k
  BY <1>1, RankGrows
<1>5. i = j => k = m
  BY <1>1
<1> QED
  BY <1>2, <1>3, <1>4, <1>5, <1>6

(* Where nothing is dropped, each place is its own.                        *)
LEMMA AllPlaces ==
  ASSUME NEW at, NEW n \in Nat, at = 1 .. n, NEW k \in at
  PROVE  Place(at, k) = k
<1>1. IsFiniteSet(at) /\ at \subseteq Nat /\ k \in Nat /\ k <= n /\ 1 <= k
  BY FS_Interval
<1>2. {j \in at : j <= k} = 1 .. k
  BY <1>1
<1>3. Cardinality(1 .. k) = k
  BY <1>1, FS_Interval
<1>4. Rank(at, k) = k
  BY <1>2, <1>3 DEF Rank
<1> QED
  BY <1>1, <1>4, RankPlace

(* What is picked of a sequence is a sequence of its elements.             *)
LEMMA PickedType ==
  ASSUME NEW S, NEW s \in Seq(S), NEW at \in SUBSET DOMAIN s
  PROVE  /\ IsFiniteSet(at) /\ at \subseteq Nat /\ Cardinality(at) \in Nat
         /\ Picked(s, at) \in Seq(S)
         /\ DOMAIN Picked(s, at) = 1 .. Cardinality(at)
         /\ \A k \in 1 .. Cardinality(at) :
              Place(at, k) \in at /\ Picked(s, at)[k] = s[Place(at, k)]
<1>1. DOMAIN s = 1 .. Len(s) /\ Len(s) \in Nat
  OBVIOUS
<1>2. IsFiniteSet(DOMAIN s)
  BY <1>1, FS_Interval
<1>3. IsFiniteSet(at) /\ at \subseteq Nat
  BY <1>1, <1>2, FS_Subset
<1>4. Cardinality(at) \in Nat
  BY <1>3, FS_CardinalityType
<1>5. \A k \in 1 .. Cardinality(at) : Place(at, k) \in at
  BY <1>3, PlaceRank
<1>6. Picked(s, at) = [k \in 1 .. Cardinality(at) |-> s[Place(at, k)]]
  <2>1. CASE at # DOMAIN s
    BY <2>1 DEF Picked, Place
  <2>2. CASE at = DOMAIN s
    <3>1. at = 1 .. Len(s) /\ Len(s) \in Nat
      BY <2>2
    <3>2. \A k \in at : Place(at, k) = k
      BY <1>3, <3>1, AllPlaces
    <3>3. Cardinality(at) = Len(s)
      <4>1. Cardinality(1 .. Len(s)) = IF 1 > Len(s) THEN 0 ELSE Len(s) - 1 + 1
        BY <3>1, FS_Interval
      <4> QED
        BY <3>1, <4>1
    <3>4. s = [k \in 1 .. Len(s) |-> s[k]]
      OBVIOUS
    <3> QED
      BY <2>2, <3>1, <3>2, <3>3, <3>4 DEF Picked
  <2> QED
    BY <2>1, <2>2
<1>7. \A i \in DOMAIN s : s[i] \in S
  BY <1>1
<1>8. \A k \in 1 .. Cardinality(at) : s[Place(at, k)] \in S
  BY <1>5, <1>7
<1>9. Picked(s, at) \in [1 .. Cardinality(at) -> S]
  BY <1>6, <1>8
<1>10. Picked(s, at) \in Seq(S)
  BY <1>4, <1>9
<1> QED
  BY <1>3, <1>4, <1>5, <1>6, <1>10

(* As many places as numbers.                                              *)
LEMMA PlacesCounted ==
  ASSUME NEW at, IsFiniteSet(at), at \subseteq Nat, Cardinality(at) \in Nat,
         NEW C \in SUBSET (1 .. Cardinality(at))
  PROVE  Cardinality({Place(at, c) : c \in C}) = Cardinality(C)
<1> DEFINE D == {Place(at, c) : c \in C}
           f == [c \in C |-> Place(at, c)]
<1>1. IsFiniteSet(1 .. Cardinality(at))
  BY FS_Interval
<1>2. IsFiniteSet(C)
  BY <1>1, FS_Subset
<1>3. f \in [C -> D]
  OBVIOUS
<1>4. \A c, d \in C : f[c] = f[d] => c = d
  <2> SUFFICES ASSUME NEW c \in C, NEW d \in C, Place(at, c) = Place(at, d)
               PROVE  c = d
    OBVIOUS
  <2>1. c \in 1 .. Cardinality(at) /\ d \in 1 .. Cardinality(at)
    OBVIOUS
  <2>2. Rank(at, Place(at, c)) = c /\ Rank(at, Place(at, d)) = d
    BY <2>1, PlaceRank
  <2> QED
    BY <2>2
<1>5. f \in Injection(C, D)
  BY <1>3, <1>4 DEF Injection, IsInjective
<1>6. \A e \in D : \E c \in C : f[c] = e
  OBVIOUS
<1>7. f \in Bijection(C, D)
  BY <1>3, <1>5, <1>6 DEF Bijection, Surjection
<1> QED
  BY <1>2, <1>7, FS_Bijection DEF ExistsBijection

(* What is picked of what was picked is what was picked of the whole.      *)
LEMMA PickedOfPicked ==
  ASSUME NEW S, NEW s \in Seq(S), NEW at \in SUBSET DOMAIN s, NEW part \in SUBSET at
  PROVE  Picked(Picked(s, at), {k \in 1 .. Cardinality(at) : Place(at, k) \in part})
           = Picked(s, part)
<1> DEFINE n == Cardinality(at)
           within == {k \in 1 .. n : Place(at, k) \in part}
           t == Picked(s, at)
<1>1. /\ IsFiniteSet(at) /\ at \subseteq Nat /\ n \in Nat
      /\ t \in Seq(S) /\ DOMAIN t = 1 .. n
      /\ \A k \in 1 .. n : Place(at, k) \in at /\ t[k] = s[Place(at, k)]
  BY PickedType
<1>2. part \in SUBSET DOMAIN s
  OBVIOUS
<1>3. /\ IsFiniteSet(part) /\ part \subseteq Nat /\ Cardinality(part) \in Nat
      /\ Picked(s, part) \in Seq(S)
      /\ DOMAIN Picked(s, part) = 1 .. Cardinality(part)
      /\ \A k \in 1 .. Cardinality(part) :
           Place(part, k) \in part /\ Picked(s, part)[k] = s[Place(part, k)]
  BY <1>2, PickedType
<1>4. within \in SUBSET DOMAIN t
  BY <1>1
<1>5. /\ IsFiniteSet(within) /\ within \subseteq Nat
      /\ Picked(t, within) \in Seq(S)
      /\ DOMAIN Picked(t, within) = 1 .. Cardinality(within)
      /\ \A k \in 1 .. Cardinality(within) :
           Place(within, k) \in within /\ Picked(t, within)[k] = t[Place(within, k)]
  BY <1>1, <1>4, PickedType
<1>6. \A e \in part : \E k \in within : e = Place(at, k)
  <2> SUFFICES ASSUME NEW e \in part
               PROVE  \E k \in within : e = Place(at, k)
    OBVIOUS
  <2>1. e \in at
    OBVIOUS
  <2>2. Place(at, Rank(at, e)) = e
    BY <1>1, <2>1, RankPlace
  <2>3. Rank(at, e) \in 1 .. n
    BY <1>1, <2>1, RankType
  <2>4. Rank(at, e) \in within
    BY <2>2, <2>3
  <2> QED
    BY <2>2, <2>4
<1>7. {Place(at, c) : c \in within} = part
  BY <1>6
<1>8. Cardinality(within) = Cardinality(part)
  <2>1. within \in SUBSET (1 .. Cardinality(at))
    OBVIOUS
  <2>2. Cardinality({Place(at, c) : c \in within}) = Cardinality(within)
    BY <1>1, <2>1, PlacesCounted
  <2> QED
    BY <1>7, <2>2
<1>9. ASSUME NEW k \in 1 .. Cardinality(part)
      PROVE  Picked(t, within)[k] = Picked(s, part)[k]
  <2> DEFINE c == Place(within, k)
             before == {d \in within : d <= c}
             e == Place(at, c)
  <2>1. k \in 1 .. Cardinality(within)
    BY <1>8
  <2>2. c \in within /\ Rank(within, c) = k
    BY <1>5, <2>1, PlaceRank
  <2>3. c \in 1 .. n /\ e \in part /\ e \in at
    BY <2>2
  <2>4. {Place(at, d) : d \in before} = {j \in part : j <= e}
    <3>1. ASSUME NEW d \in within
          PROVE  d <= c <=> Place(at, d) <= e
      <4>1. d \in 1 .. n /\ Place(at, d) \in at
        BY <1>1
      <4>2. c < d <=> e < Place(at, d)
        BY <1>1, <2>3, <4>1, PlaceGrows
      <4>3. c \in Nat /\ d \in Nat /\ e \in Nat /\ Place(at, d) \in Nat
        BY <1>1, <2>3, <4>1
      <4> HIDE DEF c, e
      <4> QED
        BY <4>2, <4>3
    <3>2. ASSUME NEW d \in before
          PROVE  Place(at, d) \in {j \in part : j <= e}
      <4>1. d \in within /\ d <= c /\ Place(at, d) \in part
        OBVIOUS
      <4> HIDE DEF c, e, within
      <4> QED
        BY <3>1, <4>1
    <3>3. ASSUME NEW j \in part, j <= e
          PROVE  \E d \in before : Place(at, d) = j
      <4>1. PICK d \in within : j = Place(at, d)
        BY <1>6
      <4>2. d <= c
        BY <3>1, <3>3, <4>1
      <4> QED
        BY <4>1, <4>2
    <3> HIDE DEF before, e
    <3> QED
      BY <3>2, <3>3
  <2>5. before \in SUBSET (1 .. Cardinality(at))
    OBVIOUS
  <2>6. Cardinality({Place(at, d) : d \in before}) = Cardinality(before)
    BY <1>1, <2>5, PlacesCounted
  <2>7. Rank(part, e) = k
    BY <2>2, <2>4, <2>6 DEF Rank
  <2>8. Place(part, k) = e
    <3>1. Place(part, Rank(part, e)) = e
      <4> HIDE DEF e
      <4> QED
        BY <1>3, <2>3, RankPlace
    <3> HIDE DEF e, c
    <3> QED
      BY <2>7, <3>1
  <2>9. Picked(t, within)[k] = t[c] /\ t[c] = s[e]
    <3>1. Picked(t, within)[k] = t[c]
      BY <1>5, <2>1
    <3>2. t[c] = s[e]
      BY <1>1, <2>3
    <3> QED
      BY <3>1, <3>2
  <2>10. Picked(s, part)[k] = s[e]
    BY <1>3, <2>8
  <2> QED
    BY <2>9, <2>10
<1>10. Len(Picked(t, within)) = Len(Picked(s, part))
  BY <1>3, <1>5, <1>8
<1>11. ASSUME NEW p \in Seq(S), NEW q \in Seq(S), Len(p) = Len(q),
              \A k \in 1 .. Len(p) : p[k] = q[k]
       PROVE  p = q
  BY <1>11
<1>12. Len(Picked(s, part)) = Cardinality(part)
  BY <1>3
<1>13. \A k \in 1 .. Len(Picked(t, within)) : Picked(t, within)[k] = Picked(s, part)[k]
  <2> HIDE DEF within, t
  <2> QED
    BY <1>9, <1>10, <1>12
<1>14. Picked(t, within) \in Seq(S) /\ Picked(s, part) \in Seq(S)
  <2> HIDE DEF within, t
  <2> QED
    BY <1>3, <1>5
<1>15. Picked(t, within) = Picked(s, part)
  <2> HIDE DEF within, t
  <2> QED
    BY <1>10, <1>11, <1>13, <1>14
<1> QED
  BY <1>15
=============================================================================
