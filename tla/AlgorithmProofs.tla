--------------------------- MODULE AlgorithmProofs --------------------------
(***************************************************************************)
(* Proofs about the pure algorithms, for all their inputs: what picking    *)
(* positions of a sequence gives, the window around a turn, the range of   *)
(* an export, the comparison of two conversations with its hunks, the      *)
(* fusion of two rankings, the threads of a project, and the sums of the   *)
(* reports.  Recursive functions are shown to exist by the measure that    *)
(* falls with each call; a claim about their values is proved at the point *)
(* of least measure where it would fail.                                   *)
(***************************************************************************)
EXTENDS Excerpts, HybridRanking, Reports, FiniteSets, SequenceTheorems, FiniteSetTheorems,
        FunctionTheorems, WellFoundedInduction, TLAPS

LEMMA LeastExists ==
  ASSUME NEW T, T \subseteq Nat, T # {}
  PROVE  \E m \in T : \A n \in T : m <= n
<1>1. PICK m \in T : \A n \in T : ~(<<n, m>> \in OpToRel(<, Nat))
  BY WFMin, NatLessThanWellFounded
<1>2. \A n \in T : ~(n < m)
  BY <1>1 DEF OpToRel
<1>3. QED
  BY <1>2

Contribution(s, I, grown, n) ==
  IF n = 0 THEN <<>>
  ELSE IF n \in I THEN Append(grown[n - 1], s[n]) ELSE grown[n - 1]
Grows(s, I, m, grown) == grown = [n \in 0 .. m |-> Contribution(s, I, grown, n)]

LEMMA GrowsAt ==
  ASSUME NEW s, NEW I, NEW m, NEW grown, Grows(s, I, m, grown), NEW n \in 0 .. m
  PROVE  grown[n] = Contribution(s, I, grown, n)
<1>1. [i \in 0 .. m |-> Contribution(s, I, grown, i)][n] = Contribution(s, I, grown, n)
  OBVIOUS
<1>2. QED
  BY <1>1, Zenon DEF Grows

\* The recursion has a solution up to every position.
LEMMA GrowsTo ==
  ASSUME NEW s, NEW I, NEW m \in Nat
  PROVE  \E grown : Grows(s, I, m, grown)
<1> DEFINE Stuck == {k \in Nat : ~\E grown : Grows(s, I, k, grown)}
<1> SUFFICES ASSUME Stuck # {} PROVE FALSE
  OBVIOUS
<1>1. PICK k \in Stuck : \A j \in Stuck : k <= j
  BY LeastExists
<1>2. k # 0
  <2> DEFINE start == [n \in 0 .. 0 |-> <<>>]
  <2>1. Grows(s, I, 0, start)
    BY DEF Grows, Contribution
  <2>2. QED
    BY <2>1
<1>3. k - 1 \in Nat \ Stuck
  BY <1>1, <1>2
<1>4. PICK grown : Grows(s, I, k - 1, grown)
  BY <1>3
<1> DEFINE longer == [n \in 0 .. k |-> IF n = k THEN Contribution(s, I, grown, k) ELSE grown[n]]
<1>5. \A n \in 0 .. k : longer[n] = Contribution(s, I, longer, n)
  <2> SUFFICES ASSUME NEW n \in 0 .. k PROVE longer[n] = Contribution(s, I, longer, n)
    OBVIOUS
  <2>1. n # 0 => longer[n - 1] = grown[n - 1]
    OBVIOUS
  <2>2. Contribution(s, I, longer, n) = Contribution(s, I, grown, n)
    BY <2>1 DEF Contribution
  <2>3. n # k => grown[n] = Contribution(s, I, grown, n)
    BY <1>4 DEF Grows
  <2>4. QED
    BY <2>2, <2>3
<1>6. Grows(s, I, k, longer)
  BY <1>5 DEF Grows
<1>7. QED
  BY <1>6

LEMMA GrowsAlike ==
  ASSUME NEW s, NEW I, NEW m \in Nat, NEW k \in 0 .. m, NEW g, NEW h, Grows(s, I, m, g), Grows(s, I, k, h)
  PROVE  \A n \in 0 .. k : g[n] = h[n]
<1> DEFINE Apart == {n \in 0 .. k : g[n] # h[n]}
<1> SUFFICES ASSUME Apart # {} PROVE FALSE
  OBVIOUS
<1>1. PICK n \in Apart : \A j \in Apart : n <= j
  <2>1. Apart \subseteq Nat
    OBVIOUS
  <2> HIDE DEF Apart
  <2>2. QED
    BY <2>1, LeastExists
<1>2. g[n] = Contribution(s, I, g, n) /\ h[n] = Contribution(s, I, h, n)
  <2>1. n \in 0 .. m /\ n \in 0 .. k
    OBVIOUS
  <2>2. QED
    BY <2>1, GrowsAt
<1>3. n # 0 => g[n - 1] = h[n - 1]
  BY <1>1
<1>4. QED
  BY <1>2, <1>3 DEF Contribution

LEMMA GrowingIs ==
  ASSUME NEW s, NEW I
  PROVE  \A n \in Nat : Growing(s, I)[n] = Contribution(s, I, Growing(s, I), n)
<1> DEFINE upto(n) == CHOOSE grown : Grows(s, I, n, grown)
           whole == [n \in Nat |-> upto(n)[n]]
<1>1. \A n \in Nat : Grows(s, I, n, upto(n))
  BY GrowsTo
<1>2. \A n \in Nat : upto(n)[n] = Contribution(s, I, upto(n), n)
  <2>1. \A n \in Nat : n \in 0 .. n
    OBVIOUS
  <2> HIDE DEF upto
  <2>2. QED
    BY <1>1, <2>1, GrowsAt
<1>3. ASSUME NEW n \in Nat, n # 0 PROVE upto(n)[n - 1] = upto(n - 1)[n - 1]
  <2>1. n - 1 \in 0 .. n /\ n - 1 \in Nat /\ n - 1 \in 0 .. n - 1
    BY <1>3
  <2>2. Grows(s, I, n, upto(n)) /\ Grows(s, I, n - 1, upto(n - 1))
    BY <1>1, <2>1
  <2> HIDE DEF upto
  <2>3. QED
    BY <2>1, <2>2, GrowsAlike
<1> HIDE DEF upto
<1>4. \A n \in Nat : whole[n] = Contribution(s, I, whole, n)
  <2> SUFFICES ASSUME NEW n \in Nat PROVE whole[n] = Contribution(s, I, whole, n)
    OBVIOUS
  <2>1. whole[n] = Contribution(s, I, upto(n), n)
    BY <1>2
  <2>2. n # 0 => whole[n - 1] = upto(n)[n - 1]
    BY <1>3
  <2>3. QED
    BY <2>1, <2>2 DEF Contribution
<1> HIDE DEF whole
<1>5. whole = [n \in Nat |-> Contribution(s, I, whole, n)]
  BY <1>4 DEF whole
<1>6. Growing(s, I) = CHOOSE grown : grown = [n \in Nat |-> Contribution(s, I, grown, n)]
  BY DEF Growing, Contribution
<1>7. Growing(s, I) = [n \in Nat |-> Contribution(s, I, Growing(s, I), n)]
  BY <1>5, <1>6
<1>8. QED
  BY <1>7

\* t is what the first n positions of s, a sequence over S, contribute.
Picks(t, s, I, n, S) ==
  /\ t \in Seq(S) /\ Len(t) <= n
  /\ \A x : (\E j \in 1 .. Len(t) : t[j] = x) <=> (\E i \in (1 .. n) \cap I : s[i] = x)
Contributed(s, I, S, n) == Picks(Growing(s, I)[n], s, I, n, S)

LEMMA ContributedTo ==
  ASSUME NEW S, NEW s \in Seq(S), NEW I, NEW m \in 0 .. Len(s)
  PROVE  Contributed(s, I, S, m)
<1> DEFINE Wrong == {k \in 0 .. Len(s) : ~Contributed(s, I, S, k)}
           g == Growing(s, I)
<1> SUFFICES ASSUME Wrong # {} PROVE FALSE
  OBVIOUS
<1>1. Len(s) \in Nat
  BY LenProperties
<1>2. PICK k \in Wrong : \A j \in Wrong : k <= j
  <2>1. Wrong \subseteq Nat
    BY <1>1
  <2> HIDE DEF Wrong
  <2>2. QED
    BY <2>1, LeastExists
<1>3. g[k] = Contribution(s, I, g, k)
  BY <1>1, GrowingIs
<1>4. k # 0
  <2>1. ASSUME k = 0 PROVE Contributed(s, I, S, k)
    BY <1>3, <2>1, EmptySeq DEF Contributed, Picks, Contribution
  <2>2. QED
    BY <2>1
<1>5. k - 1 \in 0 .. Len(s) /\ Contributed(s, I, S, k - 1)
  BY <1>1, <1>2, <1>4
<1> DEFINE t == g[k - 1]
<1>6. t \in Seq(S) /\ Len(t) \in Nat /\ Len(t) <= k - 1
  BY <1>5, LenProperties DEF Contributed, Picks
<1>7. CASE k \in I
  <2>1. g[k] = Append(t, s[k]) /\ s[k] \in S
    BY <1>3, <1>4, <1>7, ElementOfSeq DEF Contribution
  <2>2. /\ g[k] \in Seq(S) /\ Len(g[k]) = Len(t) + 1
        /\ \A j \in 1 .. Len(t) : g[k][j] = t[j]
        /\ g[k][Len(t) + 1] = s[k]
    BY <1>6, <2>1
  <2>3. \A x : (\E j \in 1 .. Len(g[k]) : g[k][j] = x) <=> (\E i \in (1 .. k) \cap I : s[i] = x)
    <3> TAKE x
    <3> HIDE DEF t, g
    <3>1. (\E j \in 1 .. Len(g[k]) : g[k][j] = x) <=> (\E j \in 1 .. Len(t) : t[j] = x) \/ s[k] = x
      <4>1. 1 .. Len(g[k]) = (1 .. Len(t)) \cup {Len(t) + 1}
        BY <1>6, <2>2
      <4>2. QED
        BY <2>2, <4>1
    <3>2. (\E j \in 1 .. Len(t) : t[j] = x) <=> (\E i \in (1 .. k - 1) \cap I : s[i] = x)
      BY <1>5 DEF Contributed, Picks, t, g
    <3>3. (1 .. k) \cap I = ((1 .. k - 1) \cap I) \cup {k}
      BY <1>1, <1>4, <1>7
    <3>4. (\E i \in (1 .. k) \cap I : s[i] = x) <=> (\E i \in (1 .. k - 1) \cap I : s[i] = x) \/ s[k] = x
      BY <3>3, Zenon
    <3>5. QED
      BY <3>1, <3>2, <3>4, Zenon
  <2>4. Contributed(s, I, S, k)
    BY <1>6, <2>2, <2>3 DEF Contributed, Picks
  <2>5. QED
    BY <2>4
<1>8. CASE k \notin I
  <2>1. g[k] = t
    BY <1>3, <1>4, <1>8 DEF Contribution
  <2>2. \A x : (\E i \in (1 .. k) \cap I : s[i] = x) <=> (\E i \in (1 .. k - 1) \cap I : s[i] = x)
    <3>1. (1 .. k) \cap I = (1 .. k - 1) \cap I
      BY <1>1, <1>4, <1>8
    <3>2. QED
      BY <3>1
  <2>3. Contributed(s, I, S, k)
    <3>1. /\ t \in Seq(S) /\ Len(t) <= k
          /\ \A x : (\E j \in 1 .. Len(t) : t[j] = x) <=> (\E i \in (1 .. k - 1) \cap I : s[i] = x)
      BY <1>1, <1>5, <1>6 DEF Contributed, Picks
    <3>2. /\ t \in Seq(S) /\ Len(t) <= k
          /\ \A x : (\E j \in 1 .. Len(t) : t[j] = x) <=> (\E i \in (1 .. k) \cap I : s[i] = x)
      BY <2>2, <3>1, Zenon
    <3>3. QED
      BY <2>1, <3>2 DEF Contributed, Picks
  <2>4. QED
    BY <2>3
<1>9. QED
  BY <1>7, <1>8

\* Picking positions of a sequence gives a sequence, no longer than it, that
\* holds exactly what stands at those positions.
THEOREM PickedIs ==
  ASSUME NEW S, NEW s \in Seq(S), NEW I
  PROVE  Picks(Picked(s, I), s, I, Len(s), S)
<1>1. Len(s) \in 0 .. Len(s)
  BY LenProperties
<1>2. Contributed(s, I, S, Len(s))
  BY <1>1, ContributedTo
<1>3. QED
  BY <1>2 DEF Contributed, Picked

(***************************************************************************)
(* Order.  A position contributes to the place that counts the positions   *)
(* up to it.                                                               *)
(***************************************************************************)
Place(I, i) == Cardinality((1 .. i) \cap I)

LEMMA PlaceStep ==
  ASSUME NEW I, NEW i \in Nat
  PROVE  /\ Place(I, i) \in Nat /\ Place(I, 0) = 0
         /\ i # 0 => Place(I, i) = IF i \in I THEN Place(I, i - 1) + 1 ELSE Place(I, i - 1)
<1>1. \A n \in Nat : IsFiniteSet((1 .. n) \cap I)
  <2> TAKE n \in Nat
  <2>1. IsFiniteSet(1 .. n)
    BY FS_Interval
  <2>2. QED
    BY <2>1, FS_Intersection
<1>2. Place(I, i) \in Nat
  BY <1>1, FS_CardinalityType DEF Place
<1>3. (1 .. 0) \cap I = {}
  OBVIOUS
<1>4. CASE i # 0 /\ i \in I
  <2> DEFINE before == (1 .. (i - 1)) \cap I
  <2>1. (1 .. i) \cap I = before \cup {i} /\ i \notin before
    BY <1>4
  <2>2. IsFiniteSet(before)
    BY <1>1, <1>4
  <2> HIDE DEF before
  <2>3. Cardinality(before \cup {i}) = Cardinality(before) + 1
    BY <2>1, <2>2, FS_AddElement
  <2>4. QED
    BY <1>2, <1>3, <1>4, <2>1, <2>3, FS_EmptySet DEF Place, before
<1>5. CASE i # 0 /\ i \notin I
  <2>1. (1 .. i) \cap I = (1 .. (i - 1)) \cap I
    BY <1>5
  <2>2. QED
    BY <1>2, <1>3, <1>5, <2>1, FS_EmptySet DEF Place
<1>6. QED
  BY <1>2, <1>3, <1>4, <1>5, FS_EmptySet DEF Place

LEMMA PlacesDiffer ==
  ASSUME NEW I, NEW i \in Nat, NEW k \in I, k \in Nat, i < k
  PROVE  Place(I, i) < Place(I, k)
<1> DEFINE low == (1 .. i) \cap I
           high == (1 .. k) \cap I
<1>1. low \subseteq high /\ k \in high /\ k \notin low
  OBVIOUS
<1>2. IsFiniteSet(high)
  <2>1. IsFiniteSet(1 .. k)
    BY FS_Interval
  <2>2. QED
    BY <2>1, FS_Intersection
<1>3. Place(I, i) = Cardinality(low) /\ Place(I, k) = Cardinality(high)
  BY DEF Place
<1> HIDE DEF low, high
<1>4. Cardinality(low) <= Cardinality(high) /\ Cardinality(low) # Cardinality(high)
  BY <1>1, <1>2, FS_Subset
<1>5. Cardinality(low) \in Nat /\ Cardinality(high) \in Nat
  BY <1>3, PlaceStep
<1>6. QED
  BY <1>3, <1>4, <1>5

InPlace(t, s, I, n) ==
  /\ Len(t) = Place(I, n)
  /\ \A i \in (1 .. n) \cap I : Place(I, i) \in 1 .. Len(t) /\ t[Place(I, i)] = s[i]
  /\ \A j \in 1 .. Len(t) : \E i \in (1 .. n) \cap I : Place(I, i) = j

LEMMA InPlaceTo ==
  ASSUME NEW S, NEW s \in Seq(S), NEW I, NEW m \in 0 .. Len(s)
  PROVE  InPlace(Growing(s, I)[m], s, I, m)
<1> DEFINE g == Growing(s, I)
           Wrong == {k \in 0 .. Len(s) : ~InPlace(g[k], s, I, k)}
<1> SUFFICES ASSUME Wrong # {} PROVE FALSE
  OBVIOUS
<1>1. Len(s) \in Nat
  BY LenProperties
<1>2. PICK k \in Wrong : \A j \in Wrong : k <= j
  <2>1. Wrong \subseteq Nat
    BY <1>1
  <2> HIDE DEF Wrong
  <2>2. QED
    BY <2>1, LeastExists
<1>3. k \in Nat /\ g[k] = Contribution(s, I, g, k)
  BY <1>1, GrowingIs
<1>4. k # 0
  <2>1. ASSUME k = 0 PROVE InPlace(g[k], s, I, k)
    <3>1. g[k] = <<>>
      BY <1>3, <2>1 DEF Contribution
    <3>2. Place(I, k) = 0
      BY <2>1, PlaceStep
    <3> HIDE DEF g
    <3>3. Len(<<>>) = 0 /\ 1 .. 0 = {}
      OBVIOUS
    <3>4. QED
      BY <2>1, <3>1, <3>2, <3>3 DEF InPlace
  <2>2. QED
    BY <2>1
<1>5. k - 1 \in 0 .. Len(s) /\ InPlace(g[k - 1], s, I, k - 1)
  BY <1>1, <1>2, <1>4
<1> DEFINE t == g[k - 1]
<1>6. t \in Seq(S) /\ Len(t) \in Nat /\ s[k] \in S
  BY <1>4, <1>5, ContributedTo, ElementOfSeq, LenProperties DEF Contributed, Picks
<1>7. InPlace(t, s, I, k - 1) /\ k - 1 \in Nat /\ ~InPlace(g[k], s, I, k)
  BY <1>3, <1>4, <1>5
<1>8. Place(I, k) = IF k \in I THEN Place(I, k - 1) + 1 ELSE Place(I, k - 1)
  BY <1>3, <1>4, PlaceStep
<1>9. g[k] = IF k \in I THEN Append(t, s[k]) ELSE t
  BY <1>3, <1>4 DEF Contribution
<1> HIDE DEF t, g, Wrong
<1>10. CASE k \in I
  <2>1. /\ Len(Append(t, s[k])) = Len(t) + 1
        /\ \A j \in 1 .. Len(t) : Append(t, s[k])[j] = t[j]
        /\ Append(t, s[k])[Len(t) + 1] = s[k]
    BY <1>6
  <2>2. Len(g[k]) = Place(I, k) /\ Place(I, k) = Len(t) + 1
    BY <1>7, <1>8, <1>9, <1>10, <2>1 DEF InPlace
  <2>3. ASSUME NEW i \in (1 .. k) \cap I PROVE Place(I, i) \in 1 .. Len(g[k]) /\ g[k][Place(I, i)] = s[i]
    <3>1. CASE i = k
      BY <1>6, <1>9, <1>10, <2>1, <2>2, <3>1
    <3>2. CASE i # k
      <4>1. i \in (1 .. (k - 1)) \cap I
        BY <1>3, <3>2
      <4>2. Place(I, i) \in 1 .. Len(t) /\ t[Place(I, i)] = s[i]
        BY <1>7, <4>1 DEF InPlace
      <4>3. QED
        BY <1>6, <1>9, <1>10, <2>1, <2>2, <4>2
    <3>3. QED
      BY <3>1, <3>2
  <2>4. ASSUME NEW j \in 1 .. Len(g[k]) PROVE \E i \in (1 .. k) \cap I : Place(I, i) = j
    <3>1. CASE j = Len(t) + 1
      BY <1>3, <1>4, <1>10, <2>2, <3>1
    <3>2. CASE j # Len(t) + 1
      <4>1. j \in 1 .. Len(t)
        BY <1>6, <2>2, <3>2
      <4>2. PICK i \in (1 .. (k - 1)) \cap I : Place(I, i) = j
        BY <1>7, <4>1 DEF InPlace
      <4>3. QED
        BY <1>3, <4>2
    <3>3. QED
      BY <3>1, <3>2
  <2>5. QED
    BY <1>7, <2>2, <2>3, <2>4 DEF InPlace
<1>11. CASE k \notin I
  <2>1. (1 .. k) \cap I = (1 .. (k - 1)) \cap I
    BY <1>3, <1>11
  <2>2. QED
    BY <1>7, <1>8, <1>9, <1>11, <2>1 DEF InPlace
<1>12. QED
  BY <1>10, <1>11

\* The picked elements keep their order: the element at a picked position stands
\* where the picked positions up to it are counted, and nothing else is there.
THEOREM PickedInPlace ==
  ASSUME NEW S, NEW s \in Seq(S), NEW I
  PROVE  InPlace(Picked(s, I), s, I, Len(s))
<1>1. Len(s) \in 0 .. Len(s)
  BY LenProperties
<1>2. QED
  BY <1>1, InPlaceTo DEF Picked

(***************************************************************************)
(* Growth.  Of a sequence that begins with as many elements, at positions  *)
(* that begin alike, the same is picked at first.                          *)
(***************************************************************************)
Beside(p, q, s, t, I, n) ==
  /\ Len(p) <= Len(q)
  /\ \A j \in 1 .. Len(p) : \E i \in (1 .. n) \cap I : Place(I, i) = j /\ p[j] = s[i] /\ q[j] = t[i]

LEMMA PlacesAlike ==
  ASSUME NEW n \in Nat, NEW m \in Nat, n <= m, NEW I, NEW J, (1 .. n) \cap I = (1 .. n) \cap J
  PROVE  /\ \A i \in 1 .. n : Place(I, i) = Place(J, i)
         /\ Place(I, n) = Place(J, n)
         /\ Place(J, n) <= Place(J, m)
         /\ (\A i \in (1 .. m) \cap J : i <= n) => Place(J, n) = Place(J, m)
<1>1. ASSUME NEW i \in 0 .. n PROVE Place(I, i) = Place(J, i)
  <2>1. (1 .. i) \cap I = (1 .. i) \cap J
    OBVIOUS
  <2>2. QED
    BY <2>1 DEF Place
<1>2. Place(J, n) <= Place(J, m)
  <2>1. IsFiniteSet((1 .. m) \cap J)
    <3>1. IsFiniteSet(1 .. m)
      BY FS_Interval
    <3>2. QED
      BY <3>1, FS_Intersection
  <2>2. (1 .. n) \cap J \in SUBSET ((1 .. m) \cap J)
    OBVIOUS
  <2>3. QED
    BY <2>1, <2>2, FS_Subset DEF Place
<1>3. ASSUME \A i \in (1 .. m) \cap J : i <= n PROVE Place(J, n) = Place(J, m)
  <2>1. (1 .. m) \cap J = (1 .. n) \cap J
    BY <1>3
  <2>2. QED
    BY <2>1 DEF Place
<1>4. QED
  BY <1>1, <1>2, <1>3

PicksGrow(s, t, I, J) ==
  /\ Beside(Picked(s, I), Picked(t, J), s, t, I, Len(s))
  /\ (\A i \in (1 .. Len(t)) \cap J : i <= Len(s)) => Len(Picked(s, I)) = Len(Picked(t, J))

\* What is picked from a sequence that grows only grows.
THEOREM PickedGrows ==
  ASSUME NEW S, NEW s \in Seq(S), NEW T, NEW t \in Seq(T), Len(s) <= Len(t), NEW I, NEW J,
         (1 .. Len(s)) \cap I = (1 .. Len(s)) \cap J
  PROVE  PicksGrow(s, t, I, J)
<1> DEFINE p == Picked(s, I)
           q == Picked(t, J)
           n == Len(s)
           m == Len(t)
<1>1. n \in Nat /\ m \in Nat
  BY LenProperties
<1>2. InPlace(p, s, I, n) /\ InPlace(q, t, J, m)
  BY PickedInPlace
<1> HIDE DEF p, q
<1>3. Len(p) = Place(J, n) /\ Len(q) = Place(J, m) /\ Place(J, n) <= Place(J, m)
  BY <1>1, <1>2, PlacesAlike DEF InPlace
<1>4. ASSUME NEW j \in 1 .. Len(p)
      PROVE  \E i \in (1 .. n) \cap I : Place(I, i) = j /\ p[j] = s[i] /\ q[j] = t[i]
  <2>1. PICK i \in (1 .. n) \cap I : Place(I, i) = j
    BY <1>2 DEF InPlace
  <2>2. p[j] = s[i]
    BY <1>2, <2>1 DEF InPlace
  <2>3. Place(J, i) = j
    BY <1>1, <2>1, PlacesAlike
  <2>4. i \in (1 .. m) \cap J
    BY <1>1, <2>1
  <2>5. q[j] = t[i]
    BY <1>2, <2>3, <2>4 DEF InPlace
  <2>6. QED
    BY <2>1, <2>2, <2>5
<1>5. (\A i \in (1 .. m) \cap J : i <= n) => Place(J, n) = Place(J, m)
  BY <1>1, PlacesAlike
<1>6. QED
  BY <1>3, <1>4, <1>5 DEF PicksGrow, Beside, p, q

(***************************************************************************)
(* Recursive functions.                                                    *)
(***************************************************************************)

\* F gives the value at a point from the values at points of smaller measure.
Recursive(P, D, F, M, b) ==
  /\ D # {} /\ F \in [P \X [P -> D] -> D]
  /\ M \in [P -> Nat] /\ b \in Nat /\ \A p \in P : M[p] < b
  /\ \A p \in P : \A f, g \in [P -> D] :
        (\A q \in P : M[q] < M[p] => f[q] = g[q]) => F[<<p, f>>] = F[<<p, g>>]

\* Such a recursion has a solution.
LEMMA RecursionExists ==
  ASSUME NEW P, NEW D, NEW F, NEW M, NEW b, Recursive(P, D, F, M, b)
  PROVE  \E f \in [P -> D] : \A p \in P : f[p] = F[<<p, f>>]
<1>0. \A i, j \in Nat : i < j => i = j - 1 \/ i < j - 1
  OBVIOUS
<1> USE DEF Recursive
<1> DEFINE Upto(k, f) == \A p \in P : M[p] < k => f[p] = F[<<p, f>>]
           Stuck == {k \in Nat : ~\E f \in [P -> D] : Upto(k, f)}
<1>1. Stuck = {}
  <2> SUFFICES ASSUME Stuck # {} PROVE FALSE
    OBVIOUS
  <2>1. PICK k \in Stuck : \A j \in Stuck : k <= j
    <3>1. Stuck \subseteq Nat
      OBVIOUS
    <3> HIDE DEF Stuck
    <3>2. QED
      BY <3>1, LeastExists
  <2>2. k # 0
    <3>1. PICK d \in D : TRUE
      OBVIOUS
    <3> DEFINE f == [p \in P |-> d]
    <3>2. f \in [P -> D] /\ Upto(0, f)
      OBVIOUS
    <3>3. QED
      BY <3>2
  <2>3. k - 1 \in Nat \ Stuck
    <3>1. k \in Nat /\ k - 1 \in Nat
      BY <2>2
    <3> HIDE DEF Stuck
    <3>2. QED
      BY <2>1, <3>1
  <2>4. PICK f \in [P -> D] : Upto(k - 1, f)
    BY <2>3
  <2> DEFINE g == [p \in P |-> IF M[p] = k - 1 THEN F[<<p, f>>] ELSE f[p]]
  <2>5. g \in [P -> D]
    OBVIOUS
  <2>6. ASSUME NEW p \in P, M[p] < k PROVE g[p] = F[<<p, g>>]
    <3>1. \A q \in P : M[q] < M[p] => f[q] = g[q]
      BY <2>1, <2>2, <2>6
    <3>2. F[<<p, f>>] = F[<<p, g>>]
      <4> HIDE DEF g
      <4>1. QED
        BY <3>1, <2>5
    <3>3. g[p] = F[<<p, f>>]
      <4>1. g[p] = IF M[p] = k - 1 THEN F[<<p, f>>] ELSE f[p]
        OBVIOUS
      <4>2. M[p] = k - 1 \/ M[p] < k - 1
        <5>1. M[p] \in Nat /\ k \in Nat
          BY <2>1
        <5>2. QED
          BY <1>0, <2>6, <5>1
      <4>3. M[p] < k - 1 => f[p] = F[<<p, f>>]
        BY <2>4
      <4> HIDE DEF g
      <4>4. QED
        BY <4>1, <4>2, <4>3
    <3>4. QED
      BY <3>2, <3>3
  <2>7. Upto(k, g)
    BY <2>6
  <2> HIDE DEF g, Upto
  <2>8. QED
    BY <2>1, <2>5, <2>7
<1>2. PICK f \in [P -> D] : Upto(b, f)
  BY <1>1
<1>3. QED
  BY <1>2

-----------------------------------------------------------------------------
(* Windows and ranges.                                                     *)

\* For every turn, context and length: show's window around a cited turn holds that
\* turn, the turns within the context of it and no other, and only a turn that is
\* there has one (services/lookup/window.rs, citation_window).
THEOREM WindowCorrect ==
  ASSUME NEW turn \in Nat, NEW context \in Nat, NEW total \in Nat
  PROVE  WindowIsExact(turn, context, total)
<1> DEFINE window == CitationWindow(turn, context, total)
<1>1. window.ok <=> turn \in 1 .. total
  BY DEF CitationWindow, Error
<1>2. ASSUME turn \in 1 .. total
      PROVE  window.from .. window.to =
                {t \in 1 .. total : t - turn <= context /\ turn - t <= context}
  BY <1>2 DEF CitationWindow, Larger, Smaller
<1>3. QED
  BY <1>1, <1>2 DEF WindowIsExact

\* For every length and every bounds of --turn-range, given or not: the range that
\* export slices out is what its bounds leave of the conversation, and it is refused
\* exactly when that is nothing or a bound names turn 0 (commands/export/range.rs,
\* parse_turn_range).
THEOREM RangeCorrect ==
  ASSUME NEW total \in Nat, NEW from \in Nat \cup {-1}, NEW to \in Nat \cup {-1}
  PROVE  RangeIsExact([from |-> from, to |-> to], total)
<1> DEFINE spec == [from |-> from, to |-> to]
           range == TurnRange(spec, total)
           first == IF from = -1 THEN 1 ELSE from
           last == Smaller(total, IF to = -1 THEN total ELSE to)
           meant == {t \in 1 .. total : (from = -1 \/ t >= from) /\ (to = -1 \/ t <= to)}
<1>1. range = IF total = 0 \/ from = 0 \/ to = 0 \/ first > total \/ last < first
              THEN Error ELSE [ok |-> TRUE, from |-> first, to |-> last]
  BY DEF TurnRange
<1>2. first \in Nat /\ last \in Nat
  BY DEF Smaller
<1>3. from # 0 => meant = first .. last
  BY DEF Smaller
<1>4. from # 0 /\ to # 0 => (meant # {} <=> ~(total = 0 \/ first > total \/ last < first))
  <2>1. meant # {} => first <= last /\ last <= total
    BY <1>2 DEF Smaller
  <2>2. from # 0 /\ first <= last => meant # {}
    BY <1>2, <1>3
  <2>3. last <= total
    BY DEF Smaller
  <2>4. from # 0 => first >= 1
    OBVIOUS
  <2> HIDE DEF first, last, meant
  <2>5. QED
    BY <1>2, <2>1, <2>2, <2>3, <2>4
<1> HIDE DEF first, last
<1>5. range.ok <=> meant # {} /\ from # 0 /\ to # 0
  BY <1>1, <1>4 DEF Error
<1>6. range.ok => range.from .. range.to = meant
  BY <1>1, <1>3 DEF Error
<1>7. QED
  BY <1>5, <1>6 DEF RangeIsExact
-----------------------------------------------------------------------------
(* The table of common subsequences and the walk along it.                 *)

Ahead(left, right, p) == (Len(left) + 1 - p[1]) + (Len(right) + 1 - p[2])
Right(p) == <<p[1], p[2] + 1>>
Down(p) == <<p[1] + 1, p[2]>>
Diagonal(p) == <<p[1] + 1, p[2] + 1>>

\* From a corner one goes to corners that have less ahead.
LEMMA CornersAre ==
  ASSUME NEW V, NEW left \in Seq(V), NEW right \in Seq(V), NEW p \in Corners(left, right)
  PROVE  /\ Len(left) \in Nat /\ Len(right) \in Nat
         /\ p = <<p[1], p[2]>> /\ p[1] \in 1 .. Len(left) + 1 /\ p[2] \in 1 .. Len(right) + 1
         /\ Ahead(left, right, p) \in 0 .. Len(left) + Len(right)
         /\ p[1] <= Len(left) =>
                /\ Down(p) \in Corners(left, right)
                /\ Ahead(left, right, Down(p)) < Ahead(left, right, p)
         /\ p[2] <= Len(right) =>
                /\ Right(p) \in Corners(left, right)
                /\ Ahead(left, right, Right(p)) < Ahead(left, right, p)
         /\ p[1] <= Len(left) /\ p[2] <= Len(right) =>
                /\ Diagonal(p) \in Corners(left, right)
                /\ Ahead(left, right, Diagonal(p)) < Ahead(left, right, p)
<1>1. Len(left) \in Nat /\ Len(right) \in Nat
  BY LenProperties
<1>2. p = <<p[1], p[2]>> /\ p[1] \in 1 .. Len(left) + 1 /\ p[2] \in 1 .. Len(right) + 1
  BY <1>1 DEF Corners
<1> DEFINE n == Len(left)
           m == Len(right)
           r == p[1]
           c == p[2]
<1>3. Ahead(left, right, p) = (n + 1 - r) + (m + 1 - c)
  BY DEF Ahead
<1>4. /\ Ahead(left, right, Down(p)) = (n + 1 - (r + 1)) + (m + 1 - c)
      /\ Ahead(left, right, Right(p)) = (n + 1 - r) + (m + 1 - (c + 1))
      /\ Ahead(left, right, Diagonal(p)) = (n + 1 - (r + 1)) + (m + 1 - (c + 1))
  BY DEF Ahead, Down, Right, Diagonal
<1>5. /\ r + 1 \in 1 .. n + 1 => Down(p) \in Corners(left, right)
      /\ c + 1 \in 1 .. m + 1 => Right(p) \in Corners(left, right)
      /\ r + 1 \in 1 .. n + 1 /\ c + 1 \in 1 .. m + 1 => Diagonal(p) \in Corners(left, right)
  BY <1>2 DEF Corners, Down, Right, Diagonal
<1> HIDE DEF n, m, r, c
<1>6. n \in Nat /\ m \in Nat /\ r \in 1 .. n + 1 /\ c \in 1 .. m + 1
  BY <1>1, <1>2 DEF n, m, r, c
<1>7. /\ Ahead(left, right, p) \in 0 .. n + m
      /\ r <= n => r + 1 \in 1 .. n + 1
      /\ c <= m => c + 1 \in 1 .. m + 1
      /\ Ahead(left, right, Down(p)) < Ahead(left, right, p)
      /\ Ahead(left, right, Right(p)) < Ahead(left, right, p)
      /\ Ahead(left, right, Diagonal(p)) < Ahead(left, right, p)
  BY <1>3, <1>4, <1>6
<1>8. QED
  BY <1>1, <1>2, <1>5, <1>7 DEF n, m, r, c

\* Of any corners one has the least ahead.
LEMMA LeastAhead ==
  ASSUME NEW V, NEW left \in Seq(V), NEW right \in Seq(V),
         NEW Wrong, Wrong \subseteq Corners(left, right), Wrong # {}
  PROVE  \E p \in Wrong : \A q \in Corners(left, right) :
            Ahead(left, right, q) < Ahead(left, right, p) => q \notin Wrong
<1> DEFINE T == {Ahead(left, right, p) : p \in Wrong}
<1>1. T \subseteq Nat /\ T # {}
  BY CornersAre
<1>2. PICK k \in T : \A j \in T : k <= j
  <2> HIDE DEF T
  <2>1. QED
    BY <1>1, LeastExists
<1>3. PICK p \in Wrong : k = Ahead(left, right, p)
  BY <1>2
<1>4. \A q \in Wrong : k <= Ahead(left, right, q) /\ Ahead(left, right, q) \in Nat /\ k \in Nat
  BY <1>1, <1>2
<1> HIDE DEF T
<1>5. QED
  BY <1>3, <1>4

CommonAt(left, right, common, p) ==
  IF p[1] > Len(left) \/ p[2] > Len(right) THEN 0
  ELSE IF left[p[1]] = right[p[2]] THEN 1 + common[Diagonal(p)]
  ELSE Larger(common[Down(p)], common[Right(p)])

LEMMA CommonIs ==
  ASSUME NEW V, NEW left \in Seq(V), NEW right \in Seq(V), NEW p \in Corners(left, right)
  PROVE  /\ Common(left, right)[p] \in Nat
         /\ Common(left, right)[p] = CommonAt(left, right, Common(left, right), p)
<1> DEFINE P == Corners(left, right)
           F == [x \in P \X [P -> Nat] |-> CommonAt(left, right, x[2], x[1])]
           M == [q \in P |-> Ahead(left, right, q)]
           b == Len(left) + Len(right) + 1
<1>1. \A q \in P : \A f \in [P -> Nat] :
        CommonAt(left, right, f, q) \in Nat /\ F[<<q, f>>] = CommonAt(left, right, f, q)
  <2> SUFFICES ASSUME NEW q \in P, NEW f \in [P -> Nat]
               PROVE  CommonAt(left, right, f, q) \in Nat
    OBVIOUS
  <2>1. /\ Len(left) \in Nat /\ Len(right) \in Nat /\ q[1] \in Nat /\ q[2] \in Nat
        /\ q[1] <= Len(left) => Down(q) \in P
        /\ q[2] <= Len(right) => Right(q) \in P
        /\ q[1] <= Len(left) /\ q[2] <= Len(right) => Diagonal(q) \in P
    BY CornersAre
  <2> HIDE DEF P
  <2>2. QED
    BY <2>1 DEF CommonAt, Larger
<1>2. F \in [P \X [P -> Nat] -> Nat]
  <2>1. \A x \in P \X [P -> Nat] : CommonAt(left, right, x[2], x[1]) \in Nat
    BY <1>1
  <2>2. QED
    BY <2>1
<1>3. M \in [P -> Nat] /\ b \in Nat /\ \A q \in P : M[q] < b /\ M[q] = Ahead(left, right, q)
  BY CornersAre
<1>4. \A q \in P : \A f, g \in [P -> Nat] :
        (\A r \in P : M[r] < M[q] => f[r] = g[r]) => F[<<q, f>>] = F[<<q, g>>]
  <2> SUFFICES ASSUME NEW q \in P, NEW f \in [P -> Nat], NEW g \in [P -> Nat],
                      \A r \in P : M[r] < M[q] => f[r] = g[r]
               PROVE  F[<<q, f>>] = F[<<q, g>>]
    OBVIOUS
  <2>1. \A r \in P : Ahead(left, right, r) < Ahead(left, right, q) => f[r] = g[r]
    BY <1>3
  <2>2. CommonAt(left, right, f, q) = CommonAt(left, right, g, q)
    <3>1. /\ Len(left) \in Nat /\ Len(right) \in Nat /\ q[1] \in Nat /\ q[2] \in Nat
          /\ q[1] <= Len(left) => f[Down(q)] = g[Down(q)]
          /\ q[2] <= Len(right) => f[Right(q)] = g[Right(q)]
          /\ q[1] <= Len(left) /\ q[2] <= Len(right) => f[Diagonal(q)] = g[Diagonal(q)]
      BY <2>1, CornersAre
    <3>2. QED
      BY <3>1, SMTT(30) DEF CommonAt
  <2> HIDE DEF F
  <2>3. QED
    BY <1>1, <2>2
<1> HIDE DEF F, M, b
<1>5. PICK f \in [P -> Nat] : \A q \in P : f[q] = F[<<q, f>>]
  <2>1. Nat # {}
    OBVIOUS
  <2>2. M \in [P -> Nat] /\ b \in Nat
    BY <1>3
  <2>3. \A q \in P : M[q] < b
    BY <1>3
  <2> HIDE DEF P
  <2>4. Recursive(P, Nat, F, M, b)
    BY <1>2, <1>4, <2>1, <2>2, <2>3 DEF Recursive
  <2>5. QED
    BY <2>4, RecursionExists
<1>6. f = [q \in P |-> CommonAt(left, right, f, q)]
  BY <1>1, <1>5
<1>7. Common(left, right) = CHOOSE common : common = [q \in P |-> CommonAt(left, right, common, q)]
  BY DEF Common, CommonAt, Diagonal, Down, Right
<1>8. Common(left, right) = [q \in P |-> CommonAt(left, right, Common(left, right), q)]
  BY <1>6, <1>7
<1>9. \A q \in P : Common(left, right)[q] \in Nat
  <2> DEFINE Wrong == {q \in P : Common(left, right)[q] \notin Nat}
  <2> SUFFICES ASSUME Wrong # {} PROVE FALSE
    OBVIOUS
  <2>1. PICK q \in Wrong : \A r \in P :
          Ahead(left, right, r) < Ahead(left, right, q) => r \notin Wrong
    <3>1. Wrong \subseteq P
      OBVIOUS
    <3> HIDE DEF Wrong
    <3>2. QED
      BY <3>1, LeastAhead
  <2>2. CommonAt(left, right, Common(left, right), q) \in Nat
    <3>1. /\ Len(left) \in Nat /\ Len(right) \in Nat /\ q[1] \in Nat /\ q[2] \in Nat
          /\ q[1] <= Len(left) => Common(left, right)[Down(q)] \in Nat
          /\ q[2] <= Len(right) => Common(left, right)[Right(q)] \in Nat
          /\ q[1] <= Len(left) /\ q[2] <= Len(right) => Common(left, right)[Diagonal(q)] \in Nat
      <4>1. /\ q \in P /\ Len(left) \in Nat /\ Len(right) \in Nat /\ q[1] \in Nat /\ q[2] \in Nat
            /\ q[1] <= Len(left) => Down(q) \in P /\ Ahead(left, right, Down(q)) < Ahead(left, right, q)
            /\ q[2] <= Len(right) => Right(q) \in P /\ Ahead(left, right, Right(q)) < Ahead(left, right, q)
            /\ q[1] <= Len(left) /\ q[2] <= Len(right) =>
                  Diagonal(q) \in P /\ Ahead(left, right, Diagonal(q)) < Ahead(left, right, q)
        BY CornersAre
      <4> HIDE DEF P
      <4>2. QED
        BY <2>1, <4>1
    <3>2. QED
      BY <3>1 DEF CommonAt, Larger
  <2>3. QED
    BY <1>8, <2>1, <2>2
<1>10. QED
  BY <1>8, <1>9
Ended(left, right, p) == p[1] > Len(left) /\ p[2] > Len(right)
Pairs(left, right, p) == p[1] <= Len(left) /\ p[2] <= Len(right) /\ left[p[1]] = right[p[2]]
Deletes(left, right, p) ==
  /\ p[1] <= Len(left)
  /\ p[2] > Len(right) \/ Common(left, right)[Down(p)] >= Common(left, right)[Right(p)]
EditsAt(left, right, edits, p) ==
  IF Ended(left, right, p) THEN <<>>
  ELSE IF Pairs(left, right, p) THEN <<Op("same", p[1], p[2])>> \o edits[Diagonal(p)]
  ELSE IF Deletes(left, right, p) THEN <<Op("delete", p[1], 0)>> \o edits[Down(p)]
  ELSE <<Op("insert", 0, p[2])>> \o edits[Right(p)]

Ops == [kind : {"same", "delete", "insert"}, left : Nat, right : Nat]

\* Where each kind of edit leads.
LEMMA EditsLead ==
  ASSUME NEW V, NEW left \in Seq(V), NEW right \in Seq(V), NEW p \in Corners(left, right)
  PROVE  /\ Pairs(left, right, p) => p[1] <= Len(left) /\ p[2] <= Len(right)
         /\ Deletes(left, right, p) => p[1] <= Len(left)
         /\ ~Ended(left, right, p) /\ ~Pairs(left, right, p) /\ ~Deletes(left, right, p) => p[2] <= Len(right)
<1>1. Len(left) \in Nat /\ Len(right) \in Nat /\ p[1] \in Nat /\ p[2] \in Nat
  BY CornersAre
<1>2. QED
  BY <1>1 DEF Ended, Pairs, Deletes

\* Either edit at a corner, and what follows it, is decided where there is less ahead.
LEMMA EditsNext ==
  ASSUME NEW V, NEW left \in Seq(V), NEW right \in Seq(V), NEW p \in Corners(left, right)
  PROVE  /\ Op("same", p[1], p[2]) \in Ops /\ Op("delete", p[1], 0) \in Ops /\ Op("insert", 0, p[2]) \in Ops
         /\ Pairs(left, right, p) =>
                Diagonal(p) \in Corners(left, right) /\ Ahead(left, right, Diagonal(p)) < Ahead(left, right, p)
         /\ Deletes(left, right, p) =>
                Down(p) \in Corners(left, right) /\ Ahead(left, right, Down(p)) < Ahead(left, right, p)
         /\ ~Ended(left, right, p) /\ ~Pairs(left, right, p) /\ ~Deletes(left, right, p) =>
                Right(p) \in Corners(left, right) /\ Ahead(left, right, Right(p)) < Ahead(left, right, p)
<1>1. p[1] \in Nat /\ p[2] \in Nat /\ Ahead(left, right, p) \in Nat
  BY CornersAre
<1>2. Op("same", p[1], p[2]) \in Ops /\ Op("delete", p[1], 0) \in Ops /\ Op("insert", 0, p[2]) \in Ops
  BY <1>1 DEF Op, Ops
<1>3. QED
  BY <1>1, <1>2, CornersAre, EditsLead

LEMMA EditsAre ==
  ASSUME NEW V, NEW left \in Seq(V), NEW right \in Seq(V), NEW p \in Corners(left, right)
  PROVE  /\ Edits(left, right)[p] \in Seq(Ops)
         /\ Edits(left, right)[p] = EditsAt(left, right, Edits(left, right), p)
<1> DEFINE P == Corners(left, right)
           D == Seq(Ops)
           F == [x \in P \X [P -> D] |-> EditsAt(left, right, x[2], x[1])]
           M == [q \in P |-> Ahead(left, right, q)]
           b == Len(left) + Len(right) + 1
<1>1. \A op \in Ops : \A s \in D : <<op>> \o s \in D
  BY ConcatProperties
<1>2. \A q \in P : \A f : (\A r \in P : Ahead(left, right, r) < Ahead(left, right, q) => f[r] \in D)
                       => EditsAt(left, right, f, q) \in D
  <2> SUFFICES ASSUME NEW q \in P, NEW f,
                      \A r \in P : Ahead(left, right, r) < Ahead(left, right, q) => f[r] \in D
               PROVE  EditsAt(left, right, f, q) \in D
    OBVIOUS
  <2>1. <<>> \in D
    BY EmptySeq
  <2> HIDE DEF D
  <2>2. QED
    BY <1>1, <2>1, EditsNext DEF EditsAt
<1>3. \A q \in P : \A f \in [P -> D] :
        EditsAt(left, right, f, q) \in D /\ F[<<q, f>>] = EditsAt(left, right, f, q)
  <2> HIDE DEF D
  <2>1. QED
    BY <1>2
<1>4. F \in [P \X [P -> D] -> D]
  <2>1. \A x \in P \X [P -> D] : EditsAt(left, right, x[2], x[1]) \in D
    <3> HIDE DEF D
    <3>1. QED
      BY <1>3
  <2> HIDE DEF D
  <2>2. QED
    BY <2>1
<1>5. M \in [P -> Nat] /\ b \in Nat /\ \A q \in P : M[q] < b /\ M[q] = Ahead(left, right, q)
  BY CornersAre
<1>6. \A q \in P : \A f, g \in [P -> D] :
        (\A r \in P : M[r] < M[q] => f[r] = g[r]) => F[<<q, f>>] = F[<<q, g>>]
  <2> HIDE DEF D
  <2> SUFFICES ASSUME NEW q \in P, NEW f \in [P -> D], NEW g \in [P -> D],
                      \A r \in P : M[r] < M[q] => f[r] = g[r]
               PROVE  F[<<q, f>>] = F[<<q, g>>]
    OBVIOUS
  <2>1. \A r \in P : Ahead(left, right, r) < Ahead(left, right, q) => f[r] = g[r]
    BY <1>5
  <2>2. EditsAt(left, right, f, q) = EditsAt(left, right, g, q)
    BY <2>1, EditsNext DEF EditsAt
  <2> HIDE DEF F
  <2>3. QED
    BY <1>3, <2>2
<1>7. PICK f \in [P -> D] : \A q \in P : f[q] = F[<<q, f>>]
  <2>1. D # {}
    BY EmptySeq
  <2>2. M \in [P -> Nat] /\ b \in Nat
    BY <1>5
  <2>3. \A q \in P : M[q] < b
    BY <1>5
  <2> HIDE DEF P, F, M, b, D
  <2>4. Recursive(P, D, F, M, b)
    BY <1>4, <1>6, <2>1, <2>2, <2>3 DEF Recursive
  <2>5. QED
    BY <2>4, RecursionExists
<1>8. f = [q \in P |-> EditsAt(left, right, f, q)]
  <2> HIDE DEF D, F
  <2>1. QED
    BY <1>3, <1>7
<1>9. Edits(left, right) = CHOOSE edits : edits = [q \in P |-> EditsAt(left, right, edits, q)]
  BY DEF Edits, EditsAt, Ended, Pairs, Deletes, Diagonal, Down, Right
<1>10. Edits(left, right) = [q \in P |-> EditsAt(left, right, Edits(left, right), q)]
  BY <1>8, <1>9
<1>11. \A q \in P : Edits(left, right)[q] \in D
  <2> DEFINE Wrong == {q \in P : Edits(left, right)[q] \notin D}
  <2> SUFFICES ASSUME Wrong # {} PROVE FALSE
    OBVIOUS
  <2> HIDE DEF D
  <2>1. PICK q \in Wrong : \A r \in P :
          Ahead(left, right, r) < Ahead(left, right, q) => r \notin Wrong
    <3>1. Wrong \subseteq P
      OBVIOUS
    <3> HIDE DEF Wrong
    <3>2. QED
      BY <3>1, LeastAhead
  <2>2. EditsAt(left, right, Edits(left, right), q) \in D
    BY <1>2, <2>1
  <2>3. QED
    BY <1>10, <2>1, <2>2
<1>12. QED
  BY <1>10, <1>11
\* What an edit is worth.
LEMMA CommonSteps ==
  ASSUME NEW V, NEW left \in Seq(V), NEW right \in Seq(V), NEW p \in Corners(left, right)
  PROVE  LET common == Common(left, right)
         IN  common[p] = IF Ended(left, right, p) THEN 0
                         ELSE IF Pairs(left, right, p) THEN common[Diagonal(p)] + 1
                         ELSE IF Deletes(left, right, p) THEN common[Down(p)]
                         ELSE common[Right(p)]
<1> DEFINE common == Common(left, right)
           n == Len(left)
           m == Len(right)
<1>1. n \in Nat /\ m \in Nat /\ p[1] \in Nat /\ p[2] \in Nat
  BY CornersAre
<1>2. common[p] \in Nat /\ common[p] = CommonAt(left, right, common, p)
  BY CommonIs
<1>3. CASE p[1] <= n /\ p[2] <= m
  <2>1. common[Diagonal(p)] \in Nat /\ common[Down(p)] \in Nat /\ common[Right(p)] \in Nat
    BY <1>3, CornersAre, CommonIs
  <2> HIDE DEF common
  <2>2. QED
    BY <1>1, <1>2, <1>3, <2>1 DEF CommonAt, Larger, Ended, Pairs, Deletes, common
<1>4. CASE p[1] <= n /\ p[2] > m
  <2>1. Down(p) \in Corners(left, right) /\ Down(p)[2] = p[2]
    BY <1>4, CornersAre DEF Down
  <2>2. common[Down(p)] = 0
    BY <1>4, <2>1, CommonIs DEF CommonAt
  <2> HIDE DEF common
  <2>3. QED
    BY <1>1, <1>2, <1>4, <2>2 DEF CommonAt, Ended, Pairs, Deletes, common
<1>5. CASE p[1] > n /\ p[2] <= m
  <2>1. Right(p) \in Corners(left, right) /\ Right(p)[1] = p[1]
    BY <1>5, CornersAre DEF Right
  <2>2. common[Right(p)] = 0
    BY <1>5, <2>1, CommonIs DEF CommonAt
  <2> HIDE DEF common
  <2>3. QED
    BY <1>1, <1>2, <1>5, <2>2 DEF CommonAt, Ended, Pairs, Deletes, common
<1>6. CASE p[1] > n /\ p[2] > m
  BY <1>2, <1>6 DEF CommonAt, Ended
<1>7. QED
  BY <1>1, <1>3, <1>4, <1>5, <1>6

\* t is s with x in front of it.
Prepends(t, x, s, S) ==
  /\ t \in Seq(S) /\ s \in Seq(S) /\ Len(t) = Len(s) + 1
  /\ t[1] = x /\ \A i \in 1 .. Len(s) : t[i + 1] = s[i]

LEMMA PrependIs ==
  ASSUME NEW S, NEW x \in S, NEW s \in Seq(S), NEW t, t = <<x>> \o s
  PROVE  Prepends(t, x, s, S)
<1>1. Len(s) \in Nat /\ <<x>> \in Seq(S) /\ Len(<<x>>) = 1
  BY LenProperties
<1>2. /\ t \in Seq(S) /\ Len(t) = 1 + Len(s)
      /\ \A i \in 1 .. 1 + Len(s) : t[i] = IF i <= 1 THEN <<x>>[i] ELSE s[i - 1]
  BY <1>1, ConcatProperties
<1>3. /\ 1 \in 1 .. 1 + Len(s)
      /\ \A i \in 1 .. Len(s) : i + 1 \in 1 .. 1 + Len(s) /\ ~(i + 1 <= 1) /\ (i + 1) - 1 = i
  BY <1>1
<1>4. QED
  BY <1>1, <1>2, <1>3 DEF Prepends

LEMMA PrependsAppend ==
  ASSUME NEW S, NEW x, NEW t, NEW s, NEW e \in S, Prepends(t, x, s, S)
  PROVE  Prepends(Append(t, e), x, Append(s, e), S)
<1> DEFINE u == Append(t, e)
           v == Append(s, e)
<1>1. t \in Seq(S) /\ s \in Seq(S) /\ Len(s) \in Nat /\ Len(t) = Len(s) + 1
  BY LenProperties DEF Prepends
<1>2. /\ u \in Seq(S) /\ Len(u) = Len(t) + 1 /\ u[Len(t) + 1] = e
      /\ \A i \in 1 .. Len(t) : u[i] = t[i]
  BY <1>1, AppendProperties
<1>3. /\ v \in Seq(S) /\ Len(v) = Len(s) + 1 /\ v[Len(s) + 1] = e
      /\ \A i \in 1 .. Len(s) : v[i] = s[i]
  BY <1>1, AppendProperties
<1> HIDE DEF u, v
<1>4. u[1] = x
  BY <1>1, <1>2 DEF Prepends
<1>5. \A i \in 1 .. Len(s) + 1 : u[i + 1] = v[i]
  <2> SUFFICES ASSUME NEW i \in 1 .. Len(s) + 1 PROVE u[i + 1] = v[i]
    OBVIOUS
  <2>1. CASE i = Len(s) + 1
    BY <1>1, <1>2, <1>3, <2>1
  <2>2. CASE i # Len(s) + 1
    <3>1. i \in 1 .. Len(s) /\ i + 1 \in 1 .. Len(t)
      BY <1>1, <2>2
    <3>2. QED
      BY <1>2, <1>3, <3>1 DEF Prepends
  <2>3. QED
    BY <2>1, <2>2
<1>6. Prepends(u, x, v, S)
  BY <1>1, <1>2, <1>3, <1>4, <1>5 DEF Prepends
<1>7. QED
  BY <1>6 DEF u, v

\* Picking from a list with one more element in front.
LEMMA PickedPrepends ==
  ASSUME NEW S, NEW x \in S, NEW s, NEW t, Prepends(t, x, s, S),
         NEW I, NEW J, J = {i \in 1 .. Len(s) : i + 1 \in I}
  PROVE  IF 1 \in I THEN Prepends(Picked(t, I), x, Picked(s, J), S) ELSE Picked(t, I) = Picked(s, J)
<1> DEFINE g == Growing(t, I)
           h == Growing(s, J)
           Alike(k) == IF 1 \in I THEN Prepends(g[k + 1], x, h[k], S) ELSE g[k + 1] = h[k]
           Wrong == {k \in 0 .. Len(s) : ~Alike(k)}
<1>1. /\ s \in Seq(S) /\ Len(s) \in Nat /\ Len(t) = Len(s) + 1 /\ t[1] = x
      /\ \A i \in 1 .. Len(s) : t[i + 1] = s[i] /\ s[i] \in S
  BY LenProperties, ElementOfSeq DEF Prepends
<1>2. /\ \A k \in Nat : g[k] = Contribution(t, I, g, k)
      /\ \A k \in Nat : h[k] = Contribution(s, J, h, k)
  BY GrowingIs
<1> HIDE DEF g, h
<1>3. Wrong = {}
  <2> SUFFICES ASSUME Wrong # {} PROVE FALSE
    OBVIOUS
  <2>1. PICK k \in Wrong : \A j \in Wrong : k <= j
    <3>1. Wrong \subseteq Nat
      BY <1>1
    <3> HIDE DEF Wrong
    <3>2. QED
      BY <3>1, LeastExists
  <2>2. k \in 0 .. Len(s) /\ k \in Nat /\ k + 1 \in Nat /\ k + 1 # 0 /\ (k + 1) - 1 = k
    BY <1>1
  <2>3. g[k + 1] = IF k + 1 \in I THEN Append(g[k], t[k + 1]) ELSE g[k]
    BY <1>2, <2>2 DEF Contribution
  <2>4. CASE k = 0
    <3>1. g[0] = <<>> /\ h[0] = <<>>
      BY <1>2 DEF Contribution
    <3>2. g[1] = IF 1 \in I THEN <<x>> ELSE <<>>
      BY <1>1, <2>3, <2>4, <3>1
    <3>3. Prepends(<<x>>, x, <<>>, S)
      BY DEF Prepends
    <3>4. Alike(0)
      BY <3>1, <3>2, <3>3
    <3> HIDE DEF Alike
    <3>5. QED
      BY <2>4, <3>4
  <2>5. CASE k # 0
    <3>1. k - 1 \in 0 .. Len(s) /\ (k - 1) + 1 = k /\ k \in 1 .. Len(s) /\ ~(k <= k - 1)
      BY <2>2, <2>5
    <3>2. Alike(k - 1)
      <4>1. k - 1 \notin Wrong
        <5> HIDE DEF Wrong
        <5>1. QED
          BY <2>1, <3>1
      <4> HIDE DEF Alike
      <4>2. QED
        BY <3>1, <4>1
    <3>3. IF 1 \in I THEN Prepends(g[k], x, h[k - 1], S) ELSE g[k] = h[k - 1]
      BY <3>1, <3>2
    <3>4. h[k] = IF k \in J THEN Append(h[k - 1], s[k]) ELSE h[k - 1]
      BY <1>2, <2>2, <2>5 DEF Contribution
    <3>5. (k \in J <=> k + 1 \in I) /\ t[k + 1] = s[k] /\ s[k] \in S
      BY <1>1, <3>1
    <3>6. Alike(k)
      <4>1. IF 1 \in I THEN Prepends(Append(g[k], s[k]), x, Append(h[k - 1], s[k]), S)
                       ELSE Append(g[k], s[k]) = Append(h[k - 1], s[k])
        BY <3>3, <3>5, PrependsAppend
      <4>2. QED
        BY <2>3, <3>3, <3>4, <3>5, <4>1
    <3> HIDE DEF Alike
    <3>7. QED
      BY <3>6
  <2>6. QED
    BY <2>4, <2>5
<1>4. Alike(Len(s))
  <2>1. Len(s) \in 0 .. Len(s)
    BY <1>1
  <2> HIDE DEF Alike
  <2>2. QED
    BY <1>3, <2>1
<1>5. Picked(t, I) = g[Len(s) + 1] /\ Picked(s, J) = h[Len(s)]
  BY <1>1 DEF Picked, g, h
<1>6. QED
  BY <1>4, <1>5

LEMMA OfKindIs ==
  ASSUME NEW ops \in Seq(Ops), NEW kinds
  PROVE  /\ OfKind(ops, kinds) \in Seq(Ops) /\ Len(OfKind(ops, kinds)) \in Nat
         /\ DOMAIN OfKind(ops, kinds) = 1 .. Len(OfKind(ops, kinds))
<1>1. OfKind(ops, kinds) \in Seq(Ops)
  <2> DEFINE I == {k \in DOMAIN ops : ops[k].kind \in kinds}
  <2> HIDE DEF I
  <2>1. Picked(ops, I) \in Seq(Ops)
    BY PickedIs DEF Picks
  <2>2. QED
    BY <2>1 DEF OfKind, I
<1>2. QED
  BY <1>1, LenProperties

LEMMA OfKindPrepends ==
  ASSUME NEW op, NEW rest, NEW ops, Prepends(ops, op, rest, Ops), op \in Ops, NEW kinds
  PROVE  IF op.kind \in kinds THEN Prepends(OfKind(ops, kinds), op, OfKind(rest, kinds), Ops)
         ELSE OfKind(ops, kinds) = OfKind(rest, kinds)
<1> DEFINE I == {k \in DOMAIN ops : ops[k].kind \in kinds}
           J == {k \in DOMAIN rest : rest[k].kind \in kinds}
<1>1. Prepends(ops, op, rest, Ops)
  OBVIOUS
<1>2. /\ Len(rest) \in Nat /\ DOMAIN rest = 1 .. Len(rest) /\ DOMAIN ops = 1 .. Len(rest) + 1
      /\ ops[1] = op /\ \A i \in 1 .. Len(rest) : ops[i + 1] = rest[i]
  BY <1>1, LenProperties DEF Prepends
<1>3. J = {i \in 1 .. Len(rest) : i + 1 \in I}
  <2>1. \A i \in 1 .. Len(rest) : i + 1 \in 1 .. Len(rest) + 1
    BY <1>2
  <2>2. QED
    BY <1>2, <2>1
<1>4. 1 \in I <=> op.kind \in kinds
  BY <1>2
<1> HIDE DEF I, J
<1>5. IF 1 \in I THEN Prepends(Picked(ops, I), op, Picked(rest, J), Ops) ELSE Picked(ops, I) = Picked(rest, J)
  BY <1>1, <1>3, PickedPrepends
<1>6. QED
  BY <1>4, <1>5 DEF OfKind, I, J
-----------------------------------------------------------------------------
(* What a walk accounts for.                                               *)

LEMMA PrependsAt ==
  ASSUME NEW S, NEW t, NEW x, NEW s, Prepends(t, x, s, S), NEW k \in 1 .. Len(t)
  PROVE  \/ k = 1 /\ t[k] = x
         \/ k - 1 \in 1 .. Len(s) /\ t[k] = s[k - 1]
<1>1. Len(s) \in Nat /\ Len(t) = Len(s) + 1
  BY LenProperties DEF Prepends
<1>2. CASE k = 1
  BY <1>2 DEF Prepends
<1>3. CASE k # 1
  <2>1. k - 1 \in 1 .. Len(s) /\ (k - 1) + 1 = k
    BY <1>1, <1>3
  <2>2. t[(k - 1) + 1] = s[k - 1]
    BY <2>1 DEF Prepends
  <2>3. QED
    BY <2>1, <2>2
<1>4. QED
  BY <1>2, <1>3

Lefts(s, a, n) == Len(s) = n /\ \A k \in 1 .. Len(s) : s[k].left = a + k - 1
Rights(s, a, n) == Len(s) = n /\ \A k \in 1 .. Len(s) : s[k].right = a + k - 1
Matches(s, left, right, n) ==
  Len(s) = n /\ \A k \in 1 .. Len(s) :
    /\ s[k].left \in 1 .. Len(left) /\ s[k].right \in 1 .. Len(right)
    /\ left[s[k].left] = right[s[k].right]

LEMMA LeftsPrepend ==
  ASSUME NEW t, NEW x, NEW s, Prepends(t, x, s, Ops), NEW a \in Nat, NEW n \in Nat,
         x.left = a, Lefts(s, a + 1, n)
  PROVE  Lefts(t, a, n + 1)
<1> SUFFICES ASSUME NEW k \in 1 .. Len(t) PROVE t[k].left = a + k - 1
  BY DEF Lefts, Prepends
<1>1. \/ k = 1 /\ t[k] = x
      \/ k - 1 \in 1 .. Len(s) /\ t[k] = s[k - 1]
  BY PrependsAt
<1>2. k \in Nat
  OBVIOUS
<1>3. QED
  BY <1>1, <1>2 DEF Lefts

LEMMA RightsPrepend ==
  ASSUME NEW t, NEW x, NEW s, Prepends(t, x, s, Ops), NEW a \in Nat, NEW n \in Nat,
         x.right = a, Rights(s, a + 1, n)
  PROVE  Rights(t, a, n + 1)
<1> SUFFICES ASSUME NEW k \in 1 .. Len(t) PROVE t[k].right = a + k - 1
  BY DEF Rights, Prepends
<1>1. \/ k = 1 /\ t[k] = x
      \/ k - 1 \in 1 .. Len(s) /\ t[k] = s[k - 1]
  BY PrependsAt
<1>2. k \in Nat
  OBVIOUS
<1>3. QED
  BY <1>1, <1>2 DEF Rights

LEMMA MatchesPrepend ==
  ASSUME NEW t, NEW x, NEW s, Prepends(t, x, s, Ops), NEW left, NEW right, NEW n \in Nat,
         x.left \in 1 .. Len(left), x.right \in 1 .. Len(right), left[x.left] = right[x.right],
         Matches(s, left, right, n)
  PROVE  Matches(t, left, right, n + 1)
<1> SUFFICES ASSUME NEW k \in 1 .. Len(t)
             PROVE  /\ t[k].left \in 1 .. Len(left) /\ t[k].right \in 1 .. Len(right)
                    /\ left[t[k].left] = right[t[k].right]
  BY DEF Matches, Prepends
<1>1. t[k] = x \/ (k - 1 \in 1 .. Len(s) /\ t[k] = s[k - 1])
  BY PrependsAt
<1>2. QED
  BY <1>1 DEF Matches

\* From a corner on, the walk deletes or keeps every left turn in order, inserts or
\* keeps every right one in order, and keeps as many equal ones as the table says.
Accounts(left, right, p) ==
  LET ops == Edits(left, right)[p]
  IN  /\ Lefts(OfKind(ops, {"same", "delete"}), p[1], Len(left) + 1 - p[1])
      /\ Rights(OfKind(ops, {"same", "insert"}), p[2], Len(right) + 1 - p[2])
      /\ Matches(OfKind(ops, {"same"}), left, right, Common(left, right)[p])

LEMMA EditsAccount ==
  ASSUME NEW V, NEW left \in Seq(V), NEW right \in Seq(V), NEW p \in Corners(left, right)
  PROVE  Accounts(left, right, p)
<1> DEFINE Wrong == {q \in Corners(left, right) : ~Accounts(left, right, q)}
           edits == Edits(left, right)
           common == Common(left, right)
           n == Len(left)
           m == Len(right)
<1> SUFFICES ASSUME Wrong # {} PROVE FALSE
  OBVIOUS
<1>1. PICK q \in Wrong : \A r \in Corners(left, right) :
        Ahead(left, right, r) < Ahead(left, right, q) => r \notin Wrong
  <2>1. Wrong \subseteq Corners(left, right)
    OBVIOUS
  <2> HIDE DEF Wrong
  <2>2. QED
    BY <2>1, LeastAhead
<1>2. /\ n \in Nat /\ m \in Nat /\ q[1] \in 1 .. n + 1 /\ q[2] \in 1 .. m + 1
      /\ q \in Corners(left, right)
  BY CornersAre
<1>3. \A r \in Corners(left, right) : edits[r] \in Seq(Ops) /\ common[r] \in Nat
  BY EditsAre, CommonIs
<1>4. edits[q] = EditsAt(left, right, edits, q)
  BY EditsAre
<1>5. common[q] = IF Ended(left, right, q) THEN 0
                  ELSE IF Pairs(left, right, q) THEN common[Diagonal(q)] + 1
                  ELSE IF Deletes(left, right, q) THEN common[Down(q)]
                  ELSE common[Right(q)]
  BY CommonSteps
<1>6. ~Accounts(left, right, q)
  OBVIOUS
<1>0. \A j, i \in Nat : (j + 1 - (i + 1)) + 1 = j + 1 - i
  OBVIOUS
<1> HIDE DEF edits, common
<1>7. CASE Ended(left, right, q)
  <2>1. edits[q] = <<>> /\ common[q] = 0 /\ q[1] = n + 1 /\ q[2] = m + 1
    BY <1>2, <1>4, <1>5, <1>7 DEF EditsAt, Ended
  <2>2. \A kinds : Len(OfKind(<<>>, kinds)) = 0
    <3> SUFFICES ASSUME NEW kinds PROVE Len(OfKind(<<>>, kinds)) = 0
      OBVIOUS
    <3> DEFINE I == {k \in DOMAIN <<>> : <<>>[k].kind \in kinds}
    <3> HIDE DEF I
    <3>1. <<>> \in Seq(Ops) /\ Len(<<>>) = 0
      BY EmptySeq
    <3>2. Picked(<<>>, I) \in Seq(Ops) /\ Len(Picked(<<>>, I)) <= 0
      BY <3>1, PickedIs DEF Picks
    <3>3. Len(Picked(<<>>, I)) = 0
      BY <3>2, LenProperties
    <3>4. QED
      BY <3>3 DEF OfKind, I
  <2>3. \A s : Len(s) = 0 => Lefts(s, q[1], 0) /\ Rights(s, q[2], 0) /\ Matches(s, left, right, 0)
    BY DEF Lefts, Rights, Matches
  <2>4. /\ Lefts(OfKind(edits[q], {"same", "delete"}), q[1], 0)
        /\ Rights(OfKind(edits[q], {"same", "insert"}), q[2], 0)
        /\ Matches(OfKind(edits[q], {"same"}), left, right, 0)
    BY <2>1, <2>2, <2>3
  <2>5. n + 1 - q[1] = 0 /\ m + 1 - q[2] = 0
    BY <1>2, <2>1
  <2>6. Accounts(left, right, q)
    BY <2>1, <2>4, <2>5 DEF Accounts, edits, common
  <2>7. QED
    BY <1>6, <2>6
<1>8. CASE ~Ended(left, right, q) /\ Pairs(left, right, q)
  <2> DEFINE r == Diagonal(q)
             op == Op("same", q[1], q[2])
  <2>1. r \in Corners(left, right) /\ Accounts(left, right, r) /\ op \in Ops
    BY <1>1, <1>2, <1>8, EditsNext
  <2>2. r[1] = q[1] + 1 /\ r[2] = q[2] + 1
    BY DEF Diagonal
  <2>3. q[1] \in 1 .. n /\ q[2] \in 1 .. m /\ left[q[1]] = right[q[2]]
    BY <1>2, <1>8 DEF Pairs
  <2>4. op.kind = "same" /\ op.left = q[1] /\ op.right = q[2]
    BY DEF Op
  <2>5. edits[q] = <<op>> \o edits[r]
    BY <1>4, <1>8 DEF EditsAt
  <2>6. common[q] = common[r] + 1
    BY <1>5, <1>8
  <2> HIDE DEF r, op
  <2>7. \A kinds : "same" \in kinds => Prepends(OfKind(edits[q], kinds), op, OfKind(edits[r], kinds), Ops)
    <3> SUFFICES ASSUME NEW kinds
                 PROVE  "same" \in kinds => Prepends(OfKind(edits[q], kinds), op, OfKind(edits[r], kinds), Ops)
      OBVIOUS
    <3> DEFINE rest == edits[r]
               ops == edits[q]
    <3>1. rest \in Seq(Ops) /\ ops = <<op>> \o rest
      BY <1>3, <2>1, <2>5
    <3> HIDE DEF rest, ops
    <3>2. IF op.kind \in kinds THEN Prepends(OfKind(ops, kinds), op, OfKind(rest, kinds), Ops)
          ELSE OfKind(ops, kinds) = OfKind(rest, kinds)
      <4>1. Prepends(ops, op, rest, Ops)
        BY <2>1, <3>1, PrependIs
      <4>2. QED
        BY <2>1, <4>1, OfKindPrepends
    <3>3. QED
      BY <2>4, <3>2 DEF rest, ops
  <2>8. Lefts(OfKind(edits[q], {"same", "delete"}), q[1], (n + 1 - r[1]) + 1)
    <3>1. Prepends(OfKind(edits[q], {"same", "delete"}), op, OfKind(edits[r], {"same", "delete"}), Ops)
      BY <2>7
    <3>2. Lefts(OfKind(edits[r], {"same", "delete"}), q[1] + 1, n + 1 - r[1])
      BY <2>1, <2>2 DEF Accounts, edits
    <3>3. q[1] \in Nat /\ n + 1 - r[1] \in Nat /\ op.left = q[1]
      BY <1>2, <2>2, <2>3, <2>4, SMTT(30)
    <3>4. QED
      BY <3>1, <3>2, <3>3, LeftsPrepend
  <2>9. Rights(OfKind(edits[q], {"same", "insert"}), q[2], (m + 1 - r[2]) + 1)
    <3>1. Prepends(OfKind(edits[q], {"same", "insert"}), op, OfKind(edits[r], {"same", "insert"}), Ops)
      BY <2>7
    <3>2. Rights(OfKind(edits[r], {"same", "insert"}), q[2] + 1, m + 1 - r[2])
      BY <2>1, <2>2 DEF Accounts, edits
    <3>3. q[2] \in Nat /\ m + 1 - r[2] \in Nat /\ op.right = q[2]
      BY <1>2, <2>2, <2>3, <2>4, SMTT(30)
    <3>4. QED
      BY <3>1, <3>2, <3>3, RightsPrepend
  <2>10. Matches(OfKind(edits[q], {"same"}), left, right, common[r] + 1)
    BY <1>3, <2>1, <2>3, <2>4, <2>7, MatchesPrepend DEF Accounts, edits, common
  <2>11. (n + 1 - r[1]) + 1 = n + 1 - q[1] /\ (m + 1 - r[2]) + 1 = m + 1 - q[2]
    <3>1. q[1] \in Nat /\ q[2] \in Nat /\ n \in Nat /\ m \in Nat
      BY <1>2
    <3> HIDE DEF n, m
    <3>2. QED
      BY <1>0, <2>2, <3>1
  <2>12. QED
    BY <1>6, <2>6, <2>8, <2>9, <2>10, <2>11 DEF Accounts, edits, common
<1>9. CASE ~Ended(left, right, q) /\ ~Pairs(left, right, q) /\ Deletes(left, right, q)
  <2> DEFINE r == Down(q)
             op == Op("delete", q[1], 0)
  <2>1. r \in Corners(left, right) /\ Accounts(left, right, r) /\ op \in Ops
    BY <1>1, <1>2, <1>9, EditsNext
  <2>2. r[1] = q[1] + 1 /\ r[2] = q[2]
    BY DEF Down
  <2>3. q[1] \in 1 .. n
    BY <1>2, <1>9 DEF Deletes
  <2>4. op.kind = "delete" /\ op.left = q[1]
    BY DEF Op
  <2>5. edits[q] = <<op>> \o edits[r]
    BY <1>4, <1>9 DEF EditsAt
  <2>6. common[q] = common[r]
    BY <1>5, <1>9
  <2> HIDE DEF r, op
  <2>7. \A kinds : IF "delete" \in kinds
                   THEN Prepends(OfKind(edits[q], kinds), op, OfKind(edits[r], kinds), Ops)
                   ELSE OfKind(edits[q], kinds) = OfKind(edits[r], kinds)
    <3> SUFFICES ASSUME NEW kinds
                 PROVE  IF "delete" \in kinds
                        THEN Prepends(OfKind(edits[q], kinds), op, OfKind(edits[r], kinds), Ops)
                        ELSE OfKind(edits[q], kinds) = OfKind(edits[r], kinds)
      OBVIOUS
    <3> DEFINE rest == edits[r]
               ops == edits[q]
    <3>1. rest \in Seq(Ops) /\ ops = <<op>> \o rest
      BY <1>3, <2>1, <2>5
    <3> HIDE DEF rest, ops
    <3>2. IF op.kind \in kinds THEN Prepends(OfKind(ops, kinds), op, OfKind(rest, kinds), Ops)
          ELSE OfKind(ops, kinds) = OfKind(rest, kinds)
      <4>1. Prepends(ops, op, rest, Ops)
        BY <2>1, <3>1, PrependIs
      <4>2. QED
        BY <2>1, <4>1, OfKindPrepends
    <3>3. QED
      BY <2>4, <3>2 DEF rest, ops
  <2>8. Lefts(OfKind(edits[q], {"same", "delete"}), q[1], (n + 1 - r[1]) + 1)
    <3>1. Prepends(OfKind(edits[q], {"same", "delete"}), op, OfKind(edits[r], {"same", "delete"}), Ops)
      BY <2>7
    <3>2. Lefts(OfKind(edits[r], {"same", "delete"}), q[1] + 1, n + 1 - r[1])
      BY <2>1, <2>2 DEF Accounts, edits
    <3>3. q[1] \in Nat /\ n + 1 - r[1] \in Nat /\ op.left = q[1]
      BY <1>2, <2>2, <2>3, <2>4, SMTT(30)
    <3>4. QED
      BY <3>1, <3>2, <3>3, LeftsPrepend
  <2>9. OfKind(edits[q], {"same", "insert"}) = OfKind(edits[r], {"same", "insert"})
    BY <2>7
  <2>10. OfKind(edits[q], {"same"}) = OfKind(edits[r], {"same"})
    BY <2>7
  <2>11. (n + 1 - r[1]) + 1 = n + 1 - q[1]
    <3>1. q[1] \in Nat /\ q[2] \in Nat /\ n \in Nat /\ m \in Nat
      BY <1>2
    <3> HIDE DEF n, m
    <3>2. QED
      BY <1>0, <2>2, <3>1
  <2>12. QED
    BY <1>6, <2>1, <2>2, <2>6, <2>8, <2>9, <2>10, <2>11 DEF Accounts, edits, common
<1>10. CASE ~Ended(left, right, q) /\ ~Pairs(left, right, q) /\ ~Deletes(left, right, q)
  <2> DEFINE r == Right(q)
             op == Op("insert", 0, q[2])
  <2>1. r \in Corners(left, right) /\ Accounts(left, right, r) /\ op \in Ops
    BY <1>1, <1>2, <1>10, EditsNext
  <2>2. r[1] = q[1] /\ r[2] = q[2] + 1
    BY DEF Right
  <2>3. q[2] \in 1 .. m
    BY <1>2, <1>10, EditsLead
  <2>4. op.kind = "insert" /\ op.right = q[2]
    BY DEF Op
  <2>5. edits[q] = <<op>> \o edits[r]
    BY <1>4, <1>10 DEF EditsAt
  <2>6. common[q] = common[r]
    BY <1>5, <1>10
  <2> HIDE DEF r, op
  <2>7. \A kinds : IF "insert" \in kinds
                   THEN Prepends(OfKind(edits[q], kinds), op, OfKind(edits[r], kinds), Ops)
                   ELSE OfKind(edits[q], kinds) = OfKind(edits[r], kinds)
    <3> SUFFICES ASSUME NEW kinds
                 PROVE  IF "insert" \in kinds
                        THEN Prepends(OfKind(edits[q], kinds), op, OfKind(edits[r], kinds), Ops)
                        ELSE OfKind(edits[q], kinds) = OfKind(edits[r], kinds)
      OBVIOUS
    <3> DEFINE rest == edits[r]
               ops == edits[q]
    <3>1. rest \in Seq(Ops) /\ ops = <<op>> \o rest
      BY <1>3, <2>1, <2>5
    <3> HIDE DEF rest, ops
    <3>2. IF op.kind \in kinds THEN Prepends(OfKind(ops, kinds), op, OfKind(rest, kinds), Ops)
          ELSE OfKind(ops, kinds) = OfKind(rest, kinds)
      <4>1. Prepends(ops, op, rest, Ops)
        BY <2>1, <3>1, PrependIs
      <4>2. QED
        BY <2>1, <4>1, OfKindPrepends
    <3>3. QED
      BY <2>4, <3>2 DEF rest, ops
  <2>8. Rights(OfKind(edits[q], {"same", "insert"}), q[2], (m + 1 - r[2]) + 1)
    <3>1. Prepends(OfKind(edits[q], {"same", "insert"}), op, OfKind(edits[r], {"same", "insert"}), Ops)
      BY <2>7
    <3>2. Rights(OfKind(edits[r], {"same", "insert"}), q[2] + 1, m + 1 - r[2])
      BY <2>1, <2>2 DEF Accounts, edits
    <3>3. q[2] \in Nat /\ m + 1 - r[2] \in Nat /\ op.right = q[2]
      BY <1>2, <2>2, <2>3, <2>4, SMTT(30)
    <3>4. QED
      BY <3>1, <3>2, <3>3, RightsPrepend
  <2>9. OfKind(edits[q], {"same", "delete"}) = OfKind(edits[r], {"same", "delete"})
    BY <2>7
  <2>10. OfKind(edits[q], {"same"}) = OfKind(edits[r], {"same"})
    BY <2>7
  <2>11. (m + 1 - r[2]) + 1 = m + 1 - q[2]
    <3>1. q[1] \in Nat /\ q[2] \in Nat /\ n \in Nat /\ m \in Nat
      BY <1>2
    <3> HIDE DEF n, m
    <3>2. QED
      BY <1>0, <2>2, <3>1
  <2>12. QED
    BY <1>6, <2>1, <2>2, <2>6, <2>8, <2>9, <2>10, <2>11 DEF Accounts, edits, common
<1>11. QED
  BY <1>7, <1>8, <1>9, <1>10
-----------------------------------------------------------------------------
(* No common subsequence is longer than the table says.                    *)

\* The places of t in the first n positions of s, in order.
Embeds(q, t, s, n) ==
  /\ q \in [1 .. Len(t) -> 1 .. n]
  /\ \A k \in 1 .. Len(t) : t[k] = s[q[k]]
  /\ \A j, k \in 1 .. Len(t) : j < k => q[j] < q[k]

LEMMA PickedEmbeds ==
  ASSUME NEW S, NEW s \in Seq(S), NEW I
  PROVE  \E q : Embeds(q, Picked(s, I), s, Len(s))
<1> DEFINE g == Growing(s, I)
           Wrong == {n \in 0 .. Len(s) : ~\E q : Embeds(q, g[n], s, n)}
<1>1. Len(s) \in Nat
  BY LenProperties
<1>2. \A n \in Nat : g[n] = Contribution(s, I, g, n)
  BY GrowingIs
<1>3. \A n \in 0 .. Len(s) : g[n] \in Seq(S)
  BY ContributedTo DEF Contributed, Picks
<1> HIDE DEF g
<1>4. Wrong = {}
  <2> SUFFICES ASSUME Wrong # {} PROVE FALSE
    OBVIOUS
  <2>1. PICK n \in Wrong : \A j \in Wrong : n <= j
    <3>1. Wrong \subseteq Nat
      BY <1>1
    <3> HIDE DEF Wrong
    <3>2. QED
      BY <3>1, LeastExists
  <2>2. n \in 0 .. Len(s) /\ n \in Nat /\ ~\E q : Embeds(q, g[n], s, n)
    BY <1>1
  <2>3. CASE n = 0
    <3>1. g[n] = <<>>
      BY <1>2, <2>3 DEF Contribution
    <3> DEFINE q == [k \in 1 .. 0 |-> 1]
    <3>2. Embeds(q, <<>>, s, 0)
      BY DEF Embeds
    <3> HIDE DEF q
    <3>3. QED
      BY <2>2, <2>3, <3>1, <3>2
  <2>4. CASE n # 0
    <3>1. n - 1 \in 0 .. Len(s) /\ n \in 1 .. Len(s) /\ ~(n <= n - 1)
      BY <1>1, <2>2, <2>4
    <3>2. n - 1 \notin Wrong
      <4> HIDE DEF Wrong
      <4>1. QED
        BY <2>1, <3>1
    <3>3. PICK q : Embeds(q, g[n - 1], s, n - 1)
      BY <3>1, <3>2
    <3> DEFINE t == g[n - 1]
               u == g[n]
    <3>4. t \in Seq(S) /\ Len(t) \in Nat /\ s[n] \in S
      BY <1>3, <3>1, LenProperties, ElementOfSeq
    <3>5. u = IF n \in I THEN Append(t, s[n]) ELSE t
      BY <1>2, <2>2, <2>4 DEF Contribution
    <3> HIDE DEF t, u, Wrong
    <3>6. Embeds(q, t, s, n - 1)
      BY <3>3 DEF t
    <3>7. CASE n \notin I
      <4>1. Embeds(q, u, s, n)
        BY <3>1, <3>4, <3>5, <3>6, <3>7 DEF Embeds
      <4>2. QED
        BY <2>2, <4>1 DEF u
    <3>8. CASE n \in I
      <4> DEFINE r == [k \in 1 .. Len(u) |-> IF k = Len(u) THEN n ELSE q[k]]
      <4>1. /\ Len(u) = Len(t) + 1 /\ u[Len(t) + 1] = s[n]
            /\ \A k \in 1 .. Len(t) : u[k] = t[k]
        BY <3>4, <3>5, <3>8, AppendProperties
      <4>2. \A k \in 1 .. Len(u) : r[k] = IF k = Len(u) THEN n ELSE q[k]
        OBVIOUS
      <4>3. \A k \in 1 .. Len(t) : q[k] \in 1 .. n - 1
        BY <3>6 DEF Embeds
      <4>4. \A k \in 1 .. Len(u) : k # Len(u) => k \in 1 .. Len(t)
        BY <3>4, <4>1
      <4>5. r \in [1 .. Len(u) -> 1 .. n]
        <5>1. \A k \in 1 .. Len(u) : (IF k = Len(u) THEN n ELSE q[k]) \in 1 .. n
          BY <2>2, <3>1, <4>3, <4>4
        <5>2. QED
          BY <5>1
      <4> HIDE DEF r
      <4>6. \A k \in 1 .. Len(u) : u[k] = s[r[k]]
        BY <3>6, <4>1, <4>2, <4>4 DEF Embeds
      <4>7. \A j, k \in 1 .. Len(u) : j < k => r[j] < r[k]
        <5> SUFFICES ASSUME NEW j \in 1 .. Len(u), NEW k \in 1 .. Len(u), j < k
                     PROVE  r[j] < r[k]
          OBVIOUS
        <5>1. j \in 1 .. Len(t) /\ r[j] = q[j] /\ q[j] \in 1 .. n - 1
          BY <3>4, <4>1, <4>2, <4>3
        <5>2. CASE k = Len(u)
          BY <2>2, <4>2, <5>1, <5>2
        <5>3. CASE k # Len(u)
          BY <3>6, <4>2, <4>4, <5>1, <5>3 DEF Embeds
        <5>4. QED
          BY <5>2, <5>3
      <4>8. Embeds(r, u, s, n)
        BY <4>5, <4>6, <4>7 DEF Embeds
      <4>9. QED
        BY <2>2, <4>8 DEF u
    <3>9. QED
      BY <3>7, <3>8
  <2>5. QED
    BY <2>3, <2>4
<1>5. \E q : Embeds(q, g[Len(s)], s, Len(s))
  BY <1>1, <1>4
<1>6. QED
  BY <1>5 DEF Picked, g

\* What is left of t lies behind the corner p.
Behind(t, q1, q2, a, p) == a <= Len(t) => q1[a] >= p[1] /\ q2[a] >= p[2]

LEMMA CommonBounds ==
  ASSUME NEW V, NEW left \in Seq(V), NEW right \in Seq(V),
         NEW t, Len(t) \in Nat, NEW q1, NEW q2,
         Embeds(q1, t, left, Len(left)), Embeds(q2, t, right, Len(right)),
         NEW p \in Corners(left, right), NEW a \in 1 .. Len(t) + 1, Behind(t, q1, q2, a, p)
  PROVE  Len(t) + 1 - a <= Common(left, right)[p]
<1> DEFINE common == Common(left, right)
           n == Len(left)
           m == Len(right)
           Fits(r, b) == Behind(t, q1, q2, b, r) => Len(t) + 1 - b <= common[r]
           Wrong == {r \in Corners(left, right) : \E b \in 1 .. Len(t) + 1 : ~Fits(r, b)}
<1>1. Wrong = {}
  <2> SUFFICES ASSUME Wrong # {} PROVE FALSE
    OBVIOUS
  <2>1. PICK r \in Wrong : \A x \in Corners(left, right) :
          Ahead(left, right, x) < Ahead(left, right, r) => x \notin Wrong
    <3>1. Wrong \subseteq Corners(left, right)
      OBVIOUS
    <3> HIDE DEF Wrong
    <3>2. QED
      BY <3>1, LeastAhead
  <2>2. PICK b \in 1 .. Len(t) + 1 : ~Fits(r, b)
    OBVIOUS
  <2>3. /\ r \in Corners(left, right) /\ Behind(t, q1, q2, b, r)
        /\ ~(Len(t) + 1 - b <= common[r])
    BY <2>2
  <2>4. \A x \in Corners(left, right) : Ahead(left, right, x) < Ahead(left, right, r) =>
          \A c \in 1 .. Len(t) + 1 : Fits(x, c)
    BY <2>1
  <2>5. /\ n \in Nat /\ m \in Nat /\ r[1] \in 1 .. n + 1 /\ r[2] \in 1 .. m + 1
        /\ common[r] \in Nat
    BY <2>3, CornersAre, CommonIs
  <2> HIDE DEF Wrong
  <2>6. b <= Len(t) /\ b \in 1 .. Len(t) /\ b + 1 \in 1 .. Len(t) + 1
    <3> HIDE DEF common
    <3>1. QED
      BY <2>3, <2>5
  <2>7. /\ q1[b] \in r[1] .. n /\ q2[b] \in r[2] .. m
        /\ t[b] = left[q1[b]] /\ t[b] = right[q2[b]]
    <3>1. q1[b] \in 1 .. n /\ q2[b] \in 1 .. m
      BY <2>6 DEF Embeds
    <3>2. q1[b] >= r[1] /\ q2[b] >= r[2]
      BY <2>3, <2>6 DEF Behind
    <3>3. t[b] = left[q1[b]] /\ t[b] = right[q2[b]]
      BY <2>6 DEF Embeds
    <3> HIDE DEF n, m
    <3>4. QED
      BY <2>5, <3>1, <3>2, <3>3
  <2>8. r[1] <= n /\ r[2] <= m
    <3> HIDE DEF n, m
    <3>1. QED
      BY <2>5, <2>7, SMTT(30)
  <2>9. /\ Diagonal(r) \in Corners(left, right) /\ Ahead(left, right, Diagonal(r)) < Ahead(left, right, r)
        /\ Down(r) \in Corners(left, right) /\ Ahead(left, right, Down(r)) < Ahead(left, right, r)
        /\ Right(r) \in Corners(left, right) /\ Ahead(left, right, Right(r)) < Ahead(left, right, r)
    BY <2>3, <2>8, CornersAre
  <2>10. common[Diagonal(r)] \in Nat /\ common[Down(r)] \in Nat /\ common[Right(r)] \in Nat
    BY <2>9, CommonIs
  <2>11. common[r] = IF left[r[1]] = right[r[2]] THEN 1 + common[Diagonal(r)]
                     ELSE Larger(common[Down(r)], common[Right(r)])
    BY <2>3, <2>5, <2>8, CommonIs, SMTT(30) DEF CommonAt
  <2>12. Fits(Diagonal(r), b + 1) /\ Fits(Down(r), b) /\ Fits(Right(r), b)
    BY <2>4, <2>6, <2>9
  <2> HIDE DEF common
  <2>13. CASE left[r[1]] = right[r[2]]
    <3>1. Behind(t, q1, q2, b + 1, Diagonal(r))
      <4> SUFFICES ASSUME b + 1 <= Len(t)
                   PROVE  q1[b + 1] >= r[1] + 1 /\ q2[b + 1] >= r[2] + 1
        BY DEF Behind, Diagonal
      <4>1. b + 1 \in 1 .. Len(t) /\ b < b + 1
        BY <2>6
      <4>2. /\ q1[b] < q1[b + 1] /\ q2[b] < q2[b + 1]
            /\ q1[b + 1] \in 1 .. n /\ q2[b + 1] \in 1 .. m
        BY <2>6, <4>1 DEF Embeds
      <4>3. /\ q1[b] \in Nat /\ q1[b + 1] \in Nat /\ r[1] \in Nat /\ q1[b] >= r[1]
            /\ q2[b] \in Nat /\ q2[b + 1] \in Nat /\ r[2] \in Nat /\ q2[b] >= r[2]
        <5>1. r[1] \in Nat /\ r[2] \in Nat
          BY <2>5
        <5>2. q1[b] \in Nat /\ q1[b] >= r[1] /\ q2[b] \in Nat /\ q2[b] >= r[2]
          BY <2>5, <2>7, SMTT(30)
        <5>3. q1[b + 1] \in Nat /\ q2[b + 1] \in Nat
          BY <4>2
        <5>4. QED
          BY <5>1, <5>2, <5>3
      <4>4. \A i, j, k \in Nat : i >= k /\ i < j => j >= k + 1
        OBVIOUS
      <4>5. QED
        BY <4>2, <4>3, <4>4
    <3>2. Len(t) + 1 - (b + 1) <= common[Diagonal(r)]
      BY <2>12, <3>1
    <3>3. QED
      BY <2>3, <2>6, <2>10, <2>11, <2>13, <3>2, SMTT(30)
  <2>14. CASE left[r[1]] # right[r[2]]
    <3>1. q1[b] >= r[1] + 1 \/ q2[b] >= r[2] + 1
      <4>1. /\ q1[b] \in Nat /\ r[1] \in Nat /\ q1[b] >= r[1]
            /\ q2[b] \in Nat /\ r[2] \in Nat /\ q2[b] >= r[2]
        BY <2>5, <2>7, SMTT(30)
      <4>2. q1[b] # r[1] \/ q2[b] # r[2]
        BY <2>7, <2>14
      <4>3. \A i, k \in Nat : i >= k /\ i # k => i >= k + 1
        OBVIOUS
      <4>4. QED
        BY <4>1, <4>2, <4>3
    <3>2. Behind(t, q1, q2, b, Down(r)) \/ Behind(t, q1, q2, b, Right(r))
      BY <2>5, <2>7, <3>1 DEF Behind, Down, Right
    <3>3. Len(t) + 1 - b <= common[Down(r)] \/ Len(t) + 1 - b <= common[Right(r)]
      BY <2>12, <3>2
    <3>4. QED
      BY <2>3, <2>6, <2>10, <2>11, <2>14, <3>3 DEF Larger
  <2>15. QED
    BY <2>13, <2>14
<1>2. QED
  BY <1>1
\* For any two conversations: the comparison accounts for every turn of both sides in
\* order, pairs only equal turns, and no common subsequence is longer than what it
\* pairs (commands/diff/algorithm.rs, lcs_diff).
THEOREM DiffCorrect ==
  ASSUME NEW V, NEW left \in Seq(V), NEW right \in Seq(V)
  PROVE  DiffIsMinimal(left, right)
<1> DEFINE ops == LcsDiff(left, right)
           gone == OfKind(ops, {"same", "delete"})
           come == OfKind(ops, {"same", "insert"})
           same == OfKind(ops, {"same"})
           start == <<1, 1>>
<1>1. start \in Corners(left, right) /\ start[1] = 1 /\ start[2] = 1
  <2>1. Len(left) \in Nat /\ Len(right) \in Nat
    BY LenProperties
  <2>2. QED
    BY <2>1 DEF Corners
<1>2. ops = Edits(left, right)[start]
  BY DEF LcsDiff
<1> HIDE DEF start, ops
<1>3. ops \in Seq(Ops) /\ Accounts(left, right, start)
  BY <1>1, <1>2, EditsAre, EditsAccount
<1>4. /\ DOMAIN gone = 1 .. Len(gone) /\ DOMAIN come = 1 .. Len(come) /\ DOMAIN same = 1 .. Len(same)
  BY <1>3, OfKindIs
<1>5. /\ Lefts(gone, 1, Len(left) + 1 - 1)
      /\ Rights(come, 1, Len(right) + 1 - 1)
      /\ Matches(same, left, right, Common(left, right)[start])
  BY <1>1, <1>2, <1>3 DEF Accounts
<1>6. ASSUME NEW t \in Subsequences(left) \cap Subsequences(right) PROVE Len(t) <= Len(same)
  <2>1. PICK I, J : t = Picked(left, I) /\ t = Picked(right, J)
    BY DEF Subsequences
  <2>2. t \in Seq(V) /\ Len(t) \in Nat
    <3>1. t \in Seq(V)
      BY <2>1, PickedIs DEF Picks
    <3>2. QED
      BY <3>1, LenProperties
  <2>3. PICK q1 : Embeds(q1, t, left, Len(left))
    BY <2>1, PickedEmbeds
  <2>4. PICK q2 : Embeds(q2, t, right, Len(right))
    BY <2>1, PickedEmbeds
  <2>5. 1 \in 1 .. Len(t) + 1 /\ Behind(t, q1, q2, 1, start)
    <3>1. ASSUME 1 <= Len(t) PROVE q1[1] \in 1 .. Len(left) /\ q2[1] \in 1 .. Len(right)
      <4>1. 1 \in 1 .. Len(t)
        BY <2>2, <3>1
      <4>2. q1[1] \in 1 .. Len(left)
        BY <2>3, <4>1 DEF Embeds
      <4>3. q2[1] \in 1 .. Len(right)
        BY <2>4, <4>1 DEF Embeds
      <4>4. QED
        BY <4>2, <4>3
    <3>2. QED
      BY <1>1, <2>2, <3>1 DEF Behind
  <2>6. Len(t) + 1 - 1 <= Common(left, right)[start]
    BY <1>1, <2>2, <2>3, <2>4, <2>5, CommonBounds
  <2>7. QED
    BY <1>5, <2>2, <2>6 DEF Matches
<1>7. Len(left) \in Nat /\ Len(right) \in Nat
  BY LenProperties
<1>8. /\ Len(gone) = Len(left) /\ \A k \in DOMAIN gone : gone[k].left = k
      /\ Len(come) = Len(right) /\ \A k \in DOMAIN come : come[k].right = k
      /\ \A k \in DOMAIN same : left[same[k].left] = right[same[k].right]
  <2> HIDE DEF gone, come, same
  <2>1. \A k \in Nat : 1 + k - 1 = k /\ k + 1 - 1 = k
    OBVIOUS
  <2>2. QED
    BY <1>4, <1>5, <1>7, <2>1 DEF Lefts, Rights, Matches
<1>9. QED
  BY <1>6, <1>8 DEF DiffIsMinimal, ops

\* Equal conversations are walked along the diagonal.
LEMMA EqualAreSame ==
  ASSUME NEW V, NEW s \in Seq(V), NEW p \in Corners(s, s), p[1] = p[2],
         NEW k \in DOMAIN Edits(s, s)[p]
  PROVE  Edits(s, s)[p][k].kind = "same"
<1> DEFINE edits == Edits(s, s)
           Wrong == {q \in Corners(s, s) : q[1] = q[2] /\ \E j \in DOMAIN edits[q] : edits[q][j].kind # "same"}
<1> SUFFICES ASSUME Wrong # {} PROVE FALSE
  OBVIOUS
<1>1. PICK q \in Wrong : \A r \in Corners(s, s) : Ahead(s, s, r) < Ahead(s, s, q) => r \notin Wrong
  <2>1. Wrong \subseteq Corners(s, s)
    OBVIOUS
  <2> HIDE DEF Wrong
  <2>2. QED
    BY <2>1, LeastAhead
<1>2. q \in Corners(s, s) /\ q[1] = q[2] /\ Len(s) \in Nat /\ q[1] \in Nat
  BY CornersAre
<1>3. PICK j \in DOMAIN edits[q] : edits[q][j].kind # "same"
  OBVIOUS
<1>4. edits[q] = EditsAt(s, s, edits, q) /\ \A r \in Corners(s, s) : edits[r] \in Seq(Ops)
  BY <1>2, EditsAre
<1>5. CASE Ended(s, s, q)
  BY <1>3, <1>4, <1>5 DEF EditsAt
<1>6. CASE ~Ended(s, s, q)
  <2> DEFINE r == Diagonal(q)
             op == Op("same", q[1], q[2])
  <2>1. Pairs(s, s, q)
    BY <1>2, <1>6 DEF Ended, Pairs
  <2>2. r \in Corners(s, s) /\ r[1] = r[2] /\ r \notin Wrong /\ op \in Ops
    <3>1. r[1] = q[1] + 1 /\ r[2] = q[2] + 1
      BY DEF Diagonal
    <3> HIDE DEF Wrong
    <3>2. QED
      BY <1>1, <1>2, <2>1, <3>1, EditsNext
  <2>3. edits[q] = <<op>> \o edits[r]
    BY <1>4, <1>6, <2>1 DEF EditsAt
  <2>4. op.kind = "same"
    BY DEF Op
  <2> DEFINE rest == edits[r]
             all == edits[q]
  <2>5. rest \in Seq(Ops) /\ all = <<op>> \o rest
    BY <1>4, <2>2, <2>3
  <2>6. \A i \in DOMAIN rest : rest[i].kind = "same"
    BY <2>2
  <2>7. j \in DOMAIN all /\ all[j].kind # "same"
    BY <1>3
  <2> HIDE DEF op, rest, all
  <2>8. Prepends(all, op, rest, Ops)
    BY <2>2, <2>5, PrependIs
  <2>9. DOMAIN all = 1 .. Len(all) /\ DOMAIN rest = 1 .. Len(rest)
    BY <2>8, LenProperties DEF Prepends
  <2>10. all[j] = op \/ (j - 1 \in DOMAIN rest /\ all[j] = rest[j - 1])
    BY <2>7, <2>8, <2>9, PrependsAt
  <2>11. QED
    BY <2>4, <2>6, <2>7, <2>10
<1>7. QED
  BY <1>5, <1>6

\* For any two conversations that are compared at all: the exit code of diff says that
\* there is nothing to show exactly when their turns are equal (commands/diff.rs).
THEOREM ExitCorrect ==
  ASSUME NEW V, NEW left \in Seq(V), NEW right \in Seq(V), NEW context, NEW maxCells
  PROVE  ExitIsRight(left, right, context, maxCells)
<1> DEFINE diff == DiffCommand(left, right, context, maxCells)
           ops == LcsDiff(left, right)
           start == <<1, 1>>
           n == Len(left)
           m == Len(right)
<1> SUFFICES ASSUME diff.ok PROVE (diff.exit = "EMPTY") <=> left = right
  BY DEF ExitIsRight
<1>1. (diff.exit = "EMPTY") <=> \A k \in DOMAIN ops : ops[k].kind = "same"
  <2>1. ~Error.ok
    BY DEF Error
  <2>2. Diff(left, right, maxCells) = [ok |-> TRUE, ops |-> ops]
    BY <2>1 DEF DiffCommand, Diff
  <2> HIDE DEF ops
  <2>3. diff.exit = IF \E k \in DOMAIN ops : ops[k].kind # "same" THEN "OK" ELSE "EMPTY"
    BY <2>2 DEF DiffCommand
  <2>4. QED
    BY <2>3
<1>2. start \in Corners(left, right) /\ start[1] = 1 /\ start[2] = 1 /\ n \in Nat /\ m \in Nat
  <2>1. n \in Nat /\ m \in Nat
    BY LenProperties
  <2>2. QED
    BY <2>1 DEF Corners
<1>3. ops = Edits(left, right)[start]
  BY DEF LcsDiff
<1> HIDE DEF start, diff, ops
<1>4. ops \in Seq(Ops) /\ Accounts(left, right, start)
  BY <1>2, <1>3, EditsAre, EditsAccount
<1>5. left = right => \A k \in DOMAIN ops : ops[k].kind = "same"
  BY <1>2, <1>3, EqualAreSame
<1>6. ASSUME \A k \in DOMAIN ops : ops[k].kind = "same" PROVE left = right
  <2> DEFINE same == OfKind(ops, {"same"})
  <2>1. OfKind(ops, {"same", "delete"}) = same /\ OfKind(ops, {"same", "insert"}) = same
    <3>1. /\ {k \in DOMAIN ops : ops[k].kind \in {"same", "delete"}} = {k \in DOMAIN ops : ops[k].kind \in {"same"}}
          /\ {k \in DOMAIN ops : ops[k].kind \in {"same", "insert"}} = {k \in DOMAIN ops : ops[k].kind \in {"same"}}
      BY <1>6
    <3>2. QED
      BY <3>1 DEF OfKind
  <2>2. /\ Lefts(same, 1, n + 1 - 1) /\ Rights(same, 1, m + 1 - 1)
        /\ Matches(same, left, right, Common(left, right)[start])
    BY <1>2, <1>3, <1>4, <2>1 DEF Accounts
  <2> HIDE DEF same
  <2>3. n = m /\ Len(same) = n
    BY <1>2, <2>2 DEF Lefts, Rights
  <2>4. \A k \in 1 .. n : left[k] = right[k]
    <3> SUFFICES ASSUME NEW k \in 1 .. n PROVE left[k] = right[k]
      OBVIOUS
    <3>1. same[k].left = 1 + k - 1 /\ same[k].right = 1 + k - 1 /\ left[same[k].left] = right[same[k].right]
      BY <2>2, <2>3 DEF Lefts, Rights, Matches
    <3>2. 1 + k - 1 = k
      BY <1>2
    <3>3. QED
      BY <3>1, <3>2
  <2>5. QED
    BY <2>3, <2>4, SeqEqual
<1>7. QED
  BY <1>1, <1>5, <1>6

-----------------------------------------------------------------------------
(* Hunks.                                                                  *)

Spans == [from : Nat, to : Nat]
Meets(hunks, from) == hunks # <<>> /\ from <= hunks[Len(hunks)].to + 1

\* What a change does to the hunks before it.
LEMMA WithHunkIs ==
  ASSUME NEW hunks \in Seq(Spans), NEW from \in Nat, NEW to \in Nat, NEW w,
         w = WithHunk(hunks, from, to)
  PROVE  /\ w \in Seq(Spans) /\ Len(hunks) \in Nat
         /\ Meets(hunks, from) =>
              /\ Len(w) = Len(hunks) /\ Len(hunks) \in 1 .. Len(hunks)
              /\ \A h \in 1 .. Len(hunks) : h # Len(hunks) => w[h] = hunks[h]
              /\ w[Len(hunks)].from = hunks[Len(hunks)].from
              /\ w[Len(hunks)].to = Larger(hunks[Len(hunks)].to, to)
         /\ ~Meets(hunks, from) =>
              /\ Len(w) = Len(hunks) + 1
              /\ \A h \in 1 .. Len(hunks) : w[h] = hunks[h]
              /\ w[Len(hunks) + 1].from = from /\ w[Len(hunks) + 1].to = to
<1> DEFINE n == Len(hunks)
<1>1. n \in Nat
  BY LenProperties
<1>2. ASSUME Meets(hunks, from)
      PROVE  /\ w \in Seq(Spans) /\ Len(w) = n /\ n \in 1 .. n
             /\ \A h \in 1 .. n : h # n => w[h] = hunks[h]
             /\ w[n].from = hunks[n].from /\ w[n].to = Larger(hunks[n].to, to)
  <2>1. n \in 1 .. n
    <3>1. n # 0
      BY <1>2, EmptySeq DEF Meets
    <3>2. QED
      BY <1>1, <3>1
  <2>2. hunks[n] \in Spans
    BY <2>1, ElementOfSeq
  <2> DEFINE span == [hunks[n] EXCEPT !.to = Larger(hunks[n].to, to)]
  <2>3. w = [hunks EXCEPT ![n] = span]
    BY <1>2 DEF WithHunk, Meets
  <2>4. span \in Spans /\ span.from = hunks[n].from /\ span.to = Larger(hunks[n].to, to)
    BY <2>2 DEF Spans, Larger
  <2> HIDE DEF span
  <2>5. w \in Seq(Spans) /\ Len(w) = n /\ w[n] = span /\ \A h \in 1 .. n : h # n => w[h] = hunks[h]
    <3>1. w \in Seq(Spans) /\ Len(w) = n
      BY <2>1, <2>3, <2>4, ExceptSeq
    <3>2. DOMAIN hunks = 1 .. n
      BY LenProperties
    <3>3. QED
      BY <2>1, <2>3, <3>1, <3>2
  <2>6. QED
    BY <2>1, <2>4, <2>5
<1>3. ASSUME ~Meets(hunks, from)
      PROVE  /\ w \in Seq(Spans) /\ Len(w) = n + 1
             /\ \A h \in 1 .. n : w[h] = hunks[h]
             /\ w[n + 1].from = from /\ w[n + 1].to = to
  <2> DEFINE span == [from |-> from, to |-> to]
  <2>1. w = Append(hunks, span)
    BY <1>3 DEF WithHunk, Meets
  <2>2. span \in Spans /\ span.from = from /\ span.to = to
    BY DEF Spans
  <2> HIDE DEF span
  <2>3. w \in Seq(Spans) /\ Len(w) = n + 1 /\ w[n + 1] = span /\ \A h \in 1 .. n : w[h] = hunks[h]
    BY <2>1, <2>2, AppendProperties
  <2>4. QED
    BY <2>2, <2>3
<1>4. QED
  BY <1>1, <1>2, <1>3

FirstNear(k, context) == Larger(1, k - context)
LastNear(k, context, n) == Smaller(n, k + context)
HunksAt(ops, context, upto, k) ==
  IF k = 0 THEN <<>>
  ELSE IF ops[k].kind = "same" THEN upto[k - 1]
  ELSE WithHunk(upto[k - 1], FirstNear(k, context), LastNear(k, context, Len(ops)))

\* Turn t lies within the context of one of the first k edits that is a change.
Near(ops, context, k, t) ==
  \E c \in 1 .. k : ops[c].kind # "same" /\ c - t <= context /\ t - c <= context
Showing(hunks, t) == \E h \in 1 .. Len(hunks) : hunks[h].from <= t /\ t <= hunks[h].to

\* The hunks of the first k edits.
HunksOf(hunks, ops, context, k) ==
  /\ hunks \in Seq(Spans)
  /\ \A t \in 1 .. Len(ops) : Showing(hunks, t) <=> Near(ops, context, k, t)
  /\ \A h \in 1 .. Len(hunks) : /\ 1 <= hunks[h].from /\ hunks[h].from <= FirstNear(k, context)
                                /\ hunks[h].to <= Len(ops)
  /\ \A h \in 1 .. Len(hunks) - 1 : hunks[h].to + 1 < hunks[h + 1].from

\* A change shows its turns and leaves what was shown.
LEMMA ShownWith ==
  ASSUME NEW hunks \in Seq(Spans), NEW from \in Nat, NEW to \in Nat, NEW w,
         w = WithHunk(hunks, from, to), NEW t \in Nat,
         \A h \in 1 .. Len(hunks) : hunks[h].from <= from
  PROVE  Showing(w, t) <=> Showing(hunks, t) \/ (from <= t /\ t <= to)
<1> DEFINE n == Len(hunks)
           Holds(s, h) == s[h].from <= t /\ t <= s[h].to
<1>1. /\ w \in Seq(Spans) /\ n \in Nat
      /\ Meets(hunks, from) =>
           /\ Len(w) = n /\ n \in 1 .. n
           /\ \A h \in 1 .. n : h # n => w[h] = hunks[h]
           /\ w[n].from = hunks[n].from
           /\ w[n].to = Larger(hunks[n].to, to)
      /\ ~Meets(hunks, from) =>
           /\ Len(w) = n + 1
           /\ \A h \in 1 .. n : w[h] = hunks[h]
           /\ w[n + 1].from = from /\ w[n + 1].to = to
  BY WithHunkIs
<1>2. /\ Showing(w, t) <=> \E h \in 1 .. Len(w) : Holds(w, h)
      /\ Showing(hunks, t) <=> \E h \in 1 .. n : Holds(hunks, h)
  BY DEF Showing
<1>3. CASE Meets(hunks, from)
  <2>1. hunks[n].from \in Nat /\ hunks[n].to \in Nat
    <3>1. hunks[n] \in Spans
      BY <1>1, <1>3, ElementOfSeq
    <3>2. QED
      BY <3>1 DEF Spans
  <2>2. hunks[n].from <= from /\ from <= hunks[n].to + 1
    BY <1>1, <1>3 DEF Meets
  <2>3. Holds(w, n) <=> Holds(hunks, n) \/ (from <= t /\ t <= to)
    <3>1. \A a, b \in Nat : a <= from /\ from <= b + 1 =>
            (a <= t /\ t <= Larger(b, to)) <=> ((a <= t /\ t <= b) \/ (from <= t /\ t <= to))
      BY DEF Larger
    <3>2. QED
      BY <1>1, <1>3, <2>1, <2>2, <3>1
  <2>4. \A h \in 1 .. n : h # n => (Holds(w, h) <=> Holds(hunks, h))
    BY <1>1, <1>3
  <2>5. Len(w) = n /\ n \in 1 .. n
    BY <1>1, <1>3
  <2> HIDE DEF Holds, n
  <2>6. QED
    BY <1>2, <2>3, <2>4, <2>5
<1>4. CASE ~Meets(hunks, from)
  <2>1. Holds(w, n + 1) <=> from <= t /\ t <= to
    BY <1>1, <1>4
  <2>2. \A h \in 1 .. n : Holds(w, h) <=> Holds(hunks, h)
    BY <1>1, <1>4
  <2>3. Len(w) = n + 1 /\ n \in Nat
    BY <1>1, <1>4
  <2> HIDE DEF Holds, n
  <2>4. \A h : h \in 1 .. n + 1 <=> h \in 1 .. n \/ h = n + 1
    BY <2>3
  <2>5. QED
    BY <1>2, <2>1, <2>2, <2>3, <2>4
<1>5. QED
  BY <1>3, <1>4

\* And keeps the hunks apart.
LEMMA ApartWith ==
  ASSUME NEW hunks \in Seq(Spans), NEW from \in Nat, NEW to \in Nat, NEW w,
         w = WithHunk(hunks, from, to),
         \A h \in 1 .. Len(hunks) - 1 : hunks[h].to + 1 < hunks[h + 1].from
  PROVE  \A h \in 1 .. Len(w) - 1 : w[h].to + 1 < w[h + 1].from
<1> DEFINE n == Len(hunks)
<1>1. /\ w \in Seq(Spans) /\ n \in Nat
      /\ Meets(hunks, from) =>
           /\ Len(w) = n /\ n \in 1 .. n
           /\ \A h \in 1 .. n : h # n => w[h] = hunks[h]
           /\ w[n].from = hunks[n].from
      /\ ~Meets(hunks, from) =>
           /\ Len(w) = n + 1
           /\ \A h \in 1 .. n : w[h] = hunks[h]
           /\ w[n + 1].from = from
  BY WithHunkIs
<1> SUFFICES ASSUME NEW h \in 1 .. Len(w) - 1 PROVE w[h].to + 1 < w[h + 1].from
  OBVIOUS
<1>2. CASE Meets(hunks, from)
  <2>1. h \in 1 .. n - 1 /\ h \in 1 .. n /\ h # n /\ h + 1 \in 1 .. n
    BY <1>1, <1>2
  <2>2. w[h] = hunks[h] /\ w[h + 1].from = hunks[h + 1].from
    BY <1>1, <1>2, <2>1
  <2>3. QED
    BY <2>1, <2>2
<1>3. CASE ~Meets(hunks, from)
  <2>1. h \in 1 .. n
    BY <1>1, <1>3
  <2>2. CASE h = n
    <3>1. hunks # <<>>
      BY <2>1, <2>2, EmptySeq
    <3>2. hunks[n].to \in Nat
      <4>1. hunks[n] \in Spans
        BY <2>1, <2>2, ElementOfSeq
      <4>2. QED
        BY <4>1 DEF Spans
    <3>3. hunks[n].to + 1 < from
      BY <1>3, <3>1, <3>2 DEF Meets
    <3>4. QED
      BY <1>1, <1>3, <2>1, <2>2, <3>3
  <2>3. CASE h # n
    <3>1. h \in 1 .. n - 1 /\ h + 1 \in 1 .. n
      BY <1>1, <2>1, <2>3
    <3>2. QED
      BY <1>1, <1>3, <2>1, <3>1
  <2>4. QED
    BY <2>2, <2>3
<1>4. QED
  BY <1>2, <1>3

\* The hunks of one more edit.
LEMMA HunksStep ==
  ASSUME NEW ops \in Seq(Ops), NEW context \in Nat, NEW k \in 1 .. Len(ops), NEW upto,
         HunksOf(upto[k - 1], ops, context, k - 1)
  PROVE  HunksOf(HunksAt(ops, context, upto, k), ops, context, k)
<1> DEFINE hunks == upto[k - 1]
           w == HunksAt(ops, context, upto, k)
           n == Len(ops)
           from == FirstNear(k, context)
           to == LastNear(k, context, n)
<1>1. n \in Nat /\ k \in Nat /\ k >= 1 /\ k <= n
  BY LenProperties
<1>2. /\ from \in Nat /\ 1 <= from /\ FirstNear(k - 1, context) \in Nat /\ FirstNear(k - 1, context) <= from
      /\ to \in Nat /\ to <= n
      /\ \A t \in 1 .. n : from <= t /\ t <= to <=> k - t <= context /\ t - k <= context
  BY <1>1 DEF FirstNear, LastNear, Larger, Smaller
<1> HIDE DEF from, to, hunks
<1>3. /\ hunks \in Seq(Spans)
      /\ \A t \in 1 .. n : Showing(hunks, t) <=> Near(ops, context, k - 1, t)
      /\ \A h \in 1 .. Len(hunks) : 1 <= hunks[h].from /\ hunks[h].from <= FirstNear(k - 1, context) /\ hunks[h].to <= n
      /\ \A h \in 1 .. Len(hunks) - 1 : hunks[h].to + 1 < hunks[h + 1].from
  BY DEF HunksOf, hunks
<1>4. \A h \in 1 .. Len(hunks) : hunks[h].from \in Nat /\ hunks[h].to \in Nat /\ hunks[h].from <= from
  <2>1. \A h \in 1 .. Len(hunks) : hunks[h] \in Spans
    BY <1>3, ElementOfSeq
  <2>2. \A h \in 1 .. Len(hunks) : hunks[h].from \in Nat /\ hunks[h].to \in Nat
    BY <2>1 DEF Spans
  <2>3. \A i, j, l \in Nat : i <= j /\ j <= l => i <= l
    OBVIOUS
  <2>4. QED
    BY <1>2, <1>3, <2>2, <2>3
<1>5. \A t \in 1 .. n : Near(ops, context, k, t) <=>
        Near(ops, context, k - 1, t) \/ (ops[k].kind # "same" /\ k - t <= context /\ t - k <= context)
  <2>1. \A c : c \in 1 .. k <=> c \in 1 .. k - 1 \/ c = k
    BY <1>1
  <2>2. QED
    BY <2>1 DEF Near
<1>6. CASE ops[k].kind = "same"
  <2>1. w = hunks
    BY <1>1, <1>6 DEF HunksAt, hunks
  <2>2. \A t \in 1 .. n : Near(ops, context, k, t) <=> Near(ops, context, k - 1, t)
    BY <1>5, <1>6
  <2> HIDE DEF w, n
  <2>3. HunksOf(w, ops, context, k)
    BY <1>3, <1>4, <2>1, <2>2 DEF HunksOf, from, n
  <2>4. QED
    BY <2>3 DEF w
<1>7. CASE ops[k].kind # "same"
  <2>1. w = WithHunk(hunks, from, to)
    BY <1>1, <1>7 DEF HunksAt, hunks, from, to
  <2> HIDE DEF w
  <2>2. w \in Seq(Spans)
    BY <1>2, <1>3, <2>1, WithHunkIs
  <2>3. \A t \in 1 .. n : Showing(w, t) <=> Near(ops, context, k, t)
    <3> SUFFICES ASSUME NEW t \in 1 .. n PROVE Showing(w, t) <=> Near(ops, context, k, t)
      OBVIOUS
    <3>1. Showing(w, t) <=> Showing(hunks, t) \/ (from <= t /\ t <= to)
      <4>1. t \in Nat
        OBVIOUS
      <4>2. QED
        BY <1>2, <1>3, <1>4, <2>1, <4>1, ShownWith
    <3>2. QED
      BY <1>2, <1>3, <1>5, <1>7, <3>1
  <2>4. \A h \in 1 .. Len(w) : 1 <= w[h].from /\ w[h].from <= from /\ w[h].to <= n
    <3> SUFFICES ASSUME NEW h \in 1 .. Len(w)
                 PROVE  1 <= w[h].from /\ w[h].from <= from /\ w[h].to <= n
      OBVIOUS
    <3>1. CASE Meets(hunks, from)
      <4>1. /\ Len(w) = Len(hunks) /\ Len(hunks) \in 1 .. Len(hunks)
            /\ h # Len(hunks) => w[h] = hunks[h]
            /\ w[Len(hunks)].from = hunks[Len(hunks)].from
            /\ w[Len(hunks)].to = Larger(hunks[Len(hunks)].to, to)
        BY <1>2, <1>3, <2>1, <3>1, WithHunkIs
      <4>2. QED
        BY <1>2, <1>3, <1>4, <4>1 DEF Larger
    <3>2. CASE ~Meets(hunks, from)
      <4>1. /\ Len(w) = Len(hunks) + 1 /\ Len(hunks) \in Nat
            /\ h \in 1 .. Len(hunks) => w[h] = hunks[h]
            /\ w[Len(hunks) + 1].from = from /\ w[Len(hunks) + 1].to = to
        BY <1>2, <1>3, <2>1, <3>2, WithHunkIs
      <4>2. h \in 1 .. Len(hunks) \/ h = Len(hunks) + 1
        BY <4>1
      <4>3. QED
        BY <1>2, <1>3, <1>4, <4>1, <4>2
    <3>3. QED
      BY <3>1, <3>2
  <2>5. \A h \in 1 .. Len(w) - 1 : w[h].to + 1 < w[h + 1].from
    BY <1>2, <1>3, <2>1, ApartWith
  <2>6. HunksOf(w, ops, context, k)
    BY <2>2, <2>3, <2>4, <2>5 DEF HunksOf, from
  <2>7. QED
    BY <2>6 DEF w
<1>8. QED
  BY <1>6, <1>7

UptoIs(ops, context, upto) ==
  upto = [k \in 0 .. Len(ops) |-> HunksAt(ops, context, upto, k)]

LEMMA UptoExists ==
  ASSUME NEW ops \in Seq(Ops), NEW context \in Nat
  PROVE  \E upto : UptoIs(ops, context, upto)
<1> DEFINE n == Len(ops)
           P == 0 .. n
           D == Seq(Spans)
           F == [x \in P \X [P -> D] |-> HunksAt(ops, context, x[2], x[1])]
           M == [k \in P |-> k]
           b == n + 1
<1>1. n \in Nat
  BY LenProperties
<1>2. \A k \in P : \A f \in [P -> D] :
        HunksAt(ops, context, f, k) \in D /\ F[<<k, f>>] = HunksAt(ops, context, f, k)
  <2> SUFFICES ASSUME NEW k \in P, NEW f \in [P -> D] PROVE HunksAt(ops, context, f, k) \in D
    OBVIOUS
  <2>1. <<>> \in D
    BY EmptySeq
  <2>2. ASSUME k # 0 PROVE f[k - 1] \in D /\ FirstNear(k, context) \in Nat /\ LastNear(k, context, n) \in Nat
    <3>1. k - 1 \in P /\ FirstNear(k, context) \in Nat /\ LastNear(k, context, n) \in Nat
      BY <1>1, <2>2 DEF FirstNear, LastNear, Larger, Smaller
    <3> HIDE DEF D, P
    <3>2. QED
      BY <3>1
  <2>3. k # 0 => WithHunk(f[k - 1], FirstNear(k, context), LastNear(k, context, n)) \in D
    BY <2>2, WithHunkIs
  <2> HIDE DEF D
  <2>4. QED
    BY <2>1, <2>2, <2>3 DEF HunksAt
<1>3. F \in [P \X [P -> D] -> D]
  <2>1. \A x \in P \X [P -> D] : HunksAt(ops, context, x[2], x[1]) \in D
    <3> HIDE DEF D, P
    <3>1. QED
      BY <1>2
  <2> HIDE DEF D, P
  <2>2. QED
    BY <2>1
<1>4. M \in [P -> Nat] /\ b \in Nat /\ \A k \in P : M[k] < b /\ M[k] = k
  BY <1>1
<1>5. \A k \in P : \A f, g \in [P -> D] :
        (\A j \in P : M[j] < M[k] => f[j] = g[j]) => F[<<k, f>>] = F[<<k, g>>]
  <2> SUFFICES ASSUME NEW k \in P, NEW f \in [P -> D], NEW g \in [P -> D],
                      \A j \in P : M[j] < M[k] => f[j] = g[j]
               PROVE  F[<<k, f>>] = F[<<k, g>>]
    OBVIOUS
  <2>1. k # 0 => f[k - 1] = g[k - 1]
    <3>1. k # 0 => k - 1 \in P /\ k - 1 < k
      BY <1>1
    <3> HIDE DEF P, D, M, F
    <3>2. QED
      BY <1>4, <3>1
  <2>2. HunksAt(ops, context, f, k) = HunksAt(ops, context, g, k)
    BY <2>1 DEF HunksAt
  <2> HIDE DEF F, P, D
  <2>3. QED
    BY <1>2, <2>2
<1>6. PICK f \in [P -> D] : \A k \in P : f[k] = F[<<k, f>>]
  <2>1. D # {}
    BY EmptySeq
  <2>2. M \in [P -> Nat] /\ b \in Nat
    BY <1>4
  <2>3. \A k \in P : M[k] < b
    BY <1>4
  <2> HIDE DEF P, D, F, M, b
  <2>4. Recursive(P, D, F, M, b)
    BY <1>3, <1>5, <2>1, <2>2, <2>3 DEF Recursive
  <2>5. QED
    BY <2>4, RecursionExists
<1>7. f = [k \in P |-> HunksAt(ops, context, f, k)]
  <2> HIDE DEF D, F, P
  <2>1. QED
    BY <1>2, <1>6
<1>8. QED
  BY <1>7 DEF UptoIs

LEMMA HunksAre ==
  ASSUME NEW ops \in Seq(Ops), NEW context \in Nat
  PROVE  HunksOf(Hunks(ops, context), ops, context, Len(ops))
<1> DEFINE upto == CHOOSE upto : UptoIs(ops, context, upto)
           n == Len(ops)
           Wrong == {k \in 0 .. n : ~HunksOf(upto[k], ops, context, k)}
<1>1. n \in Nat
  BY LenProperties
<1>2. Hunks(ops, context) = upto[n]
  BY DEF Hunks, UptoIs, HunksAt, FirstNear, LastNear
<1>3. UptoIs(ops, context, upto)
  BY UptoExists
<1> HIDE DEF upto
<1>4. \A k \in 0 .. n : upto[k] = HunksAt(ops, context, upto, k)
  BY <1>3 DEF UptoIs
<1>5. Wrong = {}
  <2> SUFFICES ASSUME Wrong # {} PROVE FALSE
    OBVIOUS
  <2>1. PICK k \in Wrong : \A j \in Wrong : k <= j
    <3>1. Wrong \subseteq Nat
      OBVIOUS
    <3> HIDE DEF Wrong
    <3>2. QED
      BY <3>1, LeastExists
  <2>2. CASE k = 0
    <3>1. upto[k] = <<>>
      BY <1>1, <1>4, <2>2 DEF HunksAt
    <3>2. <<>> \in Seq(Spans) /\ Len(<<>>) = 0
      BY EmptySeq
    <3>3. HunksOf(<<>>, ops, context, 0)
      BY <3>2 DEF HunksOf, Showing, Near
    <3>4. QED
      BY <2>1, <2>2, <3>1, <3>3
  <2>3. CASE k # 0
    <3>1. k \in 1 .. n /\ k - 1 \in 0 .. n /\ k - 1 < k /\ k \in 0 .. n
      BY <1>1, <2>1, <2>3
    <3>2. k - 1 \notin Wrong
      <4> HIDE DEF Wrong
      <4>1. QED
        BY <2>1, <3>1
    <3>3. HunksOf(upto[k - 1], ops, context, k - 1)
      BY <3>1, <3>2
    <3>4. HunksOf(upto[k], ops, context, k)
      BY <1>4, <3>1, <3>3, HunksStep
    <3>5. QED
      BY <2>1, <3>4
  <2>4. QED
    BY <2>2, <2>3
<1>6. QED
  BY <1>1, <1>2, <1>5

\* For every list of edits and every context: the hunks that diff prints show every
\* change with its context, nothing that is not near a change, and nothing twice;
\* two hunks that touch are one (commands/diff/render.rs).
THEOREM HunksCorrect ==
  ASSUME NEW ops \in Seq(Ops), NEW context \in Nat
  PROVE  HunksAreExact(ops, context)
<1> DEFINE hunks == Hunks(ops, context)
           n == Len(ops)
           shown == UNION {hunks[h].from .. hunks[h].to : h \in DOMAIN hunks}
           near == {k \in DOMAIN ops : \E c \in DOMAIN ops :
                        ops[c].kind # "same" /\ c - k <= context /\ k - c <= context}
<1>1. /\ hunks \in Seq(Spans)
      /\ \A t \in 1 .. n : Showing(hunks, t) <=> Near(ops, context, n, t)
      /\ \A h \in 1 .. Len(hunks) : 1 <= hunks[h].from /\ hunks[h].to <= n
      /\ \A h \in 1 .. Len(hunks) - 1 : hunks[h].to + 1 < hunks[h + 1].from
  BY HunksAre DEF HunksOf
<1> HIDE DEF hunks
<1>2. n \in Nat /\ DOMAIN ops = 1 .. n /\ DOMAIN hunks = 1 .. Len(hunks)
  BY <1>1, LenProperties
<1>3. \A h \in 1 .. Len(hunks) : hunks[h].from \in Nat /\ hunks[h].to \in Nat
  <2>1. \A h \in 1 .. Len(hunks) : hunks[h] \in Spans
    BY <1>1, ElementOfSeq
  <2>2. QED
    BY <2>1 DEF Spans
<1>4. \A t : t \in shown <=> t \in 1 .. n /\ Showing(hunks, t)
  <2> TAKE t
  <2>1. t \in shown <=> \E h \in 1 .. Len(hunks) : t \in hunks[h].from .. hunks[h].to
    BY <1>2
  <2>2. \A h \in 1 .. Len(hunks) : t \in hunks[h].from .. hunks[h].to
            <=> t \in 1 .. n /\ hunks[h].from <= t /\ t <= hunks[h].to
    BY <1>1, <1>2, <1>3
  <2>3. QED
    BY <2>1, <2>2 DEF Showing
<1>5. \A t : t \in near <=> t \in 1 .. n /\ Near(ops, context, n, t)
  BY <1>2 DEF Near
<1>6. shown = near
  <2> HIDE DEF shown, near
  <2>1. QED
    BY <1>1, <1>4, <1>5
<1>7. QED
  BY <1>1, <1>6 DEF HunksAreExact, hunks

(***************************************************************************)
(* Sorting.                                                                *)
(***************************************************************************)

\* The pairs are a strict order of S.
Orders(before, S) ==
  /\ \A m \in S : <<m, m>> \notin before
  /\ \A m, n \in S : m # n => <<m, n>> \in before \/ <<n, m>> \in before
  /\ \A m, n, k \in S : <<m, n>> \in before /\ <<n, k>> \in before => <<m, k>> \in before

Preceding(S, before, m) == {n \in S : <<n, m>> \in before}

\* s holds the elements of S, each once and in order.
InOrderOf(s, S, before) ==
  /\ Cardinality(S) \in Nat /\ s \in [1 .. Cardinality(S) -> S]
  /\ \A m \in S : \E i \in 1 .. Cardinality(S) : s[i] = m
  /\ \A i, j \in 1 .. Cardinality(S) : i < j => <<s[i], s[j]>> \in before
  /\ \A i, j \in 1 .. Cardinality(S) : s[i] = s[j] => i = j
  /\ \A i \in 1 .. Cardinality(S) : Cardinality(Preceding(S, before, s[i])) = i - 1

LEMMA RanksOf ==
  ASSUME NEW S, IsFiniteSet(S), NEW before, Orders(before, S), NEW m \in S
  PROVE  /\ Cardinality(S) \in Nat
         /\ Cardinality(Preceding(S, before, m)) \in 0 .. Cardinality(S) - 1
         /\ \A n \in S : <<n, m>> \in before =>
                Cardinality(Preceding(S, before, n)) < Cardinality(Preceding(S, before, m))
<1> DEFINE up(n) == Preceding(S, before, n)
<1>1. /\ Cardinality(S) \in Nat
      /\ \A n \in S : up(n) \subseteq S /\ n \notin up(n)
      /\ \A n \in S : <<n, m>> \in before => up(n) \subseteq up(m) /\ n \in up(m)
  BY FS_CardinalityType DEF Orders, Preceding
<1>2. \A n \in S : IsFiniteSet(up(n)) /\ Cardinality(up(n)) \in Nat
  BY <1>1, FS_Subset, FS_CardinalityType
<1>3. Cardinality(up(m)) <= Cardinality(S) /\ Cardinality(up(m)) # Cardinality(S)
  BY <1>1, FS_Subset
<1>4. ASSUME NEW n \in S, <<n, m>> \in before
      PROVE  Cardinality(up(n)) <= Cardinality(up(m)) /\ Cardinality(up(n)) # Cardinality(up(m))
  <2>1. up(n) \subseteq up(m) /\ n \in up(m) /\ n \notin up(n) /\ IsFiniteSet(up(m))
    BY <1>1, <1>2, <1>4
  <2> HIDE DEF up
  <2>2. QED
    BY <2>1, FS_Subset
<1> HIDE DEF up
<1>5. QED
  BY <1>1, <1>2, <1>3, <1>4 DEF up

LEMMA InOrderIs ==
  ASSUME NEW S, IsFiniteSet(S), NEW before, Orders(before, S)
  PROVE  InOrderOf(InOrder(S, before), S, before)
<1> DEFINE n == Cardinality(S)
           up(m) == Preceding(S, before, m)
           rank == [m \in S |-> Cardinality(up(m)) + 1]
           s == InOrder(S, before)
<1>1. n \in Nat
  BY FS_CardinalityType
<1>2. \A m \in S : Cardinality(up(m)) \in 0 .. n - 1 /\ rank[m] = Cardinality(up(m)) + 1 /\ rank[m] \in 1 .. n
  <2>1. \A m \in S : Cardinality(up(m)) \in 0 .. n - 1
    BY RanksOf
  <2> HIDE DEF up, n
  <2>2. QED
    BY <1>1, <2>1
<1>3. \A m, k \in S : m # k => Cardinality(up(m)) # Cardinality(up(k))
  <2> SUFFICES ASSUME NEW m \in S, NEW k \in S, m # k PROVE Cardinality(up(m)) # Cardinality(up(k))
    OBVIOUS
  <2>1. <<m, k>> \in before \/ <<k, m>> \in before
    BY DEF Orders
  <2>2. Cardinality(up(m)) < Cardinality(up(k)) \/ Cardinality(up(k)) < Cardinality(up(m))
    BY <2>1, RanksOf
  <2> HIDE DEF up
  <2>3. QED
    BY <1>2, <2>2
<1>4. rank \in [S -> 1 .. n] /\ \A m, k \in S : rank[m] = rank[k] => m = k
  <2>1. rank \in [S -> 1 .. n]
    BY <1>2
  <2> HIDE DEF rank, up
  <2>2. \A m, k \in S : rank[m] = rank[k] => Cardinality(up(m)) = Cardinality(up(k))
    BY <1>2
  <2>3. QED
    BY <1>3, <2>1, <2>2
<1> HIDE DEF rank
<1>5. \A i \in 1 .. n : \E m \in S : rank[m] = i
  <2>1. rank \in Injection(S, 1 .. n)
    BY <1>4, Fun_IsInj
  <2>2. IsFiniteSet(1 .. n) /\ Cardinality(1 .. n) = n
    BY <1>1, FS_Interval
  <2>3. rank \in Surjection(S, 1 .. n)
    BY <2>1, <2>2, FS_Injection
  <2>4. QED
    BY <2>3, Fun_SurjectionProperties
<1>6. s = [i \in 1 .. n |-> CHOOSE m \in S : Cardinality(up(m)) = i - 1]
  BY DEF InOrder, Preceding
<1>7. \A i \in 1 .. n : \E m \in S : Cardinality(up(m)) = i - 1
  <2> SUFFICES ASSUME NEW i \in 1 .. n PROVE \E m \in S : Cardinality(up(m)) = i - 1
    OBVIOUS
  <2>1. PICK m \in S : rank[m] = i
    BY <1>5
  <2>2. Cardinality(up(m)) \in Int /\ Cardinality(up(m)) + 1 = i
    BY <1>2, <2>1
  <2> HIDE DEF up
  <2>3. Cardinality(up(m)) = i - 1
    BY <2>2
  <2>4. QED
    BY <2>3
<1> HIDE DEF s, n
<1>8. \A i \in 1 .. n : s[i] \in S /\ Cardinality(up(s[i])) = i - 1
  BY <1>6, <1>7
<1>9. s \in [1 .. n -> S]
  BY <1>6, <1>8
<1> HIDE DEF up
<1>10. \A m \in S : \E i \in 1 .. n : s[i] = m
  <2> SUFFICES ASSUME NEW m \in S PROVE \E i \in 1 .. n : s[i] = m
    OBVIOUS
  <2> DEFINE i == Cardinality(up(m)) + 1
  <2>1. i \in 1 .. n /\ i - 1 = Cardinality(up(m))
    BY <1>1, <1>2
  <2>2. s[i] \in S /\ Cardinality(up(s[i])) = Cardinality(up(m))
    BY <1>8, <2>1
  <2>3. QED
    BY <1>3, <2>1, <2>2
<1>11. \A i, j \in 1 .. n : s[i] = s[j] => i = j
  <2>1. \A i, j \in 1 .. n : s[i] = s[j] => i - 1 = j - 1
    BY <1>8
  <2>2. \A i, j \in 1 .. n : i - 1 = j - 1 => i = j
    BY <1>1
  <2>3. QED
    BY <2>1, <2>2
<1>12. ASSUME NEW i \in 1 .. n, NEW j \in 1 .. n, i < j PROVE <<s[i], s[j]>> \in before
  <2>1. s[i] \in S /\ s[j] \in S /\ s[i] # s[j]
    BY <1>1, <1>8, <1>11, <1>12
  <2>2. <<s[j], s[i]>> \in before => j - 1 < i - 1
    BY <1>8, <2>1, RanksOf DEF up
  <2>3. ~(j - 1 < i - 1)
    BY <1>1, <1>12
  <2>4. QED
    BY <2>1, <2>2, <2>3 DEF Orders
<1>13. QED
  BY <1>1, <1>8, <1>9, <1>10, <1>11, <1>12 DEF InOrderOf, n, s, up

-----------------------------------------------------------------------------
Distinct(s) == \A i, j \in 1 .. Len(s) : s[i] = s[j] => i = j

LEMMA CutIs ==
  ASSUME NEW S, NEW s \in Seq(S), NEW n \in Nat
  PROVE  /\ Cut(s, n) \in Seq(S)
         /\ Len(Cut(s, n)) = IF n <= Len(s) THEN n ELSE Len(s)
         /\ \A i \in 1 .. Len(Cut(s, n)) : Cut(s, n)[i] = s[i] /\ i \in 1 .. Len(s)
<1> DEFINE m == IF n <= Len(s) THEN n ELSE Len(s)
<1>1. Len(s) \in Nat
  BY LenProperties
<1>2. Min({n, Len(s)}) = m
  BY <1>1 DEF Min
<1>3. Cut(s, n) = SubSeq(s, 1, m)
  BY <1>2 DEF Cut
<1>4. m \in Nat /\ 1 \in Int /\ \A i \in 1 .. m : s[i] \in S /\ i \in 1 .. Len(s)
  <2>1. m \in Nat /\ \A i \in 1 .. m : i \in 1 .. Len(s)
    BY <1>1
  <2>2. QED
    BY <2>1, ElementOfSeq
<1> HIDE DEF m
<1>5. /\ SubSeq(s, 1, m) \in Seq(S)
      /\ Len(SubSeq(s, 1, m)) = IF 1 <= m THEN m - 1 + 1 ELSE 0
      /\ \A i \in 1 .. m - 1 + 1 : SubSeq(s, 1, m)[i] = s[1 + i - 1]
  BY <1>4, SubSeqProperties
<1>6. Len(Cut(s, n)) = m
  BY <1>3, <1>4, <1>5
<1>7. \A i \in 1 .. m : i \in 1 .. m - 1 + 1 /\ 1 + i - 1 = i
  BY <1>4
<1>8. QED
  BY <1>3, <1>4, <1>5, <1>6, <1>7 DEF m

LEMMA RangeFinite ==
  ASSUME NEW S, NEW s \in Seq(S)
  PROVE  /\ IsFiniteSet(Range(s)) /\ Range(s) \subseteq S
         /\ \A m : m \in Range(s) <=> \E i \in 1 .. Len(s) : s[i] = m
<1>1. /\ Len(s) \in Nat /\ DOMAIN s = 1 .. Len(s) /\ s \in [1 .. Len(s) -> S]
  BY LenProperties
<1>2. s \in Surjection(1 .. Len(s), Range(s))
  BY <1>1 DEF Range, Surjection
<1>3. IsFiniteSet(1 .. Len(s))
  BY <1>1, FS_Interval
<1>4. IsFiniteSet(Range(s))
  BY <1>2, <1>3, FS_Surjection
<1>5. QED
  BY <1>1, <1>4 DEF Range

\* Where a message stands in a ranking, as far as ranks are told apart.
LEMMA RankIs ==
  ASSUME NEW s \in Seq(Int), Distinct(s), NEW ranks \in Nat \ {0}, NEW m
  PROVE  /\ RankIn(s, m, ranks) \in Nat
         /\ m \notin Range(s) <=> RankIn(s, m, ranks) = 0
         /\ \A i \in 1 .. Len(s) : s[i] = m /\ i <= ranks => RankIn(s, m, ranks) = i
<1> DEFINE place == CHOOSE i \in DOMAIN s : s[i] = m
<1>1. Len(s) \in Nat /\ DOMAIN s = 1 .. Len(s)
  BY LenProperties
<1>2. CASE m \notin Range(s)
  BY <1>1, <1>2 DEF RankIn, Range
<1>3. CASE m \in Range(s)
  <2>1. place \in 1 .. Len(s) /\ s[place] = m
    BY <1>1, <1>3 DEF Range
  <2>2. RankIn(s, m, ranks) = Min({ranks, place})
    BY <1>3 DEF RankIn
  <2>3. \A i \in 1 .. Len(s) : s[i] = m => i = place
    BY <2>1 DEF Distinct
  <2> HIDE DEF place
  <2>4. place \in Nat /\ place >= 1
    BY <1>1, <2>1
  <2>5. Min({ranks, place}) = IF place <= ranks THEN place ELSE ranks
    BY <2>4 DEF Min
  <2>6. RankIn(s, m, ranks) \in Nat /\ RankIn(s, m, ranks) # 0
    BY <2>2, <2>4, <2>5
  <2>7. \A i \in 1 .. Len(s) : s[i] = m /\ i <= ranks => RankIn(s, m, ranks) = i
    BY <2>2, <2>3, <2>5
  <2>8. QED
    BY <1>3, <2>6, <2>7
<1>4. QED
  BY <1>2, <1>3

\* The k most similar vectors.
LEMMA TopKIs ==
  ASSUME NEW similar, IsFiniteSet(DOMAIN similar), DOMAIN similar \subseteq Int,
         \A m \in DOMAIN similar : similar[m] \in Int, NEW k \in Nat
  PROVE  /\ TopK(similar, k) \in Seq(DOMAIN similar) /\ Distinct(TopK(similar, k))
         /\ Cardinality(DOMAIN similar) \in Nat
         /\ Len(TopK(similar, k)) = IF k <= Cardinality(DOMAIN similar) THEN k
                                    ELSE Cardinality(DOMAIN similar)
         /\ Cardinality(DOMAIN similar) <= k => Range(TopK(similar, k)) = DOMAIN similar
<1> DEFINE D == DOMAIN similar
           n == Cardinality(D)
           before == MoreSimilar(similar)
           s == InOrder(D, before)
           t == TopK(similar, k)
<1>1. Orders(before, D)
  <2>1. \A a, b \in D : <<a, b>> \in before <=> similar[a] > similar[b] \/ (similar[a] = similar[b] /\ a < b)
    BY DEF MoreSimilar
  <2>2. \A a \in D : a \in Int /\ similar[a] \in Int
    OBVIOUS
  <2> HIDE DEF D, before
  <2>3. \A a \in D : <<a, a>> \notin before
    BY <2>1, <2>2
  <2>4. \A a, b \in D : a # b => <<a, b>> \in before \/ <<b, a>> \in before
    BY <2>1, <2>2
  <2>5. \A a, b, c \in D : <<a, b>> \in before /\ <<b, c>> \in before => <<a, c>> \in before
    BY <2>1, <2>2
  <2>6. QED
    BY <2>3, <2>4, <2>5 DEF Orders
<1>2. InOrderOf(s, D, before)
  BY <1>1, InOrderIs
<1>3. t = Cut(s, k)
  BY DEF TopK
<1> HIDE DEF s, before, t
<1>4. /\ n \in Nat /\ s \in [1 .. n -> D]
      /\ \A m \in D : \E i \in 1 .. n : s[i] = m
      /\ \A i, j \in 1 .. n : s[i] = s[j] => i = j
  BY <1>2 DEF InOrderOf
<1>5. s \in Seq(D) /\ Len(s) = n
  <2>1. s \in Seq(D)
    BY <1>4, SeqDef
  <2>2. DOMAIN s = 1 .. Len(s) /\ DOMAIN s = 1 .. n /\ Len(s) \in Nat
    BY <1>4, <2>1, LenProperties
  <2>3. QED
    BY <1>4, <2>1, <2>2
<1> HIDE DEF n
<1>6. /\ t \in Seq(D) /\ Len(t) = IF k <= n THEN k ELSE n
      /\ \A i \in 1 .. Len(t) : t[i] = s[i] /\ i \in 1 .. n
  <2>1. /\ Cut(s, k) \in Seq(D) /\ Len(Cut(s, k)) = IF k <= Len(s) THEN k ELSE Len(s)
        /\ \A i \in 1 .. Len(Cut(s, k)) : Cut(s, k)[i] = s[i] /\ i \in 1 .. Len(s)
    BY <1>5, CutIs
  <2>2. QED
    BY <1>3, <1>5, <2>1
<1>7. Distinct(t)
  BY <1>4, <1>6 DEF Distinct
<1>8. ASSUME n <= k PROVE Range(t) = D
  <2>1. Len(t) = n
    BY <1>4, <1>6, <1>8
  <2>2. \A m : m \in Range(t) <=> \E i \in 1 .. n : t[i] = m
    BY <1>6, <2>1, RangeFinite
  <2>3. \A i \in 1 .. n : t[i] = s[i] /\ s[i] \in D
    BY <1>4, <1>6, <2>1
  <2>4. \A m : m \in Range(t) <=> m \in D
    <3> HIDE DEF D
    <3>1. QED
      BY <1>4, <2>2, <2>3
  <2>5. QED
    BY <2>4
<1>9. QED
  BY <1>4, <1>6, <1>7, <1>8 DEF n, t

\* The candidates that pass.
LEMMA FetchedIs ==
  ASSUME NEW S, NEW keys \in Seq(S), Distinct(keys), NEW passing
  PROVE  /\ FetchFiltered(keys, passing) \in Seq(S) /\ Distinct(FetchFiltered(keys, passing))
         /\ Len(FetchFiltered(keys, passing)) <= Len(keys)
         /\ Range(FetchFiltered(keys, passing)) = Range(keys) \cap passing
<1> DEFINE I == {i \in DOMAIN keys : keys[i] \in passing}
           n == Len(keys)
           t == FetchFiltered(keys, passing)
<1>1. t = Picked(keys, I)
  BY DEF FetchFiltered
<1>2. n \in Nat /\ DOMAIN keys = 1 .. n
  BY LenProperties
<1>3. \A i : i \in (1 .. n) \cap I <=> i \in 1 .. n /\ keys[i] \in passing
  BY <1>2
<1> HIDE DEF I, t
<1>4. /\ t \in Seq(S) /\ Len(t) <= n
      /\ \A x : (\E j \in 1 .. Len(t) : t[j] = x) <=> (\E i \in (1 .. n) \cap I : keys[i] = x)
  <2>1. Picks(Picked(keys, I), keys, I, n, S)
    BY PickedIs
  <2>2. QED
    BY <1>1, <2>1 DEF Picks
<1>5. /\ \A i \in (1 .. n) \cap I : t[Place(I, i)] = keys[i]
      /\ \A j \in 1 .. Len(t) : \E i \in (1 .. n) \cap I : Place(I, i) = j
  BY <1>1, PickedInPlace DEF InPlace
<1>6. Distinct(t)
  <2> SUFFICES ASSUME NEW i \in 1 .. Len(t), NEW j \in 1 .. Len(t), t[i] = t[j] PROVE i = j
    BY DEF Distinct
  <2>1. PICK a \in (1 .. n) \cap I : Place(I, a) = i
    BY <1>5
  <2>2. PICK b \in (1 .. n) \cap I : Place(I, b) = j
    BY <1>5
  <2>3. keys[a] = keys[b]
    BY <1>5, <2>1, <2>2
  <2>4. a = b
    BY <2>3 DEF Distinct
  <2>5. QED
    BY <2>1, <2>2, <2>4
<1>7. \A m : m \in Range(t) <=> m \in Range(keys) /\ m \in passing
  <2>1. \A m : m \in Range(t) <=> \E j \in 1 .. Len(t) : t[j] = m
    BY <1>4, RangeFinite
  <2>2. \A m : m \in Range(keys) <=> \E i \in 1 .. n : keys[i] = m
    BY RangeFinite
  <2>3. QED
    BY <1>3, <1>4, <2>1, <2>2
<1>8. QED
  BY <1>4, <1>6, <1>7 DEF t

-----------------------------------------------------------------------------
(* Scores.                                                                 *)

LEMMA Times ==
  ASSUME NEW a \in Int, NEW b \in Int, NEW c \in Int, c > 0
  PROVE  /\ a >= b <=> a * c >= b * c
         /\ a * c \in Int
OBVIOUS

LEMMA Commutes == \A a, b, c \in Int : a * b = b * a /\ (a * b) * c = a * (b * c) /\ a * (b + c) = a * b + a * c
OBVIOUS

LEMMA Fractions ==
  ASSUME NEW n1 \in Int, NEW n2 \in Int, NEW n3 \in Int, NEW d1 \in Int, NEW d2 \in Int, NEW d3 \in Int,
         d1 > 0, d2 > 0, d3 > 0
  PROVE  /\ n1 * d2 >= n2 * d1 /\ n2 * d3 >= n3 * d2 => n1 * d3 >= n3 * d1
         /\ n1 * d2 > n2 * d1 /\ n2 * d3 >= n3 * d2 => n1 * d3 > n3 * d1
         /\ n1 * d2 >= n2 * d1 /\ n2 * d3 > n3 * d2 => n1 * d3 > n3 * d1
<1>1. /\ (n1 * d2) * d3 = (n1 * d3) * d2
      /\ (n2 * d1) * d3 = (n2 * d3) * d1
      /\ (n3 * d2) * d1 = (n3 * d1) * d2
  OBVIOUS
<1>2. /\ n1 * d2 \in Int /\ n2 * d1 \in Int /\ n2 * d3 \in Int /\ n3 * d2 \in Int /\ n1 * d3 \in Int /\ n3 * d1 \in Int
      /\ (n1 * d3) * d2 \in Int /\ (n3 * d1) * d2 \in Int /\ (n2 * d3) * d1 \in Int
  OBVIOUS
<1>3. /\ n1 * d2 >= n2 * d1 <=> (n1 * d2) * d3 >= (n2 * d1) * d3
      /\ n2 * d1 >= n1 * d2 <=> (n2 * d1) * d3 >= (n1 * d2) * d3
  BY <1>2, Times
<1>4. /\ n2 * d3 >= n3 * d2 <=> (n2 * d3) * d1 >= (n3 * d2) * d1
      /\ n3 * d2 >= n2 * d3 <=> (n3 * d2) * d1 >= (n2 * d3) * d1
  BY <1>2, Times
<1>5. /\ n1 * d3 >= n3 * d1 <=> (n1 * d3) * d2 >= (n3 * d1) * d2
      /\ n3 * d1 >= n1 * d3 <=> (n3 * d1) * d2 >= (n1 * d3) * d2
  BY <1>2, Times
<1> DEFINE A == n1 * d2
           B == n2 * d1
           C == n2 * d3
           D == n3 * d2
           E == n1 * d3
           F == n3 * d1
           AA == E * d2
           BB == C * d1
           CC == F * d2
<1>6. /\ A \in Int /\ B \in Int /\ C \in Int /\ D \in Int /\ E \in Int /\ F \in Int
      /\ AA \in Int /\ BB \in Int /\ CC \in Int
      /\ A >= B <=> AA >= BB
      /\ B >= A <=> BB >= AA
      /\ C >= D <=> BB >= CC
      /\ D >= C <=> CC >= BB
      /\ E >= F <=> AA >= CC
      /\ F >= E <=> CC >= AA
  BY <1>1, <1>2, <1>3, <1>4, <1>5
<1> HIDE DEF A, B, C, D, E, F, AA, BB, CC
<1>7. /\ A >= B /\ C >= D => E >= F
      /\ A > B /\ C >= D => E > F
      /\ A >= B /\ C > D => E > F
  BY <1>6
<1>8. QED
  BY <1>7 DEF A, B, C, D, E, F

Fraction == [num : Nat, den : Nat \ {0}]

LEMMA ScoreIs ==
  ASSUME NEW l \in Nat, NEW m \in Nat, NEW w \in 0 .. Weights, NEW K \in Nat \ {0}
  PROVE  Score(l, m, w, K) \in Fraction
<1>1. w \in Nat /\ Weights - w \in Nat /\ K + m \in Nat /\ K + l \in Nat /\ K + m # 0 /\ K + l # 0
  BY DEF Weights
<1>2. \A i, j \in Nat : i * j \in Nat /\ (i # 0 /\ j # 0 => i * j # 0)
  <2>1. \A i, j \in Int : i > 0 /\ j >= 0 => i * j >= 0 * j
    BY Times, Commutes
  <2>2. QED
    BY <2>1
<1>3. /\ (Weights - w) * (K + m) \in Nat /\ w * (K + l) \in Nat
      /\ (K + l) * (K + m) \in Nat \ {0}
  BY <1>1, <1>2
<1>4. QED
  BY <1>3 DEF Score, Fraction

\* Better scores and smaller keys make a strict order.
LEMMA BetterOrders ==
  ASSUME NEW score, DOMAIN score \subseteq Int, \A m \in DOMAIN score : score[m] \in Fraction
  PROVE  /\ Orders(Better(score), DOMAIN score)
         /\ \A a, b \in DOMAIN score : Higher(score[a], score[b]) => <<a, b>> \in Better(score)
<1> DEFINE D == DOMAIN score
           Above(a, b) == Higher(score[a], score[b])
<1>1. \A a, b \in D : <<a, b>> \in Better(score) <=> Above(a, b) \/ (~Above(b, a) /\ a < b)
  BY DEF Better
<1>2. \A a \in D : /\ score[a].num \in Int /\ score[a].den \in Int /\ score[a].den > 0
  BY DEF Fraction
<1>3. \A a, b \in D : /\ score[a].num * score[b].den \in Int
                      /\ Above(a, b) <=> score[a].num * score[b].den > score[b].num * score[a].den
                      /\ ~Above(b, a) <=> score[a].num * score[b].den >= score[b].num * score[a].den
  <2>1. \A a, b \in D : score[a].num * score[b].den \in Int
    BY <1>2
  <2>2. \A i, j \in Int : ~(i > j) <=> j >= i
    OBVIOUS
  <2>3. QED
    BY <2>1, <2>2 DEF Higher
<1>4. \A a, b, c \in D : /\ ~Above(b, a) /\ ~Above(c, b) => ~Above(c, a)
                         /\ Above(a, b) /\ ~Above(c, b) => Above(a, c)
                         /\ ~Above(b, a) /\ Above(b, c) => Above(a, c)
  <2> SUFFICES ASSUME NEW a \in D, NEW b \in D, NEW c \in D
               PROVE  /\ ~Above(b, a) /\ ~Above(c, b) => ~Above(c, a)
                      /\ Above(a, b) /\ ~Above(c, b) => Above(a, c)
                      /\ ~Above(b, a) /\ Above(b, c) => Above(a, c)
    OBVIOUS
  <2> DEFINE n1 == score[a].num
             n2 == score[b].num
             n3 == score[c].num
             d1 == score[a].den
             d2 == score[b].den
             d3 == score[c].den
  <2>1. /\ n1 \in Int /\ n2 \in Int /\ n3 \in Int /\ d1 \in Int /\ d2 \in Int /\ d3 \in Int
        /\ d1 > 0 /\ d2 > 0 /\ d3 > 0
    BY <1>2
  <2>2. /\ Above(a, b) <=> n1 * d2 > n2 * d1
        /\ ~Above(b, a) <=> n1 * d2 >= n2 * d1
        /\ Above(b, c) <=> n2 * d3 > n3 * d2
        /\ ~Above(c, b) <=> n2 * d3 >= n3 * d2
        /\ Above(a, c) <=> n1 * d3 > n3 * d1
        /\ ~Above(c, a) <=> n1 * d3 >= n3 * d1
    BY <1>3
  <2> HIDE DEF n1, n2, n3, d1, d2, d3, Above
  <2>3. /\ n1 * d2 >= n2 * d1 /\ n2 * d3 >= n3 * d2 => n1 * d3 >= n3 * d1
        /\ n1 * d2 > n2 * d1 /\ n2 * d3 >= n3 * d2 => n1 * d3 > n3 * d1
        /\ n1 * d2 >= n2 * d1 /\ n2 * d3 > n3 * d2 => n1 * d3 > n3 * d1
    BY <2>1, Fractions
  <2>4. QED
    BY <2>2, <2>3
<1>5. \A a, b \in D : Above(a, b) => ~Above(b, a)
  <2>1. \A i, j \in Int : i > j => i >= j
    OBVIOUS
  <2>2. QED
    BY <1>3, <2>1
<1>6. \A a, b, c \in D : /\ a \in Int /\ (a # b => a < b \/ b < a) /\ ~(a < a)
                         /\ a < b /\ b < c => a < c
  OBVIOUS
<1> HIDE DEF D, Above
<1>7. \A a \in D : <<a, a>> \notin Better(score)
  BY <1>1, <1>5, <1>6
<1>8. \A a, b \in D : a # b => <<a, b>> \in Better(score) \/ <<b, a>> \in Better(score)
  BY <1>1, <1>6
<1>9. \A a, b, c \in D : <<a, b>> \in Better(score) /\ <<b, c>> \in Better(score) => <<a, c>> \in Better(score)
  <2> SUFFICES ASSUME NEW a \in D, NEW b \in D, NEW c \in D,
                      <<a, b>> \in Better(score), <<b, c>> \in Better(score)
               PROVE  <<a, c>> \in Better(score)
    OBVIOUS
  <2>1. Above(a, b) \/ (~Above(b, a) /\ a < b)
    BY <1>1
  <2>2. Above(b, c) \/ (~Above(c, b) /\ b < c)
    BY <1>1
  <2>3. ~Above(b, a) /\ ~Above(c, b)
    BY <1>5, <2>1, <2>2
  <2>4. Above(a, c) \/ (~Above(c, a) /\ a < c)
    BY <1>4, <1>6, <2>1, <2>2, <2>3
  <2>5. QED
    BY <1>1, <2>4
<1>10. \A a, b \in D : Above(a, b) => <<a, b>> \in Better(score)
  BY <1>1
<1>11. QED
  BY <1>7, <1>8, <1>9, <1>10 DEF Orders, D, Above

\* Who stands better on the semantic side, and no worse on the other, scores higher:
\* A, B are K and the lexical ranks, C, D are K and the semantic ones.
LEMMA HigherIs ==
  ASSUME NEW x \in Nat, NEW y \in Nat, NEW w \in Nat \ {0},
         NEW A \in Nat \ {0}, NEW B \in Nat \ {0}, NEW C \in Nat \ {0}, NEW D \in Nat \ {0},
         C < D, x * B >= y * A
  PROVE  (x * C + w * A) * (B * D) > (y * D + w * B) * (A * C)
<1>1. (x * C + w * A) * (B * D) = (x * B) * (C * D) + ((w * A) * B) * D
  OBVIOUS
<1>2. (y * D + w * B) * (A * C) = (y * A) * (C * D) + ((w * A) * B) * C
  OBVIOUS
<1>3. \A i, j \in Nat \ {0} : i * j \in Nat /\ i * j > 0
  <2>1. \A i, j \in Int : i > 0 /\ j > 0 => i * j > 0 * j
    BY Times, Commutes
  <2>2. QED
    BY <2>1
<1>4. C * D \in Int /\ C * D > 0 /\ (w * A) * B \in Int /\ (w * A) * B > 0
  BY <1>3
<1>5. (x * B) * (C * D) >= (y * A) * (C * D)
  BY <1>4, Times
<1>6. ((w * A) * B) * D > ((w * A) * B) * C
  <2> DEFINE z == (w * A) * B
  <2>1. z \in Int /\ z > 0
    BY <1>4
  <2> HIDE DEF z
  <2>2. ~(C * z >= D * z)
    BY <2>1, Times
  <2>3. z * D = D * z /\ z * C = C * z /\ D * z \in Int /\ C * z \in Int
    BY <2>1
  <2>4. z * D > z * C
    BY <2>2, <2>3
  <2>5. QED
    BY <2>4 DEF z
<1> DEFINE a == (x * B) * (C * D)
           b == (y * A) * (C * D)
           c == ((w * A) * B) * D
           d == ((w * A) * B) * C
<1>7. a \in Int /\ b \in Int /\ c \in Int /\ d \in Int /\ a >= b /\ c > d
  BY <1>5, <1>6
<1> HIDE DEF a, b, c, d
<1>8. a + c > b + d
  BY <1>7
<1>9. QED
  BY <1>1, <1>2, <1>8 DEF a, b, c, d

-----------------------------------------------------------------------------
(* Fusion.                                                                 *)

Fusible(lexical, semantic, w, limit, K, ranks) ==
  /\ lexical \in Seq(Int) /\ Distinct(lexical) /\ semantic \in Seq(Int) /\ Distinct(semantic)
  /\ w \in 0 .. Weights /\ limit \in Nat /\ K \in Nat \ {0} /\ ranks \in Nat \ {0}

Candidates(lexical, semantic) == Range(lexical) \cup Range(semantic)
ScoreIn(lexical, semantic, w, K, ranks, m) ==
  Score(RankIn(lexical, m, ranks), RankIn(semantic, m, ranks), w, K)
\* Whatever scores higher stands before.
Descends(s, n, lexical, semantic, w, K, ranks) ==
  \A i, j \in 1 .. n :
    Higher(ScoreIn(lexical, semantic, w, K, ranks, s[i]), ScoreIn(lexical, semantic, w, K, ranks, s[j]))
      => i < j

LEMMA CandidatesAre ==
  ASSUME NEW lexical \in Seq(Int), NEW semantic \in Seq(Int)
  PROVE  /\ IsFiniteSet(Candidates(lexical, semantic)) /\ Candidates(lexical, semantic) \subseteq Int
         /\ Cardinality(Candidates(lexical, semantic)) \in Nat
         /\ Cardinality(Candidates(lexical, semantic)) <= Len(lexical) + Cardinality(Range(semantic))
         /\ Cardinality(Range(semantic)) \in Nat
<1>1. /\ IsFiniteSet(Range(lexical)) /\ Range(lexical) \subseteq Int
      /\ IsFiniteSet(Range(semantic)) /\ Range(semantic) \subseteq Int
  BY RangeFinite
<1>2. Cardinality(Range(lexical)) <= Len(lexical) /\ Len(lexical) \in Nat
  <2>1. Len(lexical) \in Nat /\ lexical \in [1 .. Len(lexical) -> Int]
    BY LenProperties
  <2>2. lexical \in Surjection(1 .. Len(lexical), Range(lexical))
    BY <2>1, Fun_RangeProperties
  <2>3. IsFiniteSet(1 .. Len(lexical)) /\ Cardinality(1 .. Len(lexical)) = Len(lexical)
    <3>1. \A l \in Nat : IsFiniteSet(1 .. l) /\ Cardinality(1 .. l) = l
      <4> SUFFICES ASSUME NEW l \in Nat PROVE IsFiniteSet(1 .. l) /\ Cardinality(1 .. l) = l
        OBVIOUS
      <4>1. QED
        BY FS_Interval
    <3>2. QED
      BY <2>1, <3>1
  <2>4. QED
    BY <2>1, <2>2, <2>3, FS_Surjection
<1>3. /\ IsFiniteSet(Candidates(lexical, semantic))
      /\ Cardinality(Candidates(lexical, semantic)) =
            Cardinality(Range(lexical)) + Cardinality(Range(semantic))
              - Cardinality(Range(lexical) \cap Range(semantic))
  BY <1>1, FS_Union DEF Candidates
<1>4. /\ Cardinality(Range(lexical)) \in Nat /\ Cardinality(Range(semantic)) \in Nat
      /\ Cardinality(Candidates(lexical, semantic)) \in Nat
      /\ Cardinality(Range(lexical) \cap Range(semantic)) \in Nat
  <2>1. IsFiniteSet(Range(lexical) \cap Range(semantic))
    <3>1. Range(lexical) \cap Range(semantic) \in SUBSET Range(lexical)
      OBVIOUS
    <3>2. QED
      BY <1>1, <3>1, FS_Subset
  <2>2. QED
    BY <1>1, <1>3, <2>1, FS_CardinalityType
<1>5. Candidates(lexical, semantic) \subseteq Int
  BY <1>1 DEF Candidates
<1>6. \A a, b, c, l \in Nat : a <= l => a + b - c <= l + b
  OBVIOUS
<1>7. QED
  BY <1>2, <1>3, <1>4, <1>5, <1>6

\* The fused list before it is cut.
LEMMA FusedIs ==
  ASSUME NEW lexical, NEW semantic, NEW w, NEW limit, NEW K, NEW ranks,
         Fusible(lexical, semantic, w, limit, K, ranks)
  PROVE  \E s \in Seq(Candidates(lexical, semantic)) :
            /\ Fuse(lexical, semantic, w, limit, K, ranks) = Cut(s, limit)
            /\ Len(s) = Cardinality(Candidates(lexical, semantic)) /\ Distinct(s)
            /\ Range(s) = Candidates(lexical, semantic)
            /\ Descends(s, Len(s), lexical, semantic, w, K, ranks)
<1> DEFINE all == Candidates(lexical, semantic)
           n == Cardinality(all)
           score == [m \in all |-> ScoreIn(lexical, semantic, w, K, ranks, m)]
           s == InOrder(all, Better(score))
<1>1. IsFiniteSet(all) /\ all \subseteq Int /\ n \in Nat
  BY CandidatesAre DEF Fusible
<1>2. \A m \in all : score[m] = ScoreIn(lexical, semantic, w, K, ranks, m) /\ score[m] \in Fraction
  <2> SUFFICES ASSUME NEW m \in all PROVE ScoreIn(lexical, semantic, w, K, ranks, m) \in Fraction
    OBVIOUS
  <2>1. RankIn(lexical, m, ranks) \in Nat /\ RankIn(semantic, m, ranks) \in Nat
    BY RankIs DEF Fusible
  <2>2. QED
    BY <2>1, ScoreIs DEF Fusible, ScoreIn
<1>3. DOMAIN score = all
  OBVIOUS
<1>4. Fuse(lexical, semantic, w, limit, K, ranks) = Cut(s, limit)
  BY DEF Fuse, Candidates, ScoreIn
<1> HIDE DEF all, score
<1>5. Orders(Better(score), all)
      /\ \A a, b \in all : Higher(score[a], score[b]) => <<a, b>> \in Better(score)
  BY <1>1, <1>2, <1>3, BetterOrders
<1>6. InOrderOf(s, all, Better(score))
  BY <1>1, <1>5, InOrderIs
<1> HIDE DEF s
<1>7. /\ s \in [1 .. n -> all]
      /\ \A m \in all : \E i \in 1 .. n : s[i] = m
      /\ \A i, j \in 1 .. n : i < j => <<s[i], s[j]>> \in Better(score)
      /\ \A i, j \in 1 .. n : s[i] = s[j] => i = j
  BY <1>6 DEF InOrderOf
<1>8. s \in Seq(all) /\ Len(s) = n
  <2>1. s \in Seq(all)
    BY <1>1, <1>7, SeqDef
  <2>2. DOMAIN s = 1 .. Len(s) /\ DOMAIN s = 1 .. n /\ Len(s) \in Nat
    BY <1>7, <2>1, LenProperties
  <2>3. QED
    BY <1>1, <2>1, <2>2
<1> HIDE DEF n
<1>9. Range(s) = all
  <2>1. Range(s) \subseteq all /\ \A m : m \in Range(s) <=> \E i \in 1 .. n : s[i] = m
    BY <1>8, RangeFinite
  <2>2. QED
    BY <1>7, <2>1
<1>10. Distinct(s)
  BY <1>7, <1>8 DEF Distinct
<1>11. Descends(s, n, lexical, semantic, w, K, ranks)
  <2> SUFFICES ASSUME NEW i \in 1 .. n, NEW j \in 1 .. n,
                      Higher(ScoreIn(lexical, semantic, w, K, ranks, s[i]),
                             ScoreIn(lexical, semantic, w, K, ranks, s[j]))
               PROVE  i < j
    BY DEF Descends
  <2>1. s[i] \in all /\ s[j] \in all
    BY <1>7
  <2>2. <<s[i], s[j]>> \in Better(score)
    BY <1>2, <1>5, <2>1
  <2>3. <<s[j], s[i]>> \notin Better(score) /\ s[i] # s[j]
    BY <1>5, <2>1, <2>2 DEF Orders
  <2>4. i = j \/ i < j \/ j < i
    BY <1>1
  <2>5. QED
    BY <1>7, <2>3, <2>4
<1>12. QED
  BY <1>4, <1>8, <1>9, <1>10, <1>11 DEF n, all

Rankings(lexical, similar, passing) ==
  /\ passing \subseteq Int /\ lexical \in Seq(passing) /\ Distinct(lexical)
  /\ IsFiniteSet(DOMAIN similar) /\ DOMAIN similar \subseteq Int
  /\ \A m \in DOMAIN similar : similar[m] \in Int
Semantic(similar, passing, pool) == FetchFiltered(TopK(similar, pool), passing)

LEMMA CutWhole ==
  ASSUME NEW S, NEW s \in Seq(S), NEW n \in Nat, Len(s) <= n
  PROVE  Cut(s, n) = s
<1>1. Len(s) \in Nat
  BY LenProperties
<1>2. Cut(s, n) \in Seq(S) /\ Len(Cut(s, n)) = Len(s) /\ \A i \in 1 .. Len(s) : Cut(s, n)[i] = s[i]
  BY <1>1, CutIs
<1>3. QED
  BY <1>2, SeqEqual

\* The semantic side.
LEMMA SemanticIs ==
  ASSUME NEW lexical, NEW similar, NEW passing, Rankings(lexical, similar, passing), NEW pool \in Nat
  PROVE  /\ Semantic(similar, passing, pool) \in Seq(Int) /\ Distinct(Semantic(similar, passing, pool))
         /\ Len(Semantic(similar, passing, pool)) <= pool
         /\ Range(Semantic(similar, passing, pool)) \subseteq passing \cap DOMAIN similar
         /\ Cardinality(DOMAIN similar) \in Nat
         /\ Cardinality(DOMAIN similar) <= pool =>
                Range(Semantic(similar, passing, pool)) = passing \cap DOMAIN similar
<1> DEFINE D == DOMAIN similar
           t == TopK(similar, pool)
           sem == Semantic(similar, passing, pool)
<1>1. /\ t \in Seq(D) /\ Distinct(t) /\ Cardinality(D) \in Nat /\ Len(t) <= pool
      /\ Cardinality(D) <= pool => Range(t) = D
  BY TopKIs DEF Rankings
<1> HIDE DEF t, sem
<1>2. /\ FetchFiltered(t, passing) \in Seq(D) /\ Distinct(FetchFiltered(t, passing))
      /\ Len(FetchFiltered(t, passing)) <= Len(t)
      /\ Range(FetchFiltered(t, passing)) = Range(t) \cap passing
  BY <1>1, FetchedIs
<1>3. sem = FetchFiltered(t, passing)
  BY DEF sem, t, Semantic
<1>4. Len(sem) \in Nat /\ Len(t) \in Nat /\ Range(t) \subseteq D
  BY <1>1, <1>2, <1>3, LenProperties, RangeFinite
<1>5. sem \in Seq(Int)
  BY <1>2, <1>3, SeqMonotonic DEF Rankings
<1>6. Len(sem) <= pool
  BY <1>1, <1>2, <1>3, <1>4
<1>7. QED
  BY <1>1, <1>2, <1>3, <1>4, <1>5, <1>6 DEF sem

HitsOf(lexical, similar, passing, w, pool, K, ranks) ==
  RawSearchHits(lexical, similar, passing, TRUE, w, pool, K, ranks).hits
Fusing(similar, w) == w > 0 /\ DOMAIN similar # {}

\* What a search lists.
LEMMA HitsAre ==
  ASSUME NEW lexical, NEW similar, NEW passing, Rankings(lexical, similar, passing),
         NEW w \in 0 .. Weights, NEW pool \in Nat \ {0}, NEW K, NEW ranks
  PROVE  HitsOf(lexical, similar, passing, w, pool, K, ranks) =
            IF Fusing(similar, w)
            THEN Fuse(Cut(lexical, pool), Semantic(similar, passing, pool), w, pool, K, ranks)
            ELSE Cut(lexical, pool)
<1> DEFINE t == TopK(similar, pool)
<1>1. Max({pool, pool, 1}) = pool
  BY DEF Max
<1>2. /\ t \in Seq(DOMAIN similar) /\ Cardinality(DOMAIN similar) \in Nat
      /\ Len(t) = IF pool <= Cardinality(DOMAIN similar) THEN pool ELSE Cardinality(DOMAIN similar)
  BY TopKIs DEF Rankings
<1>3. Cut(t, pool) = t
  <2>1. Len(t) <= pool
    BY <1>2
  <2> HIDE DEF t
  <2>2. QED
    BY <1>2, <2>1, CutWhole
<1>4. DOMAIN similar # {} => t # <<>>
  <2>1. DOMAIN similar # {} => Cardinality(DOMAIN similar) # 0
    BY FS_EmptySet DEF Rankings
  <2>2. DOMAIN similar # {} => Len(t) # 0
    BY <1>2, <2>1
  <2>3. QED
    BY <2>2, EmptySeq
<1>5. w > 0 <=> w # 0
  BY DEF Weights
<1> HIDE DEF t
<1>6. TryHybridSearch(lexical, similar, passing, w, pool, K, ranks) =
        IF w = 0 \/ t = <<>> THEN Cut(lexical, pool)
        ELSE Fuse(Cut(lexical, pool), Semantic(similar, passing, pool), w, pool, K, ranks)
  BY <1>1, <1>3 DEF TryHybridSearch, SearchHybrid, Semantic, t
<1>7. QED
  BY <1>4, <1>5, <1>6 DEF HitsOf, Fusing, RawSearchHits, HybridReady

\* The fusion behind a hybrid answer.
LEMMA HybridIs ==
  ASSUME NEW lexical, NEW similar, NEW passing, Rankings(lexical, similar, passing),
         NEW w \in 0 .. Weights, NEW pool \in Nat \ {0}, NEW K \in Nat \ {0}, NEW ranks \in Nat \ {0}
  PROVE  /\ Cut(lexical, pool) \in Seq(passing) /\ Len(Cut(lexical, pool)) <= pool
         /\ Fusible(Cut(lexical, pool), Semantic(similar, passing, pool), w, pool, K, ranks)
         /\ Candidates(Cut(lexical, pool), Semantic(similar, passing, pool)) \subseteq passing
<1> DEFINE lex == Cut(lexical, pool)
           sem == Semantic(similar, passing, pool)
<1>1. lexical \in Seq(passing) /\ Distinct(lexical) /\ passing \subseteq Int
  BY DEF Rankings
<1>2. Len(lexical) \in Nat
  BY <1>1, LenProperties
<1>3. /\ lex \in Seq(passing) /\ Len(lex) = IF pool <= Len(lexical) THEN pool ELSE Len(lexical)
      /\ \A i \in 1 .. Len(lex) : lex[i] = lexical[i] /\ i \in 1 .. Len(lexical)
  BY <1>1, CutIs
<1>4. sem \in Seq(Int) /\ Distinct(sem) /\ Range(sem) \subseteq passing
  BY SemanticIs
<1> HIDE DEF lex, sem
<1>5. Distinct(lex)
  BY <1>1, <1>3 DEF Distinct
<1>6. lex \in Seq(Int) /\ Range(lex) \subseteq passing /\ Len(lex) <= pool
  <2>1. lex \in Seq(Int)
    BY <1>1, <1>3, SeqMonotonic
  <2>2. Range(lex) \subseteq passing
    BY <1>3, RangeFinite
  <2>3. QED
    BY <1>2, <1>3, <2>1, <2>2
<1>7. Fusible(lex, sem, w, pool, K, ranks)
  BY <1>4, <1>5, <1>6 DEF Fusible
<1>8. Candidates(lex, sem) \subseteq passing
  BY <1>4, <1>6 DEF Candidates
<1>9. QED
  BY <1>3, <1>6, <1>7, <1>8 DEF lex, sem

\* For any ranking of the index, any stored vectors, weight and pool: no hit is a
\* message that is gone or filtered out, none is listed twice, and there are no more
\* than the pool (embed/hybrid.rs, search/query/hybrid.rs, search/service/raw.rs).
THEOREM HitsCorrect ==
  ASSUME NEW lexical, NEW similar, NEW passing, Rankings(lexical, similar, passing),
         NEW w \in 0 .. Weights, NEW pool \in Nat \ {0}, NEW K \in Nat \ {0}, NEW ranks \in Nat \ {0}
  PROVE  HitsPass(lexical, similar, passing, w, pool, K, ranks)
<1> DEFINE hits == HitsOf(lexical, similar, passing, w, pool, K, ranks)
           lex == Cut(lexical, pool)
           sem == Semantic(similar, passing, pool)
           fused == Fuse(lex, sem, w, pool, K, ranks)
<1>1. hits = IF Fusing(similar, w) THEN fused ELSE lex
  BY HitsAre
<1>2. /\ lex \in Seq(passing) /\ Len(lex) <= pool /\ Fusible(lex, sem, w, pool, K, ranks)
      /\ Candidates(lex, sem) \subseteq passing
  BY HybridIs
<1> HIDE DEF hits, lex, sem, fused
<1>3. fused \in Seq(passing) /\ Len(fused) <= pool /\ Distinct(fused)
  <2>1. PICK s \in Seq(Candidates(lex, sem)) : fused = Cut(s, pool) /\ Distinct(s)
    BY <1>2, FusedIs DEF fused
  <2>2. s \in Seq(passing)
    BY <1>2, SeqMonotonic
  <2>3. Len(s) \in Nat
    BY LenProperties
  <2>4. /\ fused \in Seq(passing) /\ Len(fused) = IF pool <= Len(s) THEN pool ELSE Len(s)
        /\ \A i \in 1 .. Len(fused) : fused[i] = s[i] /\ i \in 1 .. Len(s)
    BY <2>1, <2>2, CutIs
  <2>5. QED
    BY <2>1, <2>3, <2>4 DEF Distinct
<1>4. hits \in Seq(passing) /\ Len(hits) <= pool /\ Distinct(hits)
  BY <1>1, <1>2, <1>3 DEF Fusible
<1>5. Range(hits) \subseteq passing /\ DOMAIN hits = 1 .. Len(hits)
  BY <1>4, LenProperties, RangeFinite
<1>6. IsInjective(hits)
  BY <1>4, <1>5 DEF IsInjective, Distinct
<1>7. QED
  BY <1>4, <1>5, <1>6 DEF HitsPass, hits, HitsOf

\* With a pool as large as both rankings nothing that either side knows is missing.
THEOREM LargePoolCorrect ==
  ASSUME NEW lexical, NEW similar, NEW passing, Rankings(lexical, similar, passing),
         NEW w \in 0 .. Weights, NEW K \in Nat \ {0}, NEW ranks \in Nat \ {0}
  PROVE  LargePoolMissesNothing(lexical, similar, passing, w, K, ranks)
<1> DEFINE pool == Max({Len(lexical) + Cardinality(DOMAIN similar), 1})
           hits == HitsOf(lexical, similar, passing, w, pool, K, ranks)
           sem == Semantic(similar, passing, pool)
           fused == Fuse(lexical, sem, w, pool, K, ranks)
           n == Len(lexical)
           d == Cardinality(DOMAIN similar)
<1>1. lexical \in Seq(passing) /\ n \in Nat /\ d \in Nat
  BY LenProperties, FS_CardinalityType DEF Rankings
<1>2. pool \in Nat \ {0} /\ n + d <= pool
  <2> HIDE DEF n, d
  <2>1. n + d \in Nat
    BY <1>1
  <2>2. Max({n + d, 1}) = IF n + d >= 1 THEN n + d ELSE 1
    BY <2>1 DEF Max
  <2>3. pool = Max({n + d, 1})
    BY DEF n, d
  <2> HIDE DEF pool
  <2>4. QED
    BY <2>1, <2>2, <2>3
<1> HIDE DEF pool
<1>3. n <= pool /\ d <= pool
  <2> HIDE DEF n, d
  <2>1. QED
    BY <1>1, <1>2
<1>4. Cut(lexical, pool) = lexical
  BY <1>1, <1>2, <1>3, CutWhole
<1>5. hits = IF Fusing(similar, w) THEN fused ELSE lexical
  <2>1. hits = IF Fusing(similar, w) THEN Fuse(Cut(lexical, pool), sem, w, pool, K, ranks)
               ELSE Cut(lexical, pool)
    BY <1>2, HitsAre
  <2>2. QED
    BY <1>4, <2>1
<1>6. Range(sem) = passing \cap DOMAIN similar /\ sem \in Seq(Int)
  BY <1>2, <1>3, SemanticIs
<1>7. Fusible(lexical, sem, w, pool, K, ranks)
  BY <1>2, <1>4, HybridIs
<1> HIDE DEF hits, sem, fused
<1>8. Range(fused) = Candidates(lexical, sem)
  <2>1. PICK s \in Seq(Candidates(lexical, sem)) :
            /\ fused = Cut(s, pool) /\ Len(s) = Cardinality(Candidates(lexical, sem))
            /\ Range(s) = Candidates(lexical, sem)
    BY <1>7, FusedIs DEF fused
  <2>2. Cardinality(Range(sem)) <= d
    <3>1. Range(sem) \in SUBSET (DOMAIN similar)
      BY <1>6
    <3>2. QED
      BY <3>1, FS_Subset DEF Rankings
  <2>3. /\ Cardinality(Candidates(lexical, sem)) \in Nat /\ Cardinality(Range(sem)) \in Nat
        /\ Cardinality(Candidates(lexical, sem)) <= n + Cardinality(Range(sem))
    BY <1>6, <1>7, CandidatesAre DEF Fusible
  <2>4. Len(s) <= pool
    <3> HIDE DEF n, d
    <3>1. QED
      BY <1>1, <1>2, <2>1, <2>2, <2>3
  <2>5. Cut(s, pool) = s
    BY <1>2, <2>4, CutWhole
  <2>6. QED
    BY <2>1, <2>5
<1>9. Range(lexical) \cup (IF w > 0 THEN DOMAIN similar \cap passing ELSE {}) = Range(hits)
  BY <1>5, <1>6, <1>8 DEF Fusing, Candidates
<1>10. QED
  BY <1>9 DEF LargePoolMissesNothing, hits, HitsOf, pool

\* The better semantic rank, with a lexical rank that is no worse or does not count.
LEMMA ScoreHigher ==
  ASSUME NEW w \in 1 .. Weights, NEW K \in Nat \ {0}, NEW la \in Nat, NEW lb \in Nat,
         NEW sa \in Nat \ {0}, NEW sb \in Nat \ {0}, sa < sb,
         w = Weights \/ lb = 0 \/ (la # 0 /\ la <= lb)
  PROVE  Higher(Score(la, sa, w, K), Score(lb, sb, w, K))
<1> DEFINE u == Weights - w
           x == IF la = 0 THEN 0 ELSE u
           y == IF lb = 0 THEN 0 ELSE u
           A == K + la
           B == K + lb
           C == K + sa
           D == K + sb
<1>1. /\ w \in Nat \ {0} /\ u \in Nat /\ x \in Nat /\ y \in Nat
      /\ A \in Nat \ {0} /\ B \in Nat \ {0} /\ C \in Nat \ {0} /\ D \in Nat \ {0} /\ C < D
      /\ w = Weights => u = 0
  BY DEF Weights
<1>2. y = 0 \/ (x = u /\ y = u /\ A <= B)
  BY <1>1
<1>3. (IF la = 0 THEN 0 ELSE (Weights - w) * (K + sa)) = x * C
      /\ (IF lb = 0 THEN 0 ELSE (Weights - w) * (K + sb)) = y * D
  <2>1. 0 * C = 0 /\ 0 * D = 0
    BY <1>1
  <2>2. QED
    BY <2>1
<1>4. /\ Score(la, sa, w, K).num = x * C + w * A /\ Score(la, sa, w, K).den = A * C
      /\ Score(lb, sb, w, K).num = y * D + w * B /\ Score(lb, sb, w, K).den = B * D
  BY <1>3 DEF Score
<1> HIDE DEF u, x, y, A, B, C, D
<1>5. x * B >= y * A
  <2>1. CASE y = 0
    <3>1. x * B >= 0 * B
      <4>1. x \in Int /\ 0 \in Int /\ B \in Int /\ B > 0 /\ x >= 0
        BY <1>1
      <4>2. QED
        BY <4>1, Times
    <3>2. 0 * B = 0 /\ 0 * A = 0
      BY <1>1
    <3>3. QED
      BY <2>1, <3>1, <3>2
  <2>2. CASE x = u /\ y = u /\ A <= B
    <3>1. CASE u = 0
      BY <1>1, <2>2, <3>1
    <3>2. CASE u # 0
      <4>1. B * u >= A * u
        BY <1>1, <2>2, <3>2, Times
      <4>2. B * u = u * B /\ A * u = u * A
        BY <1>1
      <4>3. QED
        BY <2>2, <4>1, <4>2
    <3>3. QED
      BY <3>1, <3>2
  <2>3. QED
    BY <1>2, <2>1, <2>2
<1>6. (x * C + w * A) * (B * D) > (y * D + w * B) * (A * C)
  BY <1>1, <1>5, HigherIs
<1>7. QED
  BY <1>4, <1>6 DEF Higher

\* What both sides prefer comes first, as long as the pool is within the ranks that are
\* told apart and the semantic side has a weight.
THEOREM AgreementCorrect ==
  ASSUME NEW lexical, NEW similar, NEW passing, Rankings(lexical, similar, passing),
         NEW w \in 1 .. Weights, NEW K \in Nat \ {0}, NEW ranks \in Nat \ {0}, NEW pool \in 1 .. ranks
  PROVE  AgreementDecides(lexical, similar, passing, w, pool, K, ranks)
<1> DEFINE hits == HitsOf(lexical, similar, passing, w, pool, K, ranks)
           lex == Cut(lexical, pool)
           sem == Semantic(similar, passing, pool)
           fused == Fuse(lex, sem, w, pool, K, ranks)
<1>1. pool \in Nat \ {0} /\ w \in 0 .. Weights /\ pool <= ranks
  BY DEF Weights
<1>2. hits = IF Fusing(similar, w) THEN fused ELSE lex
  BY <1>1, HitsAre
<1>3. Fusible(lex, sem, w, pool, K, ranks)
  BY <1>1, HybridIs
<1>4. /\ sem \in Seq(Int) /\ Distinct(sem) /\ Len(sem) <= pool
      /\ Range(sem) \subseteq passing \cap DOMAIN similar
  BY <1>1, SemanticIs
<1>5. lexical \in Seq(passing) /\ Distinct(lexical) /\ Len(lexical) \in Nat /\ DOMAIN lexical = 1 .. Len(lexical)
  BY LenProperties DEF Rankings
<1>6. /\ Len(lex) = IF pool <= Len(lexical) THEN pool ELSE Len(lexical)
      /\ \A i \in 1 .. Len(lex) : lex[i] = lexical[i] /\ i \in 1 .. Len(lexical)
  BY <1>1, <1>5, CutIs
<1>7. lex \in Seq(Int) /\ Distinct(lex)
  BY <1>3 DEF Fusible
<1> HIDE DEF hits, lex, sem, fused
<1> SUFFICES ASSUME NEW a \in Range(hits), NEW b \in Range(hits), Precedes(lexical, a, b), Precedes(sem, a, b)
             PROVE  Precedes(hits, a, b)
  BY DEF AgreementDecides, hits, HitsOf, sem, Semantic
<1>8. PICK p \in 1 .. Len(lexical), q \in 1 .. Len(lexical) : p < q /\ lexical[p] = a /\ lexical[q] = b
  BY <1>5 DEF Precedes
<1>9. PICK i \in 1 .. Len(sem), j \in 1 .. Len(sem) : i < j /\ sem[i] = a /\ sem[j] = b
  <2>1. DOMAIN sem = 1 .. Len(sem)
    BY <1>4, LenProperties
  <2>2. QED
    BY <2>1 DEF Precedes
<1>10. Fusing(similar, w)
  <2>1. a \in Range(sem)
    BY <1>4, <1>9, RangeFinite
  <2>2. QED
    BY <1>4, <2>1 DEF Fusing, Weights
<1> DEFINE la == RankIn(lex, a, ranks)
           lb == RankIn(lex, b, ranks)
           sa == RankIn(sem, a, ranks)
           sb == RankIn(sem, b, ranks)
<1>11. sa = i /\ sb = j
  <2>1. Len(sem) \in Nat
    BY <1>4, LenProperties
  <2>2. i <= ranks /\ j <= ranks
    BY <1>1, <1>4, <2>1
  <2>3. QED
    BY <1>4, <1>9, <2>2, RankIs
<1>12. la \in Nat /\ lb \in Nat /\ (lb = 0 \/ (la # 0 /\ la <= lb))
  <2>1. la \in Nat /\ lb \in Nat /\ (b \notin Range(lex) <=> lb = 0)
    BY <1>7, RankIs
  <2>2. CASE q <= pool
    <3>1. p \in 1 .. Len(lex) /\ q \in 1 .. Len(lex) /\ p <= ranks /\ q <= ranks
      BY <1>1, <1>5, <1>6, <1>8, <2>2
    <3>2. lex[p] = a /\ lex[q] = b
      BY <1>6, <1>8, <3>1
    <3>3. la = p /\ lb = q
      BY <1>7, <3>1, <3>2, RankIs
    <3>4. QED
      BY <1>8, <2>1, <3>3
  <2>3. CASE ~(q <= pool)
    <3>1. \A k \in 1 .. Len(lex) : lex[k] # b
      <4> SUFFICES ASSUME NEW k \in 1 .. Len(lex), lex[k] = b PROVE FALSE
        OBVIOUS
      <4>1. k \in 1 .. Len(lexical) /\ lexical[k] = b
        BY <1>6
      <4>2. k = q
        BY <1>5, <1>8, <4>1 DEF Distinct
      <4>3. k <= pool
        BY <1>1, <1>5, <1>6
      <4>4. QED
        BY <2>3, <4>2, <4>3
    <3>2. b \notin Range(lex)
      BY <1>7, <3>1, RangeFinite
    <3>3. QED
      BY <2>1, <3>2
  <2>4. QED
    BY <2>2, <2>3
<1> HIDE DEF la, lb, sa, sb
<1>13. Higher(Score(la, sa, w, K), Score(lb, sb, w, K))
  <2>1. i \in Nat \ {0} /\ j \in Nat \ {0} /\ i < j
    BY <1>9
  <2>2. QED
    BY <1>11, <1>12, <2>1, ScoreHigher
<1>14. PICK s \in Seq(Candidates(lex, sem)) : fused = Cut(s, pool) /\ Descends(s, Len(s), lex, sem, w, K, ranks)
  BY <1>3, FusedIs DEF fused
<1>15. fused \in Seq(Candidates(lex, sem)) /\ \A k \in 1 .. Len(fused) : fused[k] = s[k] /\ k \in 1 .. Len(s)
  BY <1>1, <1>14, CutIs
<1>16. hits = fused
  BY <1>2, <1>10
<1>17. PICK k \in 1 .. Len(fused), l \in 1 .. Len(fused) : fused[k] = a /\ fused[l] = b
  BY <1>15, <1>16, RangeFinite
<1>18. k < l
  BY <1>13, <1>14, <1>15, <1>17 DEF Descends, ScoreIn, la, lb, sa, sb
<1>19. DOMAIN hits = 1 .. Len(fused)
  BY <1>15, <1>16, LenProperties
<1>20. QED
  BY <1>16, <1>17, <1>18, <1>19 DEF Precedes

LEMMA PrefixIs ==
  ASSUME NEW A, NEW B, NEW p \in Seq(A), NEW t \in Seq(B), Len(p) <= Len(t),
         \A i \in 1 .. Len(p) : p[i] = t[i]
  PROVE  IsPrefix(p, t)
<1> DEFINE n == Len(p)
           a == SubSeq(p, 1, n)
           b == SubSeq(t, 1, n)
<1>1. n \in Nat /\ \A i \in 1 .. n : p[i] \in A /\ p[i] = t[i] /\ t[i] \in A
  BY LenProperties, ElementOfSeq
<1> HIDE DEF n
<1>2. /\ a \in Seq(A) /\ b \in Seq(A)
      /\ Len(a) = n /\ Len(b) = n
      /\ \A i \in 1 .. n : a[i] = p[i] /\ b[i] = t[i]
  <2>1. /\ a \in Seq(A) /\ Len(a) = IF 1 <= n THEN n - 1 + 1 ELSE 0
        /\ \A i \in 1 .. n - 1 + 1 : a[i] = p[1 + i - 1]
    BY <1>1, SubSeqProperties
  <2>2. /\ b \in Seq(A) /\ Len(b) = IF 1 <= n THEN n - 1 + 1 ELSE 0
        /\ \A i \in 1 .. n - 1 + 1 : b[i] = t[1 + i - 1]
    BY <1>1, SubSeqProperties
  <2>3. (IF 1 <= n THEN n - 1 + 1 ELSE 0) = n /\ \A i \in 1 .. n : i \in 1 .. n - 1 + 1 /\ 1 + i - 1 = i
    BY <1>1
  <2> HIDE DEF a, b
  <2>4. QED
    BY <2>1, <2>2, <2>3
<1> HIDE DEF a, b
<1>3. a = b
  BY <1>1, <1>2, SeqEqual
<1>4. QED
  BY <1>3 DEF IsPrefix, a, b, n

\* With all the weight on the semantic side its ranking comes first, as it is, and what
\* only the index knows comes after.
THEOREM SemanticCorrect ==
  ASSUME NEW lexical, NEW similar, NEW passing, Rankings(lexical, similar, passing),
         NEW K \in Nat \ {0}, NEW ranks \in Nat \ {0}, NEW pool \in 1 .. ranks
  PROVE  SemanticOnly(lexical, similar, passing, pool, K, ranks)
<1> DEFINE hits == HitsOf(lexical, similar, passing, Weights, pool, K, ranks)
           lex == Cut(lexical, pool)
           sem == Semantic(similar, passing, pool)
           fused == Fuse(lex, sem, Weights, pool, K, ranks)
           first == Cut(sem, Len(hits))
<1>1. pool \in Nat \ {0} /\ Weights \in 0 .. Weights /\ Weights \in 1 .. Weights /\ pool <= ranks
  BY DEF Weights
<1> SUFFICES ASSUME DOMAIN similar # {} PROVE IsPrefix(first, hits)
  BY DEF SemanticOnly, HitsOf, Semantic
<1>2. hits = fused
  BY <1>1, HitsAre DEF Fusing, Weights
<1>3. Fusible(lex, sem, Weights, pool, K, ranks)
  BY <1>1, HybridIs
<1>4. sem \in Seq(Int) /\ Distinct(sem) /\ Len(sem) <= pool /\ Len(sem) \in Nat
  BY <1>1, SemanticIs, LenProperties
<1> HIDE DEF hits, lex, sem, fused, first
<1>5. lex \in Seq(Int) /\ Distinct(lex)
  BY <1>3 DEF Fusible
<1>6. PICK s \in Seq(Candidates(lex, sem)) :
        /\ fused = Cut(s, pool) /\ Len(s) = Cardinality(Candidates(lex, sem)) /\ Distinct(s)
        /\ Range(s) = Candidates(lex, sem)
        /\ Descends(s, Len(s), lex, sem, Weights, K, ranks)
  BY <1>3, FusedIs DEF fused
<1>7. Len(s) \in Nat
  BY LenProperties
<1>8. /\ hits \in Seq(Candidates(lex, sem)) /\ Len(hits) = IF pool <= Len(s) THEN pool ELSE Len(s)
      /\ \A i \in 1 .. Len(hits) : hits[i] = s[i] /\ i \in 1 .. Len(s)
  BY <1>1, <1>2, <1>6, CutIs
<1>9. \A i \in 1 .. Len(sem) : RankIn(sem, sem[i], ranks) = i
  <2>1. \A i \in 1 .. Len(sem) : i <= ranks
    BY <1>1, <1>4
  <2>2. QED
    BY <1>4, <2>1, RankIs
<1>10. ASSUME NEW i \in 1 .. Len(sem), NEW m \in Candidates(lex, sem), \A j \in 1 .. i : sem[j] # m
       PROVE  Higher(ScoreIn(lex, sem, Weights, K, ranks, sem[i]), ScoreIn(lex, sem, Weights, K, ranks, m))
  <2> DEFINE la == RankIn(lex, sem[i], ranks)
             lb == RankIn(lex, m, ranks)
             sb == RankIn(sem, m, ranks)
  <2>1. la \in Nat /\ lb \in Nat
    BY <1>5, RankIs
  <2>2. i \in Nat \ {0}
    OBVIOUS
  <2>3. CASE m \in Range(sem)
    <3>1. PICK j \in 1 .. Len(sem) : sem[j] = m
      BY <1>4, <2>3, RangeFinite
    <3>2. i < j /\ j \in Nat \ {0}
      BY <1>4, <1>10, <3>1
    <3>3. sb = j
      BY <1>9, <3>1
    <3> HIDE DEF la, lb, sb
    <3>4. Higher(Score(la, i, Weights, K), Score(lb, sb, Weights, K))
      BY <1>1, <2>1, <2>2, <3>2, <3>3, ScoreHigher
    <3>5. QED
      BY <1>9, <3>4 DEF ScoreIn, la, lb, sb
  <2>4. CASE m \notin Range(sem)
    <3>1. sb = 0
      BY <1>4, <2>4, RankIs
    <3> HIDE DEF la, lb, sb
    <3>2. /\ Score(la, i, Weights, K).num = Weights * (K + la)
          /\ Score(lb, sb, Weights, K).num = 0
      <4>1. 0 * (K + i) = 0 /\ 0 * (K + 0) = 0 /\ Weights * (K + la) \in Nat /\ Weights - Weights = 0
        BY <2>1, <2>2 DEF Weights
      <4>2. QED
        BY <2>2, <3>1, <4>1 DEF Score
    <3>3. Weights * (K + la) \in Int /\ Weights * (K + la) > 0
      BY <2>1 DEF Weights
    <3>4. Score(lb, sb, Weights, K) \in Fraction /\ Score(la, i, Weights, K) \in Fraction
      BY <1>1, <2>1, <2>2, <3>1, ScoreIs
    <3> DEFINE d == Score(lb, sb, Weights, K).den
               e == Score(la, i, Weights, K).den
               n == Weights * (K + la)
    <3>5. d \in Int /\ d > 0 /\ e \in Int
      BY <3>4 DEF Fraction
    <3> HIDE DEF d, e, n
    <3>6. n * d > 0 * e
      <4>1. n \in Int /\ n > 0
        BY <3>3 DEF n
      <4>2. ~(0 * d >= n * d)
        BY <3>5, <4>1, Times
      <4>3. 0 * d = 0 /\ 0 * e = 0 /\ n * d \in Int
        BY <3>5, <4>1
      <4>4. QED
        BY <4>2, <4>3
    <3>7. Higher(Score(la, i, Weights, K), Score(lb, sb, Weights, K))
      BY <3>2, <3>6 DEF Higher, d, e, n
    <3>8. QED
      BY <1>9, <3>7 DEF ScoreIn, la, lb, sb
  <2>5. QED
    BY <2>3, <2>4
<1> DEFINE Wrong == {i \in 1 .. Len(sem) : i <= Len(s) /\ s[i] # sem[i]}
<1>11. Wrong = {}
  <2> SUFFICES ASSUME Wrong # {} PROVE FALSE
    OBVIOUS
  <2>1. PICK i \in Wrong : \A j \in Wrong : i <= j
    <3>1. Wrong \subseteq Nat
      OBVIOUS
    <3> HIDE DEF Wrong
    <3>2. QED
      BY <3>1, LeastExists
  <2>2. i \in 1 .. Len(sem) /\ i \in 1 .. Len(s) /\ s[i] # sem[i]
    BY <1>7
  <2>3. \A j \in 1 .. i - 1 : j \in 1 .. Len(sem) /\ j \in 1 .. Len(s) /\ s[j] = sem[j]
    <3>1. \A j \in 1 .. i - 1 : j \in 1 .. Len(sem) /\ j \in 1 .. Len(s) /\ j <= Len(s) /\ j < i
      BY <1>4, <1>7, <2>2
    <3>2. \A j \in 1 .. i - 1 : j \notin Wrong
      <4> HIDE DEF Wrong
      <4>1. \A j, k \in Int : k <= j => ~(j < k)
        OBVIOUS
      <4>2. QED
        BY <2>1, <2>2, <3>1, <4>1
    <3>3. QED
      BY <3>1, <3>2
  <2> HIDE DEF Wrong
  <2>4. \A j \in 1 .. i : sem[j] # s[i]
    <3> SUFFICES ASSUME NEW j \in 1 .. i, sem[j] = s[i] PROVE FALSE
      OBVIOUS
    <3>1. j # i
      BY <2>2
    <3>2. j \in 1 .. i - 1
      BY <2>2, <3>1
    <3>3. s[j] = s[i] /\ j \in 1 .. Len(s)
      BY <2>3, <3>2
    <3>4. QED
      BY <1>6, <2>2, <3>1, <3>3 DEF Distinct
  <2>5. PICK p \in 1 .. Len(s) : s[p] = sem[i]
    <3>1. sem[i] \in Range(sem)
      BY <1>4, <2>2, RangeFinite
    <3>2. sem[i] \in Range(s)
      BY <1>6, <3>1 DEF Candidates
    <3>3. QED
      BY <3>2, RangeFinite
  <2>6. s[i] \in Candidates(lex, sem)
    BY <2>2, ElementOfSeq
  <2>7. p < i
    BY <1>6, <1>10, <2>2, <2>4, <2>5, <2>6 DEF Descends
  <2>8. p \in 1 .. i - 1
    BY <2>2, <2>5, <2>7
  <2>9. sem[p] = sem[i] /\ p \in 1 .. Len(sem) /\ p # i
    BY <2>2, <2>3, <2>5, <2>7, <2>8
  <2>10. QED
    BY <1>4, <2>2, <2>9 DEF Distinct
<1>12. /\ first \in Seq(Int) /\ Len(hits) \in Nat
       /\ Len(first) = IF Len(hits) <= Len(sem) THEN Len(hits) ELSE Len(sem)
       /\ \A i \in 1 .. Len(first) : first[i] = sem[i] /\ i \in 1 .. Len(sem)
  <2>1. Len(hits) \in Nat
    BY <1>8, LenProperties
  <2>2. QED
    BY <1>4, <2>1, CutIs DEF first
<1>13. Len(first) \in Nat /\ Len(first) <= Len(hits)
  BY <1>4, <1>12
<1>14. \A i \in 1 .. Len(first) : first[i] = hits[i]
  <2> SUFFICES ASSUME NEW i \in 1 .. Len(first) PROVE first[i] = hits[i]
    OBVIOUS
  <2>1. i \in 1 .. Len(hits) /\ i \in 1 .. Len(sem) /\ first[i] = sem[i]
    BY <1>12, <1>13
  <2>2. hits[i] = s[i] /\ i <= Len(s)
    BY <1>7, <1>8, <2>1
  <2>3. QED
    BY <1>11, <2>1, <2>2
<1>15. QED
  BY <1>8, <1>12, <1>13, <1>14, PrefixIs

(***************************************************************************)
(* Threads.                                                                *)
(***************************************************************************)

\* The times and the projects of the sessions are ordered like numbers.
Timed(sessions) ==
  /\ Len(sessions) \in Nat /\ DOMAIN sessions = 1 .. Len(sessions)
  /\ \A i \in DOMAIN sessions :
        sessions[i].project \in Int /\ sessions[i].start \in Int /\ sessions[i].end \in Int

\* g is the group of a project.
Grouped(g, sessions, project) ==
  /\ Len(g) \in Nat /\ g \in Seq(DOMAIN sessions)
  /\ \A i \in DOMAIN sessions : sessions[i].project = project => \E k \in 1 .. Len(g) : g[k] = i
  /\ \A k \in 1 .. Len(g) : g[k] \in DOMAIN sessions /\ sessions[g[k]].project = project
  /\ \A j, k \in 1 .. Len(g) : j < k => <<g[j], g[k]>> \in StartsEarlier(sessions)
  /\ \A j, k \in 1 .. Len(g) : g[j] = g[k] => j = k

LEMMA EarlierOrders ==
  ASSUME NEW sessions, Timed(sessions), NEW S, S \subseteq DOMAIN sessions
  PROVE  Orders(StartsEarlier(sessions), S)
<1> DEFINE start == [i \in DOMAIN sessions |-> sessions[i].start]
<1>1. \A i \in S : i \in Int /\ start[i] \in Int
  BY DEF Timed
<1>2. \A i, j \in S : <<i, j>> \in StartsEarlier(sessions)
                        <=> start[i] < start[j] \/ (start[i] = start[j] /\ i < j)
  BY DEF StartsEarlier
<1> HIDE DEF start
<1>3. QED
  BY <1>1, <1>2, SMTT(30) DEF Orders

LEMMA GroupIs ==
  ASSUME NEW sessions, Timed(sessions), NEW project
  PROVE  Grouped(Group(sessions, project), sessions, project)
<1> DEFINE S == {i \in DOMAIN sessions : sessions[i].project = project}
           before == StartsEarlier(sessions)
           g == Group(sessions, project)
           n == Cardinality(S)
<1>1. IsFiniteSet(S)
  <2>1. IsFiniteSet(1 .. Len(sessions))
    BY FS_Interval DEF Timed
  <2>2. S \subseteq 1 .. Len(sessions)
    BY DEF Timed
  <2>3. QED
    BY <2>1, <2>2, FS_Subset
<1>2. S \subseteq DOMAIN sessions /\ Orders(before, S) /\ g = InOrder(S, before)
  BY EarlierOrders DEF Group
<1>3. InOrderOf(g, S, before)
  <2> HIDE DEF S, before, g
  <2>1. QED
    BY <1>1, <1>2, InOrderIs
<1>4. n \in Nat /\ g \in [1 .. n -> S]
  BY <1>3 DEF InOrderOf
<1>5. Len(g) = n /\ g \in Seq(DOMAIN sessions)
  <2>1. g \in Seq(S) /\ Len(g) = n
    <3> HIDE DEF S, g
    <3>1. QED
      BY <1>4, LenProperties
  <2>2. Seq(S) \subseteq Seq(DOMAIN sessions)
    BY <1>2, SeqMonotonic
  <2>3. QED
    BY <2>1, <2>2
<1> HIDE DEF before, g, n
<1>6. QED
  BY <1>3, <1>4, <1>5 DEF InOrderOf, Grouped, n, before, g

(***************************************************************************)
(* The walk over a group.                                                  *)
(***************************************************************************)
ThreadPlaces == [first : Nat, end : Int]
StartAt(sessions, g, k) == sessions[g[k]].start
EndAt(sessions, g, k) == sessions[g[k]].end
JoinsThread(sessions, g, gap, w, k) == k > 1 /\ StartAt(sessions, g, k) - w[k - 1].end <= gap
WalkAt(sessions, g, gap, w, k) ==
  IF JoinsThread(sessions, g, gap, w, k)
  THEN [first |-> w[k - 1].first,
        end |-> IF EndAt(sessions, g, k) > w[k - 1].end THEN EndAt(sessions, g, k) ELSE w[k - 1].end]
  ELSE [first |-> k, end |-> EndAt(sessions, g, k)]
WalkOf(sessions, g, gap, w) == w = [k \in DOMAIN g |-> WalkAt(sessions, g, gap, w, k)]

LEMMA TimesAre ==
  ASSUME NEW sessions, Timed(sessions), NEW g, NEW p, Grouped(g, sessions, p)
  PROVE  /\ Len(g) \in Nat /\ DOMAIN g = 1 .. Len(g)
         /\ \A k \in 1 .. Len(g) : StartAt(sessions, g, k) \in Int /\ EndAt(sessions, g, k) \in Int
         /\ \A j, k \in 1 .. Len(g) : j <= k => StartAt(sessions, g, j) <= StartAt(sessions, g, k)
<1>1. Len(g) \in Nat /\ DOMAIN g = 1 .. Len(g)
  BY LenProperties DEF Grouped
<1>2. \A k \in 1 .. Len(g) : StartAt(sessions, g, k) \in Int /\ EndAt(sessions, g, k) \in Int
  BY DEF Grouped, Timed, StartAt, EndAt
<1>3. ASSUME NEW j \in 1 .. Len(g), NEW k \in 1 .. Len(g), j <= k
      PROVE  StartAt(sessions, g, j) <= StartAt(sessions, g, k)
  <2>1. CASE j = k
    BY <1>2, <2>1
  <2>2. CASE j # k
    <3>1. j < k
      BY <1>1, <1>3, <2>2
    <3>2. <<g[j], g[k]>> \in StartsEarlier(sessions)
      BY <3>1 DEF Grouped
    <3>3. sessions[g[j]].start < sessions[g[k]].start \/ sessions[g[j]].start = sessions[g[k]].start
      BY <3>2 DEF StartsEarlier
    <3>4. QED
      BY <1>2, <3>3 DEF StartAt
  <2>3. QED
    BY <2>1, <2>2
<1>4. QED
  BY <1>1, <1>2, <1>3

LEMMA WalkExists ==
  ASSUME NEW sessions, Timed(sessions), NEW g, NEW project, Grouped(g, sessions, project), NEW gap
  PROVE  \E w : WalkOf(sessions, g, gap, w)
<1> DEFINE n == Len(g)
           P == 1 .. n
           D == ThreadPlaces
           F == [x \in P \X [P -> D] |-> WalkAt(sessions, g, gap, x[2], x[1])]
           M == [k \in P |-> k]
           b == n + 1
<1>1. /\ n \in Nat /\ DOMAIN g = P
      /\ \A k \in P : StartAt(sessions, g, k) \in Int /\ EndAt(sessions, g, k) \in Int
  BY TimesAre
<1>2. \A k \in P : \A f \in [P -> D] :
        WalkAt(sessions, g, gap, f, k) \in D /\ F[<<k, f>>] = WalkAt(sessions, g, gap, f, k)
  <2> SUFFICES ASSUME NEW k \in P, NEW f \in [P -> D] PROVE WalkAt(sessions, g, gap, f, k) \in D
    OBVIOUS
  <2>1. k \in Nat /\ EndAt(sessions, g, k) \in Int
    BY <1>1
  <2>2. k > 1 => f[k - 1] \in D
    <3>1. k > 1 => k - 1 \in P
      BY <1>1
    <3> HIDE DEF P, D
    <3>2. QED
      BY <3>1
  <2>3. k > 1 => f[k - 1].first \in Nat /\ f[k - 1].end \in Int
    BY <2>2 DEF ThreadPlaces
  <2>4. CASE JoinsThread(sessions, g, gap, f, k)
    <3>1. k > 1
      BY <2>4 DEF JoinsThread
    <3>2. f[k - 1].first \in Nat
          /\ (IF EndAt(sessions, g, k) > f[k - 1].end THEN EndAt(sessions, g, k) ELSE f[k - 1].end) \in Int
      BY <2>1, <2>3, <3>1
    <3>3. QED
      BY <2>4, <3>2 DEF WalkAt, ThreadPlaces
  <2>5. CASE ~JoinsThread(sessions, g, gap, f, k)
    BY <2>1, <2>5 DEF WalkAt, ThreadPlaces
  <2>6. QED
    BY <2>4, <2>5
<1>3. F \in [P \X [P -> D] -> D]
  <2>1. \A x \in P \X [P -> D] : WalkAt(sessions, g, gap, x[2], x[1]) \in D
    <3> HIDE DEF D, P
    <3>1. QED
      BY <1>2
  <2> HIDE DEF D, P
  <2>2. QED
    BY <2>1
<1>4. M \in [P -> Nat] /\ b \in Nat /\ \A k \in P : M[k] < b /\ M[k] = k
  BY <1>1
<1>5. \A k \in P : \A f, h \in [P -> D] :
        (\A j \in P : M[j] < M[k] => f[j] = h[j]) => F[<<k, f>>] = F[<<k, h>>]
  <2> SUFFICES ASSUME NEW k \in P, NEW f \in [P -> D], NEW h \in [P -> D],
                      \A j \in P : M[j] < M[k] => f[j] = h[j]
               PROVE  F[<<k, f>>] = F[<<k, h>>]
    OBVIOUS
  <2>1. k > 1 => f[k - 1] = h[k - 1]
    <3>1. k > 1 => k - 1 \in P /\ k - 1 < k
      BY <1>1
    <3> HIDE DEF P, D, M, F
    <3>2. QED
      BY <1>4, <3>1
  <2>2. WalkAt(sessions, g, gap, f, k) = WalkAt(sessions, g, gap, h, k)
    BY <2>1 DEF WalkAt, JoinsThread
  <2> HIDE DEF F, P, D
  <2>3. QED
    BY <1>2, <2>2
<1>6. PICK f \in [P -> D] : \A k \in P : f[k] = F[<<k, f>>]
  <2>1. D # {}
    <3>1. [first |-> 0, end |-> 0] \in D
      BY DEF ThreadPlaces
    <3>2. QED
      BY <3>1
  <2>2. M \in [P -> Nat] /\ b \in Nat
    BY <1>4
  <2>3. \A k \in P : M[k] < b
    BY <1>4
  <2> HIDE DEF P, D, F, M, b
  <2>4. Recursive(P, D, F, M, b)
    BY <1>3, <1>5, <2>1, <2>2, <2>3 DEF Recursive
  <2>5. QED
    BY <2>4, RecursionExists
<1>7. f = [k \in P |-> WalkAt(sessions, g, gap, f, k)]
  <2> HIDE DEF D, F, P
  <2>1. QED
    BY <1>2, <1>6
<1>8. QED
  BY <1>1, <1>7 DEF WalkOf

LEMMA WalkIs ==
  ASSUME NEW sessions, Timed(sessions), NEW g, NEW project, Grouped(g, sessions, project), NEW gap
  PROVE  WalkOf(sessions, g, gap, Walk(sessions, g, gap))
<1>1. Walk(sessions, g, gap) = CHOOSE w : WalkOf(sessions, g, gap, w)
  BY DEF Walk, WalkOf, WalkAt, JoinsThread, StartAt, EndAt
<1>2. QED
  BY <1>1, WalkExists

\* What the walk knows at k: its thread is what stands between its beginning and k, and
\* whatever was before that ends too early for k.
Walked(sessions, g, gap, w, k) ==
  /\ w[k].first \in 1 .. k /\ w[k].end \in Int
  /\ \A j \in w[k].first .. k : w[j].first = w[k].first
  /\ \A j \in w[k].first .. k : EndAt(sessions, g, j) <= w[k].end
  /\ \E j \in w[k].first .. k : EndAt(sessions, g, j) = w[k].end
  /\ \A j \in 1 .. k : w[j].first # w[k].first => StartAt(sessions, g, k) - EndAt(sessions, g, j) > gap
  /\ w[k].first # k => StartAt(sessions, g, k) - w[k - 1].end <= gap /\ w[k].first = w[k - 1].first

LEMMA WalkStep ==
  ASSUME NEW sessions, Timed(sessions), NEW g, NEW project, Grouped(g, sessions, project), NEW gap \in Int,
         NEW w, WalkOf(sessions, g, gap, w), NEW k \in 1 .. Len(g),
         \A j \in 1 .. k - 1 : Walked(sessions, g, gap, w, j)
  PROVE  Walked(sessions, g, gap, w, k)
<1> DEFINE start(j) == StartAt(sessions, g, j)
           end(j) == EndAt(sessions, g, j)
<1>1. /\ Len(g) \in Nat /\ w[k] = WalkAt(sessions, g, gap, w, k)
      /\ \A j \in 1 .. Len(g) : start(j) \in Int /\ end(j) \in Int
      /\ \A j \in 1 .. k : j \in 1 .. Len(g) /\ start(j) <= start(k)
  <2>1. Len(g) \in Nat /\ DOMAIN g = 1 .. Len(g)
    BY TimesAre
  <2>2. w[k] = WalkAt(sessions, g, gap, w, k)
    BY <2>1 DEF WalkOf
  <2>3. \A j \in 1 .. k : j \in 1 .. Len(g) /\ j <= k
    BY <2>1
  <2>4. QED
    BY <2>1, <2>2, <2>3, TimesAre
<1> HIDE DEF start, end
<1>2. CASE JoinsThread(sessions, g, gap, w, k)
  <2> DEFINE e == w[k - 1].end
             f == w[k - 1].first
  <2>1. /\ k > 1 /\ k - 1 \in 1 .. k - 1 /\ start(k) - e <= gap
        /\ w[k] = [first |-> f, end |-> IF end(k) > e THEN end(k) ELSE e]
    BY <1>1, <1>2 DEF JoinsThread, WalkAt, start, end
  <2>2. /\ f \in 1 .. k - 1 /\ e \in Int
        /\ \A j \in f .. k - 1 : w[j].first = f /\ end(j) <= e
        /\ \E j \in f .. k - 1 : end(j) = e
        /\ \A j \in 1 .. k - 1 : w[j].first # f => start(k - 1) - end(j) > gap
    BY <2>1 DEF Walked, start, end
  <2>3. w[k].first = f /\ w[k].end = IF end(k) > e THEN end(k) ELSE e
    BY <2>1
  <2> HIDE DEF e, f
  <2>4. /\ w[k].first \in 1 .. k /\ w[k].end \in Int
        /\ \A j \in f .. k : w[j].first = f /\ end(j) <= w[k].end
    <3>1. k \in Nat /\ f \in Nat /\ f \in 1 .. k
      <4>1. f \in 1 .. k - 1
        BY <2>2
      <4>2. k \in Nat
        OBVIOUS
      <4>3. QED
        BY <4>1, <4>2
    <3>2. \A j \in f .. k : j \in f .. k - 1 \/ j = k
      BY <3>1, SMTT(30)
    <3>3. end(k) \in Int /\ e \in Int /\ w[k].end \in Int /\ e <= w[k].end /\ end(k) <= w[k].end
      <4>1. k \in 1 .. k
        BY <3>1
      <4>2. end(k) \in Int
        BY <1>1, <4>1
      <4>3. e \in Int
        BY <2>2
      <4>4. QED
        BY <2>3, <4>2, <4>3
    <3>4. \A j \in f .. k - 1 : end(j) \in Int
      BY <1>1, <3>1
    <3>5. \A j \in f .. k - 1 : end(j) <= w[k].end
      BY <2>2, <3>3, <3>4
    <3>6. QED
      BY <2>2, <2>3, <3>1, <3>2, <3>3, <3>5
  <2>5. \E j \in f .. k : end(j) = w[k].end
    <3>1. k \in f .. k /\ \A j \in f .. k - 1 : j \in f .. k
      BY <2>1, <2>2
    <3>2. QED
      BY <2>2, <2>3, <3>1
  <2>6. ASSUME NEW j \in 1 .. k, w[j].first # f PROVE start(k) - end(j) > gap
    <3>1. j \in 1 .. k - 1
      BY <2>1, <2>3, <2>6
    <3>2. start(k - 1) - end(j) > gap
      BY <2>2, <2>6, <3>1
    <3>3. k - 1 \in 1 .. k
      BY <2>1
    <3>4. /\ start(k) \in Int /\ start(k - 1) \in Int /\ end(j) \in Int
          /\ start(k - 1) <= start(k)
      BY <1>1, <2>6, <3>3
    <3>5. QED
      BY <3>2, <3>4
  <2>7. QED
    BY <2>1, <2>3, <2>4, <2>5, <2>6 DEF Walked, start, end, e, f
<1>3. CASE ~JoinsThread(sessions, g, gap, w, k)
  <2>1. w[k].first = k /\ w[k].end = end(k) /\ (k > 1 => ~(start(k) - w[k - 1].end <= gap))
    BY <1>3, <1>1 DEF JoinsThread, WalkAt, start, end
  <2>2. k \in Nat /\ k \in k .. k /\ k \in 1 .. k /\ \A j \in k .. k : j = k
    OBVIOUS
  <2>3. ASSUME NEW j \in 1 .. k, w[j].first # k PROVE start(k) - end(j) > gap
    <3> DEFINE e == w[k - 1].end
               f == w[k - 1].first
    <3>1. k > 1 /\ j \in 1 .. k - 1 /\ k - 1 \in 1 .. k - 1
      BY <2>1, <2>3
    <3>2. /\ e \in Int /\ f \in 1 .. k - 1
          /\ \A i \in f .. k - 1 : end(i) <= e
          /\ \A i \in 1 .. k - 1 : w[i].first # f => start(k - 1) - end(i) > gap
      BY <3>1 DEF Walked, start, end
    <3>3. w[j].first \in 1 .. j
      BY <3>1 DEF Walked
    <3>4. start(k) \in Int /\ start(k - 1) \in Int /\ end(j) \in Int /\ start(k - 1) <= start(k)
      BY <1>1, <3>1
    <3>5. start(k) - e > gap
      BY <2>1, <3>1, <3>2, <3>4
    <3> HIDE DEF e, f
    <3>6. CASE w[j].first = f
      <4>1. j \in f .. k - 1
        BY <3>1, <3>2, <3>3, <3>6
      <4>2. QED
        BY <3>2, <3>4, <3>5, <4>1
    <3>7. CASE w[j].first # f
      BY <3>1, <3>2, <3>4, <3>7
    <3>8. QED
      BY <3>6, <3>7
  <2>4. QED
    BY <1>1, <2>1, <2>2, <2>3 DEF Walked, start, end
<1>4. QED
  BY <1>2, <1>3

LEMMA WalkKeeps ==
  ASSUME NEW sessions, Timed(sessions), NEW g, NEW project, Grouped(g, sessions, project), NEW gap \in Int,
         NEW k \in 1 .. Len(g)
  PROVE  Walked(sessions, g, gap, Walk(sessions, g, gap), k)
<1> DEFINE w == Walk(sessions, g, gap)
           Wrong == {j \in 1 .. Len(g) : ~Walked(sessions, g, gap, w, j)}
<1>1. WalkOf(sessions, g, gap, w)
  BY WalkIs
<1> HIDE DEF w
<1>2. SUFFICES ASSUME Wrong # {} PROVE FALSE
  BY DEF w
<1>3. PICK m \in Wrong : \A j \in Wrong : m <= j
  <2>1. Wrong \subseteq Nat
    OBVIOUS
  <2> HIDE DEF Wrong
  <2>2. QED
    BY <1>2, <2>1, LeastExists
<1>4. m \in 1 .. Len(g) /\ \A j \in 1 .. m - 1 : j \in 1 .. Len(g) /\ ~(m <= j)
  BY <1>3 DEF Grouped
<1>5. \A j \in 1 .. m - 1 : Walked(sessions, g, gap, w, j)
  BY <1>3, <1>4
<1>6. Walked(sessions, g, gap, w, m)
  BY <1>1, <1>4, <1>5, WalkStep
<1>7. QED
  BY <1>3, <1>6

(***************************************************************************)
(* The threads of a group.                                                 *)
(***************************************************************************)
FirstAt(sessions, g, gap, k) == Walk(sessions, g, gap)[k].first
ThreadAt(sessions, g, gap, f) ==
  Picked(g, {k \in DOMAIN g : Walk(sessions, g, gap)[k].first = Walk(sessions, g, gap)[f].first})

\* The members of the thread that holds position f of the group.
ThreadFrom(m, sessions, g, gap, f) ==
  /\ m \in Seq(DOMAIN sessions) /\ Len(m) \in Nat /\ Len(m) >= 1
  /\ \A x : x \in Range(m) <=> \E k \in 1 .. Len(g) :
                                  FirstAt(sessions, g, gap, k) = FirstAt(sessions, g, gap, f) /\ g[k] = x
  /\ FirstAt(sessions, g, gap, f) \in 1 .. Len(g)
  /\ FirstAt(sessions, g, gap, FirstAt(sessions, g, gap, f)) = FirstAt(sessions, g, gap, f)
  /\ m[1] = g[FirstAt(sessions, g, gap, f)]

LEMMA ThreadIs ==
  ASSUME NEW sessions, Timed(sessions), NEW g, NEW project, Grouped(g, sessions, project), NEW gap \in Int,
         NEW f \in 1 .. Len(g)
  PROVE  ThreadFrom(ThreadAt(sessions, g, gap, f), sessions, g, gap, f)
<1> DEFINE first(k) == FirstAt(sessions, g, gap, k)
           I == {k \in DOMAIN g : first(k) = first(f)}
           m == ThreadAt(sessions, g, gap, f)
<1>1. Len(g) \in Nat /\ DOMAIN g = 1 .. Len(g) /\ g \in Seq(DOMAIN sessions)
  BY TimesAre DEF Grouped
<1>2. m = Picked(g, I)
  BY DEF ThreadAt, FirstAt
<1>3. \A k \in 1 .. Len(g) : first(k) \in 1 .. k /\ \A j \in first(k) .. k : first(j) = first(k)
  <2> SUFFICES ASSUME NEW k \in 1 .. Len(g)
               PROVE  first(k) \in 1 .. k /\ \A j \in first(k) .. k : first(j) = first(k)
    OBVIOUS
  <2>1. Walked(sessions, g, gap, Walk(sessions, g, gap), k)
    BY WalkKeeps
  <2>2. QED
    BY <2>1 DEF Walked, FirstAt
<1> HIDE DEF m
<1>4. /\ m \in Seq(DOMAIN sessions)
      /\ \A x : (\E j \in 1 .. Len(m) : m[j] = x) <=> (\E i \in (1 .. Len(g)) \cap I : g[i] = x)
  <2> HIDE DEF I
  <2>1. Picks(m, g, I, Len(g), DOMAIN sessions)
    BY <1>1, <1>2, PickedIs
  <2>2. QED
    BY <2>1 DEF Picks
<1>5. /\ Len(m) = Place(I, Len(g))
      /\ \A i \in (1 .. Len(g)) \cap I : Place(I, i) \in 1 .. Len(m) /\ m[Place(I, i)] = g[i]
  <2> HIDE DEF I
  <2>1. QED
    BY <1>1, <1>2, PickedInPlace DEF InPlace
<1>6. \A k : k \in I <=> k \in 1 .. Len(g) /\ first(k) = first(f)
  BY <1>1
<1> HIDE DEF I, first
<1>7. first(f) \in 1 .. Len(g) /\ first(first(f)) = first(f) /\ first(f) \in I
  <2>1. first(f) \in 1 .. f /\ first(f) \in first(f) .. f
    BY <1>3
  <2>2. first(f) \in 1 .. Len(g)
    BY <1>1, <2>1
  <2>3. QED
    BY <1>3, <1>6, <2>1, <2>2
<1>8. Place(I, first(f)) = 1
  <2>1. \A k : k \in (1 .. first(f)) \cap I => k = first(f)
    <3> SUFFICES ASSUME NEW k \in 1 .. first(f), k \in I PROVE k = first(f)
      OBVIOUS
    <3>1. first(k) \in 1 .. k /\ first(k) = first(f)
      BY <1>3, <1>6
    <3>2. QED
      BY <1>7, <3>1
  <2>2. first(f) \in 1 .. first(f)
    BY <1>7
  <2>3. (1 .. first(f)) \cap I = {first(f)}
    BY <1>7, <2>1, <2>2
  <2>4. QED
    BY <2>3, FS_Singleton DEF Place
<1>9. 1 \in 1 .. Len(m) /\ m[1] = g[first(f)]
  BY <1>5, <1>7, <1>8
<1>10. Len(m) \in Nat /\ Len(m) >= 1
  <2>1. Len(m) \in Nat
    BY <1>4, LenProperties
  <2>2. QED
    BY <1>9, <2>1
<1>11. \A x : x \in Range(m) <=> \E k \in 1 .. Len(g) : first(k) = first(f) /\ g[k] = x
  <2>1. \A x : x \in Range(m) <=> \E j \in 1 .. Len(m) : m[j] = x
    BY <1>4, RangeFinite
  <2>2. QED
    BY <1>4, <1>6, <2>1
<1>12. QED
  BY <1>4, <1>7, <1>9, <1>10, <1>11 DEF ThreadFrom, first, m

\* Sessions of two threads of a group are not linked, whichever is the earlier.
LEMMA ThreadsApart ==
  ASSUME NEW sessions, Timed(sessions), NEW g, NEW project, Grouped(g, sessions, project), NEW gap \in Int,
         NEW x \in 1 .. Len(g), NEW y \in 1 .. Len(g),
         FirstAt(sessions, g, gap, x) # FirstAt(sessions, g, gap, y)
  PROVE  ~Linked(sessions, gap, g[x], g[y])
<1>1. /\ \A j, k \in 1 .. Len(g) : <<g[j], g[k]>> \in StartsEarlier(sessions) => j < k
      /\ g[x] \in DOMAIN sessions /\ g[y] \in DOMAIN sessions
  <2>1. ASSUME NEW j \in 1 .. Len(g), NEW k \in 1 .. Len(g), <<g[j], g[k]>> \in StartsEarlier(sessions)
        PROVE  j < k
    <3>1. Orders(StartsEarlier(sessions), DOMAIN sessions)
      BY EarlierOrders
    <3>2. g[j] \in DOMAIN sessions /\ g[k] \in DOMAIN sessions
      BY DEF Grouped
    <3>3. <<g[j], g[j]>> \notin StartsEarlier(sessions) /\ <<g[k], g[j]>> \notin StartsEarlier(sessions)
      BY <2>1, <3>1, <3>2 DEF Orders
    <3>4. j # k /\ ~(k < j)
      BY <2>1, <3>3 DEF Grouped
    <3>5. QED
      BY <3>4 DEF Grouped
  <2>2. QED
    BY <2>1 DEF Grouped
<1>2. ASSUME NEW j \in 1 .. Len(g), NEW k \in 1 .. Len(g),
             FirstAt(sessions, g, gap, j) # FirstAt(sessions, g, gap, k),
             <<g[j], g[k]>> \in StartsEarlier(sessions)
      PROVE  ~(sessions[g[k]].start - sessions[g[j]].end <= gap)
  <2>1. j < k /\ j \in 1 .. k
    BY <1>1, <1>2
  <2>2. StartAt(sessions, g, k) - EndAt(sessions, g, j) > gap
    BY <1>2, <2>1, WalkKeeps DEF Walked, FirstAt
  <2>3. StartAt(sessions, g, k) \in Int /\ EndAt(sessions, g, j) \in Int
    BY TimesAre
  <2> DEFINE d == StartAt(sessions, g, k) - EndAt(sessions, g, j)
  <2>4. d \in Int /\ d > gap
    BY <2>2, <2>3
  <2> HIDE DEF d
  <2>5. ~(d <= gap)
    BY <2>4
  <2>6. QED
    BY <2>5 DEF d, StartAt, EndAt
<1>3. <<g[x], g[x]>> \notin StartsEarlier(sessions) /\ <<g[y], g[y]>> \notin StartsEarlier(sessions)
  BY <1>1
<1>4. QED
  BY <1>2, <1>3 DEF Linked

\* Whatever part is taken of a thread, a link joins it to the rest.
LEMMA ThreadHolds ==
  ASSUME NEW sessions, Timed(sessions), NEW g, NEW project, Grouped(g, sessions, project), NEW gap \in Int,
         NEW f \in 1 .. Len(g), NEW m, ThreadFrom(m, sessions, g, gap, f),
         NEW part, part \subseteq Range(m), part # {}, part # Range(m)
  PROVE  \E i \in part, j \in Range(m) \ part : Linked(sessions, gap, i, j)
<1> DEFINE first(k) == FirstAt(sessions, g, gap, k)
           F == first(f)
           K == {k \in 1 .. Len(g) : first(k) = F}
           Differs == {k \in K : (g[k] \in part) # (g[F] \in part)}
<1>1. F \in K /\ \A x : x \in Range(m) <=> \E k \in K : g[k] = x
  BY DEF ThreadFrom
<1>2. Differs # {}
  <2> HIDE DEF K, F
  <2>1. CASE g[F] \in part
    <3>1. PICK k \in K : g[k] \notin part
      BY <1>1, <2>1
    <3>2. QED
      BY <2>1, <3>1
  <2>2. CASE g[F] \notin part
    <3>1. PICK k \in K : g[k] \in part
      BY <1>1, <2>2
    <3>2. QED
      BY <2>2, <3>1
  <2>3. QED
    BY <2>1, <2>2
<1>3. PICK k \in Differs : \A j \in Differs : k <= j
  <2>1. Differs \subseteq Nat
    BY DEF Grouped
  <2> HIDE DEF Differs
  <2>2. QED
    BY <1>2, <2>1, LeastExists
<1>4. k \in 1 .. Len(g) /\ first(k) = F /\ k # F /\ (g[k] \in part) # (g[F] \in part)
  BY <1>3
<1> DEFINE w == Walk(sessions, g, gap)
<1>5. /\ w[k].first = F /\ F \in 1 .. k
      /\ StartAt(sessions, g, k) - w[k - 1].end <= gap /\ w[k - 1].first = F
  <2>1. Walked(sessions, g, gap, w, k)
    BY <1>4, WalkKeeps
  <2> HIDE DEF w, F
  <2>2. w[k].first = F
    BY <1>4 DEF FirstAt, w
  <2>3. QED
    BY <1>4, <2>1, <2>2 DEF Walked
<1>6. k - 1 \in 1 .. Len(g)
  BY <1>4, <1>5 DEF Grouped
<1>7. PICK j \in F .. k - 1 : EndAt(sessions, g, j) = w[k - 1].end /\ w[j].first = F
  <2>1. Walked(sessions, g, gap, w, k - 1)
    BY <1>6, WalkKeeps
  <2> HIDE DEF w, F
  <2>2. QED
    BY <1>5, <2>1 DEF Walked
<1>8. j \in 1 .. Len(g) /\ j < k /\ ~(k <= j)
  <2> HIDE DEF F
  <2>1. QED
    BY <1>4, <1>5, <1>7 DEF Grouped
<1>9. first(j) = F
  BY <1>7 DEF FirstAt
<1>10. (g[j] \in part) = (g[F] \in part)
  <2>1. j \notin Differs
    BY <1>3, <1>8
  <2> HIDE DEF F, first
  <2>2. QED
    BY <1>8, <1>9, <2>1
<1>11. Linked(sessions, gap, g[j], g[k]) /\ Linked(sessions, gap, g[k], g[j])
  <2>1. sessions[g[j]].project = sessions[g[k]].project /\ <<g[j], g[k]>> \in StartsEarlier(sessions)
    BY <1>4, <1>8 DEF Grouped
  <2>2. sessions[g[k]].start - sessions[g[j]].end <= gap
    BY <1>5, <1>7 DEF StartAt, EndAt
  <2>3. QED
    BY <2>1, <2>2 DEF Linked
<1>12. g[j] \in Range(m) /\ g[k] \in Range(m)
  <2>1. j \in K /\ k \in K
    BY <1>4, <1>8, <1>9
  <2> HIDE DEF K, F
  <2>2. QED
    BY <1>1, <2>1
<1> HIDE DEF F, K, Differs, first, w
<1>13. CASE g[j] \in part
  BY <1>4, <1>10, <1>11, <1>12, <1>13
<1>14. CASE g[j] \notin part
  BY <1>4, <1>10, <1>11, <1>12, <1>14
<1>15. QED
  BY <1>13, <1>14

(***************************************************************************)
(* All threads.                                                            *)
(***************************************************************************)
GroupOf(sessions, i) == Group(sessions, sessions[i].project)
AllThreads(sessions, gap) ==
  UNION {ThreadsOfGroup(sessions, GroupOf(sessions, i), gap) : i \in DOMAIN sessions}

LEMMA ThreadsAre ==
  ASSUME NEW sessions, Timed(sessions), NEW gap \in Int
  PROVE  /\ \A m \in AllThreads(sessions, gap) :
                \E i \in DOMAIN sessions : \E f \in 1 .. Len(GroupOf(sessions, i)) :
                    m = ThreadAt(sessions, GroupOf(sessions, i), gap, f)
         /\ \A i \in DOMAIN sessions : \A f \in 1 .. Len(GroupOf(sessions, i)) :
                /\ ThreadAt(sessions, GroupOf(sessions, i), gap, f) \in AllThreads(sessions, gap)
                /\ Grouped(GroupOf(sessions, i), sessions, sessions[i].project)
                /\ ThreadFrom(ThreadAt(sessions, GroupOf(sessions, i), gap, f),
                              sessions, GroupOf(sessions, i), gap, f)
<1>1. \A i \in DOMAIN sessions :
        /\ Grouped(GroupOf(sessions, i), sessions, sessions[i].project)
        /\ DOMAIN GroupOf(sessions, i) = 1 .. Len(GroupOf(sessions, i))
  BY GroupIs, TimesAre DEF GroupOf
<1>2. \A i \in DOMAIN sessions :
        ThreadsOfGroup(sessions, GroupOf(sessions, i), gap)
            = {ThreadAt(sessions, GroupOf(sessions, i), gap, f) : f \in 1 .. Len(GroupOf(sessions, i))}
  BY <1>1 DEF ThreadsOfGroup, ThreadAt
<1>3. \A i \in DOMAIN sessions : \A f \in 1 .. Len(GroupOf(sessions, i)) :
        ThreadFrom(ThreadAt(sessions, GroupOf(sessions, i), gap, f), sessions, GroupOf(sessions, i), gap, f)
  BY <1>1, ThreadIs
<1>4. QED
  BY <1>1, <1>2, <1>3 DEF AllThreads

LEMMA OneThread ==
  ASSUME NEW sessions, Timed(sessions), NEW gap \in Int,
         NEW m \in AllThreads(sessions, gap), NEW n \in AllThreads(sessions, gap), m[1] = n[1]
  PROVE  m = n
<1>1. PICK i \in DOMAIN sessions : \E f \in 1 .. Len(GroupOf(sessions, i)) :
        m = ThreadAt(sessions, GroupOf(sessions, i), gap, f)
  BY ThreadsAre
<1>2. PICK j \in DOMAIN sessions : \E h \in 1 .. Len(GroupOf(sessions, j)) :
        n = ThreadAt(sessions, GroupOf(sessions, j), gap, h)
  BY ThreadsAre
<1> DEFINE g == GroupOf(sessions, i)
           e == GroupOf(sessions, j)
<1>3. PICK f \in 1 .. Len(g) : m = ThreadAt(sessions, g, gap, f)
  BY <1>1
<1>4. PICK h \in 1 .. Len(e) : n = ThreadAt(sessions, e, gap, h)
  BY <1>2
<1>5. /\ Grouped(g, sessions, sessions[i].project) /\ Grouped(e, sessions, sessions[j].project)
      /\ ThreadFrom(m, sessions, g, gap, f) /\ ThreadFrom(n, sessions, e, gap, h)
  BY <1>3, <1>4, ThreadsAre
<1> DEFINE F == FirstAt(sessions, g, gap, f)
           H == FirstAt(sessions, e, gap, h)
<1>6. F \in 1 .. Len(g) /\ H \in 1 .. Len(e) /\ m[1] = g[F] /\ n[1] = e[H]
  BY <1>5 DEF ThreadFrom
<1> HIDE DEF F, H, g, e
<1>7. sessions[i].project = sessions[j].project
  <2>1. sessions[g[F]].project = sessions[i].project
    BY <1>5, <1>6 DEF Grouped
  <2>2. sessions[e[H]].project = sessions[j].project
    BY <1>5, <1>6 DEF Grouped
  <2>3. g[F] = e[H]
    BY <1>6
  <2>4. QED
    BY <2>1, <2>2, <2>3
<1>8. g = e
  BY <1>7 DEF GroupOf, g, e
<1>9. F = H
  <2>1. g[F] = g[H] /\ F \in 1 .. Len(g) /\ H \in 1 .. Len(g)
    BY <1>6, <1>8
  <2>2. QED
    BY <1>5, <2>1 DEF Grouped
<1>10. QED
  BY <1>3, <1>4, <1>8, <1>9 DEF ThreadAt, FirstAt, F, H

\* Every session is in a thread, no link leaves a thread, and none falls apart.
LEMMA ThreadsJoin ==
  ASSUME NEW sessions, Timed(sessions), NEW gap \in Int
  PROVE  /\ \A m \in AllThreads(sessions, gap) :
                m \in Seq(DOMAIN sessions) /\ Len(m) >= 1 /\ m[1] \in Range(m) /\ Range(m) \subseteq DOMAIN sessions
         /\ \A i \in DOMAIN sessions : \E m \in AllThreads(sessions, gap) : i \in Range(m)
         /\ \A m, n \in AllThreads(sessions, gap) : m # n =>
                \A i \in Range(m), j \in Range(n) : ~Linked(sessions, gap, i, j)
         /\ \A m \in AllThreads(sessions, gap) : \A part \in (SUBSET Range(m)) \ {{}, Range(m)} :
                \E i \in part, j \in Range(m) \ part : Linked(sessions, gap, i, j)
<1>1. ASSUME NEW m \in AllThreads(sessions, gap)
      PROVE  m \in Seq(DOMAIN sessions) /\ Len(m) >= 1 /\ m[1] \in Range(m) /\ Range(m) \subseteq DOMAIN sessions
  <2>1. PICK i \in DOMAIN sessions : \E f \in 1 .. Len(GroupOf(sessions, i)) :
          m = ThreadAt(sessions, GroupOf(sessions, i), gap, f)
    BY ThreadsAre
  <2>2. m \in Seq(DOMAIN sessions) /\ Len(m) \in Nat /\ Len(m) >= 1
    BY <2>1, ThreadsAre DEF ThreadFrom
  <2>3. 1 \in 1 .. Len(m)
    BY <2>2
  <2>4. QED
    BY <2>2, <2>3, RangeFinite
<1>2. ASSUME NEW i \in DOMAIN sessions PROVE \E m \in AllThreads(sessions, gap) : i \in Range(m)
  <2>1. Grouped(GroupOf(sessions, i), sessions, sessions[i].project)
    BY GroupIs DEF GroupOf
  <2>2. PICK k \in 1 .. Len(GroupOf(sessions, i)) : GroupOf(sessions, i)[k] = i
    BY <2>1 DEF Grouped
  <2> DEFINE m == ThreadAt(sessions, GroupOf(sessions, i), gap, k)
  <2>3. m \in AllThreads(sessions, gap) /\ ThreadFrom(m, sessions, GroupOf(sessions, i), gap, k)
    BY ThreadsAre
  <2> HIDE DEF m
  <2>4. i \in Range(m)
    BY <2>2, <2>3 DEF ThreadFrom
  <2>5. QED
    BY <2>3, <2>4
<1>3. ASSUME NEW m \in AllThreads(sessions, gap), NEW n \in AllThreads(sessions, gap), m # n,
             NEW i \in Range(m), NEW j \in Range(n)
      PROVE  ~Linked(sessions, gap, i, j)
  <2>1. PICK a \in DOMAIN sessions : \E f \in 1 .. Len(GroupOf(sessions, a)) :
          m = ThreadAt(sessions, GroupOf(sessions, a), gap, f)
    BY ThreadsAre
  <2>2. PICK b \in DOMAIN sessions : \E h \in 1 .. Len(GroupOf(sessions, b)) :
          n = ThreadAt(sessions, GroupOf(sessions, b), gap, h)
    BY ThreadsAre
  <2> DEFINE g == GroupOf(sessions, a)
             e == GroupOf(sessions, b)
  <2>3. PICK f \in 1 .. Len(g) : m = ThreadAt(sessions, g, gap, f)
    BY <2>1
  <2>4. PICK h \in 1 .. Len(e) : n = ThreadAt(sessions, e, gap, h)
    BY <2>2
  <2>5. /\ Grouped(g, sessions, sessions[a].project) /\ Grouped(e, sessions, sessions[b].project)
        /\ ThreadFrom(m, sessions, g, gap, f) /\ ThreadFrom(n, sessions, e, gap, h)
    BY <2>3, <2>4, ThreadsAre
  <2>6. PICK k \in 1 .. Len(g) : FirstAt(sessions, g, gap, k) = FirstAt(sessions, g, gap, f) /\ g[k] = i
    BY <2>5 DEF ThreadFrom
  <2>7. PICK l \in 1 .. Len(e) : FirstAt(sessions, e, gap, l) = FirstAt(sessions, e, gap, h) /\ e[l] = j
    BY <2>5 DEF ThreadFrom
  <2>8. sessions[i].project = sessions[a].project /\ sessions[j].project = sessions[b].project
    <3> HIDE DEF g, e
    <3>1. QED
      BY <2>5, <2>6, <2>7 DEF Grouped
  <2>9. CASE sessions[a].project # sessions[b].project
    BY <2>8, <2>9 DEF Linked
  <2>10. CASE sessions[a].project = sessions[b].project
    <3>1. g = e
      BY <2>10 DEF GroupOf
    <3> HIDE DEF g, e
    <3>2. FirstAt(sessions, g, gap, f) # FirstAt(sessions, g, gap, h)
      BY <1>3, <2>3, <2>4, <3>1 DEF ThreadAt, FirstAt
    <3>3. QED
      BY <2>5, <2>6, <2>7, <3>1, <3>2, ThreadsApart
  <2>11. QED
    BY <2>9, <2>10
<1>4. ASSUME NEW m \in AllThreads(sessions, gap), NEW part \in (SUBSET Range(m)) \ {{}, Range(m)}
      PROVE  \E i \in part, j \in Range(m) \ part : Linked(sessions, gap, i, j)
  <2>1. PICK a \in DOMAIN sessions : \E f \in 1 .. Len(GroupOf(sessions, a)) :
          m = ThreadAt(sessions, GroupOf(sessions, a), gap, f)
    BY ThreadsAre
  <2> DEFINE g == GroupOf(sessions, a)
  <2>2. PICK f \in 1 .. Len(g) : m = ThreadAt(sessions, g, gap, f)
    BY <2>1
  <2>3. Grouped(g, sessions, sessions[a].project) /\ ThreadFrom(m, sessions, g, gap, f)
    BY <2>2, ThreadsAre
  <2> HIDE DEF g
  <2>4. part \subseteq Range(m) /\ part # {} /\ part # Range(m)
    OBVIOUS
  <2>5. QED
    BY <2>3, <2>4, ThreadHolds
<1>5. QED
  BY <1>1, <1>2, <1>3, <1>4

(***************************************************************************)
(* The list of threads.                                                    *)
(***************************************************************************)
ThreadRecords(sessions, gap) == {MakeThread(sessions, m) : m \in AllThreads(sessions, gap)}

LEMMA ListingIs ==
  ASSUME NEW sessions, Timed(sessions), NEW gap \in Int
  PROVE  /\ IsFiniteSet(ThreadRecords(sessions, gap))
         /\ Orders(Newer(ThreadRecords(sessions, gap)), ThreadRecords(sessions, gap))
         /\ \A t \in ThreadRecords(sessions, gap) :
              /\ t.members \in AllThreads(sessions, gap)
              /\ t.id = <<sessions[t.members[1]].project, t.members[1]>>
              /\ t.start = sessions[t.members[1]].start
         /\ \A t, u \in ThreadRecords(sessions, gap) : t.members = u.members => t = u
         /\ \A m \in AllThreads(sessions, gap) : \E t \in ThreadRecords(sessions, gap) : t.members = m
<1> DEFINE A == AllThreads(sessions, gap)
           T == ThreadRecords(sessions, gap)
<1>1. \A m : /\ MakeThread(sessions, m).members = m
             /\ MakeThread(sessions, m).id = <<sessions[m[1]].project, m[1]>>
             /\ MakeThread(sessions, m).start = sessions[m[1]].start
  BY DEF MakeThread
<1>2. T = {MakeThread(sessions, m) : m \in A}
  BY DEF ThreadRecords
<1>3. \A t \in T : /\ t.members \in A
                   /\ t.id = <<sessions[t.members[1]].project, t.members[1]>>
                   /\ t.start = sessions[t.members[1]].start
                   /\ t = MakeThread(sessions, t.members)
  <2> SUFFICES ASSUME NEW t \in T
               PROVE  /\ t.members \in A
                      /\ t.id = <<sessions[t.members[1]].project, t.members[1]>>
                      /\ t.start = sessions[t.members[1]].start
                      /\ t = MakeThread(sessions, t.members)
    OBVIOUS
  <2> HIDE DEF A, T
  <2>1. PICK m \in A : t = MakeThread(sessions, m)
    BY <1>2
  <2>2. t.members = m
    BY <1>1, <2>1
  <2>3. QED
    BY <1>1, <2>1, <2>2
<1>4. \A m \in A : \E t \in T : t.members = m
  <2> SUFFICES ASSUME NEW m \in A PROVE \E t \in T : t.members = m
    OBVIOUS
  <2> HIDE DEF A, T
  <2>1. MakeThread(sessions, m) \in T
    BY <1>2
  <2>2. QED
    BY <1>1, <2>1
<1>5. \A m \in A : m[1] \in 1 .. Len(sessions)
  BY ThreadsJoin DEF Timed
<1>6. IsFiniteSet(A)
  <2> DEFINE f == [m \in A |-> m[1]]
  <2>1. f \in [A -> 1 .. Len(sessions)] /\ \A m, n \in A : f[m] = f[n] => m = n
    <3> HIDE DEF A
    <3>1. f \in [A -> 1 .. Len(sessions)]
      BY <1>5
    <3>2. \A m, n \in A : m[1] = n[1] => m = n
      BY OneThread DEF A
    <3>3. QED
      BY <3>1, <3>2
  <2> HIDE DEF f, A
  <2>2. f \in Injection(A, 1 .. Len(sessions))
    BY <2>1, Fun_IsInj
  <2>3. IsFiniteSet(1 .. Len(sessions))
    BY FS_Interval DEF Timed
  <2>4. QED
    BY <2>2, <2>3, FS_Injection
<1>7. IsFiniteSet(T)
  <2> DEFINE make == [m \in A |-> MakeThread(sessions, m)]
  <2> HIDE DEF A
  <2>1. make \in Surjection(A, T)
    BY <1>2 DEF Surjection
  <2> HIDE DEF make
  <2>2. QED
    BY <1>6, <2>1, FS_Surjection
<1> DEFINE start == [t \in T |-> t.start]
           project == [t \in T |-> sessions[t.members[1]].project]
           place == [t \in T |-> t.members[1]]
<1>8. \A t \in T : start[t] \in Int /\ project[t] \in Int /\ place[t] \in Int
  <2>1. \A t \in T : t.members[1] \in 1 .. Len(sessions) /\ t.start = sessions[t.members[1]].start
    <3> HIDE DEF A, T
    <3>1. QED
      BY <1>5, <1>3
  <2> HIDE DEF T
  <2>2. QED
    BY <2>1 DEF Timed
<1>9. \A t, u \in T : <<t, u>> \in Newer(T) <=>
        \/ start[t] > start[u]
        \/ /\ start[t] = start[u]
           /\ project[t] < project[u] \/ (project[t] = project[u] /\ place[t] < place[u])
  <2> SUFFICES ASSUME NEW t \in T, NEW u \in T
               PROVE  <<t, u>> \in Newer(T) <=>
                        \/ start[t] > start[u]
                        \/ /\ start[t] = start[u]
                           /\ project[t] < project[u] \/ (project[t] = project[u] /\ place[t] < place[u])
    OBVIOUS
  <2>1. /\ t.id[1] = project[t] /\ t.id[2] = place[t] /\ t.start = start[t]
        /\ u.id[1] = project[u] /\ u.id[2] = place[u] /\ u.start = start[u]
    <3>1. t.id = <<sessions[t.members[1]].project, t.members[1]>>
          /\ u.id = <<sessions[u.members[1]].project, u.members[1]>>
      BY <1>3
    <3> HIDE DEF T
    <3>2. QED
      BY <3>1, <1>3
  <2> HIDE DEF T, start, project, place
  <2>2. QED
    BY <2>1 DEF Newer
<1>10. \A t, u \in T : t.members = u.members => t = u
  <2> HIDE DEF A, T
  <2>1. QED
    BY <1>3
<1>11. \A t, u \in T : place[t] = place[u] => t = u
  <2> SUFFICES ASSUME NEW t \in T, NEW u \in T, place[t] = place[u] PROVE t = u
    OBVIOUS
  <2>1. t.members \in A /\ u.members \in A
    <3> HIDE DEF A, T
    <3>1. QED
      BY <1>3
  <2>2. t.members[1] = u.members[1]
    <3> HIDE DEF T
    <3>1. QED
      OBVIOUS
  <2>3. t.members = u.members
    BY <2>1, <2>2, OneThread
  <2>4. QED
    BY <1>10, <2>3
<1>12. Orders(Newer(T), T)
  <2> HIDE DEF T, start, project, place
  <2>1. \A t \in T : <<t, t>> \notin Newer(T)
    BY <1>8, <1>9
  <2>2. \A t, u \in T : t # u => <<t, u>> \in Newer(T) \/ <<u, t>> \in Newer(T)
    BY <1>8, <1>9, <1>11
  <2>3. \A t, u, v \in T : <<t, u>> \in Newer(T) /\ <<u, v>> \in Newer(T) => <<t, v>> \in Newer(T)
    BY <1>8, <1>9
  <2>4. QED
    BY <2>1, <2>2, <2>3 DEF Orders
<1>13. \A t \in T : /\ t.members \in A
                    /\ t.id = <<sessions[t.members[1]].project, t.members[1]>>
                    /\ t.start = sessions[t.members[1]].start
  <2> HIDE DEF A, T
  <2>1. QED
    BY <1>3
<1> HIDE DEF start, project, place
<1>14. QED
  BY <1>7, <1>10, <1>12, <1>13, <1>4

LEMMA ClusterIs ==
  ASSUME NEW sessions, Timed(sessions), NEW gap \in Int
  PROVE  InOrderOf(Cluster(sessions, gap, 1), ThreadRecords(sessions, gap), Newer(ThreadRecords(sessions, gap)))
<1> DEFINE A == AllThreads(sessions, gap)
           L == ThreadRecords(sessions, gap)
<1>1. {m \in A : Len(m) >= 1} = A
  <2>1. \A m \in A : Len(m) >= 1
    BY ThreadsJoin
  <2> HIDE DEF A
  <2>2. QED
    BY <2>1
<1>2. Cluster(sessions, gap, 1)
        = InOrder({MakeThread(sessions, m) : m \in {n \in A : Len(n) >= 1}},
                  Newer({MakeThread(sessions, m) : m \in {n \in A : Len(n) >= 1}}))
  BY DEF Cluster, AllThreads, GroupOf
<1>3. Cluster(sessions, gap, 1) = InOrder(L, Newer(L))
  BY <1>1, <1>2 DEF ThreadRecords
<1>4. IsFiniteSet(L) /\ Orders(Newer(L), L)
  BY ListingIs
<1> HIDE DEF L
<1>5. InOrderOf(InOrder(L, Newer(L)), L, Newer(L))
  BY <1>4, InOrderIs
<1>6. QED
  BY <1>3, <1>5 DEF L

\* What is listed are the threads, each once.
LEMMA ClusterHolds ==
  ASSUME NEW sessions, Timed(sessions), NEW gap \in Int
  PROVE  LET c == Cluster(sessions, gap, 1)
             A == AllThreads(sessions, gap)
         IN  /\ Len(c) \in Nat /\ DOMAIN c = 1 .. Len(c) /\ c \in Seq(ThreadRecords(sessions, gap))
             /\ \A t \in DOMAIN c : c[t].members \in A
             /\ \A t, u \in DOMAIN c : t # u => c[t].members # c[u].members
             /\ \A m \in A : \E t \in DOMAIN c : c[t].members = m
<1> DEFINE c == Cluster(sessions, gap, 1)
           A == AllThreads(sessions, gap)
           L == ThreadRecords(sessions, gap)
           n == Cardinality(L)
<1>1. InOrderOf(c, L, Newer(L))
  BY ClusterIs
<1>2. /\ \A t \in L : t.members \in A
      /\ \A t, u \in L : t.members = u.members => t = u
      /\ \A m \in A : \E t \in L : t.members = m
  BY ListingIs
<1> HIDE DEF c, A, L
<1>3. /\ n \in Nat /\ c \in [1 .. n -> L]
      /\ \A t \in L : \E i \in 1 .. n : c[i] = t
      /\ \A i, j \in 1 .. n : c[i] = c[j] => i = j
  BY <1>1 DEF InOrderOf
<1> HIDE DEF n
<1>4. Len(c) = n /\ DOMAIN c = 1 .. n /\ c \in Seq(L)
  BY <1>3, LenProperties
<1>5. \A t \in 1 .. n : c[t] \in L
  BY <1>3
<1>6. \A t \in 1 .. n : c[t].members \in A
  BY <1>2, <1>5
<1>7. \A t, u \in 1 .. n : t # u => c[t].members # c[u].members
  BY <1>2, <1>3, <1>5
<1>8. \A m \in A : \E t \in 1 .. n : c[t].members = m
  BY <1>2, <1>3
<1>9. QED
  BY <1>3, <1>4, <1>6, <1>7, <1>8 DEF c, A, L

\* For any discovery and any gap, the threads are the components of the sessions of a
\* project that start within the gap of an earlier one's end (threads.rs).
THEOREM ThreadsCorrect ==
  ASSUME NEW sessions, Timed(sessions), NEW gap \in Int
  PROVE  ThreadsAreComponents(sessions, gap)
<1> DEFINE c == Cluster(sessions, gap, 1)
           A == AllThreads(sessions, gap)
           Of(t) == Range(c[t].members)
<1>1. /\ \A t \in DOMAIN c : c[t].members \in A
      /\ \A t, u \in DOMAIN c : t # u => c[t].members # c[u].members
      /\ \A m \in A : \E t \in DOMAIN c : c[t].members = m
  BY ClusterHolds
<1>2. /\ \A m \in A : Range(m) \subseteq DOMAIN sessions
      /\ \A i \in DOMAIN sessions : \E m \in A : i \in Range(m)
      /\ \A m, n \in A : m # n => \A i \in Range(m), j \in Range(n) : ~Linked(sessions, gap, i, j)
      /\ \A m \in A : \A part \in (SUBSET Range(m)) \ {{}, Range(m)} :
            \E i \in part, j \in Range(m) \ part : Linked(sessions, gap, i, j)
  BY ThreadsJoin
<1> HIDE DEF c, A
<1>3. UNION {Of(t) : t \in DOMAIN c} = DOMAIN sessions
  <2>1. \A i : i \in UNION {Of(t) : t \in DOMAIN c} <=> \E t \in DOMAIN c : i \in Of(t)
    OBVIOUS
  <2>2. ASSUME NEW i \in DOMAIN sessions PROVE \E t \in DOMAIN c : i \in Of(t)
    BY <1>1, <1>2
  <2>3. ASSUME NEW i, NEW t \in DOMAIN c, i \in Of(t) PROVE i \in DOMAIN sessions
    BY <1>1, <1>2, <2>3
  <2> HIDE DEF Of
  <2>4. QED
    BY <2>1, <2>2, <2>3
<1>4. ASSUME NEW t \in DOMAIN c, NEW u \in DOMAIN c, t # u, NEW i \in Of(t), NEW j \in Of(u)
      PROVE  ~Linked(sessions, gap, i, j)
  BY <1>1, <1>2, <1>4
<1>5. ASSUME NEW t \in DOMAIN c, NEW part \in (SUBSET Of(t)) \ {{}, Of(t)}
      PROVE  \E i \in part, j \in Of(t) \ part : Linked(sessions, gap, i, j)
  BY <1>1, <1>2
<1>6. QED
  BY <1>3, <1>4, <1>5 DEF ThreadsAreComponents, c

\* Whatever the limit, the threads left out are no newer than those shown
\* (commands/analysis/threads/mod.rs).
THEOREM LimitCorrect ==
  ASSUME NEW sessions, Timed(sessions), NEW gap \in Int, NEW limit \in Nat
  PROVE  LimitKeepsTheNewest(sessions, gap, limit)
<1> DEFINE c == Cluster(sessions, gap, 1)
           L == ThreadRecords(sessions, gap)
           n == Cardinality(L)
           all == ThreadsCommand(sessions, gap, 1, 0).threads
           some == ThreadsCommand(sessions, gap, 1, limit).threads
<1>1. gap < 0 => all = <<>> /\ some = <<>>
  BY DEF ThreadsCommand
<1>2. ~(gap < 0) => all = c /\ some = IF limit > 0 /\ Len(c) > limit THEN SubSeq(c, 1, limit) ELSE c
  BY DEF ThreadsCommand
<1>3. InOrderOf(c, L, Newer(L))
  BY ClusterIs
<1>4. \A t \in L : t.start \in Int
  <2> SUFFICES ASSUME NEW t \in L PROVE t.start \in Int
    OBVIOUS
  <2>1. t.members \in AllThreads(sessions, gap) /\ t.start = sessions[t.members[1]].start
    BY ListingIs
  <2>2. t.members[1] \in DOMAIN sessions
    BY <2>1, ThreadsJoin
  <2>3. QED
    BY <2>1, <2>2 DEF Timed
<1>5. /\ n \in Nat /\ Len(c) = n /\ c \in Seq(L) /\ DOMAIN c = 1 .. n
      /\ \A i, j \in 1 .. n : i < j => <<c[i], c[j]>> \in Newer(L)
  <2> HIDE DEF c, L
  <2>1. /\ n \in Nat /\ c \in [1 .. n -> L]
        /\ \A i, j \in 1 .. n : i < j => <<c[i], c[j]>> \in Newer(L)
    BY <1>3 DEF InOrderOf
  <2> HIDE DEF n
  <2>2. Len(c) = n /\ c \in Seq(L) /\ DOMAIN c = 1 .. n
    BY <2>1, LenProperties
  <2>3. QED
    BY <2>1, <2>2
<1>6. SUFFICES ASSUME NEW t \in Range(some), NEW u \in Range(all) \ Range(some)
               PROVE  t.start >= u.start
  BY DEF LimitKeepsTheNewest
<1>7. ~(gap < 0) /\ limit > 0 /\ Len(c) > limit /\ some = SubSeq(c, 1, limit) /\ all = c
  <2> HIDE DEF all, some, c
  <2>1. ~(gap < 0)
    BY <1>1, <1>6 DEF Range
  <2>2. QED
    BY <1>2, <1>6, <2>1
<1> HIDE DEF all, some, c, L, n
<1>8. /\ limit <= n /\ limit \in Nat /\ Len(some) = limit /\ some \in Seq(L)
      /\ \A i \in 1 .. limit : some[i] = c[i]
  <2>1. limit <= n
    BY <1>5, <1>7
  <2>2. \A i \in 1 .. limit : c[i] \in L
    BY <1>5, <2>1, ElementOfSeq
  <2>3. /\ some \in Seq(L) /\ Len(some) = IF 1 <= limit THEN limit - 1 + 1 ELSE 0
        /\ \A i \in 1 .. limit - 1 + 1 : some[i] = c[1 + i - 1]
    BY <1>7, <2>2, SubSeqProperties
  <2>4. \A i \in 1 .. limit : i \in 1 .. limit - 1 + 1 /\ 1 + i - 1 = i
    OBVIOUS
  <2>5. Len(some) = limit
    BY <2>3
  <2>6. QED
    BY <2>1, <2>3, <2>4, <2>5
<1>9. PICK i \in 1 .. limit : t = c[i]
  BY <1>6, <1>8, RangeFinite
<1>10. PICK j \in 1 .. n : u = c[j]
  BY <1>5, <1>6, <1>7, RangeFinite
<1>11. j > limit
  <2>1. j <= limit => some[j] = u /\ j \in 1 .. Len(some)
    BY <1>8, <1>10
  <2>2. j <= limit => u \in Range(some)
    BY <1>8, <2>1, RangeFinite
  <2>3. QED
    BY <1>5, <1>6, <1>10, <2>2
<1>12. i \in 1 .. n /\ i < j
  BY <1>5, <1>8, <1>11
<1>13. <<t, u>> \in Newer(L) /\ t \in L /\ u \in L
  BY <1>5, <1>9, <1>10, <1>12, ElementOfSeq
<1>14. t.start > u.start \/ t.start = u.start
  BY <1>13 DEF Newer
<1>15. QED
  BY <1>4, <1>13, <1>14

(***************************************************************************)
(* A later session.                                                        *)
(***************************************************************************)
\* more is sessions with a session behind it that starts after all of them.
Later(sessions, more) ==
  /\ Timed(sessions) /\ Timed(more) /\ Len(more) = Len(sessions) + 1
  /\ \A i \in DOMAIN sessions :
        more[i] = sessions[i] /\ sessions[i].start < more[Len(more)].start

LEMMA GroupGrows ==
  ASSUME NEW sessions, NEW more, Later(sessions, more), NEW project
  PROVE  LET g == Group(sessions, project)
             e == Group(more, project)
         IN  Len(g) <= Len(e) /\ \A k \in 1 .. Len(g) : e[k] = g[k]
<1> DEFINE g == Group(sessions, project)
           e == Group(more, project)
           S == {i \in DOMAIN sessions : sessions[i].project = project}
           T == {i \in DOMAIN more : more[i].project = project}
           b == StartsEarlier(sessions)
           c == StartsEarlier(more)
           n == Len(sessions)
<1>1. /\ n \in Nat /\ DOMAIN sessions = 1 .. n /\ DOMAIN more = 1 .. n + 1
      /\ \A i \in 1 .. n : more[i] = sessions[i] /\ i \in 1 .. n + 1
      /\ \A i \in 1 .. n : sessions[i].start \in Int /\ sessions[i].start < more[n + 1].start
      /\ more[n + 1].start \in Int
  <2>1. n + 1 \in DOMAIN more
    BY DEF Later, Timed
  <2>2. n \in Nat /\ DOMAIN sessions = 1 .. n /\ DOMAIN more = 1 .. n + 1
    BY DEF Later, Timed
  <2>3. \A i \in 1 .. n : more[i] = sessions[i] /\ sessions[i].start < more[n + 1].start
    BY <2>2 DEF Later
  <2>4. \A i \in 1 .. n : sessions[i].start \in Int
    BY <2>2 DEF Later, Timed
  <2>5. more[n + 1].start \in Int
    BY <2>1 DEF Later, Timed
  <2>6. \A i \in 1 .. n : i \in 1 .. n + 1
    BY <2>2
  <2>7. QED
    BY <2>2, <2>3, <2>4, <2>5, <2>6
<1>2. S \subseteq T /\ \A x \in T : x \in S \/ x = n + 1
  BY <1>1
<1>3. ASSUME NEW m \in S PROVE Preceding(T, c, m) = Preceding(S, b, m)
  <2>1. m \in 1 .. n /\ m \in 1 .. n + 1
    BY <1>1
  <2>2. ASSUME NEW x \in T, <<x, m>> \in c PROVE x \in S /\ <<x, m>> \in b
    <3>1. x # n + 1
      <4>1. more[x].start < more[m].start \/ more[x].start = more[m].start
        BY <2>2 DEF StartsEarlier
      <4>2. QED
        BY <1>1, <2>1, <4>1
    <3>2. x \in S /\ x \in 1 .. n
      BY <1>1, <1>2, <3>1
    <3>3. QED
      BY <1>1, <2>1, <2>2, <3>2 DEF StartsEarlier
  <2>3. ASSUME NEW x \in S, <<x, m>> \in b PROVE x \in T /\ <<x, m>> \in c
    BY <1>1, <1>2, <2>1, <2>3 DEF StartsEarlier
  <2> HIDE DEF S, T, b, c
  <2>4. \A x : x \in Preceding(T, c, m) <=> x \in Preceding(S, b, m)
    BY <2>2, <2>3 DEF Preceding
  <2>5. QED
    BY <2>4 DEF Preceding
<1>4. IsFiniteSet(S) /\ IsFiniteSet(T)
  <2>1. IsFiniteSet(1 .. n) /\ IsFiniteSet(1 .. n + 1)
    BY <1>1, FS_Interval
  <2>2. S \subseteq 1 .. n /\ T \subseteq 1 .. n + 1
    BY <1>1
  <2> HIDE DEF S, T, n
  <2>3. QED
    BY <2>1, <2>2, FS_Subset
<1>5. InOrderOf(g, S, b) /\ InOrderOf(e, T, c)
  <2>1. Orders(b, S) /\ Orders(c, T)
    BY EarlierOrders DEF Later
  <2>2. g = InOrder(S, b) /\ e = InOrder(T, c)
    BY DEF Group
  <2> HIDE DEF S, T, b, c, g, e
  <2>3. QED
    BY <1>4, <2>1, <2>2, InOrderIs
<1> HIDE DEF S, T, b, c, g, e, n
<1>6. /\ Cardinality(S) \in Nat /\ Cardinality(T) \in Nat /\ Cardinality(S) <= Cardinality(T)
      /\ g \in [1 .. Cardinality(S) -> S] /\ e \in [1 .. Cardinality(T) -> T]
  BY <1>2, <1>4, <1>5, FS_Subset DEF InOrderOf
<1>7. Len(g) = Cardinality(S) /\ Len(e) = Cardinality(T)
  BY <1>6, LenProperties
<1>8. ASSUME NEW k \in 1 .. Len(g) PROVE e[k] = g[k]
  <2>1. k \in 1 .. Cardinality(S) /\ g[k] \in S /\ g[k] \in T
    BY <1>2, <1>6, <1>7
  <2>2. Cardinality(Preceding(S, b, g[k])) = k - 1
    BY <1>5, <2>1 DEF InOrderOf
  <2>3. PICK j \in 1 .. Cardinality(T) : e[j] = g[k]
    BY <1>5, <2>1 DEF InOrderOf
  <2>4. Cardinality(Preceding(T, c, g[k])) = j - 1
    BY <1>5, <2>3 DEF InOrderOf
  <2>5. k - 1 = j - 1
    BY <1>3, <2>1, <2>2, <2>4
  <2>6. j = k
    BY <1>6, <2>1, <2>5
  <2>7. QED
    BY <2>3, <2>6
<1>9. QED
  BY <1>6, <1>7, <1>8 DEF g, e

LEMMA WalkGrows ==
  ASSUME NEW sessions, NEW more, Later(sessions, more), NEW project, NEW gap \in Int,
         NEW k \in 1 .. Len(Group(sessions, project))
  PROVE  Walk(more, Group(more, project), gap)[k] = Walk(sessions, Group(sessions, project), gap)[k]
<1> DEFINE g == Group(sessions, project)
           e == Group(more, project)
           w == Walk(sessions, g, gap)
           v == Walk(more, e, gap)
           Wrong == {j \in 1 .. Len(g) : v[j] # w[j]}
<1>1. /\ Timed(sessions) /\ Timed(more)
      /\ Grouped(g, sessions, project) /\ Grouped(e, more, project)
  BY GroupIs DEF Later
<1>2. WalkOf(sessions, g, gap, w) /\ WalkOf(more, e, gap, v)
  BY <1>1, WalkIs
<1>3. Len(g) <= Len(e) /\ \A j \in 1 .. Len(g) : e[j] = g[j]
  BY GroupGrows
<1> HIDE DEF g, e, w, v
<1>4. Len(g) \in Nat /\ Len(e) \in Nat /\ DOMAIN g = 1 .. Len(g) /\ DOMAIN e = 1 .. Len(e)
  BY <1>1, TimesAre
<1>5. SUFFICES ASSUME Wrong # {} PROVE FALSE
  BY DEF g, e, w, v
<1>6. PICK m \in Wrong : \A j \in Wrong : m <= j
  <2>1. Wrong \subseteq Nat
    OBVIOUS
  <2> HIDE DEF Wrong
  <2>2. QED
    BY <1>5, <2>1, LeastExists
<1>7. m \in 1 .. Len(g) /\ m \in 1 .. Len(e) /\ v[m] # w[m]
  BY <1>3, <1>4, <1>6
<1>8. w[m] = WalkAt(sessions, g, gap, w, m) /\ v[m] = WalkAt(more, e, gap, v, m)
  BY <1>2, <1>4, <1>7 DEF WalkOf
<1>9. m > 1 => v[m - 1] = w[m - 1]
  <2>1. m > 1 => m - 1 \in 1 .. Len(g) /\ ~(m <= m - 1)
    BY <1>4, <1>7
  <2>2. QED
    BY <1>6, <2>1
<1>10. StartAt(more, e, m) = StartAt(sessions, g, m) /\ EndAt(more, e, m) = EndAt(sessions, g, m)
  <2>1. e[m] = g[m] /\ g[m] \in DOMAIN sessions
    BY <1>1, <1>3, <1>7 DEF Grouped
  <2>2. more[g[m]] = sessions[g[m]]
    BY <2>1 DEF Later
  <2>3. QED
    BY <2>1, <2>2 DEF StartAt, EndAt
<1>11. WalkAt(more, e, gap, v, m) = WalkAt(sessions, g, gap, w, m)
  BY <1>9, <1>10 DEF WalkAt, JoinsThread
<1>12. QED
  BY <1>7, <1>8, <1>11

LEMMA ClusterRange ==
  ASSUME NEW sessions, Timed(sessions), NEW gap \in Int
  PROVE  \A t : t \in Range(Cluster(sessions, gap, 1)) <=> t \in ThreadRecords(sessions, gap)
<1> DEFINE c == Cluster(sessions, gap, 1)
           L == ThreadRecords(sessions, gap)
           n == Cardinality(L)
<1>1. InOrderOf(c, L, Newer(L))
  BY ClusterIs
<1> HIDE DEF c, L
<1>2. n \in Nat /\ c \in [1 .. n -> L] /\ \A t \in L : \E i \in 1 .. n : c[i] = t
  BY <1>1 DEF InOrderOf
<1> HIDE DEF n
<1>3. \A t : t \in Range(c) <=> t \in L
  BY <1>2 DEF Range
<1>4. QED
  BY <1>3 DEF c, L

\* A session that starts after all others leaves every thread its name, for any
\* discovery and any gap (threads.rs: a name is made of the project and the first
\* session).
THEOREM NamesCorrect ==
  ASSUME NEW S, \A s \in S : s.project \in Int /\ s.start \in Int /\ s.end \in Int,
         NEW sessions \in Seq(S), NEW next \in S, NEW gap \in Int
  PROVE  ThreadIdsStay(sessions, gap, next)
<1> DEFINE more == Append(sessions, next)
           Ids(s) == {t.id : t \in Range(Cluster(s, gap, 1))}
<1>1. SUFFICES ASSUME \A i \in DOMAIN sessions : sessions[i].start < next.start
               PROVE  Ids(sessions) \subseteq Ids(more)
  BY DEF ThreadIdsStay
<1>2. Later(sessions, more)
  <2> DEFINE n == Len(sessions)
  <2>1. n \in Nat /\ DOMAIN sessions = 1 .. n /\ \A i \in 1 .. n : sessions[i] \in S
    BY LenProperties, ElementOfSeq
  <2>2. /\ more \in Seq(S) /\ Len(more) = n + 1 /\ more[n + 1] = next
        /\ \A i \in 1 .. n : more[i] = sessions[i]
    BY AppendProperties
  <2> HIDE DEF more, n
  <2>3. DOMAIN more = 1 .. n + 1 /\ \A i \in 1 .. n + 1 : more[i] \in S
    BY <2>2, LenProperties, ElementOfSeq
  <2>4. Timed(sessions) /\ Timed(more)
    BY <2>1, <2>2, <2>3 DEF Timed, n
  <2>5. QED
    BY <1>1, <2>1, <2>2, <2>4 DEF Later, n
<1> HIDE DEF more
<1>3. Timed(sessions) /\ Timed(more)
  BY <1>2 DEF Later
<1>4. SUFFICES ASSUME NEW t \in ThreadRecords(sessions, gap)
               PROVE  \E u \in ThreadRecords(more, gap) : u.id = t.id
  <2>1. /\ \A t \in Range(Cluster(sessions, gap, 1)) : t \in ThreadRecords(sessions, gap)
        /\ \A u \in ThreadRecords(more, gap) : u \in Range(Cluster(more, gap, 1))
    BY <1>3, ClusterRange
  <2>2. QED
    BY <1>4, <2>1
<1> DEFINE m == t.members
<1>5. m \in AllThreads(sessions, gap) /\ t.id = <<sessions[m[1]].project, m[1]>>
  BY <1>3, ListingIs
<1> HIDE DEF m
<1>6. PICK i \in DOMAIN sessions : \E f \in 1 .. Len(GroupOf(sessions, i)) :
        m = ThreadAt(sessions, GroupOf(sessions, i), gap, f)
  BY <1>3, <1>5, ThreadsAre
<1> DEFINE g == GroupOf(sessions, i)
           e == GroupOf(more, i)
<1>7. PICK f \in 1 .. Len(g) : m = ThreadAt(sessions, g, gap, f)
  BY <1>6
<1> DEFINE F == FirstAt(sessions, g, gap, f)
           h == ThreadAt(more, e, gap, F)
<1>8. Grouped(g, sessions, sessions[i].project) /\ ThreadFrom(m, sessions, g, gap, f)
  BY <1>3, <1>7, ThreadsAre
<1>9. F \in 1 .. Len(g) /\ FirstAt(sessions, g, gap, F) = F /\ m[1] = g[F]
  BY <1>8 DEF ThreadFrom
<1>10. i \in DOMAIN more /\ more[i].project = sessions[i].project
  BY <1>2 DEF Later, Timed
<1>11. g = Group(sessions, sessions[i].project) /\ e = Group(more, sessions[i].project)
  BY <1>10 DEF GroupOf
<1>12. Len(g) <= Len(e) /\ e[F] = g[F] /\ F \in 1 .. Len(e)
  <2>1. Len(g) <= Len(e) /\ \A k \in 1 .. Len(g) : e[k] = g[k]
    BY <1>2, <1>11, GroupGrows
  <2>2. Len(g) \in Nat /\ Len(e) \in Nat
    BY <1>3, <1>8, <1>10, GroupIs DEF Grouped, GroupOf
  <2> HIDE DEF g, e, F
  <2>3. QED
    BY <1>9, <2>1, <2>2
<1>13. FirstAt(more, e, gap, F) = F
  BY <1>2, <1>9, <1>11, WalkGrows DEF FirstAt
<1>14. h \in AllThreads(more, gap) /\ ThreadFrom(h, more, e, gap, F)
  <2> HIDE DEF F
  <2>1. QED
    BY <1>3, <1>10, <1>12, ThreadsAre
<1> HIDE DEF g, e, F, h
<1>15. h[1] = m[1]
  BY <1>9, <1>12, <1>13, <1>14 DEF ThreadFrom
<1>16. m[1] \in DOMAIN sessions /\ more[m[1]] = sessions[m[1]]
  BY <1>2, <1>8, <1>9 DEF Grouped, Later
<1>17. PICK u \in ThreadRecords(more, gap) : u.members = h
  BY <1>3, <1>14, ListingIs
<1>18. u.id = <<more[h[1]].project, h[1]>>
  BY <1>3, <1>17, ListingIs
<1>19. QED
  BY <1>5, <1>15, <1>16, <1>18

-----------------------------------------------------------------------------
(* Sums over positions.                                                    *)

\* A set of numbers up to n that holds 0 and the successor of each of its numbers
\* below n holds them all.
LEMMA UptoInduction ==
  ASSUME NEW n \in Nat, NEW T, 0 \in T, \A k \in 0 .. n : k < n /\ k \in T => k + 1 \in T
  PROVE  \A k \in 0 .. n : k \in T
<1> DEFINE Missing == {k \in 0 .. n : k \notin T}
<1> SUFFICES ASSUME Missing # {} PROVE FALSE
  OBVIOUS
<1>1. PICK k \in Missing : \A j \in Missing : k <= j
  <2>1. Missing \subseteq Nat
    OBVIOUS
  <2> HIDE DEF Missing
  <2>2. QED
    BY <2>1, LeastExists
<1>2. k \in 0 .. n /\ k # 0 /\ k \notin T
  OBVIOUS
<1>3. k - 1 \in 0 .. n /\ k - 1 < n /\ ~(k <= k - 1) /\ (k - 1) + 1 = k
  BY <1>2
<1>4. k - 1 \in T
  BY <1>1, <1>3
<1>5. QED
  BY <1>2, <1>3, <1>4

\* t holds the sums of f over the positions in S, up to each position.
Totals(S, f, n, t) ==
  /\ t \in [0 .. n -> Int] /\ t[0] = 0
  /\ \A k \in 1 .. n : t[k] = t[k - 1] + (IF k \in S THEN f[k] ELSE 0)

Adds(S, f, n, t) ==
  t = [k \in 0 .. n |-> IF k = 0 THEN 0 ELSE t[k - 1] + (IF k \in S THEN f[k] ELSE 0)]

LEMMA AddsTotals ==
  ASSUME NEW S, NEW f, NEW n \in Nat, \A i \in S : f[i] \in Int, NEW t, Adds(S, f, n, t)
  PROVE  Totals(S, f, n, t)
<1>1. DOMAIN t = 0 .. n
  <2>1. DOMAIN [k \in 0 .. n |-> IF k = 0 THEN 0 ELSE t[k - 1] + (IF k \in S THEN f[k] ELSE 0)] = 0 .. n
    OBVIOUS
  <2>2. QED
    BY <2>1, Zenon DEF Adds
<1>2. \A k \in 0 .. n : t[k] = IF k = 0 THEN 0 ELSE t[k - 1] + (IF k \in S THEN f[k] ELSE 0)
  <2>1. \A k \in 0 .. n : [j \in 0 .. n |-> IF j = 0 THEN 0 ELSE t[j - 1] + (IF j \in S THEN f[j] ELSE 0)][k]
                            = IF k = 0 THEN 0 ELSE t[k - 1] + (IF k \in S THEN f[k] ELSE 0)
    OBVIOUS
  <2>2. QED
    BY <2>1, Zenon DEF Adds
<1> DEFINE T == {k \in 0 .. n : t[k] \in Int}
<1>3. 0 \in T
  BY <1>2
<1>4. ASSUME NEW k \in 0 .. n, k < n, k \in T PROVE k + 1 \in T
  <2>1. k + 1 \in 0 .. n /\ k + 1 # 0 /\ (k + 1) - 1 = k
    BY <1>4
  <2>2. t[k + 1] = t[k] + (IF k + 1 \in S THEN f[k + 1] ELSE 0)
    BY <1>2, <2>1
  <2>3. QED
    BY <1>4, <2>1, <2>2
<1> HIDE DEF T
<1>5. \A k \in 0 .. n : k \in T
  BY <1>3, <1>4, UptoInduction
<1>6. \A k \in 0 .. n : t[k] \in Int
  BY <1>5 DEF T
<1>7. t = [k \in 0 .. n |-> t[k]]
  BY <1>1, Zenon DEF Adds
<1>8. t \in [0 .. n -> Int]
  BY <1>6, <1>7
<1>9. \A k \in 1 .. n : k \in 0 .. n /\ k # 0
  OBVIOUS
<1>10. QED
  BY <1>2, <1>8, <1>9 DEF Totals

IsLast(S, n) == n \in S \cup {0} /\ \A i \in S : i <= n

LEMMA TotalsExist ==
  ASSUME NEW S, NEW f, NEW n \in Nat, \A i \in S : f[i] \in Int
  PROVE  \E t : Totals(S, f, n, t) /\ Adds(S, f, n, t)
<1> DEFINE P == 0 .. n
           add(k) == IF k \in S THEN f[k] ELSE 0
           next(k, g) == IF k = 0 THEN 0 ELSE g[k - 1] + add(k)
           F == [x \in P \X [P -> Int] |-> next(x[1], x[2])]
           M == [k \in P |-> k]
<1>1. \A k \in P : add(k) \in Int
  OBVIOUS
<1> HIDE DEF add
<1>2. ASSUME NEW k \in P, NEW g \in [P -> Int] PROVE F[<<k, g>>] = next(k, g) /\ next(k, g) \in Int
  <2>1. k # 0 => k - 1 \in P
    OBVIOUS
  <2>2. next(k, g) \in Int
    BY <1>1, <2>1, SMTT(30)
  <2> HIDE DEF next, P
  <2>3. QED
    BY <2>2
<1>3. F \in [P \X [P -> Int] -> Int]
  BY <1>1
<1>4. ASSUME NEW k \in P, NEW g \in [P -> Int], NEW h \in [P -> Int],
             \A j \in P : M[j] < M[k] => g[j] = h[j]
      PROVE  F[<<k, g>>] = F[<<k, h>>]
  <2>1. k # 0 => k - 1 \in P /\ M[k - 1] < M[k]
    OBVIOUS
  <2>2. k # 0 => g[k - 1] = h[k - 1]
    BY <1>4, <2>1
  <2>3. next(k, g) = next(k, h)
    BY <2>2
  <2> HIDE DEF F, next
  <2>4. QED
    BY <1>2, <2>3
<1>5. M \in [P -> Nat] /\ n + 1 \in Nat /\ \A k \in P : M[k] < n + 1
  OBVIOUS
<1>6. Int # {}
  OBVIOUS
<1>7. Recursive(P, Int, F, M, n + 1)
  <2> HIDE DEF F, M, P, next
  <2>1. QED
    BY <1>3, <1>4, <1>5, <1>6 DEF Recursive
<1>8. PICK t \in [P -> Int] : \A k \in P : t[k] = F[<<k, t>>]
  <2> HIDE DEF F, M, P, next
  <2>1. QED
    BY <1>7, RecursionExists
<1>9. \A k \in P : t[k] = next(k, t)
  BY <1>2, <1>8
<1>10. Totals(S, f, n, t)
  BY <1>9 DEF Totals, add
<1>11. t = [k \in P |-> next(k, t)]
  BY <1>9
<1>12. QED
  BY <1>10, <1>11 DEF add, Adds

\* Beyond the last position in S the sums stay the same.
LEMMA TotalsAlike ==
  ASSUME NEW S, NEW R, NEW f, NEW n \in Nat, NEW m \in 0 .. n, NEW t, NEW u,
         Totals(S, f, n, t), Totals(R, f, m, u), R = S \cap (1 .. m)
  PROVE  \A k \in 0 .. m : t[k] = u[k]
<1> DEFINE T == {k \in 0 .. m : t[k] = u[k]}
<1>1. 0 \in T
  BY DEF Totals
<1>2. ASSUME NEW k \in 0 .. m, k < m, k \in T PROVE k + 1 \in T
  <2>1. k + 1 \in 1 .. m /\ k + 1 \in 1 .. n /\ (k + 1) - 1 = k
    BY <1>2
  <2>2. k + 1 \in R <=> k + 1 \in S
    BY <2>1
  <2>3. t[k + 1] = t[k] + (IF k + 1 \in S THEN f[k + 1] ELSE 0)
    BY <2>1 DEF Totals
  <2>4. u[k + 1] = u[k] + (IF k + 1 \in R THEN f[k + 1] ELSE 0)
    BY <2>1 DEF Totals
  <2>5. QED
    BY <1>2, <2>1, <2>2, <2>3, <2>4
<1> HIDE DEF T
<1>3. \A k \in 0 .. m : k \in T
  BY <1>1, <1>2, UptoInduction
<1>4. QED
  BY <1>3 DEF T

LEMMA TotalsLevel ==
  ASSUME NEW S, NEW f, NEW n \in Nat, NEW l \in 0 .. n, NEW t, Totals(S, f, n, t), \A i \in S : i <= l
  PROVE  t[n] = t[l]
<1> DEFINE T == {k \in 0 .. n : k >= l => t[k] = t[l]}
<1>1. 0 \in T
  OBVIOUS
<1>2. ASSUME NEW k \in 0 .. n, k < n, k \in T PROVE k + 1 \in T
  <2>1. k + 1 \in 1 .. n /\ (k + 1) - 1 = k
    BY <1>2
  <2>2. CASE k + 1 <= l
    BY <2>1, <2>2
  <2>3. CASE k >= l
    <3>1. k + 1 \notin S
      BY <2>3
    <3>2. t[k + 1] = t[k] + 0
      BY <2>1, <3>1 DEF Totals
    <3>3. t[k] \in Int
      BY DEF Totals
    <3>4. QED
      BY <1>2, <2>1, <2>3, <3>2, <3>3
  <2>4. QED
    BY <2>2, <2>3
<1> HIDE DEF T
<1>3. \A k \in 0 .. n : k \in T
  BY <1>1, <1>2, UptoInduction
<1>4. QED
  BY <1>3 DEF T

LEMMA LastExists ==
  ASSUME NEW n \in Nat, NEW S, S \subseteq 1 .. n
  PROVE  \E l \in 0 .. n : IsLast(S, l) /\ \A m \in S \cup {0} : (\A i \in S : i <= m) <=> m = l
<1> DEFINE Above == {k \in Nat : \A i \in S : i <= k}
<1>1. n \in Above
  OBVIOUS
<1>2. PICK l \in Above : \A k \in Above : l <= k
  BY <1>1, LeastExists
<1>3. l \in 0 .. n
  BY <1>1, <1>2
<1>4. l \in S \cup {0}
  <2> SUFFICES ASSUME l # 0, l \notin S PROVE FALSE
    OBVIOUS
  <2>1. l - 1 \in Nat /\ \A i \in S : i <= l - 1
    BY <1>3
  <2>2. QED
    BY <1>2, <1>3, <2>1
<1>5. \A m \in S \cup {0} : (\A i \in S : i <= m) <=> m = l
  <2>1. \A m \in S \cup {0} : m \in Nat /\ m <= l
    BY <1>3
  <2>2. \A m \in S \cup {0} : (\A i \in S : i <= m) => l <= m
    BY <1>2, <2>1
  <2>3. QED
    BY <1>2, <1>3, <2>1, <2>2
<1>6. QED
  BY <1>2, <1>3, <1>4, <1>5 DEF IsLast

\* The sum is the last of the totals, up to any position from the last in S on.
LEMMA SumIs ==
  ASSUME NEW n \in Nat, NEW S, S \subseteq 1 .. n, NEW f, \A i \in S : f[i] \in Int
  PROVE  \A t : Totals(S, f, n, t) => SumOf(S, f) = t[n]
<1> TAKE t
<1> HAVE Totals(S, f, n, t)
<1>1. PICK l \in 0 .. n : IsLast(S, l) /\ \A m \in S \cup {0} : (\A i \in S : i <= m) <=> m = l
  BY LastExists
<1>2. l = CHOOSE m \in S \cup {0} : \A i \in S : i <= m
  BY <1>1 DEF IsLast
<1> DEFINE u == CHOOSE u : Adds(S, f, l, u)
<1>3. SumOf(S, f) = u[l]
  BY <1>2, Zenon DEF SumOf, Adds
<1>4. \E v : Adds(S, f, l, v)
  <2>1. l \in Nat
    OBVIOUS
  <2>2. QED
    BY <2>1, TotalsExist
<1>5. Adds(S, f, l, u)
  BY <1>4
<1> HIDE DEF u
<1>6. Totals(S, f, l, u)
  <2>1. l \in Nat
    OBVIOUS
  <2>2. QED
    BY <1>5, <2>1, AddsTotals
<1>7. \A i \in S : i <= l
  BY <1>1, Zenon DEF IsLast
<1>8. t[l] = u[l]
  <2>1. \A i \in S : i \in 1 .. l
    BY <1>7
  <2>2. S = S \cap (1 .. l)
    BY <2>1, Zenon
  <2>3. \A k \in 0 .. l : t[k] = u[k]
    BY <1>6, <2>2, TotalsAlike
  <2>4. l \in 0 .. l
    OBVIOUS
  <2>5. QED
    BY <2>3, <2>4
<1>9. t[n] = t[l]
  <2>1. Totals(S, f, n, t) /\ n \in Nat /\ l \in 0 .. n
    OBVIOUS
  <2>2. \A i \in S : i <= l
    BY <1>7
  <2>3. QED
    BY ONLY <2>1, <2>2, TotalsLevel
<1>10. QED
  BY <1>3, <1>8, <1>9

Summable(S, f, n) == n \in Nat /\ S \subseteq 1 .. n /\ \A i \in S : f[i] \in Int

SumUpto(S, f, k) == SumOf(S \cap (1 .. k), f)
Share(S, f, k) == IF k \in S THEN f[k] ELSE 0

\* A sum grows position by position.
SumGrows(S, f, n) ==
  /\ SumUpto(S, f, 0) = 0 /\ SumUpto(S, f, n) = SumOf(S, f)
  /\ \A k \in 0 .. n : SumUpto(S, f, k) \in Int
  /\ \A k \in 1 .. n : SumUpto(S, f, k) = SumUpto(S, f, k - 1) + Share(S, f, k) /\ Share(S, f, k) \in Int

LEMMA SumStep ==
  ASSUME NEW n, NEW S, NEW f, Summable(S, f, n)
  PROVE  SumGrows(S, f, n)
<1> USE DEF Summable
<1>1. PICK t : Totals(S, f, n, t)
  BY TotalsExist
<1>2. ASSUME NEW k \in 0 .. n PROVE SumUpto(S, f, k) = t[k]
  <2> DEFINE R == S \cap (1 .. k)
  <2>1. k \in Nat /\ R \subseteq 1 .. k /\ \A i \in R : f[i] \in Int
    OBVIOUS
  <2>2. PICK u : Totals(R, f, k, u)
    <3> HIDE DEF R
    <3>1. QED
      BY <2>1, TotalsExist
  <2>3. t[k] = u[k]
    BY <1>1, <2>2, TotalsAlike
  <2>4. SumOf(R, f) = u[k]
    <3> HIDE DEF R
    <3>1. QED
      BY <2>1, <2>2, SumIs
  <2>5. QED
    BY <2>3, <2>4 DEF SumUpto
<1>3. SumUpto(S, f, n) = SumOf(S, f)
  <2>1. S \cap (1 .. n) = S
    OBVIOUS
  <2>2. QED
    BY <2>1 DEF SumUpto
<1>4. \A k \in 1 .. n : k \in 0 .. n /\ k - 1 \in 0 .. n
  OBVIOUS
<1>5. QED
  BY <1>1, <1>2, <1>3, <1>4 DEF Totals, SumGrows, Share

LEMMA SumType ==
  ASSUME NEW n, NEW S, NEW f, Summable(S, f, n)
  PROVE  SumOf(S, f) \in Int
<1>1. SumGrows(S, f, n)
  BY SumStep
<1>2. n \in 0 .. n
  BY DEF Summable
<1>3. QED
  BY <1>1, <1>2 DEF SumGrows

LEMMA SumCompare ==
  ASSUME NEW n, NEW S, NEW f, Summable(S, f, n), NEW R, NEW g, Summable(R, g, n),
         \A k \in 1 .. n : Share(S, f, k) <= Share(R, g, k)
  PROVE  SumOf(S, f) <= SumOf(R, g)
<1> DEFINE T == {k \in 0 .. n : SumUpto(S, f, k) <= SumUpto(R, g, k)}
<1>0. n \in Nat
  BY DEF Summable
<1>1. SumGrows(S, f, n)
  BY SumStep
<1>2. SumGrows(R, g, n)
  BY SumStep
<1>3. 0 \in T
  BY <1>0, <1>1, <1>2 DEF SumGrows
<1>4. ASSUME NEW k \in 0 .. n, k < n, k \in T PROVE k + 1 \in T
  <2>1. k + 1 \in 1 .. n /\ k + 1 \in 0 .. n /\ (k + 1) - 1 = k
    BY <1>0, <1>4
  <2>2. Share(S, f, k + 1) \in Int /\ Share(R, g, k + 1) \in Int /\ Share(S, f, k + 1) <= Share(R, g, k + 1)
    BY <1>1, <1>2, <2>1 DEF SumGrows
  <2>3. /\ SumUpto(S, f, k + 1) = SumUpto(S, f, k) + Share(S, f, k + 1)
        /\ SumUpto(R, g, k + 1) = SumUpto(R, g, k) + Share(R, g, k + 1)
        /\ SumUpto(S, f, k) \in Int /\ SumUpto(R, g, k) \in Int
        /\ SumUpto(S, f, k) <= SumUpto(R, g, k)
    BY <1>1, <1>2, <1>4, <2>1 DEF SumGrows
  <2>4. SumUpto(S, f, k + 1) <= SumUpto(R, g, k + 1)
    BY <2>2, <2>3
  <2>5. QED
    BY <2>1, <2>4
<1> HIDE DEF T
<1>5. \A k \in 0 .. n : k \in T
  BY <1>0, <1>3, <1>4, UptoInduction
<1>6. n \in T
  BY <1>0, <1>5
<1>7. QED
  BY <1>1, <1>2, <1>6 DEF T, SumGrows

LEMMA SumsEqual ==
  ASSUME NEW n, NEW S, NEW f, Summable(S, f, n), NEW R, NEW g, Summable(R, g, n),
         \A k \in 1 .. n : Share(S, f, k) = Share(R, g, k)
  PROVE  SumOf(S, f) = SumOf(R, g)
<1>1. \A k \in 1 .. n : Share(S, f, k) \in Int /\ Share(R, g, k) \in Int
  BY SumStep DEF SumGrows
<1>2. \A k \in 1 .. n : Share(S, f, k) <= Share(R, g, k) /\ Share(R, g, k) <= Share(S, f, k)
  BY <1>1
<1>3. SumOf(S, f) <= SumOf(R, g)
  BY <1>2, SumCompare
<1>4. SumOf(R, g) <= SumOf(S, f)
  BY <1>2, SumCompare
<1>5. SumOf(S, f) \in Int /\ SumOf(R, g) \in Int
  BY SumType
<1>6. QED
  BY <1>3, <1>4, <1>5

Plus(S, f, g, h) == \A i \in S : h[i] = f[i] + g[i]

LEMMA SumPlus ==
  ASSUME NEW n, NEW S, NEW f, Summable(S, f, n), NEW g, Summable(S, g, n),
         NEW h, Plus(S, f, g, h)
  PROVE  SumOf(S, h) = SumOf(S, f) + SumOf(S, g)
<1> USE DEF Plus
<1> DEFINE T == {k \in 0 .. n : SumUpto(S, h, k) = SumUpto(S, f, k) + SumUpto(S, g, k)}
<1>0. Summable(S, h, n) /\ n \in Nat
  BY DEF Summable
<1>1. SumGrows(S, f, n)
  BY SumStep
<1>2. SumGrows(S, g, n)
  BY SumStep
<1>3. SumGrows(S, h, n)
  BY <1>0, SumStep
<1>4. 0 \in T
  BY <1>0, <1>1, <1>2, <1>3 DEF SumGrows
<1>5. ASSUME NEW k \in 0 .. n, k < n, k \in T PROVE k + 1 \in T
  <2>1. k + 1 \in 1 .. n /\ k + 1 \in 0 .. n /\ (k + 1) - 1 = k
    BY <1>0, <1>5
  <2>2. /\ Share(S, f, k + 1) \in Int /\ Share(S, g, k + 1) \in Int
        /\ Share(S, h, k + 1) = Share(S, f, k + 1) + Share(S, g, k + 1)
    BY <1>1, <1>2, <2>1 DEF Share, SumGrows
  <2>3. /\ SumUpto(S, f, k + 1) = SumUpto(S, f, k) + Share(S, f, k + 1)
        /\ SumUpto(S, g, k + 1) = SumUpto(S, g, k) + Share(S, g, k + 1)
        /\ SumUpto(S, h, k + 1) = SumUpto(S, h, k) + Share(S, h, k + 1)
        /\ SumUpto(S, f, k) \in Int /\ SumUpto(S, g, k) \in Int
        /\ SumUpto(S, h, k) = SumUpto(S, f, k) + SumUpto(S, g, k)
    BY <1>1, <1>2, <1>3, <1>5, <2>1 DEF SumGrows
  <2>4. SumUpto(S, h, k + 1) = SumUpto(S, f, k + 1) + SumUpto(S, g, k + 1)
    BY <2>2, <2>3
  <2>5. QED
    BY <2>1, <2>4
<1> HIDE DEF T
<1>6. \A k \in 0 .. n : k \in T
  BY <1>0, <1>4, <1>5, UptoInduction
<1>7. n \in T
  BY <1>0, <1>6
<1>8. QED
  BY <1>1, <1>2, <1>3, <1>7 DEF T, SumGrows

\* A sum with one number.
Single(n, r, d, g) ==
  n \in Nat /\ r \in 1 .. n /\ d \in Int /\ \A k \in 1 .. n : g[k] = IF k = r THEN d ELSE 0

LEMMA SumSingle ==
  ASSUME NEW n, NEW r, NEW d, NEW g, Single(n, r, d, g)
  PROVE  Summable(1 .. n, g, n) /\ SumOf(1 .. n, g) = d
<1> USE DEF Single
<1> DEFINE S == 1 .. n
           T == {k \in 0 .. n : SumUpto(S, g, k) = IF k >= r THEN d ELSE 0}
<1>1. \A k \in S : g[k] = (IF k = r THEN d ELSE 0) /\ g[k] \in Int
  OBVIOUS
<1>2. SumGrows(S, g, n)
  <2>1. Summable(S, g, n)
    BY <1>1 DEF Summable
  <2>2. QED
    BY <2>1, SumStep
<1>3. 0 \in T
  BY <1>2 DEF SumGrows
<1>4. ASSUME NEW k \in 0 .. n, k < n, k \in T PROVE k + 1 \in T
  <2>1. k + 1 \in 1 .. n /\ k + 1 \in 0 .. n /\ (k + 1) - 1 = k
    BY <1>4
  <2>2. Share(S, g, k + 1) = IF k + 1 = r THEN d ELSE 0
    BY <1>1, <2>1 DEF Share
  <2>3. SumUpto(S, g, k + 1) = SumUpto(S, g, k) + Share(S, g, k + 1)
    BY <1>2, <2>1 DEF SumGrows
  <2>4. SumUpto(S, g, k) = IF k >= r THEN d ELSE 0
    BY <1>4
  <2>5. SumUpto(S, g, k + 1) = IF k + 1 >= r THEN d ELSE 0
    BY <2>1, <2>2, <2>3, <2>4
  <2>6. QED
    BY <2>1, <2>5
<1> HIDE DEF T
<1>5. \A k \in 0 .. n : k \in T
  BY <1>3, <1>4, UptoInduction
<1>6. n \in T /\ n >= r
  BY <1>5
<1>7. Summable(S, g, n)
  BY <1>1 DEF Summable
<1>8. QED
  BY <1>2, <1>6, <1>7 DEF T, SumGrows

Alike(S, g, f) == \A i \in S : g[i] = f[i]

LEMMA SumAlike ==
  ASSUME NEW n, NEW S, NEW f, Summable(S, f, n), NEW g, Alike(S, g, f)
  PROVE  Summable(S, g, n) /\ SumOf(S, g) = SumOf(S, f)
<1> USE DEF Alike
<1>1. Summable(S, g, n)
  BY DEF Summable
<1>2. \A k \in 1 .. n : Share(S, g, k) = Share(S, f, k)
  BY DEF Share
<1>3. QED
  BY <1>1, <1>2, SumsEqual

LEMMA SumOfNone ==
  ASSUME NEW f
  PROVE  SumOf({}, f) = 0
<1>1. Summable({}, f, 0)
  BY DEF Summable
<1>2. SumUpto({}, f, 0) = 0 /\ SumUpto({}, f, 0) = SumOf({}, f)
  BY <1>1, SumStep DEF SumGrows
<1>3. QED
  BY <1>2

LEMMA SumOfZeros ==
  ASSUME NEW n \in Nat, NEW S, S \subseteq 1 .. n, NEW f, \A i \in S : f[i] = 0
  PROVE  SumOf(S, f) = 0
<1>1. Summable(S, f, n) /\ Summable({}, f, n)
  BY DEF Summable
<1>2. \A k \in 1 .. n : Share(S, f, k) = Share({}, f, k)
  BY DEF Share
<1>3. SumOf(S, f) = SumOf({}, f)
  BY <1>1, <1>2, SumsEqual
<1>4. QED
  BY <1>3, SumOfNone

Counts(T, f, n) == n \in Nat /\ T \subseteq 1 .. n /\ \A i \in T : f[i] \in Nat

\* A sum of no negative number over more positions is no less.
LEMMA SumMore ==
  ASSUME NEW n, NEW S, NEW T, NEW f, Counts(T, f, n), S \subseteq T, NEW g, Alike(S, g, f)
  PROVE  /\ Summable(S, g, n) /\ Summable(T, f, n)
         /\ SumOf(S, g) <= SumOf(T, f) /\ SumOf(S, g) \in Nat
<1> USE DEF Alike, Counts
<1>0. Summable(T, f, n) /\ \A i \in T : f[i] >= 0
  BY DEF Summable
<1>1. Summable(S, g, n) /\ n \in Nat
  BY <1>0 DEF Summable
<1>2. \A k \in 1 .. n : Share(S, g, k) <= Share(T, f, k)
  <2> SUFFICES ASSUME NEW k \in 1 .. n PROVE Share(S, g, k) <= Share(T, f, k)
    OBVIOUS
  <2>1. k \in T => f[k] \in Int /\ f[k] >= 0
    OBVIOUS
  <2>2. QED
    BY <2>1 DEF Share
<1>3. SumOf(S, g) <= SumOf(T, f)
  BY <1>0, <1>1, <1>2, SumCompare
<1>4. SumOf(S, g) \in Int
  BY <1>1, SumType
<1>5. Summable({}, g, n)
  BY <1>1 DEF Summable
<1>6. \A k \in 1 .. n : Share({}, g, k) <= Share(S, g, k)
  <2> SUFFICES ASSUME NEW k \in 1 .. n PROVE Share({}, g, k) <= Share(S, g, k)
    OBVIOUS
  <2>1. k \in S => g[k] \in Int /\ g[k] >= 0
    OBVIOUS
  <2>2. QED
    BY <2>1 DEF Share
<1>7. SumOf({}, g) <= SumOf(S, g)
  BY <1>1, <1>5, <1>6, SumCompare
<1>8. SumOf(S, g) \in Nat
  BY <1>4, <1>7, SumOfNone
<1>9. QED
  BY <1>0, <1>1, <1>3, <1>8

\* A sum leaves positions out that hold 0.
LEMMA SumOmits ==
  ASSUME NEW n, NEW S, NEW T, NEW f, Summable(T, f, n), S \subseteq T,
         NEW g, Alike(S, g, f), \A i \in T \ S : f[i] = 0
  PROVE  SumOf(S, g) = SumOf(T, f)
<1> USE DEF Alike
<1>1. Summable(S, g, n)
  BY DEF Summable
<1>2. \A k \in 1 .. n : Share(S, g, k) = Share(T, f, k)
  BY DEF Share
<1>3. QED
  BY <1>1, <1>2, SumsEqual

LEMMA CountIs ==
  ASSUME NEW n \in Nat, NEW S, S \subseteq 1 .. n
  PROVE  SumOf(S, [i \in S |-> 1]) = Cardinality(S) /\ IsFiniteSet(S)
<1> DEFINE f == [i \in S |-> 1]
           U(k) == S \cap (1 .. k)
           T == {k \in 0 .. n : SumUpto(S, f, k) = Cardinality(U(k))}
<1>1. Summable(S, f, n)
  BY DEF Summable
<1>2. SumGrows(S, f, n)
  BY <1>1, SumStep
<1>3. IsFiniteSet(S)
  <2>1. IsFiniteSet(1 .. n)
    BY FS_Interval
  <2>2. QED
    BY <2>1, FS_Subset
<1>4. \A k \in 0 .. n : IsFiniteSet(U(k)) /\ Cardinality(U(k)) \in Nat
  BY <1>3, FS_Subset, FS_CardinalityType
<1>5. 0 \in T
  <2>1. U(0) = {}
    OBVIOUS
  <2>2. Cardinality(U(0)) = 0
    BY <2>1, FS_EmptySet
  <2> HIDE DEF U
  <2>3. QED
    BY <1>2, <2>2 DEF SumGrows
<1>6. ASSUME NEW k \in 0 .. n, k < n, k \in T PROVE k + 1 \in T
  <2>1. k + 1 \in 1 .. n /\ k + 1 \in 0 .. n /\ (k + 1) - 1 = k
    BY <1>6
  <2>2. SumUpto(S, f, k + 1) = SumUpto(S, f, k) + Share(S, f, k + 1)
    BY <1>2, <2>1 DEF SumGrows
  <2>3. CASE k + 1 \in S
    <3>1. U(k + 1) = U(k) \cup {k + 1} /\ k + 1 \notin U(k)
      BY <2>1, <2>3
    <3>2. Cardinality(U(k + 1)) = Cardinality(U(k)) + 1
      <4> HIDE DEF U
      <4>1. QED
        BY <1>4, <3>1, FS_AddElement
    <3>3. Share(S, f, k + 1) = 1
      BY <2>3 DEF Share
    <3> HIDE DEF U, f
    <3>4. QED
      BY <1>6, <2>1, <2>2, <3>2, <3>3
  <2>4. CASE k + 1 \notin S
    <3>1. U(k + 1) = U(k)
      BY <2>1, <2>4
    <3>2. Share(S, f, k + 1) = 0
      BY <2>4 DEF Share
    <3>3. Cardinality(U(k)) \in Nat
      BY <1>4
    <3> HIDE DEF U, f
    <3>4. QED
      BY <1>6, <2>1, <2>2, <3>1, <3>2, <3>3
  <2>5. QED
    BY <2>3, <2>4
<1> HIDE DEF T
<1>7. \A k \in 0 .. n : k \in T
  BY <1>5, <1>6, UptoInduction
<1>8. n \in T /\ U(n) = S
  <2>1. n \in T
    BY <1>7
  <2>2. U(n) = S
    OBVIOUS
  <2>3. QED
    BY <2>1, <2>2
<1> HIDE DEF U, f
<1>9. QED
  BY <1>2, <1>3, <1>8 DEF T, SumGrows, f

\* The parts of a set of positions sum up to the sum over it.
SumsOfParts(sums, S, f, m, part) ==
  /\ m \in Nat /\ part \in [S -> 1 .. m]
  /\ sums = [k \in 1 .. m |-> SumOf({i \in S : part[i] = k}, f)]

LEMMA SumOfParts ==
  ASSUME NEW n, NEW S, NEW f, Summable(S, f, n), NEW m, NEW part, NEW sums,
         SumsOfParts(sums, S, f, m, part)
  PROVE  Summable(1 .. m, sums, m) /\ SumOf(1 .. m, sums) = SumOf(S, f)
<1> USE DEF SumsOfParts
<1> DEFINE P(k) == {i \in S : part[i] = k}
           upto(j) == [k \in 1 .. m |-> SumUpto(P(k), f, j)]
           T == {j \in 0 .. n : SumOf(1 .. m, upto(j)) = SumUpto(S, f, j)}
<1>0. n \in Nat
  BY DEF Summable
<1>1. SumGrows(S, f, n)
  BY SumStep
<1>2. \A k \in 1 .. m : SumGrows(P(k), f, n)
  <2> SUFFICES ASSUME NEW k \in 1 .. m PROVE SumGrows(P(k), f, n)
    OBVIOUS
  <2>1. Summable(P(k), f, n)
    BY DEF Summable
  <2> HIDE DEF P
  <2>2. QED
    BY <2>1, SumStep
<1> HIDE DEF P
<1>3. \A j \in 0 .. n : Summable(1 .. m, upto(j), m)
  BY <1>2 DEF Summable, SumGrows
<1>4. 0 \in T
  <2>1. \A k \in 1 .. m : upto(0)[k] = 0
    BY <1>2 DEF SumGrows
  <2> HIDE DEF upto
  <2>2. SumOf(1 .. m, upto(0)) = 0
    BY <2>1, SumOfZeros
  <2>3. QED
    BY <1>0, <1>1, <2>2 DEF SumGrows
<1>5. ASSUME NEW j \in 0 .. n, j < n, j \in T PROVE j + 1 \in T
  <2>1. j + 1 \in 1 .. n /\ j + 1 \in 0 .. n /\ (j + 1) - 1 = j
    BY <1>0, <1>5
  <2>2. SumUpto(S, f, j + 1) = SumUpto(S, f, j) + Share(S, f, j + 1) /\ SumUpto(S, f, j) \in Int
    BY <1>1, <2>1 DEF SumGrows
  <2>3. \A k \in 1 .. m : upto(j + 1)[k] = upto(j)[k] + Share(P(k), f, j + 1)
    BY <1>2, <2>1 DEF SumGrows
  <2>4. CASE j + 1 \in S
    <3> DEFINE r == part[j + 1]
               d == f[j + 1]
               one == [k \in 1 .. m |-> IF k = r THEN d ELSE 0]
    <3>1. r \in 1 .. m /\ d \in Int
      BY <2>4 DEF Summable
    <3>2. \A k \in 1 .. m : Share(P(k), f, j + 1) = one[k]
      BY <2>4 DEF Share, P
    <3>3. SumOf(1 .. m, one) = d /\ Summable(1 .. m, one, m)
      <4>1. Single(m, r, d, one)
        BY <3>1 DEF Single
      <4> HIDE DEF r, d, one
      <4>2. QED
        BY <4>1, SumSingle
    <3>4. Summable(1 .. m, upto(j), m)
      BY <1>3
    <3>5. \A k \in 1 .. m : upto(j + 1)[k] = upto(j)[k] + one[k]
      BY <2>3, <3>2
    <3> HIDE DEF upto, one
    <3>6. SumOf(1 .. m, upto(j + 1)) = SumOf(1 .. m, upto(j)) + SumOf(1 .. m, one)
      BY <3>3, <3>4, <3>5, SumPlus DEF Plus
    <3>7. SumUpto(S, f, j + 1) = SumUpto(S, f, j) + d
      BY <2>2, <2>4 DEF Share
    <3>8. SumOf(1 .. m, upto(j)) = SumUpto(S, f, j)
      BY <1>5
    <3> HIDE DEF d
    <3>9. SumOf(1 .. m, upto(j + 1)) = SumUpto(S, f, j + 1)
      BY <3>3, <3>6, <3>7, <3>8
    <3>10. QED
      BY <2>1, <3>9
  <2>5. CASE j + 1 \notin S
    <3>1. \A k \in 1 .. m : upto(j + 1)[k] = upto(j)[k]
      <4> SUFFICES ASSUME NEW k \in 1 .. m PROVE upto(j + 1)[k] = upto(j)[k]
        OBVIOUS
      <4>1. Share(P(k), f, j + 1) = 0
        BY <2>5 DEF Share, P
      <4>2. upto(j)[k] \in Int
        BY <1>2 DEF SumGrows
      <4> HIDE DEF upto
      <4>3. QED
        BY <2>3, <4>1, <4>2
    <3>2. Summable(1 .. m, upto(j), m)
      BY <1>3
    <3>3. SumUpto(S, f, j + 1) = SumUpto(S, f, j)
      BY <2>2, <2>5 DEF Share
    <3>4. SumOf(1 .. m, upto(j)) = SumUpto(S, f, j)
      BY <1>5
    <3> HIDE DEF upto
    <3>5. SumOf(1 .. m, upto(j + 1)) = SumOf(1 .. m, upto(j))
      BY <3>1, <3>2, SumAlike DEF Alike
    <3>6. QED
      BY <2>1, <3>3, <3>4, <3>5
  <2>6. QED
    BY <2>4, <2>5
<1>6. \A j \in 0 .. n : j \in T
  <2> HIDE DEF T
  <2>1. QED
    BY <1>0, <1>4, <1>5, UptoInduction
<1>7. n \in 0 .. n /\ n \in T
  BY <1>0, <1>6
<1>8. \A k \in 1 .. m : SumUpto(P(k), f, n) = SumOf(P(k), f)
  BY <1>2 DEF SumGrows
<1>9. sums = upto(n)
  BY <1>8 DEF P
<1>10. SumUpto(S, f, n) = SumOf(S, f)
  BY <1>1 DEF SumGrows
<1>11. QED
  BY <1>3, <1>7, <1>9, <1>10

(***************************************************************************)
(* Rows: the sessions S fall into parts, one for each row, in its order.   *)
(***************************************************************************)
PartedBy(part, s, m, row, S) ==
  /\ m \in Nat /\ part \in [S -> 1 .. m] /\ Len(s) = m /\ DOMAIN s = 1 .. m
  /\ \A k \in 1 .. m : \E i \in S : s[k] = row[i] /\ part[i] = k
  /\ \A k \in 1 .. m, i \in S : part[i] = k <=> row[i] = s[k]

LEMMA RowsPart ==
  ASSUME NEW S, IsFiniteSet(S), NEW row, NEW before, Orders(before, {row[i] : i \in S}),
         NEW s, s = InOrder({row[i] : i \in S}, before)
  PROVE  \E m, part : PartedBy(part, s, m, row, S)
<1> DEFINE R == {row[i] : i \in S}
           m == Cardinality(R)
           f == [i \in S |-> row[i]]
<1>0. Orders(before, R) /\ s = InOrder(R, before) /\ \A r \in R : \E i \in S : r = row[i]
  OBVIOUS
<1>1. IsFiniteSet(R)
  <2>1. f \in Surjection(S, R)
    BY DEF Surjection
  <2>2. QED
    BY <2>1, FS_Surjection
<1>2. InOrderOf(s, R, before)
  <2> HIDE DEF R
  <2>1. QED
    BY <1>0, <1>1, InOrderIs
<1>3. m \in Nat /\ s \in [1 .. m -> R] /\ (\A r \in R : \E i \in 1 .. m : s[i] = r)
      /\ \A i, j \in 1 .. m : s[i] = s[j] => i = j
  BY <1>2 DEF InOrderOf
<1>4. s \in Seq(R) /\ Len(s) = m
  <2> HIDE DEF R, m
  <2>1. QED
    BY <1>3, LenProperties
<1> DEFINE part == [i \in S |-> CHOOSE k \in 1 .. m : s[k] = row[i]]
<1> HIDE DEF m
<1>5. \A i \in S : part[i] \in 1 .. m /\ s[part[i]] = row[i]
  <2> SUFFICES ASSUME NEW i \in S PROVE part[i] \in 1 .. m /\ s[part[i]] = row[i]
    OBVIOUS
  <2>1. row[i] \in R
    OBVIOUS
  <2>2. \E k \in 1 .. m : s[k] = row[i]
    BY <1>3, <2>1
  <2>3. QED
    BY <2>2
<1>6. part \in [S -> 1 .. m]
  BY <1>5
<1>7. \A k \in 1 .. m, i \in S : part[i] = k <=> row[i] = s[k]
  <2> HIDE DEF part, R
  <2>1. QED
    BY <1>3, <1>5
<1>8. \A k \in 1 .. m : \E i \in S : s[k] = row[i]
  <2> HIDE DEF R
  <2>1. QED
    BY <1>0, <1>3
<1>9. \A k \in 1 .. m : \E i \in S : s[k] = row[i] /\ part[i] = k
  <2> HIDE DEF part, R
  <2>1. QED
    BY <1>7, <1>8
<1> HIDE DEF part
<1>10. DOMAIN s = 1 .. m
  BY <1>3
<1>11. PartedBy(part, s, m, row, S)
  BY <1>3, <1>4, <1>6, <1>7, <1>9, <1>10 DEF PartedBy
<1>12. QED
  BY <1>11

\* The columns of the rows add up to the whole.
LEMMA ColumnAddsUp ==
  ASSUME NEW n, NEW S, NEW f, Summable(S, f, n), NEW m, NEW part, NEW column,
         SumsOfParts(column, S, f, m, part)
  PROVE  PartsAddUp(column, SumOf(S, f))
<1>1. SumOf(1 .. m, column) = SumOf(S, f)
  BY SumOfParts
<1>2. DOMAIN column = 1 .. m
  BY DEF SumsOfParts
<1>3. QED
  BY <1>1, <1>2 DEF PartsAddUp

CostIf(known, usd) == IF known THEN Cost(usd) ELSE NoCost

CostsOfParts(column, S, f, known, m, part) ==
  /\ m \in Nat /\ part \in [S -> 1 .. m] /\ DOMAIN column = 1 .. m
  /\ \A k \in 1 .. m : column[k] = CostIf(\A i \in S : part[i] = k => i \in known,
                                          SumOf({i \in S : part[i] = k}, f))

\* So do their costs, when those of the positions in S each are known or not.
LEMMA CostColumnAddsUp ==
  ASSUME NEW n, NEW S, NEW f, Summable(S, f, n), NEW known, NEW m, NEW part, NEW column,
         CostsOfParts(column, S, f, known, m, part)
  PROVE  CostsAddUp(column, CostIf(S \subseteq known, SumOf(S, f)))
<1> USE DEF CostsOfParts
<1> DEFINE whole == CostIf(S \subseteq known, SumOf(S, f))
           sums == [k \in 1 .. m |-> SumOf({i \in S : part[i] = k}, f)]
           usd == [k \in DOMAIN column |-> column[k].usd]
<1>1. DOMAIN column = 1 .. m
  OBVIOUS
<1>2. ASSUME NEW k \in 1 .. m
      PROVE  column[k].known <=> \A i \in S : part[i] = k => i \in known
  <2> DEFINE b == \A i \in S : part[i] = k => i \in known
  <2>1. column[k] = CostIf(b, sums[k])
    OBVIOUS
  <2> HIDE DEF b, sums
  <2>2. CostIf(b, sums[k]).known <=> b
    BY DEF CostIf, Cost, NoCost
  <2>3. QED
    BY <2>1, <2>2 DEF b
<1>3. whole.known <=> S \subseteq known
  BY DEF CostIf, Cost, NoCost
<1>4. whole.known <=> \A k \in DOMAIN column : column[k].known
  <2> HIDE DEF whole
  <2>1. (\A k \in 1 .. m : \A i \in S : part[i] = k => i \in known) <=> S \subseteq known
    OBVIOUS
  <2>2. QED
    BY <1>1, <1>2, <1>3, <2>1, Zenon
<1>5. ASSUME whole.known PROVE whole.usd = SumOf(DOMAIN column, usd)
  <2>1. \A k \in 1 .. m : column[k].known
    BY <1>1, <1>4, <1>5
  <2>2. \A k \in 1 .. m : column[k].usd = sums[k]
    BY <1>2, <2>1 DEF CostIf, Cost, NoCost
  <2>3. usd = sums
    BY <1>1, <2>2
  <2>4. SumOf(1 .. m, sums) = SumOf(S, f)
    <3>1. SumsOfParts(sums, S, f, m, part)
      BY DEF SumsOfParts
    <3> HIDE DEF sums
    <3>2. QED
      BY <3>1, SumOfParts
  <2>5. whole.usd = SumOf(S, f)
    BY <1>3, <1>5 DEF CostIf, Cost
  <2> HIDE DEF usd, sums, whole
  <2>6. QED
    BY <1>1, <2>3, <2>4, <2>5
<1>6. QED
  BY <1>4, <1>5 DEF CostsAddUp

(***************************************************************************)
(* What a session adds: its tokens, and what they cost if it has a price.  *)
(***************************************************************************)
TokenCounts == [input : Nat, output : Nat, cached : Nat, none : BOOLEAN]
ReportedSessions(Models) ==
  [model : Models, project : Int, usage : TokenCounts, listed : Nat, loaded : Nat \cup {Unreadable},
   start : Int, end : Int]

PriceTables(Parts) == UNION {[K -> Nat] : K \in SUBSET Seq(Parts)}

LEMMA PricingIs ==
  ASSUME NEW Parts, NEW prices \in PriceTables(Parts), NEW model \in Seq(Parts)
  PROVE  PricingFor(prices, model) \in [known : BOOLEAN, usd : Nat]
<1> DEFINE fits == {p \in DOMAIN prices : IsPrefix(p, model)}
           short == {Len(model) - Len(p) : p \in fits}
           longest == CHOOSE p \in fits : \A q \in fits : Len(q) <= Len(p)
<1>1. PICK K \in SUBSET Seq(Parts) : prices \in [K -> Nat]
  BY DEF PriceTables
<1>2. CASE fits = {}
  BY <1>2 DEF PricingFor, NoCost
<1>3. CASE fits # {}
  <2>1. \A p \in fits : Len(p) \in Nat /\ Len(model) \in Nat /\ Len(p) <= Len(model)
    BY <1>1, LenProperties DEF IsPrefix
  <2>2. short \subseteq Nat /\ short # {}
    <3> HIDE DEF fits
    <3>1. QED
      BY <1>3, <2>1
  <2>3. PICK m \in short : \A k \in short : m <= k
    <3> HIDE DEF short
    <3>1. QED
      BY <2>2, LeastExists
  <2>4. PICK p \in fits : m = Len(model) - Len(p)
    BY <2>3
  <2>5. \A q \in fits : Len(q) <= Len(p)
    <3> SUFFICES ASSUME NEW q \in fits PROVE Len(q) <= Len(p)
      OBVIOUS
    <3>1. m <= Len(model) - Len(q)
      BY <2>3
    <3> HIDE DEF fits
    <3>2. QED
      BY <2>1, <2>4, <3>1
  <2>6. longest \in fits
    <3> HIDE DEF fits
    <3>1. QED
      BY <2>5
  <2>7. prices[longest] \in Nat
    <3>1. longest \in K
      BY <1>1, <2>6
    <3> HIDE DEF longest
    <3>2. QED
      BY <1>1, <3>1
  <2>8. PricingFor(prices, model) = Cost(prices[longest])
    BY <1>3 DEF PricingFor
  <2> HIDE DEF longest
  <2>9. QED
    BY <2>7, <2>8 DEF Cost
<1>4. QED
  BY <1>2, <1>3

Inputs(sessions) == [i \in DOMAIN sessions |-> sessions[i].usage.input]
Outputs(sessions) == [i \in DOMAIN sessions |-> sessions[i].usage.output]
Cacheds(sessions) == [i \in DOMAIN sessions |-> sessions[i].usage.cached]
TokensOf(sessions) ==
  [i \in DOMAIN sessions |->
     sessions[i].usage.input + sessions[i].usage.output + sessions[i].usage.cached]
Rate(sessions, prices, i) == PricingFor(prices, sessions[i].model)
Spent(sessions, prices) ==
  [i \in DOMAIN sessions |-> Rate(sessions, prices, i).usd * TokensOf(sessions)[i]]
Priced(sessions, prices) == {i \in DOMAIN sessions : Rate(sessions, prices, i).known}

\* The tokens of all sessions stay below the width of the counters.
Fits(sessions, words) == SumOf(DOMAIN sessions, TokensOf(sessions)) < words

\* The sessions and what they hold, for any set of them.
Ledger(sessions, prices, n) ==
  /\ n \in Nat /\ DOMAIN sessions = 1 .. n
  /\ \A i \in 1 .. n : /\ sessions[i].project \in Int /\ sessions[i].usage \in TokenCounts
                       /\ sessions[i].listed \in Nat /\ sessions[i].loaded \in Nat \cup {-1}
                       /\ Rate(sessions, prices, i) \in [known : BOOLEAN, usd : Nat]

LEMMA LedgerIs ==
  ASSUME NEW Parts, NEW prices \in PriceTables(Parts), NEW sessions \in Seq(ReportedSessions(Seq(Parts)))
  PROVE  Ledger(sessions, prices, Len(sessions))
<1>1. /\ Len(sessions) \in Nat /\ DOMAIN sessions = 1 .. Len(sessions)
      /\ \A i \in 1 .. Len(sessions) : sessions[i] \in ReportedSessions(Seq(Parts))
  BY LenProperties
<1>2. ASSUME NEW i \in 1 .. Len(sessions)
      PROVE  /\ sessions[i].project \in Int /\ sessions[i].usage \in TokenCounts
             /\ sessions[i].listed \in Nat /\ sessions[i].loaded \in Nat \cup {-1}
             /\ sessions[i].model \in Seq(Parts)
  <2>1. sessions[i] \in ReportedSessions(Seq(Parts))
    BY <1>1
  <2>2. QED
    BY <2>1 DEF ReportedSessions, Unreadable
<1>3. \A i \in 1 .. Len(sessions) : Rate(sessions, prices, i) \in [known : BOOLEAN, usd : Nat]
  BY <1>2, PricingIs DEF Rate
<1>4. QED
  BY <1>1, <1>2, <1>3 DEF Ledger

LEMMA FieldsAre ==
  ASSUME NEW sessions, NEW prices, NEW n, Ledger(sessions, prices, n)
  PROVE  /\ \A i \in 1 .. n : /\ Inputs(sessions)[i] \in Nat /\ Outputs(sessions)[i] \in Nat
                              /\ Cacheds(sessions)[i] \in Nat
                              /\ TokensOf(sessions)[i] \in Nat
                              /\ TokensOf(sessions)[i] = Inputs(sessions)[i] + Outputs(sessions)[i] + Cacheds(sessions)[i]
                              /\ Spent(sessions, prices)[i] \in Nat
<1> SUFFICES ASSUME NEW i \in 1 .. n
             PROVE  /\ Inputs(sessions)[i] \in Nat /\ Outputs(sessions)[i] \in Nat
                    /\ Cacheds(sessions)[i] \in Nat
                    /\ TokensOf(sessions)[i] \in Nat
                    /\ TokensOf(sessions)[i] = Inputs(sessions)[i] + Outputs(sessions)[i] + Cacheds(sessions)[i]
                    /\ Spent(sessions, prices)[i] \in Nat
  OBVIOUS
<1>1. i \in DOMAIN sessions /\ sessions[i].usage \in TokenCounts
      /\ Rate(sessions, prices, i) \in [known : BOOLEAN, usd : Nat]
  BY DEF Ledger
<1>2. /\ sessions[i].usage.input \in Nat /\ sessions[i].usage.output \in Nat
      /\ sessions[i].usage.cached \in Nat
  BY <1>1 DEF TokenCounts
<1>3. Inputs(sessions)[i] = sessions[i].usage.input
  BY <1>1 DEF Inputs
<1>4. Outputs(sessions)[i] = sessions[i].usage.output
  BY <1>1 DEF Outputs
<1>5. Cacheds(sessions)[i] = sessions[i].usage.cached
  BY <1>1 DEF Cacheds
<1>6. TokensOf(sessions)[i] = sessions[i].usage.input + sessions[i].usage.output + sessions[i].usage.cached
  BY <1>1 DEF TokensOf
<1>7. Spent(sessions, prices)[i] = Rate(sessions, prices, i).usd * TokensOf(sessions)[i]
  BY <1>1 DEF Spent
<1>8. Rate(sessions, prices, i).usd \in Nat /\ TokensOf(sessions)[i] \in Nat
  BY <1>1, <1>2, <1>6
<1>9. Spent(sessions, prices)[i] \in Nat
  <2>1. \A a, b \in Nat : a * b \in Nat
    OBVIOUS
  <2>2. QED
    BY <1>7, <1>8, <2>1
<1>10. QED
  BY <1>2, <1>3, <1>4, <1>5, <1>6, <1>8, <1>9

\* The cost of a set of sessions.
LEMMA CostIs ==
  ASSUME NEW sessions, NEW prices, NEW n, Ledger(sessions, prices, n), NEW S, S \subseteq 1 .. n
  PROVE  /\ CostOf(sessions, S, prices)
                = CostIf(S \subseteq Priced(sessions, prices), SumOf(S, Spent(sessions, prices)))
         /\ Summable(S, Spent(sessions, prices), n)
<1> DEFINE rate == [i \in S |-> PricingFor(prices, sessions[i].model)]
           Tokens(i) == sessions[i].usage.input + sessions[i].usage.output
                           + sessions[i].usage.cached
           usd == [i \in S |-> rate[i].usd * Tokens(i)]
           spent == Spent(sessions, prices)
<1>1. \A i \in S : i \in DOMAIN sessions /\ rate[i] = Rate(sessions, prices, i)
  BY DEF Ledger, Rate
<1>2. S \subseteq Priced(sessions, prices) <=> ~\E i \in S : ~rate[i].known
  BY <1>1 DEF Priced
<1>3. Summable(S, spent, n)
  <2>1. \A i \in 1 .. n : spent[i] \in Nat
    BY FieldsAre
  <2> HIDE DEF spent
  <2>2. QED
    BY <2>1 DEF Summable, Ledger
<1>4. Alike(S, usd, spent)
  <2> USE DEF Alike
  <2> SUFFICES ASSUME NEW i \in S PROVE usd[i] = spent[i]
    OBVIOUS
  <2>1. Tokens(i) = TokensOf(sessions)[i]
    BY <1>1 DEF TokensOf
  <2>2. usd[i] = rate[i].usd * Tokens(i)
    OBVIOUS
  <2>3. spent[i] = Rate(sessions, prices, i).usd * TokensOf(sessions)[i]
    BY <1>1 DEF Spent
  <2> HIDE DEF usd, spent, rate, Tokens
  <2>4. QED
    BY <1>1, <2>1, <2>2, <2>3
<1>5. SumOf(S, usd) = SumOf(S, spent)
  <2> HIDE DEF usd, spent
  <2>1. QED
    BY <1>3, <1>4, SumAlike
<1>6. CostOf(sessions, S, prices)
        = IF \E i \in S : ~rate[i].known THEN NoCost ELSE Cost(SumOf(S, usd))
  BY DEF CostOf
<1> HIDE DEF rate, usd, spent, Tokens
<1>7. CostOf(sessions, S, prices) = CostIf(S \subseteq Priced(sessions, prices), SumOf(S, spent))
  BY <1>2, <1>5, <1>6 DEF CostIf
<1>8. QED
  BY <1>3, <1>7 DEF spent

Listeds(sessions) == [i \in DOMAIN sessions |-> sessions[i].listed]
Loadeds(sessions) == [i \in DOMAIN sessions |-> sessions[i].loaded]
Ones(sessions) == [i \in DOMAIN sessions |-> 1]

\* The sums of the three counts over a set of sessions make its tokens.
LEMMA TokenSums ==
  ASSUME NEW sessions, NEW prices, NEW n, Ledger(sessions, prices, n), NEW S, S \subseteq 1 .. n
  PROVE  /\ Counts(S, Inputs(sessions), n) /\ Counts(S, Outputs(sessions), n)
         /\ Counts(S, Cacheds(sessions), n) /\ Counts(S, TokensOf(sessions), n)
         /\ SumOf(S, Inputs(sessions)) \in Nat /\ SumOf(S, Outputs(sessions)) \in Nat
         /\ SumOf(S, Cacheds(sessions)) \in Nat
         /\ SumOf(S, TokensOf(sessions))
              = SumOf(S, Inputs(sessions)) + SumOf(S, Outputs(sessions)) + SumOf(S, Cacheds(sessions))
<1> DEFINE a == Inputs(sessions)
           b == Outputs(sessions)
           c == Cacheds(sessions)
           t == TokensOf(sessions)
           ab == [i \in S |-> a[i] + b[i]]
<1>1. \A i \in S : /\ a[i] \in Nat /\ b[i] \in Nat /\ c[i] \in Nat /\ t[i] \in Nat
                   /\ t[i] = a[i] + b[i] + c[i]
  BY FieldsAre
<1> HIDE DEF a, b, c, t
<1>2. n \in Nat
  BY DEF Ledger
<1>3. Counts(S, a, n) /\ Counts(S, b, n) /\ Counts(S, c, n) /\ Counts(S, t, n)
  BY <1>1, <1>2 DEF Counts
<1>4. \A f : Counts(S, f, n) => Summable(S, f, n) /\ SumOf(S, f) \in Nat
  <2> SUFFICES ASSUME NEW f, Counts(S, f, n) PROVE Summable(S, f, n) /\ SumOf(S, f) \in Nat
    OBVIOUS
  <2>1. Alike(S, f, f) /\ S \subseteq S
    BY DEF Alike
  <2>2. QED
    BY <2>1, SumMore
<1>5. Plus(S, a, b, ab) /\ \A i \in S : ab[i] = a[i] + b[i]
  BY DEF Plus
<1>6. Summable(S, ab, n)
  BY <1>1, <1>2, <1>5 DEF Summable
<1> HIDE DEF ab
<1>7. SumOf(S, ab) = SumOf(S, a) + SumOf(S, b)
  BY <1>3, <1>4, <1>5, SumPlus
<1>8. Plus(S, ab, c, t)
  BY <1>1, <1>5 DEF Plus
<1>9. SumOf(S, t) = SumOf(S, ab) + SumOf(S, c)
  BY <1>3, <1>4, <1>6, <1>8, SumPlus
<1>10. QED
  BY <1>3, <1>4, <1>7, <1>9 DEF a, b, c, t

LEMMA TokensWithin ==
  ASSUME NEW sessions, NEW prices, NEW n, Ledger(sessions, prices, n), NEW S, S \subseteq 1 .. n
  PROVE  SumOf(S, TokensOf(sessions)) <= SumOf(DOMAIN sessions, TokensOf(sessions))
<1>1. DOMAIN sessions = 1 .. n /\ 1 .. n \subseteq 1 .. n
  BY DEF Ledger
<1>2. Counts(1 .. n, TokensOf(sessions), n)
  BY <1>1, TokenSums
<1>3. Alike(S, TokensOf(sessions), TokensOf(sessions))
  BY DEF Alike
<1>4. QED
  BY <1>1, <1>2, <1>3, SumMore

LEMMA Small ==
  ASSUME NEW x \in Nat, NEW words \in Nat, x < words
  PROVE  x % words = x /\ Saturated(x, words) = x
BY DEF Saturated

UsageOf(sessions, prices, S) ==
  [sessions |-> SumOf(S, Ones(sessions)), messages |-> SumOf(S, Listeds(sessions)),
   total |-> SumOf(S, TokensOf(sessions)),
   cost |-> CostIf(S \subseteq Priced(sessions, prices), SumOf(S, Spent(sessions, prices)))]

\* A row of the usage report, and its totals, as long as the counters hold them.
LEMMA BucketIs ==
  ASSUME NEW sessions, NEW prices, NEW n, Ledger(sessions, prices, n), NEW S, S \subseteq 1 .. n,
         NEW words \in Nat, Fits(sessions, words)
  PROVE  /\ Bucket(sessions, S, prices, words) = UsageOf(sessions, prices, S)
         /\ Summable(S, Ones(sessions), n) /\ Summable(S, Listeds(sessions), n)
<1> DEFINE a == Inputs(sessions)
           b == Outputs(sessions)
           c == Cacheds(sessions)
           t == TokensOf(sessions)
           input == [i \in S |-> sessions[i].usage.input]
           output == [i \in S |-> sessions[i].usage.output]
           cached == [i \in S |-> sessions[i].usage.cached]
           listed == [i \in S |-> sessions[i].listed]
           one == [i \in S |-> 1]
<1>1. n \in Nat /\ \A i \in S : i \in DOMAIN sessions /\ sessions[i].listed \in Nat
  BY DEF Ledger
<1>2. Alike(S, input, a) /\ Alike(S, output, b) /\ Alike(S, cached, c)
  BY <1>1 DEF Alike, Inputs, Outputs, Cacheds
<1>3. Alike(S, listed, Listeds(sessions)) /\ Alike(S, one, Ones(sessions))
  BY <1>1 DEF Alike, Listeds, Ones
<1>4. Summable(S, Ones(sessions), n) /\ Summable(S, Listeds(sessions), n)
  BY <1>1 DEF Summable, Listeds, Ones
<1>5. /\ Counts(S, a, n) /\ Counts(S, b, n) /\ Counts(S, c, n)
      /\ SumOf(S, a) \in Nat /\ SumOf(S, b) \in Nat /\ SumOf(S, c) \in Nat
      /\ SumOf(S, t) = SumOf(S, a) + SumOf(S, b) + SumOf(S, c)
  BY TokenSums
<1>6. SumOf(S, t) < words
  <2>1. SumOf(S, t) <= SumOf(DOMAIN sessions, t) /\ SumOf(DOMAIN sessions, t) < words
    BY TokensWithin DEF Fits
  <2>2. SumOf(DOMAIN sessions, t) \in Nat
    <3>1. DOMAIN sessions \subseteq 1 .. n
      BY DEF Ledger
    <3>2. QED
      BY <3>1, TokenSums
  <2> HIDE DEF t, a, b, c
  <2>3. QED
    BY <1>5, <2>1, <2>2
<1>7. Cardinality(S) = SumOf(S, Ones(sessions))
  <2>1. SumOf(S, one) = Cardinality(S)
    BY <1>1, CountIs
  <2>2. SumOf(S, one) = SumOf(S, Ones(sessions))
    <3> HIDE DEF one
    <3>1. QED
      BY <1>3, <1>4, SumAlike
  <2>3. QED
    BY <2>1, <2>2
<1> HIDE DEF a, b, c, t, input, output, cached, listed, one
<1>8. SumOf(S, listed) = SumOf(S, Listeds(sessions))
  BY <1>3, <1>4, SumAlike
<1>9. SumOf(S, input) = SumOf(S, a) /\ SumOf(S, output) = SumOf(S, b) /\ SumOf(S, cached) = SumOf(S, c)
  <2>1. Summable(S, a, n) /\ Summable(S, b, n) /\ Summable(S, c, n)
    BY <1>5 DEF Counts, Summable
  <2>2. QED
    BY <1>2, <2>1, SumAlike
<1>10. /\ SumOf(S, input) % words = SumOf(S, a) /\ SumOf(S, output) % words = SumOf(S, b)
       /\ SumOf(S, cached) % words = SumOf(S, c)
  <2>1. SumOf(S, a) < words /\ SumOf(S, b) < words /\ SumOf(S, c) < words
    BY <1>5, <1>6
  <2>2. QED
    BY <1>5, <1>9, <2>1, Small
<1>11. Saturated((SumOf(S, input) % words) + (SumOf(S, output) % words) + (SumOf(S, cached) % words), words)
          = SumOf(S, t)
  <2>1. SumOf(S, t) \in Nat
    BY <1>5
  <2>2. Saturated(SumOf(S, t), words) = SumOf(S, t)
    BY <1>6, <2>1, Small
  <2>3. QED
    BY <1>5, <1>10, <2>2
<1>12. CostOf(sessions, S, prices)
          = CostIf(S \subseteq Priced(sessions, prices), SumOf(S, Spent(sessions, prices)))
  BY CostIs, ZenonT(60)
<1>13. Bucket(sessions, S, prices, words)
          = [sessions |-> Cardinality(S), messages |-> SumOf(S, listed),
             total |-> Saturated((SumOf(S, input) % words) + (SumOf(S, output) % words)
                                    + (SumOf(S, cached) % words), words),
             cost |-> CostOf(sessions, S, prices)]
  BY Zenon DEF Bucket, input, output, cached, listed
<1>14. QED
  BY <1>4, <1>7, <1>8, <1>11, <1>12, <1>13, Zenon DEF UsageOf, t

\* The sessions that say how many tokens they used, and no others, count.
UsedOf(sessions, S) == {i \in S : sessions[i].usage # NoUsage}

LEMMA TokensAre ==
  ASSUME NEW sessions, NEW prices, NEW n, Ledger(sessions, prices, n), NEW S, S \subseteq 1 .. n,
         NEW words \in Nat
  PROVE  AggregateTokens(sessions, S, prices, words)
           = [total |-> Saturated(Saturated(SumOf(S, Inputs(sessions)), words)
                                    + Saturated(SumOf(S, Outputs(sessions)), words)
                                    + Saturated(SumOf(S, Cacheds(sessions)), words), words),
              cost |-> CostIf(UsedOf(sessions, S) \subseteq Priced(sessions, prices),
                              SumOf(S, Spent(sessions, prices)))]
<1> DEFINE a == Inputs(sessions)
           b == Outputs(sessions)
           c == Cacheds(sessions)
           used == UsedOf(sessions, S)
           input == [i \in used |-> sessions[i].usage.input]
           output == [i \in used |-> sessions[i].usage.output]
           cached == [i \in used |-> sessions[i].usage.cached]
           spent == Spent(sessions, prices)
<1>1. used \subseteq S /\ used \subseteq 1 .. n
  BY DEF UsedOf
<1>2. \A i \in 1 .. n : i \in DOMAIN sessions
  BY DEF Ledger
<1>3. Alike(used, input, a) /\ Alike(used, output, b) /\ Alike(used, cached, c)
  BY <1>1, <1>2 DEF Alike, Inputs, Outputs, Cacheds
<1>4. Summable(S, a, n) /\ Summable(S, b, n) /\ Summable(S, c, n) /\ Summable(S, spent, n)
  <2>1. Counts(S, a, n) /\ Counts(S, b, n) /\ Counts(S, c, n)
    BY TokenSums
  <2>2. Summable(S, spent, n)
    BY CostIs
  <2>3. QED
    BY <2>1, <2>2 DEF Counts, Summable
<1>5. ASSUME NEW i \in S \ used PROVE a[i] = 0 /\ b[i] = 0 /\ c[i] = 0 /\ spent[i] = 0
  <2>1. i \in DOMAIN sessions /\ sessions[i].usage = NoUsage
    BY <1>2 DEF UsedOf
  <2>2. sessions[i].usage.input = 0 /\ sessions[i].usage.output = 0 /\ sessions[i].usage.cached = 0
    BY <2>1 DEF NoUsage
  <2>3. a[i] = 0 /\ b[i] = 0 /\ c[i] = 0
    BY <2>1, <2>2 DEF Inputs, Outputs, Cacheds
  <2>4. TokensOf(sessions)[i] = 0
    BY <2>1, <2>2 DEF TokensOf
  <2>5. Rate(sessions, prices, i).usd \in Nat
    <3>1. Rate(sessions, prices, i) \in [known : BOOLEAN, usd : Nat]
      BY DEF Ledger
    <3>2. QED
      BY <3>1
  <2>6. spent[i] = Rate(sessions, prices, i).usd * TokensOf(sessions)[i]
    BY <2>1 DEF Spent
  <2> HIDE DEF spent
  <2>7. spent[i] = 0
    BY <2>4, <2>5, <2>6
  <2>8. QED
    BY <2>3, <2>7
<1>6. Alike(used, spent, spent)
  BY DEF Alike
<1> HIDE DEF a, b, c, input, output, cached, spent, used
<1>7. /\ SumOf(used, input) = SumOf(S, a) /\ SumOf(used, output) = SumOf(S, b)
      /\ SumOf(used, cached) = SumOf(S, c) /\ SumOf(used, spent) = SumOf(S, spent)
  BY <1>1, <1>3, <1>4, <1>5, <1>6, SumOmits
<1>8. CostOf(sessions, used, prices) = CostIf(used \subseteq Priced(sessions, prices), SumOf(used, spent))
  BY <1>1, CostIs, ZenonT(60) DEF spent
<1>9. AggregateTokens(sessions, S, prices, words)
        = [total |-> Saturated(Saturated(SumOf(used, input), words)
                                + Saturated(SumOf(used, output), words)
                                + Saturated(SumOf(used, cached), words), words),
           cost |-> CostOf(sessions, used, prices)]
  BY Zenon DEF AggregateTokens, UsedOf, used, input, output, cached
<1>10. QED
  BY <1>7, <1>8, <1>9, Zenon DEF a, b, c, spent, used

\* For every discovery, price table and width of the counters, full or not: `project`
\* and `report` show no fewer tokens for a set of sessions than for a part of it
\* (project/tokens.rs, aggregate_tokens).
THEOREM WiderCorrect ==
  ASSUME NEW Parts, NEW prices \in PriceTables(Parts), NEW sessions \in Seq(ReportedSessions(Seq(Parts))),
         NEW words \in Nat \ {0}, NEW S, NEW T \in SUBSET DOMAIN sessions
  PROVE  WiderNeverShrinks(sessions, S, T, prices, words)
<1> SUFFICES ASSUME S \subseteq T
             PROVE  AggregateTokens(sessions, S, prices, words).total
                      <= AggregateTokens(sessions, T, prices, words).total
  BY DEF WiderNeverShrinks
<1> DEFINE n == Len(sessions)
           a == Inputs(sessions)
           b == Outputs(sessions)
           c == Cacheds(sessions)
           full(x) == Saturated(x, words)
<1>1. Ledger(sessions, prices, n) /\ words \in Nat
  BY LedgerIs
<1>2. T \subseteq 1 .. n /\ S \subseteq 1 .. n
  BY <1>1 DEF Ledger
<1> HIDE DEF n
<1>3. \A x, y \in Nat : x <= y => full(x) \in Nat /\ full(y) \in Nat /\ full(x) <= full(y)
  BY DEF Saturated
<1>4. Counts(T, a, n) /\ Counts(T, b, n) /\ Counts(T, c, n)
  BY <1>1, <1>2, TokenSums
<1>5. \A f : Counts(T, f, n) => SumOf(S, f) \in Nat /\ SumOf(T, f) \in Nat /\ SumOf(S, f) <= SumOf(T, f)
  <2> SUFFICES ASSUME NEW f, Counts(T, f, n)
               PROVE  SumOf(S, f) \in Nat /\ SumOf(T, f) \in Nat /\ SumOf(S, f) <= SumOf(T, f)
    OBVIOUS
  <2>1. Alike(S, f, f) /\ Alike(T, f, f) /\ T \subseteq T
    BY DEF Alike
  <2>2. QED
    BY <2>1, SumMore
<1> HIDE DEF a, b, c, full
<1>6. /\ full(SumOf(S, a)) \in Nat /\ full(SumOf(T, a)) \in Nat /\ full(SumOf(S, a)) <= full(SumOf(T, a))
      /\ full(SumOf(S, b)) \in Nat /\ full(SumOf(T, b)) \in Nat /\ full(SumOf(S, b)) <= full(SumOf(T, b))
      /\ full(SumOf(S, c)) \in Nat /\ full(SumOf(T, c)) \in Nat /\ full(SumOf(S, c)) <= full(SumOf(T, c))
  BY <1>3, <1>4, <1>5
<1>7. full(full(SumOf(S, a)) + full(SumOf(S, b)) + full(SumOf(S, c)))
        <= full(full(SumOf(T, a)) + full(SumOf(T, b)) + full(SumOf(T, c)))
  <2> DEFINE x == full(SumOf(S, a)) + full(SumOf(S, b)) + full(SumOf(S, c))
             y == full(SumOf(T, a)) + full(SumOf(T, b)) + full(SumOf(T, c))
  <2>1. x \in Nat /\ y \in Nat /\ x <= y
    BY <1>6, SMTT(30)
  <2> HIDE DEF x, y
  <2>2. full(x) <= full(y)
    BY <1>3, <2>1
  <2>3. QED
    BY <2>2 DEF x, y
<1>8. AggregateTokens(sessions, S, prices, words).total
        = full(full(SumOf(S, a)) + full(SumOf(S, b)) + full(SumOf(S, c)))
  <2>1. AggregateTokens(sessions, S, prices, words)
          = [total |-> full(full(SumOf(S, a)) + full(SumOf(S, b)) + full(SumOf(S, c))),
             cost |-> CostIf(UsedOf(sessions, S) \subseteq Priced(sessions, prices),
                             SumOf(S, Spent(sessions, prices)))]
    BY <1>1, <1>2, TokensAre, ZenonT(60) DEF full, a, b, c
  <2>2. QED
    BY <2>1
<1>9. AggregateTokens(sessions, T, prices, words).total
        = full(full(SumOf(T, a)) + full(SumOf(T, b)) + full(SumOf(T, c)))
  <2>1. AggregateTokens(sessions, T, prices, words)
          = [total |-> full(full(SumOf(T, a)) + full(SumOf(T, b)) + full(SumOf(T, c))),
             cost |-> CostIf(UsedOf(sessions, T) \subseteq Priced(sessions, prices),
                             SumOf(T, Spent(sessions, prices)))]
    BY <1>1, <1>2, TokensAre, SMTT(30) DEF full, a, b, c
  <2>2. QED
    BY <2>1
<1>10. QED
  BY <1>7, <1>8, <1>9

\* The totals as long as the counters hold them.
LEMMA TotalIs ==
  ASSUME NEW sessions, NEW prices, NEW n, Ledger(sessions, prices, n), NEW S, S \subseteq 1 .. n,
         NEW words \in Nat, Fits(sessions, words)
  PROVE  AggregateTokens(sessions, S, prices, words)
           = [total |-> SumOf(S, TokensOf(sessions)),
              cost |-> CostIf(UsedOf(sessions, S) \subseteq Priced(sessions, prices),
                              SumOf(S, Spent(sessions, prices)))]
<1> DEFINE a == SumOf(S, Inputs(sessions))
           b == SumOf(S, Outputs(sessions))
           c == SumOf(S, Cacheds(sessions))
           t == SumOf(S, TokensOf(sessions))
           all == SumOf(DOMAIN sessions, TokensOf(sessions))
<1>1. a \in Nat /\ b \in Nat /\ c \in Nat /\ t = a + b + c
  BY TokenSums
<1>2. all \in Nat
  <2>1. DOMAIN sessions \subseteq 1 .. n
    BY DEF Ledger
  <2>2. QED
    BY <2>1, TokenSums
<1>3. t <= all /\ all < words
  BY TokensWithin DEF Fits
<1> HIDE DEF a, b, c, t, all
<1>4. t \in Nat /\ t < words /\ a < words /\ b < words /\ c < words
  BY <1>1, <1>2, <1>3
<1>5. Saturated(Saturated(a, words) + Saturated(b, words) + Saturated(c, words), words) = t
  <2>1. Saturated(a, words) = a /\ Saturated(b, words) = b /\ Saturated(c, words) = c /\ Saturated(t, words) = t
    BY <1>1, <1>4, Small
  <2>2. QED
    BY <1>1, <2>1
<1>6. AggregateTokens(sessions, S, prices, words)
           = [total |-> Saturated(Saturated(a, words) + Saturated(b, words) + Saturated(c, words), words),
              cost |-> CostIf(UsedOf(sessions, S) \subseteq Priced(sessions, prices),
                              SumOf(S, Spent(sessions, prices)))]
  BY TokensAre DEF a, b, c
<1>7. QED
  BY <1>5, <1>6, Zenon DEF t

LEMMA HeavierOrders ==
  ASSUME NEW R, \A r \in R : r.row.total \in Int /\ r.key \in Int,
         \A r, q \in R : r.key = q.key => r = q
  PROVE  Orders(Heavier(R), R)
<1> DEFINE total == [r \in R |-> r.row.total]
           key == [r \in R |-> r.key]
<1>1. \A r \in R : total[r] \in Int /\ key[r] \in Int
  OBVIOUS
<1>2. \A r, q \in R : <<r, q>> \in Heavier(R) <=> total[r] > total[q] \/ (total[r] = total[q] /\ key[r] < key[q])
  BY DEF Heavier
<1>3. \A r, q \in R : key[r] = key[q] => r = q
  OBVIOUS
<1> HIDE DEF total, key
<1>4. QED
  BY <1>1, <1>2, <1>3, SMTT(30) DEF Orders

\* For every discovery and price table whose tokens the counters hold: the rows of
\* `aghist usage` by project add up to its totals in sessions, messages, tokens and
\* cost, whatever the limit cuts (usage/aggregate.rs, aggregate).
THEOREM UsageCorrect ==
  ASSUME NEW Parts, NEW prices \in PriceTables(Parts), NEW sessions \in Seq(ReportedSessions(Seq(Parts))),
         NEW words \in Nat, Fits(sessions, words)
  PROVE  UsageAddsUp(sessions, "project", prices, words)
<1> DEFINE n == Len(sessions)
           D == DOMAIN sessions
           key == [i \in D |-> BucketKey(sessions[i], "project")]
           Of(k) == {i \in D : key[i] = k}
           row == [i \in D |-> UsageRow(sessions, key[i], "project", prices, words)]
           R == {row[i] : i \in D}
           s == InOrder(R, Heavier(R))
           totals == Bucket(sessions, D, prices, words)
           usage == Aggregate(sessions, "project", prices, words)
<1>1. Ledger(sessions, prices, n)
  BY LedgerIs
<1>2. n \in Nat /\ D = 1 .. n
  BY <1>1 DEF Ledger
<1>3. \A i \in D : key[i] \in Int
  BY <1>1 DEF Ledger, BucketKey
<1>5. ASSUME NEW i \in D
      PROVE  row[i].key = key[i] /\ row[i].row = Bucket(sessions, Of(key[i]), prices, words)
  <2>1. row[i] = UsageRow(sessions, key[i], "project", prices, words)
    OBVIOUS
  <2>2. {j \in D : BucketKey(sessions[j], "project") = key[i]} = Of(key[i])
    OBVIOUS
  <2> HIDE DEF row, key, Of
  <2>3. row[i] = [key |-> key[i], row |-> Bucket(sessions, Of(key[i]), prices, words)]
    BY <2>1, <2>2 DEF UsageRow
  <2>4. QED
    BY <2>3
<1>6. \A i \in D : Of(key[i]) \subseteq 1 .. n
  BY <1>2
<1>7. \A i \in D : row[i].row.total \in Int
  <2> SUFFICES ASSUME NEW i \in D PROVE row[i].row.total \in Int
    OBVIOUS
  <2>1. row[i].row.total = SumOf(Of(key[i]), TokensOf(sessions))
    <3> HIDE DEF row, Of, key, D, n
    <3>1. row[i].row = UsageOf(sessions, prices, Of(key[i]))
      BY <1>1, <1>5, <1>6, BucketIs
    <3>2. QED
      BY <3>1 DEF UsageOf
  <2>2. SumOf(Of(key[i]), TokensOf(sessions)) \in Nat
    <3> HIDE DEF row, Of, key, D, n
    <3>1. QED
      BY <1>1, <1>6, TokenSums
  <2>3. QED
    BY <2>1, <2>2
<1>8. \A i, j \in D : row[i] = row[j] <=> key[i] = key[j]
  <2> HIDE DEF key, D
  <2>1. \A i, j \in D : key[i] = key[j] => row[i] = row[j]
    OBVIOUS
  <2> HIDE DEF row
  <2>2. QED
    BY <1>5, <2>1, ZenonT(60)
<1> HIDE DEF row, key
<1>9. Orders(Heavier(R), R)
  <2>1. \A r \in R : r.row.total \in Int /\ r.key \in Int
    BY <1>3, <1>5, <1>7
  <2>2. ASSUME NEW r \in R, NEW q \in R, r.key = q.key PROVE r = q
    <3>1. PICK i \in D : r = row[i]
      OBVIOUS
    <3>2. PICK j \in D : q = row[j]
      OBVIOUS
    <3>3. key[i] = key[j]
      BY <1>5, <2>2, <3>1, <3>2
    <3>4. QED
      BY <1>8, <3>1, <3>2, <3>3
  <2> HIDE DEF R
  <2>3. QED
    BY <2>1, <2>2, HeavierOrders
<1>10. usage = [rows |-> s, totals |-> totals]
  <2>1. {UsageRow(sessions, k, "project", prices, words) : k \in {BucketKey(sessions[i], "project") : i \in D}} = R
    BY DEF row, key
  <2> HIDE DEF R
  <2>2. QED
    BY <2>1 DEF Aggregate
<1>11. IsFiniteSet(D)
  BY <1>2, FS_Interval
<1>12. PICK m, part : PartedBy(part, s, m, row, D)
  <2> HIDE DEF D
  <2>1. QED
    BY <1>9, <1>11, RowsPart
<1>13. m \in Nat /\ part \in [D -> 1 .. m] /\ DOMAIN s = 1 .. m
  BY <1>12 DEF PartedBy
<1> DEFINE P(k) == {i \in D : part[i] = k}
           rows == [k \in DOMAIN s |-> s[k].row]
<1>14. ASSUME NEW k \in 1 .. m PROVE P(k) \subseteq 1 .. n /\ rows[k] = Bucket(sessions, P(k), prices, words)
  <2>1. PICK i \in D : s[k] = row[i] /\ part[i] = k
    BY <1>12 DEF PartedBy
  <2>2. \A j \in D : part[j] = k <=> row[j] = s[k]
    BY <1>12 DEF PartedBy
  <2>3. \A j \in D : part[j] = k <=> key[j] = key[i]
    BY <1>8, <2>1, <2>2
  <2>4. P(k) = Of(key[i])
    BY <2>3
  <2>5. rows[k] = row[i].row
    BY <1>13, <2>1
  <2> HIDE DEF rows, P, Of
  <2>6. QED
    BY <1>5, <1>6, <2>4, <2>5
<1> HIDE DEF Of, R, s
<1>15. ASSUME NEW k \in 1 .. m
       PROVE  /\ rows[k].sessions = SumOf(P(k), Ones(sessions))
              /\ rows[k].messages = SumOf(P(k), Listeds(sessions))
              /\ rows[k].total = SumOf(P(k), TokensOf(sessions))
              /\ rows[k].cost = CostIf(P(k) \subseteq Priced(sessions, prices),
                                       SumOf(P(k), Spent(sessions, prices)))
  <2> HIDE DEF P, rows, n
  <2>1. P(k) \subseteq 1 .. n /\ rows[k] = Bucket(sessions, P(k), prices, words)
    BY <1>14
  <2>2. rows[k] = UsageOf(sessions, prices, P(k))
    BY <1>1, <2>1, BucketIs
  <2>3. QED
    BY <2>2 DEF UsageOf
<1>16. /\ totals.sessions = SumOf(D, Ones(sessions)) /\ totals.messages = SumOf(D, Listeds(sessions))
       /\ totals.total = SumOf(D, TokensOf(sessions))
       /\ totals.cost = CostIf(D \subseteq Priced(sessions, prices), SumOf(D, Spent(sessions, prices)))
       /\ Summable(D, Ones(sessions), n) /\ Summable(D, Listeds(sessions), n)
       /\ Summable(D, TokensOf(sessions), n) /\ Summable(D, Spent(sessions, prices), n)
  <2>1. D \subseteq 1 .. n
    BY <1>2
  <2> HIDE DEF D, n
  <2>2. Counts(D, TokensOf(sessions), n)
    BY <1>1, <2>1, TokenSums
  <2>3. Summable(D, TokensOf(sessions), n)
    BY <2>2 DEF Counts, Summable
  <2>4. Summable(D, Spent(sessions, prices), n)
    BY <1>1, <2>1, CostIs
  <2>5. Summable(D, Ones(sessions), n) /\ Summable(D, Listeds(sessions), n)
    BY <1>1, <2>1, BucketIs
  <2>6. totals = UsageOf(sessions, prices, D)
    BY <1>1, <2>1, BucketIs
  <2> HIDE DEF totals
  <2>7. QED
    BY <2>3, <2>4, <2>5, <2>6 DEF UsageOf
<1>17. DOMAIN rows = 1 .. m
  BY <1>13
<1> HIDE DEF rows, totals, usage
<1>18. PartsAddUp([k \in DOMAIN rows |-> rows[k].sessions], totals.sessions)
  <2>1. [k \in DOMAIN rows |-> rows[k].sessions] = [k \in 1 .. m |-> SumOf(P(k), Ones(sessions))]
    BY <1>15, <1>17
  <2>2. SumsOfParts([k \in DOMAIN rows |-> rows[k].sessions], D, Ones(sessions), m, part)
    BY <1>13, <2>1 DEF SumsOfParts
  <2> HIDE DEF D, n
  <2>3. QED
    BY <1>16, <2>2, ColumnAddsUp
<1>19. PartsAddUp([k \in DOMAIN rows |-> rows[k].messages], totals.messages)
  <2>1. [k \in DOMAIN rows |-> rows[k].messages] = [k \in 1 .. m |-> SumOf(P(k), Listeds(sessions))]
    BY <1>15, <1>17
  <2>2. SumsOfParts([k \in DOMAIN rows |-> rows[k].messages], D, Listeds(sessions), m, part)
    BY <1>13, <2>1 DEF SumsOfParts
  <2> HIDE DEF D, n
  <2>3. QED
    BY <1>16, <2>2, ColumnAddsUp
<1>20. PartsAddUp([k \in DOMAIN rows |-> rows[k].total], totals.total)
  <2>1. [k \in DOMAIN rows |-> rows[k].total] = [k \in 1 .. m |-> SumOf(P(k), TokensOf(sessions))]
    BY <1>15, <1>17
  <2>2. SumsOfParts([k \in DOMAIN rows |-> rows[k].total], D, TokensOf(sessions), m, part)
    BY <1>13, <2>1 DEF SumsOfParts
  <2> HIDE DEF D, n
  <2>3. QED
    BY <1>16, <2>2, ColumnAddsUp
<1>21. CostsAddUp([k \in DOMAIN rows |-> rows[k].cost], totals.cost)
  <2> DEFINE column == [k \in DOMAIN rows |-> rows[k].cost]
             known == Priced(sessions, prices)
             f == Spent(sessions, prices)
  <2>1. \A k \in 1 .. m : column[k] = CostIf(P(k) \subseteq known, SumOf(P(k), f))
    BY <1>15, <1>17
  <2> HIDE DEF known, f
  <2>2. \A k \in 1 .. m : P(k) \subseteq known <=> \A i \in D : part[i] = k => i \in known
    OBVIOUS
  <2>3. CostsOfParts(column, D, f, known, m, part)
    <3>1. DOMAIN column = 1 .. m
      BY <1>17
    <3> HIDE DEF column, D
    <3>2. QED
      BY <1>13, <2>1, <2>2, <3>1 DEF CostsOfParts
  <2>4. totals.cost = CostIf(D \subseteq known, SumOf(D, f)) /\ Summable(D, f, n)
    BY <1>16 DEF known, f
  <2> HIDE DEF D, n, column
  <2>5. CostsAddUp(column, totals.cost)
    BY <2>3, <2>4, CostColumnAddsUp
  <2>6. QED
    BY <2>5 DEF column
<1>22. usage.rows = s /\ usage.totals = totals
  BY <1>10
<1>23. \A limit \in 1 .. 2 : UsageCommand(sessions, "project", prices, words, limit).totals = usage.totals
  BY DEF UsageCommand, usage
<1>24. QED
  BY <1>18, <1>19, <1>20, <1>21, <1>22, <1>23, Zenon DEF UsageAddsUp, usage, rows

\* The sessions whose tokens say nothing against a cost.
CostKnown(sessions, prices) ==
  {i \in DOMAIN sessions : sessions[i].usage = NoUsage \/ i \in Priced(sessions, prices)}
ActivityOf(sessions, prices, S) ==
  [sessions |-> SumOf(S, Ones(sessions)), messages |-> SumOf(S, Loadeds(sessions)),
   tokens |-> [total |-> SumOf(S, TokensOf(sessions)),
               cost |-> CostIf(S \subseteq CostKnown(sessions, prices),
                               SumOf(S, Spent(sessions, prices)))]]

LEMMA ActivityIs ==
  ASSUME NEW sessions, NEW prices, NEW n, Ledger(sessions, prices, n), NEW S, S \subseteq 1 .. n,
         S = Loadable(sessions, S), NEW words \in Nat, Fits(sessions, words)
  PROVE  /\ Activity(sessions, S, prices, words) = ActivityOf(sessions, prices, S)
         /\ Summable(S, Ones(sessions), n) /\ Counts(S, Loadeds(sessions), n)
         /\ SumOf(S, Ones(sessions)) \in Int /\ SumOf(S, Loadeds(sessions)) \in Int
<1> DEFINE loaded == [i \in S |-> sessions[i].loaded]
           tokens == AggregateTokens(sessions, S, prices, words)
<1>1. n \in Nat /\ \A i \in S : i \in DOMAIN sessions /\ sessions[i].loaded \in Nat
  <2> SUFFICES ASSUME NEW i \in S PROVE i \in DOMAIN sessions /\ sessions[i].loaded \in Nat
    BY DEF Ledger
  <2>1. sessions[i].loaded # -1
    BY DEF Loadable, Unreadable
  <2>2. QED
    BY <2>1 DEF Ledger
<1>2. Summable(S, Ones(sessions), n) /\ Cardinality(S) = SumOf(S, Ones(sessions))
  <2> DEFINE one == [i \in S |-> 1]
  <2>1. Summable(S, Ones(sessions), n)
    BY <1>1 DEF Summable, Ones
  <2>2. Alike(S, one, Ones(sessions))
    BY <1>1 DEF Alike, Ones
  <2>3. SumOf(S, one) = Cardinality(S)
    BY <1>1, CountIs
  <2> HIDE DEF one
  <2>4. SumOf(S, one) = SumOf(S, Ones(sessions))
    BY <2>1, <2>2, SumAlike
  <2>5. QED
    BY <2>1, <2>3, <2>4
<1>3. Counts(S, Loadeds(sessions), n) /\ Alike(S, loaded, Loadeds(sessions))
  BY <1>1 DEF Counts, Loadeds, Alike
<1>4. Summable(S, Loadeds(sessions), n)
  BY <1>3 DEF Counts, Summable
<1>5. SumOf(S, loaded) = SumOf(S, Loadeds(sessions))
  <2> HIDE DEF loaded
  <2>1. QED
    BY <1>3, <1>4, SumAlike
<1>6. tokens = [total |-> SumOf(S, TokensOf(sessions)),
                cost |-> CostIf(UsedOf(sessions, S) \subseteq Priced(sessions, prices),
                                SumOf(S, Spent(sessions, prices)))]
  BY TotalIs
<1>7. UsedOf(sessions, S) \subseteq Priced(sessions, prices) <=> S \subseteq CostKnown(sessions, prices)
  BY <1>1 DEF UsedOf, CostKnown
<1>8. tokens = [total |-> SumOf(S, TokensOf(sessions)),
                cost |-> CostIf(S \subseteq CostKnown(sessions, prices),
                                SumOf(S, Spent(sessions, prices)))]
  <2> HIDE DEF tokens
  <2>1. QED
    BY <1>6, <1>7 DEF CostIf
<1>9. Activity(sessions, S, prices, words)
        = [sessions |-> Cardinality(S), messages |-> SumOf(S, loaded), tokens |-> tokens]
  BY DEF Activity
<1> HIDE DEF loaded, tokens
<1>10. Activity(sessions, S, prices, words) = ActivityOf(sessions, prices, S)
  BY <1>2, <1>5, <1>8, <1>9, Zenon DEF ActivityOf
<1>11. QED
  BY <1>2, <1>3, <1>4, <1>10, SumType

LEMMA BusierOrders ==
  ASSUME NEW R, \A r \in R : r.row.messages \in Int /\ r.row.sessions \in Int /\ r.project \in Int,
         \A r, q \in R : r.project = q.project => r = q
  PROVE  Orders(Busier(R), R)
<1> DEFINE messages == [r \in R |-> r.row.messages]
           count == [r \in R |-> r.row.sessions]
           project == [r \in R |-> r.project]
<1>1. \A r \in R : messages[r] \in Int /\ count[r] \in Int /\ project[r] \in Int
  OBVIOUS
<1>2. \A r, q \in R : <<r, q>> \in Busier(R) <=>
        \/ messages[r] > messages[q]
        \/ /\ messages[r] = messages[q]
           /\ count[r] > count[q] \/ (count[r] = count[q] /\ project[r] < project[q])
  BY DEF Busier
<1>3. \A r, q \in R : project[r] = project[q] => r = q
  OBVIOUS
<1> HIDE DEF messages, count, project
<1>4. QED
  BY <1>1, <1>2, <1>3, SMTT(30) DEF Orders

\* For every discovery, window and price table whose tokens the counters hold: the
\* projects of `aghist report` add up to its headline in sessions, messages, tokens and
\* cost (report/projects.rs, top_projects and activity_for).
THEOREM ReportCorrect ==
  ASSUME NEW Parts, NEW prices \in PriceTables(Parts), NEW sessions \in Seq(ReportedSessions(Seq(Parts))),
         NEW words \in Nat, Fits(sessions, words), NEW from \in Int, NEW to \in Int
  PROVE  ReportAddsUp(sessions, from, to, prices, words)
<1> DEFINE n == Len(sessions)
           within == {i \in DOMAIN sessions : sessions[i].start >= from /\ sessions[i].start <= to}
           S == Loadable(sessions, within)
           key == [i \in S |-> sessions[i].project]
           Of(k) == {i \in S : key[i] = k}
           row == [i \in S |-> ProjectRow(sessions, S, key[i], prices, words)]
           R == {row[i] : i \in S}
           s == InOrder(R, Busier(R))
           whole == Activity(sessions, S, prices, words)
           report == ReportCommand(sessions, from, to, prices, words, 1, 0).report
<1>1. Ledger(sessions, prices, n)
  BY LedgerIs
<1>2. /\ n \in Nat /\ DOMAIN sessions = 1 .. n /\ S \subseteq 1 .. n /\ S = Loadable(sessions, S)
      /\ \A T \in SUBSET S : T = Loadable(sessions, T)
  BY <1>1 DEF Ledger, Loadable
<1>3. report.activity = whole /\ report.projects = s
  <2> DEFINE projects == TopProjects(sessions, S, prices, words, 0)
             threads == ThreadsOf(sessions, S, 1)
  <2>1. report = Report(sessions, S, prices, words, 1, 0)
    BY DEF ReportCommand
  <2>2. Report(sessions, S, prices, words, 1, 0)
          = [activity |-> whole, allProjects |-> projects.all, projects |-> projects.rows,
             allThreads |-> Len(threads), threads |-> Limited(threads, 0)]
    BY DEF Report
  <2>3. projects.rows = s
    <3>1. {ProjectRow(sessions, S, sessions[i].project, prices, words) : i \in S} = R
      OBVIOUS
    <3> HIDE DEF R, S
    <3>2. projects = [all |-> Len(s), rows |-> Limited(s, 0)]
      BY <3>1 DEF TopProjects
    <3>3. Limited(s, 0) = s
      BY DEF Limited
    <3> HIDE DEF projects, s
    <3>4. QED
      BY <3>2, <3>3
  <2> HIDE DEF report, whole, projects, s, threads
  <2>4. QED
    BY <2>1, <2>2, <2>3
<1> HIDE DEF S, report
<1>4. \A i \in S : key[i] \in Int
  BY <1>1, <1>2 DEF Ledger
<1>5. ASSUME NEW i \in S
      PROVE  row[i].project = key[i] /\ row[i].row = Activity(sessions, Of(key[i]), prices, words)
  <2>1. row[i] = ProjectRow(sessions, S, key[i], prices, words)
    OBVIOUS
  <2>2. {j \in S : sessions[j].project = key[i]} = Of(key[i])
    OBVIOUS
  <2> HIDE DEF row, key, Of
  <2>3. row[i] = [project |-> key[i], row |-> Activity(sessions, Of(key[i]), prices, words)]
    BY <2>1, <2>2 DEF ProjectRow
  <2>4. QED
    BY <2>3
<1>6. ASSUME NEW i \in S PROVE Of(key[i]) \subseteq 1 .. n /\ Of(key[i]) = Loadable(sessions, Of(key[i]))
  <2>1. Of(key[i]) \in SUBSET S
    OBVIOUS
  <2> HIDE DEF Of
  <2>2. QED
    BY <1>2, <2>1
<1>7. ASSUME NEW i \in S PROVE row[i].row.messages \in Int /\ row[i].row.sessions \in Int
  <2> HIDE DEF row, Of, key, n
  <2>1. /\ row[i].row = ActivityOf(sessions, prices, Of(key[i]))
        /\ SumOf(Of(key[i]), Ones(sessions)) \in Int /\ SumOf(Of(key[i]), Loadeds(sessions)) \in Int
    BY <1>1, <1>5, <1>6, ActivityIs
  <2>2. QED
    BY <2>1 DEF ActivityOf
<1>8. \A i, j \in S : row[i] = row[j] <=> key[i] = key[j]
  <2> HIDE DEF key
  <2>1. \A i, j \in S : key[i] = key[j] => row[i] = row[j]
    OBVIOUS
  <2> HIDE DEF row
  <2>2. QED
    BY <1>5, <2>1, ZenonT(60)
<1> HIDE DEF row, key
<1>9. Orders(Busier(R), R)
  <2>1. \A r \in R : r.row.messages \in Int /\ r.row.sessions \in Int /\ r.project \in Int
    BY <1>4, <1>5, <1>7
  <2>2. ASSUME NEW r \in R, NEW q \in R, r.project = q.project PROVE r = q
    <3>1. PICK i \in S : r = row[i]
      OBVIOUS
    <3>2. PICK j \in S : q = row[j]
      OBVIOUS
    <3>3. key[i] = key[j]
      BY <1>5, <2>2, <3>1, <3>2
    <3>4. QED
      BY <1>8, <3>1, <3>2, <3>3
  <2> HIDE DEF R
  <2>3. QED
    BY <2>1, <2>2, BusierOrders
<1>10. IsFiniteSet(S)
  <2>1. IsFiniteSet(1 .. n)
    BY <1>2, FS_Interval
  <2>2. QED
    BY <1>2, <2>1, FS_Subset
<1>11. PICK m, part : PartedBy(part, s, m, row, S)
  BY <1>9, <1>10, RowsPart
<1>12. m \in Nat /\ part \in [S -> 1 .. m] /\ DOMAIN s = 1 .. m
  BY <1>11 DEF PartedBy
<1> DEFINE P(k) == {i \in S : part[i] = k}
           rows == [k \in DOMAIN s |-> s[k].row]
<1>13. ASSUME NEW k \in 1 .. m
       PROVE  /\ P(k) \subseteq 1 .. n /\ P(k) = Loadable(sessions, P(k))
              /\ rows[k] = Activity(sessions, P(k), prices, words)
  <2>1. PICK i \in S : s[k] = row[i] /\ part[i] = k
    BY <1>11 DEF PartedBy
  <2>2. \A j \in S : part[j] = k <=> row[j] = s[k]
    BY <1>11 DEF PartedBy
  <2>3. \A j \in S : part[j] = k <=> key[j] = key[i]
    BY <1>8, <2>1, <2>2
  <2>4. P(k) = Of(key[i])
    BY <2>3
  <2>5. rows[k] = row[i].row
    BY <1>12, <2>1
  <2> HIDE DEF rows, P, Of
  <2>6. QED
    BY <1>5, <1>6, <2>4, <2>5
<1> HIDE DEF Of, R, s
<1>14. ASSUME NEW k \in 1 .. m
       PROVE  /\ rows[k].sessions = SumOf(P(k), Ones(sessions))
              /\ rows[k].messages = SumOf(P(k), Loadeds(sessions))
              /\ rows[k].tokens.total = SumOf(P(k), TokensOf(sessions))
              /\ rows[k].tokens.cost = CostIf(P(k) \subseteq CostKnown(sessions, prices),
                                              SumOf(P(k), Spent(sessions, prices)))
  <2> HIDE DEF P, rows, n
  <2>1. /\ P(k) \subseteq 1 .. n /\ P(k) = Loadable(sessions, P(k))
        /\ rows[k] = Activity(sessions, P(k), prices, words)
    BY <1>13
  <2>2. rows[k] = ActivityOf(sessions, prices, P(k))
    BY <1>1, <2>1, ActivityIs
  <2>3. QED
    BY <2>2 DEF ActivityOf
<1>15. /\ whole.sessions = SumOf(S, Ones(sessions)) /\ whole.messages = SumOf(S, Loadeds(sessions))
       /\ whole.tokens.total = SumOf(S, TokensOf(sessions))
       /\ whole.tokens.cost = CostIf(S \subseteq CostKnown(sessions, prices), SumOf(S, Spent(sessions, prices)))
       /\ Summable(S, Ones(sessions), n) /\ Summable(S, Loadeds(sessions), n)
       /\ Summable(S, TokensOf(sessions), n) /\ Summable(S, Spent(sessions, prices), n)
  <2> HIDE DEF n
  <2>1. S \subseteq 1 .. n /\ S = Loadable(sessions, S)
    BY <1>2
  <2>2. Counts(S, TokensOf(sessions), n)
    BY <1>1, <2>1, TokenSums
  <2>3. Summable(S, Spent(sessions, prices), n)
    BY <1>1, <2>1, CostIs
  <2>4. Summable(S, Ones(sessions), n) /\ Counts(S, Loadeds(sessions), n)
    BY <1>1, <2>1, ActivityIs
  <2>5. whole = ActivityOf(sessions, prices, S)
    BY <1>1, <2>1, ActivityIs
  <2> HIDE DEF whole
  <2>6. Summable(S, TokensOf(sessions), n) /\ Summable(S, Loadeds(sessions), n)
    BY <2>2, <2>4 DEF Counts, Summable
  <2>7. QED
    BY <2>3, <2>4, <2>5, <2>6 DEF ActivityOf
<1>16. DOMAIN rows = 1 .. m
  BY <1>12
<1> HIDE DEF rows, whole, n
<1>17. PartsAddUp([k \in DOMAIN rows |-> rows[k].sessions], whole.sessions)
  <2>1. [k \in DOMAIN rows |-> rows[k].sessions] = [k \in 1 .. m |-> SumOf(P(k), Ones(sessions))]
    BY <1>14, <1>16
  <2>2. SumsOfParts([k \in DOMAIN rows |-> rows[k].sessions], S, Ones(sessions), m, part)
    BY <1>12, <2>1 DEF SumsOfParts
  <2>3. QED
    BY <1>15, <2>2, ColumnAddsUp
<1>18. PartsAddUp([k \in DOMAIN rows |-> rows[k].messages], whole.messages)
  <2>1. [k \in DOMAIN rows |-> rows[k].messages] = [k \in 1 .. m |-> SumOf(P(k), Loadeds(sessions))]
    BY <1>14, <1>16
  <2>2. SumsOfParts([k \in DOMAIN rows |-> rows[k].messages], S, Loadeds(sessions), m, part)
    BY <1>12, <2>1 DEF SumsOfParts
  <2>3. QED
    BY <1>15, <2>2, ColumnAddsUp
<1>19. PartsAddUp([k \in DOMAIN rows |-> rows[k].tokens.total], whole.tokens.total)
  <2>1. [k \in DOMAIN rows |-> rows[k].tokens.total] = [k \in 1 .. m |-> SumOf(P(k), TokensOf(sessions))]
    BY <1>14, <1>16
  <2>2. SumsOfParts([k \in DOMAIN rows |-> rows[k].tokens.total], S, TokensOf(sessions), m, part)
    BY <1>12, <2>1 DEF SumsOfParts
  <2>3. QED
    BY <1>15, <2>2, ColumnAddsUp
<1>20. CostsAddUp([k \in DOMAIN rows |-> rows[k].tokens.cost], whole.tokens.cost)
  <2> DEFINE column == [k \in DOMAIN rows |-> rows[k].tokens.cost]
             known == CostKnown(sessions, prices)
             f == Spent(sessions, prices)
  <2>1. \A k \in 1 .. m : column[k] = CostIf(P(k) \subseteq known, SumOf(P(k), f))
    BY <1>14, <1>16
  <2> HIDE DEF known, f
  <2>2. \A k \in 1 .. m : P(k) \subseteq known <=> \A i \in S : part[i] = k => i \in known
    OBVIOUS
  <2>3. CostsOfParts(column, S, f, known, m, part)
    <3>1. DOMAIN column = 1 .. m
      BY <1>16
    <3> HIDE DEF column
    <3>2. QED
      BY <1>12, <2>1, <2>2, <3>1 DEF CostsOfParts
  <2>4. whole.tokens.cost = CostIf(S \subseteq known, SumOf(S, f)) /\ Summable(S, f, n)
    BY <1>15 DEF known, f
  <2> HIDE DEF column
  <2>5. CostsAddUp(column, whole.tokens.cost)
    BY <2>3, <2>4, CostColumnAddsUp
  <2>6. QED
    BY <2>5 DEF column
<1>21. QED
  BY <1>3, <1>17, <1>18, <1>19, <1>20, Zenon DEF ReportAddsUp, report, rows

\* For every discovery and price table whose tokens the counters hold: when all
\* sessions of a project load, its dashboard and its row of `aghist usage` agree on
\* tokens and, but for sessions that have neither token counts nor a price, on cost
\* (project/tokens.rs, aggregate_tokens, and usage/aggregate.rs, aggregate).
THEOREM AgreesCorrect ==
  ASSUME NEW Parts, NEW prices \in PriceTables(Parts), NEW sessions \in Seq(ReportedSessions(Seq(Parts))),
         NEW words \in Nat, Fits(sessions, words), NEW project
  PROVE  UsageAndProjectAgree(sessions, project, prices, words)
<1> DEFINE n == Len(sessions)
           S == {i \in DOMAIN sessions : sessions[i].project = project}
           priced == Priced(sessions, prices)
           known == CostKnown(sessions, prices)
           usd == SumOf(S, Spent(sessions, prices))
           row == UsageRow(sessions, project, "project", prices, words).row
           tokens == ProjectCommand(sessions, {project}, prices, words, 1, 0).report.activity.tokens
           unpriced == \E i \in S : /\ sessions[i].usage = NoUsage
                                    /\ ~PricingFor(prices, sessions[i].model).known
<1> SUFFICES ASSUME S = Loadable(sessions, S)
             PROVE  row.total = tokens.total
                    /\ ((row.cost = tokens.cost) <=> ~unpriced \/ ~tokens.cost.known)
  BY Zenon DEF UsageAndProjectAgree
<1>1. Ledger(sessions, prices, n)
  BY LedgerIs
<1>2. S \subseteq 1 .. n
  BY <1>1 DEF Ledger
<1>3. row = Bucket(sessions, S, prices, words)
  <2>1. {i \in DOMAIN sessions : BucketKey(sessions[i], "project") = project} = S
    BY DEF BucketKey
  <2> HIDE DEF S
  <2>2. UsageRow(sessions, project, "project", prices, words)
          = [key |-> project, row |-> Bucket(sessions, S, prices, words)]
    BY <2>1 DEF UsageRow
  <2>3. QED
    BY <2>2
<1>4. tokens = Activity(sessions, S, prices, words).tokens
  <2> DEFINE here == {i \in DOMAIN sessions : sessions[i].project \in {project}}
             threads == ThreadsOf(sessions, S, 1)
             command == ProjectCommand(sessions, {project}, prices, words, 1, 0)
  <2>1. here = S
    OBVIOUS
  <2> HIDE DEF S
  <2>2. command.report = Dashboard(sessions, Loadable(sessions, here), prices, words, 1, 0)
    BY DEF ProjectCommand
  <2> HIDE DEF here, command
  <2>3. command.report = Dashboard(sessions, S, prices, words, 1, 0)
    BY <2>1, <2>2
  <2>4. Dashboard(sessions, S, prices, words, 1, 0)
          = [activity |-> Activity(sessions, S, prices, words),
             allThreads |-> Len(threads), threads |-> Limited(threads, 0)]
    BY DEF Dashboard
  <2>5. QED
    BY <2>3, <2>4 DEF command
<1>5. unpriced <=> ~(S \cap {i \in DOMAIN sessions : sessions[i].usage = NoUsage} \subseteq priced)
  BY DEF Priced, Rate
<1>6. S \subseteq known <=> \A i \in S : sessions[i].usage = NoUsage \/ i \in priced
  BY DEF CostKnown
<1> HIDE DEF n, row, tokens, unpriced
<1>7. row.total = SumOf(S, TokensOf(sessions)) /\ row.cost = CostIf(S \subseteq priced, usd)
  <2> HIDE DEF S
  <2>1. row = UsageOf(sessions, prices, S)
    BY <1>1, <1>2, <1>3, BucketIs
  <2>2. QED
    BY <2>1 DEF UsageOf
<1>8. tokens.total = SumOf(S, TokensOf(sessions)) /\ tokens.cost = CostIf(S \subseteq known, usd)
  <2> HIDE DEF S
  <2>1. Activity(sessions, S, prices, words) = ActivityOf(sessions, prices, S)
    BY <1>1, <1>2, ActivityIs
  <2>2. QED
    BY <1>4, <2>1 DEF ActivityOf
<1>9. S \subseteq priced <=> S \subseteq known /\ ~unpriced
  BY <1>5, <1>6
<1> HIDE DEF S, priced, known, usd
<1>10. (row.cost = tokens.cost) <=> ~unpriced \/ ~tokens.cost.known
  BY <1>7, <1>8, <1>9 DEF CostIf, Cost, NoCost
<1>11. QED
  BY <1>7, <1>8, <1>10
=============================================================================
