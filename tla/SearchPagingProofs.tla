------------------------- MODULE SearchPagingProofs -------------------------
(***************************************************************************)
(* Proofs about SearchPaging, for every finite set of hits, every order    *)
(* among equals, all page sizes, and any number of changes of the result   *)
(* set, each of which may change everything.                               *)
(***************************************************************************)
EXTENDS SearchPaging, FiniteSetTheorems, TLAPS

\* The canonical order is transitive.
LEMMA BeforeTransitive ==
  ASSUME NEW k \in Keys, NEW l \in Keys, NEW m \in Keys, Before(k, l), Before(l, m)
  PROVE  Before(k, m)
  BY ConstantsAssumption DEF Keys, Before

\* It is irreflexive, and it orders any two hits one way or the other.
LEMMA BeforeTotal ==
  ASSUME TypeOK, NEW g \in Hits, NEW h \in Hits
  PROVE  /\ Key(g) \in Keys
         /\ ~Before(Key(g), Key(g))
         /\ g = h \/ Before(Key(g), Key(h)) \/ Before(Key(h), Key(g))
<1>1. score[g] \in 0..MaxScore /\ score[h] \in 0..MaxScore
  BY DEF TypeOK
<1>2. Rank[g] \in Nat /\ Rank[h] \in Nat /\ (g # h => Rank[g] # Rank[h])
  BY ConstantsAssumption
<1>3. QED
  BY <1>1, <1>2, ConstantsAssumption DEF Keys, Key, Before

\* The hits among S that come before h.
Preceding(S, h) == {g \in S : Before(Key(g), Key(h))}

LEMMA PrecedingFinite ==
  ASSUME NEW S \in SUBSET Hits, NEW h
  PROVE  /\ IsFiniteSet(S) /\ IsFiniteSet(Preceding(S, h))
         /\ Cardinality(S) \in Nat /\ Cardinality(Preceding(S, h)) \in Nat
         /\ Cardinality(Preceding(S, h)) <= Cardinality(S)
<1>1. IsFiniteSet(S)
  BY ConstantsAssumption, FS_Subset
<1>2. Preceding(S, h) \in SUBSET S
  BY DEF Preceding
<1>3. QED
  BY <1>1, <1>2, FS_Subset, FS_CardinalityType

\* What comes before an earlier hit comes before a later one, and so does the
\* earlier hit itself.
LEMMA PrecedingGrows ==
  ASSUME TypeOK, NEW S \in SUBSET Hits, NEW g \in S, NEW h \in S, Before(Key(g), Key(h))
  PROVE  /\ Preceding(S, g) \subseteq Preceding(S, h)
         /\ g \in Preceding(S, h) /\ g \notin Preceding(S, g)
<1>1. ASSUME NEW x \in S, Before(Key(x), Key(g)) PROVE Before(Key(x), Key(h))
  <2>1. Key(x) \in Keys /\ Key(g) \in Keys /\ Key(h) \in Keys
    BY BeforeTotal
  <2>2. QED
    BY <1>1, <2>1, BeforeTransitive
<1>2. QED
  BY <1>1, BeforeTotal DEF Preceding

\* What First leaves out comes after everything it takes.
LEMMA FirstIsPrefix ==
  ASSUME TypeOK, NEW S \in SUBSET Hits, NEW n \in Nat,
         NEW g \in First(S, n), NEW h \in S \ First(S, n)
  PROVE  Before(Key(g), Key(h))
<1>1. /\ g \in S /\ Cardinality(Preceding(S, g)) < n
      /\ ~(Cardinality(Preceding(S, h)) < n)
  BY DEF First, Preceding
<1>2. g # h
  OBVIOUS
<1>3. CASE Before(Key(h), Key(g))
  <2>1. Preceding(S, h) \in SUBSET Preceding(S, g)
    BY <1>1, <1>3, PrecedingGrows
  <2>2. /\ Cardinality(Preceding(S, h)) <= Cardinality(Preceding(S, g))
        /\ Cardinality(Preceding(S, h)) \in Nat /\ Cardinality(Preceding(S, g)) \in Nat
    BY <2>1, PrecedingFinite, FS_Subset
  <2>3. QED
    BY <1>1, <2>2
<1>4. QED
  BY <1>1, <1>2, <1>3, BeforeTotal

\* Some hit has as few as possible that do not come before it: the last one.
LEMMA LastExists ==
  ASSUME TypeOK, NEW S \in SUBSET Hits, S # {}
  PROVE  \E m \in S : IsLast(m, S)
<1> DEFINE Behind(h) == S \ Preceding(S, h)
           T == {Behind(h) : h \in S}
           R == StrictSubsetOrdering(S)
<1>1. IsFiniteSet(S)
  BY PrecedingFinite
<1>2. IsWellFoundedOn(R, SUBSET S)
  BY <1>1, FS_StrictSubsetOrderingWellFounded, FS_FiniteSubsetsOfFinite
<1>3. T \subseteq SUBSET S /\ T # {}
  OBVIOUS
<1> HIDE DEF T, R
<1>4. PICK t \in T : \A u \in T : ~(<<u, t>> \in R)
  BY <1>2, <1>3, WFMin
<1>5. PICK m \in S : t = Behind(m)
  BY DEF T
<1>6. \A h \in S : h = m \/ Before(Key(h), Key(m))
  <2> SUFFICES ASSUME NEW h \in S, Before(Key(m), Key(h)) PROVE FALSE
    BY BeforeTotal
  <2>1. /\ Preceding(S, m) \subseteq Preceding(S, h)
        /\ m \in Preceding(S, h) /\ m \notin Preceding(S, m)
    BY PrecedingGrows
  <2>2. Behind(h) \subseteq Behind(m) /\ Behind(h) # Behind(m)
    BY <2>1
  <2>3. <<Behind(h), Behind(m)>> \in R
    BY <2>2 DEF R, StrictSubsetOrdering
  <2>4. QED
    BY <1>4, <1>5, <2>3 DEF T
<1>7. QED
  BY <1>6 DEF IsLast

\* A page of n does not hold n + 1 hits.
LEMMA FirstIsBounded ==
  ASSUME TypeOK, NEW S \in SUBSET Hits, NEW n \in Nat, Cardinality(S) = n + 1
  PROVE  First(S, n) # S
<1>1. IsFiniteSet(S) /\ S # {}
  BY PrecedingFinite, FS_EmptySet
<1>2. PICK m \in S : IsLast(m, S)
  BY <1>1, LastExists
<1>3. Preceding(S, m) = S \ {m}
  BY <1>2, BeforeTotal DEF Preceding, IsLast
<1>4. Cardinality(Preceding(S, m)) = n
  BY <1>1, <1>3, FS_RemoveElement
<1>5. m \notin First(S, n)
  BY <1>4 DEF First, Preceding
<1>6. QED
  BY <1>5

----------------------------------------------------------------------------
\* What a request returns: the hits it leaves to the cursor come after it.
LEMMA AnswerShape ==
  ASSUME TypeOK, NEW H \in SUBSET Hits, NEW n \in Nat, Answer(H, n)
  PROVE  LET rest == AfterCursor(H)
             result == First(rest, n)
         IN /\ page' = {Key(h) : h \in result}
            /\ earlier' = earlier \cup page
            /\ \/ walk' = "done" /\ cursor' = NoCursor /\ result = rest
               \/ /\ walk' = "paging" /\ result # rest
                  /\ \E last \in result :
                       /\ cursor' = Key(last)
                       /\ \A h \in result : h = last \/ Before(Key(h), Key(last))
                       /\ \A h \in rest \ result : Before(Key(last), Key(h))
<1> DEFINE rest == AfterCursor(H)
           result == First(rest, n)
<1>1. rest \in SUBSET Hits
  BY DEF AfterCursor
<1>2. \A g \in result, h \in rest \ result : Before(Key(g), Key(h))
  BY <1>1, FirstIsPrefix
<1>3. QED
  BY <1>2 DEF Answer, HasMore, IsLast

LEMMA AnswerType ==
  ASSUME TypeOK, NEW H \in SUBSET Hits, NEW n \in Nat, Answer(H, n)
  PROVE  /\ page' \subseteq Keys /\ earlier' \subseteq Keys
         /\ cursor' \in Keys \cup {NoCursor}
         /\ walk' \in {"paging", "done"}
<1>1. \A h \in Hits : Key(h) \in Keys
  BY BeforeTotal
<1>2. First(AfterCursor(H), n) \subseteq Hits
  BY DEF First, AfterCursor
<1>3. QED
  BY <1>1, <1>2, AnswerShape DEF TypeOK

LEMMA TypeInductive ==
  ASSUME TypeOK, [Next]_vars
  PROVE  TypeOK'
<1>1. Current(Matching) \in SUBSET Hits
  BY DEF Current, Matching
<1>2. CASE FirstPageFull
  BY <1>1, <1>2, AnswerType, ConstantsAssumption DEF FirstPageFull, TypeOK, watcher
<1>3. CASE FirstPageTop
  <2>1. PICK n \in Limits : \E pool \in TopPools(Candidates(n)) :
          Answer(Current(pool), n) /\ pooled' = {Key(h) : h \in pool}
    BY <1>3 DEF FirstPageTop
  <2>2. PICK pool \in TopPools(Candidates(n)) :
          Answer(Current(pool), n) /\ pooled' = {Key(h) : h \in pool}
    BY <2>1
  <2>3. pool \in SUBSET Hits /\ Current(pool) \in SUBSET Hits /\ n \in Nat
    BY ConstantsAssumption DEF TopPools, Matching, Current
  <2>4. pooled' \subseteq Keys
    BY <2>2, <2>3, BeforeTotal
  <2>5. QED
    BY <1>1, <1>3, <2>2, <2>3, <2>4, AnswerType DEF FirstPageTop, TypeOK, watcher
<1>4. CASE NextPage
  BY <1>1, <1>4, AnswerType, ConstantsAssumption DEF NextPage, TypeOK, watcher
<1>5. CASE Poll
  <2>1. seen' \subseteq Hits
    BY <1>1, <1>5 DEF Poll, Written, First, TypeOK
  <2>2. CASE left = Forever
    BY <1>5, <2>1, <2>2 DEF Poll, TypeOK, walker
  <2>3. CASE left # Forever
    <3>1. left \in 1..MaxIterations
      BY <1>5, <2>3, ConstantsAssumption DEF Poll, TypeOK
    <3>2. left' = left - 1 /\ watching' = ~LastPoll
      BY <1>5, <2>3 DEF Poll
    <3>3. left' \in 0..MaxIterations /\ (left # 1 => left' # 0)
      BY <3>1, <3>2, ConstantsAssumption
    <3>4. watching' \in BOOLEAN /\ (watching' => left # 1)
      BY <3>2 DEF LastPoll
    <3>5. QED
      BY <1>5, <2>1, <3>3, <3>4 DEF Poll, TypeOK, walker
  <2>4. QED
    BY <2>2, <2>3
<1>6. CASE StopWatch
  BY <1>6 DEF StopWatch, TypeOK, walker
<1>7. CASE Shift
  BY <1>7, ConstantsAssumption DEF Shift, TypeOK, walker, watcher
<1>8. CASE UNCHANGED vars
  BY <1>8 DEF vars, TypeOK, walker, watcher
<1>9. QED
  BY <1>2, <1>3, <1>4, <1>5, <1>6, <1>7, <1>8 DEF Next

LEMMA TypeInit == Init => TypeOK
<1> SUFFICES ASSUME Init PROVE TypeOK
  OBVIOUS
<1>1. plain \in BOOLEAN /\ watching \in BOOLEAN
  BY DEF Init
<1>2. left \in 0..MaxIterations \cup {Forever} /\ (watching => left # 0)
  <2>1. CASE watching = FALSE /\ left = 0
    BY <2>1, ConstantsAssumption
  <2>2. CASE left \in 1..MaxIterations \cup {Forever}
    BY <2>2, ConstantsAssumption
  <2>3. QED
    BY <2>1, <2>2 DEF Init
<1>3. /\ score \in [Hits -> 0..MaxScore] /\ shifts \in 0..MaxShifts
      /\ walk \in {"none", "idle", "paging", "done"}
      /\ cursor \in Keys \cup {NoCursor} /\ seen \subseteq Hits
      /\ page \subseteq Keys /\ earlier \subseteq Keys /\ pooled \subseteq Keys
      /\ stable \subseteq Hits
  BY ConstantsAssumption DEF Init
<1>4. QED
  BY <1>1, <1>2, <1>3 DEF TypeOK

\* Every variable of the readers and of the result set keeps its type; in
\* particular a watching command that is still running has a poll left.
THEOREM PagingTypeCorrect == Spec => []TypeOK
  BY TypeInit, TypeInductive, PTL DEF Spec

----------------------------------------------------------------------------
\* A stable hit was delivered, or is still ahead of the cursor, or was left
\* out of the first pool for one of the two reasons a pool may leave it out.
Accounted(h) ==
  \/ Key(h) \in Delivered
  \/ walk = "paging" /\ Before(cursor, Key(h))
  \/ /\ plain /\ Key(h) \notin pooled
     /\ \/ \E k \in pooled : k.score = score[h]
        \/ walk = "done" /\ earlier = {} /\ \E k \in pooled : k.hit \in Hidden

\* The inductive invariant: the cursor is the last key that was delivered, and
\* every stable hit, which matches still, is accounted for.
PagingInv ==
  /\ PagesInOrder
  /\ walk \in {"none", "idle"} =>
       cursor = NoCursor /\ page = {} /\ earlier = {} /\ stable = {}
  /\ walk = "paging" =>
       cursor \in Keys /\ \A k \in Delivered : k = cursor \/ Before(k, cursor)
  /\ stable \subseteq Current(Matching)
  /\ \A h \in stable : Accounted(h)

\* On a first page there is no cursor yet, so a request looks at everything.
LEMMA FirstPageShape ==
  ASSUME TypeOK, PagingInv, walk = "idle",
         NEW H \in SUBSET Hits, NEW n \in Nat, Answer(H, n)
  PROVE  /\ page' = {Key(h) : h \in First(H, n)} /\ earlier' = {}
         /\ \/ walk' = "done" /\ cursor' = NoCursor /\ First(H, n) = H
            \/ /\ walk' = "paging" /\ First(H, n) # H
               /\ \E last \in First(H, n) :
                    /\ cursor' = Key(last)
                    /\ \A h \in First(H, n) : h = last \/ Before(Key(h), Key(last))
                    /\ \A h \in H \ First(H, n) : Before(Key(last), Key(h))
<1>1. AfterCursor(H) = H
  BY DEF AfterCursor, PagingInv
<1>2. earlier = {} /\ page = {}
  BY DEF PagingInv
<1>3. QED
  BY <1>1, <1>2, AnswerShape

\* What a first page leaves, whatever hits H it was taken from.
LEMMA FirstPageOrder ==
  ASSUME TypeOK, PagingInv, walk = "idle", UNCHANGED score,
         NEW H \in SUBSET Hits, NEW n \in Nat, Answer(H, n)
  PROVE  /\ PagesInOrder'
         /\ walk' \in {"paging", "done"}
         /\ walk' = "paging" =>
              cursor' \in Keys /\ \A k \in Delivered' : k = cursor' \/ Before(k, cursor')
         /\ \A h \in H : Key(h) \in Delivered' \/ (walk' = "paging" /\ Before(cursor', Key(h)))
<1>1. \A h \in Hits : Key(h) \in Keys
  BY BeforeTotal
<1>2. First(H, n) \subseteq H
  BY DEF First
<1>3. QED
  BY <1>1, <1>2, FirstPageShape DEF PagesInOrder, Delivered

LEMMA FullPageInductive ==
  ASSUME TypeOK, PagingInv, FirstPageFull
  PROVE  PagingInv'
<1>1. PICK n \in Limits : Answer(Current(Matching), n)
  BY DEF FirstPageFull
<1>2. n \in Nat /\ Current(Matching) \in SUBSET Hits
  BY ConstantsAssumption DEF Current, Matching
<1>3. walk = "idle" /\ score' = score /\ stable' = Current(Matching)
  BY DEF FirstPageFull
<1>4. /\ PagesInOrder'
      /\ walk' \in {"paging", "done"}
      /\ walk' = "paging" =>
           cursor' \in Keys /\ \A k \in Delivered' : k = cursor' \/ Before(k, cursor')
      /\ \A h \in Current(Matching) :
           Key(h) \in Delivered' \/ (walk' = "paging" /\ Before(cursor', Key(h)))
  BY <1>1, <1>2, <1>3, FirstPageOrder
<1>5. Current(Matching)' = Current(Matching) /\ \A h \in Hits : Key(h)' = Key(h)
  BY <1>3 DEF Current, Matching, Key
<1>6. \A h \in stable' : Accounted(h)'
  BY <1>2, <1>3, <1>4, <1>5 DEF Accounted
<1>7. QED
  BY <1>3, <1>4, <1>5, <1>6 DEF PagingInv

\* A pool of the index leaves out a matching hit only if all it holds score at
\* least as much, and then it is as large as it was asked to be.
LEMMA PoolShape ==
  ASSUME TypeOK, NEW m \in Nat, NEW pool \in TopPools(m), NEW h \in Matching \ pool
  PROVE  /\ \A g \in pool : score[g] >= score[h]
         /\ Cardinality(pool) = m
<1>1. pool \in SUBSET Matching /\ Matching \in SUBSET Hits
  BY DEF TopPools, Matching
<1>2. IsFiniteSet(Matching)
  BY <1>1, PrecedingFinite
<1>3. Cardinality(pool) # Cardinality(Matching)
  BY <1>1, <1>2, FS_Subset
<1>4. QED
  BY <1>3 DEF TopPools

LEMMA TopPageInductive ==
  ASSUME TypeOK, PagingInv, FirstPageTop
  PROVE  PagingInv'
<1>1. PICK n \in Limits : \E P \in TopPools(Candidates(n)) :
        Answer(Current(P), n) /\ pooled' = {Key(h) : h \in P}
  BY DEF FirstPageTop
<1>2. PICK pool \in TopPools(Candidates(n)) :
        Answer(Current(pool), n) /\ pooled' = {Key(h) : h \in pool}
  BY <1>1
<1>3. /\ n \in Nat /\ Candidates(n) = n + 1
      /\ pool \in SUBSET Hits /\ Current(pool) \in SUBSET Hits
      /\ Current(Matching) \in SUBSET Hits
  BY ConstantsAssumption DEF TopPools, Matching, Current, Candidates
<1>4. walk = "idle" /\ score' = score /\ plain' = TRUE /\ stable' = Current(Matching)
  BY DEF FirstPageTop
<1>5. /\ PagesInOrder'
      /\ walk' \in {"paging", "done"}
      /\ walk' = "paging" =>
           cursor' \in Keys /\ \A k \in Delivered' : k = cursor' \/ Before(k, cursor')
      /\ \A h \in Current(pool) :
           Key(h) \in Delivered' \/ (walk' = "paging" /\ Before(cursor', Key(h)))
  BY <1>2, <1>3, <1>4, FirstPageOrder
<1>6. Current(Matching)' = Current(Matching) /\ \A h \in Hits : Key(h)' = Key(h)
  BY <1>4 DEF Current, Matching, Key
<1>7. ASSUME NEW h \in Current(Matching) PROVE Accounted(h)'
  <2>1. CASE h \in pool
    BY <1>3, <1>5, <1>6, <2>1 DEF Accounted, Current
  <2>2. CASE h \notin pool
    <3>1. /\ \A g \in pool : score[g] >= score[h]
          /\ Cardinality(pool) = n + 1
      BY <1>3, <2>2, PoolShape DEF Current
    <3>2. Key(h) \notin pooled'
      BY <1>2, <2>2 DEF Key
    <3>3. CASE \E g \in pool : score[g] = score[h]
      <4>1. PICK g \in pool : score[g] = score[h]
        BY <3>3
      <4>2. Key(g) \in pooled' /\ Key(g).score = score[h]
        BY <1>2, <4>1 DEF Key
      <4>3. \E k \in pooled' : k.score = score'[h]
        BY <1>4, <4>2
      <4>4. QED
        BY <1>3, <1>4, <1>6, <3>2, <4>3 DEF Accounted
    <3>4. CASE \A g \in pool : score[g] # score[h]
      <4>1. \A g \in pool : Before(Key(g), Key(h))
        BY <1>3, <3>1, <3>4 DEF Before, Key, TypeOK
      <4>2. CASE walk' = "paging"
        <5>1. \E last \in First(Current(pool), n) : cursor' = Key(last)
          BY <1>2, <1>3, <1>4, <4>2, FirstPageShape
        <5>2. Before(cursor', Key(h))
          BY <4>1, <5>1 DEF First, Current
        <5>3. QED
          BY <1>3, <1>6, <4>2, <5>2 DEF Accounted
      <4>3. CASE walk' = "done"
        <5>1. First(Current(pool), n) = Current(pool) /\ earlier' = {}
          BY <1>2, <1>3, <1>4, <4>3, FirstPageShape
        <5>2. Current(pool) # pool
          BY <1>3, <3>1, <5>1, FirstIsBounded
        <5>3. PICK g \in pool : g \in Hidden
          BY <5>2 DEF Current
        <5>4. Key(g) \in pooled' /\ Key(g).hit \in Hidden
          BY <1>2, <5>3 DEF Key
        <5>5. \E k \in pooled' : k.hit \in Hidden
          BY <5>4
        <5>6. QED
          BY <1>3, <1>4, <1>6, <3>2, <4>3, <5>1, <5>5 DEF Accounted
      <4>4. QED
        BY <1>5, <4>2, <4>3
    <3>5. QED
      BY <3>3, <3>4
  <2>3. QED
    BY <2>1, <2>2
<1>8. QED
  BY <1>4, <1>5, <1>6, <1>7 DEF PagingInv

\* A page that continues looks at what is behind the cursor, so it comes after
\* all earlier ones, and it passes over no stable hit.
LEMMA NextPageInductive ==
  ASSUME TypeOK, PagingInv, NextPage
  PROVE  PagingInv'
<1> DEFINE hits == Current(Matching)
           rest == AfterCursor(hits)
<1>1. PICK n \in Limits : Answer(hits, n)
  BY DEF NextPage
<1> DEFINE result == First(rest, n)
<1>2. n \in Nat /\ hits \in SUBSET Hits
  BY ConstantsAssumption DEF Current, Matching
<1>3. walk = "paging" /\ UNCHANGED <<score, plain, pooled, stable>>
  BY DEF NextPage
<1>4. /\ page' = {Key(h) : h \in result}
      /\ earlier' = earlier \cup page
      /\ \/ walk' = "done" /\ cursor' = NoCursor /\ result = rest
         \/ /\ walk' = "paging" /\ result # rest
            /\ \E last \in result :
                 /\ cursor' = Key(last)
                 /\ \A h \in result : h = last \/ Before(Key(h), Key(last))
                 /\ \A h \in rest \ result : Before(Key(last), Key(h))
  BY <1>1, <1>2, AnswerShape
<1>5. cursor \in Keys /\ \A k \in Delivered : k = cursor \/ Before(k, cursor)
  BY <1>3 DEF PagingInv
<1>6. \A h \in result : h \in Hits /\ Key(h) \in Keys /\ Before(cursor, Key(h))
  BY <1>2, <1>5, BeforeTotal, ConstantsAssumption DEF First, AfterCursor, Keys
<1>7. \A h \in result : \A k \in Delivered : Before(k, Key(h))
  <2> SUFFICES ASSUME NEW h \in result, NEW k \in Delivered PROVE Before(k, Key(h))
    OBVIOUS
  <2>1. k \in Keys
    BY DEF Delivered, TypeOK
  <2>2. QED
    BY <1>5, <1>6, <2>1, BeforeTransitive
<1>8. earlier' = Delivered
  BY <1>4 DEF Delivered
<1> HIDE DEF hits, rest, result
<1>9. PagesInOrder'
  BY <1>4, <1>7, <1>8 DEF PagesInOrder
<1>10. walk' = "paging" =>
         cursor' \in Keys /\ \A k \in Delivered' : k = cursor' \/ Before(k, cursor')
  <2> SUFFICES ASSUME walk' = "paging", NEW k \in Delivered'
               PROVE  cursor' \in Keys /\ (k = cursor' \/ Before(k, cursor'))
    BY <1>4, <1>6
  <2>1. PICK last \in result :
          cursor' = Key(last) /\ \A h \in result : h = last \/ Before(Key(h), Key(last))
    BY <1>4
  <2>2. k \in Delivered \/ \E h \in result : k = Key(h)
    BY <1>4, <1>8 DEF Delivered
  <2>3. QED
    BY <1>6, <1>7, <2>1, <2>2
<1>11. hits' = hits /\ \A h \in Hits : Key(h)' = Key(h)
  BY <1>3 DEF hits, Current, Matching, Key
<1>12. ASSUME NEW h \in stable PROVE Accounted(h)'
  <2>1. h \in Hits /\ h \in hits /\ Key(h)' = Key(h) /\ score'[h] = score[h]
    BY <1>2, <1>3, <1>11 DEF PagingInv, hits
  <2>2. CASE Key(h) \in Delivered
    BY <1>8, <2>1, <2>2 DEF Accounted, Delivered
  <2>3. CASE Before(cursor, Key(h))
    <3>1. h \in rest
      BY <2>1, <2>3 DEF rest, AfterCursor
    <3>2. CASE h \in result
      BY <1>4, <2>1, <3>2 DEF Accounted, Delivered
    <3>3. CASE h \notin result
      BY <1>4, <2>1, <3>1, <3>3 DEF Accounted
    <3>4. QED
      BY <3>2, <3>3
  <2>4. CASE plain /\ Key(h) \notin pooled /\ \E k \in pooled : k.score = score[h]
    BY <1>3, <2>1, <2>4 DEF Accounted
  <2>5. QED
    BY <1>3, <2>2, <2>3, <2>4 DEF PagingInv, Accounted
<1>13. QED
  BY <1>3, <1>4, <1>9, <1>10, <1>11, <1>12 DEF PagingInv, hits

\* A change of the result set leaves what is stable where it was.
LEMMA ShiftInductive ==
  ASSUME TypeOK, PagingInv, Shift
  PROVE  PagingInv'
<1>1. UNCHANGED <<walk, plain, cursor, page, earlier, pooled>>
  BY DEF Shift, walker
<1>2. stable' = {h \in stable : score'[h] = score[h]}
  BY DEF Shift
<1>3. stable' \subseteq Current(Matching)'
  BY <1>2 DEF PagingInv, Current, Matching
<1>4. \A h \in stable' : Accounted(h)'
  BY <1>1, <1>2 DEF PagingInv, Accounted, Key, Delivered
<1>5. PagesInOrder'
  BY <1>1 DEF PagingInv, PagesInOrder
<1>6. QED
  BY <1>1, <1>2, <1>3, <1>4, <1>5 DEF PagingInv, Delivered

LEMMA PagingInductive ==
  ASSUME TypeOK, PagingInv, [Next]_vars
  PROVE  PagingInv'
<1>1. CASE UNCHANGED <<score, stable, walker>>
  BY <1>1 DEF walker, PagingInv, PagesInOrder, Accounted, Delivered, Current, Matching, Key
<1>2. Poll \/ StopWatch \/ UNCHANGED vars => UNCHANGED <<score, stable, walker>>
  BY DEF Poll, StopWatch, vars
<1>3. QED
  BY <1>1, <1>2, FullPageInductive, TopPageInductive, NextPageInductive, ShiftInductive
  DEF Next

LEMMA PagingInit == Init => PagingInv
  BY DEF Init, PagingInv, PagesInOrder

\* The invariant behind the two theorems on skipping.
THEOREM PagingCorrect == Spec => []PagingInv
<1>1. Init => TypeOK /\ PagingInv
  BY TypeInit, PagingInit
<1>2. TypeOK /\ PagingInv /\ [Next]_vars => (TypeOK /\ PagingInv)'
  BY TypeInductive, PagingInductive
<1>3. QED
  BY <1>1, <1>2, PTL DEF Spec

\* Each page lies behind all pages before it, so a hit is repeated only if it
\* has fallen in between.
THEOREM InOrderCorrect == Spec => []PagesInOrder
<1>1. PagingInv => PagesInOrder
  BY DEF PagingInv
<1>2. QED
  BY <1>1, PagingCorrect, PTL

\* A fully collected walk that ends has delivered every stable hit.
THEOREM NothingSkippedCorrect == Spec => []NothingSkipped
<1>1. PagingInv => NothingSkipped
  BY DEF PagingInv, NothingSkipped, Accounted
<1>2. QED
  BY <1>1, PagingCorrect, PTL

\* A plain search that ends has lost at most hits at the cut of its first page.
THEOREM CutCorrect == Spec => []SkippedOnlyAtTheCut
<1>1. PagingInv => SkippedOnlyAtTheCut
  BY DEF PagingInv, SkippedOnlyAtTheCut, Accounted
<1>2. QED
  BY <1>1, PagingCorrect, PTL
=============================================================================
