---------------------------- MODULE TuiAppProofs ----------------------------
(***************************************************************************)
(* Proof about TuiApp for any number of sessions, any queries, any filter  *)
(* rows and any answers of the index: the list is what the screen says it  *)
(* is.  The two halves of the claim share no variable but `ready`.         *)
(***************************************************************************)
EXTENDS TuiApp, AlgorithmProofs, FiniteSetTheorems, FunctionTheorems, TLAPS

\* Before the index is ready there are neither results nor resolved filters.
ResultsInv ==
  /\ ResultsMatchQuery
  /\ results.on => ready
  /\ results.on /\ ~pending => Hits[engine][query] # Failed

Shape ==
  \E hidden, project, role, tool, starred :
    filter = [hidden |-> hidden, project |-> project, role |-> role, tool |-> tool,
              starred |-> starred]
MatchedInv == Shape /\ MessageFilterApplied /\ (matched.on => ready)

(***************************************************************************)
(* Results and query.                                                      *)
(***************************************************************************)
LEMMA ExecuteSearchMatches ==
  ASSUME ResultsInv, ExecuteSearch, UNCHANGED <<query, ready>>
  PROVE  ResultsInv'
<1>1. CASE query = 0
  BY <1>1 DEF ExecuteSearch, ResultsInv, ResultsMatchQuery, Off
<1>2. CASE query # 0 /\ ~ready
  BY <1>2 DEF ExecuteSearch, ResultsInv, ResultsMatchQuery
<1>3. CASE query # 0 /\ ready
  BY <1>3 DEF ExecuteSearch, Engine, ResultsInv, ResultsMatchQuery, Off
<1>4. QED
  BY <1>1, <1>2, <1>3

LEMMA ResultsStep ==
  ResultsInv /\ [Next]_vars => ResultsInv'
<1> SUFFICES ASSUME ResultsInv, [Next]_vars PROVE ResultsInv'
  OBVIOUS
<1>1. CASE UNCHANGED <<search, ready>> \/ (UNCHANGED search /\ ready')
  BY <1>1 DEF search, ResultsInv, ResultsMatchQuery
<1>2. CASE Tick
  <2>1. CASE ExecuteSearch
    BY <1>2, <2>1, ExecuteSearchMatches DEF Tick, background
  <2>2. CASE UNCHANGED <<pending, results, engine>>
    BY <1>2, <2>2, <1>1 DEF Tick, search, background
  <2>3. QED
    <3>1. ExecuteSearch \/ UNCHANGED <<pending, results, engine>>
      BY <1>2 DEF Tick
    <3>2. QED
      BY <2>1, <2>2, <3>1
<1>3. CASE SearchStart \/ SearchCancel
  BY <1>3 DEF SearchStart, SearchCancel, Drop, Off, ResultsInv, ResultsMatchQuery
<1>4. CASE SearchInput \/ SearchBackspace
  BY <1>4 DEF SearchInput, SearchBackspace, Key, Queue, background, ResultsInv, ResultsMatchQuery
<1>5. CASE ToggleHybrid
  <2>1. CASE ExecuteSearch
    BY <1>5, <2>1, ExecuteSearchMatches DEF ToggleHybrid, Key, background
  <2>2. CASE UNCHANGED hybrid /\ UNCHANGED <<pending, results, engine>>
    BY <1>1, <1>5, <2>2 DEF ToggleHybrid, Key, search, background
  <2>3. CASE query = 0 /\ UNCHANGED <<pending, results>>
    BY <1>5, <2>3 DEF ToggleHybrid, Key, background, ResultsInv, ResultsMatchQuery
  <2>4. QED
    BY <1>5, <2>1, <2>2, <2>3 DEF ToggleHybrid
<1>6. CASE SelectSession
  <2>1. CASE ExecuteSearch
    BY <1>6, <2>1, ExecuteSearchMatches DEF SelectSession, Key, background
  <2>2. CASE UNCHANGED <<pending, results, engine>>
    BY <1>1, <1>6, <2>2 DEF SelectSession, Key, search, background
  <2>3. QED
    BY <1>6, <2>1, <2>2 DEF SelectSession, Flush
<1>7. CASE Receive
  BY <1>1, <1>7 DEF Receive, ResultsInv, search, ResultsMatchQuery
<1>8. CASE UNCHANGED vars \/ IndexingThread \/ Exited
  BY <1>1, <1>8 DEF IndexingThread, Send, Exited, vars, search
<1>9. CASE Draw \/ NoKey \/ Quit
  BY <1>1, <1>9 DEF Draw, NoKey, Quit, Key, background
<1>10. CASE NextItem \/ PrevItem \/ GoToTop \/ GoToBottom \/ ToggleStar \/ ToggleStarUnsaved
  BY <1>1, <1>10 DEF NextItem, PrevItem, GoToTop, GoToBottom, ToggleStar, ToggleStarUnsaved, Move,
     Key, background
<1>11. CASE BackToList \/ ExportStart \/ ExportCancel \/ ExportConfirm \/ ToggleHelp
  BY <1>1, <1>11 DEF BackToList, ExportStart, ExportCancel, ExportConfirm, ToggleHelp, Go, Key,
     background
<1>12. CASE \/ ToggleFilter \/ FilterNext \/ FilterPrev \/ FilterToggle
            \/ FilterEdit \/ FilterEditDone \/ FilterInput \/ FilterBackspace
  BY <1>1, <1>12 DEF ToggleFilter, FilterNext, FilterPrev, FilterMove, FilterToggle, FilterEdit,
     FilterEditDone, FilterInput, FilterBackspace, FieldEdited, Key, background
<1>13. QED
  BY <1>2, <1>3, <1>4, <1>5, <1>6, <1>7, <1>8, <1>9, <1>10, <1>11, <1>12 DEF Next

(***************************************************************************)
(* The message filter.                                                     *)
(***************************************************************************)
LEMMA RecomputedOn ==
  ASSUME NEW f, HasMessageFilter(f)
  PROVE  Recomputed(f, TRUE).on = TRUE
<1>1. PICK ids : Recomputed(f, TRUE) = [on |-> TRUE, ids |-> ids]
  BY Zenon DEF Recomputed
<1>2. \A r : r = [on |-> TRUE, ids |-> ids] => r.on = TRUE
  OBVIOUS
<1>3. QED
  BY <1>1, <1>2, Zenon

LEMMA ToggledRest ==
  ASSUME Shape, NEW r, r \notin {"role", "tool"}
  PROVE  Toggled(filter, r).role = filter.role /\ Toggled(filter, r).tool = filter.tool
BY DEF Shape, Toggled

LEMMA ToggledShape ==
  ASSUME Shape, NEW r, filter' = Toggled(filter, r)
  PROVE  Shape'
<1>1. PICK hidden, project, role, tool, starred :
        filter = [hidden |-> hidden, project |-> project, role |-> role, tool |-> tool,
                  starred |-> starred]
  BY DEF Shape
<1>2. \/ filter' = filter
      \/ \E h : filter' = [filter EXCEPT !.hidden = h]
      \/ \E x : filter' = [filter EXCEPT !.role = x]
      \/ \E x : filter' = [filter EXCEPT !.tool = x]
      \/ \E x : filter' = [filter EXCEPT !.starred = x]
  <2>1. CASE r \in ProviderRows
    BY <2>1 DEF Toggled, ProviderRows, ValueRows
  <2>2. CASE r \notin ProviderRows
    BY <2>2 DEF Toggled
  <2>3. QED
    BY <2>1, <2>2
<1>3. QED
  BY <1>1, <1>2 DEF Shape

LEMMA MatchedStep ==
  MatchedInv /\ [Next]_vars => MatchedInv'
<1> SUFFICES ASSUME MatchedInv, [Next]_vars PROVE MatchedInv'
  OBVIOUS
<1>1. CASE UNCHANGED <<filter, matched, ready>>
  BY <1>1 DEF MatchedInv, Shape, MessageFilterApplied, HasMessageFilter, Recomputed
<1>2. CASE Receive
  <2>1. CASE ~ready /\ ready'
    <3>1. filter' = filter /\ matched' = Resolved /\ ~matched.on
      BY <1>2, <2>1 DEF Receive, MatchedInv
    <3>2. QED
      BY <2>1, <3>1 DEF MatchedInv, Shape, MessageFilterApplied, HasMessageFilter, Recomputed, Resolved
  <2>2. CASE ready
    <3>1. filter' = filter /\ ready' /\ matched' \in {matched, Resolved}
      BY <1>2, <2>2 DEF Receive
    <3>2. HasMessageFilter(filter) => matched.on = TRUE
      BY <2>2, RecomputedOn DEF MatchedInv, MessageFilterApplied
    <3>3. matched' = matched
      BY <3>1, <3>2 DEF Resolved
    <3>4. QED
      BY <2>2, <3>1, <3>3 DEF MatchedInv, Shape, MessageFilterApplied, HasMessageFilter, Recomputed
  <2>3. CASE ~ready /\ ~ready'
    <3>1. filter' = filter /\ matched' = matched
      BY <1>2, <2>3 DEF Receive
    <3>2. QED
      BY <2>3, <3>1 DEF MatchedInv, Shape, MessageFilterApplied
  <2>4. QED
    BY <2>1, <2>2, <2>3
<1>3. CASE FilterToggle
  <2>1. Shape' /\ ready' = ready
    BY <1>3, ToggledShape DEF FilterToggle, Key, background, MatchedInv
  <2>2. CASE Rows[row] \in {"role", "tool"}
    BY <1>3, <2>1, <2>2 DEF FilterToggle, MatchedInv, MessageFilterApplied, HasMessageFilter,
       Recomputed, Unmatched
  <2>3. CASE Rows[row] \notin {"role", "tool"}
    <3>1. filter'.role = filter.role /\ filter'.tool = filter.tool /\ matched' = matched
      BY <1>3, <2>3, ToggledRest DEF FilterToggle, MatchedInv
    <3>2. QED
      BY <2>1, <3>1 DEF MatchedInv, MessageFilterApplied, HasMessageFilter, Recomputed
  <2>4. QED
    BY <2>2, <2>3
<1>4. ASSUME NEW a, NEW n, FieldEdited(a, n) PROVE MatchedInv'
  <2>1. ready' = ready /\ matched' = matched
        /\ (filter' = filter \/ filter' = [filter EXCEPT !.project = n])
    BY <1>4 DEF FieldEdited, Key, background
  <2>2. Shape' /\ filter'.role = filter.role /\ filter'.tool = filter.tool
    BY <2>1 DEF MatchedInv, Shape
  <2>3. QED
    BY <2>1, <2>2 DEF MatchedInv, MessageFilterApplied, HasMessageFilter, Recomputed
<1>5. CASE \/ UNCHANGED vars \/ IndexingThread \/ Exited \/ Draw \/ NoKey \/ Quit \/ Tick
           \/ SearchStart \/ SearchInput \/ SearchBackspace \/ SearchCancel \/ ToggleHybrid
           \/ SelectSession
  BY <1>1, <1>5 DEF vars, IndexingThread, Send, Exited, Draw, NoKey, Quit, Tick, SearchStart,
     SearchInput, SearchBackspace, SearchCancel, ToggleHybrid, SelectSession, Key, background, panel
<1>6. CASE \/ NextItem \/ PrevItem \/ GoToTop \/ GoToBottom \/ ToggleStar \/ ToggleStarUnsaved
           \/ BackToList \/ ExportStart \/ ExportCancel \/ ExportConfirm \/ ToggleHelp
           \/ ToggleFilter \/ FilterNext \/ FilterPrev \/ FilterEdit \/ FilterEditDone
  <2>1. UNCHANGED <<filter, matched, ready>>
    BY <1>6 DEF NextItem, PrevItem, GoToTop, GoToBottom, ToggleStar, ToggleStarUnsaved, Move,
       BackToList, ExportStart, ExportCancel, ExportConfirm, ToggleHelp, Go, ToggleFilter, FilterNext,
       FilterPrev, FilterMove, FilterEdit, FilterEditDone, Key, background, panel
  <2>2. QED
    BY <1>1, <2>1
<1>7. CASE FilterInput \/ FilterBackspace
  BY <1>4, <1>7, Zenon DEF FilterInput, FilterBackspace
<1>8. QED
  BY <1>2, <1>3, <1>5, <1>6, <1>7 DEF Next

LEMMA ListInit == Init => ResultsInv /\ MatchedInv
<1>1. ASSUME Init PROVE ResultsInv
  BY <1>1 DEF Init, ResultsInv, ResultsMatchQuery, Off
<1>2. ASSUME Init PROVE Shape
  BY <1>2 DEF Init, Shape, NoFilter
<1>3. ASSUME Init PROVE MessageFilterApplied /\ ~matched.on
  BY <1>3 DEF Init, Unmatched, MessageFilterApplied
<1>4. QED
  BY <1>1, <1>2, <1>3 DEF MatchedInv

\* The results on screen are those of the query, the hybrid toggle and the engine
\* label, unless a queued search is about to replace them, and a ready index is
\* asked for the message filter (app/search.rs).
THEOREM ListCorrect == Spec => []ListIsCurrent
<1>1. ResultsInv /\ MatchedInv => ListIsCurrent
  BY DEF ResultsInv, MatchedInv, ListIsCurrent
<1>2. QED
  BY <1>1, ListInit, ResultsStep, MatchedStep, PTL DEF Spec
(***************************************************************************)
(* The visible list: a sequence of sessions, no longer than the list of    *)
(* all sessions, empty exactly when no session of its base passes.         *)
(***************************************************************************)
Numbers == {Count, MaxQuery, MaxProject, MaxChan, MaxStars, CacheSize} \subseteq Nat

LEMMA NumbersAre == Numbers /\ MaxStars # 0 /\ CacheSize # 0
BY TuiAssumption DEF Numbers

LEMMA HitsTyped ==
  ASSUME NEW e \in {"lexical", "hybrid"}, NEW n \in 1 .. MaxQuery, Hits[e][n] # Failed
  PROVE  Hits[e][n] \in Seq(Sessions) /\ Len(Hits[e][n]) <= Count
<1> DEFINE found == Hits[e][n]
<1>1. found \in Seq(Sessions) /\ IsInjective(found)
  BY TuiAssumption
<1> HIDE DEF found
<1>2. found \in [1 .. Len(found) -> Sessions] /\ Len(found) \in Nat /\ DOMAIN found = 1 .. Len(found)
  BY <1>1, LenProperties
<1>3. found \in Injection(1 .. Len(found), Sessions)
  BY <1>1, <1>2, Fun_IsInj DEF IsInjective
<1>4. IsFiniteSet(Sessions) /\ Cardinality(Sessions) = Count
  BY NumbersAre, FS_Interval, SMTT(30) DEF Numbers, Sessions
<1>5. Cardinality(1 .. Len(found)) = Len(found)
  <2>1. Cardinality(1 .. Len(found)) = IF 1 > Len(found) THEN 0 ELSE Len(found) - 1 + 1
    <3>1. 1 \in Int /\ Len(found) \in Int
      BY <1>2
    <3>2. QED
      BY <3>1, FS_Interval, Zenon
  <2>2. QED
    BY <1>2, <2>1
<1>6. Len(found) <= Count
  BY <1>3, <1>4, <1>5, FS_Injection
<1>7. QED
  BY <1>1, <1>6 DEF found

AllTyped == All \in Seq(Sessions) /\ Len(All) = Count

LEMMA AllIs == AllTyped
<1>1. All \in [1 .. Count -> Sessions] /\ Count \in Nat
  BY NumbersAre DEF All, Sessions, Numbers
<1>2. QED
  BY <1>1 DEF AllTyped

ResultsTyped ==
  /\ results \in [on : BOOLEAN, ids : Seq(Sessions)]
  /\ Len(results.ids) <= Count

LEMMA BaseTyped ==
  ASSUME ResultsTyped
  PROVE  Base \in Seq(Sessions) /\ Len(Base) <= Count
BY AllIs, NumbersAre DEF ResultsTyped, Base, AllTyped, Numbers

\* What picking from a base of the list gives.
IsList(shown, base, I) ==
  /\ shown \in Seq(Sessions) /\ Len(shown) \in 0 .. Count
  /\ shown = <<>> <=> (1 .. Len(base)) \cap I = {}

LEMMA PickedIsList ==
  ASSUME NEW base \in Seq(Sessions), Len(base) <= Count, NEW I
  PROVE  IsList(Picked(base, I), base, I)
<1> DEFINE shown == Picked(base, I)
<1>1. Picks(shown, base, I, Len(base), Sessions)
  BY PickedIs
<1> HIDE DEF shown
<1>2. shown \in Seq(Sessions) /\ Len(shown) \in Nat /\ Len(base) \in Nat
  BY <1>1, LenProperties DEF Picks
<1>3. Len(shown) \in 0 .. Count
  BY <1>1, <1>2, NumbersAre DEF Numbers, Picks
<1>4. shown = <<>> <=> 1 .. Len(shown) = {}
  <2>1. shown # <<>> => Len(shown) # 0
    BY <1>2, EmptySeq, Zenon
  <2>2. shown = <<>> => Len(shown) = 0
    OBVIOUS
  <2>3. Len(shown) = 0 <=> 1 .. Len(shown) = {}
    <3>1. Len(shown) # 0 => 1 \in 1 .. Len(shown)
      BY <1>2
    <3>2. ASSUME Len(shown) = 0, NEW x \in 1 .. Len(shown) PROVE FALSE
      BY <3>2
    <3>3. QED
      BY <3>1, <3>2
  <2>4. QED
    BY <2>1, <2>2, <2>3
<1>5. 1 .. Len(shown) = {} <=> (1 .. Len(base)) \cap I = {}
  BY <1>1 DEF Picks
<1>6. QED
  BY <1>2, <1>3, <1>4, <1>5 DEF IsList, shown

\* The positions of the base whose session passes.
Passing == {i \in DOMAIN Base : Passes(Base[i])}

LEMMA DisplayIs ==
  ASSUME ResultsTyped
  PROVE  /\ Display \in Seq(Sessions) /\ Len(Display) \in 0 .. Count
         /\ Display = <<>> <=> Passing = {}
<1>1. Base \in Seq(Sessions) /\ Len(Base) <= Count
  BY BaseTyped
<1>2. DOMAIN Base = 1 .. Len(Base)
  BY <1>1, LenProperties
<1>3. IsList(Picked(Base, Passing), Base, Passing)
  BY <1>1, PickedIsList
<1>4. Display = Picked(Base, Passing)
  BY DEF Display, Passing
<1>5. (1 .. Len(Base)) \cap Passing = Passing
  BY <1>2 DEF Passing
<1>6. QED
  BY <1>3, <1>4, <1>5 DEF IsList

LEMMA DisplayThen ==
  ASSUME ResultsTyped'
  PROVE  /\ Display' \in Seq(Sessions) /\ Len(Display)' \in 0 .. Count
         /\ Display' = <<>> <=> Passing' = {}
<1>1. Base' \in Seq(Sessions) /\ Len(Base)' <= Count
  BY AllIs, NumbersAre DEF ResultsTyped, Base, AllTyped, Numbers
<1>2. DOMAIN Base' = 1 .. Len(Base')
  BY <1>1, LenProperties
<1>3. IsList(Picked(Base', Passing'), Base', Passing')
  BY <1>1, PickedIsList
<1>4. Display' = Picked(Base', Passing')
  BY DEF Display, Passing
<1>5. (1 .. Len(Base')) \cap Passing' = Passing'
  BY <1>2 DEF Passing
<1>6. QED
  BY <1>3, <1>4, <1>5 DEF IsList

LEMMA FocusedIs ==
  ASSUME ResultsTyped, selected \in Nat
  PROVE  /\ Focused \in Sessions \cup {0}
         /\ Focused # 0 <=> selected \in 1 .. Len(Display)
<1>1. \A j \in 1 .. Len(Display) : Display[j] \in Sessions
  BY DisplayIs, ElementOfSeq
<1>2. 0 \notin Sessions
  BY NumbersAre DEF Sessions, Numbers
<1>3. QED
  BY <1>1, <1>2 DEF Focused

(***************************************************************************)
(* The message cache: entries of different sessions, at most CacheSize.    *)
(***************************************************************************)
Cached(c) == c \in Seq(Readable) /\ Len(c) <= CacheSize /\ IsInjective(c)

LEMMA CachedRange ==
  ASSUME NEW c, Cached(c)
  PROVE  Range(c) = {c[i] : i \in 1 .. Len(c)} /\ Range(c) \subseteq Readable
BY LenProperties, ElementOfSeq DEF Cached, Range

LEMMA LoadedCached ==
  ASSUME NEW c, Cached(c), NEW s
  PROVE  Cached(Loaded(c, s)) /\ (s \in Range(c) => Loaded(c, s) = c)
<1>1. CASE s \notin Readable \/ s \in Range(c)
  BY <1>1 DEF Loaded
<1>2. CASE s \in Readable /\ s \notin Range(c)
  <2> DEFINE long == <<s>> \o c
             n == IF Len(c) < CacheSize THEN Len(c) + 1 ELSE CacheSize
  <2>1. c \in Seq(Readable) /\ Len(c) \in Nat /\ <<s>> \in Seq(Readable) /\ Len(<<s>>) = 1
    BY <1>2, LenProperties DEF Cached
  <2>2. /\ long \in Seq(Readable) /\ Len(long) = Len(c) + 1
        /\ \A i \in 1 .. Len(c) + 1 : long[i] = IF i = 1 THEN s ELSE c[i - 1]
    BY <2>1, ConcatProperties
  <2>3. n \in Nat /\ n <= Len(c) + 1 /\ n <= CacheSize /\ n >= 1
    BY <2>1, NumbersAre DEF Numbers, Cached
  <2> HIDE DEF long, n
  <2>4. \A i \in 1 .. n : long[i] \in Readable
    BY <2>1, <2>2, <2>3, ElementOfSeq
  <2>5. /\ SubSeq(long, 1, n) \in Seq(Readable) /\ Len(SubSeq(long, 1, n)) = n
        /\ \A i \in 1 .. n : SubSeq(long, 1, n)[i] = long[i]
    BY <2>3, <2>4
  <2>6. \A i \in 1 .. Len(c) : c[i] # s
    BY <1>2, CachedRange
  <2>7. \A i, j \in 1 .. Len(c) : c[i] = c[j] => i = j
    BY <2>1 DEF Cached, IsInjective
  <2>8. \A i, j \in 1 .. n : long[i] = long[j] => i = j
    <3> SUFFICES ASSUME NEW i \in 1 .. n, NEW j \in 1 .. n, long[i] = long[j], i # j PROVE FALSE
      OBVIOUS
    <3>1. \A x \in 1 .. n : IF x = 1 THEN long[x] = s ELSE x - 1 \in 1 .. Len(c) /\ long[x] = c[x - 1]
      BY <2>1, <2>2, <2>3
    <3>2. CASE i = 1 \/ j = 1
      BY <2>6, <3>1, <3>2
    <3>3. CASE i # 1 /\ j # 1
      <4>1. i - 1 = j - 1
        BY <2>7, <3>1, <3>3
      <4>2. QED
        BY <2>3, <4>1
    <3>4. QED
      BY <3>2, <3>3
  <2>9. IsInjective(SubSeq(long, 1, n))
    <3>1. DOMAIN SubSeq(long, 1, n) = 1 .. n
      BY <2>5, LenProperties
    <3>2. QED
      BY <2>5, <2>8, <3>1 DEF IsInjective
  <2>10. Loaded(c, s) = SubSeq(long, 1, n)
    BY <1>2 DEF Loaded, long, n
  <2>11. QED
    BY <1>2, <2>3, <2>5, <2>9, <2>10 DEF Cached
<1>3. QED
  BY <1>1, <1>2

LEMMA TouchedCached ==
  ASSUME NEW c, Cached(c), NEW s
  PROVE  Cached(Touched(c, s)) /\ Range(Touched(c, s)) = Range(c)
<1>1. CASE s \notin Range(c)
  BY <1>1 DEF Touched
<1>2. CASE s \in Range(c)
  <2> DEFINE k == CHOOSE k \in DOMAIN c : c[k] = s
             d == [i \in DOMAIN c |-> IF i = 1 THEN s ELSE IF i <= k THEN c[i - 1] ELSE c[i]]
  <2>1. c \in Seq(Readable) /\ Len(c) \in Nat /\ DOMAIN c = 1 .. Len(c)
    BY LenProperties DEF Cached
  <2>2. k \in 1 .. Len(c) /\ c[k] = s
    BY <1>2, <2>1 DEF Range
  <2>3. \A i, j \in 1 .. Len(c) : c[i] = c[j] => i = j
    BY <2>1 DEF Cached, IsInjective
  <2>4. Touched(c, s) = d
    BY <1>2 DEF Touched
  <2> HIDE DEF k
  <2>5. \A i \in 1 .. Len(c) : d[i] = IF i = 1 THEN s ELSE IF i <= k THEN c[i - 1] ELSE c[i]
    BY <2>1
  <2>6. \A i \in 1 .. Len(c) : c[i] \in Readable
    BY <2>1, ElementOfSeq
  <2>7. d \in [1 .. Len(c) -> Readable]
    BY <2>1, <2>2, <2>6
  <2>8. d \in Seq(Readable) /\ Len(d) = Len(c) /\ DOMAIN d = 1 .. Len(c)
    BY <2>1, <2>7
  <2> HIDE DEF d
  <2>9. \A i, j \in 1 .. Len(c) : d[i] = d[j] => i = j
    <3> SUFFICES ASSUME NEW i \in 1 .. Len(c), NEW j \in 1 .. Len(c), d[i] = d[j] PROVE i = j
      OBVIOUS
    <3> DEFINE from(x) == IF x = 1 THEN k ELSE IF x <= k THEN x - 1 ELSE x
    <3>1. \A x \in 1 .. Len(c) : from(x) \in 1 .. Len(c) /\ d[x] = c[from(x)]
      BY <2>1, <2>2, <2>5
    <3>2. from(i) = from(j)
      BY <2>3, <3>1
    <3>3. QED
      BY <2>1, <2>2, <3>2
  <2>10. \A x : (\E i \in 1 .. Len(c) : d[i] = x) <=> (\E i \in 1 .. Len(c) : c[i] = x)
    <3> TAKE x
    <3>1. ASSUME NEW i \in 1 .. Len(c), d[i] = x PROVE \E j \in 1 .. Len(c) : c[j] = x
      <4>1. CASE i = 1
        BY <2>2, <2>5, <3>1, <4>1
      <4>2. CASE i # 1 /\ i <= k
        <5>1. i - 1 \in 1 .. Len(c) /\ d[i] = c[i - 1]
          BY <2>1, <2>5, <4>2
        <5>2. QED
          BY <3>1, <5>1
      <4>3. CASE i # 1 /\ ~(i <= k)
        BY <2>5, <3>1, <4>3
      <4>4. QED
        BY <4>1, <4>2, <4>3
    <3>2. ASSUME NEW i \in 1 .. Len(c), c[i] = x PROVE \E j \in 1 .. Len(c) : d[j] = x
      <4>1. CASE i = k
        BY <2>1, <2>2, <2>5, <3>2, <4>1
      <4>2. CASE i < k
        <5>1. i + 1 \in 1 .. Len(c) /\ d[i + 1] = c[i]
          BY <2>1, <2>2, <2>5, <4>2
        <5>2. QED
          BY <3>2, <5>1
      <4>3. CASE i > k
        BY <2>1, <2>2, <2>5, <3>2, <4>3
      <4>4. QED
        BY <2>2, <4>1, <4>2, <4>3
    <3>3. QED
      BY <3>1, <3>2
  <2>11. Range(d) = Range(c)
    <3>1. \A x : x \in Range(d) <=> \E i \in 1 .. Len(c) : d[i] = x
      BY <2>8 DEF Range
    <3>2. \A x : x \in Range(c) <=> \E i \in 1 .. Len(c) : c[i] = x
      BY <2>1 DEF Range
    <3>3. QED
      BY <2>10, <3>1, <3>2
  <2>12. QED
    BY <2>4, <2>8, <2>9, <2>11 DEF Cached, IsInjective
<1>3. QED
  BY <1>1, <1>2
(***************************************************************************)
(* Typing, one group of variables at a time.                               *)
(***************************************************************************)
ModeTyped ==
  /\ mode \in Modes /\ beneath \in {"Browse", "ViewSession"}
  /\ pending \in BOOLEAN /\ (pending => mode = "Search")
  /\ editing \in {"none", "project", "from", "to"} /\ (editing # "none" => mode = "Filter")
  /\ at \in {"draw", "poll", "drain", "exit"} /\ quit \in BOOLEAN

SearchTyped ==
  /\ query \in 0 .. MaxQuery /\ engine \in {"lexical", "hybrid"}
  /\ hybrid \in BOOLEAN /\ (hybrid => HybridAvailable)
  /\ ResultsTyped

PanelTyped ==
  /\ filter \in Filters /\ row \in 1 .. Len(Rows)
  /\ matched \in [on : BOOLEAN, ids : SUBSET Sessions]

StarsTyped == stars \subseteq Sessions /\ Cardinality(stars) <= MaxStars
ListTyped == selected \in 0 .. Count + 1 /\ Cached(cache)

Sent == {"IndexProgress", "IndexReady", "LoadError"}
ThreadTyped ==
  /\ ready \in BOOLEAN /\ progress \in BOOLEAN
  /\ chan \in Seq(Sent) /\ Len(chan) <= MaxChan

Typed == ModeTyped /\ SearchTyped /\ PanelTyped /\ StarsTyped /\ ListTyped /\ ThreadTyped

\* The modes that bind an action.
LEMMA Bindings ==
  ASSUME mode \in Modes
  PROVE  /\ \A a \in {"SearchStart", "GoToTop", "GoToBottom"} : a \in Bound(mode) => mode = "Browse"
         /\ \A a \in {"SearchInput", "SearchBackspace", "SearchCancel"} : a \in Bound(mode) => mode = "Search"
         /\ \A a \in {"ToggleHybrid", "SelectSession", "NextItem", "PrevItem"} :
              a \in Bound(mode) => mode \in {"Browse", "Search"}
         /\ "ToggleStar" \in Bound(mode) => mode \in {"Browse", "ViewSession"}
         /\ "ToggleHelp" \in Bound(mode) => mode \in {"Browse", "ViewSession", "Help"}
         /\ "ToggleFilter" \in Bound(mode) => mode = "Browse" \/ (mode = "Filter" /\ editing = "none")
         /\ "ExportConfirm" \in Bound(mode) => mode = "ExportMenu"
         /\ \A a \in {"FilterNext", "FilterPrev", "FilterToggle", "FilterEdit", "FilterEditDone",
                      "FilterInput", "FilterBackspace"} : a \in Bound(mode) => mode = "Filter"
BY DEF Bound, Modes

LEMMA KeyIs ==
  ASSUME NEW a, Key(a)
  PROVE  /\ a \in Bound(mode) /\ at = "poll" /\ at' = "drain"
         /\ UNCHANGED <<ready, progress, chan, indexing>> /\ quit' \in BOOLEAN
<1>1. a \in Bound(mode) /\ at = "poll" /\ at' = "drain" /\ UNCHANGED <<ready, progress, chan, indexing>>
  BY DEF Key, background
<1>2. quit' \in BOOLEAN
  BY Zenon DEF Key
<1>3. QED
  BY <1>1, <1>2

LEMMA ModeStep ==
  ASSUME ModeTyped, [Next]_vars
  PROVE  ModeTyped'
<1> USE Bindings
<1>1. CASE UNCHANGED vars \/ Exited
  BY <1>1 DEF vars, Exited, ModeTyped
<1>2. CASE Draw \/ NoKey \/ IndexingThread \/ Receive
  <2>1. at' \in {"draw", "poll", "drain", "exit"} /\ UNCHANGED <<mode, beneath, pending, editing, quit>>
    BY <1>2 DEF Draw, NoKey, IndexingThread, Send, Receive, search, panel, ModeTyped
  <2>2. QED
    BY <2>1, Zenon DEF ModeTyped
<1>3. CASE Tick
  <2>1. at' \in {"draw", "poll", "drain", "exit"} /\ UNCHANGED <<mode, beneath, editing, quit>>
    BY <1>3 DEF Tick, panel
  <2>2. pending' = FALSE \/ pending' = pending
    BY <1>3, Zenon DEF Tick
  <2>3. pending' \in BOOLEAN /\ (pending' => mode = "Search")
    <3>1. CASE pending' = FALSE
      BY <3>1
    <3>2. CASE pending' = pending
      BY <3>2 DEF ModeTyped
    <3>3. QED
      BY <2>2, <3>1, <3>2, Zenon
  <2>4. QED
    BY <2>1, <2>3, Zenon DEF ModeTyped
<1>4. CASE SearchStart \/ SearchInput \/ SearchBackspace \/ SearchCancel
  <2>1. at' = "drain" /\ quit' \in BOOLEAN /\ UNCHANGED <<beneath, editing>>
    BY <1>4, KeyIs DEF SearchStart, SearchInput, SearchBackspace, SearchCancel, panel
  <2>2. mode' \in Modes /\ pending' \in BOOLEAN /\ (pending' => mode' = "Search") /\ editing = "none"
    BY <1>4, KeyIs DEF SearchStart, SearchInput, SearchBackspace, SearchCancel, Drop, Queue, ModeTyped, Modes
  <2>3. QED
    BY <2>1, <2>2, Zenon DEF ModeTyped
<1>5. CASE ToggleHybrid
  <2>1. at' = "drain" /\ quit' \in BOOLEAN /\ UNCHANGED <<mode, beneath, editing>>
    BY <1>5, KeyIs DEF ToggleHybrid, panel
  <2>2. pending' = FALSE \/ pending' = pending
    BY <1>5, Zenon DEF ToggleHybrid
  <2>3. pending' \in BOOLEAN /\ (pending' => mode = "Search")
    <3>1. CASE pending' = FALSE
      BY <3>1
    <3>2. CASE pending' = pending
      BY <3>2 DEF ModeTyped
    <3>3. QED
      BY <2>2, <3>1, <3>2, Zenon
  <2>4. QED
    BY <2>1, <2>3, Zenon DEF ModeTyped
<1>6. CASE SelectSession
  <2>1. at' = "drain" /\ quit' \in BOOLEAN /\ UNCHANGED <<beneath, editing>> /\ mode # "Filter"
    BY <1>6, KeyIs DEF SelectSession, panel, ModeTyped
  <2>2. pending' = FALSE
    BY <1>6, Zenon DEF SelectSession, Flush, ModeTyped
  <2>3. mode' \in Modes
    BY <1>6 DEF SelectSession, ModeTyped, Modes
  <2>4. QED
    BY <2>1, <2>2, <2>3 DEF ModeTyped
<1>7. CASE \/ NextItem \/ PrevItem \/ GoToTop \/ GoToBottom \/ ToggleStar \/ ToggleStarUnsaved \/ Quit
           \/ FilterToggle \/ FilterInput \/ FilterBackspace
  <2>1. at' = "drain" /\ quit' \in BOOLEAN
    BY <1>7, KeyIs DEF NextItem, PrevItem, GoToTop, GoToBottom, Move, ToggleStar, ToggleStarUnsaved,
       Quit, FilterToggle, FilterInput, FilterBackspace, FieldEdited
  <2>2. UNCHANGED <<mode, beneath, editing, pending>>
    BY <1>7 DEF NextItem, PrevItem, GoToTop, GoToBottom, Move, ToggleStar, ToggleStarUnsaved,
       Quit, FilterToggle, FilterInput, FilterBackspace, FieldEdited, search, panel
  <2>3. QED
    BY <2>1, <2>2, Zenon DEF ModeTyped
<1>8. CASE BackToList \/ ExportStart \/ ExportCancel \/ ExportConfirm \/ ToggleHelp
  <2>1. at' = "drain" /\ quit' \in BOOLEAN
    BY <1>8, KeyIs DEF BackToList, ExportStart, ExportCancel, ExportConfirm, ToggleHelp, Go
  <2>2. UNCHANGED <<editing, pending>> /\ mode \notin {"Search", "Filter"}
    BY <1>8, KeyIs DEF BackToList, ExportStart, ExportCancel, ExportConfirm, ToggleHelp, Go, search, panel,
       ModeTyped
  <2>3. mode' \in Modes /\ beneath' \in {"Browse", "ViewSession"}
    BY <1>8, KeyIs DEF BackToList, ExportStart, ExportCancel, ExportConfirm, ToggleHelp, Go, ModeTyped, Modes
  <2>4. QED
    BY <2>1, <2>2, <2>3, Zenon DEF ModeTyped
<1>9. CASE ToggleFilter
  <2>1. /\ at' = "drain" /\ quit' \in BOOLEAN /\ UNCHANGED <<beneath, editing, pending>>
        /\ editing = "none" /\ mode' \in Modes /\ mode # "Search"
    BY <1>9, KeyIs DEF ToggleFilter, search, panel, ModeTyped, Modes
  <2>2. QED
    BY <2>1, Zenon DEF ModeTyped
<1>10. CASE FilterNext \/ FilterPrev \/ FilterEdit \/ FilterEditDone
  <2>1. at' = "drain" /\ quit' \in BOOLEAN /\ UNCHANGED <<mode, beneath, pending>> /\ mode = "Filter"
    BY <1>10, KeyIs DEF FilterNext, FilterPrev, FilterMove, FilterEdit, FilterEditDone, search, ModeTyped
  <2>2. editing' \in {"none", "project", "from", "to"}
    BY <1>10 DEF FilterNext, FilterPrev, FilterMove, FilterEdit, FilterEditDone
  <2>3. QED
    BY <2>1, <2>2, Zenon DEF ModeTyped
<1>11. QED
  BY <1>1, <1>2, <1>3, <1>4, <1>5, <1>6, <1>7, <1>8, <1>9, <1>10 DEF Next

LEMMA ExecuteSearchTyped ==
  ASSUME SearchTyped, ExecuteSearch, hybrid' \in BOOLEAN, hybrid' => HybridAvailable, query' = query
  PROVE  SearchTyped'
<1>1. engine' \in {"lexical", "hybrid"}
  BY DEF ExecuteSearch, Engine, SearchTyped
<1>2. ResultsTyped'
  <2>1. CASE results' = Off
    BY <2>1, NumbersAre DEF Off, ResultsTyped, Numbers
  <2>2. CASE results' = results
    BY <2>2 DEF SearchTyped, ResultsTyped
  <2>3. ASSUME NEW e \in {"lexical", "hybrid"}, query # 0, Hits[e][query] # Failed,
               results' = [on |-> TRUE, ids |-> Hits[e][query]]
        PROVE  ResultsTyped'
    <3>1. query \in 1 .. MaxQuery
      BY <2>3 DEF SearchTyped
    <3>2. Hits[e][query] \in Seq(Sessions) /\ Len(Hits[e][query]) <= Count
      BY <2>3, <3>1, HitsTyped
    <3>3. QED
      BY <2>3, <3>2 DEF ResultsTyped
  <2>4. Engine \in {"lexical", "hybrid"}
    BY DEF Engine
  <2>5. QED
    BY <2>1, <2>2, <2>3, <2>4 DEF ExecuteSearch
<1>3. QED
  BY <1>1, <1>2, Zenon DEF SearchTyped

LEMMA SearchStep ==
  ASSUME SearchTyped, [Next]_vars
  PROVE  SearchTyped'
<1>1. CASE UNCHANGED <<query, engine, hybrid, results>>
  BY <1>1, Zenon DEF SearchTyped, ResultsTyped
<1>2. CASE Tick \/ SelectSession
  <2>1. UNCHANGED <<query, hybrid>>
    BY <1>2 DEF Tick, SelectSession
  <2>2. ExecuteSearch \/ UNCHANGED <<engine, results>>
    BY <1>2, Zenon DEF Tick, SelectSession, Flush
  <2>3. CASE ExecuteSearch
    <3>1. hybrid' \in BOOLEAN /\ (hybrid' => HybridAvailable)
      BY <2>1, Zenon DEF SearchTyped
    <3>2. QED
      BY <2>1, <2>3, <3>1, ExecuteSearchTyped
  <2>4. QED
    BY <1>1, <2>1, <2>2, <2>3
<1>3. CASE SearchStart \/ SearchCancel
  <2>1. query' = 0 /\ results' = Off /\ UNCHANGED <<engine, hybrid>>
    BY <1>3 DEF SearchStart, SearchCancel, Drop
  <2>2. ResultsTyped' /\ query' \in 0 .. MaxQuery
    BY <2>1, NumbersAre DEF Off, ResultsTyped, Numbers
  <2>3. QED
    BY <2>1, <2>2, Zenon DEF SearchTyped
<1>4. CASE SearchInput \/ SearchBackspace
  <2>1. query' \in 0 .. MaxQuery
    BY <1>4, NumbersAre DEF SearchInput, SearchBackspace, SearchTyped, Numbers
  <2>2. UNCHANGED <<engine, hybrid, results>>
    BY <1>4 DEF SearchInput, SearchBackspace
  <2>3. QED
    BY <2>1, <2>2, Zenon DEF SearchTyped, ResultsTyped
<1>5. CASE ToggleHybrid
  <2>1. query' = query
    BY <1>5 DEF ToggleHybrid
  <2>2. CASE ~HybridAvailable
    <3>1. UNCHANGED <<hybrid, engine, results>>
      BY <1>5, <2>2 DEF ToggleHybrid
    <3>2. QED
      BY <1>1, <2>1, <3>1
  <2>3. CASE HybridAvailable
    <3>1. hybrid' = ~hybrid
      BY <1>5, <2>3, Zenon DEF ToggleHybrid
    <3>2. hybrid' \in BOOLEAN
      BY <3>1, Zenon DEF SearchTyped
    <3>3. CASE query = 0
      <4>1. engine' \in {"lexical", "hybrid"} \/ ExecuteSearch
        BY <1>5, <2>3, <3>3 DEF ToggleHybrid
      <4>2. results' = results \/ ExecuteSearch
        BY <1>5, <2>3, <3>3 DEF ToggleHybrid
      <4>3. CASE ExecuteSearch
        BY <2>1, <2>3, <3>2, <4>3, ExecuteSearchTyped
      <4>4. QED
        BY <2>1, <2>3, <3>2, <4>1, <4>2, <4>3, Zenon DEF SearchTyped, ResultsTyped
    <3>4. CASE query # 0
      <4>1. ExecuteSearch
        BY <1>5, <2>3, <3>4 DEF ToggleHybrid
      <4>2. QED
        BY <2>1, <2>3, <3>2, <4>1, ExecuteSearchTyped
    <3>5. QED
      BY <3>3, <3>4
  <2>4. QED
    BY <2>2, <2>3
<1>6. CASE UNCHANGED vars \/ Exited \/ Draw \/ NoKey \/ Quit \/ IndexingThread \/ Receive
  <2>1. UNCHANGED <<query, engine, hybrid, results>>
    BY <1>6 DEF vars, Exited, Draw, NoKey, Quit, IndexingThread, Send, Receive, search
  <2>2. QED
    BY <1>1, <2>1
<1>7. CASE \/ NextItem \/ PrevItem \/ GoToTop \/ GoToBottom \/ ToggleStar \/ ToggleStarUnsaved
           \/ BackToList \/ ExportStart \/ ExportCancel \/ ExportConfirm \/ ToggleHelp
  <2>1. UNCHANGED <<query, engine, hybrid, results>>
    BY <1>7 DEF NextItem, PrevItem, GoToTop, GoToBottom, Move, ToggleStar, ToggleStarUnsaved,
       BackToList, ExportStart, ExportCancel, ExportConfirm, ToggleHelp, Go, search
  <2>2. QED
    BY <1>1, <2>1
<1>8. CASE \/ ToggleFilter \/ FilterNext \/ FilterPrev \/ FilterToggle
           \/ FilterEdit \/ FilterEditDone \/ FilterInput \/ FilterBackspace
  <2>1. UNCHANGED <<query, engine, hybrid, results>>
    BY <1>8 DEF ToggleFilter, FilterNext, FilterPrev, FilterMove, FilterToggle, FilterEdit,
       FilterEditDone, FilterInput, FilterBackspace, FieldEdited, search
  <2>2. QED
    BY <1>1, <2>1
<1>9. QED
  BY <1>2, <1>3, <1>4, <1>5, <1>6, <1>7, <1>8 DEF Next
LEMMA RecomputedTyped ==
  ASSUME NEW f \in Filters, NEW r
  PROVE  Recomputed(f, r) \in [on : BOOLEAN, ids : SUBSET Sessions]
<1>1. f.role \in DOMAIN CycleRole /\ f.tool \in BOOLEAN
  BY DEF Filters
<1>2. Having[f.role, f.tool] \subseteq Sessions
  BY <1>1, TuiAssumption, Zenon
<1>3. QED
  BY <1>2 DEF Recomputed, Unmatched

LEMMA ToggledTyped ==
  ASSUME NEW f \in Filters, NEW r
  PROVE  Toggled(f, r) \in Filters
<1>1. CASE r \in ProviderRows
  <2>1. Toggled(f, r) = [f EXCEPT !.hidden = (f.hidden \ {r}) \cup ({r} \ f.hidden)]
    BY <1>1 DEF Toggled, ProviderRows, ValueRows
  <2>2. QED
    BY <1>1, <2>1 DEF Filters
<1>2. CASE r \notin ProviderRows /\ r = "role"
  <2>1. CycleRole[f.role] \in DOMAIN CycleRole
    BY DEF Filters, CycleRole
  <2>2. Toggled(f, r) = [f EXCEPT !.role = CycleRole[f.role]]
    BY <1>2 DEF Toggled
  <2>3. QED
    BY <2>1, <2>2 DEF Filters
<1>3. CASE r \notin ProviderRows /\ r # "role"
  BY <1>3 DEF Toggled, Filters
<1>4. QED
  BY <1>1, <1>2, <1>3

LEMMA PanelStep ==
  ASSUME PanelTyped, [Next]_vars
  PROVE  PanelTyped'
<1>1. CASE UNCHANGED <<filter, row, matched>>
  BY <1>1 DEF PanelTyped
<1>2. CASE Receive
  <2>1. UNCHANGED <<filter, row>> /\ matched' \in {matched, Recomputed(filter, TRUE)}
    BY <1>2 DEF Receive, Resolved
  <2>2. QED
    BY <2>1, RecomputedTyped DEF PanelTyped
<1>3. CASE FilterToggle
  <2>1. filter' = Toggled(filter, Rows[row]) /\ row' = row
        /\ (matched' = matched \/ \E r : matched' = Recomputed(filter', r))
    BY <1>3 DEF FilterToggle
  <2>2. filter' \in Filters
    BY <2>1, ToggledTyped DEF PanelTyped
  <2>3. QED
    BY <2>1, <2>2, RecomputedTyped DEF PanelTyped
<1>4. CASE FilterNext \/ FilterPrev
  <2>1. UNCHANGED <<filter, matched>> /\ row' \in 1 .. Len(Rows)
    BY <1>4 DEF FilterNext, FilterPrev, FilterMove
  <2>2. QED
    BY <2>1 DEF PanelTyped
<1>5. ASSUME NEW a, NEW n \in 0 .. MaxProject, FieldEdited(a, n)
      PROVE  PanelTyped'
  <2>1. UNCHANGED <<row, matched>> /\ filter' \in {filter, [filter EXCEPT !.project = n]}
    BY <1>5 DEF FieldEdited
  <2>2. filter' \in Filters
    BY <2>1 DEF PanelTyped, Filters
  <2>3. QED
    BY <2>1, <2>2 DEF PanelTyped
<1>6. CASE FilterInput \/ FilterBackspace
  <2>1. filter.project \in 0 .. MaxProject
    BY DEF PanelTyped, Filters
  <2>2. filter.project < MaxProject => filter.project + 1 \in 0 .. MaxProject
    BY <2>1, NumbersAre DEF Numbers
  <2>3. (IF filter.project > 0 THEN filter.project - 1 ELSE 0) \in 0 .. MaxProject
    BY <2>1, NumbersAre DEF Numbers
  <2>4. QED
    BY <1>5, <1>6, <2>2, <2>3 DEF FilterInput, FilterBackspace
<1>7. CASE \/ UNCHANGED vars \/ Exited \/ Draw \/ NoKey \/ Quit \/ IndexingThread \/ Tick
           \/ SearchStart \/ SearchInput \/ SearchBackspace \/ SearchCancel \/ ToggleHybrid
           \/ SelectSession \/ FilterEdit \/ FilterEditDone
  <2>1. UNCHANGED <<filter, row, matched>>
    BY <1>7 DEF vars, Exited, Draw, NoKey, Quit, IndexingThread, Send, Tick, SearchStart,
       SearchInput, SearchBackspace, SearchCancel, ToggleHybrid, SelectSession, FilterEdit,
       FilterEditDone, panel
  <2>2. QED
    BY <1>1, <2>1
<1>8. CASE \/ NextItem \/ PrevItem \/ GoToTop \/ GoToBottom \/ ToggleStar \/ ToggleStarUnsaved
           \/ BackToList \/ ExportStart \/ ExportCancel \/ ExportConfirm \/ ToggleHelp \/ ToggleFilter
  <2>1. UNCHANGED <<filter, row, matched>>
    BY <1>8 DEF NextItem, PrevItem, GoToTop, GoToBottom, Move, ToggleStar, ToggleStarUnsaved,
       BackToList, ExportStart, ExportCancel, ExportConfirm, ToggleHelp, Go, ToggleFilter, panel
  <2>2. QED
    BY <1>1, <2>1
<1>9. QED
  BY <1>2, <1>3, <1>4, <1>6, <1>7, <1>8 DEF Next

LEMMA ThreadStep ==
  ASSUME ThreadTyped, [Next]_vars
  PROVE  ThreadTyped'
<1>1. CASE UNCHANGED <<ready, progress, chan>>
  BY <1>1, Zenon DEF ThreadTyped
<1>2. CASE IndexingThread
  <2>1. PICK a \in Sent : Send(a)
    BY <1>2 DEF IndexingThread, Sent
  <2>2. chan' = Append(chan, a) /\ Len(chan) < MaxChan /\ UNCHANGED <<ready, progress>>
    BY <2>1 DEF Send
  <2>3. Len(chan) \in Nat /\ MaxChan \in Nat
    BY NumbersAre, LenProperties DEF ThreadTyped, Numbers
  <2>4. chan' \in Seq(Sent) /\ Len(chan') <= MaxChan
    BY <2>2, <2>3 DEF ThreadTyped
  <2>5. QED
    BY <2>2, <2>4, Zenon DEF ThreadTyped
<1>3. CASE Receive
  <2>1. chan' = Tail(chan) /\ chan # <<>>
    BY <1>3 DEF Receive
  <2>2. ready' \in BOOLEAN /\ progress' \in BOOLEAN
    BY <1>3, Zenon DEF Receive
  <2>3. Len(chan) \in Nat /\ MaxChan \in Nat
    BY NumbersAre, LenProperties DEF ThreadTyped, Numbers
  <2>4. chan' \in Seq(Sent) /\ Len(chan') <= MaxChan
    BY <2>1, <2>3, HeadTailProperties DEF ThreadTyped
  <2>5. QED
    BY <2>2, <2>4 DEF ThreadTyped
<1>4. CASE \/ UNCHANGED vars \/ Exited \/ Draw \/ NoKey \/ Quit \/ Tick
           \/ SearchStart \/ SearchInput \/ SearchBackspace \/ SearchCancel \/ ToggleHybrid
           \/ SelectSession
  <2>1. UNCHANGED <<ready, progress, chan>>
    BY <1>4 DEF vars, Exited, Draw, NoKey, Quit, Tick, SearchStart, SearchInput, SearchBackspace,
       SearchCancel, ToggleHybrid, SelectSession, Key, background
  <2>2. QED
    BY <1>1, <2>1
<1>5. CASE \/ NextItem \/ PrevItem \/ GoToTop \/ GoToBottom \/ ToggleStar \/ ToggleStarUnsaved
           \/ BackToList \/ ExportStart \/ ExportCancel \/ ExportConfirm \/ ToggleHelp
           \/ ToggleFilter \/ FilterNext \/ FilterPrev \/ FilterToggle
           \/ FilterEdit \/ FilterEditDone \/ FilterInput \/ FilterBackspace
  <2>1. UNCHANGED <<ready, progress, chan>>
    BY <1>5 DEF NextItem, PrevItem, GoToTop, GoToBottom, Move, ToggleStar, ToggleStarUnsaved,
       BackToList, ExportStart, ExportCancel, ExportConfirm, ToggleHelp, Go, ToggleFilter,
       FilterNext, FilterPrev, FilterMove, FilterToggle, FilterEdit, FilterEditDone, FilterInput,
       FilterBackspace, FieldEdited, Key, background
  <2>2. QED
    BY <1>1, <2>1
<1>6. QED
  BY <1>2, <1>3, <1>4, <1>5 DEF Next

LEMMA StarsFinite ==
  ASSUME stars \subseteq Sessions
  PROVE  IsFiniteSet(stars)
<1>1. IsFiniteSet(Sessions)
  BY NumbersAre, FS_Interval DEF Numbers, Sessions
<1>2. QED
  BY <1>1, FS_Subset

LEMMA StarsStep ==
  ASSUME SearchTyped, StarsTyped, ListTyped, [Next]_vars
  PROVE  StarsTyped'
<1>1. CASE UNCHANGED stars
  BY <1>1 DEF StarsTyped
<1>2. CASE ToggleStar \/ ToggleStarUnsaved
  <2>1. Focused \in Sessions
    BY <1>2, FocusedIs, NumbersAre DEF ToggleStar, ToggleStarUnsaved, SearchTyped, ListTyped, Numbers
  <2>2. IsFiniteSet(stars) /\ Cardinality(stars) \in Nat
    BY StarsFinite, FS_CardinalityType DEF StarsTyped
  <2>3. CASE stars' = stars \cup {Focused} /\ Focused \notin stars /\ Cardinality(stars) < MaxStars
    <3>1. Cardinality(stars') = Cardinality(stars) + 1
      BY <2>2, <2>3, FS_AddElement
    <3>2. QED
      BY <2>1, <2>2, <2>3, <3>1, NumbersAre DEF StarsTyped, Numbers
  <2>4. CASE stars' = stars \ {Focused}
    <3>1. stars' \subseteq stars
      BY <2>4
    <3>2. Cardinality(stars') <= Cardinality(stars) /\ Cardinality(stars') \in Nat
      BY <2>2, <3>1, FS_Subset, FS_CardinalityType
    <3>3. QED
      BY <2>2, <3>1, <3>2, NumbersAre DEF StarsTyped, Numbers
  <2>5. QED
    BY <1>2, <2>3, <2>4 DEF ToggleStar, ToggleStarUnsaved
<1>3. CASE \/ UNCHANGED vars \/ Exited \/ Draw \/ NoKey \/ Quit \/ IndexingThread \/ Receive \/ Tick
           \/ SearchStart \/ SearchInput \/ SearchBackspace \/ SearchCancel \/ ToggleHybrid
           \/ SelectSession
  BY <1>1, <1>3 DEF vars, Exited, Draw, NoKey, Quit, IndexingThread, Send, Receive, Tick, SearchStart,
     SearchInput, SearchBackspace, SearchCancel, ToggleHybrid, SelectSession
<1>4. CASE \/ NextItem \/ PrevItem \/ GoToTop \/ GoToBottom
           \/ BackToList \/ ExportStart \/ ExportCancel \/ ExportConfirm \/ ToggleHelp
           \/ ToggleFilter \/ FilterNext \/ FilterPrev \/ FilterToggle
           \/ FilterEdit \/ FilterEditDone \/ FilterInput \/ FilterBackspace
  BY <1>1, <1>4 DEF NextItem, PrevItem, GoToTop, GoToBottom, Move, BackToList, ExportStart,
     ExportCancel, ExportConfirm, ToggleHelp, Go, ToggleFilter, FilterNext, FilterPrev, FilterMove,
     FilterToggle, FilterEdit, FilterEditDone, FilterInput, FilterBackspace, FieldEdited
<1>5. QED
  BY <1>2, <1>3, <1>4 DEF Next

LEMMA ListStep ==
  ASSUME SearchTyped, SearchTyped', ListTyped, [Next]_vars
  PROVE  ListTyped'
<1>1. Count \in Nat /\ Len(Display) \in 0 .. Count /\ Len(Display)' \in 0 .. Count
      /\ selected \in 0 .. Count + 1
  <2>1. Len(Display)' \in 0 .. Count
    BY DisplayThen DEF SearchTyped
  <2>2. QED
    BY <2>1, DisplayIs, NumbersAre DEF SearchTyped, ListTyped, Numbers
<1>2. \A s : Cached(Loaded(cache, s)) /\ Cached(Touched(cache, s))
  BY LoadedCached, TouchedCached DEF ListTyped
<1>3. CASE UNCHANGED list
  BY <1>3 DEF list, ListTyped
<1>4. CASE Draw
  BY <1>1, <1>2, <1>4 DEF Draw, ListTyped
<1>5. CASE Tick \/ SearchCancel \/ ToggleHybrid
  <2>1. cache' = cache
    BY <1>5 DEF Tick, SearchCancel, ToggleHybrid
  <2>2. selected' \in {0, 1, selected}
    BY <1>5 DEF Tick, SearchCancel, ToggleHybrid, ExecuteSearch, SelectFirst
  <2>3. QED
    BY <1>1, <2>1, <2>2 DEF ListTyped
<1>6. CASE SelectSession
  <2>1. cache' = Loaded(cache, Focused')
    BY <1>6 DEF SelectSession, Preload
  <2>2. selected' \in {0, 1, selected}
    BY <1>6 DEF SelectSession, Flush, ExecuteSearch, SelectFirst
  <2>3. QED
    BY <1>1, <1>2, <2>1, <2>2 DEF ListTyped
<1>7. CASE NextItem \/ PrevItem \/ GoToTop \/ GoToBottom
  <2>1. cache' = Loaded(cache, Focused')
    BY <1>7 DEF NextItem, PrevItem, GoToTop, GoToBottom, Move, Select, Preload
  <2>2. selected' \in 0 .. Count + 1
    BY <1>1, <1>7 DEF NextItem, PrevItem, GoToTop, GoToBottom, Move, Select
  <2>3. QED
    BY <1>2, <2>1, <2>2 DEF ListTyped
<1>8. CASE ToggleStar /\ ~UNCHANGED list
  <2>1. cache' = Loaded(cache, Focused')
        /\ selected' = IF selected > Len(Display)' THEN Len(Display)' ELSE selected
    BY <1>8 DEF ToggleStar, Select, Preload
  <2>2. QED
    BY <1>1, <1>2, <2>1 DEF ListTyped
<1>9. CASE ToggleFilter /\ ~UNCHANGED list
  <2>1. cache' = Loaded(cache, Focused') /\ selected' \in {0, 1}
    BY <1>9 DEF ToggleFilter, Select, Preload
  <2>2. QED
    BY <1>1, <1>2, <2>1 DEF ListTyped
<1>10. CASE ExportConfirm
  BY <1>2, <1>10 DEF ExportConfirm, ListTyped
<1>11. CASE \/ UNCHANGED vars \/ Exited \/ NoKey \/ Quit \/ IndexingThread \/ Receive
            \/ SearchStart \/ SearchInput \/ SearchBackspace \/ ToggleStarUnsaved
  BY <1>3, <1>11 DEF vars, Exited, NoKey, Quit, IndexingThread, Send, Receive, SearchStart,
     SearchInput, SearchBackspace, ToggleStarUnsaved, list
<1>12. CASE \/ BackToList \/ ExportStart \/ ExportCancel \/ ToggleHelp
            \/ FilterNext \/ FilterPrev \/ FilterToggle
            \/ FilterEdit \/ FilterEditDone \/ FilterInput \/ FilterBackspace
  BY <1>3, <1>12 DEF BackToList, ExportStart, ExportCancel, ToggleHelp, Go, FilterNext, FilterPrev,
     FilterMove, FilterToggle, FilterEdit, FilterEditDone, FilterInput, FilterBackspace, FieldEdited
<1>13. QED
  BY <1>3, <1>4, <1>5, <1>6, <1>7, <1>8, <1>9, <1>10, <1>11, <1>12 DEF Next

LEMMA TypedStep == Typed /\ [Next]_vars => Typed'
BY ModeStep, SearchStep, PanelStep, StarsStep, ListStep, ThreadStep DEF Typed

LEMMA TypedInit == Init => Typed
<1> SUFFICES ASSUME Init PROVE Typed
  OBVIOUS
<1> USE NumbersAre DEF Numbers
<1>1. ModeTyped
  BY DEF Init, ModeTyped, Modes
<1>2. SearchTyped
  <2>1. ResultsTyped
    BY DEF Init, Off, ResultsTyped
  <2>2. query \in 0 .. MaxQuery /\ engine \in {"lexical", "hybrid"}
    BY DEF Init
  <2>3. hybrid \in BOOLEAN /\ (hybrid => HybridAvailable)
    BY TuiAssumption DEF Init
  <2>4. QED
    BY <2>1, <2>2, <2>3 DEF SearchTyped
<1>3. PanelTyped
  <2>1. filter \in Filters
    BY DEF Init, NoFilter, Filters, CycleRole
  <2>2. row \in 1 .. Len(Rows)
    <3>1. Rows \in Seq(Range(Rows)) /\ Rows # <<>>
      BY TuiAssumption
    <3>2. Len(Rows) \in Nat \ {0}
      BY <3>1, EmptySeq, Zenon
    <3>3. QED
      BY <3>2 DEF Init
  <2>3. matched \in [on : BOOLEAN, ids : SUBSET Sessions]
    BY DEF Init, Unmatched
  <2>4. QED
    BY <2>1, <2>2, <2>3 DEF PanelTyped
<1>4. StarsTyped
  <2>1. PICK s \in 0 .. Count : stars = {s} \ {0}
    BY DEF Init
  <2>2. stars \subseteq Sessions
    BY <2>1 DEF Sessions
  <2>3. Cardinality(stars) <= 1
    <3>1. CASE s = 0
      BY <2>1, <3>1, FS_EmptySet
    <3>2. CASE s # 0
      BY <2>1, <3>2, FS_Singleton
    <3>3. QED
      BY <3>1, <3>2
  <2>4. Cardinality(stars) \in Nat
    BY <2>2, StarsFinite, FS_CardinalityType
  <2>5. QED
    BY <2>2, <2>3, <2>4 DEF StarsTyped
<1>5. ListTyped
  <2>1. Cached(<<>>)
    BY EmptySeq DEF Cached, IsInjective
  <2>2. Cached(cache)
    BY <2>1, LoadedCached DEF Init
  <2>3. QED
    BY <2>2 DEF Init, ListTyped
<1>6. ThreadTyped
  <2>1. <<>> \in Seq(Sent) /\ Len(<<>>) = 0
    BY EmptySeq
  <2>2. QED
    <3>1. ready = FALSE /\ progress = FALSE /\ chan = <<>>
      BY DEF Init
    <3>2. chan \in Seq(Sent) /\ Len(chan) <= MaxChan
      BY <2>1, <3>1
    <3>3. QED
      BY <3>1, <3>2 DEF ThreadTyped
<1>7. QED
  BY <1>1, <1>2, <1>3, <1>4, <1>5, <1>6 DEF Typed

\* Every variable keeps to its range; a search is queued only while typing, a
\* field edited only in the panel, and the cache holds no session twice and no
\* more than its capacity.
THEOREM TypeCorrect == Spec => []TypeOK
<1>1. Typed => TypeOK
  <2> SUFFICES ASSUME Typed PROVE TypeOK
    OBVIOUS
  <2>1. results.on \in BOOLEAN /\ Range(results.ids) \subseteq Sessions
    <3>1. results.ids \in Seq(Sessions) /\ results.on \in BOOLEAN
      BY DEF Typed, SearchTyped, ResultsTyped
    <3>2. QED
      BY <3>1, LenProperties, ElementOfSeq DEF Range
  <2>2. Range(cache) \subseteq Readable /\ Len(cache) <= CacheSize
    BY CachedRange DEF Typed, ListTyped, Cached
  <2>3. Cardinality(Range(cache)) = Len(cache)
    <3>1. /\ cache \in [1 .. Len(cache) -> Range(cache)] /\ Len(cache) \in Nat
          /\ DOMAIN cache = 1 .. Len(cache)
      BY LenProperties DEF Typed, ListTyped, Cached, Range
    <3>2. \A a, b \in 1 .. Len(cache) : cache[a] = cache[b] => a = b
      BY <3>1 DEF Typed, ListTyped, Cached, IsInjective
    <3>3. \A x \in Range(cache) : \E a \in 1 .. Len(cache) : cache[a] = x
      BY <3>1 DEF Range
    <3>4. cache \in Bijection(1 .. Len(cache), Range(cache))
      BY <3>1, <3>2, <3>3, Fun_IsBij
    <3>5. IsFiniteSet(1 .. Len(cache))
      BY <3>1, FS_Interval
    <3>6. Cardinality(1 .. Len(cache)) = Len(cache)
      <4>1. 1 \in Int /\ Len(cache) \in Int
        BY <3>1
      <4>2. Cardinality(1 .. Len(cache)) = IF 1 > Len(cache) THEN 0 ELSE Len(cache) - 1 + 1
        BY <4>1, FS_Interval, Zenon
      <4>3. QED
        BY <3>1, <4>2
    <3>7. QED
      BY <3>4, <3>5, <3>6, FS_Bijection DEF ExistsBijection
  <2>4. matched.on \in BOOLEAN /\ matched.ids \subseteq Sessions
    BY DEF Typed, PanelTyped
  <2>5. QED
    BY <2>1, <2>2, <2>3, <2>4 DEF Typed, ModeTyped, SearchTyped, PanelTyped, StarsTyped, ListTyped,
       ThreadTyped, TypeOK
<1>2. QED
  BY <1>1, TypedInit, TypedStep, PTL DEF Spec
(***************************************************************************)
(* Focus.  Outside of typing and of the filter panel, nothing is selected  *)
(* only while the list is empty; what is drawn is clamped to the list.     *)
(***************************************************************************)
Settled == mode \notin {"Search", "Filter"}
Clamped == at = "poll" => selected <= Len(Display)
InFocus == Settled => (selected = 0 => Passing = {})
FocusInv == Clamped /\ InFocus

LEMMA SameDisplay ==
  ASSUME UNCHANGED <<results, filter, matched>>, stars' = stars \/ ~filter.starred
  PROVE  Display' = Display /\ Passing' = Passing
<1>1. Base' = Base
  BY DEF Base
<1>2. ASSUME NEW s PROVE Passes(s)' <=> Passes(s)
  BY DEF Passes
<1>3. Passing' = Passing
  BY <1>1, <1>2 DEF Passing
<1>4. Display' = Picked(Base', Passing') /\ Display = Picked(Base, Passing)
  BY DEF Display, Passing
<1>5. QED
  BY <1>1, <1>3, <1>4

\* Resolving a message filter and unstarring leave no more to show.
LEMMA Shrinks ==
  ASSUME UNCHANGED <<results, filter>>, stars' \subseteq stars, matched' = matched \/ ~matched.on
  PROVE  Passing' \subseteq Passing
<1>1. Base' = Base
  BY DEF Base
<1>2. ASSUME NEW s, Passes(s)' PROVE Passes(s)
  <2>1. (filter.starred => s \in stars)
    BY <1>2 DEF Passes
  <2>2. matched.on /\ filter # NoFilter => s \in matched.ids
    BY <1>2 DEF Passes
  <2>3. QED
    BY <1>2, <2>1, <2>2 DEF Passes
<1>3. QED
  BY <1>1, <1>2 DEF Passing

LEMMA ClampedStep ==
  ASSUME Typed, Clamped, [Next]_vars
  PROVE  Clamped'
<1>1. CASE Draw
  <2>1. Display' = Display
    BY <1>1, SameDisplay DEF Draw, search, panel
  <2>2. selected' = IF selected > Len(Display) THEN Len(Display) ELSE selected
    BY <1>1 DEF Draw
  <2>3. selected \in Nat /\ Len(Display) \in Nat
    BY DisplayIs, NumbersAre DEF Typed, SearchTyped, ListTyped, Numbers
  <2>4. QED
    BY <2>1, <2>2, <2>3 DEF Clamped
<1>2. CASE IndexingThread \/ Exited \/ UNCHANGED vars
  <2>1. UNCHANGED <<at, selected, results, filter, matched, stars>>
    BY <1>2 DEF IndexingThread, Send, Exited, vars, search, panel, list
  <2>2. QED
    BY <2>1, SameDisplay DEF Clamped
<1>3. CASE ~Draw /\ ~IndexingThread /\ ~Exited /\ ~UNCHANGED vars
  <2>1. CASE Tick \/ Receive \/ NoKey
    BY <1>3, <2>1 DEF Tick, Receive, NoKey, Clamped
  <2>2. CASE \/ Quit \/ SearchStart \/ SearchInput \/ SearchBackspace \/ SearchCancel \/ ToggleHybrid
             \/ SelectSession \/ NextItem \/ PrevItem \/ GoToTop \/ GoToBottom
             \/ ToggleStar \/ ToggleStarUnsaved
    <3>1. at' = "drain"
      BY <2>2, KeyIs DEF Quit, SearchStart, SearchInput, SearchBackspace, SearchCancel, ToggleHybrid,
         SelectSession, NextItem, PrevItem, GoToTop, GoToBottom, Move, ToggleStar, ToggleStarUnsaved
    <3>2. QED
      BY <3>1 DEF Clamped
  <2>3. CASE \/ BackToList \/ ExportStart \/ ExportCancel \/ ExportConfirm \/ ToggleHelp
             \/ ToggleFilter \/ FilterNext \/ FilterPrev \/ FilterToggle
             \/ FilterEdit \/ FilterEditDone \/ FilterInput \/ FilterBackspace
    <3>1. at' = "drain"
      BY <2>3, KeyIs DEF BackToList, ExportStart, ExportCancel, ExportConfirm, ToggleHelp, Go,
         ToggleFilter, FilterNext, FilterPrev, FilterMove, FilterToggle, FilterEdit, FilterEditDone,
         FilterInput, FilterBackspace, FieldEdited
    <3>2. QED
      BY <3>1 DEF Clamped
  <2>4. QED
    BY <1>3, <2>1, <2>2, <2>3 DEF Next
<1>4. QED
  BY <1>1, <1>2, <1>3

LEMMA KeptFocus ==
  ASSUME InFocus, UNCHANGED <<selected, results, filter, matched, stars>>, Settled' => Settled
  PROVE  InFocus'
BY SameDisplay DEF InFocus

\* The search that the toggle runs again still parses.
LEMMA ToggledSearch ==
  ASSUME Typed, ResultsInv, InFocus, Settled, ToggleHybrid
  PROVE  InFocus'
<1>1. /\ query' = query /\ UNCHANGED <<mode, filter, matched, stars>> /\ ~pending
  BY DEF ToggleHybrid, panel, Typed, ModeTyped, Settled
<1>2. CASE UNCHANGED <<results, selected>>
  BY <1>1, <1>2, KeptFocus DEF Settled
<1>3. CASE query # 0 /\ ready /\ ExecuteSearch
  <2>1. CASE Hits[Engine][query] # Failed
    <3>1. selected' = IF Display' = <<>> THEN 0 ELSE 1
      BY <1>3, <2>1 DEF ExecuteSearch
    <3>2. ResultsTyped'
      BY SearchStep DEF Typed, SearchTyped, Next
    <3>3. QED
      BY <3>1, <3>2, DisplayThen DEF InFocus
  <2>2. CASE Hits[Engine][query] = Failed
    <3>1. query \in 1 .. MaxQuery /\ results \in [on : BOOLEAN, ids : Seq(Sessions)]
      BY <1>3 DEF Typed, SearchTyped, ResultsTyped
    <3>2. Hits["lexical"][query] = Failed /\ Hits["hybrid"][query] = Failed
      BY <2>2, <3>1, TuiAssumption DEF Engine
    <3>3. results.on = FALSE
      BY <1>1, <3>1, <3>2 DEF ResultsInv, Typed, SearchTyped
    <3>4. results' = Off /\ selected' = selected
      BY <1>3, <2>2 DEF ExecuteSearch
    <3>5. Base' = Base
      BY <3>3, <3>4 DEF Base, Off
    <3>6. Passing' = Passing
      <4>1. ASSUME NEW s PROVE Passes(s)' <=> Passes(s)
        BY <1>1 DEF Passes
      <4>2. QED
        BY <3>5, <4>1 DEF Passing
    <3>7. QED
      BY <3>4, <3>6 DEF InFocus
  <2>3. QED
    BY <2>1, <2>2
<1>4. QED
  BY <1>2, <1>3 DEF ToggleHybrid, ExecuteSearch

LEMMA InFocusStep ==
  ASSUME Typed, Typed', ResultsInv, MatchedInv, FocusInv, [Next]_vars
  PROVE  InFocus'
<1> USE Bindings
<1>0. /\ InFocus /\ mode \in Modes /\ selected \in Nat /\ Count \in Nat
      /\ Display \in Seq(Sessions) /\ Len(Display) \in Nat /\ (Display = <<>> <=> Passing = {})
      /\ Display' \in Seq(Sessions) /\ Len(Display)' \in Nat /\ (Display' = <<>> <=> Passing' = {})
  BY DisplayIs, DisplayThen, NumbersAre
     DEF FocusInv, Typed, ModeTyped, ListTyped, SearchTyped, Numbers
<1>1. CASE Draw
  <2>1. Passing' = Passing /\ (Settled' <=> Settled)
    BY <1>1, SameDisplay DEF Draw, search, panel, Settled
  <2>2. selected' = IF selected > Len(Display) THEN Len(Display) ELSE selected
    BY <1>1 DEF Draw
  <2>3. Len(Display) = 0 => Display = <<>>
    BY <1>0, EmptySeq, Zenon
  <2>4. QED
    BY <1>0, <2>1, <2>2, <2>3 DEF InFocus
<1>2. CASE Receive
  <2>1. UNCHANGED <<mode, selected, results, filter, stars>> /\ (matched' = matched \/ ~matched.on)
    BY <1>2 DEF Receive, Resolved, search, list
  <2>2. Passing' \subseteq Passing
    BY <2>1, Shrinks
  <2>3. QED
    BY <1>0, <2>1, <2>2 DEF InFocus, Settled
<1>3. CASE Tick
  <2>1. CASE mode = "Search"
    BY <1>3, <2>1 DEF Tick, InFocus, Settled
  <2>2. CASE mode # "Search"
    <3>1. UNCHANGED <<mode, results, selected, filter, matched, stars>>
      BY <1>3, <2>2 DEF Tick, panel, Typed, ModeTyped
    <3>2. QED
      BY <1>0, <3>1, KeptFocus DEF Settled
  <2>3. QED
    BY <2>1, <2>2
<1>4. CASE SearchStart \/ SearchInput \/ SearchBackspace
  <2>1. mode' = "Search"
    BY <1>0, <1>4, KeyIs DEF SearchStart, SearchInput, SearchBackspace
  <2>2. QED
    BY <2>1 DEF InFocus, Settled
<1>5. CASE SearchCancel
  <2>1. results' = Off /\ selected' = IF Count > 0 THEN 1 ELSE 0
    BY <1>5 DEF SearchCancel, Drop, SelectFirst
  <2>2. ASSUME Count = 0 PROVE Passing' = {}
    <3>1. Base' = All
      BY <2>1 DEF Base, Off
    <3>2. DOMAIN All = {}
      BY <2>2 DEF All, Sessions
    <3>3. QED
      BY <3>1, <3>2 DEF Passing
  <2>3. QED
    BY <1>0, <2>1, <2>2 DEF InFocus
<1>6. CASE ToggleHybrid
  <2>1. CASE Settled
    BY <1>0, <1>6, <2>1, ToggledSearch
  <2>2. CASE ~Settled
    BY <1>6, <2>2 DEF ToggleHybrid, InFocus, Settled
  <2>3. QED
    BY <2>1, <2>2
<1>7. CASE SelectSession
  <2>1. CASE mode' = "ViewSession"
    <3>1. mode # "ViewSession"
      BY <1>0, <1>7, KeyIs DEF SelectSession
    <3>2. Focused' # 0
      BY <1>7, <2>1, <3>1 DEF SelectSession
    <3>3. selected' # 0
      BY <3>2 DEF Focused
    <3>4. QED
      BY <3>3 DEF InFocus
  <2>2. CASE mode' # "ViewSession"
    <3>1. mode' = mode
      BY <1>7, <2>2 DEF SelectSession
    <3>2. Settled' => ~pending
      BY <3>1 DEF Typed, ModeTyped, Settled
    <3>3. Settled' => UNCHANGED <<selected, results, filter, matched, stars>>
      BY <1>7, <3>2 DEF SelectSession, Flush, panel
    <3>4. CASE ~Settled'
      BY <3>4 DEF InFocus
    <3>5. CASE Settled'
      BY <1>0, <3>1, <3>3, <3>5, KeptFocus DEF Settled
    <3>6. QED
      BY <3>4, <3>5
  <2>3. QED
    BY <2>1, <2>2
<1>8. CASE NextItem \/ PrevItem \/ GoToTop \/ GoToBottom
  <2>1. Display # <<>> => Len(Display) # 0
    BY <1>0, EmptySeq, Zenon
  <2>2. selected' # 0
    BY <1>0, <1>8, <2>1 DEF NextItem, PrevItem, GoToTop, GoToBottom, Move, Select
  <2>3. QED
    BY <2>2 DEF InFocus
<1>9. CASE ToggleStar \/ ToggleStarUnsaved
  <2>1. selected # 0
    BY <1>9 DEF ToggleStar, ToggleStarUnsaved, Focused
  <2>2. selected' = selected \/ selected' = IF selected > Len(Display') THEN Len(Display') ELSE selected
    BY <1>9 DEF ToggleStar, ToggleStarUnsaved, Select, list
  <2>3. Len(Display') = 0 => Display' = <<>>
    BY <1>0, EmptySeq, Zenon
  <2>4. QED
    BY <1>0, <2>1, <2>2, <2>3 DEF InFocus
<1>10. CASE ToggleFilter
  <2>1. CASE mode' = "Filter"
    BY <2>1 DEF InFocus, Settled
  <2>2. CASE mode' # "Filter"
    <3>1. UNCHANGED <<results, filter, matched, stars>> /\ selected' = IF Display = <<>> THEN 0 ELSE 1
      BY <1>10, <2>2 DEF ToggleFilter, search, panel, Select
    <3>2. Passing' = Passing
      BY <3>1, SameDisplay
    <3>3. QED
      BY <1>0, <3>1, <3>2 DEF InFocus
  <2>3. QED
    BY <2>1, <2>2
<1>11. CASE \/ FilterNext \/ FilterPrev \/ FilterToggle
            \/ FilterEdit \/ FilterEditDone \/ FilterInput \/ FilterBackspace
  <2>1. mode' = "Filter"
    BY <1>0, <1>11, KeyIs DEF FilterNext, FilterPrev, FilterMove, FilterToggle, FilterEdit,
       FilterEditDone, FilterInput, FilterBackspace, FieldEdited
  <2>2. QED
    BY <2>1 DEF InFocus, Settled
<1>12. CASE \/ UNCHANGED vars \/ NoKey \/ Quit \/ IndexingThread \/ Exited
            \/ BackToList \/ ExportStart \/ ExportCancel \/ ExportConfirm \/ ToggleHelp
  <2>1. UNCHANGED <<selected, results, filter, matched, stars>>
    BY <1>12 DEF vars, NoKey, Quit, IndexingThread, Send, Exited, BackToList, ExportStart, ExportCancel,
       ExportConfirm, ToggleHelp, Go, search, panel, list
  <2>2. mode' = mode \/ Settled
    BY <1>0, <1>12, KeyIs DEF vars, NoKey, Quit, IndexingThread, Send, Exited, BackToList, ExportStart,
       ExportCancel, ExportConfirm, ToggleHelp, Go, Settled
  <2>3. QED
    BY <1>0, <2>1, <2>2, KeptFocus DEF Settled
<1>13. QED
  BY <1>1, <1>2, <1>3, <1>4, <1>5, <1>6, <1>7, <1>8, <1>9, <1>10, <1>11, <1>12 DEF Next

LEMMA FocusInit == Init => FocusInv
BY NumbersAre DEF Init, FocusInv, Clamped, InFocus, Numbers

\* Whenever a key can be pressed in Browse mode, a list with sessions has one of
\* them selected, so that the arrow keys and Enter work (app/navigation.rs).
THEOREM FocusCorrect == Spec => []BrowseHasFocus
<1>1. Typed /\ FocusInv => BrowseHasFocus
  <2> SUFFICES ASSUME Typed, FocusInv, at = "poll", mode = "Browse"
               PROVE  selected = 0 <=> Display = <<>>
    BY DEF BrowseHasFocus
  <2>1. (Display = <<>> <=> Passing = {}) /\ selected \in Nat
    BY DisplayIs, NumbersAre DEF Typed, SearchTyped, ListTyped, Numbers
  <2>2. selected <= Len(Display) /\ (selected = 0 => Passing = {})
    BY DEF FocusInv, Clamped, InFocus, Settled
  <2>3. Display = <<>> => Len(Display) = 0
    OBVIOUS
  <2>4. QED
    BY <2>1, <2>2, <2>3
<1>2. Typed /\ Typed' /\ ResultsInv /\ MatchedInv /\ FocusInv /\ [Next]_vars => FocusInv'
  BY ClampedStep, InFocusStep DEF FocusInv
<1>3. QED
  BY <1>1, <1>2, TypedInit, TypedStep, ListInit, ResultsStep, MatchedStep, FocusInit, PTL DEF Spec
(***************************************************************************)
(* Reading.  While a session is read the list and the selection change     *)
(* only by the two exceptions, and the cache only gains or reorders.       *)
(***************************************************************************)
KeptOpen ==
  Reading /\ Reading' /\ Focused # 0 =>
    \/ Focused' = Focused /\ (Focused \in Range(cache) => Focused \in Range(cache'))
    \/ filter.starred /\ stars' # stars
    \/ matched' # matched

\* A step that leaves the list alone and moves no selection that is in it.
LEMMA SameList ==
  ASSUME Typed, Focused # 0, UNCHANGED <<results, filter, matched>>,
         stars' = stars \/ ~filter.starred,
         selected' = selected \/ selected' = IF selected > Len(Display) THEN Len(Display) ELSE selected
  PROVE  Focused' = Focused
<1>1. Display' = Display
  BY SameDisplay
<1>2. selected \in Nat /\ Len(Display) \in Nat
  BY DisplayIs, NumbersAre DEF Typed, SearchTyped, ListTyped, Numbers
<1>3. selected \in 1 .. Len(Display)
  BY <1>2, FocusedIs DEF Typed, SearchTyped
<1>4. selected' = selected
  BY <1>2, <1>3
<1>5. QED
  BY <1>1, <1>4 DEF Focused

LEMMA KeptOpenStep ==
  ASSUME Typed, Typed', [Next]_vars
  PROVE  KeptOpen
<1> USE Bindings
<1> SUFFICES ASSUME Reading, Reading', Focused # 0, matched' = matched,
                    ~(filter.starred /\ stars' # stars)
             PROVE  Focused' = Focused /\ (Focused \in Range(cache) => Focused \in Range(cache'))
  BY DEF KeptOpen
<1>0. /\ mode \in {"ViewSession", "ExportMenu", "Help"} /\ mode \in Modes /\ ~pending
      /\ (stars' = stars \/ ~filter.starred) /\ Cached(cache)
  <2>1. mode \in {"ViewSession", "ExportMenu", "Help"} /\ mode \in Modes
    BY DEF Reading, Modes
  <2>2. ~pending /\ Cached(cache)
    BY <2>1 DEF Typed, ModeTyped, ListTyped
  <2>3. QED
    BY <2>1, <2>2
<1>1. CASE UNCHANGED <<results, filter, stars, selected, cache>>
  BY <1>1, SameList
<1>2. CASE Draw
  <2>1. Focused' = Focused
    BY <1>2, SameList DEF Draw, search, panel
  <2>2. cache' = Touched(cache, Focused')
    BY <1>2 DEF Draw
  <2>3. QED
    BY <1>0, <2>1, <2>2, TouchedCached
<1>3. CASE Tick
  <2>1. UNCHANGED <<results, filter, stars, selected, cache>>
    BY <1>0, <1>3 DEF Tick, panel
  <2>2. QED
    BY <1>1, <2>1
<1>4. CASE ToggleStar \/ ToggleStarUnsaved
  <2>1. UNCHANGED <<results, filter>>
    BY <1>4 DEF ToggleStar, ToggleStarUnsaved, search, panel
  <2>2. Display' = Display
    BY <1>0, <2>1, SameDisplay
  <2>3. selected' = selected \/ selected' = IF selected > Len(Display) THEN Len(Display) ELSE selected
    BY <1>4, <2>2 DEF ToggleStar, ToggleStarUnsaved, Select, list
  <2>4. Focused' = Focused
    BY <1>0, <2>1, <2>3, SameList
  <2>5. cache' = cache \/ cache' = Loaded(cache, Focused)
    BY <1>4, <2>4 DEF ToggleStar, ToggleStarUnsaved, Select, Preload, list
  <2>6. QED
    BY <1>0, <2>4, <2>5, LoadedCached
<1>5. CASE ExportConfirm
  <2>1. cache' = Touched(cache, Focused) /\ UNCHANGED <<results, filter, stars, selected>>
    BY <1>5 DEF ExportConfirm, search, panel
  <2>2. Focused' = Focused
    BY <2>1, SameList
  <2>3. QED
    BY <1>0, <2>1, <2>2, TouchedCached
<1>6. CASE \/ UNCHANGED vars \/ NoKey \/ Quit \/ IndexingThread \/ Exited \/ Receive
           \/ BackToList \/ ExportStart \/ ExportCancel \/ ToggleHelp
  <2>1. UNCHANGED <<results, filter, stars, selected, cache>>
    BY <1>6 DEF vars, NoKey, Quit, IndexingThread, Send, Exited, Receive, BackToList, ExportStart,
       ExportCancel, ToggleHelp, Go, search, panel, list
  <2>2. QED
    BY <1>1, <2>1
\* No other key is bound while a session is read.
<1>7. CASE \/ SearchStart \/ SearchInput \/ SearchBackspace \/ SearchCancel \/ ToggleHybrid
           \/ SelectSession \/ NextItem \/ PrevItem \/ GoToTop \/ GoToBottom
  BY <1>0, <1>7, KeyIs DEF SearchStart, SearchInput, SearchBackspace, SearchCancel, ToggleHybrid,
     SelectSession, NextItem, PrevItem, GoToTop, GoToBottom, Move
<1>8. CASE \/ ToggleFilter \/ FilterNext \/ FilterPrev \/ FilterToggle
           \/ FilterEdit \/ FilterEditDone \/ FilterInput \/ FilterBackspace
  BY <1>0, <1>8, KeyIs DEF ToggleFilter, FilterNext, FilterPrev, FilterMove, FilterToggle, FilterEdit,
     FilterEditDone, FilterInput, FilterBackspace, FieldEdited
<1>9. QED
  BY <1>2, <1>3, <1>4, <1>5, <1>6, <1>7, <1>8 DEF Next

\* The session being read stays on screen and its messages stay loaded, unless a
\* star is removed in a starred-only list or the message filter is resolved
\* (app/navigation.rs, app/messages.rs).
THEOREM ReadingCorrect == Spec => ReadingStable
<1>1. KeptOpen => [KeptOpen]_vars
  OBVIOUS
<1>2. Typed /\ Typed' /\ [Next]_vars => KeptOpen
  BY KeptOpenStep
<1>3. QED
  BY <1>2, TypedInit, TypedStep, PTL DEF Spec, ReadingStable, KeptOpen
=============================================================================
