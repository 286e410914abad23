---------------------------- MODULE SearchPaging ----------------------------
(***************************************************************************)
(* Reading a result set that changes while it is read: the keyset pages of *)
(* `search` and `--list`, and the poll loop of `search --watch`.           *)
(*                                                                         *)
(* A hit stands for a matching message or note of `search`, or a session   *)
(* of `--list`; its score for what the sort compares first (the relevance, *)
(* or the start time). Every request reads the index anew, so other        *)
(* commands may add, remove and re-rank hits between two requests. Readers *)
(* leave each other alone, so a behaviour has one: a paging client or a    *)
(* watching command.                                                       *)
(***************************************************************************)
EXTENDS Integers, FiniteSets

CONSTANTS
  Hits,           \* whatever may ever match
  Rank,           \* the order among equal scores, by the remaining sort keys
  MaxScore,       \* scores are 1..MaxScore; 0 says the hit does not match
  Hidden,         \* hits of providers this command does not read
  Limits,         \* the page sizes a client asks for
  WatchLimit,     \* --limit of the watching command
  MaxIterations,  \* bound on --max-iterations
  MaxShifts,      \* bound on the changes of the result set
  NoCursor, Forever

ASSUME ConstantsAssumption ==
  /\ IsFiniteSet(Hits)
  /\ Rank \in [Hits -> Nat]
  /\ \A g, h \in Hits : g # h => Rank[g] # Rank[h]
  /\ MaxScore \in Nat
  /\ Hidden \subseteq Hits
  /\ Limits \subseteq Nat \ {0}
  /\ WatchLimit \in Nat \ {0}
  /\ MaxIterations \in Nat
  /\ MaxShifts \in Nat
  /\ NoCursor \notin [score : 0..MaxScore, hit : Hits]
  /\ Forever \notin Nat

VARIABLES
  score,     \* what matches now, and how well
  shifts,    \* how often that has changed
  walk,      \* the paging client: none, not started, holding a cursor, at the end
  plain,     \* it searches without a filter that is applied after the index
  cursor,    \* the next_cursor it was given last
  page,      \* the keys of the last page it was given
  earlier,   \* the keys of the pages before
  pooled,    \* history: the keys the index returned for the first page
  stable,    \* history: hits there at the first page and unchanged since
  watching,  \* the watching command is running
  left,      \* how many polls it has left
  seen       \* the hits it has written

walker == <<walk, plain, cursor, page, earlier, pooled>>
watcher == <<watching, left, seen>>
vars == <<score, shifts, walker, stable, watcher>>

Keys == [score : 0..MaxScore, hit : Hits]

TypeOK ==
  /\ score \in [Hits -> 0..MaxScore]
  /\ shifts \in 0..MaxShifts
  /\ walk \in {"none", "idle", "paging", "done"}
  /\ plain \in BOOLEAN
  /\ cursor \in Keys \cup {NoCursor}
  /\ page \subseteq Keys /\ earlier \subseteq Keys /\ pooled \subseteq Keys
  /\ stable \subseteq Hits
  /\ watching \in BOOLEAN
  /\ left \in 0..MaxIterations \cup {Forever}
  /\ watching => left # 0
  /\ seen \subseteq Hits

Init ==
  /\ score \in [Hits -> 0..MaxScore]
  /\ shifts = 0
  /\ plain = FALSE /\ cursor = NoCursor
  /\ page = {} /\ earlier = {} /\ pooled = {} /\ stable = {} /\ seen = {}
  /\ \/ walk = "idle" /\ watching = FALSE /\ left = 0
     \/ walk = "none" /\ watching = TRUE /\ left \in 1..MaxIterations \cup {Forever}

----------------------------------------------------------------------------
Key(h) == [score |-> score[h], hit |-> h]

\* The canonical order, which the sort and the cursor test share.
Before(k, l) ==
  \/ k.score > l.score
  \/ k.score = l.score /\ Rank[k.hit] < Rank[l.hit]

\* The first n of some hits, in canonical order.
First(H, n) == {h \in H : Cardinality({g \in H : Before(Key(g), Key(h))}) < n}

Matching == {h \in Hits : score[h] > 0}

\* What is left of the hits of the index when those of sessions that the
\* command did not discover are dropped.
Current(H) == H \ Hidden

\* SearchCollection::Top: the index keeps n hits of the highest score and
\* breaks ties by document address, which is any order here.
TopPools(n) ==
  {P \in SUBSET Matching :
     /\ Cardinality(P) = IF n < Cardinality(Matching) THEN n ELSE Cardinality(Matching)
     /\ \A g \in P, h \in Matching \ P : score[g] >= score[h]}

\* The hits behind the cursor. A mutation for WalkEnds: only the item that the
\* cursor names is passed over.
AfterCursorElsewhere(H) == {h \in H : cursor = NoCursor \/ cursor # Key(h)}
AfterCursor(H) == {h \in H : cursor = NoCursor \/ Before(cursor, Key(h))}

\* page_end < len. A mutation for NothingSkipped: an off-by-one.
HasMoreThanOne(result, rest) == Cardinality(result) + 1 < Cardinality(rest)
HasMore(result, rest) == result # rest

\* The hit a cursor is made of. A mutation for PagesInOrder: the page's first.
IsFirst(k, H) == \A h \in H : h = k \/ Before(Key(k), Key(h))
IsLast(k, H) == \A h \in H : h = k \/ Before(Key(h), Key(k))

\* How many hits a plain search asks of the index for a page of n: one more
\* tells it whether there is more. A mutation for SkippedOnlyAtTheCut: n.
CandidatesExact(n) == n
Candidates(n) == n + 1

----------------------------------------------------------------------------
(* The paging client                                                       *)

\* The answer to a request: up to n hits after the cursor, and the key of the
\* last one as the next cursor if that is not all.
Answer(hits, n) ==
  LET rest == AfterCursor(hits)
      result == First(rest, n)
  IN /\ page' = {Key(h) : h \in result}
     /\ earlier' = earlier \cup page
     /\ \/ /\ ~HasMore(result, rest)
           /\ walk' = "done" /\ cursor' = NoCursor
        \/ /\ HasMore(result, rest)
           /\ walk' = "paging"
           /\ \E last \in result : IsLast(last, result) /\ cursor' = Key(last)

\* A first page with a project filter, metadata keys or hybrid ranking, and
\* every first page of --list: all that matches is collected.
FirstPageFull ==
  /\ walk = "idle"
  /\ \E n \in Limits : Answer(Current(Matching), n)
  /\ plain' = FALSE
  /\ stable' = Current(Matching)
  /\ UNCHANGED <<score, shifts, pooled, watcher>>

\* A first page of a plain search: some best hits are asked of the index, and
\* those the command does not read are dropped afterwards.
FirstPageTop ==
  /\ walk = "idle"
  /\ \E n \in Limits : \E pool \in TopPools(Candidates(n)) :
       /\ Answer(Current(pool), n)
       /\ pooled' = {Key(h) : h \in pool}
  /\ plain' = TRUE
  /\ stable' = Current(Matching)
  /\ UNCHANGED <<score, shifts, watcher>>

\* Every page that continues from a cursor collects all that matches.
NextPage ==
  /\ walk = "paging"
  /\ \E n \in Limits : Answer(Current(Matching), n)
  /\ UNCHANGED <<score, shifts, plain, pooled, stable, watcher>>

----------------------------------------------------------------------------
(* The watching command                                                    *)

\* A mutation for WatchCatchesUp: what was seen takes up the candidates.
WatchCandidateLimitFixed == WatchLimit
WatchCandidateLimit == WatchLimit + Cardinality(seen)

\* What a poll writes.
Written(candidates) == First(candidates \ seen, WatchLimit)

\* A mutation for TypeOK: --max-iterations is overrun by one.
LastPollOverrun == left = 0
LastPoll == left = 1

\* One poll: of the candidates, the first that are new are written.
Poll ==
  /\ watching
  /\ seen' = seen \cup Written(First(Current(Matching), WatchCandidateLimit))
  /\ IF left = Forever
       THEN UNCHANGED <<watching, left>>
       ELSE left' = left - 1 /\ watching' = ~LastPoll
  /\ UNCHANGED <<score, shifts, walker, stable>>

\* Nobody reads its output any more, or a search fails: the command returns.
StopWatch ==
  /\ watching
  /\ watching' = FALSE
  /\ UNCHANGED <<score, shifts, walker, stable, left, seen>>

----------------------------------------------------------------------------
\* Other commands change the index: documents come, go and change their score.
Shift ==
  /\ shifts < MaxShifts
  /\ shifts' = shifts + 1
  /\ score' \in [Hits -> 0..MaxScore]
  /\ stable' = {h \in stable : score'[h] = score[h]}
  /\ UNCHANGED <<walker, watcher>>

Next == FirstPageFull \/ FirstPageTop \/ NextPage \/ Poll \/ StopWatch \/ Shift

\* The client keeps following the cursors; the watching command keeps polling.
Spec == Init /\ [][Next]_vars /\ WF_vars(NextPage) /\ WF_vars(Poll)

----------------------------------------------------------------------------
Delivered == earlier \cup page

\* However the results shift between two requests, each page lies behind all
\* pages before it: a hit is delivered a second time only if it has fallen.
PagesInOrder == \A k \in earlier, l \in page : Before(k, l)

\* A client that reached the end of a fully collected walk was given every
\* hit that was there, unchanged, all the time (cursor.rs).
NothingSkipped ==
  walk = "done" /\ ~plain => \A h \in stable : Key(h) \in Delivered

\* A plain search loses a hit only at the cut of its first page: one that ties
\* with a hit of the first pool, or one behind a pool that was shortened by
\* hits of other providers and therefore ended the walk (services/search.rs).
SkippedOnlyAtTheCut ==
  walk = "done" /\ plain =>
    \A h \in stable :
      \/ Key(h) \in Delivered
      \/ /\ Key(h) \notin pooled
         /\ \/ \E k \in pooled : k.score = score[h]
            \/ earlier = {} /\ \E k \in pooled : k.hit \in Hidden

\* What the head of cursor.rs promises of every walk: nothing is skipped.
CursorsSkipNothing ==
  walk = "done" => \A h \in stable : Key(h) \in Delivered

\* A client that follows the cursors gets to an end even if results shift.
WalkEnds == walk = "paging" ~> walk = "done"

\* A hit that comes and stays is written sooner or later, unless the command
\* is stopped or reaches its last iteration.
WatchCatchesUp ==
  walk = "none" =>
    \A h \in Hits :
      <>[](h \in Current(Matching)) => <>(h \in seen \/ ~watching)
=============================================================================
