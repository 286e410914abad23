------------------------------- MODULE TuiApp ------------------------------
(***************************************************************************)
(* The terminal UI: one App whose event loop draws, polls one key and      *)
(* dispatches the action it is bound to, drains the channel the indexing   *)
(* thread sends to, and ticks the debounced search.  What makes it hard is *)
(* what the pieces share: the visible list is computed from the search     *)
(* results, the filter panel, the starred set and the sessions that match  *)
(* a message-level filter, while the selection is only an index into it.   *)
(*                                                                         *)
(* Sessions are numbered in list order.  A query is the number of its      *)
(* characters: the user types one string, Hits gives what it matches.      *)
(* Scrolling, the tool-call toggles, the export menu's cursor and the      *)
(* status and warning texts are left out.                                  *)
(***************************************************************************)
EXTENDS Naturals, Sequences, SequencesExt, Subsequences

CONSTANTS
  Count,         \* number of discovered sessions
  MaxQuery,      \* bound: characters of the search query
  MaxProject,    \* bound: characters of the project filter
  MaxChan,       \* bound: messages in the action channel
  MaxStars,      \* bound: starred sessions
  Hits,          \* Hits[engine][n]: sessions found by the first n characters
  Failed,        \* the query does not parse, or hybrid search falls back
  Rows,          \* the rows of the filter panel, from top to bottom
  HiddenBy,      \* HiddenBy[p]: sessions hidden when provider row p is off
  InProject,     \* InProject[n]: sessions matching n characters of a project
  Having,        \* Having[role, tool]: sessions matching a message filter
  Readable,      \* sessions whose messages load
  CacheSize,     \* capacity of the message cache
  HybridAvailable

Modes == {"Browse", "ViewSession", "Search", "Help", "Filter", "ExportMenu"}
ValueRows == {"project", "from", "to", "role", "tool", "starred"}
ProviderRows == Range(Rows) \ ValueRows
Sessions == 1 .. Count
All == [i \in Sessions |-> i]

\* The role filter: each setting and the next.
CycleRole == [none |-> "user", user |-> "assistant", assistant |-> "tool", tool |-> "none"]

ASSUME TuiAssumption ==
  /\ {Count, MaxQuery, MaxProject, MaxChan} \subseteq Nat
  /\ {MaxStars, CacheSize} \subseteq Nat \ {0}
  /\ Rows \in Seq(Range(Rows)) /\ Rows # <<>> /\ DOMAIN HiddenBy = ProviderRows
  /\ HybridAvailable \in BOOLEAN
  /\ \A r \in DOMAIN CycleRole, t \in BOOLEAN : Having[r, t] \subseteq Sessions
  \* The sessions found are sessions of the list, each of them once.
  /\ \A e \in {"lexical", "hybrid"}, n \in 1 .. MaxQuery : Hits[e][n] # Failed =>
       Hits[e][n] \in Seq(Sessions) /\ IsInjective(Hits[e][n])
  /\ \A n \in 1 .. MaxQuery : Hits["lexical"][n] = Failed => Hits["hybrid"][n] = Failed

VARIABLES
  mode,        \* AppMode
  beneath,     \* the mode help was opened from
  query,       \* length of the search query
  pending,     \* is a debounced search queued?
  results,     \* the search results, while a search restricts the list
  engine,      \* the engine named beside the results
  hybrid,      \* the hybrid toggle
  filter,      \* settings of the filter panel
  row,         \* the panel's cursor
  editing,     \* the panel field being edited, "none" otherwise
  matched,     \* the sessions of the message-level filter, once resolved
  stars,       \* starred sessions, in memory
  selected,    \* selected row of the list, 0 for none
  cache,       \* sessions with cached messages, most recently used first
  ready,       \* has the index been built?
  progress,    \* is an index progress shown?
  chan,        \* actions sent by the indexing thread
  indexing,    \* is the indexing thread still running?
  at,          \* where the event loop is
  quit         \* should_quit

search == <<query, pending, results, engine, hybrid>>
panel == <<filter, row, editing, matched>>
list == <<selected, cache>>
background == <<ready, progress, chan, indexing>>
vars == <<mode, beneath, query, pending, results, engine, hybrid, filter, row, editing,
          matched, stars, selected, cache, ready, progress, chan, indexing, at, quit>>

Off == [on |-> FALSE, ids |-> <<>>]
Unmatched == [on |-> FALSE, ids |-> {}]
NoFilter == [hidden |-> {}, project |-> 0, role |-> "none", tool |-> FALSE, starred |-> FALSE]

----------------------------------------------------------------------------
(***************************************************************************)
(* The visible list.                                                       *)
(***************************************************************************)
HasMessageFilter(f) == f.role # "none" \/ f.tool

\* FilterState::matches, the starred-only switch and the message filter; with
\* no setting active none of them applies.
Passes(s) ==
  /\ \A p \in filter.hidden : s \notin HiddenBy[p]
  /\ filter.project # 0 => s \in InProject[filter.project]
  /\ filter.starred => s \in stars
  /\ matched.on /\ filter # NoFilter => s \in matched.ids

Base == IF results.on THEN results.ids ELSE All
Display == Picked(Base, {i \in DOMAIN Base : Passes(Base[i])})
Focused == IF selected \in 1 .. Len(Display) THEN Display[selected] ELSE 0

\* load_messages_cached: messages that are not cached are read and put in front.
Loaded(c, s) ==
  IF s \notin Readable \/ s \in Range(c) THEN c
  ELSE SubSeq(<<s>> \o c, 1, IF Len(c) < CacheSize THEN Len(c) + 1 ELSE CacheSize)
\* Reading a cached entry makes it the most recently used one: it moves to the
\* front, and those before it move back by one place.
Touched(c, s) ==
  IF s \notin Range(c) THEN c
  ELSE LET k == CHOOSE k \in DOMAIN c : c[k] = s IN
       [i \in DOMAIN c |-> IF i = 1 THEN s ELSE IF i <= k THEN c[i - 1] ELSE c[i]]

\* The focused session after the step gets its messages.
Preload == cache' = Loaded(cache, Focused')
Select(i) == selected' = i /\ Preload

\* (faulty) the selection stays where the previous list left it
SelectFirstNot == UNCHANGED selected
\* The first session of the whole list; unlike Select it preloads nothing.
SelectFirst == selected' = IF Count > 0 THEN 1 ELSE 0

Init ==
  /\ mode = "Browse" /\ beneath = "Browse"
  /\ query = 0 /\ pending = FALSE /\ results = Off
  /\ engine = "lexical" /\ hybrid = HybridAvailable
  /\ filter = NoFilter /\ row = 1 /\ editing = "none" /\ matched = Unmatched
  /\ \E s \in 0 .. Count : stars = {s} \ {0}
  /\ selected = 1 /\ cache = IF Count > 0 THEN Loaded(<<>>, 1) ELSE <<>>
  /\ ready = FALSE /\ progress = FALSE /\ chan = <<>> /\ indexing = TRUE
  /\ at = "draw" /\ quit = FALSE

----------------------------------------------------------------------------
(***************************************************************************)
(* The event loop and the indexing thread.                                 *)
(***************************************************************************)
\* Rendering clamps the selection to the list (the List widget does) and looks
\* up the messages of the focused session.
Draw ==
  /\ at = "draw" /\ at' = "poll"
  /\ UNCHANGED <<mode, beneath, search, panel, stars, background, quit>>
  /\ selected' = IF selected > Len(Display) THEN Len(Display) ELSE selected
  /\ cache' = Touched(cache, Focused')

\* A key is dispatched when the current mode binds it to the action.
Bound(m) ==
  CASE m = "Browse" -> {"NextItem", "PrevItem", "SelectSession", "GoToTop", "GoToBottom",
                        "SearchStart", "ToggleFilter", "ToggleStar", "ToggleHybrid",
                        "ToggleHelp", "Quit"}
    [] m = "ViewSession" -> {"BackToList", "ExportStart", "ToggleStar", "ToggleHelp", "Quit"}
    [] m = "Search" -> {"SearchCancel", "SelectSession", "SearchBackspace", "ToggleHybrid",
                        "PrevItem", "NextItem", "SearchInput", "Quit"}
    [] m = "Help" -> {"ToggleHelp", "Quit"}
    [] m = "Filter" -> IF editing # "none" THEN {"FilterEditDone", "FilterBackspace", "FilterInput"}
                       ELSE {"ToggleFilter", "FilterNext", "FilterPrev", "FilterToggle",
                             "FilterEdit", "Quit"}
    [] m = "ExportMenu" -> {"ExportCancel", "ExportConfirm", "Quit"}

Key(a) ==
  /\ at = "poll" /\ a \in Bound(mode)
  /\ at' = "drain"
  /\ UNCHANGED background
  /\ quit' = (a = "Quit")

\* The poll times out, or the key changes nothing that is modelled.
NoKey ==
  /\ at = "poll" /\ at' = "drain"
  /\ UNCHANGED <<mode, beneath, search, panel, stars, list, background, quit>>

Quit == Key("Quit") /\ UNCHANGED <<mode, beneath, search, panel, stars, list>>

Send(a) ==
  /\ indexing
  /\ Len(chan) < MaxChan
  /\ chan' = Append(chan, a)
  /\ indexing' = (a = "IndexProgress")
  /\ UNCHANGED <<mode, beneath, search, panel, stars, list, ready, progress, at, quit>>
IndexingThread == \E a \in {"IndexProgress", "IndexReady", "LoadError"} : Send(a)

\* recompute_message_filter: unresolved until the index is ready.
Recomputed(f, r) ==
  IF HasMessageFilter(f) /\ r THEN [on |-> TRUE, ids |-> Having[f.role, f.tool]]
  ELSE Unmatched

\* (faulty) a filter set while the index was building is never resolved
ResolvedNot == matched
\* "If a message-level filter was set while the index was still building".
Resolved == IF HasMessageFilter(filter) /\ ~matched.on THEN Recomputed(filter, TRUE) ELSE matched

Receive ==
  /\ at = "drain" /\ chan # <<>>
  /\ chan' = Tail(chan)
  /\ LET a == Head(chan) IN
       /\ progress' = (a = "IndexProgress" \/ (a = "LoadError" /\ progress))
       /\ ready' = (ready \/ a = "IndexReady")
       /\ matched' = IF a = "IndexReady" THEN Resolved ELSE matched
  /\ UNCHANGED <<mode, beneath, search, filter, row, editing, stars, list, indexing, at, quit>>

----------------------------------------------------------------------------
(***************************************************************************)
(* Searching.  Typing only queues a search; execute_search runs it.        *)
(***************************************************************************)
\* Hybrid search falls back to lexical search.
Engine == IF hybrid' /\ Hits["hybrid"][query] # Failed THEN "hybrid" ELSE "lexical"

ExecuteSearch ==
  \/ /\ query = 0
     /\ results' = Off
     /\ engine' = IF hybrid' THEN "hybrid" ELSE "lexical"
     /\ SelectFirst
  \/ /\ query # 0 /\ ~ready
     /\ UNCHANGED <<results, engine, selected>>
  \/ /\ query # 0 /\ ready /\ Hits[Engine][query] = Failed
     /\ results' = Off
     /\ UNCHANGED <<engine, selected>>
  \/ /\ query # 0 /\ ready /\ Hits[Engine][query] # Failed
     /\ results' = [on |-> TRUE, ids |-> Hits[Engine][query]]
     /\ engine' = Engine
     /\ selected' = IF Display' = <<>> THEN 0 ELSE 1

\* tick, then the loop's exit test; the debounce window may have elapsed.
Tick ==
  /\ at = "drain" /\ chan = <<>>
  /\ UNCHANGED <<mode, beneath, query, hybrid, panel, stars, cache, background, quit>>
  /\ \/ pending /\ pending' = FALSE /\ ExecuteSearch
     \/ UNCHANGED <<pending, results, engine, selected>>
  /\ at' = IF quit THEN "exit" ELSE "draw"

\* (faulty) leaving the search leaves its queued query queued
DropNot == query' = 0 /\ UNCHANGED pending /\ results' = Off
\* The query, its queued search and its results are dropped.
Drop == query' = 0 /\ pending' = FALSE /\ results' = Off

SearchStart ==
  /\ Key("SearchStart")
  /\ mode' = "Search" /\ Drop
  /\ UNCHANGED <<beneath, engine, hybrid, panel, stars, list>>

Queue == pending' = TRUE

SearchInput ==
  /\ Key("SearchInput")
  /\ query < MaxQuery /\ query' = query + 1
  /\ Queue
  /\ UNCHANGED <<mode, beneath, results, engine, hybrid, panel, stars, list>>

SearchBackspace ==
  /\ Key("SearchBackspace")
  /\ query' = IF query > 0 THEN query - 1 ELSE 0
  /\ Queue
  /\ UNCHANGED <<mode, beneath, results, engine, hybrid, panel, stars, list>>

SearchCancel ==
  /\ Key("SearchCancel")
  /\ mode' = "Browse" /\ Drop /\ SelectFirst
  /\ UNCHANGED <<beneath, engine, hybrid, panel, stars, cache>>

ToggleHybrid ==
  /\ Key("ToggleHybrid")
  /\ UNCHANGED <<mode, beneath, query, panel, stars, cache>>
  /\ \/ /\ ~HybridAvailable
        /\ UNCHANGED <<hybrid, engine, pending, results, selected>>
     \/ /\ HybridAvailable /\ query = 0
        /\ hybrid' = ~hybrid /\ engine' = IF hybrid' THEN "hybrid" ELSE "lexical"
        /\ UNCHANGED <<pending, results, selected>>
     \/ /\ HybridAvailable /\ query # 0
        /\ hybrid' = ~hybrid /\ pending' = FALSE /\ ExecuteSearch

\* (faulty) opening a session leaves the queued search queued
FlushNot == UNCHANGED <<pending, results, engine, selected>>
\* A queued search is run before the selection is resolved.
Flush ==
  \/ pending /\ pending' = FALSE /\ ExecuteSearch
  \/ ~pending /\ UNCHANGED <<pending, results, engine, selected>>

\* SelectSession and SearchSubmit.
SelectSession ==
  /\ Key("SelectSession")
  /\ UNCHANGED <<beneath, query, hybrid, panel, stars>>
  /\ Flush
  /\ mode' = IF Focused' # 0 THEN "ViewSession" ELSE mode
  /\ Preload

----------------------------------------------------------------------------
(***************************************************************************)
(* Navigation, stars, help and export.                                     *)
(***************************************************************************)
Move(a, i) ==
  /\ Key(a)
  /\ UNCHANGED <<mode, beneath, search, panel, stars>>
  /\ Select(i)
NextItem == selected # 0 /\ selected < Len(Display) /\ Move("NextItem", selected + 1)
PrevItem == selected > 1 /\ Move("PrevItem", selected - 1)
GoToTop == Display # <<>> /\ Move("GoToTop", 1)
GoToBottom == Display # <<>> /\ Move("GoToBottom", Len(Display))

\* StarStore::toggle, saved: unstarring may shrink the list.
ToggleStar ==
  /\ Key("ToggleStar")
  /\ Focused # 0
  /\ UNCHANGED <<mode, beneath, search, panel>>
  /\ \/ /\ Focused \notin stars /\ Cardinality(stars) < MaxStars
        /\ stars' = stars \cup {Focused}
        /\ UNCHANGED list
     \/ /\ Focused \in stars
        /\ stars' = stars \ {Focused}
        /\ Select(IF selected > Len(Display') THEN Len(Display') ELSE selected)

\* The metadata sidecar refuses: unstarring has already been done in memory.
ToggleStarUnsaved ==
  /\ Key("ToggleStar")
  /\ Focused # 0
  /\ stars' = stars \ {Focused}
  /\ UNCHANGED <<mode, beneath, search, panel, list>>

Go(a, from, to) ==
  /\ Key(a) /\ mode = from /\ mode' = to
  /\ UNCHANGED <<beneath, search, panel, stars, list>>
BackToList == Go("BackToList", "ViewSession", "Browse")
ExportStart == Go("ExportStart", "ViewSession", "ExportMenu")
ExportCancel == Go("ExportCancel", "ExportMenu", "ViewSession")

\* perform_export writes the focused session, if its messages are cached.
ExportConfirm ==
  /\ Key("ExportConfirm")
  /\ mode' = "ViewSession"
  /\ cache' = Touched(cache, Focused)
  /\ UNCHANGED <<beneath, search, panel, stars, selected>>

ToggleHelp ==
  /\ Key("ToggleHelp")
  /\ IF mode = "Help" THEN mode' = beneath /\ UNCHANGED beneath
     ELSE mode' = "Help" /\ beneath' = mode
  /\ UNCHANGED <<search, panel, stars, list>>

----------------------------------------------------------------------------
(***************************************************************************)
(* The filter panel.  Its settings act on the list as soon as they change; *)
(* the selection follows when the panel closes.                            *)
(***************************************************************************)
ToggleFilter ==
  /\ Key("ToggleFilter")
  /\ UNCHANGED <<beneath, search, panel, stars>>
  /\ \/ mode = "Browse" /\ mode' = "Filter" /\ UNCHANGED list
     \/ /\ mode = "Filter" /\ mode' = "Browse"
        /\ Select(IF Display = <<>> THEN 0 ELSE 1)

FilterMove(a, r) ==
  /\ Key(a)
  /\ r \in 1 .. Len(Rows) /\ row' = r /\ editing' = "none"
  /\ UNCHANGED <<mode, beneath, search, filter, matched, stars, list>>
FilterNext == FilterMove("FilterNext", row + 1)
FilterPrev == FilterMove("FilterPrev", row - 1)

Toggled(f, r) ==
  CASE r \in ProviderRows -> [f EXCEPT !.hidden = (f.hidden \ {r}) \cup ({r} \ f.hidden)]
    [] r = "role" -> [f EXCEPT !.role = CycleRole[f.role]]
    [] r = "tool" -> [f EXCEPT !.tool = ~f.tool]
    [] r = "starred" -> [f EXCEPT !.starred = ~f.starred]
    [] OTHER -> f

FilterToggle ==
  /\ Key("FilterToggle")
  /\ filter' = Toggled(filter, Rows[row])
  /\ matched' = IF Rows[row] \in {"role", "tool"} THEN Recomputed(filter', ready) ELSE matched
  /\ UNCHANGED <<mode, beneath, search, row, editing, stars, list>>

\* On a provider row the project field is edited, as the row's offset saturates.
FilterEdit ==
  /\ Key("FilterEdit")
  /\ editing' = CASE Rows[row] \in ProviderRows \cup {"project"} -> "project"
                  [] Rows[row] \in {"from", "to"} -> Rows[row]
                  [] OTHER -> "none"
  /\ UNCHANGED <<mode, beneath, search, filter, row, matched, stars, list>>

FilterEditDone ==
  /\ Key("FilterEditDone")
  /\ editing' = "none"
  /\ UNCHANGED <<mode, beneath, search, filter, row, matched, stars, list>>

\* A date is parsed after every character typed into an empty field, and one
\* character never parses: the date fields keep no text and stay unset.
FieldEdited(a, n) ==
  /\ Key(a)
  /\ filter' = IF editing = "project" THEN [filter EXCEPT !.project = n] ELSE filter
  /\ UNCHANGED <<mode, beneath, search, row, editing, matched, stars, list>>
FilterInput == filter.project < MaxProject /\ FieldEdited("FilterInput", filter.project + 1)
FilterBackspace ==
  FieldEdited("FilterBackspace", IF filter.project > 0 THEN filter.project - 1 ELSE 0)

----------------------------------------------------------------------------
Exited == at = "exit" /\ UNCHANGED vars

Next ==
  \/ Draw \/ NoKey \/ Quit \/ IndexingThread \/ Receive \/ Tick \/ Exited
  \/ SearchStart \/ SearchInput \/ SearchBackspace \/ SearchCancel \/ ToggleHybrid
  \/ SelectSession \/ NextItem \/ PrevItem \/ GoToTop \/ GoToBottom
  \/ ToggleStar \/ ToggleStarUnsaved
  \/ BackToList \/ ExportStart \/ ExportCancel \/ ExportConfirm \/ ToggleHelp
  \/ ToggleFilter \/ FilterNext \/ FilterPrev \/ FilterToggle
  \/ FilterEdit \/ FilterEditDone \/ FilterInput \/ FilterBackspace
Spec == Init /\ [][Next]_vars

----------------------------------------------------------------------------
(***************************************************************************)
(* Properties.                                                             *)
(***************************************************************************)
Filters == [hidden : SUBSET ProviderRows, project : 0 .. MaxProject,
            role : DOMAIN CycleRole, tool : BOOLEAN, starred : BOOLEAN]

\* Ranges of the variables, and what the modes leave behind: a search is queued
\* only while typing, a field is edited only in the panel.
TypeOK ==
  /\ mode \in Modes /\ beneath \in {"Browse", "ViewSession"}
  /\ query \in 0 .. MaxQuery /\ engine \in {"lexical", "hybrid"}
  /\ results.on \in BOOLEAN /\ Range(results.ids) \subseteq Sessions
  /\ hybrid \in BOOLEAN /\ (hybrid => HybridAvailable)
  /\ filter \in Filters /\ row \in 1 .. Len(Rows)
  /\ matched.on \in BOOLEAN /\ matched.ids \subseteq Sessions
  /\ stars \subseteq Sessions /\ Cardinality(stars) <= MaxStars
  /\ selected \in 0 .. Count + 1 /\ Range(cache) \subseteq Readable
  /\ Len(cache) <= CacheSize /\ Cardinality(Range(cache)) = Len(cache)
  /\ ready \in BOOLEAN /\ progress \in BOOLEAN /\ Len(chan) <= MaxChan
  /\ at \in {"draw", "poll", "drain", "exit"} /\ quit \in BOOLEAN
  /\ pending \in BOOLEAN /\ (pending => mode = "Search")
  /\ editing \in {"none", "project", "from", "to"} /\ (editing # "none" => mode = "Filter")

ResultsMatchQuery ==
  results.on /\ ~pending =>
    /\ query # 0
    /\ engine = IF hybrid /\ Hits["hybrid"][query] # Failed THEN "hybrid" ELSE "lexical"
    /\ results.ids = Hits[engine][query]

MessageFilterApplied ==
  ready /\ HasMessageFilter(filter) => matched = Recomputed(filter, TRUE)

\* The list is what the screen says it is.  Results that restrict it are those of
\* the query on screen under the current hybrid toggle, and the engine label
\* names the engine that found them, unless a queued search is about to replace
\* them (execute_search, ToggleHybrid); and once the index is ready it honours
\* the role and tool-call settings, also when they were chosen while the index
\* was still building.
ListIsCurrent == ResultsMatchQuery /\ MessageFilterApplied

Reading == mode \in {"ViewSession", "ExportMenu"} \/ (mode = "Help" /\ beneath = "ViewSession")

\* The session being read stays on screen until the reader leaves, and messages
\* once loaded stay loaded, with two exceptions: a star removed in a
\* starred-only list and a message filter resolved when the index becomes ready.
ReadingStable ==
  [][Reading /\ Reading' /\ Focused # 0 =>
       \/ Focused' = Focused /\ (Focused \in Range(cache) => Focused \in Range(cache'))
       \/ filter.starred /\ stars' # stars
       \/ matched' # matched]_vars

\* Whenever a key can be pressed in Browse mode, a list with sessions has one
\* of them selected, so that the arrow keys and Enter work.
BrowseHasFocus == at = "poll" /\ mode = "Browse" => (selected = 0 <=> Display = <<>>)

\* "Keystrokes within this window coalesce into a single Tantivy query, run on
\* the next event-loop tick": a query that is no longer queued has been run,
\* so with the index ready the list shows its results.
QueryNotForgotten ==
  mode = "Search" /\ query # 0 /\ ~pending /\ ready =>
    results.on \/ Hits["lexical"][query] = Failed
============================================================================
