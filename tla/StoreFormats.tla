---------------------------- MODULE StoreFormats ----------------------------
(***************************************************************************)
(* The readers of history kept otherwise: Gemini, Cline and Zed rewrite    *)
(* one JSON value per conversation, OpenCode one file per message and per  *)
(* part of one, Cursor rows of a database.                                 *)
(***************************************************************************)
EXTENDS Parsers

CONSTANT MaxRows    \* MAX_CURSOR_MESSAGE_ROWS

ASSUME MaxRowsAssumption == MaxRows \in Nat

-----------------------------------------------------------------------------
(* Gemini.                                                                 *)

GeminiRole == [user |-> "user", gemini |-> "assistant"]

\* A response is kept with the call it answers.
GeminiBlocks(r) ==
    TextBlocks(r.text) \o Part(r, "thought") \o Part(r, "call")
        \o (IF "call" \in r.parts THEN Part(r, "result") ELSE <<>>)

GeminiOutcome(i, r) ==
    IF r.type \notin DOMAIN GeminiRole THEN LeftOut("skipped")
    ELSE ShownUnlessEmpty(i, GeminiRole[r.type], GeminiBlocks(r), Time(i, r, i - 1))

GeminiLoad(disk) ==
    VisitArray(disk, [i \in DOMAIN disk.recs |-> GeminiOutcome(i, disk.recs[i])])

GeminiSession(disk) ==
    LET said == Those(disk.recs, DOMAIN GeminiRole)
    IN  IF \/ disk.half # "no"
           \/ said = {}
           \/ "dated" \notin disk.meta /\ ~\E i \in said : Dated(disk.recs[i])
        THEN NoSession
        ELSE Session(1, Cardinality(said))

-----------------------------------------------------------------------------
(* Cline.  Listing a task reads all of it; one that cannot be read is      *)
(* listed with no messages.  Times follow on the start, as Continue's do.  *)

\* The start is in task_metadata.json, or is the name of the task's directory.
ClineStart(disk) == IF "dated" \in disk.meta THEN Start + 1 ELSE Start

ClineOutcome(i, r, start) ==
    IF r.type \notin {"user", "assistant"} THEN LeftOut("skipped")
    ELSE ShownUnlessEmpty(i, r.type, AnthropicBlocks(r), start + i - 1)

ClineLoad(disk, start) ==
    VisitArray(disk, [i \in DOMAIN disk.recs |-> ClineOutcome(i, disk.recs[i], start)])

ClineSession(disk) ==
    IF disk.recs = <<>> THEN NoSession
    ELSE Session(1, Len(ClineLoad(disk, ClineStart(disk)).turns))

-----------------------------------------------------------------------------
(* Zed.  A message without text is counted as empty and shown all the      *)
(* same; the list counts every entry.                                      *)

ZedRole ==
    [user |-> "user", human |-> "user", assistant |-> "assistant", model |-> "assistant",
     system |-> "system", tool |-> "tool"]

ZedOutcome(i, r) ==
    IF r.type \notin DOMAIN ZedRole THEN LeftOut("skipped")
    ELSE [Shown(i, ZedRole[r.type], TextBlocks(r.text), Time(i, r, i - 1))
            EXCEPT !.why = IF TextBlocks(r.text) = <<>> THEN "empty" ELSE "none"]

ZedLoad(disk) ==
    VisitArray(disk, [i \in DOMAIN disk.recs |-> ZedOutcome(i, disk.recs[i])])

ZedSession(disk) ==
    IF disk.half # "no" \/ disk.recs = <<>> THEN NoSession ELSE Session(1, Len(disk.recs))

-----------------------------------------------------------------------------
(* OpenCode.  The files of a directory come in no order, so the load sorts *)
(* by time; a message without one gets its file's.  Files of one time are  *)
(* taken in the order they were made.                                      *)

Before(s, t) == s.at < t.at \/ (s.at = t.at /\ s.rec < t.rec)
Sorted(turns) ==
    LET Rank(k) == Cardinality({j \in DOMAIN turns : Before(turns[j], turns[k])})
    IN  [i \in DOMAIN turns |-> turns[CHOOSE k \in DOMAIN turns : Rank(k) = i - 1]]

OpenCodePartBlocks(r) == Part(r, "said") \o Part(r, "call") \o Part(r, "result")

\* Parts first; the fields of the old format when they give nothing, then the
\* title of the summary.
OpenCodeBlocks(r) ==
    LET old == TextBlocks(r.text) \o Part(r, "change")
    IN  IF OpenCodePartBlocks(r) # <<>> THEN OpenCodePartBlocks(r)
        ELSE IF old # <<>> THEN old ELSE Part(r, "title")

OpenCodeOutcome(i, r, torn) ==
    CASE r = Bad \/ torn -> LeftOut("error")
      [] r # Bad /\ ~torn /\ r.type \notin {"user", "assistant"} -> LeftOut("skipped")
      [] OTHER -> ShownUnlessEmpty(i, r.type, OpenCodeBlocks(r), Time(i, r, Start + i))

OpenCodeLoad(disk) ==
    LET found == Gather([i \in DOMAIN disk.recs |->
                    OpenCodeOutcome(i, disk.recs[i],
                                    i = Len(disk.recs) /\ disk.half # "no")])
    IN  [found EXCEPT !.turns = Sorted(@)]

\* The list counts message files without opening one.
OpenCodeSession(disk) ==
    IF "dated" \in disk.meta THEN Session(1, Len(disk.recs)) ELSE NoSession

-----------------------------------------------------------------------------
(* Cursor.  The composer row gives the order of the bubbles it names, as   *)
(* often as it names them; the bubbles it does not name follow, by time.   *)
(* A bubble may leave its type to the composer row.                        *)

\* A row with a value of more than 16 MiB is read by nobody.
Huge == [Bad EXCEPT !.type = "huge"]
Sized(disk) == {i \in DOMAIN disk.recs : disk.recs[i] # Huge}

CursorRole == [user |-> "user", assistant |-> "assistant"]

CursorBlocks(r) ==
    TextBlocks(r.text) \o Part(r, "code") \o Part(r, "call")
        \o (IF "call" \in r.parts THEN Part(r, "result") ELSE <<>>)

\* An empty bubble is counted as empty and shown all the same.
Bubble(i, r, listed, idx) ==
    LET type == IF r.type = "unsaid" /\ listed THEN "assistant" ELSE r.type
        turn == Shown(i, type, CursorBlocks(r), Time(i, r, idx))
    IN  CASE r = Bad -> LeftOut("error")
          [] r # Bad /\ type \notin DOMAIN CursorRole -> LeftOut("skipped")
          [] OTHER -> [turn EXCEPT !.why = IF CursorBlocks(r) = <<>> THEN "empty" ELSE "none"]

\* The places of the composer row whose bubble is read: a bubble without a row,
\* and what is named beyond the limit, is not there.
Named(disk) ==
    {k \in DOMAIN disk.head :
        "huge" \notin disk.meta /\ k <= MaxRows /\ disk.head[k] \in Sized(disk)}
CursorListed(disk) ==
    LET places == Picked([k \in DOMAIN disk.head |-> k], Named(disk))
        Listed(k) == disk.head[places[k]]
    IN  [k \in DOMAIN places |->
            Bubble(Listed(k), disk.recs[Listed(k)], TRUE, places[k] - 1)]

\* The first rows are then read once more, in turn, and those not read above
\* follow, their fallback times following on the turns before them.
Scanned(disk) == {i \in Sized(disk) : Cardinality(Sized(disk) \cap 1 .. i) <= MaxRows}
CursorOrphans(disk, before) ==
    LET seen == {disk.head[k] : k \in Named(disk)}
        left == Picked([i \in DOMAIN disk.recs |-> i], Scanned(disk) \ seen)
        Orphan(k, idx) == Bubble(left[k], disk.recs[left[k]], FALSE, idx)
        Shows(k) == {j \in 1 .. k - 1 : Orphan(j, 0).turn # NoTurn}
    IN  [k \in DOMAIN left |-> Orphan(k, before + Cardinality(Shows(k)))]

\* (faulty) only the bubbles the composer row names are read
CursorLoadListed(disk) == Gather(CursorListed(disk))

\* The bubbles the composer row names, as it orders them, then the others by time.
CursorJoined(listed, orphans) ==
    [Gather(listed \o orphans)
        EXCEPT !.turns = Gather(listed).turns \o Sorted(Gather(orphans).turns)]

CursorLoad(disk) ==
    LET listed == CursorListed(disk)
    IN  CursorJoined(listed, CursorOrphans(disk, Len(Gather(listed).turns)))

CursorSession(disk) ==
    IF "dated" \in disk.meta /\ "huge" \notin disk.meta THEN Session(1, Len(disk.head))
    ELSE NoSession
=============================================================================
