---------------------------- MODULE LineFormats -----------------------------
(***************************************************************************)
(* The readers of history kept as lines: Claude Code, Codex, Copilot and   *)
(* Continue write one JSON object per line, Aider one Markdown file for    *)
(* all conversations of a directory.                                       *)
(***************************************************************************)
EXTENDS Parsers

-----------------------------------------------------------------------------
(* Claude Code.  A record of the conversation has a message; the first     *)
(* record with a timestamp, whatever its type, dates the session, and      *)
(* history.jsonl does when none has one.                                   *)

ClaudeBlocks(r, role) ==
    TextBlocks(r.text) \o Part(r, "thought") \o Part(r, "call")
        \o (IF role = "user" THEN Part(r, "result") ELSE <<>>)

ClaudeOutcome(i, r) ==
    IF r.type \notin {"user", "assistant"} \/ ~r.body THEN LeftOut("skipped")
    ELSE ShownUnlessEmpty(i, r.type, ClaudeBlocks(r, r.type), Time(i, r, i - 1))

\* (faulty) the turns are put in the order of their times
ClaudeLoadByTime(disk) ==
    [VisitLines(disk, [i \in DOMAIN disk.recs |-> ClaudeOutcome(i, disk.recs[i])])
        EXCEPT !.turns = SortSeq(@, LAMBDA s, t : s.at < t.at)]

ClaudeLoad(disk) ==
    VisitLines(disk, [i \in DOMAIN disk.recs |-> ClaudeOutcome(i, disk.recs[i])])

ClaudeSession(disk) ==
    LET recs == Lines(disk)
        said == Those(recs, {"user", "assistant"})
        dated == {i \in DOMAIN recs : Dated(recs[i])}
    IN  IF ~Utf8(disk) \/ said = {} \/ (dated = {} /\ "dated" \notin disk.meta)
        THEN NoSession
        ELSE Session(1, Cardinality(said))

-----------------------------------------------------------------------------
(* Codex.  The old records carry their text, the new ones a payload; what  *)
(* the new ones do not show is not counted.  Ids are given afterwards, by  *)
(* position.                                                               *)

CodexText(r, role) ==
    IF r.text = <<>> THEN <<>>
    ELSE IF role = "tool" THEN <<Block("call", 1)>> ELSE TextBlocks(r.text)

\* event_msg: the two that say something.  Unlike an old record, one whose
\* text yields no block is still a turn.
CodexEvent(i, r) ==
    IF ~r.body \/ r.text = <<>> \/ r.type \notin {"user_message", "agent_message"}
    THEN LeftOut("quiet")
    ELSE Shown(i, IF r.type = "user_message" THEN "user" ELSE "assistant",
               TextBlocks(r.text), Time(i, r, i - 1))

\* response_item: calls and what they returned.
CodexItem(i, r) ==
    CASE r.body /\ r.type = "function_call" ->
            Shown(i, "tool", <<Block("call", 1)>>, Time(i, r, i - 1))
      [] r.body /\ r.type = "function_call_output" /\ r.text # <<>> ->
            Shown(i, "tool", <<Block("result", 1)>>, Time(i, r, i - 1))
      [] OTHER -> LeftOut("quiet")

CodexOldTypes == [user |-> "user", assistant |-> "assistant", tool_use |-> "tool"]
CodexEvents == {"user_message", "agent_message", "event"}
CodexItems == {"function_call", "function_call_output", "item"}

CodexOutcome(i, r) ==
    CASE r.type \in DOMAIN CodexOldTypes ->
            LET role == CodexOldTypes[r.type]
            IN  ShownUnlessEmpty(i, role, CodexText(r, role), Time(i, r, i - 1))
      [] r.type = "error" ->
            IF r.body THEN Shown(i, "system", <<Block("error", 1)>>, Time(i, r, i - 1))
            ELSE LeftOut("quiet")
      [] r.type \in CodexEvents -> CodexEvent(i, r)
      [] r.type \in CodexItems -> CodexItem(i, r)
      [] OTHER -> LeftOut("skipped")

CodexLoad(disk) ==
    VisitLines(disk, [i \in DOMAIN disk.recs |-> CodexOutcome(i, disk.recs[i])])

\* Only records say when the session began; a rollout with nothing said, or
\* nothing dated, is not listed.
CodexSession(disk) ==
    LET recs == Lines(disk)
        said == Those(recs, {"user", "assistant"})
            \cup {i \in Those(recs, {"user_message", "agent_message"}) : recs[i].body}
    IN  IF ~Utf8(disk) \/ said = {} \/ ~\E i \in DOMAIN recs : Dated(recs[i])
        THEN NoSession
        ELSE Session(1, Cardinality(said))

-----------------------------------------------------------------------------
(* Copilot.  workspace.yaml makes the session; events.jsonl has the turns, *)
(* and without it the Markdown checkpoint is one system turn.              *)

CopilotToolStart(i, r) ==
    IF r.body THEN Shown(i, "tool", <<Block("call", 1)>>, Time(i, r, i - 1))
    ELSE LeftOut("quiet")

CopilotToolResult(i, r) ==
    IF r.body /\ r.text # <<>> THEN Shown(i, "tool", <<Block("result", 1)>>, Time(i, r, i - 1))
    ELSE LeftOut("quiet")

\* Text, then the call of the event itself, then those it asks for in its data.
CopilotBlocks(r) == TextBlocks(r.text) \o Part(r, "call") \o Part(r, "request")

\* A load goes by what a type contains: "user" and "assistant" stand for the
\* types that contain user.message or assistant.message, "user_other" for any
\* other with "user" in it; tool_start, tool_complete, tool_result and tool_invoke
\* are types of that name, "tool_other" any other with "tool" in it.
CopilotRole ==
    [user |-> "user", user_other |-> "user", assistant |-> "assistant",
     tool_invoke |-> "tool", tool_other |-> "tool"]

CopilotOutcome(i, r) ==
    CASE r.type = "tool_start" -> CopilotToolStart(i, r)
      [] r.type \in {"tool_complete", "tool_result"} -> CopilotToolResult(i, r)
      [] r.type \in DOMAIN CopilotRole ->
            ShownUnlessEmpty(i, CopilotRole[r.type], CopilotBlocks(r), Time(i, r, i - 1))
      [] OTHER -> LeftOut("skipped")

CopilotEvents(disk) ==
    VisitLines(disk, [i \in DOMAIN disk.recs |-> CopilotOutcome(i, disk.recs[i])])

Checkpoint == [rec |-> 0, role |-> "system", blocks |-> <<Block("text", 1)>>, at |-> Start]

CopilotLoad(disk) ==
    IF disk.recs # <<>> THEN CopilotEvents(disk)
    ELSE Unstated(IF "checkpoint" \in disk.meta THEN <<Checkpoint>> ELSE <<>>)

\* The list knows fewer types than a load shows.  Its count stops, without a
\* word, at the line that fails the load.
CopilotCounted ==
    {"user", "assistant", "tool_start", "tool_complete", "tool_invoke", "tool_result"}
CopilotCount(disk) ==
    LET recs == Lines(disk)
        good == IF disk.half = "split" THEN Front(recs) ELSE recs
    IN  Cardinality({i \in Those(good, CopilotCounted) : \A k \in 1 .. i : good[k] # Binary})

CopilotSession(disk) ==
    IF "dated" \in disk.meta THEN Session(1, CopilotCount(disk)) ELSE NoSession

-----------------------------------------------------------------------------
(* Continue.  Listing a file reads all of it, and lists it even when it    *)
(* cannot be read.  The times of the messages follow on the start of the   *)
(* session, which a load takes from the listing.                           *)

\* The start is in index.json, beside the sessions; without it, or torn, the
\* session starts when its file was last written.
Modified(disk) == Start + 2 * Len(disk.recs) - (IF disk.half = "no" THEN 0 ELSE 1)
ContinueStart(disk) == IF "dated" \in disk.meta THEN Start ELSE Modified(disk)

ContinueOutcome(i, r, start) ==
    IF r.type \notin {"user", "assistant", "system"} THEN LeftOut("skipped")
    ELSE ShownUnlessEmpty(i, r.type, AnthropicBlocks(r), start + i - 1)

ContinueLoad(disk, start) ==
    VisitLines(disk, [i \in DOMAIN disk.recs |-> ContinueOutcome(i, disk.recs[i], start)])

ContinueSession(disk) ==
    IF disk.recs = <<>> THEN NoSession
    ELSE Session(1, Len(ContinueLoad(disk, ContinueStart(disk)).turns))

-----------------------------------------------------------------------------
(* Aider.  A header line starts a session, to the second; what precedes    *)
(* the first one, or follows one with an unreadable date, belongs to none. *)
(* Turns are runs of lines of one role.                                    *)

\* A torn line is read as it stands, and as prose.
AsProse(r) == [r EXCEPT !.type = "prose", !.text = <<"p">>]
AiderLines(disk) ==
    [i \in DOMAIN disk.recs |->
        IF i = Len(disk.recs) /\ disk.half = "plain" THEN AsProse(disk.recs[i])
        ELSE disk.recs[i]]

Heads(lines) == {i \in DOMAIN lines : lines[i].type = "head"}
Starts(lines) ==
    Picked([i \in DOMAIN lines |-> i], {i \in Heads(lines) : Dated(lines[i])})
\* the lines that follow the header at i, up to the next one
Body(lines, i) == {j \in DOMAIN lines : j > i /\ Heads(lines) \cap (i + 1) .. j = {}}
SplitSessions(lines) ==
    LET starts == Starts(lines)
    IN  [k \in DOMAIN starts |->
            [at |-> Time(starts[k], lines[starts[k]], 0),
             body |-> [j \in 1 .. Cardinality(Body(lines, starts[k])) |-> starts[k] + j]]]

\* The pending turn is dropped when it has no text.
FlushPending(p, lines) ==
    IF p.role = "none" \/ \A k \in DOMAIN p.own : lines[p.own[k]].text = <<>> THEN p.out
    ELSE LET words == FlattenSeq([k \in DOMAIN p.own |-> lines[p.own[k]].text])
             blocks == IF p.role = "tool" THEN <<Block("text", Len(words))>>
                       ELSE TextBlocks(words)
         IN  Append(p.out, Turn(p.own[1], p.role, blocks, p.at + Len(p.out)))

\* "####" is the user's, ">" Aider's own output, anything else the assistant's;
\* inside a fence every line belongs to the turn that is open, and a fence opens
\* the assistant's only when no turn is open.
OpenFor(p, role, i, lines) ==
    IF p.role = role THEN [p EXCEPT !.own = Append(@, i)]
    ELSE [out |-> FlushPending(p, lines), role |-> role, own |-> <<i>>,
          fenced |-> p.fenced, at |-> p.at]
AiderLine(p, i, lines) ==
    CASE lines[i].type = "fence" ->
            [OpenFor(p, IF p.role = "none" THEN "assistant" ELSE p.role, i, lines)
                EXCEPT !.fenced = ~@]
      [] p.fenced /\ lines[i].type # "fence" -> [p EXCEPT !.own = Append(@, i)]
      [] ~p.fenced /\ lines[i].type = "user" -> OpenFor(p, "user", i, lines)
      [] ~p.fenced /\ lines[i].type = "tool" -> OpenFor(p, "tool", i, lines)
      [] ~p.fenced /\ lines[i].type = "blank" ->
            IF p.role = "none" THEN p ELSE OpenFor(p, p.role, i, lines)
      [] OTHER -> OpenFor(p, "assistant", i, lines)

\* AiderRead(block, lines)[n]: what the first n lines of the block leave.
Unread(block) == [out |-> <<>>, role |-> "none", own |-> <<>>, fenced |-> FALSE, at |-> block.at]
AiderRead(block, lines) ==
    LET read[n \in Nat] ==
            IF n = 0 THEN Unread(block) ELSE AiderLine(read[n - 1], block.body[n], lines)
    IN  read
AiderTurns(block, lines) == FlushPending(AiderRead(block, lines)[Len(block.body)], lines)

\* A session is found again by its second: the first block of that second is it.
AiderFound(lines, ref) ==
    LET blocks == SplitSessions(lines)
        same == Picked(blocks, {k \in DOMAIN blocks : blocks[k].at = ref})
    IN  IF same = <<>> THEN <<>> ELSE AiderTurns(same[1], lines)
AiderLoad(disk, ref) ==
    LET turns == AiderFound(AiderLines(disk), ref)
    IN  IF ~Utf8(disk) THEN Failed
        ELSE [ok |-> TRUE, turns |-> turns, stats |-> [NoStats EXCEPT !.seen = Len(turns)]]

\* A block with no turn is not listed.
AiderSessions(disk) ==
    LET lines == AiderLines(disk)
        blocks == SplitSessions(lines)
        turns == [k \in DOMAIN blocks |-> AiderTurns(blocks[k], lines)]
    IN  IF ~Utf8(disk) THEN <<>>
        ELSE Picked([k \in DOMAIN blocks |-> [ref |-> blocks[k].at, count |-> Len(turns[k])]],
                    {k \in DOMAIN blocks : turns[k] # <<>>})
=============================================================================
