------------------------------- MODULE Parsers -------------------------------
(***************************************************************************)
(* What the ten history readers of provider/ make of one conversation on   *)
(* disk.  Each reader has two parsers of the same bytes, written apart:    *)
(* one finds the session and describes it for the list, one loads its      *)
(* messages.  Both are given here as operators on an abstract disk:        *)
(*                                                                         *)
(*   disk.recs   the records, in the order the agent wrote them            *)
(*   disk.half   the last write is incomplete: "plain" cuts it inside      *)
(*               ASCII text, "split" inside a character                    *)
(*   disk.head   Cursor: the bubbles the composer row names, in its order  *)
(*   disk.meta   what else there is: "index" (Claude's history.jsonl),     *)
(*               "dated" (a start time), "checkpoint" (Copilot's Markdown  *)
(*               summary), and of Cursor's database "huge" (the composer   *)
(*               row is too large to read) and "log" (a log beside it)     *)
(*                                                                         *)
(* A record has the type the agent gave it, its text as lines ("p" prose,  *)
(* "f" a code fence), the parts it carries besides, whether its body is    *)
(* there at all, and its own timestamp or none.  JSON fields of the wrong  *)
(* shape, trimming, truncated summaries, models and token counts are left  *)
(* out; so is the order of the list, newest first.                         *)
(***************************************************************************)
EXTENDS Integers, SequencesExt, Subsequences

Bad == [type |-> "bad", text |-> <<>>, parts |-> {}, body |-> FALSE, at |-> "none"]
Binary == [Bad EXCEPT !.type = "binary"]

-----------------------------------------------------------------------------
(* What all readers share.                                                 *)

\* Times are numbers.  A record without one gets the epoch plus its position,
\* which is before every real time; Start is the oldest real one.
Start == 10
Dated(r) == r.at # "none"
Time(i, r, fallback) ==
    CASE r.at = "own" -> Start + i
      [] r.at = "early" -> Start
      [] OTHER -> fallback

Block(kind, size) == [kind |-> kind, size |-> size]
Part(r, kind) == IF kind \in r.parts THEN <<Block(kind, 1)>> ELSE <<>>

\* Text is cut at its fences.  A block left open at the end counts as code, an
\* opening fence with nothing after it yields no block.
TextBlocks(lines) ==
    LET Flush(b, kind) == b.out \o (IF b.n = 0 THEN <<>> ELSE <<Block(kind, b.n)>>)
        Line(b, l) ==
            CASE l = "f" /\ ~b.code -> [out |-> Flush(b, "text"), code |-> TRUE, n |-> 0]
              [] l = "f" /\ b.code ->
                    [out |-> Append(b.out, Block("code", b.n)), code |-> FALSE, n |-> 0]
              [] OTHER -> [b EXCEPT !.n = @ + 1]
        read[k \in Nat] ==
            IF k = 0 THEN [out |-> <<>>, code |-> FALSE, n |-> 0] ELSE Line(read[k - 1], lines[k])
        end == read[Len(lines)]
    IN  Flush(end, IF end.code THEN "code" ELSE "text")

\* Cline and Continue keep Anthropic content; a thought is dropped.
AnthropicBlocks(r) == TextBlocks(r.text) \o Part(r, "call") \o Part(r, "result")

\* One record becomes a turn, or is left out and counted under a heading, or
\* is left out without a word.
Turn(i, role, blocks, at) == [rec |-> i, role |-> role, blocks |-> blocks, at |-> at]
NoTurn == Turn(0, "none", <<>>, 0)
Shown(i, role, blocks, at) == [turn |-> Turn(i, role, blocks, at), why |-> "none"]
LeftOut(why) == [turn |-> NoTurn, why |-> why]
ShownUnlessEmpty(i, role, blocks, at) ==
    IF blocks = <<>> THEN LeftOut("empty") ELSE Shown(i, role, blocks, at)

Counted(outs, why) == Cardinality({k \in DOMAIN outs : outs[k].why = why})
TurnsOf(outs) ==
    Picked([k \in DOMAIN outs |-> outs[k].turn], {k \in DOMAIN outs : outs[k].turn # NoTurn})

\* (faulty) what does not parse is not counted among what was read
GatherParsed(outs) ==
    [ok |-> TRUE, turns |-> TurnsOf(outs),
     stats |-> [seen |-> Len(outs) - Counted(outs, "error"), errors |-> Counted(outs, "error"),
                skipped |-> Counted(outs, "skipped"), empty |-> Counted(outs, "empty")]]

Gather(outs) ==
    [ok |-> TRUE, turns |-> TurnsOf(outs),
     stats |-> [seen |-> Len(outs), errors |-> Counted(outs, "error"),
                skipped |-> Counted(outs, "skipped"), empty |-> Counted(outs, "empty")]]

NoStats == [seen |-> 0, errors |-> 0, skipped |-> 0, empty |-> 0]
Unstated(turns) == [ok |-> TRUE, turns |-> turns, stats |-> NoStats]
Failed == [ok |-> FALSE, turns |-> <<>>, stats |-> NoStats]
HasWarnings(stats) == stats.errors + stats.skipped + stats.empty > 0

\* A text file is read whole or line by line, always as UTF-8: one bad byte
\* fails the file, wherever it is.
Utf8(disk) == disk.half # "split" /\ \A i \in DOMAIN disk.recs : disk.recs[i] # Binary

\* The lines of a JSONL file as they parse: a torn line is only a bad line.
Lines(disk) ==
    [i \in DOMAIN disk.recs |->
        IF i = Len(disk.recs) /\ disk.half = "plain" THEN Bad ELSE disk.recs[i]]

Visited(recs, outs) ==
    [i \in DOMAIN outs |-> IF recs[i] = Bad THEN LeftOut("error") ELSE outs[i]]
VisitLines(disk, outs) ==
    IF ~Utf8(disk) THEN Failed ELSE Gather(Visited(Lines(disk), outs))

\* A file that is one JSON value is parsed whole: torn, it is no file at all.
\* Its entries are converted one by one, so a bad one costs only itself.
VisitArray(disk, outs) ==
    IF disk.half # "no" THEN Failed ELSE Gather(Visited(disk.recs, outs))

NoSession == <<>>
Session(ref, count) == <<[ref |-> ref, count |-> count]>>
Those(recs, types) == {i \in DOMAIN recs : recs[i].type \in types}
=============================================================================
