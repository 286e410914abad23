---------------------------- MODULE Transcripts -----------------------------
(***************************************************************************)
(* One conversation between an agent that writes it and aghist that lists  *)
(* it, and loads it again and again, while it grows.  Stars, notes and     *)
(* citations name a turn by its place in the load, so what stands at a     *)
(* place must not change when the agent writes on.                         *)
(*                                                                         *)
(* The agent may stop inside a write and go on later: a line is then       *)
(* completed, or, by an agent started anew, run together with the next.    *)
(* The constant Written gives what the agent of a tool may write.          *)
(***************************************************************************)
EXTENDS Discovery

CONSTANTS
    Tools,          \* the history formats
    Setups(_),      \* what the variable of a tool may name, and where its history lies
    Written(_),     \* the records of a tool
    MaxRecs,        \* records written (bound)
    MaxNames        \* names in Cursor's composer row (bound)

LineTools == {"claude-code", "codex-cli", "copilot-cli", "continue-dev"}
ArrayTools == {"gemini-cli", "cline", "zed-ai"}

Types ==
    {r.type : r \in UNION {Written(t) : t \in Tools}} \cup {"bad", "binary", "prose", "huge"}
Parts == {"said", "call", "result", "thought", "request", "title", "change", "code"}
Records ==
    [type : Types, text : Seq({"p", "f"}), parts : SUBSET Parts, body : BOOLEAN,
     at : {"own", "early", "none"}]

ASSUME TranscriptsAssumption ==
    /\ MaxRecs \in Nat /\ MaxNames \in Nat
    /\ Tools \subseteq LineTools \cup ArrayTools \cup {"aider", "opencode", "cursor"}
    /\ \A t \in Tools :
        /\ Written(t) \subseteq Records
        /\ Setups(t) \subseteq Envs \X (IF t = "aider" THEN Bases \cup Hidden ELSE Bases)

VARIABLES
    tool, env, place,   \* the format, its environment variable, where the history lies
    disk,               \* what the agent has written
    listed, began,      \* the sessions the last listing found, and when they started
    shown, stats        \* the last load: its session and turns, and its counts

vars == <<tool, env, place, disk, listed, began, shown, stats>>
setup == <<tool, env, place>>

NoLoad == [ref |-> 0, turns |-> <<>>]

-----------------------------------------------------------------------------
(* Finding the session.                                                    *)

\* The readers, as the registry builds them: from the machine's own directories,
BaseDirs ==
    CASE tool = "claude-code" -> ClaudeDirs(env)
      [] tool = "codex-cli" -> CodexDirs(env)
      [] tool = "copilot-cli" -> CopilotDirs(env)
      [] tool = "continue-dev" -> ContinueDirs(env)
      [] tool = "aider" -> AiderDirs(env)
      [] tool = "gemini-cli" -> GeminiDirs(env)
      [] tool = "cline" -> ClineDirs(env)
      [] tool = "zed-ai" -> ZedDirs(env)
      [] tool = "opencode" -> OpenCodeDirs(env)
      [] tool = "cursor" -> CursorDirs(env)

\* or from a pulled cache, which may mirror the home directory or the history
\* directory itself.
RemoteCandidates == <<"root", "sub">>

Searched == IF place \in {"root", "sub", "far"} THEN RemoteCandidates ELSE BaseDirs

Discovered(d) ==
    CASE tool = "claude-code" -> ClaudeDiscover(d, Searched, place)
      [] tool = "codex-cli" -> CodexDiscover(d, Searched, place)
      [] tool = "copilot-cli" -> CopilotDiscover(d, Searched, place)
      [] tool = "continue-dev" -> ContinueDiscover(d, Searched, place)
      [] tool = "aider" -> AiderDiscover(d, Searched, place)
      [] tool = "gemini-cli" -> GeminiDiscover(d, Searched, place)
      [] tool = "cline" -> ClineDiscover(d, Searched, place)
      [] tool = "zed-ai" -> ZedDiscover(d, Searched, place)
      [] tool = "opencode" -> OpenCodeDiscover(d, Searched, place)
      [] tool = "cursor" -> CursorDiscover(d, Searched, place)

\* (faulty) every base a session is found in lists it
MergedNot(sessions) == sessions

\* Sessions of one identity (id and path; provider and source are one here) are
\* one, the first.
Known(sessions, k) ==
    \E j \in 1 .. k - 1 : sessions[j].ref = sessions[k].ref /\ sessions[j].path = sessions[k].path
Merged(sessions) == Picked(sessions, {k \in DOMAIN sessions : ~Known(sessions, k)})

-----------------------------------------------------------------------------
(* Loading it.                                                             *)

\* of the session ref, which the listing found to have started at start
LoadSession(d, ref, start) ==
    CASE tool = "claude-code" -> ClaudeLoad(d)
      [] tool = "codex-cli" -> CodexLoad(d)
      [] tool = "copilot-cli" -> CopilotLoad(d)
      [] tool = "continue-dev" -> ContinueLoad(d, start)
      [] tool = "aider" -> AiderLoad(d, ref)
      [] tool = "gemini-cli" -> GeminiLoad(d)
      [] tool = "cline" -> ClineLoad(d, start)
      [] tool = "zed-ai" -> ZedLoad(d)
      [] tool = "opencode" -> OpenCodeLoad(d)
      [] tool = "cursor" -> CursorLoad(d)

StartedAt(d) ==
    CASE tool = "continue-dev" -> ContinueStart(d)
      [] tool = "cline" -> ClineStart(d)
      [] OTHER -> Start

\* as a command that lists and then loads finds it
LoadMessages(d, ref) == LoadSession(d, ref, StartedAt(d))

\* What the index compares to know whether it has to load a session again.
IndexFingerprint(d) ==
    CASE tool = "opencode" -> OpenCodeFingerprint(d)
      [] tool \in {"copilot-cli", "cline"} -> DirectoryFingerprint(d)
      [] tool = "cursor" -> CursorFingerprint(d)
      [] OTHER -> SourceFingerprint(d)

-----------------------------------------------------------------------------
(* The agent.                                                              *)

Metas ==
    CASE tool = "claude-code" -> {{}, {"index"}, {"index", "dated"}}
      [] tool = "copilot-cli" -> {{}, {"dated"}, {"dated", "checkpoint"}}
      [] tool \in {"gemini-cli", "opencode", "continue-dev", "cline"} -> {{}, {"dated"}}
      [] tool = "cursor" -> {{}, {"dated"}, {"dated", "log"}, {"dated", "huge"}}
      [] OTHER -> {{}}

Init ==
    /\ tool \in Tools
    /\ \E s \in Setups(tool) : env = s[1] /\ place = s[2]
    /\ disk \in [recs : {<<>>}, half : {"no"}, head : {<<>>}, meta : Metas]
    /\ listed = {}
    /\ began = Start
    /\ shown = NoLoad
    /\ stats = NoStats

Reader == <<listed, began, shown, stats>>
Room == Len(disk.recs) < MaxRecs

\* The next record after a torn one.  Lines run together, and what two halves
\* make is no record, or not even text; a message file stays as it was left; an
\* array is written anew, as a whole.
Disk(recs, half) == [disk EXCEPT !.recs = recs, !.half = half]
Write(r) ==
    LET last == Len(disk.recs)
        Run(rest) == Disk([disk.recs EXCEPT ![last] = rest], "no")
    IN  /\ Room
        /\ disk' =
            CASE disk.half = "no" \/ tool \in ArrayTools -> Disk(Append(disk.recs, r), "no")
              [] disk.half = "split" /\ tool \in LineTools \cup {"aider"} -> Run(Binary)
              [] disk.half = "plain" /\ tool \in LineTools -> Run(Bad)
              [] disk.half = "plain" /\ tool = "aider" -> Run(AsProse(disk.recs[last]))
              [] OTHER -> Disk(Append([disk.recs EXCEPT ![last] = Bad], r), "no")
        /\ UNCHANGED <<setup, Reader>>

\* A database row is there or not; where a cut falls matters to text only.
Tear(r, cut) ==
    /\ Room
    /\ tool # "cursor"
    /\ cut = "plain" \/ tool \in LineTools \cup {"aider"}
    /\ disk.half = "no"
    /\ disk' = Disk(Append(disk.recs, r), cut)
    /\ UNCHANGED <<setup, Reader>>

Complete ==
    /\ disk.half # "no"
    /\ disk' = Disk(disk.recs, "no")
    /\ UNCHANGED <<setup, Reader>>

\* OpenCode: the parts of a message come in files of their own.
WithPart(r) == [r EXCEPT !.parts = @ \cup {"said"}]
AddPart(i) ==
    /\ tool = "opencode"
    /\ disk.recs[i] # Bad
    /\ "said" \notin disk.recs[i].parts
    /\ disk' = Disk([disk.recs EXCEPT ![i] = WithPart(@)], disk.half)
    /\ UNCHANGED <<setup, Reader>>

\* Cursor: the composer row names a bubble, before or after its row is there,
\* and perhaps once more.
ListBubble(i) ==
    /\ tool = "cursor"
    /\ Len(disk.head) < MaxNames
    /\ disk' = [disk EXCEPT !.head = Append(@, i)]
    /\ UNCHANGED <<setup, Reader>>

\* What is beside the records comes, goes and is found torn.
WriteBeside(meta) ==
    /\ disk' = [disk EXCEPT !.meta = meta]
    /\ UNCHANGED <<setup, Reader>>

-----------------------------------------------------------------------------
(* aghist.                                                                 *)

Discover ==
    /\ LET found == Merged(Discovered(disk))
       IN  listed' = {found[k].ref : k \in DOMAIN found}
    /\ began' = StartedAt(disk)
    /\ UNCHANGED <<setup, disk, shown, stats>>

\* A load that fails leaves what was shown before.
Load(ref) ==
    LET load == LoadSession(disk, ref, began)
    IN  /\ shown.ref \in {0, ref}
        /\ IF load.ok
           THEN shown' = [ref |-> ref, turns |-> load.turns] /\ stats' = load.stats
           ELSE UNCHANGED <<shown, stats>>
        /\ UNCHANGED <<setup, disk, listed, began>>

Next ==
    \/ \E r \in Written(tool) :
        \/ Write(r)
        \/ \E cut \in {"plain", "split"} : Tear(r, cut)
    \/ Complete
    \/ \E i \in DOMAIN disk.recs : AddPart(i)
    \/ \E i \in 1 .. MaxRecs : ListBubble(i)
    \/ \E meta \in Metas : WriteBeside(meta)
    \/ Discover
    \/ \E ref \in listed : Load(ref)

Spec == Init /\ [][Next]_vars

-----------------------------------------------------------------------------
(* What is shown of a conversation.                                        *)

TypeOK ==
    /\ tool \in Tools
    /\ disk.half \in {"no", "plain", "split"}
    /\ disk.half # "no" => disk.recs # <<>>
    /\ Len(disk.recs) <= MaxRecs
    /\ \A k \in DOMAIN shown.turns :
        shown.turns[k].rec \in 0 .. MaxRecs /\ shown.turns[k].role # "none"
    /\ stats.errors + stats.skipped + stats.empty <= stats.seen

\* What stands at a place in a session stays there: a later load of a history
\* that is only appended to finds the same record, in the same role, at every
\* place but the last, whatever was torn, run together or undated in between.
\* (Aider's last turn may still be growing; OpenCode and Cursor order by more
\* than their writing and are not promised this, nor is Copilot's checkpoint.)
Same(s, t) == s.rec = t.rec /\ s.role = t.role
TurnsStay ==
    [][ tool \notin {"opencode", "cursor"} =>
        \A k \in DOMAIN shown.turns :
            \/ tool = "aider" /\ k = Len(shown.turns)
            \/ shown.turns[k] = Checkpoint
            \/ k \in DOMAIN shown'.turns /\ Same(shown.turns[k], shown'.turns[k]) ]_shown

\* The two parsers of a format agree: whatever the user or the assistant said
\* that a load would show is in the list, once, and the list does not count
\* fewer messages than that, of those it knows.  (It does not know Copilot's
\* events of other types with "user" in them, nor the bubbles that Cursor's
\* composer row does not name.  A session nothing dates is not listed, nor one
\* whose composer row is too large, nor a history of Aider's that lies too deep;
\* a reader that does not resolve paths lists it once more for the other name of
\* its directory.)
CanBeDated(d, said) ==
    CASE tool = "claude-code" -> "dated" \in d.meta \/ \E i \in DOMAIN d.recs : Dated(Lines(d)[i])
      [] tool = "codex-cli" -> \E i \in DOMAIN d.recs : Dated(Lines(d)[i])
      [] tool = "gemini-cli" -> "dated" \in d.meta \/ \E k \in DOMAIN said : Dated(d.recs[said[k].rec])
      [] tool \in {"copilot-cli", "opencode"} -> "dated" \in d.meta
      [] tool = "cursor" -> "dated" \in d.meta /\ "huge" \notin d.meta
      [] OTHER -> TRUE
Refs == IF tool = "aider" THEN Start .. Start + MaxRecs ELSE {1}
Paths ==
    IF /\ env = "alias" /\ place = "home"
       /\ tool \in {"codex-cli", "opencode", "cursor", "aider"}
    THEN 2 ELSE 1
Reachable ==
    /\ place # "deep"
    /\ place = "other" => env = "other" /\ tool \notin {"claude-code", "copilot-cli", "gemini-cli"}
    /\ place = "home" /\ tool \in {"cline", "continue-dev"} => env # "other"
    /\ tool = "claude-code" => "index" \in disk.meta
Announced(i) ==
    /\ tool = "copilot-cli" => disk.recs[i].type # "user_other"
    /\ tool = "cursor" => \E k \in DOMAIN disk.head : disk.head[k] = i
SaidIsListed ==
    Reachable => \A ref \in Refs :
        LET turns == LoadMessages(disk, ref).turns
            said == Picked(turns, {k \in DOMAIN turns : turns[k].role \in {"user", "assistant"}})
            known == {i \in {said[k].rec : k \in DOMAIN said} : Announced(i)}
            all == Merged(Discovered(disk))
            entries == Picked(all, {k \in DOMAIN all : all[k].ref = ref})
        IN  CanBeDated(disk, said) /\ said # <<>> =>
                Len(entries) = Paths /\ entries[1].count >= Cardinality(known)

\* No record is shown twice, unless Cursor's composer row names a bubble more
\* than once, and none is left out unnoticed: when a load shows nothing of a
\* record its counts say that something was left out, unless the record is of
\* the kinds that Codex and Copilot pass over in silence, or a bubble that
\* Cursor's limits may keep from being read.  (Aider has no records to count.)
Silent(r) ==
    /\ tool \in {"codex-cli", "copilot-cli"}
    /\ ~r.body \/ r.text = <<>> \/ r.type \in {"event", "item"}
TooMuch(i) == tool = "cursor" /\ (disk.recs[i] = Huge \/ i > MaxRows)
LeftOutIsCounted ==
    LET load == LoadMessages(disk, 1)
        Of(i) == {k \in DOMAIN load.turns : load.turns[k].rec = i}
        Naming(i) == {k \in DOMAIN disk.head : disk.head[k] = i}
    IN  load.ok /\ tool # "aider" =>
            \A i \in DOMAIN disk.recs :
                /\ Cardinality(Of(i)) <= 1 \/ Cardinality(Of(i)) <= Cardinality(Naming(i))
                /\ Of(i) = {} =>
                    HasWarnings(load.stats) \/ Silent(disk.recs[i]) \/ TooMuch(i)

\* The index loads a session again when its fingerprint has changed, and only
\* then, so a write that changes what a load returns must change that.  (A
\* database with a log beside it is read with the log, and not fingerprinted
\* with it.  Continue's index.json is not fingerprinted either: what it changes,
\* and all it changes, is the times of the messages.)
Untimed(load) ==
    LET Kept(t) == <<t.rec, t.role, t.blocks>>
    IN  <<load.ok, [k \in DOMAIN load.turns |-> Kept(load.turns[k])], load.stats>>
ChangesAreFingerprinted ==
    [][ disk' # disk /\ IndexFingerprint(disk') = IndexFingerprint(disk) =>
            \A ref \in Refs :
                LET old == LoadMessages(disk, ref)
                    new == LoadMessages(disk', ref)
                IN  \/ tool = "cursor" /\ "log" \in disk.meta
                    \/ new = old
                    \/ /\ tool = "continue-dev" /\ disk'.meta # disk.meta
                       /\ Untimed(new) = Untimed(old) ]_disk
=============================================================================
