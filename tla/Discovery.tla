----------------------------- MODULE Discovery ------------------------------
(***************************************************************************)
(* Where the ten readers look for the conversation, and what they list.    *)
(*                                                                         *)
(* Directories are names: "home" is the default of the tool and "alias"    *)
(* another name of it (a link), "other" one only the environment variable  *)
(* of the tool can give; "root" and "sub" are the root of a pulled remote  *)
(* source and the directory inside it where the tool of that machine keeps *)
(* its history.  Aider's histories lie anywhere: "far" is below "sub", and *)
(* too deep to be found from "root"; "deep" is too deep for every base, or *)
(* below a directory the walk skips (node_modules, .git, target, ...).     *)
(* The variable is unset, blank or one of the first three;                 *)
(* AGHIST_HOME only moves "home".  The several default directories of a    *)
(* tool, one per platform, are one; project directories, which give a      *)
(* session its project name, and an error of the file system, which fails  *)
(* the reader's whole listing, are left out.                               *)
(***************************************************************************)
EXTENDS LineFormats, StoreFormats

\* What the variable names, and where a history may lie ("alias" is no place).
Envs == {"unset", "blank", "home", "alias", "other"}
Bases == {"home", "other", "root", "sub"}
Hidden == {"far", "deep"}

\* A variable that is unset or blank names nothing.
EnvDir(env) == IF env \in {"unset", "blank"} THEN <<>> ELSE <<env>>

Resolved(base) == IF base = "alias" THEN "home" ELSE base

\* A session found below a base has the path it was found by.
At(base, sessions) ==
    [k \in DOMAIN sessions |-> [ref |-> sessions[k].ref, count |-> sessions[k].count,
                                path |-> base]]

\* Every base is read, in order, as if it were the only one.
Listing(bases, place, sessions) ==
    FlattenSeq([k \in DOMAIN bases |->
        IF Resolved(bases[k]) = place THEN At(bases[k], sessions) ELSE <<>>])

\* A session whose resolved path was seen below an earlier base is passed over.
ListingUnseen(bases, place, sessions) ==
    FlattenSeq([k \in DOMAIN bases |->
        IF /\ Resolved(bases[k]) = place
           /\ \A j \in 1 .. k - 1 : Resolved(bases[j]) # place
        THEN At(bases[k], sessions) ELSE <<>>])

-----------------------------------------------------------------------------
(* The base directories.  CLINE_HOME and CONTINUE_HOME replace the         *)
(* default; CURSOR_HOME, ZED_HOME and AIDER_ROOT come before it,           *)
(* CODEX_HOME and OPENCODE_DATA_DIR after it; the others know no variable. *)

ClaudeDirs(env) == <<"home">>
CopilotDirs(env) == <<"home">>
GeminiDirs(env) == <<"home">>
CodexDirs(env) == <<"home">> \o EnvDir(env)
OpenCodeDirs(env) == <<"home">> \o EnvDir(env)
ContinueDirs(env) == IF EnvDir(env) # <<>> THEN EnvDir(env) ELSE <<"home">>
ClineDirs(env) == IF EnvDir(env) # <<>> THEN EnvDir(env) ELSE <<"home">>
CursorDirs(env) == EnvDir(env) \o <<"home">>
ZedDirs(env) == EnvDir(env) \o <<"home">>

\* Aider alone does not read one path twice.
AiderDirs(env) == EnvDir(env) \o (IF env = "home" THEN <<>> ELSE <<"home">>)

-----------------------------------------------------------------------------
(* The listings.                                                           *)

\* A base without history.jsonl is passed over, its projects with it.
ClaudeDiscover(disk, bases, place) ==
    IF "index" \in disk.meta THEN Listing(bases, place, ClaudeSession(disk)) ELSE <<>>

CodexDiscover(disk, bases, place) == Listing(bases, place, CodexSession(disk))
CopilotDiscover(disk, bases, place) == Listing(bases, place, CopilotSession(disk))
GeminiDiscover(disk, bases, place) == Listing(bases, place, GeminiSession(disk))
OpenCodeDiscover(disk, bases, place) == Listing(bases, place, OpenCodeSession(disk))
CursorDiscover(disk, bases, place) == Listing(bases, place, CursorSession(disk))

ContinueDiscover(disk, bases, place) == ListingUnseen(bases, place, ContinueSession(disk))
ClineDiscover(disk, bases, place) == ListingUnseen(bases, place, ClineSession(disk))
ZedDiscover(disk, bases, place) == ListingUnseen(bases, place, ZedSession(disk))

\* The others look at fixed places below a base, Aider everywhere, four
\* directories deep.
Below(base) ==
    CASE base = "root" -> {"root", "sub"}
      [] base = "sub" -> {"sub", "far"}
      [] OTHER -> {Resolved(base)}
AiderDiscover(disk, bases, place) ==
    FlattenSeq([k \in DOMAIN bases |->
        IF place \in Below(bases[k])
        THEN At(IF bases[k] = "alias" THEN "alias" ELSE place, AiderSessions(disk))
        ELSE <<>>])

-----------------------------------------------------------------------------
(* What a session's index fingerprint is taken of: the parts of the disk   *)
(* at its source path, unless the reader names more.                       *)

\* A file of lines or of one value holds the records; the directories of Copilot
\* and Cline hold all there is, and so does a database that keeps no log beside
\* it.  Continue's index.json is in no fingerprint.
SourceFingerprint(disk) == <<disk.recs, disk.half>>
DirectoryFingerprint(disk) == <<disk.recs, disk.half, disk.meta>>
CursorFingerprint(disk) ==
    IF "log" \in disk.meta THEN <<>> ELSE <<disk.recs, disk.head, disk.meta>>

\* OpenCode's session file, the directory of its messages, and for each of
\* these that of its parts, when it has one.
PartKinds == {"said", "call", "result"}
MessageFile(r) == [r EXCEPT !.parts = @ \ PartKinds]

\* (faulty) the directory of the messages is taken to hold their parts
OpenCodeFingerprintFlat(disk) ==
    <<disk.meta, [i \in DOMAIN disk.recs |-> MessageFile(disk.recs[i])], disk.half>>

OpenCodeFingerprint(disk) ==
    LET held == {i \in DOMAIN disk.recs : disk.recs[i].parts \cap PartKinds # {}}
    IN  <<disk.meta, [i \in DOMAIN disk.recs |-> MessageFile(disk.recs[i])], disk.half,
          [i \in held |-> disk.recs[i].parts \cap PartKinds]>>
=============================================================================
