---------------------------- MODULE SearchIndex ----------------------------
(***************************************************************************)
(* The on-disk search index: the Tantivy documents, manifest.json beside   *)
(* them, and the commands that rewrite both.  Every transaction takes      *)
(* Tantivy's exclusive writer lock, loads the manifest, stages deletions   *)
(* and additions, commits the documents, and only then replaces the        *)
(* manifest; the lock is released when the function returns.  Session      *)
(* sources keep changing underneath, and several processes (TUI, one-shot  *)
(* CLI, MCP server) share the directory.                                   *)
(*                                                                         *)
(* Data is abstracted to versions.  A file's version stands for its        *)
(* content and its fingerprint (length, mtime, SHA-256); documents and     *)
(* manifest entries carry the version they were made from, 0 for none.     *)
(***************************************************************************)
EXTENDS Naturals

CONSTANTS
  Procs,        \* processes sharing one index directory
  Providers,    \* history providers
  Sessions,     \* session identity keys
  Files,        \* source files; several sessions may share one
  Notes,        \* note ids of the metadata sidecar
  ProviderOf,   \* provider slug at the front of an identity key
  FileOf,       \* the file behind a session
  NoteRef,      \* the session a note is attached to
  Enabled,      \* providers enabled in the configuration
  Exposed,      \* providers visible to MCP
  Jobs,         \* the commands the processes run
  NoSession,    \* no session is being loaded
  MaxClock,     \* bound: last instant at which a source or a note changes
  Interrupts    \* may a process die, or the save fail, after a commit?

Items == Sessions \cup Notes
Version == 0 .. MaxClock
Forms == {"current", "legacy", "corrupt"}

(***************************************************************************)
(* A job is a command: the providers it discovers, those it may prune,     *)
(* and the first of its index transactions.                                *)
(***************************************************************************)
Job(kind, first, scope, prune) ==
  [kind |-> kind, first |-> first, scope |-> scope, prune |-> prune]

\* aghist index: prunes every provider; --force clears the whole index.
IndexAll == {Job("index", first, Enabled, Providers) : first \in {"clear", "build"}}
\* aghist index --provider, and the reindex tool with a provider.
IndexOne == {Job("index", first, {q}, {q}) :
               first \in {"clear_providers", "build"}, q \in Enabled}
\* The reindex tool of the MCP server.
IndexVisible == {Job("index", first, Exposed, Exposed) :
                   first \in {"clear_providers", "build"}}
\* aghist search (enabled providers) and the MCP search tool (exposed ones).
Search == {Job("search", "build", scope, scope) : scope \in {Enabled, Exposed}}

\* The TUI's indexing thread never prunes; --reindex only clears.
TuiIndex == {Job("tui", "build", Enabled, {})}
Reindex == {Job("reindex", "clear", {}, {})}
AllJobs == IndexAll \cup IndexOne \cup IndexVisible \cup Search \cup TuiIndex \cup Reindex

\* The transaction that follows a completed one, "idle" when there is none.
NextStep(j, done) ==
  CASE done \in {"clear", "clear_providers"} /\ j.kind # "reindex" -> "build"
    [] done = "build" /\ j.kind = "search" -> "notes"
    [] done = "notes" -> "read"
    [] OTHER -> "idle"

ASSUME ConstantsAssumption ==
  /\ ProviderOf \in [Sessions -> Providers]
  /\ FileOf \in [Sessions -> Files]
  /\ NoteRef \in [Notes -> Sessions]
  /\ Enabled \subseteq Providers /\ Exposed \subseteq Enabled
  /\ Jobs \subseteq AllJobs
  /\ MaxClock \in Nat \ {0}
  /\ Interrupts \in BOOLEAN
  /\ Sessions \cap Notes = {}
  /\ NoSession \notin Sessions

VARIABLES
  clock,        \* logical time of the last change to a source or a note
  disk,         \* version of each source file
  gone,         \* files that are currently absent
  unreadable,   \* files that currently cannot be read
  broken,       \* providers whose discovery currently fails
  note,         \* version (updated_at) of each note, 0 when there is none
  docs,         \* version of the committed documents of each item
  manifest,     \* version recorded for each item in manifest.json
  form,         \* whether manifest.json parses, and has current keys
  pc,           \* where each process is within its transaction
  step,         \* the transaction each process is in
  job,          \* the command each process runs
  found,        \* version of each session when the command discovered it
  txn           \* the transaction's working state

sources == <<clock, disk, gone, unreadable, broken, note>>
index == <<docs, manifest, form>>
procs == <<pc, step, job, found, txn>>
vars == <<clock, disk, gone, unreadable, broken, note,
          docs, manifest, form, pc, step, job, found, txn>>

Blank == [i \in Items |-> 0]
NoTxn == [docs |-> Blank, man |-> Blank, form |-> "current", todo |-> {},
          cache |-> [f \in Files |-> 0], cur |-> NoSession,
          list |-> [n \in Notes |-> 0], errors |-> {}]
NoJob == Job("none", "idle", {}, {})

\* (faulty) the lock is released by the commit, before the manifest is saved
WritingUntilCommit(p) == pc[p] \in {"scan", "load"}

\* A process holds the writer lock from opening the writer to returning.
Writing(p) == pc[p] \in {"scan", "load", "save"}
LockFree == \A p \in Procs : ~Writing(p)

Init ==
  /\ clock = 1
  /\ disk = [f \in Files |-> 1]
  /\ gone = {} /\ unreadable = {} /\ broken = {}
  /\ note \in [Notes -> {0, 1}]
  /\ form \in Forms
  /\ manifest = Blank
  /\ docs \in IF form = "current" THEN {Blank}
              ELSE {Blank, [i \in Items |-> IF i \in Sessions THEN 1 ELSE 0]}
  /\ pc = [p \in Procs |-> "idle"]
  /\ step = [p \in Procs |-> "idle"]
  /\ job = [p \in Procs |-> NoJob]
  /\ found = [p \in Procs |-> [s \in Sessions |-> 0]]
  /\ txn = [p \in Procs |-> NoTxn]

----------------------------------------------------------------------------
(***************************************************************************)
(* The world outside: providers append to, delete and restore their files, *)
(* files and provider directories become unreadable and readable again,    *)
(* notes are added, edited and removed.  The clock bounds all of it.       *)
(***************************************************************************)
Tick == clock < MaxClock /\ clock' = clock + 1

EditFile(f) ==
  /\ Tick
  /\ disk' = [disk EXCEPT ![f] = clock + 1]
  /\ gone' = gone \ {f}
  /\ UNCHANGED <<unreadable, broken, note, index, procs>>

Flip(S, x) == IF x \in S THEN S \ {x} ELSE S \cup {x}

DeleteOrRestoreFile(f) ==
  /\ Tick
  /\ gone' = Flip(gone, f)
  /\ UNCHANGED <<disk, unreadable, broken, note, index, procs>>

ChangeReadability(f) ==
  /\ Tick
  /\ unreadable' = Flip(unreadable, f)
  /\ UNCHANGED <<disk, gone, broken, note, index, procs>>

BreakOrMendProvider(q) ==
  /\ Tick
  /\ broken' = Flip(broken, q)
  /\ UNCHANGED <<disk, gone, unreadable, note, index, procs>>

ChangeNote(n) ==
  /\ Tick
  /\ \E v \in {0, clock + 1} : note' = [note EXCEPT ![n] = v]
  /\ UNCHANGED <<disk, gone, unreadable, broken, index, procs>>

Environment ==
  \/ \E f \in Files : EditFile(f) \/ DeleteOrRestoreFile(f) \/ ChangeReadability(f)
  \/ \E q \in Providers : BreakOrMendProvider(q)
  \/ \E n \in Notes : ChangeNote(n)

----------------------------------------------------------------------------
(***************************************************************************)
(* A command starts by discovering the sessions in its scope, before it    *)
(* touches the index.  A provider whose discovery fails contributes none;  *)
(* the failure is reported but does not narrow what will be pruned.        *)
(***************************************************************************)
Discovered(scope) ==
  [s \in Sessions |-> IF ProviderOf[s] \in scope \ broken /\ FileOf[s] \notin gone
                      THEN disk[FileOf[s]] ELSE 0]
FoundBy(p) == {s \in Sessions : found[p][s] # 0}

Start(p, j) ==
  /\ pc[p] = "idle"
  /\ job' = [job EXCEPT ![p] = j]
  /\ step' = [step EXCEPT ![p] = j.first]
  /\ found' = [found EXCEPT ![p] = Discovered(j.scope)]
  /\ pc' = [pc EXCEPT ![p] = "begin"]
  /\ UNCHANGED <<sources, index, txn>>

\* The process leaves its command: nothing but the disk remembers it.
Leave(p) ==
  /\ pc' = [pc EXCEPT ![p] = "idle"]
  /\ step' = [step EXCEPT ![p] = "idle"]
  /\ job' = [job EXCEPT ![p] = NoJob]
  /\ found' = [found EXCEPT ![p] = [s \in Sessions |-> 0]]
  /\ txn' = [txn EXCEPT ![p] = NoTxn]

\* The process goes on with the transaction after the current one.
Continue(p) ==
  LET next == NextStep(job[p], step[p])
  IN IF next = "idle" THEN Leave(p)
     ELSE /\ pc' = [pc EXCEPT ![p] = "begin"]
          /\ step' = [step EXCEPT ![p] = next]
          /\ txn' = [txn EXCEPT ![p] = [NoTxn EXCEPT !.errors = txn[p].errors]]
          /\ UNCHANGED <<job, found>>

----------------------------------------------------------------------------
(***************************************************************************)
(* load_manifest_or_reset: a manifest that does not parse stages the       *)
(* deletion of every document and starts from an empty manifest.           *)
(***************************************************************************)
Reset == [NoTxn EXCEPT !.form = "current"]
LoadManifestOrReset ==
  IF form = "corrupt" THEN Reset
  ELSE [NoTxn EXCEPT !.docs = docs, !.man = manifest, !.form = form]

Acquire(p, kind) == pc[p] = "begin" /\ step[p] = kind /\ LockFree

\* The commit makes the staged documents visible; the save comes later.
Commit(p, t) ==
  /\ docs' = t.docs
  /\ txn' = [txn EXCEPT ![p] = t]
  /\ pc' = [pc EXCEPT ![p] = "save"]
  /\ UNCHANGED <<sources, manifest, form, step, job, found>>

\* (faulty) clear leaves manifest.json in place
ClearKeepingManifest(p) ==
  Acquire(p, "clear") /\ Commit(p, [NoTxn EXCEPT !.man = manifest])

\* clear: commit an empty index, then remove manifest.json.
Clear(p) == Acquire(p, "clear") /\ Commit(p, NoTxn)

\* The entries f without those of the items in S.
Without(f, S) == [i \in Items |-> IF i \in S THEN 0 ELSE f[i]]
SessionsOf(providers) == {s \in Sessions : ProviderOf[s] \in providers}

ClearProviders(p) ==
  /\ Acquire(p, "clear_providers")
  /\ LET t == LoadManifestOrReset
         S == SessionsOf(job[p].prune)
     IN Commit(p, [t EXCEPT !.docs = Without(t.docs, S), !.man = Without(t.man, S)])

----------------------------------------------------------------------------
(***************************************************************************)
(* build_index_inner: one pass over the discovered sessions, then pruning. *)
(***************************************************************************)
BeginBuild(p) ==
  /\ Acquire(p, "build")
  /\ LET t == IF form = "legacy" THEN Reset ELSE LoadManifestOrReset
     IN txn' = [txn EXCEPT ![p] = [t EXCEPT !.todo = FoundBy(p)]]
  /\ pc' = [pc EXCEPT ![p] = "scan"]
  /\ UNCHANGED <<sources, index, step, job, found>>

\* (faulty) the load error is not recorded
SkipUnreported(t, s) ==
  [t EXCEPT !.docs = Without(t.docs, {s}), !.man = Without(t.man, {s}),
            !.todo = t.todo \ {s}, !.cur = NoSession]

\* skip_failed_session: a session that cannot be read loses its documents.
SkipFailed(t, s) ==
  [t EXCEPT !.docs = Without(t.docs, {s}), !.man = Without(t.man, {s}),
            !.errors = t.errors \cup {s}, !.todo = t.todo \ {s}, !.cur = NoSession]

Unreadable(f) == f \in gone \cup unreadable

\* The fingerprint of a file, taken once per pass.
Fingerprint(t, f) == IF t.cache[f] # 0 THEN t.cache[f] ELSE disk[f]

\* index_session, up to the decision whether the messages must be loaded.
FingerprintSession(p, s) ==
  LET t == txn[p]
      f == FileOf[s]
      fp == Fingerprint(t, f)
      known == [t EXCEPT !.cache[f] = fp]
  IN
  /\ pc[p] = "scan" /\ s \in t.todo
  /\ \/ /\ t.cache[f] = 0 /\ Unreadable(f)
        /\ txn' = [txn EXCEPT ![p] = SkipFailed(t, s)]
        /\ UNCHANGED pc
     \/ /\ t.cache[f] # 0 \/ ~Unreadable(f)
        /\ fp = t.man[s]
        /\ txn' = [txn EXCEPT ![p] = [known EXCEPT !.todo = t.todo \ {s}]]
        /\ UNCHANGED pc
     \/ /\ t.cache[f] # 0 \/ ~Unreadable(f)
        /\ fp # t.man[s]
        /\ txn' = [txn EXCEPT ![p] = [known EXCEPT !.cur = s]]
        /\ pc' = [pc EXCEPT ![p] = "load"]
  /\ UNCHANGED <<sources, index, step, job, found>>

\* (faulty) the messages are loaded before the fingerprint is taken
ReindexedLoadFirst(t, s) ==
  [t EXCEPT !.docs[s] = Fingerprint(t, FileOf[s]), !.man[s] = disk[FileOf[s]],
            !.todo = t.todo \ {s}, !.cur = NoSession]
\* (faulty) the pass does not move on from the session
ReindexedForGood(t, s) ==
  [t EXCEPT !.docs[s] = disk[FileOf[s]], !.man[s] = Fingerprint(t, FileOf[s]),
            !.todo = t.todo \ {s}]

\* The rest of index_session: load, replace the documents, record the fingerprint.
Reindexed(t, s) ==
  [t EXCEPT !.docs[s] = disk[FileOf[s]], !.man[s] = Fingerprint(t, FileOf[s]),
            !.todo = t.todo \ {s}, !.cur = NoSession]

LoadSession(p) ==
  LET t == txn[p]
      s == t.cur
  IN
  /\ pc[p] = "load"
  /\ txn' = [txn EXCEPT ![p] = IF Unreadable(FileOf[s]) THEN SkipFailed(t, s)
                               ELSE Reindexed(t, s)]
  /\ pc' = [pc EXCEPT ![p] = "scan"]
  /\ UNCHANGED <<sources, index, step, job, found>>

\* (faulty) pruning ignores the providers the command may prune
StaleEverywhere(p) == {s \in Sessions : txn[p].man[s] # 0 /\ s \notin FoundBy(p)}
\* (faulty) nothing is ever pruned
StaleNever(p) == {}

\* Manifest entries of providers in the pruning scope that were not discovered.
Stale(p) == {s \in SessionsOf(job[p].prune) : txn[p].man[s] # 0 /\ s \notin FoundBy(p)}

CommitBuild(p) ==
  /\ pc[p] = "scan" /\ txn[p].todo = {}
  /\ LET t == txn[p]
     IN Commit(p, [t EXCEPT !.docs = Without(t.docs, Stale(p)),
                            !.man = Without(t.man, Stale(p))])

----------------------------------------------------------------------------
(***************************************************************************)
(* index_notes, best effort: the notes are read from the sidecar before    *)
(* the lock is taken, and only those of the discovered sessions are given. *)
(***************************************************************************)
ReadNotes(p) ==
  /\ pc[p] = "begin" /\ step[p] = "notes"
  /\ txn' = [txn EXCEPT ![p].list =
               [n \in Notes |-> IF NoteRef[n] \in FoundBy(p) THEN note[n] ELSE 0]]
  /\ pc' = [pc EXCEPT ![p] = "notes"]
  /\ UNCHANGED <<sources, index, step, job, found>>

\* (faulty) a note that is not in the list stays
WithNotesKept(f, g, list) ==
  [i \in Items |-> IF i \in Notes /\ list[i] # 0 /\ g[i] # list[i] THEN list[i] ELSE f[i]]

\* Adds new notes, replaces changed ones, prunes those not in the list.
WithNotes(f, g, list) ==
  [i \in Items |-> IF i \in Notes /\ g[i] # list[i] THEN list[i] ELSE f[i]]

IndexNotes(p) ==
  /\ pc[p] = "notes" /\ LockFree
  /\ LET t == LoadManifestOrReset
         list == txn[p].list
     IN Commit(p, [t EXCEPT !.docs = WithNotes(t.docs, t.man, list),
                            !.man = WithNotes(t.man, t.man, list),
                            !.errors = txn[p].errors])

----------------------------------------------------------------------------
\* save_manifest (or removing the file, for clear) ends the transaction.
Save(p) ==
  /\ pc[p] = "save"
  /\ manifest' = txn[p].man
  /\ form' = txn[p].form
  /\ Continue(p)
  /\ UNCHANGED <<sources, docs>>

\* Tantivy refuses a second writer: the command fails; for notes it goes on.
Refused(p) ==
  /\ ~LockFree
  /\ \/ pc[p] = "notes"
     \/ pc[p] = "begin" /\ step[p] \in {"clear", "clear_providers", "build"}
  /\ IF step[p] = "notes" THEN Continue(p) ELSE Leave(p)
  /\ UNCHANGED <<sources, index>>

\* The search itself: reload the reader and collect hits of found sessions.
Hits(p) == {s \in FoundBy(p) : docs[s] # 0}
ReadHits(p) ==
  /\ pc[p] = "begin" /\ step[p] = "read"
  /\ Leave(p)
  /\ UNCHANGED <<sources, index>>

\* A crash or an error return before the commit: staged writes vanish.
Abort(p) ==
  /\ pc[p] \in {"begin", "notes", "scan", "load"}
  /\ Leave(p) \/ (step[p] = "notes" /\ Continue(p))
  /\ UNCHANGED <<sources, index>>

\* A crash, or a failing save, after the commit: the old manifest stays.
TornCommit(p) ==
  /\ Interrupts
  /\ pc[p] = "save"
  /\ Leave(p) \/ (step[p] = "notes" /\ Continue(p))
  /\ UNCHANGED <<sources, index>>

Build(p) ==
  \/ BeginBuild(p) \/ (\E s \in Sessions : FingerprintSession(p, s))
  \/ LoadSession(p) \/ CommitBuild(p)
Progress(p) ==
  \/ Clear(p) \/ ClearProviders(p) \/ Build(p) \/ ReadNotes(p) \/ IndexNotes(p)
  \/ Save(p) \/ Refused(p) \/ ReadHits(p)
Process(p) ==
  \/ \E j \in Jobs : Start(p, j)
  \/ Progress(p) \/ Abort(p) \/ TornCommit(p)

Next == Environment \/ \E p \in Procs : Process(p)
Spec == Init /\ [][Next]_vars

----------------------------------------------------------------------------
(***************************************************************************)
(* Properties.                                                             *)
(***************************************************************************)
Txn == [docs : [Items -> Version], man : [Items -> Version], form : Forms,
        todo : SUBSET Sessions, cache : [Files -> Version],
        cur : Sessions \cup {NoSession}, list : [Notes -> Version],
        errors : SUBSET Sessions]
Steps == {"idle", "clear", "clear_providers", "build", "notes", "read"}

\* Every variable stays in its range, and a load in progress has a session.
TypeOK ==
  /\ clock \in Version
  /\ disk \in [Files -> Version \ {0}]
  /\ gone \subseteq Files /\ unreadable \subseteq Files /\ broken \subseteq Providers
  /\ note \in [Notes -> Version]
  /\ docs \in [Items -> Version] /\ manifest \in [Items -> Version]
  /\ form \in Forms
  /\ pc \in [Procs -> {"idle", "begin", "notes", "scan", "load", "save"}]
  /\ step \in [Procs -> Steps]
  /\ job \in [Procs -> Jobs \cup {NoJob}]
  /\ found \in [Procs -> [Sessions -> Version]]
  /\ txn \in [Procs -> Txn]
  /\ \A p \in Procs : pc[p] = "load" <=> txn[p].cur \in Sessions

\* Documents no older than the fingerprint that vouches for them: an entry that
\* is out of date is then always noticed, because its fingerprint differs.
Vouched(d, m) == \A s \in Sessions : d[s] # 0 => m[s] <= d[s]

\* The fingerprint is taken before the messages are loaded, so whatever edits
\* land in between, and wherever a process dies, no manifest entry claims a
\* version newer than the documents it stands for (index_session).
NeverStaleUnnoticed == Vouched(docs, manifest)

\* With the lock free, an item has documents exactly if the manifest lists it.
\* Holds while every commit is followed by its save (build_index, clear).
ManifestMatchesDocs ==
  LockFree /\ form = "current" => \A i \in Items : manifest[i] # 0 <=> docs[i] # 0

\* "A manifest tracks which sessions have been indexed": whatever it lists
\* outside a transaction has documents, or build_index would skip it for ever.
ManifestListsOnlyIndexed ==
  LockFree /\ form = "current" => \A s \in Sessions : manifest[s] # 0 => docs[s] # 0

\* A commit touches sessions only of the providers its command discovers or
\* prunes, unless it clears the index or replaces an unusable manifest; and the
\* TUI's indexing thread removes no session that it could read.
CommitsStayInScope ==
  [][\A p \in Procs, s \in Sessions :
       (pc[p] # "save" /\ pc'[p] = "save" /\ step[p] # "clear" /\ form = "current") =>
         /\ ProviderOf[s] \notin job[p].scope \cup job[p].prune =>
                docs'[s] = docs[s] /\ txn'[p].man[s] = manifest[s]
         /\ job[p].kind = "tui" /\ docs[s] # 0 /\ docs'[s] = 0 => s \in txn[p].errors]_vars

\* With one process and no torn commit, a search leaves out a session it
\* discovered only with a load warning, and never serves it at a version older
\* than the one discovered (SearchService::search).
SearchIsFresh ==
  \A p \in Procs : pc[p] = "begin" /\ step[p] = "read" =>
    \A s \in FoundBy(p) \ txn[p].errors : s \in Hits(p) /\ docs[s] >= found[p][s]

\* Every discoverable, readable session of an enabled provider is indexed at
\* its current version, and no session is indexed whose file is gone.
Fresh ==
  \A s \in Sessions :
    LET f == FileOf[s] IN
    /\ (ProviderOf[s] \in Enabled \ broken /\ ~Unreadable(f)) => docs[s] = disk[f]
    /\ f \in gone => docs[s] = 0

\* If "aghist index" keeps running to its end, the index converges once the
\* sources stop changing, whatever other commands did in between.
IndexRunEnds(p) == Save(p) /\ step[p] = "build" /\ job[p] \in IndexAll
Converges == []<><<\E p \in Procs : IndexRunEnds(p)>>_vars => []<>Fresh

\* The notes of discoverable sessions are indexed as they are, deleted ones not
\* at all.
NotesFresh ==
  \A n \in Notes :
    LET s == NoteRef[n]
        there == ProviderOf[s] \in Enabled \ broken /\ FileOf[s] \notin gone
    IN docs[n] = IF there THEN note[n] ELSE 0

\* "metadata.db deletes propagate": while searches over all enabled providers
\* keep saving the notes they read, the notes converge once they stop changing,
\* although each search reads them before it takes the lock and another
\* process may overtake it with a newer list (index_notes; no torn commits).
NotesSaved(p) == Save(p) /\ step[p] = "notes" /\ job[p].scope = Enabled
NotesConverge == []<><<\E p \in Procs : NotesSaved(p)>>_vars => []<>NotesFresh

\* A forced run over every provider that meets no error and no edit leaves
\* each discovered session indexed at its current version, even after torn
\* commits (run_indexing with force; one process).
ForcedRunRepairs ==
  [][\A p \in Procs :
       (IndexRunEnds(p) /\ job[p].first = "clear" /\ txn[p].errors = {}
          /\ found[p] = Discovered(job[p].scope)) =>
         \A s \in FoundBy(p) : docs[s] = disk[FileOf[s]]]_vars

----------------------------------------------------------------------------
(***************************************************************************)
(* The index implements IndexCache: a transaction takes effect at its      *)
(* commit, with the manifest its process is about to save.  An index whose *)
(* manifest is unusable counts as empty, since building it starts over.    *)
(***************************************************************************)
Effective(form0, d, m) ==
  [i \in Items |-> IF form0 = "current" THEN [docs |-> d[i], fp |-> m[i]]
                   ELSE [docs |-> 0, fp |-> 0]]
EntryBar ==
  IF \E p \in Procs : pc[p] = "save"
  THEN LET t == txn[CHOOSE p \in Procs : pc[p] = "save"] IN Effective(t.form, docs, t.man)
  ELSE Effective(form, docs, manifest)

Cache == INSTANCE IndexCache WITH now <- clock, entry <- EntryBar

\* Without torn commits, documents and manifest change as one atomic value.
ImplementsIndexCache == Cache!Spec

----------------------------------------------------------------------------
(***************************************************************************)
(* The inductive strengthening of NeverStaleUnnoticed and of               *)
(* ManifestMatchesDocs: what a staged transaction may already rely on.     *)
(***************************************************************************)
OneWriter == \A p, q \in Procs : Writing(p) /\ Writing(q) => p = q

TxnSafe(t) ==
  /\ \A f \in Files : t.cache[f] <= disk[f]
  /\ \A s \in Sessions :
       /\ t.docs[s] <= disk[FileOf[s]] /\ t.man[s] <= disk[FileOf[s]]
       /\ t.docs[s] # 0 => t.man[s] <= t.docs[s] /\ manifest[s] <= t.docs[s]

\* Nothing in the index is newer than its source; what a transaction has
\* staged is vouched for by its own manifest and by the one still on disk, so
\* it may be committed and die there; what it committed is what it staged.
SafetyInv ==
  /\ OneWriter
  /\ \A f \in Files : disk[f] <= clock
  /\ \A s \in Sessions : docs[s] <= disk[FileOf[s]] /\ manifest[s] <= disk[FileOf[s]]
  /\ NeverStaleUnnoticed
  /\ \A p \in Procs : Writing(p) => TxnSafe(txn[p])
  /\ \A p \in Procs : pc[p] = "save" => docs = txn[p].docs

Matching(d, m) == \A i \in Items : m[i] # 0 <=> d[i] # 0
TxnMatches(t) == t.form = "current" => Matching(t.docs, t.man)

\* Without torn commits documents and manifest agree, staged and on disk,
\* except between a commit and its save.
MatchInv ==
  /\ form = "current" /\ (\A p \in Procs : pc[p] # "save") => Matching(docs, manifest)
  /\ \A p \in Procs : Writing(p) => TxnMatches(txn[p])
============================================================================
