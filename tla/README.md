# A TLA+ model of agent-history

`aghist` reads the chat histories of coding agents (Claude Code, Codex, Cursor and
others), indexes their messages with Tantivy, and offers them through a terminal UI, a
set of one-shot commands and an MCP server. This directory models the parts whose
correctness depends on order, concurrency, failure or on two pieces of code agreeing,
checks the models with TLC on small instances, and proves the central properties of the
search index, of its directory, of paging, of the federation of remote sources, of the
annotations, of the terminal UI and of the history readers for every instance with TLAPS.

## 1. Inventory

Paths are relative to the crate's `src/`.

| Component | State it keeps | Operations | Interacts with | What is hard | What makes it correct |
|---|---|---|---|---|---|
| Search index (`search/index*`, `search/fingerprint.rs`) | Tantivy documents; `manifest.json` (session key -> fingerprint) | `clear`, `clear_providers`, `build_index*`, `index_notes`, `load_manifest_or_reset` | session sources, metadata sidecar, other processes through the writer lock | two stores written one after the other; sources change during a pass; crashes; several writers | documents and manifest agree; a stale entry is always noticed; a run stays in its providers; the index converges |
| Index directory (`search/storage.rs`, `search/schema.rs`, `health/*`, `commands/install/uninstall.rs`) | the files of the directory and their forms | open or create, reset, check, remove | index runs, health, uninstall | no lock; removal file by file; unknown files | strangers survive; the manifest never outlives the documents; an uninstall that stops outside the emptying of the directory can be resumed |
| Indexing orchestration (`indexing*`, `services/index.rs`, `query_scope.rs`) | none between runs | discover, force-clear, build | providers, index | discovery precedes the lock; failed providers | forced runs repair; failed discovery heals |
| Search service (`search/service*`, `search/query/*`, `search/hybrid*`) | none | refresh index, refresh notes, collect, filter and fuse hits | index, sidecar, vectors | notes read before the lock; filters after the limit; two rankings | nothing left out unreported; both rankings count |
| Paging (`services/search.rs`, `cursor.rs`, `services/list*`) | the client's cursor | next page after a sort key | search service | candidate limits, equal scores, shifting scores | pages neither skip nor repeat |
| Terminal UI (`app*`, `event.rs`) | mode, query, results, filters, selection, message cache, index state | one handler per action, `tick`, `render` | indexing thread (channel), index, star store | four inputs decide one list; the selection is a row number; debounce; late messages | the list is current; the reader is not disturbed |
| Star store (`stars.rs`) | set of stars, copy of the sidecar's | `load`, `toggle` | metadata sidecar | failing or concurrent sidecar | memory follows disk |
| Metadata sidecar (`metadata*`) | SQLite tables stars, tags, notes | add, remove, list, edit, filter | CLI, TUI, MCP, index notes | one commit per statement, several statements per command | unique rows, ids that keep their meaning, sound filters |
| Search watch (`commands/search/watch.rs`) | set of seen message keys | poll | search service | limits, repeated keys | every new hit once |
| Embeddings (`embed*`, `services/index/embeddings*`) | vector store file, consent file | open/evict, upsert, retain, flush | index runs, hybrid search | unlocked read-modify-write; pruning after failures | live vectors survive; no download without consent |
| Remote sources (`config/sources*`, `commands/sources*`, `federated*`) | sources registry, per-source cache and manifest | add, remove, pull, discover | rsync (external), every discovering command | interrupted pulls, stale caches, reused names | a healthy cache is its host's; nothing is hidden unreported |
| Resolver and citations (`session_resolver*`, `model/citation*`) | none | parse, resolve, cite | all commands that take a reference | ambiguity across sources | one session or an error |
| MCP server (`mcp*`) | what it loaded at its start | initialize, tools, resources | services | scope and registry of the start used for all requests | same answers as the command line |
| Providers (`provider*`) | none | discover, load, fingerprint | files that other programs are writing | ten formats, each read by two parsers; torn records | list and load agree; turns stay; losses are counted |
| Diff, ranges, threads, usage and project reports | none | sequential computations | services | boundaries, ties, sums that saturate | agreement with a definition |
| Decisions, todos, track, LLM, exports, install, CLI, schema | none or one-shot file effects | sequential transformations | services, network | heuristics, formatting | golden tests cover them |

`PROJECT.json` lists the components with their files and status, and under `hazards` each
hard spot with its line and the properties that watch it.

## 2. Modules

| Module | Models | Proofs |
|---|---|---|
| `SearchIndex` | index, manifest, writer lock, all index commands, search refresh | `SearchIndexProofs` |
| `IndexCache` | abstract specification of it: one atomic cache of the sources | `SearchIndexProofs` |
| `IndexDir` | the index directory file by file: schema reset, embedding pass, health, uninstall | `IndexDirProofs` |
| `TuiApp` | terminal UI | `TuiAppProofs` |
| `SearchPaging` | keyset pages over hits that are filtered after a limited collection, cursors, shifting scores, the watch loop | `SearchPagingProofs` |
| `Federation` | source registry, pulls, caches, discovery across sources, selectors, MCP serving | `FederationProofs` |
| `Metadata` | notes, tags, stars over shared SQLite, statement by statement; star store of a running UI | `MetadataProofs` |
| `Parsers` <- `LineFormats`, `StoreFormats`; `Discovery`; `Transcripts` composes them | the ten formats: what their parsers make of a record, what discovery finds, and a conversation being written | `TranscriptsProofs` |
| `Subsequences` | what a filter and a sort leave, for `TuiApp`, the readers and the algorithms | `AlgorithmProofs` |
| `Excerpts`, `HybridRanking`, `Threads` | windows, ranges, diff; rank fusion; threads | `AlgorithmProofs` |
| `Reports` | sums of usage, project and report | `AlgorithmProofs` |
| `MC*` | instances; `MCAlgorithms` evaluates the four algorithm modules | |

## 3. The search index: `SearchIndex`, `IndexCache`

**State and code.** A version number stands for the content of a file and its fingerprint
(length, mtime, SHA-256; `FileFingerprint`): it is the logical time of the last edit.
`docs[i]` is the version of the committed Tantivy documents of a session or note, 0 for
none; `manifest[i]` the version recorded in `manifest.json`; `form` says whether that file
parses and has current keys (`load_manifest_or_reset`, `has_legacy_session_keys`).
`txn[p]` is the local state of a transaction: staged documents, the in-memory manifest, the
sessions still to visit, the per-pass fingerprint cache.

| Actions | Code |
|---|---|
| `Start` | a command discovers the sessions of its scope, before it opens the index |
| `Clear`, `ClearProviders` | `search/index/write.rs` up to the commit |
| `BeginBuild`, `FingerprintSession`, `LoadSession`, `CommitBuild` | `search/index/write/sessions.rs`: manifest load, fingerprint, load and re-add, prune and commit |
| `ReadNotes`, `IndexNotes` | sidecar read (`search/service.rs`), then `search/index/write/notes.rs` |
| `Save` | `save_manifest` or the manifest's removal; the function returns and the lock falls |
| `Refused` | Tantivy refuses a second writer (external); a failing `index_notes` is only a warning |
| `ReadHits` | the search reads hits and filters them to the discovered sessions |
| `Abort`, `TornCommit` | error or death before a commit (nothing happened) and after it (old manifest stays) |
| `EditFile` ... `ChangeNote` | the world outside (external) |

`Jobs` are the commands: what each discovers, may prune, and runs in sequence
(`indexing.rs`, `services/index.rs`, `mcp/tool_handlers/maintenance.rs`,
`commands/dispatch.rs`, `app/search.rs`, `commands/search.rs`).

**Runs.**

- `IndexTwoProcs` (two processes, two providers with a session each, a note, `MaxClock` 2,
  no torn commit): `ManifestMatchesDocs`; `ImplementsIndexCache`, the refinement of
  `IndexCache` in which an entry and what vouches for it are one value; `CommitsStayInScope`
  (the UI, whose scope is empty, prunes nothing); `NotesConverge`. Two processes suffice because the lock admits one
  writer and a second contender; one edit after the initial version gives each race between
  an edit and a step.
- `IndexInterrupted` (one process that may die after any commit, sessions `s1`, `s2` in one
  file as with SQLite-backed providers, `s3` of another provider, `MaxClock` 3): `TypeOK`,
  `NeverStaleUnnoticed`, `ForcedRunRepairs`. Two edits allow an edit before and one inside a
  pass that follows a torn one.
- `IndexSearch` (same sources with a note, nobody dies): `SearchIsFresh`, `Converges`.
- `IndexTorn` is expected to fail: see findings.

**Fairness.** No fairness is assumed of the system. The two liveness properties are
conditional: `Converges` says that *if* `aghist index` over all providers completes again
and again, the index is again and again fresh; `NotesConverge` says the same of searches
that save the notes they read. The clock bounds edits, so "again and again" means "after
the sources have come to rest". Nothing schedules those runs but the user, so stronger
fairness would not be justified.

**Findings.** `IndexTorn`: `clear` commits before it removes `manifest.json`, so a crash in
between leaves a manifest that lists sessions without documents; every incremental build
then skips them. `ForcedRunRepairs` shows that a forced run recovers.

## 4. The terminal UI: `TuiApp`

**State and code.** One variable per field of `App` that matters: `mode`, `beneath`
(`pre_help_mode`), `query` (its length; the user types one string), `pending`
(`search_pending_at`), `results`, `engine`, `hybrid`, `filter`, `row`, `editing`, `matched`
(`msg_filter_session_ids`), `stars`, `selected` (0 for none), the LRU `cache`, `ready`,
`progress`, and the action channel `chan` with the indexing thread behind it. `at` is the
event loop's place: draw, poll, drain. `Base` and `Display` are `display_session_indices`
(the list it starts from, and what the filters leave of it), `Focused` is
`resolve_selected_session`. `Display` is picked from `Base` by position (`Subsequences`).

Each action of `dispatch` is an action of the model, guarded by `Bound`, the key tables of
`event.rs`. A key that changes nothing that is modelled is `NoKey`. `Tick` is `tick` with a
debounce window that may or may not have elapsed, followed by the exit test. `Draw` includes
what the ratatui list widget does to the selection (external): it clamps it to the list.
`FilterClearAll` is no action, because its key, Ctrl+C, is the global quit (`event.rs:27`)
although the status bar (`ui/status_bar.rs:108`) offers it as "clear". A date never gets
into the filter, because `push_date_char` parses after each character; the model's date
fields therefore stay unset. An index query error in `recompute_message_filter` (I/O) and a
missing index are left out; a query that does not parse is `Failed`.

**Runs.** `TuiKeys` (three sessions, two-character queries of which the second does not
parse, a panel with the project, starred and tool-call rows, one star, one cached session,
one message in the channel) checks `TypeOK` (also: a search is queued only while typing),
`ListIsCurrent` (when no search is pending the results are those of the query, and a
message filter is resolved as soon as the index is ready), `BrowseHasFocus` (a list that
is not empty has a selected row, after any result, filter or failing star) and
`ReadingStable` (while a session is being read, nothing takes it from the screen or its
messages from the cache, but a star removed in a starred-only list and a message filter
that is resolved). Three
sessions give a list that shrinks from two to one and to none; the other panel rows behave
like the three instantiated ones. `TuiEarlyQuery` is expected to fail: see below. No
liveness is claimed.

**Finding.** `TuiEarlyQuery`: a query typed before `IndexReady` is dropped by the next tick
and never run, unlike a message filter, which `IndexReady` resolves.

## 5. Paging and watching: `SearchPaging`

**State and code.** Every request of `search`, `--list` or `search --watch` refreshes and
reads the index anew, so `score`, which says what matches and how well, is a variable that
other commands change at will (`Shift`). A hit is a message or note, or a session of
`--list`, whose score is then its start time; `Rank` is the rest of the sort key. `Hidden`
are hits of sessions the command does not discover (providers disabled since they were
indexed), which `filter_hits_to_current_sessions` drops.

| Definitions | Code |
|---|---|
| `Before` | the sort (`search/service/filter.rs`, `services/list/paging.rs`) and the cursor tests, which use the same keys in the same order |
| `TopPools`, `Candidates` | `SearchCollection::Top(limit + 1)`: Tantivy's best hits, equal scores by document address, here in any order |
| `Answer` | page start, page end and `next_cursor` of `search_sessions` and `list_sessions_page` |
| `FirstPageTop`, `FirstPageFull`, `NextPage` | a plain first search page; any other first page; a page with `--cursor` |
| `Poll`, `StopWatch` | one iteration of `search_watch_command`; its returns on a closed output or a failing search |

Readers only read, so a behaviour has one of them. A session that changes its start time is
a hit that changes its score. Cursor encoding and its size limit are left out.

**Runs.** `Paging` (four hits, one hidden, two scores, pages of one or two, one arbitrary
change): `PagesInOrder`, `NothingSkipped`, `SkippedOnlyAtTheCut`, `WalkEnds`,
`WatchCatchesUp`. Three visible hits give a first, a middle and a last page, with the change
between any two of them; two scores give ties and re-ranking. The proofs below cover any
number of changes and hits. `PagingTies` (three hits, no change) is expected to fail.

**Fairness.** `WF(NextPage)`: the client goes on with the cursors it is given, which is what
`WalkEnds` is about. `WF(Poll)`: the watch loop sleeps for a fixed interval and polls again;
the loop has no other way to wait. It may be stopped at any time.

**Finding.** `PagingTies`: hits that tie at the cut of a plain search's first page can be on
no page at all, because the index breaks ties by address and the cursor by key. `SkippedOnlyAtTheCut`
shows that this, and a first page emptied by hidden hits (which also ends the walk without a
cursor), are the only ways to lose a hit.

## 6. The index directory: `IndexDir`

**State and code.** `dir` is the set of entries of the directory, `form` what a file is in:
good, of an old version, made for another model, or damaged. The build of the index, which
section 3 takes apart, is one step here (`Build`); what is taken apart instead is everything
that happens without the writer lock.

| Actions | Code |
|---|---|
| `Open`, `ResetFile`, `ResetDone`, `Create`, `WriteSentinel` | `search/index.rs`, `search/storage.rs`: an index of an old schema is reset, one managed file at a time, if the directory is ours and holds nothing unknown |
| `Consent`, `ConsentUnreadable`, `OpenStore`, `StoreCorrupt`, `Embed`, `EmbedderFails`, `Flush` | `services/index/embeddings/enabled.rs`, `embed/store.rs`, `embed/consent.rs` |
| `Query` | `search/hybrid.rs` as far as it touches files: without consent or vectors the search stays lexical |
| `Says`, `Hint`, `Probe`, `Unprobe` | `health/*`: what a check says, which command its hint names, and the probe file |
| `CheckDir`, `CheckFails`, `RemoveEntry`, `RemoveConfig`, `RemoveProgram` | `commands/install/uninstall.rs` |
| `Die` | a death or I/O error between any two steps |

The history variables `accepted`, `disturbed`, `flagged`, `lone` say what promises apply to.

What an uninstall promises has a limit. `remove_dir_all` takes the entries in any order, and
a directory without its sentinel is refused, even an empty one: an uninstall that stops after
the sentinel is gone and before the directory is cannot be run again. `UninstallCanResume`
excepts exactly that; anywhere else the program, its marker and a directory that is gone or
may be removed are left, or the binary alone. It speaks of an uninstall that nothing else
disturbs, since another process may put anything into the directory behind it.

**Run.** `IndexDir`: two processes (symmetric), two providers with a session and a message
each, two texts per message, two commands started, one change or death, four first
directories with at most one damaged file. Two commands give each pair of them, with the
change between any two steps. `ManifestHasDocs`, `ModelNeedsConsent`, `HintsWork`,
`UninstallCanResume`, `StrangersSurvive`, `LiveVectorsSurvive`; their comments name the code.

**Known gaps, stated as exceptions of the properties.** A vector store that is damaged
makes health advise `aghist index --force`, which ends with an error. A store of an old
schema without consent is not repaired by the advised run. Lock and `.del` files that
Tantivy leaves count as unknown and block a reset and an uninstall. Two index runs that
write `embeddings.bin` lose each other's vectors until a later run embeds them again. The
model does not tell an empty directory from a missing one.

## 7. Remote sources: `Federation`

**State and code.** `config` is the registry of the configuration file; `cache[n]` and
`manifest[n]` what a source's directory holds, by name; `standing` what exists here and on
each host. A host stands for host, path and transport together.

| Actions | Code |
|---|---|
| `Start`, `Save` | every command loads the configuration; `sources add` and `remove` write back what they loaded, so of two the last wins (`services/source_registry.rs`) |
| `BeginPull`, `CopyFile`, `FinishEarly`, `Finish`, `DryRun` | `commands/sources/remote/pull.rs`: rsync copies and deletes file by file (external), the manifest is written last |
| `Request` | a request to a running server, over the registry and the providers of its start (`mcp/*`, `commands/context.rs`) |
| `Discover` | one source's discovery, local or cached, reported when it fails (`federated*`) |
| `Matches`, `UniqueTarget`, `Answer`, `Load` | `session_resolver*`: exact ids before prefixes, more than one is an error; the session is then loaded and may be gone |
| `EditLocal`, `EditRemote`, `Install`, `DeleteCache`, `Fail` | the world outside; a death or failure between any two steps |

Removing a source keeps its cache,
and a name may come back for another host; a server keeps the registry of its start.

**Run.** `Federation`: two processes (symmetric), two names, two hosts, three files of which
two have one session key, one source accepted by commands, three commands started, one
change or failure. `RegistryLoads`, `HealthyCachesAreOwn`, `NothingUnreported`,
`SelectorsAreUnambiguous`, and `TypeOK`. All five are proved for any constants.

**What the properties have to except.** `sources add` does not count against
`MAX_REMOTE_SOURCES`, so a registry can hold one source more than other commands accept;
`RegistryLoads` says exactly that. Files of another host can stay in a cache that health
finds in order after this sequence: remove a source, add the name for another host, fail in
the middle of its pull, remove it, add the first one back. `HealthyCachesAreOwn` excepts
the files of pulls not completed since. An unqualified reference may name any source on the
command line and only the local one inside a resource URI.

## 8. Annotations: `Metadata`

**State and code.** `notes`, `tags`, `stars` are the tables of the sidecar, `lastNote` and
`lastTag` SQLite's AUTOINCREMENT counters. Every statement commits alone, so each statement
of each command is an action: `NoteAdd`, `NoteEdit`, `TagAdd`, `StarAdd` and what they read
back (`Get`); `NoteRemove`, `TagRemove`, `StarRemove` and their `Delete`; `NoteList`;
`Filter` once per criterion (`metadata/*.rs`, `migrations/*.sql`). The UI (`Open`, `Load`,
`Toggle`, `Unstar`, `DeleteStar`, `Star`, `GetStar`, `UiFail`: `stars.rs`) loads the stars of
whole local sessions once and writes toggles through: a removal leaves memory first, an
addition enters it last. Other reads of lists change nothing and are left out.

**Run.** `Metadata`: two processes (symmetric) and a UI, one session with refs for itself,
one of its turns, and the session of a remote source; two bodies, one tag, two rows per
table, three commands, loads or toggles, one failed statement. `StarsWrittenThrough`,
`FilterSound`, `EditsHitTheListedNote`, `TypeOK`. Two rows show an id given out after a
removal; three commands let both other users act between two statements of one. The proofs
cover any number of each.

**Known behaviour the properties except.** A failing unstar leaves memory and disk apart;
`star` may report that the star was not found although it inserted it; `note remove` prints
the body it read before it deleted the row.

## 9. The ten formats: `Parsers`, `LineFormats`, `StoreFormats`, `Discovery`, `Transcripts`

**State and code.** `disk` is what an agent has written: records, of which the last may be
torn (half of it is on disk), completed, or run together with the next (`half`); Cursor's
composer row, which names bubbles (`head`); and the files beside the history (`meta`: what
dates the session, a checkpoint, a log), which come, go and are found torn at any time
(`WriteBeside`). The program lists the session (`listed`, and in `began` its start) and
loads it (`shown`, `stats`) between any two writes. `LineFormats` holds the formats that
append lines (Claude Code, Codex, Copilot CLI, Continue, Aider), `StoreFormats` those of one
file or database per session (Gemini, Cline, Zed, OpenCode, Cursor). Each has two operators,
as the code has two parsers: one that lists (`provider/*/parse/session.rs` and the like) and
one that loads. `Discovery` says which directories a provider walks for a way its environment
variable is set, how deep, how it merges what it finds twice, and what its fingerprint is
taken of. A record is abstracted to what the parsers tell apart: its type, the kinds of its
text and parts, whether it has a body, and where its time comes from. A reader is an outcome
per record (`ClaudeOutcome` and the like: a turn, or left out under a heading or in silence)
and what gathers the outcomes (`Gather`); Aider's reads line by line instead (`AiderLine`).
`AiderFound` looks for a session by its second, as `load_messages_from_file` does.

Two parsers of one format are not made alike: Copilot's loader shows every type that contains
"user" and its lister counts those with "user.message" (`CopilotRole`, `CopilotCounted`);
Continue's and Cline's loaders number the times of the messages from a start that the listing
read from another file (`ContinueStart`, `ClineStart`); Cursor's loader passes over rows of
more than 16 MiB (`Huge`, also a composer row) and whatever comes after `MaxRows` names or
rows (100,000 in the code), while its lister counts all names (`Named`, `Scanned`).

**Run.** `Transcripts`: three records of two to eight kinds per format, one tear at a time,
one to eight directory setups per format (Zed, which prefers its variable, has all eight),
two names in Cursor's composer row and at most two rows read. Three records put one before
and one after a torn one, and one beyond the limit of rows; two names are enough for one
named twice, out of order or before its row. About 180,000 states in two minutes. `SaidIsListed` (list and load agree on what was said),
`LeftOutIsCounted`, `TurnsStay` (turn numbers, which stars, notes and citations refer to),
and `ChangesAreFingerprinted` (a step that leaves the fingerprint as it was leaves every load
as it was, so that the index never keeps what it would have to load again).

**What is not promised, and the properties except by name.**

- `SaidIsListed`: Copilot's events of other types with "user" in them are shown but not
  counted, so a session of nothing else is listed with no messages; the bubbles that Cursor's
  composer row does not name are not counted either. Nothing dates some sessions, and a
  Cursor session whose composer row is too large is neither listed nor found; neither is an
  Aider history below `node_modules`, `.git` and the like, or more than four directories
  deep (`place = "deep"`; "far" is a place that only one of the two remote bases reaches).
  Codex does not list a session of nothing but errors, tools and items.
- `LeftOutIsCounted`: Codex and Copilot pass some kinds over in silence (`Silent`), and
  Cursor's limits leave bubbles out that no count mentions (`TooMuch`), as the repository's
  test `skips_oversized_bubble_rows` expects. A bubble that the composer row names twice is
  shown twice.
- `ChangesAreFingerprinted`: a Cursor database with a write-ahead log, which is read but not
  fingerprinted, and Continue's `index.json`: it gives the session its start, the messages'
  times follow on that and are indexed, and no fingerprint covers it. A Continue session
  therefore stays indexed with old times until it is written again; the property says that
  nothing but the times can be stale.
- `TurnsStay`: turns may move in OpenCode (sorted by time, and late parts fill an earlier
  message), in Cursor (the composer row's order, then the others), and in Copilot when
  `events.jsonl` appears beside a checkpoint; Aider's last turn may change while it is torn.

A tear inside a multi-byte character makes a JSONL or Markdown file unreadable, and completing
the halves as one line keeps it so. The formats of one JSON file lose everything while torn.
Cline and Continue list unreadable sessions with no messages. Two Aider sessions that begin in
one second share an id. A local history with a second path to the default directory is listed
twice by Codex, OpenCode, Cursor and Aider, because they compare paths without resolving
links; what was pulled is read below its cache alone and listed once. A history is taken to
lie below the default directory, below the one its variable names, or in a cache of pulled
files; Cline's task directories have the time as their name. Left out: JSON field tolerance,
trimming, models, token counts, summaries, the size limits of files other than Cursor's rows,
and file-system errors that fail a whole listing.

## 10. Algorithms: `Excerpts`, `Threads`, `Reports`, `HybridRanking`

Operators translated from the code, each beside a definition of what it promises.
`MCAlgorithms` states the promises over all small inputs as assumptions, which TLC evaluates
in the run `Paging`, whose module extends it. They are also proved for every input
(section 11).

| Promise | Says | Bounds |
|---|---|---|
| `ExcerptsAreExact` | a window or a range is what lies around or between its turns, clipped at the ends | four turns |
| `DiffsAreMinimal` | the diff keeps a longest common subsequence, its hunks hold every change with its context, and it is empty exactly for equal conversations | four turns of two kinds |
| `ThreadsAreRight` | a thread is a component of the sessions of a project linked by a gap; a limit keeps the newest; ids stay when a strictly later session comes | three sessions |
| `ReportsAddUp`, `SumsSaturate` | rows add up to totals, usage and project agree, a wider choice never has a smaller sum | two or three sessions, counters that saturate |
| `FusionIsSound` | hybrid hits pass the filters, a large pool misses nothing, a message both rankings put first is first, weight one ranks by meaning | three messages, weights in quarters, pools of one to three |

Where code and comments differ: the gap of threads is measured from the latest end so far,
not from the previous session's end. The comments of `project` and `report` say they follow
`usage`, but a session without token counts whose model has no price makes the cost of
`usage` unknown and is skipped by the others; `UsageAndProjectAgree` states exactly this.
With weight one, lexical hits without a vector are still listed, after all others. A small
pool of vectors may be filled by those of messages that are gone, because the nearest are
taken before the filter. `diff` calls two turns identical by role and the first characters
of their first text. Costs are whole numbers; rounding, hours, files, decisions and todos
are left out; usage is grouped by project in the checks, the other keys group alike.

## 11. Proofs

`SearchIndexProofs`, checked by TLAPS from `ConstantsAssumption` alone (its constants are
arbitrary: any sets of processes, providers, sessions, files and notes):

- `TypeCorrect`: `Spec => []TypeOK`.
- `SafetyCorrect`: `Spec => []SafetyInv`, and from it `NeverStale`:
  `Spec => []NeverStaleUnnoticed`. The invariant is not inductive alone: a commit publishes
  what a transaction staged, so `SafetyInv` adds that at most one process is writing, that
  nothing staged or stored is newer than its source, that staged documents are vouched for
  both by the staged manifest and by the one on disk (a crash leaves that one), and that a
  committed transaction's documents are those on disk.
- `MatchCorrect`: without torn commits (`Interrupts = FALSE`), `Spec =>
  []ManifestMatchesDocs`, with `MatchInv` as the inductive invariant: staged documents and
  manifest agree, and those on disk do except between a commit and its save.

About `IndexCache`, in the same module and from the same assumption:

- `CacheCorrect`: without torn commits, `Spec => ImplementsIndexCache`. Sessions and notes
  together always form entries the abstract cache can hold: `SafetyInv` and `MatchInv` give
  it for sessions, and `NoteInv` (a note's documents and its manifest entry carry one version,
  which is not of the future) for notes. Hence each step of a process is a transaction of
  the cache or leaves it alone, and each change outside is a change outside.
- `ScopeCorrect`: torn commits or not, `Spec => CommitsStayInScope`. `ScopeInv` says that
  what is staged differs from the index on disk only in sessions of the command, and, for
  the UI's thread, lacks only sessions it reported; the disk stands still meanwhile because
  of the lock.

There too, from the same assumption and for a single process (`OneProcess`; others
could prune or reindex what a search has just refreshed):

- `SearchCorrect`: without torn commits, `Spec => []SearchIsFresh`.
- `ForcedRunCorrect`: torn commits or not, `Spec => ForcedRunRepairs`.
- Both follow from `FreshInv`. During a pass each discovered session is still to be visited,
  reported, or there at no less than its discovered version; a session that is yet to be
  visited is listed only if it has documents (because nothing was torn, or because the same
  command has cleared the index), so an unchanged fingerprint may indeed be trusted.

`SearchPagingProofs`, from the `ConstantsAssumption` of `SearchPaging` (any finite set of
hits, any strict order among equals, any page sizes, any number of arbitrary changes):

- `PagingTypeCorrect`: `Spec => []TypeOK`.
- `PagingCorrect`: `Spec => []PagingInv`: while a client holds a cursor, the cursor is the
  last of all delivered keys, and every stable hit was delivered, or is behind the cursor,
  or was left out of the first pool by a tie or after a pool that held hidden hits. From it
  `InOrderCorrect`, `NothingSkippedCorrect` and `CutCorrect`.
- The argument rests on lemmas about `First` (what it leaves out comes after what it takes;
  of `n + 1` hits it does not take all) and on the existence of a last element of a finite
  set, from the well-foundedness of strict inclusion.

`FederationProofs`, from the `ConstantsAssumption` of `Federation` (any names, hosts, files,
providers and processes, any matching of prefixes):

- `TypeCorrect`: `Spec => []TypeOK`, with `Types`, which adds what steps rely on (what is
  left to pull is registered, what is in flight has a source).
- `RegistryCorrect`: a command saves what it loaded, with one source of a new name more or
  with one fewer, and it loads only what is in order and not too large; so whatever
  overwrites whatever, `RegistryLoads` holds.
- `CachesCorrect`: `CacheInv` says that every cached file came from the host of the manifest
  or from a stray pull, and that what a pull that was alone has reached is its host's or
  gone; a pull that completes alone therefore leaves only its host's files.
- `LookupsComplete`, `SelectorsCorrect`: `LookupInv` says that what has stood since the
  request began stands still, so that a source discovered by now shows it. A target among
  all that was found is then the target among it and any other visible session.

`MetadataProofs`, from the `ConstantsAssumption` of `Metadata` (any users, sessions, sources,
refs, notes and tags):

- `TypeCorrect`: `Spec => []TypeOK`. Ids are unique because the counters are never behind
  the rows.
- `StarsCorrect`: `StarInv` extends `StarsWrittenThrough` to every step of a toggle, during
  which the one toggled session is not in memory.
- `EditsCorrect`: `ListedInv` says that no row with a listed id has another ref; new rows
  get ids behind all that were ever listed.
- `FiltersCorrect`: `FilterInv` says of a running filter that what met all criteria when it
  began and was not touched still does, that nothing else untouched does, and that what it
  let through meets the criteria it has read.

`IndexDirProofs`, from the `ConstantsAssumption` of `IndexDir` (any processes, providers,
sessions, messages and commands, any first directories):

- `TypeCorrect`: `Spec => []TypeOK`.
- `ManifestCorrect`: `Spec => []ManifestHasDocs`. An index of an old schema is there only
  while nobody adds files (`OldInv`), so a reset lists all that it must remove and, until it
  is disturbed, nothing comes back (`ResetInv`). The manifest may then outlive the documents
  only inside a removal that has removed the documents first and has the directory to itself
  (`ListedInv`).
- `StrangersCorrect`: what a reset removes is listed among the managed files, and an
  uninstall begins only when there is nothing else (`RemovalInv`).
- `VectorsCorrect`: `LoneInv` says that while nothing else happens a pass's discovery is
  still what the world shows, that it has noted the messages of each session it has left
  behind unless it counts an error, and that no vector is missing from its memory.
- `ConsentCorrect`: the pass is beyond the consent only when it was given.
- `UninstallCorrect`: `Spec => UninstallCanResume`. `UninstallInv` says of a lone uninstall at
  each of its steps that what it removes later is still there, that nothing unknown is in
  the directory it empties, and that what it has removed is gone.
- `HintsCorrect`: `Spec => []HintsWork`. `HintInv` says of a run that follows a hint of
  health, while it has the directory to itself, what it has repaired at each of its steps:
  after the build there is an index with a good manifest, after the question for consent a
  consent that is there is good, and at the end the vectors are, unless there is no consent.

`TuiAppProofs` (any sessions, queries, panel rows and answers of the index):

- `TypeCorrect`: `Spec => []TypeOK`, with `Typed`, which adds what steps rely on: results
  are sessions, each once, so that what is picked from them is no longer than the list.
- `ListCorrect`: `Spec => []ListIsCurrent`. Before the index is ready there are neither
  results nor a resolved message filter; with that, the half about the query (`ResultsInv`)
  and the half about the filter (`MatchedInv`) are each inductive.
- `FocusCorrect`: `Spec => []BrowseHasFocus`. `FocusInv` says that what is drawn is clamped to
  the list (`Clamped`), and that outside of typing a query and of the filter panel nothing is
  selected only while no session passes the filters (`InFocus`).
- `ReadingCorrect`: `Spec => ReadingStable`, from the type invariant: of the actions that
  leave a reader reading, only a star and `IndexReady` touch what the list is picked from.

`AlgorithmProofs`, about `Subsequences`, `Excerpts`, `HybridRanking`, `Threads` and `Reports`,
for every input:

- What `Picked` gives (`PickedIs`), in which order (`PickedInPlace`), and that picking from a
  longer list picks more behind (`PickedGrows`).
- `WindowCorrect`, `RangeCorrect`: the window and the range are what lies around or between
  their turns.
- `DiffCorrect`: the comparison accounts for every turn of both sides in order, pairs only
  equal ones, and is minimal: the table of `Common` bounds every common subsequence, and the
  walk through it pairs as many as the table says. From it `ExitCorrect`. `HunksCorrect` is
  about any list of edits: a hunk closes only when more than the context follows it.
- `HitsCorrect`, `LargePoolCorrect`, `AgreementCorrect`, `SemanticCorrect`: the four promises
  of the fusion. Sorting is placing each element at the number of those before it, which
  exists for any strict order (`InOrderIs`); that the scores order the messages is the
  transitivity of comparing fractions (`BetterOrders`). The last two hold as long as the pool
  is within the ranks that are told apart (`u16::MAX` in the code).
- `ThreadsCorrect`, `NamesCorrect`, `LimitCorrect`: the three promises of threads, for any gap.
  At each session of a project, the walk knows that its thread is an unbroken stretch, that
  it reaches as far as the latest end in it, and that whatever came before it ends too early
  (`Walked`); sessions may end before they start. A later session lengthens the group, and
  with it the walk, behind (`GroupGrows`, `WalkGrows`).
- `UsageCorrect`, `ReportCorrect`, `AgreesCorrect`: the promises of the reports, for any
  prices, as long as the tokens of all sessions together are below the width of the counters
  (`Fits`; beyond it `usage` wraps and they fail). `WiderCorrect` needs no such hypothesis.
  A sum grows position by position (`SumStep`), so that the sums over the parts of a set make
  the sum over it (`SumOfParts`), and the sorted rows are such parts, one each (`RowsPart`).
  Projects are numbers here, in the order of their names.

The library's induction theorems take an operator and cannot be used. The proofs go by the
least counterexample instead, on a concrete set of numbers or pairs; that a recursive function
exists, and satisfies its equation, follows from a measure that falls with each call
(`RecursionExists`).

`TranscriptsProofs`, from `TranscriptsAssumption` (any of the ten formats, any records, any
bound on their number) and `MaxRowsAssumption` (any limit on Cursor's rows):

- `DiskInv`, inductive: what is on disk are records, at most as many as the bound, and a
  torn write has a record.
- `ChangesCorrect`: `Spec => ChangesAreFingerprinted`. Each fingerprint determines the part
  of the disk that a load reads, but for Continue's start, which gives the turns their times
  and nothing else; no step is needed beyond `DiskInv`.
- `LeftOutCorrect`: `Spec => []LeftOutIsCounted`, for every reader: an outcome is a turn of
  its record or passed over for a reason (`OneOf`), gathering keeps the turns apart and
  counts the reasons (`GatherIs`), and OpenCode's sorting and Cursor's two lists of bubbles
  rearrange them without loss (`SortedIs`, `JoinedOutcomes`).
- `TurnsCorrect`: `Spec => TurnsStay`, and `TypeCorrect`: `Spec => []TypeOK`, both from
  `ShownInv`. The property compares two loads, between which the disk may have passed
  through any number of writes; so the invariant compares what is shown with what a load
  would find in the settled part of the disk (`Settled`: all but a torn record). A step of
  the agent only lengthens that part (`SettledGrows`), a reader finds in a longer history
  what it found and more behind it (`FoundGrows`, and for Aider `FoundGoesOn`), and a load
  shows what is settled, but for Aider's last turn and Copilot's checkpoint (`LoadStands`).
  For Aider this needs that a line changes at most the last turn (`LineExtends`), that a
  block of a grown history is the same block with more lines (`BlockGrows`), and that the
  first block of a second stays the first (`SecondsGrow`).
- `SaidCorrect`: `Spec => []SaidIsListed`, from `SaidInv`, which adds to `DiskInv` that the
  environment and the place of the history are among those the program distinguishes. A
  session has as many paths as its directory has names among the bases searched, each is
  found once, and merging by identity keeps one entry or one per path. Each turn a load
  shows is of a record that the lister counts or dates the session by, but for those the
  property excepts; the records so shown are counted once each, or, by Cursor, as often as
  the composer row names them. For Aider the entry is the first block of its second.

Each proof has one lemma or step per action. All invariants and action properties of the
runs, the refinement, and the promises of the algorithms are proved. Only model-checked are
the liveness properties (`Converges`, `NotesConverge`, `WalkEnds`, `WatchCatchesUp`), which
are out of the prover's reach, as is `ENABLED`.

## 12. Not modelled

- What a lexical query matches and how it is scored (Tantivy), and the embedding itself.
- `decisions`, `todos` and `track`: text heuristics and prompts over loaded messages; their
  rules are wording. The LLM client: one blocking request to an external service.
- Installing and self-update: downloads and package managers.
- Argument parsing, schemas, rendering of the terminal UI, exported formats and other
  output: no state, and covered by golden tests in the repository.
- Message framing of the MCP server and the encodings of cursors, citations and vectors.
- Two hazards of the index have no property, because no line of the repository promises
  anything about them: a search racing with another process's index run, and orphaned
  documents after a crash. Three more are gaps the code has: the preview panel that stays
  empty after some changes of focus, lost updates of the vector store, and a probe file of a
  dead health check that blocks reset and uninstall.
