----------------------------- MODULE Federation -----------------------------
(***************************************************************************)
(* The registry of remote sources, their caches, and the commands and MCP  *)
(* requests that look sessions up across the local history and all caches. *)
(*                                                                         *)
(* A file is a session file by its path below a source's root: the same    *)
(* path may exist locally and on several hosts, and several files may hold *)
(* a session of the same provider and id.  A host stands for an endpoint   *)
(* (host, path and transport), a cached file for the host it came from.    *)
(***************************************************************************)
EXTENDS Naturals, FiniteSets

CONSTANTS
  Procs,        \* processes
  Names,        \* names of remote sources
  Hosts,        \* endpoints they may be registered with
  NoHost,       \* no file, or no manifest
  Files,        \* session files
  Providers,    \* history providers
  Ids,          \* session ids
  ProviderOf,   \* provider of each file
  IdOf,         \* id of the session in each file
  Starts,       \* pairs of ids of which the second starts with the first
  Enabled,      \* providers.enabled
  Exposed,      \* providers.mcp_exposed
  MaxSources,   \* MAX_REMOTE_SOURCES
  Commands,     \* the commands the processes run
  FirstConfigs, \* registries at first
  FirstCaches,  \* host each cache was pulled from at first
  MaxChanges,   \* bound: changes from outside, failures and deaths
  MaxRuns       \* bound: commands started and requests made

Local == "local"
Anywhere == "any"
Sources == [name : Names, host : Hosts]
Sessions == [source : Names \cup {Local}, file : Files]

\* Every form of session selector: where the session is looked up, and whether
\* the id is exact or may be a prefix.
Selectors ==
  [source : Names \cup {Local, Anywhere}, provider : Providers \cup {Anywhere},
   id : Ids, exact : BOOLEAN]

\* add and remove a source; pull one or all, or try to; list, show, serve MCP.
Command(kind, sources, sel) == [kind |-> kind, sources |-> sources, sel |-> sel]
Kinds == {"add", "remove", "pull", "try", "list", "show", "mcp", "get", "none"}
AllCommands ==
  [kind : Kinds, sources : SUBSET Sources, sel : SUBSET Selectors]
NoCommand == Command("none", {}, {})

\* The selector the printed reference of a session is read as: it names the source
\* of a cached session only.
Reference(s) ==
  [source |-> IF s.source = Local THEN Anywhere ELSE s.source,
   provider |-> ProviderOf[s.file], id |-> IdOf[s.file], exact |-> TRUE]

ASSUME ConstantsAssumption ==
  /\ NoHost \notin Hosts /\ Local \notin Names /\ Anywhere \notin Names
  /\ ProviderOf \in [Files -> Providers]
  /\ IdOf \in [Files -> Ids]
  /\ Starts \subseteq Ids \X Ids /\ \A i \in Ids : <<i, i>> \in Starts
  /\ Enabled \subseteq Providers /\ Exposed \subseteq Providers
  /\ Commands \subseteq AllCommands   \* one source to add, one session to show
  /\ \A c \in Commands :
       /\ c.kind \notin {"get", "none"}
       /\ c.kind = "add" => \E s \in Sources : c.sources = {s}
       /\ \A s, t \in c.sel : s = t
  /\ FirstConfigs \subseteq SUBSET Sources   \* what such commands have saved
  /\ \A cfg \in FirstConfigs :
       /\ \A s, t \in cfg : s.name = t.name => s = t
       /\ IsFiniteSet(cfg) /\ Cardinality(cfg) <= MaxSources + 1
  /\ FirstCaches \subseteq [Names -> Hosts \cup {NoHost}]
  /\ MaxSources \in Nat /\ MaxChanges \in Nat /\ MaxRuns \in Nat

VARIABLES
  config,     \* the [[sources]] of config.toml
  installed,  \* providers whose local directories exist
  local,      \* local session files
  remote,     \* files on each host
  dirs,       \* sources whose data directory exists
  data,       \* host each cached file came from
  manifest,   \* host the source manifest names
  changes,    \* changes from outside, failures and deaths so far
  runs,       \* commands and requests so far
  pc, cmd,    \* per process: its step and command
  loaded,     \* the registry it loaded when it started
  detected,   \* the local providers it detected when it started
  todo,       \* sources still to pull, or to discover
  pulling,    \* the source being pulled
  left,       \* files rsync has not reached
  found,      \* sessions discovered
  failed,     \* sources with a reported failure
  answer,     \* the session a lookup gave, if any
  steady,     \* history: sessions that have stood since the request began
  alone,      \* history: no other pull of this source ran at the same time
  strays      \* history: hosts of pulls since the last complete pull of a source

outside == <<installed, local, remote>>
cache == <<dirs, data, manifest>>
lookup == <<found, failed, answer>>
vars == <<config, installed, local, remote, dirs, data, manifest, changes, runs, pc, cmd,
          loaded, detected, todo, pulling, left, found, failed, answer, steady, alone,
          strays>>

NamesOf(cfg) == {s.name : s \in cfg}
Empty == [f \in Files |-> NoHost]

Init ==
  /\ config \in FirstConfigs
  /\ installed \in {Providers, {}}
  /\ local \in {{}, {f \in Files : ProviderOf[f] \in installed}}
  /\ remote = [h \in Hosts |-> Files]
  /\ manifest \in FirstCaches   \* pulled once, perhaps for an earlier registration
  /\ dirs = {n \in Names : manifest[n] # NoHost}
  /\ data = [n \in Names |-> [f \in Files |-> manifest[n]]]
  /\ changes = 0 /\ runs = 0
  /\ pc = [p \in Procs |-> "idle"]
  /\ cmd = [p \in Procs |-> NoCommand]
  /\ loaded = [p \in Procs |-> {}]
  /\ detected = [p \in Procs |-> {}]
  /\ todo = [p \in Procs |-> {}]
  /\ pulling = [p \in Procs |-> {}]
  /\ left = [p \in Procs |-> {}]
  /\ found = [p \in Procs |-> {}]
  /\ failed = [p \in Procs |-> {}]
  /\ answer = [p \in Procs |-> {}]
  /\ steady = [p \in Procs |-> {}]
  /\ alone = [p \in Procs |-> FALSE]
  /\ strays = [n \in Names |-> {}]

----------------------------------------------------------------------------
(***************************************************************************)
(* The world outside: agents write and delete sessions here and on the     *)
(* hosts, a provider is installed, the user deletes a cache.               *)
(***************************************************************************)
Change == changes < MaxChanges /\ changes' = changes + 1

\* Sessions other than S; the rest has just changed.
Unsettle(S) == steady' = [p \in Procs |-> steady[p] \ S]
At(n, fs) == {[source |-> n, file |-> f] : f \in fs}
Idle == UNCHANGED <<runs, pc, cmd, loaded, detected, todo, pulling, left, lookup, alone>>

EditLocal(f) ==
  /\ Change /\ ProviderOf[f] \in installed
  /\ local' = IF f \in local THEN local \ {f} ELSE local \cup {f}
  /\ Unsettle(At(Local, {f}))
  /\ UNCHANGED <<config, installed, remote, cache, strays>> /\ Idle

EditRemote(h, f) ==
  /\ Change
  /\ remote' = [remote EXCEPT ![h] = IF f \in @ THEN @ \ {f} ELSE @ \cup {f}]
  /\ UNCHANGED <<config, installed, local, cache, steady, strays>> /\ Idle

Install(q) ==
  /\ Change /\ q \notin installed
  /\ installed' = installed \cup {q}
  /\ UNCHANGED <<config, local, remote, cache, steady, strays>> /\ Idle

DeleteCache(n) ==
  /\ Change /\ n \in dirs
  /\ dirs' = dirs \ {n}
  /\ data' = [data EXCEPT ![n] = Empty]
  /\ manifest' = [manifest EXCEPT ![n] = NoHost]
  /\ Unsettle(At(n, Files))
  /\ UNCHANGED <<config, outside, strays>> /\ Idle

Environment ==
  \/ \E f \in Files : EditLocal(f) \/ \E h \in Hosts : EditRemote(h, f)
  \/ \E q \in Providers : Install(q)
  \/ \E n \in Names : DeleteCache(n)

----------------------------------------------------------------------------
(***************************************************************************)
(* A command loads the registry, and detects the local providers, once.    *)
(* Without a registry it can load, no command runs, `sources remove`       *)
(* neither.                                                                *)
(***************************************************************************)
Loadable(cfg) ==
  /\ Cardinality(cfg) <= MaxSources
  /\ \A s, t \in cfg : s.name = t.name => s = t

\* `pull <name>` and `pull --all` of what the registry holds.
Targets(c, cfg) == {s \in cfg : s.name \in NamesOf(c.sources)}

\* (faulty) a name is not looked up before it is added
FirstStepUnchecked(c, cfg) ==
  CASE c.kind = "add" -> "save"
    [] c.kind = "remove" -> IF Targets(c, cfg) = {} THEN "done" ELSE "save"
    [] c.kind \in {"pull", "try"} -> IF Targets(c, cfg) = {} THEN "done" ELSE "pull"
    [] c.kind \in {"list", "show"} -> "discover"
    [] c.kind = "mcp" -> "serve"
    [] OTHER -> "done"

FirstStep(c, cfg) ==
  CASE c.kind = "add" -> IF NamesOf(c.sources) \subseteq NamesOf(cfg) THEN "done" ELSE "save"
    [] c.kind = "remove" -> IF Targets(c, cfg) = {} THEN "done" ELSE "save"
    [] c.kind \in {"pull", "try"} -> IF Targets(c, cfg) = {} THEN "done" ELSE "pull"
    [] c.kind \in {"list", "show"} -> "discover"
    [] c.kind = "mcp" -> "serve"
    [] OTHER -> "done"

\* The providers a command may see.
Scope(p) == IF cmd[p].kind \in {"mcp", "get"} THEN Enabled \cap Exposed ELSE Enabled

\* What the providers find below the local directories, and below a cache.
LocalFiles(p) == {f \in local : ProviderOf[f] \in detected[p]}
Cached(n) == {f \in Files : data[n][f] # NoHost}
Stands(s) == s.file \in IF s.source = Local THEN local ELSE Cached(s.source)

Run == runs < MaxRuns /\ runs' = runs + 1
\* Discovery of all sources starts, for process p that knows registry cfg.
Lookup(p, cfg) ==
  /\ found' = [found EXCEPT ![p] = {}]
  /\ failed' = [failed EXCEPT ![p] = {}]
  /\ answer' = [answer EXCEPT ![p] = {}]
  /\ steady' = [steady EXCEPT ![p] =
       {s \in Sessions : s.source \in NamesOf(cfg) \cup {Local} /\ Stands(s)}]

Start(p, c) ==
  /\ pc[p] = "idle" /\ Run /\ Loadable(config)
  /\ cmd' = [cmd EXCEPT ![p] = c]
  /\ loaded' = [loaded EXCEPT ![p] = config]
  /\ detected' = [detected EXCEPT ![p] = installed]
  /\ pc' = [pc EXCEPT ![p] = FirstStep(c, config)]
  /\ \/ /\ c.kind \in {"list", "show"}
        /\ Lookup(p, config)
        /\ todo' = [todo EXCEPT ![p] = NamesOf(config) \cup {Local}]
     \/ /\ c.kind \in {"pull", "try"}
        /\ todo' = [todo EXCEPT ![p] = NamesOf(Targets(c, config))]
        /\ UNCHANGED <<lookup, steady>>
     \/ /\ c.kind \notin {"list", "show", "pull", "try"}
        /\ UNCHANGED <<todo, lookup, steady>>
  /\ UNCHANGED <<config, outside, cache, changes, pulling, left, alone, strays>>

\* An MCP request: a listing, or a lookup of a session.
Request(p, sel) ==
  /\ pc[p] = "serve" /\ Run
  /\ cmd' = [cmd EXCEPT ![p] = Command("get", {}, sel)]
  /\ Lookup(p, loaded[p])
  /\ todo' = [todo EXCEPT ![p] = NamesOf(loaded[p]) \cup {Local}]
  /\ pc' = [pc EXCEPT ![p] = "discover"]
  /\ UNCHANGED <<config, outside, cache, changes, loaded, detected, pulling, left, alone,
                 strays>>

\* Back at the shell, or at the client; a pull in progress is abandoned.
Leave(p) ==
  /\ cmd' = [cmd EXCEPT ![p] = NoCommand]
  /\ todo' = [todo EXCEPT ![p] = {}]
  /\ pulling' = [pulling EXCEPT ![p] = {}]
  /\ left' = [left EXCEPT ![p] = {}]
  /\ found' = [found EXCEPT ![p] = {}]
  /\ failed' = [failed EXCEPT ![p] = {}]
  /\ answer' = [answer EXCEPT ![p] = {}]
  /\ steady' = [steady EXCEPT ![p] = {}]
  /\ alone' = [alone EXCEPT ![p] = FALSE]
  /\ UNCHANGED <<config, outside, cache, runs, strays>>

End(p) ==
  /\ pc[p] = "done" \/ pc[p] = "serve"
  /\ Leave(p) /\ UNCHANGED changes
  /\ \/ /\ cmd[p].kind # "get" /\ pc' = [pc EXCEPT ![p] = "idle"]
        /\ loaded' = [loaded EXCEPT ![p] = {}]
        /\ detected' = [detected EXCEPT ![p] = {}]
     \/ cmd[p].kind = "get" /\ pc' = [pc EXCEPT ![p] = "serve"] /\ UNCHANGED <<loaded, detected>>

\* A death, or an error that ends the command: rsync fails, a vanished file, a
\* symbolic link in the tree, a manifest or registry that cannot be written.
Fail(p) ==
  /\ Change /\ pc[p] \notin {"idle", "done"} /\ Leave(p)
  /\ pc' = [pc EXCEPT ![p] = "idle"]
  /\ loaded' = [loaded EXCEPT ![p] = {}]
  /\ detected' = [detected EXCEPT ![p] = {}]

----------------------------------------------------------------------------
(***************************************************************************)
(* sources add, sources remove: the registry as it was loaded, changed, is *)
(* written over the file.  The cache of a removed source stays.            *)
(***************************************************************************)
Save(p) ==
  /\ pc[p] = "save"
  /\ config' = IF cmd[p].kind = "add" THEN loaded[p] \cup cmd[p].sources
               ELSE loaded[p] \ Targets(cmd[p], loaded[p])
  /\ pc' = [pc EXCEPT ![p] = "done"]
  /\ UNCHANGED <<outside, cache, changes, runs, cmd, loaded, detected, todo, pulling, left,
                 lookup, steady, alone, strays>>

----------------------------------------------------------------------------
(***************************************************************************)
(* sources pull: one source after the other, each by rsync -a --delete, one*)
(* file at a time; the manifest is written last.  The first failure ends   *)
(* the command.                                                            *)
(***************************************************************************)
PullsOf(n) == {q \in Procs : n \in NamesOf(pulling[q])}

BeginPull(p) ==
  /\ pc[p] = "pull" /\ cmd[p].kind = "pull"
  /\ \E s \in loaded[p] :
       /\ s.name \in todo[p]
       /\ todo' = [todo EXCEPT ![p] = @ \ {s.name}]
       /\ pulling' = [pulling EXCEPT ![p] = {s}]
       /\ dirs' = dirs \cup {s.name}
       /\ strays' = [strays EXCEPT ![s.name] = @ \cup {s.host}]
       /\ alone' = [q \in Procs |->
            IF q = p THEN PullsOf(s.name) = {} ELSE alone[q] /\ q \notin PullsOf(s.name)]
  /\ left' = [left EXCEPT ![p] = Files]
  /\ pc' = [pc EXCEPT ![p] = "rsync"]
  /\ UNCHANGED <<config, outside, data, manifest, changes, runs, cmd, loaded, detected,
                 lookup, steady>>

CopyFile(p, s, f) ==
  /\ pc[p] = "rsync" /\ f \in left[p]
  /\ data' = [data EXCEPT ![s.name] =
       [@ EXCEPT ![f] = IF f \in remote[s.host] THEN s.host ELSE NoHost]]
  /\ left' = [left EXCEPT ![p] = @ \ {f}]
  /\ IF data'[s.name][f] = data[s.name][f] THEN UNCHANGED steady
     ELSE Unsettle(At(s.name, {f}))
  /\ UNCHANGED <<config, outside, dirs, manifest, changes, runs, pc, cmd, loaded, detected,
                 todo, pulling, lookup, alone, strays>>

\* (faulty) the manifest is written when the transfer begins
FinishEarly(p, s) ==
  /\ pc[p] = "rsync" /\ (left[p] = {} \/ manifest[s.name] # s.host)
  /\ manifest' = [manifest EXCEPT ![s.name] = s.host]
  /\ strays' = [strays EXCEPT ![s.name] = IF alone[p] THEN {} ELSE @]
  /\ IF left[p] = {}
     THEN /\ pulling' = [pulling EXCEPT ![p] = {}]
          /\ alone' = [alone EXCEPT ![p] = FALSE]
          /\ pc' = [pc EXCEPT ![p] = IF todo[p] = {} THEN "done" ELSE "pull"]
     ELSE UNCHANGED <<pulling, alone, pc>>
  /\ UNCHANGED <<config, outside, dirs, data, changes, runs, cmd, loaded, detected, todo,
                 left, lookup, steady>>

\* The tree is checked and counted, and the manifest written.
Finish(p, s) ==
  /\ pc[p] = "rsync" /\ left[p] = {}
  /\ manifest' = [manifest EXCEPT ![s.name] = s.host]
  /\ strays' = [strays EXCEPT ![s.name] = IF alone[p] THEN {} ELSE @]
  /\ pulling' = [pulling EXCEPT ![p] = {}]
  /\ alone' = [alone EXCEPT ![p] = FALSE]
  /\ pc' = [pc EXCEPT ![p] = IF todo[p] = {} THEN "done" ELSE "pull"]
  /\ UNCHANGED <<config, outside, dirs, data, changes, runs, cmd, loaded, detected, todo,
                 left, lookup, steady>>

\* --dry-run: rsync compares with an empty temporary directory.
DryRun(p) ==
  /\ pc[p] = "pull" /\ cmd[p].kind = "try"
  /\ pc' = [pc EXCEPT ![p] = "done"]
  /\ todo' = [todo EXCEPT ![p] = {}]
  /\ UNCHANGED <<config, outside, cache, changes, runs, cmd, loaded, detected, pulling, left,
                 lookup, steady, alone, strays>>

----------------------------------------------------------------------------
(***************************************************************************)
(* Federated discovery: a thread per source, local or cached.  A provider  *)
(* that fails, or a cache that is missing, is reported with its source;    *)
(* sessions of providers out of scope are dropped.                         *)
(***************************************************************************)
\* (faulty) only a missing cache is reported
DiscoverQuietly(p, n, broken) ==
  LET files == IF n = Local THEN LocalFiles(p) ELSE Cached(n)
      missing == n # Local /\ n \notin dirs
  IN /\ pc[p] = "discover" /\ n \in todo[p]
     /\ todo' = [todo EXCEPT ![p] = @ \ {n}]
     /\ found' = [found EXCEPT ![p] = @ \cup At(n, {f \in files : ProviderOf[f] \in Scope(p) \ broken})]
     /\ failed' = [failed EXCEPT ![p] = IF missing THEN @ \cup {n} ELSE @]
     /\ IF broken = {} THEN UNCHANGED changes ELSE Change
     /\ UNCHANGED <<config, outside, cache, runs, pc, cmd, loaded, detected, pulling, left,
                    answer, steady, alone, strays>>

Discover(p, n, broken) ==
  LET files == IF n = Local THEN LocalFiles(p) ELSE Cached(n)
      missing == n # Local /\ n \notin dirs
  IN /\ pc[p] = "discover" /\ n \in todo[p]
     /\ todo' = [todo EXCEPT ![p] = @ \ {n}]
     /\ found' = [found EXCEPT ![p] = @ \cup At(n, {f \in files : ProviderOf[f] \in Scope(p) \ broken})]
     /\ failed' = [failed EXCEPT ![p] = IF missing \/ broken # {} THEN @ \cup {n} ELSE @]
     /\ IF broken = {} THEN UNCHANGED changes ELSE Change
     /\ UNCHANGED <<config, outside, cache, runs, pc, cmd, loaded, detected, pulling, left,
                    answer, steady, alone, strays>>

----------------------------------------------------------------------------
(***************************************************************************)
(* The resolver.  Exact ids win over prefixes; a selector that names no    *)
(* source is looked up in all of them; more than one match is an error.    *)
(***************************************************************************)
Candidates(sel, S) ==
  {s \in S : /\ sel.source \in {Anywhere, s.source}
             /\ sel.provider \in {Anywhere, ProviderOf[s.file]}
             /\ <<sel.id, IdOf[s.file]>> \in Starts}
ExactMatches(sel, S) == {s \in Candidates(sel, S) : IdOf[s.file] = sel.id}
Matches(sel, S) ==
  IF sel.exact \/ ExactMatches(sel, S) # {} THEN ExactMatches(sel, S) ELSE Candidates(sel, S)

\* (faulty) the first of several matches is taken
UniqueOrFirst(M) == IF M = {} THEN {} ELSE {CHOOSE s \in M : TRUE}

\* (faulty) of exact and prefix matches all are taken
AllTargets(M) == M

\* The match, unless there is none or more than one.
UniqueTarget(M) == {s \in M : \A t \in M : t = s}

Answer(p) ==
  /\ pc[p] = "discover" /\ todo[p] = {}
  /\ answer' = [answer EXCEPT ![p] =
       UNION {UniqueTarget(Matches(sel, found[p])) : sel \in cmd[p].sel}]
  /\ pc' = [pc EXCEPT ![p] = IF answer'[p] = {} THEN "done" ELSE "load"]
  /\ UNCHANGED <<config, outside, cache, changes, runs, cmd, loaded, detected, todo, pulling,
                 left, found, failed, steady, alone, strays>>

\* The messages are read: the file may be gone or unreadable by now, or have
\* fewer turns than the citation asks for.
Load(p) ==
  /\ pc[p] = "load"
  /\ \/ (\A s \in answer[p] : Stands(s)) /\ UNCHANGED answer
     \/ answer' = [answer EXCEPT ![p] = {}]
  /\ pc' = [pc EXCEPT ![p] = "done"]
  /\ UNCHANGED <<config, outside, cache, changes, runs, cmd, loaded, detected, todo, pulling,
                 left, found, failed, steady, alone, strays>>

\* MCP clients ask for listings, for what the show commands ask for, and for
\* resources by their URI: an exact session, a local one if no source is named.
ToolRequests == {c.sel : c \in {d \in Commands : d.kind = "show"}} \cup {{}}
Uri(sel) == [sel EXCEPT !.source = IF @ = Anywhere THEN Local ELSE @]
ResourceRequests ==
  {{Uri(sel)} : sel \in {t \in UNION ToolRequests : t.exact /\ t.provider # Anywhere}}
Requests == ToolRequests \cup ResourceRequests

Process(p) ==
  \/ \E c \in Commands : Start(p, c)
  \/ \E sel \in Requests : Request(p, sel)
  \/ Save(p) \/ BeginPull(p) \/ DryRun(p)
  \/ \E s \in pulling[p] : Finish(p, s) \/ \E f \in Files : CopyFile(p, s, f)
  \/ \E n \in Names \cup {Local}, broken \in SUBSET Providers : Discover(p, n, broken)
  \/ Answer(p) \/ Load(p)
  \/ End(p) \/ Fail(p)

Next == Environment \/ \E p \in Procs : Process(p)
Spec == Init /\ [][Next]_vars

----------------------------------------------------------------------------
Steps == {"idle", "save", "pull", "rsync", "serve", "discover", "load", "done"}

\* Every variable holds a value of its kind; at most one source is being pulled
\* by a process, and a lookup gives at most one of the sessions it found.
TypeOK ==
  /\ config \subseteq Sources
  /\ installed \subseteq Providers /\ local \subseteq Files
  /\ remote \in [Hosts -> SUBSET Files]
  /\ dirs \subseteq Names
  /\ data \in [Names -> [Files -> Hosts \cup {NoHost}]]
  /\ manifest \in [Names -> Hosts \cup {NoHost}]
  /\ changes \in 0 .. MaxChanges /\ runs \in 0 .. MaxRuns
  /\ pc \in [Procs -> Steps] /\ cmd \in [Procs -> AllCommands]
  /\ loaded \in [Procs -> SUBSET Sources]
  /\ detected \in [Procs -> SUBSET Providers]
  /\ todo \in [Procs -> SUBSET (Names \cup {Local})]
  /\ pulling \in [Procs -> SUBSET Sources]
  /\ \A p \in Procs : pulling[p] \subseteq loaded[p] /\ \A s, t \in pulling[p] : s = t
  /\ left \in [Procs -> SUBSET Files]
  /\ found \in [Procs -> SUBSET Sessions]
  /\ failed \in [Procs -> SUBSET (Names \cup {Local})]
  /\ answer \in [Procs -> SUBSET Sessions]
  /\ \A p \in Procs : answer[p] \subseteq found[p] /\ \A s, t \in answer[p] : s = t
  /\ steady \in [Procs -> SUBSET Sessions]
  /\ alone \in [Procs -> BOOLEAN]
  /\ strays \in [Names -> SUBSET Hosts]

\* What the registry commands save, whatever they overwrite, the next command can
\* load, but for one source too many, which `sources add` does not refuse
\* (services/source_registry.rs, config.rs).
RegistryLoads ==
  /\ \A s, t \in config : s.name = t.name => s = t
  /\ Cardinality(config) <= MaxSources + 1

\* health's check of a source's cache.
CacheHealthy(s) == s.name \in dirs /\ manifest[s.name] = s.host

\* A cache that health finds in order holds no file of another host, however the
\* name was registered before, except of pulls that never completed or ran at
\* the same time (commands/sources/remote/pull.rs).
HealthyCachesAreOwn ==
  \A s \in config : CacheHealthy(s) =>
    {data[s.name][f] : f \in Files} \subseteq {NoHost, s.host} \cup strays[s.name]

\* Process p could know of session s: it stood all the while, its provider is in
\* scope, was there when p started, and did not fail.
Visible(p, s) ==
  /\ s \in steady[p] /\ ProviderOf[s.file] \in Scope(p)
  /\ s.source \notin failed[p]
  /\ s.source = Local => ProviderOf[s.file] \in detected[p]

\* A lookup leaves out nothing that stood while it ran, unless its source is
\* reported as failed, and shows no provider that is disabled or hidden from MCP
\* (federated/discovery.rs, query_scope.rs).
NothingUnreported ==
  \A p \in Procs : pc[p] = "done" /\ cmd[p].kind \in {"list", "show", "get"} =>
    /\ \A s \in steady[p] : Visible(p, s) => s \in found[p]
    /\ \A s \in found[p] : ProviderOf[s.file] \in Scope(p)

\* A selector never means another session than the one it was taken from: when a
\* lookup gives a session, no other that was visible answers to the selector as
\* well (session_resolver/resolver.rs).
SelectorsAreUnambiguous ==
  \A p \in Procs : pc[p] = "done" =>
    \A t \in answer[p], s \in steady[p], sel \in cmd[p].sel :
      Visible(p, s) /\ s # t => s \notin Matches(sel, {s, t})

=============================================================================
