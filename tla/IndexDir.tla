------------------------------ MODULE IndexDir ------------------------------
(***************************************************************************)
(* The index directory as a set of files, and the commands that create,    *)
(* upgrade, extend, inspect and remove it: `index` with its embedding      *)
(* pass, a hybrid search, `health` and `uninstall`.  No lock covers them:  *)
(* the writer lock of SearchIndex only orders the build step, which here   *)
(* is one step that brings documents and manifest up to date.              *)
(*                                                                         *)
(* A vector and a message carry the number of the text they belong to (the *)
(* code compares SHA-256 hashes of texts); 0 is no vector, or no text.     *)
(***************************************************************************)
EXTENDS Naturals, FiniteSets

CONSTANTS
  Procs,        \* processes using the directory
  Providers,    \* history providers
  Sessions,     \* sessions
  Messages,     \* message keys
  ProviderOf,   \* provider of each session
  SessionOf,    \* session of each message
  Commands,     \* the commands the processes run
  MaxText,      \* bound: texts a message can have
  MaxChanges,   \* bound: changes from outside, and processes that die
  MaxRuns,      \* bound: commands started
  FirstDirs     \* what the directory may hold at first

Managed == {"sentinel", "meta", "manifest", "consent", "vectors"}
\* Entries the program does not recognise: a user's file, a probe that health
\* left behind, and what an earlier build's Tantivy left (lock and .del files).
Unknown == {"stranger", "probe", "leftover"}
Entries == Managed \cup {"models"} \cup Unknown

\* "old": written by an earlier version; "other": vectors of another model.
Forms == {"good", "old", "other", "bad"}
Formed == {"meta", "manifest", "consent", "vectors"}

Command(kind, scope, force, accept) ==
  [kind |-> kind, scope |-> scope, force |-> force, accept |-> accept]

\* aghist index [--provider q] [--force] [--accept-download]
IndexCommands ==
  {Command("index", scope, force, accept) :
     scope \in {Providers} \cup {{q} : q \in Providers},
     force \in BOOLEAN, accept \in BOOLEAN}
OtherCommands ==
  {Command(kind, Providers, FALSE, FALSE) : kind \in {"search", "health", "uninstall"}}

ASSUME ConstantsAssumption ==
  /\ ProviderOf \in [Sessions -> Providers]
  /\ SessionOf \in [Messages -> Sessions]
  /\ Commands \subseteq IndexCommands \cup OtherCommands
  /\ MaxText \in Nat \ {0} /\ MaxChanges \in Nat /\ MaxRuns \in Nat
  /\ FirstDirs \subseteq SUBSET Entries

VARIABLES
  dir,        \* entries of the index directory
  form,       \* state of the files that have one
  docs,       \* sessions with documents in the index
  listed,     \* sessions the manifest vouches for
  vec,        \* text each vector of embeddings.bin was made from
  text,       \* current text of each message
  unreadable, \* sessions that cannot be loaded
  broken,     \* providers whose discovery fails
  changes,    \* changes from outside and deaths so far
  runs,       \* commands started so far
  installed,  \* what `uninstall` still finds besides the directory
  pc, cmd, found, mem, live, todo, skipped,   \* per process: its run
  accepted,   \* history: a user consented to the download
  disturbed,  \* history: a removal was cut short or overlapped other work
  flagged,    \* history: health checks whose hint named the command it runs
  lone        \* history: nothing else has happened since the run began

world == <<text, unreadable, broken, changes, runs>>
index == <<docs, listed>>
run == <<cmd, found, mem, live, todo, skipped>>
history == <<accepted, disturbed, flagged, lone>>
vars == <<dir, form, docs, listed, vec, text, unreadable, broken, changes, runs,
          installed, pc, cmd, found, mem, live, todo, skipped, accepted, disturbed,
          flagged, lone>>

NoVectors == [m \in Messages |-> 0]
NoCommand == Command("none", {}, FALSE, FALSE)

Good(f) == f \in dir /\ form[f] = "good"
OthersIdle(p) == \A q \in Procs \ {p} : pc[q] = "idle"

Init ==
  /\ dir \in FirstDirs
  /\ form \in [Formed -> Forms]
  /\ \A f \in Formed \ dir : form[f] = "good"
  /\ Cardinality({f \in Formed : form[f] # "good"}) <= 1    \* bound
  /\ form["meta"] \in {"good", "old", "bad"}
  /\ \A f \in {"manifest", "consent"} : form[f] \in {"good", "bad"}
  /\ docs = IF "meta" \in dir /\ "manifest" \in dir THEN Sessions ELSE {}
  /\ listed = docs
  /\ text = [m \in Messages |-> 1]
  /\ vec = IF "vectors" \in dir THEN text ELSE NoVectors
  /\ unreadable = {} /\ broken = {} /\ changes = 0 /\ runs = 0
  /\ installed = {"binary", "marker", "config"}
  /\ pc = [p \in Procs |-> "idle"]
  /\ cmd = [p \in Procs |-> NoCommand]
  /\ found = [p \in Procs |-> {}]
  /\ mem = [p \in Procs |-> NoVectors]
  /\ live = [p \in Procs |-> {}]
  /\ todo = [p \in Procs |-> {}]
  /\ skipped = [p \in Procs |-> FALSE]
  /\ accepted = (Good("consent") \/ "models" \in dir)
  /\ disturbed = FALSE
  /\ flagged = [p \in Procs |-> {}]
  /\ lone = [p \in Procs |-> FALSE]

----------------------------------------------------------------------------
(***************************************************************************)
(* The world outside: texts change and disappear, sessions and providers   *)
(* fail and recover, the user adds or removes a file of his own, or       *)
(* deletes a sidecar, as a hint of health advises.                         *)
(***************************************************************************)
Change == changes < MaxChanges /\ changes' = changes + 1 /\ UNCHANGED runs
Flip(S, x) == IF x \in S THEN S \ {x} ELSE S \cup {x}
NobodyLone ==
  lone' = [p \in Procs |-> FALSE] /\ flagged' = [p \in Procs |-> {}]

EditText(m) ==
  /\ Change
  /\ \E v \in 0 .. MaxText : v # text[m] /\ text' = [text EXCEPT ![m] = v]
  /\ NobodyLone
  /\ UNCHANGED <<dir, form, index, vec, unreadable, broken, installed, pc, run,
                 accepted, disturbed>>

ChangeAccess ==
  /\ Change
  /\ \/ \E s \in Sessions : unreadable' = Flip(unreadable, s) /\ UNCHANGED broken
     \/ \E q \in Providers : broken' = Flip(broken, q) /\ UNCHANGED unreadable
  /\ NobodyLone
  /\ UNCHANGED <<dir, form, index, vec, text, installed, pc, run, accepted, disturbed>>

UserFile ==
  /\ Change
  /\ dir' = Flip(dir, "stranger")
  /\ NobodyLone
  /\ UNCHANGED <<form, index, vec, text, unreadable, broken, installed, pc, run,
                 accepted, disturbed>>

\* The directory without file f, and what is then left of its content.
Remove(f) ==
  /\ dir' = dir \ {f}
  /\ form' = IF f \in Formed THEN [form EXCEPT ![f] = "good"] ELSE form
  /\ vec' = IF f = "vectors" THEN NoVectors ELSE vec
  /\ docs' = IF f = "meta" THEN {} ELSE docs
  /\ listed' = IF f = "manifest" THEN {} ELSE listed

DeleteSidecar ==
  /\ Change
  /\ \E f \in {"consent", "vectors"} : f \in dir /\ Remove(f)
  /\ NobodyLone
  /\ UNCHANGED <<text, unreadable, broken, installed, pc, run,
                 accepted, disturbed>>

Environment ==
  \/ \E m \in Messages : EditText(m)
  \/ ChangeAccess
  \/ UserFile
  \/ DeleteSidecar

----------------------------------------------------------------------------
(***************************************************************************)
(* health: what each check of the directory says, and the index command    *)
(* its hint names ("plain", with --force, or with --accept-download).      *)
(***************************************************************************)
Says(check) ==
  CASE check = "manifest" ->
         IF "manifest" \notin dir THEN "warn" ELSE IF Good("manifest") THEN "ok" ELSE "fail"
    [] check = "meta" -> IF "meta" \in dir THEN "ok" ELSE "warn"
    [] check = "consent" -> IF "consent" \in dir /\ ~Good("consent") THEN "fail" ELSE "ok"
    [] check = "vectors" ->
         IF "vectors" \notin dir THEN IF Good("consent") THEN "warn" ELSE "ok"
         ELSE CASE form["vectors"] = "bad" -> "fail"
                [] form["vectors"] = "old" -> "warn"
                [] OTHER -> IF Good("consent") THEN "ok" ELSE "warn"

Hint(check) ==
  CASE check = "manifest" -> IF "manifest" \in dir THEN "force" ELSE "plain"
    [] check = "meta" -> "plain"
    [] check = "consent" -> "accept"
    [] check = "vectors" ->
         IF "vectors" \notin dir \/ form["vectors"] = "old" THEN "plain"
         ELSE IF form["vectors"] = "bad" THEN "force" ELSE "accept"

\* The option of an index command, "none" when it has both or is no index command.
Option(c) ==
  CASE c.kind # "index" \/ (c.force /\ c.accept) -> "none"
    [] c.force /\ ~c.accept -> "force"
    [] c.accept /\ ~c.force -> "accept"
    [] OTHER -> "plain"

----------------------------------------------------------------------------
(***************************************************************************)
(* A command starts; index and search discover the sessions of their scope.*)
(* update and uninstall only act on a release binary, which the marker     *)
(* beside it shows.                                                        *)
(***************************************************************************)
SelfManaged == "marker" \in installed

FirstStep(kind) ==
  CASE kind \in {"index", "search"} -> "open"
    [] kind = "health" -> "probe"
    [] kind = "uninstall" -> "check"

Discovered(scope) ==
  {s \in Sessions : /\ ProviderOf[s] \in scope \ broken
                    /\ \E m \in Messages : SessionOf[m] = s /\ text[m] # 0}

Start(p, c) ==
  /\ pc[p] = "idle" /\ "binary" \in installed
  /\ runs < MaxRuns /\ runs' = runs + 1
  /\ c.kind = "uninstall" => SelfManaged
  /\ cmd' = [cmd EXCEPT ![p] = c]
  /\ found' = [found EXCEPT ![p] = IF c.kind \in {"index", "search"} THEN Discovered(c.scope) ELSE {}]
  /\ pc' = [pc EXCEPT ![p] = FirstStep(c.kind)]
  /\ flagged' = [q \in Procs |-> {k \in Formed :
                   q = p /\ OthersIdle(p) /\ Says(k) # "ok" /\ Hint(k) = Option(c)}]
  /\ lone' = [q \in Procs |-> q = p /\ OthersIdle(p)]
  /\ UNCHANGED <<dir, form, index, vec, text, unreadable, broken, changes, installed,
                 mem, live, todo, skipped, accepted>>
  /\ disturbed' = (disturbed \/ \E q \in Procs : pc[q] \in {"reset", "remove"})

\* The process is back at the shell: only files remember it.
Leave(p) ==
  /\ pc' = [pc EXCEPT ![p] = "idle"]
  /\ cmd' = [cmd EXCEPT ![p] = NoCommand]
  /\ found' = [found EXCEPT ![p] = {}]
  /\ mem' = [mem EXCEPT ![p] = NoVectors]
  /\ live' = [live EXCEPT ![p] = {}]
  /\ todo' = [todo EXCEPT ![p] = {}]
  /\ skipped' = [skipped EXCEPT ![p] = FALSE]
  /\ flagged' = [flagged EXCEPT ![p] = {}]
  /\ lone' = [lone EXCEPT ![p] = FALSE]

Go(p, to) == pc' = [pc EXCEPT ![p] = to]
Same == UNCHANGED <<world, installed, accepted, flagged, lone>>

\* The command completed.
End(p) ==
  /\ pc[p] = "done" /\ Leave(p)
  /\ UNCHANGED <<dir, form, index, vec, world, installed, accepted, disturbed>>

\* It died, or met an I/O error, before its next step.
Die(p) ==
  /\ Change /\ pc[p] \notin {"idle", "done"} /\ Leave(p)
  /\ dir' = IF pc[p] = "unprobe" THEN dir \cup {"probe"} ELSE dir
  /\ disturbed' = (disturbed \/ pc[p] \in {"reset", "remove"})
  /\ UNCHANGED <<form, index, vec, text, unreadable, broken, installed, accepted>>

\* It ended with an error of its own.
Refuse(p) ==
  Leave(p) /\ UNCHANGED <<dir, form, index, vec, world, installed, accepted>>

----------------------------------------------------------------------------
(***************************************************************************)
(* SearchIndex::open_or_create.  An index of an older schema is reset: its *)
(* managed files are listed and removed one by one, in any order.          *)
(***************************************************************************)
\* (faulty) a file the user put there does not hold up a removal
UnknownInOwn ==
  (dir \cap {"leftover", "probe"}) \cup (IF \E p \in Procs : pc[p] = "unprobe" THEN {"probe"} ELSE {})

UnknownIn ==
  (dir \cap Unknown) \cup (IF \E p \in Procs : pc[p] = "unprobe" THEN {"probe"} ELSE {})
MayRemove == "sentinel" \in dir /\ UnknownIn = {}

\* (faulty) a reset leaves the manifest
ResetListOfTantivy == dir \cap (Managed \ {"manifest"})

\* The files a reset removes.
ResetList == dir \cap Managed

Open(p) ==
  /\ pc[p] = "open"
  /\ \/ /\ "meta" \notin dir \/ Good("meta")
        /\ Go(p, "create")
        /\ UNCHANGED <<dir, form, index, vec, run, disturbed>> /\ Same
     \/ /\ "meta" \in dir /\ form["meta"] = "old" /\ MayRemove
        /\ todo' = [todo EXCEPT ![p] = ResetList]
        /\ Go(p, "reset")
        /\ UNCHANGED <<dir, form, index, vec, cmd, found, mem, live, skipped, disturbed>>
        /\ Same
     \/ /\ "meta" \in dir
        /\ form["meta"] = "bad" \/ (form["meta"] = "old" /\ ~MayRemove)
        /\ Refuse(p) /\ UNCHANGED disturbed

ResetFile(p) ==
  /\ pc[p] = "reset"
  /\ \E f \in todo[p] :
       \/ /\ f \in dir /\ Remove(f)
          /\ todo' = [todo EXCEPT ![p] = todo[p] \ {f}]
          /\ UNCHANGED <<pc, cmd, found, mem, live, skipped>> /\ Same
       \/ f \notin dir /\ Refuse(p)
  /\ disturbed' = (disturbed \/ ~OthersIdle(p) \/ dir' = dir)

ResetDone(p) ==
  /\ pc[p] = "reset" /\ todo[p] = {}
  /\ Go(p, "create")
  /\ UNCHANGED <<dir, form, index, vec, run, disturbed>> /\ Same

Create(p) ==
  /\ pc[p] = "create"
  /\ \/ /\ "meta" \notin dir
        /\ dir' = dir \cup {"meta"} /\ docs' = {}
        /\ Go(p, "sentinel")
        /\ UNCHANGED <<form, listed, vec, run, disturbed>> /\ Same
     \/ /\ "meta" \in dir /\ form["meta"] # "bad"
        /\ Go(p, "sentinel")
        /\ UNCHANGED <<dir, form, index, vec, run, disturbed>> /\ Same
     \/ /\ "meta" \in dir /\ form["meta"] = "bad"
        /\ Refuse(p) /\ UNCHANGED disturbed

WriteSentinel(p) ==
  /\ pc[p] = "sentinel"
  /\ dir' = dir \cup {"sentinel"}
  /\ Go(p, "build")
  /\ UNCHANGED <<form, index, vec, run, disturbed>> /\ Same

----------------------------------------------------------------------------
(***************************************************************************)
(* The build: --force first clears the scope, an unusable manifest empties *)
(* the index; sessions that are gone or unreadable lose their documents,   *)
(* new and changed ones get them.                                          *)
(***************************************************************************)
SessionsOf(scope) == {s \in Sessions : ProviderOf[s] \in scope}

Build(p) ==
  LET scope == SessionsOf(cmd[p].scope)
      cleared == IF cmd[p].force THEN scope ELSE {}
      kept == IF Good("manifest") THEN listed \ cleared ELSE {}
      lost == (kept \cap (scope \ found[p])) \cup (found[p] \cap unreadable)
      fresh == found[p] \ (unreadable \cup kept)
  IN /\ pc[p] = "build"
     /\ \/ /\ "meta" \in dir
           /\ \E changed \in SUBSET (found[p] \ unreadable) :
                docs' = (IF "manifest" \in dir /\ ~Good("manifest") THEN {}
                         ELSE docs \ (cleared \cup lost)) \cup fresh \cup changed
           /\ listed' = (kept \ lost) \cup fresh
           /\ dir' = dir \cup {"manifest"}
           /\ form' = [form EXCEPT !["manifest"] = "good"]
           /\ Go(p, IF cmd[p].kind = "index" THEN "consent" ELSE "query")
           /\ UNCHANGED <<vec, run, disturbed>> /\ Same
        \/ "meta" \notin dir /\ Refuse(p) /\ UNCHANGED disturbed

----------------------------------------------------------------------------
(***************************************************************************)
(* The embedding pass of index, run_embeddings.                            *)
(***************************************************************************)
\* (faulty) consent that cannot be read is passed over, not recorded anew
ConsentNotRefreshed(p) ==
  /\ pc[p] = "consent"
  /\ "consent" \in dir => Good("consent") \/ cmd[p].accept
  /\ Go(p, IF "consent" \in dir \/ cmd[p].accept THEN "store" ELSE "done")
  /\ accepted' = (accepted \/ cmd[p].accept)
  /\ dir' = IF cmd[p].accept THEN dir \cup {"consent"} ELSE dir
  /\ UNCHANGED <<form, index, vec, world, installed, run, disturbed, flagged, lone>>

\* (faulty) without consent the pass goes on
ConsentSkipped(p) ==
  /\ pc[p] = "consent" /\ Go(p, "store")
  /\ UNCHANGED <<dir, form, index, vec, world, installed, run, history>>

Consent(p) ==
  /\ pc[p] = "consent"
  /\ \/ /\ Good("consent") /\ Go(p, "store")
        /\ UNCHANGED <<dir, form, accepted>>
     \/ /\ "consent" \notin dir /\ ~cmd[p].accept /\ Go(p, "done")
        /\ UNCHANGED <<dir, form, accepted>>
     \/ /\ ~Good("consent") /\ cmd[p].accept /\ Go(p, "store")
        /\ dir' = dir \cup {"consent"}
        /\ form' = [form EXCEPT !["consent"] = "good"]
        /\ accepted' = TRUE
  /\ UNCHANGED <<index, vec, world, installed, run, disturbed, flagged, lone>>

\* The consent file cannot be read and nobody accepts anew.
ConsentUnreadable(p) ==
  /\ pc[p] = "consent" /\ "consent" \in dir /\ ~Good("consent") /\ ~cmd[p].accept
  /\ Refuse(p) /\ UNCHANGED disturbed

\* A store of an older schema or of another model is evicted, a corrupt one
\* ends the command.
OpenStore(p) ==
  /\ pc[p] = "store"
  /\ \/ /\ "vectors" \notin dir \/ Good("vectors")
        /\ mem' = [mem EXCEPT ![p] = vec]
        /\ UNCHANGED <<dir, form, vec>>
     \/ /\ "vectors" \in dir /\ form["vectors"] \in {"old", "other"}
        /\ Remove("vectors")
        /\ UNCHANGED mem
  /\ todo' = [todo EXCEPT ![p] = found[p]]
  /\ Go(p, "embed")
  /\ UNCHANGED <<index, cmd, found, live, skipped, disturbed>> /\ Same

StoreCorrupt(p) ==
  /\ pc[p] = "store" /\ "vectors" \in dir /\ form["vectors"] = "bad"
  /\ Refuse(p) /\ UNCHANGED disturbed

MessagesOf(s) == {m \in Messages : SessionOf[m] = s}
\* pending_embeddings: messages whose vector is absent or was made from other text.
Pending(p, s) == {m \in MessagesOf(s) : text[m] \notin {0, mem[p][m]}}

\* The next session, in some fixed order: its live keys are noted and its
\* pending texts embedded as one batch, whose failure is reported.
Embed(p) ==
  LET s == CHOOSE s \in todo[p] : TRUE IN
  /\ pc[p] = "embed" /\ todo[p] # {}
  /\ todo' = [todo EXCEPT ![p] = @ \ {s}]
  /\ \/ /\ s \in unreadable
        /\ skipped' = [skipped EXCEPT ![p] = TRUE]
        /\ UNCHANGED <<dir, mem, live>>
     \/ /\ s \notin unreadable
        /\ live' = [live EXCEPT ![p] = @ \cup {m \in MessagesOf(s) : text[m] # 0}]
        /\ dir' = IF Pending(p, s) = {} THEN dir ELSE dir \cup {"models"}
        /\ \E embedded \in {{}, Pending(p, s)} :
             mem' = [mem EXCEPT ![p] = [m \in Messages |->
                       IF m \in embedded THEN text[m] ELSE mem[p][m]]]
        /\ UNCHANGED skipped
  /\ UNCHANGED <<form, index, vec, pc, cmd, found, disturbed>> /\ Same

\* The embedder cannot be initialised: nothing of this pass is kept.
EmbedderFails(p) ==
  /\ pc[p] = "embed" /\ todo[p] # {}
  /\ LET s == CHOOSE s \in todo[p] : TRUE IN s \notin unreadable /\ Pending(p, s) # {}
  /\ dir' = dir \cup {"models"}
  /\ Leave(p)
  /\ UNCHANGED <<form, index, vec, world, installed, accepted, disturbed>>

\* (faulty) load errors do not stop the pruning
KeptDespiteErrors(p) == {m \in Messages : ProviderOf[SessionOf[m]] \notin cmd[p].scope} \cup live[p]

\* What pruning leaves of the vectors: all of them after a load error, else
\* those of live messages and of providers out of the run's scope.
Kept(p) ==
  IF skipped[p] THEN Messages
  ELSE {m \in Messages : ProviderOf[SessionOf[m]] \notin cmd[p].scope} \cup live[p]

\* The whole store is written over whatever the file holds by now.
Flush(p) ==
  /\ pc[p] = "embed" /\ todo[p] = {}
  /\ vec' = [m \in Messages |-> IF m \in Kept(p) THEN mem[p][m] ELSE 0]
  /\ dir' = dir \cup {"vectors"}
  /\ form' = [form EXCEPT !["vectors"] = "good"]
  /\ Go(p, "done")
  /\ UNCHANGED <<index, run, disturbed>> /\ Same

\* try_hybrid_search: without consent or vectors the search stays lexical.
Query(p) ==
  /\ pc[p] = "query" /\ Go(p, "done")
  /\ dir' = IF Good("consent") /\ "vectors" \in dir /\ vec # NoVectors
               /\ form["vectors"] \in {"good", "other"}
            THEN dir \cup {"models"} ELSE dir
  /\ UNCHANGED <<form, index, vec, run, disturbed>> /\ Same

----------------------------------------------------------------------------
(***************************************************************************)
(* health proves that the directory is writable with a file of its own.    *)
(***************************************************************************)
Probe(p) ==
  /\ pc[p] = "probe" /\ Go(p, "unprobe")
  /\ UNCHANGED <<dir, form, index, vec, run, disturbed>> /\ Same

Unprobe(p) ==
  /\ pc[p] = "unprobe" /\ Go(p, "done")
  /\ UNCHANGED <<dir, form, index, vec, run, disturbed>> /\ Same

----------------------------------------------------------------------------
(***************************************************************************)
(* uninstall: the directory, if it exists and holds nothing unknown, then  *)
(* the configuration, the marker and the binary.  An empty directory and   *)
(* a missing one are not told apart: both ways are open.                   *)
(***************************************************************************)
CheckDir(p) ==
  /\ pc[p] = "check"
  /\ \/ MayRemove /\ Go(p, "remove") /\ todo' = [todo EXCEPT ![p] = dir]
     \/ dir = {} /\ Go(p, "config") /\ UNCHANGED todo
  /\ UNCHANGED <<dir, form, index, vec, cmd, found, mem, live, skipped, disturbed>> /\ Same

CheckFails(p) ==
  /\ pc[p] = "check" /\ ~MayRemove
  /\ Refuse(p) /\ UNCHANGED disturbed

\* (faulty) a directory that cannot be removed does not stop the command
RemoveEntryIfPossible(p) ==
  /\ pc[p] = "remove"
  /\ \/ (\E f \in dir : Remove(f)) /\ UNCHANGED pc
     \/ Go(p, "config") /\ UNCHANGED <<dir, form, vec, index>>
  /\ disturbed' = (disturbed \/ ~OthersIdle(p))
  /\ UNCHANGED run /\ Same

\* remove_dir_all takes what it finds, in any order.
RemoveEntry(p) ==
  /\ pc[p] = "remove"
  /\ \/ (\E f \in dir : Remove(f)) /\ UNCHANGED pc
     \/ dir = {} /\ Go(p, "config") /\ UNCHANGED <<dir, form, vec, index>>
  /\ disturbed' = (disturbed \/ ~OthersIdle(p))
  /\ UNCHANGED run /\ Same

RemoveConfig(p) ==
  /\ pc[p] = "config" /\ Go(p, "marker")
  /\ installed' = installed \ {"config"}
  /\ UNCHANGED <<dir, form, index, vec, world, run, history>>

\* (faulty) the command does not know its last step
RemoveProgramOnly(p) ==
  /\ pc[p] \in {"marker", "binary"}
  /\ installed' = installed \ {pc[p]}
  /\ Go(p, IF pc[p] = "marker" THEN "binary" ELSE "exe")
  /\ UNCHANGED <<dir, form, index, vec, world, run, history>>

RemoveProgram(p) ==
  /\ pc[p] \in {"marker", "binary"}
  /\ installed' = installed \ {pc[p]}
  /\ Go(p, IF pc[p] = "marker" THEN "binary" ELSE "done")
  /\ UNCHANGED <<dir, form, index, vec, world, run, history>>

Process(p) ==
  \/ \E c \in Commands : Start(p, c)
  \/ Open(p) \/ ResetFile(p) \/ ResetDone(p) \/ Create(p) \/ WriteSentinel(p) \/ Build(p)
  \/ Consent(p) \/ ConsentUnreadable(p) \/ OpenStore(p) \/ StoreCorrupt(p)
  \/ Embed(p) \/ EmbedderFails(p) \/ Flush(p) \/ Query(p)
  \/ Probe(p) \/ Unprobe(p)
  \/ CheckDir(p) \/ CheckFails(p) \/ RemoveEntry(p)
  \/ RemoveConfig(p) \/ RemoveProgram(p)
  \/ End(p) \/ Die(p)

Next == Environment \/ \E p \in Procs : Process(p)
Spec == Init /\ [][Next]_vars

----------------------------------------------------------------------------
Steps == {"idle", "open", "reset", "create", "sentinel", "build", "consent", "store",
          "embed", "query", "probe", "unprobe", "check", "remove", "config", "marker",
          "binary", "done"}

\* Every variable holds a value of its kind.
TypeOK ==
  /\ dir \subseteq Entries /\ form \in [Formed -> Forms]
  /\ docs \subseteq Sessions /\ listed \subseteq Sessions
  /\ vec \in [Messages -> 0 .. MaxText] /\ text \in [Messages -> 0 .. MaxText]
  /\ unreadable \subseteq Sessions /\ broken \subseteq Providers
  /\ changes \in 0 .. MaxChanges /\ runs \in 0 .. MaxRuns
  /\ installed \subseteq {"binary", "marker", "config"}
  /\ pc \in [Procs -> Steps]
  /\ cmd \in [Procs -> Commands \cup {NoCommand}]
  /\ found \in [Procs -> SUBSET Sessions]
  /\ mem \in [Procs -> [Messages -> 0 .. MaxText]]
  /\ live \in [Procs -> SUBSET Messages]
  /\ todo \in [Procs -> SUBSET (Entries \cup Sessions)]
  /\ skipped \in [Procs -> BOOLEAN]
  /\ accepted \in BOOLEAN /\ disturbed \in BOOLEAN
  /\ flagged \in [Procs -> SUBSET Formed] /\ lone \in [Procs -> BOOLEAN]

\* The manifest never vouches for a session without documents, however the
\* directory was reset, cleared or rebuilt: the next build would skip it for
\* good (search/index.rs, storage.rs).  Not after a removal that was cut short
\* or overlapped other work.
ManifestHasDocs ==
  ~disturbed /\ "meta" \in dir /\ "manifest" \in dir /\ form["meta"] = "good" => listed \subseteq docs

\* What the program does not recognise in the directory, it does not delete,
\* except for a file that came after an uninstall had looked (storage.rs).
StrangersSurvive ==
  [][\A f \in Unknown : f \in dir /\ f \notin dir' =>
       \/ changes' # changes
       \/ \E p \in Procs : pc[p] = "remove" /\ f \notin todo[p]]_vars

\* What lets another uninstall go all the way: the program, the marker that
\* it may remove itself, and a directory that is gone or may be removed.
CanUninstall == {"binary", "marker"} \subseteq installed /\ (dir = {} \/ MayRemove)

\* An uninstall that dies or fails on its way can be run again and then goes
\* all the way, if nothing else happened meanwhile, or has left the binary only
\* (uninstall.rs).  Not one that stops between the removal of the sentinel and
\* that of the directory, in whatever order remove_dir_all takes its entries:
\* what is left is then refused for want of the sentinel (storage.rs).
UninstallCanResume ==
  [][\A p \in Procs :
       lone[p] /\ pc[p] \in {"remove", "config", "marker", "binary"} /\ pc'[p] = "idle" =>
         \/ CanUninstall'
         \/ installed' = {"binary"} /\ dir' = {}
         \/ pc[p] = "remove" /\ "sentinel" \notin dir]_vars

\* Nothing creates the model directory, which starts a download, unless a user
\* has accepted it ("Caller MUST have already recorded user consent", embed.rs).
ModelNeedsConsent ==
  "models" \in dir => accepted

\* A run that nothing disturbs drops a vector only if the message has lost its
\* text or its provider, in the run's scope, could not be discovered; an
\* unreadable session and the other providers keep theirs (enabled.rs).
LiveVectorsSurvive ==
  [][\A p \in Procs, m \in Messages :
       lone[p] /\ pc[p] = "embed" /\ pc'[p] = "done" /\ vec[m] # 0 /\ vec'[m] = 0 =>
         /\ ProviderOf[SessionOf[m]] \in cmd[p].scope
         /\ text[m] = 0 \/ ProviderOf[SessionOf[m]] \in broken]_vars

\* When health says what is wrong and which index command repairs it, running
\* that command to its end undisturbed makes the check say "ok" (health/index.rs,
\* health/sidecars/embeddings.rs); not the check of the vectors without consent.
HintsWork ==
  \A p \in Procs : pc[p] = "done" /\ lone[p] =>
    \A k \in flagged[p] : Says(k) = "ok" \/ (k = "vectors" /\ ~Good("consent"))

=============================================================================
