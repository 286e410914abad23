------------------------------ MODULE Metadata ------------------------------
(***************************************************************************)
(* The annotation sidecar: notes, tags and stars in one SQLite database,   *)
(* changed by commands of several processes and by the star cache of the   *)
(* terminal UI.  Every statement commits by itself, so a command of two    *)
(* statements may find other commands between them.                        *)
(*                                                                         *)
(* A ref names a session of a source, or one of its turns.                 *)
(***************************************************************************)
EXTENDS Naturals, FiniteSets

CONSTANTS
  Procs,        \* processes that run commands
  Tuis,         \* processes that run the UI
  Sources,      \* local and remote sources
  Local,        \* the local source
  Sessions,     \* sessions, by provider and id
  Alike,        \* pairs of sessions whose references differ in case at most
  Refs,         \* the refs that are annotated
  Bodies,       \* note bodies
  Hits,         \* bodies with the needle of --note in them
  Tags,         \* tags
  FirstNotes,   \* the notes at first, which everyone has listed
  MaxRows,      \* bound: rows ever added to a table
  MaxRuns,      \* bound: commands, loads and toggles started
  MaxFailures   \* bound: failed statements

Whole == 0
Keys == {r \in Refs : r.turn = Whole}
Users == Procs \cup Tuis

\* A session's key, and the ref of a local session.
Key(r) == [r EXCEPT !.turn = Whole]
LocalRef(s) == [source |-> Local, session |-> s, turn |-> Whole]

Notes == [id : 1 .. MaxRows, ref : Refs, body : Bodies]
TagRows == [id : 1 .. MaxRows, ref : Refs, tag : Tags]

ASSUME ConstantsAssumption ==
  /\ Local \in Sources /\ Procs \cap Tuis = {}
  /\ Refs \subseteq [source : Sources, session : Sessions, turn : Nat]
  /\ \A r \in Refs : Key(r) \in Refs
  /\ \A s \in Sessions : LocalRef(s) \in Refs
  /\ Alike \subseteq Sessions \X Sessions /\ \A s \in Sessions : <<s, s>> \in Alike
  /\ Hits \subseteq Bodies
  /\ FirstNotes \subseteq Notes /\ IsFiniteSet(FirstNotes)
  /\ \A m, n \in FirstNotes : m.id = n.id => m = n
  /\ {n.id : n \in FirstNotes} = 1 .. Cardinality(FirstNotes)
  /\ MaxRows \in Nat /\ MaxRuns \in Nat /\ MaxFailures \in Nat

Criteria == {"note", "tag", "starred"}
Ops == {"note_add", "note_edit", "note_remove", "tag_add", "tag_remove", "star", "unstar",
        "note_list", "filter"}
Steps == {"idle", "first", "get", "delete", "filter", "done",
          "load", "ready", "unstar", "delete_star", "star", "get_star"}

VARIABLES
  notes, tags, stars,    \* the tables
  lastNote, lastTag,     \* the ids given out last
  runs, failures,        \* bounds
  pc, cmd,               \* per user: step, and command
  row,                   \* the row the command works on
  shown,                 \* the notes listed last
  todo,                  \* criteria the filter has not read
  allowed,               \* the keys the filter lets through so far
  memory,                \* per UI: sessions it shows as starred
  toggled,               \* per UI: the session being toggled
  held,                  \* history: keys that met all criteria since the filter began
  touched,               \* history: keys whose annotations changed since then
  settled                \* history: sessions whose star only this UI changed since it knew it

tables == <<notes, tags, stars, lastNote, lastTag>>
cli == <<cmd, row, shown, todo, allowed>>
tui == <<memory, toggled>>
history == <<held, touched, settled>>
vars == <<tables, runs, failures, pc, cli, tui, history>>

NoCommand == [op |-> "none"]

Init ==
  /\ notes = FirstNotes /\ tags = {} /\ stars \in SUBSET {LocalRef(s) : s \in Sessions}
  /\ lastNote = Cardinality(FirstNotes) /\ lastTag = 0 /\ runs = 0 /\ failures = 0
  /\ pc = [u \in Users |-> "idle"]
  /\ cmd = [p \in Procs |-> NoCommand]
  /\ row = [p \in Procs |-> {}]
  /\ shown = [p \in Procs |-> FirstNotes]
  /\ todo = [p \in Procs |-> {}]
  /\ allowed = [p \in Procs |-> {}]
  /\ memory = [t \in Tuis |-> {}]
  /\ toggled = [t \in Tuis |-> {}]
  /\ held = [p \in Procs |-> {}]
  /\ touched = [p \in Procs |-> {}]
  /\ settled = [t \in Tuis |-> {}]

----------------------------------------------------------------------------
(***************************************************************************)
(* What a filter asks: the keys of sessions with a note, a tag or a star,  *)
(* on the session or on any turn.                                          *)
(***************************************************************************)
\* (faulty) a turn's ref is taken for its session's key
KeysOfWhole(R) == R \cap Keys

\* The keys of a set of refs.
KeysOf(R) == {Key(r) : r \in R}

Meets(criterion) ==
  CASE criterion = "note" -> KeysOf({n.ref : n \in {m \in notes : m.body \in Hits}})
    [] criterion = "tag" -> KeysOf({t.ref : t \in tags})
    [] OTHER -> KeysOf(stars)

\* What a filter means, whatever it does, of notes N, tags T and stars S.
Met(k, criterion, N, T, S) ==
  \/ criterion = "note" /\ \E n \in N : Key(n.ref) = k /\ n.body \in Hits
  \/ criterion = "tag" /\ \E t \in T : Key(t.ref) = k
  \/ criterion = "starred" /\ \E r \in S : Key(r) = k

Differ(A, B) == (A \ B) \cup (B \ A)

\* The tables become N, T and S; `known` are the pairs of a UI and a session whose
\* toggle this completes.
Change(N, T, S, known) ==
  LET refs == {r.ref : r \in Differ(N, notes) \cup Differ(T, tags)} \cup Differ(S, stars) IN
  /\ notes' = N /\ tags' = T /\ stars' = S
  /\ held' = [p \in Procs |->
       IF pc[p] = "filter"
       THEN {k \in held[p] : \A c \in cmd[p].criteria : Met(k, c, N, T, S)} ELSE held[p]]
  /\ touched' = [p \in Procs |->
       IF pc[p] = "filter" THEN touched[p] \cup {Key(r) : r \in refs} ELSE touched[p]]
  /\ settled' = [t \in Tuis |->
       {s \in settled[t] : LocalRef(s) \notin Differ(S, stars)}
       \cup {s \in Sessions : <<t, s>> \in known}]

----------------------------------------------------------------------------
(***************************************************************************)
(* Commands.  Opening creates and migrates the database if need be; any    *)
(* statement may fail, and the process may die between two of them.        *)
(***************************************************************************)
Commands ==
  [op : {"note_add"}, ref : Refs, body : Bodies]
  \cup [op : {"note_edit"}, id : 1 .. MaxRows, body : Bodies]
  \cup [op : {"note_remove"}, id : 1 .. MaxRows]
  \cup [op : {"note_list"}, ref : Refs]
  \cup [op : {"tag_add", "tag_remove"}, ref : Refs, tag : Tags]
  \cup [op : {"star", "unstar"}, ref : Refs]
  \cup [op : {"filter"}, criteria : (SUBSET Criteria) \ {{}}]

Run == runs < MaxRuns /\ runs' = runs + 1
Same == UNCHANGED <<tables, tui, history, failures, runs>>

\* A note is edited or removed by an id that was listed.
Start(p, c) ==
  /\ pc[p] = "idle" /\ Run
  /\ c.op \in {"note_edit", "note_remove"} => \E n \in shown[p] : n.id = c.id
  /\ cmd' = [cmd EXCEPT ![p] = c]
  /\ pc' = [pc EXCEPT ![p] = IF c.op = "filter" THEN "filter" ELSE "first"]
  /\ IF c.op # "filter" THEN UNCHANGED <<todo, allowed, held, touched>>
     ELSE /\ todo' = [todo EXCEPT ![p] = c.criteria]
          /\ allowed' = [allowed EXCEPT ![p] = Keys]
          /\ held' = [held EXCEPT ![p] = {k \in Keys : \A d \in c.criteria : Met(k, d, notes, tags, stars)}]
          /\ touched' = [touched EXCEPT ![p] = {}]
  /\ UNCHANGED <<tables, failures, row, shown, tui, settled>>

End(p) ==
  /\ pc[p] = "done"
  /\ pc' = [pc EXCEPT ![p] = "idle"]
  /\ cmd' = [cmd EXCEPT ![p] = NoCommand]
  /\ row' = [row EXCEPT ![p] = {}]
  /\ todo' = [todo EXCEPT ![p] = {}]
  /\ allowed' = [allowed EXCEPT ![p] = {}]
  /\ held' = [held EXCEPT ![p] = {}]
  /\ touched' = [touched EXCEPT ![p] = {}]
  /\ UNCHANGED <<tables, runs, failures, shown, tui, settled>>

\* The statement fails, and the command with it.
Fail(p) ==
  /\ failures < MaxFailures /\ failures' = failures + 1
  /\ pc[p] \notin {"idle", "done"}
  /\ pc' = [pc EXCEPT ![p] = "idle"]
  /\ cmd' = [cmd EXCEPT ![p] = NoCommand]
  /\ row' = [row EXCEPT ![p] = {}]
  /\ todo' = [todo EXCEPT ![p] = {}]
  /\ allowed' = [allowed EXCEPT ![p] = {}]
  /\ held' = [held EXCEPT ![p] = {}]
  /\ touched' = [touched EXCEPT ![p] = {}]
  /\ UNCHANGED <<tables, runs, shown, tui, settled>>

To(p, step) == pc' = [pc EXCEPT ![p] = step]
First(p, op) == pc[p] = "first" /\ cmd[p].op = op
Quiet == UNCHANGED <<runs, failures, cmd, shown, todo, allowed, tui>>

\* (faulty) the id of the last row is given out again when the row is gone
NoteAddReusing(p) ==
  LET free == {i \in 1 .. MaxRows : \A n \in notes : n.id < i}
      n == [id |-> CHOOSE i \in free : \A j \in free : i <= j,
            ref |-> cmd[p].ref, body |-> cmd[p].body]
  IN /\ First(p, "note_add") /\ free # {}
     /\ Change(notes \cup {n}, tags, stars, {}) /\ UNCHANGED lastNote
     /\ row' = [row EXCEPT ![p] = {n.id}]
     /\ To(p, "get")
     /\ UNCHANGED lastTag /\ Quiet

NoteAdd(p) ==
  LET n == [id |-> lastNote + 1, ref |-> cmd[p].ref, body |-> cmd[p].body] IN
  /\ First(p, "note_add") /\ lastNote < MaxRows
  /\ Change(notes \cup {n}, tags, stars, {}) /\ lastNote' = lastNote + 1
  /\ row' = [row EXCEPT ![p] = {n.id}]
  /\ To(p, "get")
  /\ UNCHANGED lastTag /\ Quiet

\* The update finds no row: not found.
NoteEdit(p) ==
  LET old == {n \in notes : n.id = cmd[p].id} IN
  /\ First(p, "note_edit")
  /\ Change((notes \ old) \cup {[n EXCEPT !.body = cmd[p].body] : n \in old}, tags, stars, {})
  /\ row' = [row EXCEPT ![p] = {cmd[p].id}]
  /\ To(p, IF old = {} THEN "done" ELSE "get")
  /\ UNCHANGED <<lastNote, lastTag>> /\ Quiet

\* The row is read before it is deleted; it may change or go in between.
NoteRemove(p) ==
  /\ First(p, "note_remove")
  /\ row' = [row EXCEPT ![p] = {n.id : n \in {m \in notes : m.id = cmd[p].id}}]
  /\ To(p, IF row'[p] = {} THEN "done" ELSE "delete")
  /\ Quiet /\ UNCHANGED <<tables, history>>

\* (faulty) a tag may be attached to a ref again
TagAddTwice(p) ==
  LET t == [id |-> lastTag + 1, ref |-> cmd[p].ref, tag |-> cmd[p].tag] IN
  /\ First(p, "tag_add") /\ lastTag < MaxRows
  /\ Change(notes, tags \cup {t}, stars, {}) /\ lastTag' = lastTag + 1
  /\ row' = [row EXCEPT ![p] = {t.id}]
  /\ To(p, "get")
  /\ UNCHANGED lastNote /\ Quiet

\* A tag is attached once to a ref.
TagAdd(p) ==
  LET t == [id |-> lastTag + 1, ref |-> cmd[p].ref, tag |-> cmd[p].tag]
      attached == \E o \in tags : o.ref = t.ref /\ o.tag = t.tag
  IN /\ First(p, "tag_add") /\ lastTag < MaxRows
     /\ IF attached THEN UNCHANGED <<tables, history, row>> /\ To(p, "done")
        ELSE /\ Change(notes, tags \cup {t}, stars, {}) /\ lastTag' = lastTag + 1
             /\ row' = [row EXCEPT ![p] = {t.id}]
             /\ To(p, "get")
     /\ UNCHANGED lastNote /\ Quiet

TagRemove(p) ==
  /\ First(p, "tag_remove")
  /\ row' = [row EXCEPT ![p] =
       {t.id : t \in {o \in tags : o.ref = cmd[p].ref /\ o.tag = cmd[p].tag}}]
  /\ To(p, IF row'[p] = {} THEN "done" ELSE "delete")
  /\ Quiet /\ UNCHANGED <<tables, history>>

\* A session or turn is starred once.
StarAdd(p) ==
  /\ First(p, "star")
  /\ Change(notes, tags, stars \cup {cmd[p].ref}, {})
  /\ To(p, IF cmd[p].ref \in stars THEN "done" ELSE "get")
  /\ UNCHANGED <<lastNote, lastTag, row>> /\ Quiet

StarRemove(p) ==
  /\ First(p, "unstar")
  /\ To(p, IF cmd[p].ref \in stars THEN "delete" ELSE "done")
  /\ UNCHANGED row /\ Quiet /\ UNCHANGED <<tables, history>>

\* The second statement of a removal: notes go by their id, tags by ref and tag.
Delete(p) ==
  LET op == cmd[p].op
      goneNotes == {n \in notes : op = "note_remove" /\ n.id = cmd[p].id}
      goneTags == {t \in tags : op = "tag_remove" /\ t.ref = cmd[p].ref /\ t.tag = cmd[p].tag}
      goneStars == {r \in stars : op = "unstar" /\ r = cmd[p].ref}
  IN /\ pc[p] = "delete"
     /\ Change(notes \ goneNotes, tags \ goneTags, stars \ goneStars, {})
     /\ To(p, "done")
     /\ UNCHANGED <<lastNote, lastTag, row>> /\ Quiet

\* The second statement of an addition or edit reads the row back, if it is there.
Get(p) ==
  LET op == cmd[p].op
      there == \/ op \in {"note_add", "note_edit"} /\ \E n \in notes : n.id \in row[p]
               \/ op = "tag_add" /\ \E t \in tags : t.id \in row[p]
               \/ op = "star" /\ cmd[p].ref \in stars
  IN /\ pc[p] = "get"
     /\ row' = [row EXCEPT ![p] = IF there THEN @ ELSE {}]
     /\ To(p, "done")
     /\ Quiet /\ UNCHANGED <<tables, history>>

\* A ref matches itself, and a session's ref all its turns; LIKE ignores case.
Predicate(want, ref) ==
  \/ want = ref
  \/ /\ want.turn = Whole /\ ref.turn # Whole
     /\ want.source = ref.source /\ <<want.session, ref.session>> \in Alike

NoteList(p) ==
  /\ First(p, "note_list")
  /\ shown' = [shown EXCEPT ![p] = {n \in notes : Predicate(cmd[p].ref, n.ref)}]
  /\ To(p, "done")
  /\ UNCHANGED <<cmd, row, todo, allowed>> /\ Same

\* --note, --tag and --starred: one statement each, in this order; a session must
\* meet all that are asked for.
Order == [note |-> 1, tag |-> 2, starred |-> 3]
Filter(p) ==
  /\ pc[p] = "filter"
  /\ \E c \in todo[p] :
       /\ \A d \in todo[p] : Order[c] <= Order[d]
       /\ allowed' = [allowed EXCEPT ![p] = @ \cap Meets(c)]
       /\ todo' = [todo EXCEPT ![p] = @ \ {c}]
  /\ To(p, IF todo'[p] = {} THEN "done" ELSE "filter")
  /\ UNCHANGED <<cmd, row, shown>> /\ Same

----------------------------------------------------------------------------
(***************************************************************************)
(* The UI reads the stars of local sessions once, and writes each toggle   *)
(* through: a removal from memory first, an addition to the database first.*)
(***************************************************************************)
UiSame == UNCHANGED <<cli, held, touched>>

Open(t) ==
  /\ pc[t] = "idle" /\ Run
  /\ To(t, "load")
  /\ UNCHANGED <<tables, failures, tui, settled>> /\ UiSame

Load(t) ==
  /\ pc[t] = "load"
  /\ memory' = [memory EXCEPT ![t] = {s \in Sessions : LocalRef(s) \in stars}]
  /\ settled' = [settled EXCEPT ![t] = Sessions]
  /\ To(t, "ready")
  /\ UNCHANGED <<tables, runs, failures, toggled>> /\ UiSame

\* (faulty) a star is shown before it is stored
ToggleEarly(t, s) ==
  /\ pc[t] = "ready" /\ Run
  /\ toggled' = [toggled EXCEPT ![t] = {s}]
  /\ memory' = [memory EXCEPT ![t] = IF s \in @ THEN @ \ {s} ELSE @ \cup {s}]
  /\ settled' = [settled EXCEPT ![t] = IF s \in memory[t] THEN @ \ {s} ELSE @]
  /\ To(t, IF s \in memory[t] THEN "unstar" ELSE "star")
  /\ UNCHANGED <<tables, failures>> /\ UiSame

Toggle(t, s) ==
  /\ pc[t] = "ready" /\ Run
  /\ toggled' = [toggled EXCEPT ![t] = {s}]
  /\ memory' = [memory EXCEPT ![t] = @ \ {s}]
  /\ settled' = [settled EXCEPT ![t] = IF s \in memory[t] THEN @ \ {s} ELSE @]
  /\ To(t, IF s \in memory[t] THEN "unstar" ELSE "star")
  /\ UNCHANGED <<tables, failures>> /\ UiSame

\* The toggle succeeded.
Stored(t) ==
  /\ settled' = [settled EXCEPT ![t] = @ \cup toggled[t]]
  /\ toggled' = [toggled EXCEPT ![t] = {}]
  /\ To(t, "ready")

\* remove_persisted: a star that is gone already will do.
Unstar(t, s) ==
  /\ pc[t] = "unstar" /\ s \in toggled[t]
  /\ IF LocalRef(s) \in stars THEN To(t, "delete_star") /\ UNCHANGED <<toggled, settled>>
     ELSE Stored(t)
  /\ UNCHANGED <<tables, runs, failures, memory>> /\ UiSame

DeleteStar(t, s) ==
  /\ pc[t] = "delete_star" /\ s \in toggled[t]
  /\ Change(notes, tags, stars \ {LocalRef(s)}, {<<t, s>>})
  /\ toggled' = [toggled EXCEPT ![t] = {}]
  /\ To(t, "ready")
  /\ UNCHANGED <<lastNote, lastTag, runs, failures, memory, cli>>

\* add_persisted: a star that is there already will do.
Star(t, s) ==
  /\ pc[t] = "star" /\ s \in toggled[t]
  /\ Change(notes, tags, stars \cup {LocalRef(s)}, {})
  /\ To(t, "get_star")
  /\ UNCHANGED <<lastNote, lastTag, runs, failures, tui, cli>>

\* If another process took the star meanwhile, the toggle fails.
GetStar(t, s) ==
  /\ pc[t] = "get_star" /\ s \in toggled[t]
  /\ IF LocalRef(s) \in stars THEN /\ memory' = [memory EXCEPT ![t] = @ \cup {s}]
                                   /\ Stored(t)
     ELSE /\ toggled' = [toggled EXCEPT ![t] = {}] /\ To(t, "ready")
          /\ UNCHANGED <<memory, settled>>
  /\ UNCHANGED <<tables, runs, failures>> /\ UiSame

\* Stars that cannot be loaded leave the UI without any, and it says so; a toggle
\* that fails leaves the memory as it is.
UiFail(t) ==
  /\ failures < MaxFailures /\ failures' = failures + 1
  /\ pc[t] \notin {"idle", "ready"}
  /\ toggled' = [toggled EXCEPT ![t] = {}]
  /\ To(t, "ready")
  /\ UNCHANGED <<tables, runs, memory, settled>> /\ UiSame

Command(p) ==
  \/ \E c \in Commands : Start(p, c)
  \/ NoteAdd(p) \/ NoteEdit(p) \/ NoteRemove(p) \/ NoteList(p)
  \/ TagAdd(p) \/ TagRemove(p) \/ StarAdd(p) \/ StarRemove(p)
  \/ Delete(p) \/ Get(p) \/ Filter(p) \/ End(p) \/ Fail(p)

Ui(t) ==
  \/ Open(t) \/ Load(t) \/ UiFail(t)
  \/ \E s \in Sessions : \/ Toggle(t, s) \/ Unstar(t, s) \/ DeleteStar(t, s)
                         \/ Star(t, s) \/ GetStar(t, s)

Next == (\E p \in Procs : Command(p)) \/ \E t \in Tuis : Ui(t)
Spec == Init /\ [][Next]_vars

----------------------------------------------------------------------------
\* Every variable holds a value of its kind; rows have ids of their own, a tag is
\* attached to a ref once.
TypeOK ==
  /\ notes \subseteq Notes /\ tags \subseteq TagRows /\ stars \subseteq Refs
  /\ \A m, n \in notes : m.id = n.id => m = n
  /\ \A s, t \in tags : s.id = t.id \/ (s.ref = t.ref /\ s.tag = t.tag) => s = t
  /\ lastNote \in 0 .. MaxRows /\ lastTag \in 0 .. MaxRows
  /\ runs \in 0 .. MaxRuns /\ failures \in 0 .. MaxFailures
  /\ pc \in [Users -> Steps]
  /\ cmd \in [Procs -> Commands \cup {NoCommand}]
  /\ row \in [Procs -> SUBSET (1 .. MaxRows)]
  /\ shown \in [Procs -> SUBSET Notes]
  /\ todo \in [Procs -> SUBSET Criteria]
  /\ allowed \in [Procs -> SUBSET Keys]
  /\ memory \in [Tuis -> SUBSET Sessions]
  /\ toggled \in [Tuis -> SUBSET Sessions]
  /\ held \in [Procs -> SUBSET Keys]
  /\ touched \in [Procs -> SUBSET Keys]
  /\ settled \in [Tuis -> SUBSET Sessions]

\* The UI shows a star exactly where one is stored, except for sessions another
\* process has starred or unstarred since, and after a toggle that failed
\* (stars.rs, the cache is written through).
StarsWrittenThrough ==
  \A t \in Tuis : pc[t] = "ready" =>
    \A s \in settled[t] : s \in memory[t] <=> LocalRef(s) \in stars

\* A filter reads notes, tags and stars one after the other, but lets through all
\* sessions that met its criteria throughout, on the session or any turn, and
\* otherwise only such as changed meanwhile (metadata/filters.rs).
FilterSound ==
  \A p \in Procs : pc[p] = "done" /\ cmd[p].op = "filter" =>
    held[p] \subseteq allowed[p] /\ allowed[p] \subseteq held[p] \cup touched[p]

\* A note's id is never given to another note: who edits or removes a note changes
\* the one that was listed, or none (metadata/notes.rs, 0001_init.sql).
EditsHitTheListedNote ==
  \A p \in Procs : cmd[p].op \in {"note_edit", "note_remove"} =>
    \A n \in notes : n.id = cmd[p].id => \E m \in shown[p] : m.id = n.id /\ m.ref = n.ref
=============================================================================
