--------------------------- MODULE MetadataProofs ---------------------------
(***************************************************************************)
(* Proofs about Metadata for any number of processes, UIs, sessions, refs, *)
(* notes and tags: types and the constraints of the schema, stars that are *)
(* written through, ids that keep their meaning, and filters that are      *)
(* sound although they read three tables one after the other.              *)
(***************************************************************************)
EXTENDS Metadata, FiniteSetTheorems, TLAPS

(***************************************************************************)
(* Typing.  An id is given out once because the counters never fall behind *)
(* the rows.                                                               *)
(***************************************************************************)
TypeTables ==
  /\ notes \subseteq Notes /\ tags \subseteq TagRows /\ stars \subseteq Refs
  /\ \A m, n \in notes : m.id = n.id => m = n
  /\ \A s, t \in tags : s.id = t.id \/ (s.ref = t.ref /\ s.tag = t.tag) => s = t
  /\ lastNote \in 0 .. MaxRows /\ lastTag \in 0 .. MaxRows
  /\ \A n \in notes : n.id <= lastNote
  /\ \A t \in tags : t.id <= lastTag

TypeCommands ==
  /\ runs \in 0 .. MaxRuns /\ failures \in 0 .. MaxFailures
  /\ pc \in [Users -> Steps]
  /\ cmd \in [Procs -> Commands \cup {NoCommand}]
  /\ row \in [Procs -> SUBSET (1 .. MaxRows)]
  /\ shown \in [Procs -> SUBSET Notes]
  /\ todo \in [Procs -> SUBSET Criteria]
  /\ allowed \in [Procs -> SUBSET Keys]

TypeFilters == held \in [Procs -> SUBSET Keys] /\ touched \in [Procs -> SUBSET Keys]

TypeUis ==
  /\ memory \in [Tuis -> SUBSET Sessions]
  /\ toggled \in [Tuis -> SUBSET Sessions]
  /\ settled \in [Tuis -> SUBSET Sessions]

Types == TypeTables /\ TypeCommands /\ TypeFilters /\ TypeUis

LEMMA Bounds == MaxRows \in Nat /\ MaxRuns \in Nat /\ MaxFailures \in Nat
BY ConstantsAssumption

LEMMA RefsTyped ==
  /\ \A r \in Refs : Key(r) \in Keys
  /\ \A s \in Sessions : LocalRef(s) \in Refs
<1>1. \A r \in Refs : Key(r) \in Refs /\ Key(r).turn = Whole
  BY ConstantsAssumption DEF Key
<1>2. QED
  BY <1>1, ConstantsAssumption DEF Keys

\* What a command is given.
LEMMA CommandFields ==
  ASSUME NEW c \in Commands
  PROVE  /\ c.op \in {"note_add", "note_list", "tag_add", "tag_remove", "star", "unstar"} => c.ref \in Refs
         /\ c.op \in {"note_add", "note_edit"} => c.body \in Bodies
         /\ c.op \in {"note_edit", "note_remove"} => c.id \in 1 .. MaxRows
         /\ c.op \in {"tag_add", "tag_remove"} => c.tag \in Tags
         /\ c.op = "filter" => c.criteria \subseteq Criteria
         /\ c.op # "none"
<1>1. CASE c \in [op : {"note_add"}, ref : Refs, body : Bodies]
  BY <1>1
<1>2. CASE c \in [op : {"note_edit"}, id : 1 .. MaxRows, body : Bodies]
  BY <1>2
<1>3. CASE c \in [op : {"note_remove"}, id : 1 .. MaxRows]
  BY <1>3
<1>4. CASE c \in [op : {"note_list"}, ref : Refs]
  BY <1>4
<1>5. CASE c \in [op : {"tag_add", "tag_remove"}, ref : Refs, tag : Tags]
  BY <1>5
<1>6. CASE c \in [op : {"star", "unstar"}, ref : Refs]
  BY <1>6
<1>7. CASE c \in [op : {"filter"}, criteria : (SUBSET Criteria) \ {{}}]
  BY <1>7
<1>8. QED
  BY <1>1, <1>2, <1>3, <1>4, <1>5, <1>6, <1>7 DEF Commands

\* What the command of a running process is given.
LEMMA OwnFields ==
  ASSUME TypeCommands, NEW p \in Procs
  PROVE  /\ cmd[p].op \in {"note_add", "note_list", "tag_add", "tag_remove", "star", "unstar"}
              => cmd[p].ref \in Refs
         /\ cmd[p].op \in {"note_add", "note_edit"} => cmd[p].body \in Bodies
         /\ cmd[p].op \in {"note_edit", "note_remove"} => cmd[p].id \in 1 .. MaxRows
         /\ cmd[p].op \in {"tag_add", "tag_remove"} => cmd[p].tag \in Tags
<1>1. cmd[p] \in Commands \cup {NoCommand}
  BY DEF TypeCommands
<1>2. CASE cmd[p] \in Commands
  BY <1>2, CommandFields
<1>3. CASE cmd[p] = NoCommand
  BY <1>3 DEF NoCommand
<1>4. QED
  BY <1>1, <1>2, <1>3

LEMMA TypesInit == Init => Types
<1> SUFFICES ASSUME Init PROVE Types
  OBVIOUS
<1>1. Cardinality(FirstNotes) \in Nat
  BY FS_CardinalityType, ConstantsAssumption
<1>2. Cardinality(FirstNotes) \in 0 .. MaxRows /\ \A n \in FirstNotes : n.id <= Cardinality(FirstNotes)
  <2>1. \A n \in FirstNotes : n.id \in 1 .. Cardinality(FirstNotes)
    BY ConstantsAssumption
  <2>2. \A i \in 1 .. Cardinality(FirstNotes) : i \in 1 .. MaxRows
    BY ConstantsAssumption DEF Notes
  <2>3. QED
    BY <1>1, <2>1, <2>2, Bounds
<1>3. TypeTables
  BY <1>2, Bounds, RefsTyped, ConstantsAssumption DEF Init, TypeTables
<1>4. TypeCommands
  BY Bounds, ConstantsAssumption DEF Init, TypeCommands, Steps
<1>5. TypeFilters /\ TypeUis
  BY DEF Init, TypeFilters, TypeUis
<1>6. QED
  BY <1>3, <1>4, <1>5 DEF Types

\* A change of the tables keeps the types of what it disturbs.
LEMMA ChangeTyped ==
  ASSUME Types, NEW N \in SUBSET Notes, NEW T \in SUBSET TagRows, NEW S \in SUBSET Refs, NEW known,
         Change(N, T, S, known)
  PROVE  TypeFilters' /\ settled' \in [Tuis -> SUBSET Sessions]
<1> DEFINE refs == {r.ref : r \in Differ(N, notes) \cup Differ(T, tags)} \cup Differ(S, stars)
<1>1. refs \subseteq Refs
  BY DEF Types, TypeTables, Differ, Notes, TagRows
<1>2. {Key(r) : r \in refs} \subseteq Keys
  BY <1>1, RefsTyped
<1>3. touched' \in [Procs -> SUBSET Keys]
  BY <1>2 DEF Change, Types, TypeFilters
<1>4. held' \in [Procs -> SUBSET Keys]
  BY DEF Change, Types, TypeFilters
<1>5. settled' \in [Tuis -> SUBSET Sessions]
  BY DEF Change, Types, TypeUis
<1>6. QED
  BY <1>3, <1>4, <1>5 DEF TypeFilters

(***************************************************************************)
(* The tables.                                                             *)
(***************************************************************************)
LEMMA NoteAddTables ==
  ASSUME Types, NEW p \in Procs, NoteAdd(p)
  PROVE  /\ TypeTables'
         /\ \E N \in SUBSET Notes : Change(N, tags, stars, {})
<1> DEFINE n == [id |-> lastNote + 1, ref |-> cmd[p].ref, body |-> cmd[p].body]
<1>1. n \in Notes
  BY OwnFields, Bounds DEF Types, TypeTables, TypeCommands, NoteAdd, First, Notes
<1>2. /\ notes' = notes \cup {n} /\ tags' = tags /\ stars' = stars
      /\ lastNote' = lastNote + 1 /\ lastTag' = lastTag /\ lastNote < MaxRows
      /\ Change(notes \cup {n}, tags, stars, {})
  BY DEF NoteAdd, Change
<1>3. n.id = lastNote + 1
  OBVIOUS
<1> HIDE DEF n
<1>4. QED
  BY <1>1, <1>2, <1>3, Bounds DEF Types, TypeTables, Notes

LEMMA NoteEditTables ==
  ASSUME Types, NEW p \in Procs, NoteEdit(p)
  PROVE  /\ TypeTables'
         /\ \E N \in SUBSET Notes : Change(N, tags, stars, {})
<1> DEFINE old == {n \in notes : n.id = cmd[p].id}
           new == {[n EXCEPT !.body = cmd[p].body] : n \in old}
<1>1. \A m \in new : m \in Notes /\ \E n \in old : m = [n EXCEPT !.body = cmd[p].body] /\ m.id = n.id
  BY OwnFields DEF Types, TypeTables, NoteEdit, First, Notes
<1>2. /\ notes' = (notes \ old) \cup new /\ tags' = tags /\ stars' = stars
      /\ UNCHANGED <<lastNote, lastTag>>
      /\ Change((notes \ old) \cup new, tags, stars, {})
  BY DEF NoteEdit, Change
<1>3. \A m, n \in notes' : m.id = n.id => m = n
  BY <1>1, <1>2 DEF Types, TypeTables
<1>4. QED
  BY <1>1, <1>2, <1>3 DEF Types, TypeTables

LEMMA TagAddTables ==
  ASSUME Types, NEW p \in Procs, TagAdd(p)
  PROVE  /\ TypeTables'
         /\ \/ \E T \in SUBSET TagRows : Change(notes, T, stars, {})
            \/ UNCHANGED <<tables, history>>
<1> DEFINE t == [id |-> lastTag + 1, ref |-> cmd[p].ref, tag |-> cmd[p].tag]
           attached == \E o \in tags : o.ref = t.ref /\ o.tag = t.tag
<1>1. CASE attached
  BY <1>1 DEF TagAdd, tables, Types, TypeTables
<1>2. CASE ~attached
  <2>1. t \in TagRows
    BY OwnFields, Bounds DEF Types, TypeTables, TypeCommands, TagAdd, First, TagRows
  <2>2. /\ notes' = notes /\ tags' = tags \cup {t} /\ stars' = stars
        /\ lastTag' = lastTag + 1 /\ lastNote' = lastNote /\ lastTag < MaxRows
        /\ Change(notes, tags \cup {t}, stars, {})
    BY <1>2 DEF TagAdd, Change
  <2>3. t.id = lastTag + 1 /\ \A o \in tags : ~(o.ref = t.ref /\ o.tag = t.tag)
    BY <1>2
  <2> HIDE DEF t
  <2>4. QED
    BY <2>1, <2>2, <2>3, Bounds DEF Types, TypeTables, TagRows
<1>3. QED
  BY <1>1, <1>2

LEMMA StarTables ==
  ASSUME Types, NEW N, NEW T, NEW S \in SUBSET Refs, NEW known, Change(N, T, S, known),
         N \subseteq notes, T \subseteq tags, UNCHANGED <<lastNote, lastTag>>
  PROVE  TypeTables'
BY DEF Types, TypeTables, Change

\* A step that changes the tables, and any other, which leaves them alone.
Changes ==
  \E N \in SUBSET Notes, T \in SUBSET TagRows, S \in SUBSET Refs, known \in SUBSET (Tuis \X Sessions) :
    Change(N, T, S, known)

LEMMA CommandTables ==
  ASSUME Types, NEW p \in Procs, Command(p)
  PROVE  /\ TypeTables'
         /\ \/ Changes /\ UNCHANGED <<memory, toggled>>
            \/ UNCHANGED <<tables, memory, toggled, held, touched, settled>>
            \/ (\E c \in Commands : Start(p, c)) \/ End(p) \/ Fail(p)
<1>1. CASE NoteAdd(p)
  BY <1>1, NoteAddTables DEF Changes, Types, TypeTables, NoteAdd, Quiet, tui
<1>2. CASE NoteEdit(p)
  BY <1>2, NoteEditTables DEF Changes, Types, TypeTables, NoteEdit, Quiet, tui
<1>3. CASE TagAdd(p)
  BY <1>3, TagAddTables DEF Changes, Types, TypeTables, history, TagAdd, Quiet, tui
<1>4. CASE StarAdd(p)
  <2>1. cmd[p].ref \in Refs
    BY <1>4, OwnFields DEF StarAdd, First, Types
  <2>2. /\ Change(notes, tags, stars \cup {cmd[p].ref}, {}) /\ UNCHANGED <<lastNote, lastTag>>
        /\ UNCHANGED <<memory, toggled>>
    BY <1>4 DEF StarAdd, Quiet, tui
  <2>3. stars \cup {cmd[p].ref} \in SUBSET Refs
    BY <2>1 DEF Types, TypeTables
  <2>4. QED
    BY <2>2, <2>3, StarTables DEF Changes, Types, TypeTables
<1>5. CASE Delete(p)
  <2>1. UNCHANGED <<memory, toggled>>
    BY <1>5 DEF Delete, Quiet, tui
  <2>2. PICK N \in SUBSET notes, T \in SUBSET tags, S \in SUBSET stars :
          Change(N, T, S, {}) /\ UNCHANGED <<lastNote, lastTag>>
    BY <1>5 DEF Delete
  <2>3. QED
    BY <2>1, <2>2, StarTables DEF Changes, Types, TypeTables
<1>6. CASE (\E c \in Commands : Start(p, c)) \/ End(p) \/ Fail(p)
  BY <1>6 DEF Start, End, Fail, tables, Types, TypeTables
<1>7. CASE NoteRemove(p) \/ NoteList(p) \/ TagRemove(p) \/ StarRemove(p) \/ Get(p) \/ Filter(p)
  BY <1>7 DEF NoteRemove, NoteList, TagRemove, StarRemove, Get, Filter, Same, Quiet, tables, tui,
              history, Types, TypeTables
<1>8. QED
  BY <1>1, <1>2, <1>3, <1>4, <1>5, <1>6, <1>7 DEF Command

LEMMA UiTables ==
  ASSUME Types, NEW t \in Tuis, Ui(t)
  PROVE  TypeTables' /\ (Changes \/ UNCHANGED <<tables, held, touched>>)
<1>1. CASE Open(t) \/ Load(t) \/ UiFail(t)
  BY <1>1 DEF Open, Load, UiFail, UiSame, tables, Types, TypeTables
<1>2. CASE \E s \in Sessions : Toggle(t, s) \/ Unstar(t, s) \/ GetStar(t, s)
  BY <1>2 DEF Toggle, Unstar, GetStar, UiSame, tables, Types, TypeTables
<1>3. ASSUME NEW s \in Sessions, DeleteStar(t, s)
      PROVE  TypeTables' /\ Changes
  <2>1. Change(notes, tags, stars \ {LocalRef(s)}, {<<t, s>>}) /\ UNCHANGED <<lastNote, lastTag>>
    BY <1>3 DEF DeleteStar
  <2>2. stars \ {LocalRef(s)} \in SUBSET Refs /\ {<<t, s>>} \in SUBSET (Tuis \X Sessions)
    BY DEF Types, TypeTables
  <2>3. QED
    BY <2>1, <2>2, StarTables DEF Changes, Types, TypeTables
<1>4. ASSUME NEW s \in Sessions, Star(t, s)
      PROVE  TypeTables' /\ Changes
  <2>1. Change(notes, tags, stars \cup {LocalRef(s)}, {}) /\ UNCHANGED <<lastNote, lastTag>>
    BY <1>4 DEF Star
  <2>2. stars \cup {LocalRef(s)} \in SUBSET Refs
    BY RefsTyped DEF Types, TypeTables
  <2>3. QED
    BY <2>1, <2>2, StarTables DEF Changes, Types, TypeTables
<1>5. QED
  BY <1>1, <1>2, <1>3, <1>4 DEF Ui

(***************************************************************************)
(* The other parts.                                                        *)
(***************************************************************************)
LEMMA CommandsStep ==
  ASSUME Types, Next
  PROVE  TypeCommands'
<1>1. ASSUME NEW p \in Procs, NEW c \in Commands, Start(p, c)
      PROVE  TypeCommands'
  <2>1. pc' \in [Users -> Steps] /\ cmd' \in [Procs -> Commands \cup {NoCommand}]
    BY <1>1 DEF Start, Types, TypeCommands, Steps
  <2>2. todo' \in [Procs -> SUBSET Criteria] /\ allowed' \in [Procs -> SUBSET Keys]
    BY <1>1, CommandFields DEF Start, Types, TypeCommands
  <2>3. runs' \in 0 .. MaxRuns
    BY <1>1, Bounds DEF Start, Run, Types, TypeCommands
  <2>4. QED
    BY <1>1, <2>1, <2>2, <2>3 DEF Start, Types, TypeCommands
<1>2. ASSUME NEW p \in Procs, End(p) \/ Fail(p)
      PROVE  TypeCommands'
  BY <1>2, Bounds DEF End, Fail, Types, TypeCommands, Steps
<1>3. ASSUME NEW p \in Procs, NoteAdd(p)
      PROVE  TypeCommands'
  <2>1. lastNote + 1 \in 1 .. MaxRows
    BY <1>3, Bounds DEF NoteAdd, Types, TypeTables
  <2>2. row' = [row EXCEPT ![p] = {lastNote + 1}]
    BY <1>3 DEF NoteAdd
  <2>3. row' \in [Procs -> SUBSET (1 .. MaxRows)]
    BY <2>1, <2>2 DEF Types, TypeCommands
  <2>4. QED
    BY <1>3, <2>3 DEF NoteAdd, To, Quiet, Types, TypeCommands, Steps
<1>4. ASSUME NEW p \in Procs, NoteEdit(p)
      PROVE  TypeCommands'
  <2>1. cmd[p].id \in 1 .. MaxRows
    BY <1>4, OwnFields DEF NoteEdit, First, Types
  <2>2. QED
    BY <1>4, <2>1 DEF NoteEdit, To, Quiet, Types, TypeCommands, Steps
<1>5. ASSUME NEW p \in Procs, NoteRemove(p)
      PROVE  TypeCommands'
  <2>1. {n.id : n \in {m \in notes : m.id = cmd[p].id}} \in SUBSET (1 .. MaxRows)
    BY DEF Types, TypeTables, Notes
  <2>2. row' \in [Procs -> SUBSET (1 .. MaxRows)]
    BY <1>5, <2>1 DEF NoteRemove, Types, TypeCommands
  <2>3. QED
    BY <1>5, <2>2 DEF NoteRemove, To, Quiet, Types, TypeCommands, Steps
<1>6. ASSUME NEW p \in Procs, TagAdd(p)
      PROVE  TypeCommands'
  BY <1>6, Bounds DEF TagAdd, To, Quiet, Types, TypeCommands, TypeTables, Steps
<1>7. ASSUME NEW p \in Procs, TagRemove(p)
      PROVE  TypeCommands'
  <2>1. {t.id : t \in {o \in tags : o.ref = cmd[p].ref /\ o.tag = cmd[p].tag}} \in SUBSET (1 .. MaxRows)
    BY DEF Types, TypeTables, TagRows
  <2>2. row' \in [Procs -> SUBSET (1 .. MaxRows)]
    BY <1>7, <2>1 DEF TagRemove, Types, TypeCommands
  <2>3. QED
    BY <1>7, <2>2 DEF TagRemove, To, Quiet, Types, TypeCommands, Steps
<1>8. ASSUME NEW p \in Procs, StarAdd(p) \/ StarRemove(p) \/ Delete(p) \/ Get(p)
      PROVE  TypeCommands'
  BY <1>8 DEF StarAdd, StarRemove, Delete, Get, To, Quiet, Types, TypeCommands, Steps
<1>9. ASSUME NEW p \in Procs, NoteList(p)
      PROVE  TypeCommands'
  BY <1>9 DEF NoteList, To, Same, Types, TypeCommands, TypeTables, Steps
<1>10. ASSUME NEW p \in Procs, Filter(p)
       PROVE  TypeCommands'
  BY <1>10 DEF Filter, To, Same, Types, TypeCommands, Steps
<1>11. ASSUME NEW t \in Tuis, Ui(t)
       PROVE  TypeCommands'
  <2>1. CASE Open(t) \/ Load(t) \/ UiFail(t)
    BY <2>1, Bounds DEF Open, Load, UiFail, Run, To, UiSame, cli, Types, TypeCommands, Steps
  <2>2. CASE \E s \in Sessions : Toggle(t, s) \/ Unstar(t, s) \/ GetStar(t, s)
    BY <2>2, Bounds DEF Toggle, Unstar, GetStar, Stored, Run, To, UiSame, cli, Types, TypeCommands, Steps
  <2>3. CASE \E s \in Sessions : DeleteStar(t, s) \/ Star(t, s)
    BY <2>3 DEF DeleteStar, Star, To, cli, Types, TypeCommands, Steps
  <2>4. QED
    BY <1>11, <2>1, <2>2, <2>3 DEF Ui
<1>12. QED
  BY <1>1, <1>2, <1>3, <1>4, <1>5, <1>6, <1>7, <1>8, <1>9, <1>10, <1>11 DEF Next, Command

LEMMA FiltersStep ==
  ASSUME Types, Next
  PROVE  TypeFilters'
<1>1. CASE Changes
  BY <1>1, ChangeTyped DEF Changes
<1>2. ASSUME NEW p \in Procs, NEW c \in Commands, Start(p, c)
      PROVE  TypeFilters'
  BY <1>2 DEF Start, Types, TypeFilters
<1>3. ASSUME NEW p \in Procs, End(p) \/ Fail(p)
      PROVE  TypeFilters'
  BY <1>3 DEF End, Fail, Types, TypeFilters
<1>4. CASE UNCHANGED <<held, touched>>
  BY <1>4 DEF Types, TypeFilters
<1>5. QED
  BY <1>1, <1>2, <1>3, <1>4, CommandTables, UiTables DEF Next

LEMMA UisStep ==
  ASSUME Types, Next
  PROVE  TypeUis'
<1>1. CASE Changes /\ UNCHANGED <<memory, toggled>>
  BY <1>1, ChangeTyped DEF Changes, Types, TypeUis
<1>2. ASSUME NEW p \in Procs, (\E c \in Commands : Start(p, c)) \/ End(p) \/ Fail(p)
      PROVE  TypeUis'
  BY <1>2 DEF Start, End, Fail, tui, Types, TypeUis
<1>3. CASE UNCHANGED <<memory, toggled, settled>>
  BY <1>3 DEF Types, TypeUis
<1>4. ASSUME NEW t \in Tuis, Ui(t)
      PROVE  TypeUis'
  <2>1. CASE Open(t) \/ Load(t) \/ UiFail(t)
    BY <2>1 DEF Open, Load, UiFail, tui, Types, TypeUis
  <2>2. CASE \E s \in Sessions : Toggle(t, s) \/ Unstar(t, s) \/ GetStar(t, s)
    BY <2>2 DEF Toggle, Unstar, GetStar, Stored, Types, TypeUis
  <2>3. ASSUME NEW s \in Sessions, DeleteStar(t, s) \/ Star(t, s)
        PROVE  TypeUis'
    <3>2. \A S : Change(notes, tags, S, {}) \/ Change(notes, tags, S, {<<t, s>>})
                  => settled' \in [Tuis -> SUBSET Sessions]
      BY DEF Change, Types, TypeUis
    <3>3. settled' \in [Tuis -> SUBSET Sessions]
      BY <2>3, <3>2 DEF DeleteStar, Star
    <3>4. QED
      BY <2>3, <3>3 DEF DeleteStar, Star, tui, Types, TypeUis
  <2>4. QED
    BY <1>4, <2>1, <2>2, <2>3 DEF Ui
<1>5. QED
  BY <1>1, <1>2, <1>3, <1>4, CommandTables DEF Next

LEMMA TypesStep == Types /\ [Next]_vars => Types'
<1> SUFFICES ASSUME Types, [Next]_vars PROVE Types'
  OBVIOUS
<1>1. CASE Next
  BY <1>1, CommandTables, UiTables, CommandsStep, FiltersStep, UisStep DEF Types, Next
<1>2. CASE UNCHANGED vars
  BY <1>2 DEF vars, tables, cli, tui, history, Types, TypeTables, TypeCommands, TypeFilters, TypeUis
<1>3. QED
  BY <1>1, <1>2

\* For any number of users, sessions and rows every variable keeps its type, ids are
\* unique and a tag is attached to a ref once.
THEOREM TypeCorrect == Spec => []TypeOK
<1>1. Types => TypeOK
  BY DEF Types, TypeTables, TypeCommands, TypeFilters, TypeUis, TypeOK
<1>2. QED
  BY <1>1, TypesInit, TypesStep, PTL DEF Spec

(***************************************************************************)
(* Stars.  Also while a toggle runs, memory and table agree on what is     *)
(* settled; the one session being toggled has left the memory.             *)
(***************************************************************************)
StarsOf(t) ==
  /\ \A s \in settled[t] : s \in memory[t] <=> LocalRef(s) \in stars
  /\ \A s \in toggled[t] : s \notin memory[t]
  /\ \A r, s \in toggled[t] : r = s
  /\ pc[t] \in {"idle", "load"} => toggled[t] = {}
StarInv == \A t \in Tuis : StarsOf(t)

\* Whoever changes the table, only untouched sessions and the toggled one stay settled.
LEMMA ChangeSettled ==
  ASSUME Types, NEW N, NEW T, NEW S, NEW known, Change(N, T, S, known), NEW t \in Tuis
  PROVE  /\ stars' = S
         /\ \A s \in settled'[t] :
              (s \in settled[t] /\ (LocalRef(s) \in S <=> LocalRef(s) \in stars)) \/ <<t, s>> \in known
BY DEF Change, Differ, Types, TypeUis

\* What somebody else does leaves a UI's stars in order.
LEMMA OthersStars ==
  ASSUME Types, NEW t \in Tuis, StarsOf(t), pc'[t] = pc[t],
         memory'[t] = memory[t], toggled'[t] = toggled[t],
         \/ stars' = stars /\ settled'[t] = settled[t]
         \/ \E N, T, S, known : Change(N, T, S, known) /\ \A s : <<t, s>> \notin known
  PROVE  StarsOf(t)'
<1>1. ASSUME NEW s \in settled'[t]
      PROVE  s \in memory'[t] <=> LocalRef(s) \in stars'
  <2>1. s \in settled[t] /\ (LocalRef(s) \in stars' <=> LocalRef(s) \in stars)
    BY <1>1, ChangeSettled
  <2>2. s \in memory[t] <=> LocalRef(s) \in stars
    BY <2>1 DEF StarsOf
  <2>3. QED
    BY <2>1, <2>2
<1>2. QED
  BY <1>1 DEF StarsOf, LocalRef

LEMMA StarInvInit == Init => StarInv
BY DEF Init, StarInv, StarsOf

\* What changes the places of commands leaves those of UIs, and the reverse.
LEMMA Apart == \A p \in Procs, t \in Tuis : p # t /\ p \in Users /\ t \in Users
BY ConstantsAssumption DEF Users

LEMMA CommandStars ==
  ASSUME Types, StarInv, NEW p \in Procs, Command(p), NEW t \in Tuis
  PROVE  StarsOf(t)'
<1>1. StarsOf(t) /\ p # t /\ p \in Users /\ t \in Users
  BY Apart DEF StarInv
<1>2. pc'[t] = pc[t]
  BY <1>1 DEF Command, Start, End, Fail, NoteAdd, NoteEdit, NoteRemove, NoteList, TagAdd, TagRemove,
              StarAdd, StarRemove, Delete, Get, Filter, To, Types, TypeCommands
<1>3. CASE NoteAdd(p) \/ NoteEdit(p) \/ StarAdd(p) \/ Delete(p)
  <2>1. UNCHANGED <<memory, toggled>> /\ \E N, T, S : Change(N, T, S, {})
    BY <1>3 DEF NoteAdd, NoteEdit, StarAdd, Delete, Quiet, tui
  <2>2. QED
    BY <1>1, <1>2, <2>1, OthersStars
<1>4. CASE TagAdd(p)
  <2>1. /\ UNCHANGED <<memory, toggled>>
        /\ \/ UNCHANGED <<stars, settled>>
           \/ \E N, T, S : Change(N, T, S, {})
    BY <1>4 DEF TagAdd, Quiet, tui, tables, history
  <2>2. QED
    BY <1>1, <1>2, <2>1, OthersStars
<1>5. CASE \/ (\E c \in Commands : Start(p, c)) \/ End(p) \/ Fail(p)
           \/ NoteRemove(p) \/ NoteList(p) \/ TagRemove(p) \/ StarRemove(p) \/ Get(p) \/ Filter(p)
  <2>1. UNCHANGED <<stars, memory, toggled, settled>>
    BY <1>5 DEF Start, End, Fail, NoteRemove, NoteList, TagRemove, StarRemove, Get, Filter, Same,
                Quiet, tables, tui, history
  <2>2. QED
    BY <1>1, <1>2, <2>1, OthersStars
<1>6. QED
  BY <1>3, <1>4, <1>5 DEF Command

LEMMA UiStars ==
  ASSUME Types, StarInv, NEW t \in Tuis, Ui(t)
  PROVE  StarsOf(t)'
<1>1. StarsOf(t) /\ t \in Users
  BY DEF StarInv, Users
<1>2. CASE Open(t) \/ UiFail(t)
  BY <1>1, <1>2 DEF Open, UiFail, To, tables, tui, StarsOf, Types, TypeUis, TypeCommands
<1>3. CASE Load(t)
  BY <1>1, <1>3 DEF Load, To, tables, StarsOf, Types, TypeUis, TypeCommands
<1>4. ASSUME NEW s \in Sessions, Toggle(t, s)
      PROVE  StarsOf(t)'
  BY <1>1, <1>4 DEF Toggle, To, tables, StarsOf, Types, TypeUis, TypeCommands
<1>5. ASSUME NEW s \in Sessions, Unstar(t, s)
      PROVE  StarsOf(t)'
  BY <1>1, <1>5 DEF Unstar, Stored, To, tables, StarsOf, Types, TypeUis, TypeCommands
<1>6. ASSUME NEW s \in Sessions, DeleteStar(t, s)
      PROVE  StarsOf(t)'
  <2>1. /\ Change(notes, tags, stars \ {LocalRef(s)}, {<<t, s>>}) /\ s \in toggled[t]
        /\ memory' = memory /\ toggled' = [toggled EXCEPT ![t] = {}]
    BY <1>6 DEF DeleteStar
  <2>2. PICK known : known = {<<t, s>>} /\ Change(notes, tags, stars \ {LocalRef(s)}, known)
    BY <2>1
  <2>3. \A r : <<t, r>> \in known => r = s
    BY <2>2
  <2>4. PICK S : S = stars \ {LocalRef(s)} /\ Change(notes, tags, S, known)
    BY <2>2
  <2>5. /\ stars' = S
        /\ \A r \in settled'[t] : r = s \/ (r \in settled[t] /\ (LocalRef(r) \in stars' <=> LocalRef(r) \in stars))
    BY <2>3, <2>4, ChangeSettled
  <2>6. s \notin memory[t] /\ \A r \in settled[t] : r \in memory[t] <=> LocalRef(r) \in stars
    BY <1>1, <2>1 DEF StarsOf
  <2>7. toggled'[t] = {} /\ memory'[t] = memory[t]
    BY <2>1 DEF Types, TypeUis
  <2>8. \A r \in settled'[t] : r \in memory'[t] <=> LocalRef(r) \in stars'
    <3>1. LocalRef(s) \notin stars'
      BY <2>4, <2>5
    <3>2. QED
      BY <2>6, <2>7, <2>5, <3>1
  <2>9. QED
    BY <2>7, <2>8 DEF StarsOf
<1>7. ASSUME NEW s \in Sessions, Star(t, s)
      PROVE  StarsOf(t)'
  <2>1. /\ Change(notes, tags, stars \cup {LocalRef(s)}, {}) /\ UNCHANGED <<memory, toggled>>
        /\ pc[t] = "star" /\ pc'[t] = "get_star"
    BY <1>1, <1>7 DEF Star, tui, To, Types, TypeCommands
  <2>2. \A r \in settled'[t] : r \in settled[t] /\ (LocalRef(r) \in stars' <=> LocalRef(r) \in stars)
    <3>1. PICK S, known : Change(notes, tags, S, known) /\ \A r : <<t, r>> \notin known
      BY <2>1
    <3>2. QED
      BY <3>1, ChangeSettled
  <2>3. \A r \in settled'[t] : r \in memory'[t] <=> LocalRef(r) \in stars'
    BY <1>1, <2>1, <2>2 DEF StarsOf
  <2>4. QED
    BY <1>1, <2>1, <2>3 DEF StarsOf
<1>8. ASSUME NEW s \in Sessions, GetStar(t, s)
      PROVE  StarsOf(t)'
  BY <1>1, <1>8 DEF GetStar, Stored, To, tables, StarsOf, Types, TypeUis, TypeCommands
<1>9. QED
  BY <1>2, <1>3, <1>4, <1>5, <1>6, <1>7, <1>8 DEF Ui

LEMMA OtherUiStars ==
  ASSUME Types, StarInv, NEW t \in Tuis, Ui(t), NEW u \in Tuis, u # t
  PROVE  StarsOf(u)'
<1>1. StarsOf(u) /\ t \in Users /\ u \in Users
  BY DEF StarInv, Users
<1>2. pc'[u] = pc[u] /\ memory'[u] = memory[u] /\ toggled'[u] = toggled[u]
  BY <1>1 DEF Ui, Open, Load, UiFail, Toggle, Unstar, DeleteStar, Star, GetStar, Stored, To, tui,
              Types, TypeCommands, TypeUis
<1>3. \/ stars' = stars /\ settled'[u] = settled[u]
      \/ \E N, T, S, known : Change(N, T, S, known) /\ \A s : <<u, s>> \notin known
  <2>1. CASE Open(t) \/ Load(t) \/ UiFail(t)
    BY <2>1 DEF Open, Load, UiFail, tables, tui, Types, TypeUis
  <2>2. CASE \E s \in Sessions : Toggle(t, s) \/ Unstar(t, s) \/ GetStar(t, s)
    BY <2>2 DEF Toggle, Unstar, GetStar, Stored, tables, Types, TypeUis
  <2>3. ASSUME NEW s \in Sessions, DeleteStar(t, s)
        PROVE  \E N, T, S, known : Change(N, T, S, known) /\ \A r : <<u, r>> \notin known
    <3>1. \A r : <<u, r>> \notin {<<t, s>>}
      OBVIOUS
    <3>2. Change(notes, tags, stars \ {LocalRef(s)}, {<<t, s>>})
      BY <2>3 DEF DeleteStar
    <3>3. QED
      BY <3>1, <3>2
  <2>4. ASSUME NEW s \in Sessions, Star(t, s)
        PROVE  \E N, T, S, known : Change(N, T, S, known) /\ \A r : <<u, r>> \notin known
    <3>1. Change(notes, tags, stars \cup {LocalRef(s)}, {})
      BY <2>4 DEF Star
    <3>2. QED
      BY <3>1
  <2>5. QED
    BY <2>1, <2>2, <2>3, <2>4 DEF Ui
<1>4. QED
  BY <1>1, <1>2, <1>3, OthersStars

LEMMA StarInvStep == Types /\ StarInv /\ [Next]_vars => StarInv'
<1> SUFFICES ASSUME Types, StarInv, [Next]_vars PROVE StarInv'
  OBVIOUS
<1>1. CASE UNCHANGED vars
  BY <1>1 DEF vars, tables, tui, history, StarInv, StarsOf, LocalRef
<1>2. CASE Next
  BY <1>2, CommandStars, UiStars, OtherUiStars DEF Next, StarInv
<1>3. QED
  BY <1>1, <1>2

\* However many processes and UIs star and unstar, a UI's stars are those stored, except
\* where others interfered or a toggle failed.
THEOREM StarsCorrect == Spec => []StarsWrittenThrough
<1>1. StarInv => StarsWrittenThrough
  BY DEF StarInv, StarsOf, StarsWrittenThrough
<1>2. QED
  BY <1>1, TypesInit, TypesStep, StarInvInit, StarInvStep, PTL DEF Spec

(***************************************************************************)
(* Listings.  No note with a listed id has another ref, because new notes  *)
(* get ids behind all that were ever listed.                               *)
(***************************************************************************)
ListedOf(p) ==
  /\ \A m \in shown[p] : m.id <= lastNote
  /\ \A m \in shown[p], n \in notes : m.id = n.id => m.ref = n.ref
  /\ cmd[p].op \in {"note_edit", "note_remove"} => \E m \in shown[p] : m.id = cmd[p].id
ListedInv == \A p \in Procs : ListedOf(p)

LEMMA ListedInit == Init => ListedInv
<1> SUFFICES ASSUME Init PROVE ListedInv
  OBVIOUS
<1>1. TypeTables
  BY TypesInit DEF Types
<1>2. \A p \in Procs : shown[p] = notes /\ cmd[p].op = "none"
  BY DEF Init, NoCommand
<1>3. QED
  BY <1>1, <1>2 DEF ListedInv, ListedOf, TypeTables

\* What is in the table after a step is new, or was there under the same ref.
LEMMA NotesStep ==
  ASSUME Types, Next
  PROVE  /\ lastNote' \in Nat /\ lastNote <= lastNote'
         /\ \A n \in notes' : n.id > lastNote \/ \E m \in notes : m.id = n.id /\ m.ref = n.ref
<1>1. lastNote \in Nat
  BY Bounds DEF Types, TypeTables
<1>2. CASE \E p \in Procs : NoteAdd(p)
  <2>1. PICK n : notes' = notes \cup {n} /\ n.id = lastNote + 1 /\ lastNote' = lastNote + 1
    BY <1>2 DEF NoteAdd, Change
  <2>2. QED
    BY <1>1, <2>1
<1>3. CASE \E p \in Procs : NoteEdit(p)
  <2>1. PICK p \in Procs : NoteEdit(p)
    BY <1>3
  <2>2. /\ notes' = (notes \ {n \in notes : n.id = cmd[p].id})
                    \cup {[n EXCEPT !.body = cmd[p].body] : n \in {m \in notes : m.id = cmd[p].id}}
        /\ lastNote' = lastNote
    BY <2>1 DEF NoteEdit, Change
  <2>3. ASSUME NEW n \in notes'
        PROVE  \E m \in notes : m.id = n.id /\ m.ref = n.ref
    <3>1. CASE n \in notes
      BY <3>1
    <3>2. ASSUME NEW m \in notes, n = [m EXCEPT !.body = cmd[p].body]
          PROVE  m.id = n.id /\ m.ref = n.ref
      BY <3>2 DEF Types, TypeTables, Notes
    <3>3. QED
      BY <2>2, <3>1, <3>2
  <2>4. QED
    BY <1>1, <2>2, <2>3
<1>4. CASE notes' \subseteq notes /\ lastNote' = lastNote
  BY <1>1, <1>4
<1>5. ASSUME NEW p \in Procs, Command(p), ~NoteAdd(p), ~NoteEdit(p)
      PROVE  notes' \subseteq notes /\ lastNote' = lastNote
  BY <1>5 DEF Command, Start, NoteRemove, NoteList, TagAdd, TagRemove, StarAdd, StarRemove, Delete, Get,
              Filter, End, Fail, Same, Change, tables, history
<1>6. ASSUME NEW t \in Tuis, Ui(t)
      PROVE  notes' \subseteq notes /\ lastNote' = lastNote
  BY <1>6 DEF Ui, Open, Load, UiFail, Toggle, Unstar, DeleteStar, Star, GetStar, Change, tables
<1>7. QED
  BY <1>2, <1>3, <1>4, <1>5, <1>6 DEF Next

\* A listing stays in order while its owner neither lists nor starts a command.
LEMMA ListedKept ==
  ASSUME Types, Next, NEW p \in Procs, ListedOf(p), shown'[p] = shown[p],
         cmd'[p] = cmd[p] \/ cmd'[p] = NoCommand
  PROVE  ListedOf(p)'
<1>1. /\ lastNote \in Nat /\ shown[p] \subseteq Notes /\ \A m \in shown[p] : m.id \in Nat
  BY Bounds DEF Types, TypeTables, TypeCommands, Notes
<1>2. \A m \in shown[p] : m.id <= lastNote'
  BY <1>1, NotesStep DEF ListedOf
<1>3. \A n \in notes' : n.id \in Nat
  BY CommandTables, UiTables DEF Next, TypeTables, Notes
<1>4. \A m \in shown[p], n \in notes' : m.id = n.id => m.ref = n.ref
  BY <1>1, <1>3, NotesStep DEF ListedOf
<1>5. QED
  BY <1>2, <1>4 DEF ListedOf, NoCommand

LEMMA ListedStep == Types /\ ListedInv /\ [Next]_vars => ListedInv'
<1> SUFFICES ASSUME Types, ListedInv, [Next]_vars PROVE ListedInv'
  OBVIOUS
<1>1. CASE UNCHANGED vars
  BY <1>1 DEF vars, tables, cli, ListedInv, ListedOf
<1>2. ASSUME Next, NEW p \in Procs, Command(p), NEW q \in Procs
      PROVE  ListedOf(q)'
  <2>1. CASE q # p \/ ~((\E c \in Commands : Start(p, c)) \/ NoteList(p))
    <3>1. shown'[q] = shown[q] /\ (cmd'[q] = cmd[q] \/ cmd'[q] = NoCommand)
      BY <1>2, <2>1 DEF Command, Start, End, Fail, NoteAdd, NoteEdit, NoteRemove, NoteList, TagAdd,
           TagRemove, StarAdd, StarRemove, Delete, Get, Filter, Quiet, Types, TypeCommands
    <3>2. QED
      BY <1>2, <3>1, ListedKept DEF ListedInv
  <2>2. ASSUME NEW c \in Commands, Start(q, c)
        PROVE  ListedOf(q)'
    <3>1. /\ notes' = notes /\ lastNote' = lastNote /\ shown' = shown /\ cmd'[q] = c
          /\ c.op \in {"note_edit", "note_remove"} => \E m \in shown[q] : m.id = c.id
      BY <2>2 DEF Start, tables, Types, TypeCommands
    <3>2. QED
      BY <3>1 DEF ListedInv, ListedOf
  <2>3. CASE NoteList(q)
    <3>1. /\ notes' = notes /\ lastNote' = lastNote /\ shown'[q] \subseteq notes /\ cmd' = cmd
          /\ cmd[q].op = "note_list"
      BY <2>3 DEF NoteList, First, Same, tables, Types, TypeCommands
    <3>2. QED
      BY <3>1 DEF ListedOf, Types, TypeTables
  <2>4. QED
    BY <1>2, <2>1, <2>2, <2>3
<1>3. ASSUME Next, NEW t \in Tuis, Ui(t), NEW q \in Procs
      PROVE  ListedOf(q)'
  <2>1. shown' = shown /\ cmd' = cmd
    BY <1>3 DEF Ui, Open, Load, UiFail, Toggle, Unstar, DeleteStar, Star, GetStar, UiSame, cli
  <2>2. QED
    BY <1>3, <2>1, ListedKept DEF ListedInv
<1>4. QED
  BY <1>1, <1>2, <1>3 DEF Next, ListedInv

\* Whatever others add, edit and remove, an edit or removal hits the listed note or none.
THEOREM EditsCorrect == Spec => []EditsHitTheListedNote
<1>1. Types /\ ListedInv => EditsHitTheListedNote
  BY DEF ListedInv, ListedOf, EditsHitTheListedNote
<1>2. QED
  BY <1>1, TypesInit, TypesStep, ListedInit, ListedStep, PTL DEF Spec

(***************************************************************************)
(* Filters.  While a filter runs, what it held to be met by all criteria   *)
(* and was not touched since is still met by all of them, and by none      *)
(* else untouched; what it let through so far meets the criteria it read.  *)
(***************************************************************************)
MetNow(k, c) == Met(k, c, notes, tags, stars)
Running(p) == pc[p] = "filter"

FilterOf(p) ==
  /\ Running(p) => cmd[p].op = "filter"
  /\ cmd[p].op = "filter" => pc[p] \in {"filter", "done"}
  /\ Running(p) =>
       /\ todo[p] \subseteq cmd[p].criteria /\ cmd[p].criteria \subseteq Criteria
       /\ held[p] \subseteq allowed[p]
       /\ \A k \in held[p], c \in cmd[p].criteria : MetNow(k, c)
       /\ \A k \in Keys : k \in held[p] \/ k \in touched[p] \/ \E c \in cmd[p].criteria : ~MetNow(k, c)
       /\ \A k \in allowed[p] : k \in touched[p] \/ \A c \in cmd[p].criteria \ todo[p] : MetNow(k, c)
  /\ pc[p] = "done" /\ cmd[p].op = "filter" =>
       held[p] \subseteq allowed[p] /\ allowed[p] \subseteq held[p] \cup touched[p]
FilterInv == \A p \in Procs : FilterOf(p)

\* The keys a statement gives are those that meet its criterion.
LEMMA MeetsMet == \A c \in Criteria, k \in Keys : k \in Meets(c) <=> MetNow(k, c)
<1>1. \A k : k \in Meets("note") <=> MetNow(k, "note")
  BY DEF Meets, KeysOf, MetNow, Met
<1>2. \A k : k \in Meets("tag") <=> MetNow(k, "tag")
  BY DEF Meets, KeysOf, MetNow, Met
<1>3. \A k : k \in Meets("starred") <=> MetNow(k, "starred")
  BY DEF Meets, KeysOf, MetNow, Met
<1>4. QED
  BY <1>1, <1>2, <1>3 DEF Criteria

\* What a change does not touch meets what it met before.
LEMMA ChangeMet ==
  ASSUME Types, NEW N, NEW T, NEW S, NEW known, Change(N, T, S, known), NEW p \in Procs, Running(p)
  PROVE  /\ touched[p] \subseteq touched'[p]
         /\ \A k \in Keys : k \in touched'[p] \/ \A c : Met(k, c, N, T, S) <=> MetNow(k, c)
         /\ held'[p] = {k \in held[p] : \A c \in cmd[p].criteria : Met(k, c, N, T, S)}
         /\ notes' = N /\ tags' = T /\ stars' = S
<1> DEFINE refs == {r.ref : r \in Differ(N, notes) \cup Differ(T, tags)} \cup Differ(S, stars)
<1>1. /\ touched'[p] = touched[p] \cup {Key(r) : r \in refs}
      /\ held'[p] = {k \in held[p] : \A c \in cmd[p].criteria : Met(k, c, N, T, S)}
      /\ notes' = N /\ tags' = T /\ stars' = S
  BY DEF Change, Running, Types, TypeFilters
<1>2. ASSUME NEW k \in Keys, k \notin {Key(r) : r \in refs}, NEW c
      PROVE  Met(k, c, N, T, S) <=> MetNow(k, c)
  <2>1. \A n : Key(n.ref) = k => (n \in N <=> n \in notes)
    BY <1>2 DEF Differ
  <2>2. \A t : Key(t.ref) = k => (t \in T <=> t \in tags)
    BY <1>2 DEF Differ
  <2>3. \A r : Key(r) = k => (r \in S <=> r \in stars)
    BY <1>2 DEF Differ
  <2>4. QED
    BY <2>1, <2>2, <2>3 DEF Met, MetNow
<1>3. QED
  BY <1>1, <1>2

\* A filter stays in order while others act, whatever they change.
LEMMA FilterKept ==
  ASSUME Types, NEW p \in Procs, FilterOf(p), pc'[p] = pc[p], cmd'[p] = cmd[p], todo'[p] = todo[p],
         allowed'[p] = allowed[p], Changes \/ UNCHANGED <<tables, held, touched>>
         \/ (UNCHANGED tables /\ held'[p] = held[p] /\ touched'[p] = touched[p])
  PROVE  FilterOf(p)'
<1>1. CASE UNCHANGED tables /\ held'[p] = held[p] /\ touched'[p] = touched[p]
  BY <1>1 DEF tables, FilterOf, Running, MetNow
<1>2. ASSUME NEW N, NEW T, NEW S, NEW known, Change(N, T, S, known), ~Running(p)
      PROVE  FilterOf(p)'
  <2>1. held'[p] = held[p] /\ touched'[p] = touched[p]
    BY <1>2 DEF Change, Running, Types, TypeFilters
  <2>2. QED
    BY <1>2, <2>1 DEF FilterOf, Running
<1>3. ASSUME NEW N, NEW T, NEW S, NEW known, Change(N, T, S, known), Running(p)
      PROVE  FilterOf(p)'
  <2>1. /\ touched[p] \subseteq touched'[p]
        /\ \A k \in Keys : k \in touched'[p] \/ \A c : MetNow(k, c)' <=> MetNow(k, c)
        /\ held'[p] = {k \in held[p] : \A c \in cmd[p].criteria : MetNow(k, c)'}
    BY <1>3, ChangeMet DEF MetNow
  <2>2. allowed[p] \subseteq Keys
    BY DEF Types, TypeCommands
  <2>3. held'[p] \subseteq allowed'[p] /\ \A k \in held'[p], c \in cmd'[p].criteria : MetNow(k, c)'
    BY <1>3, <2>1 DEF FilterOf
  <2>4. \A k \in Keys : k \in held'[p] \/ k \in touched'[p] \/ \E c \in cmd'[p].criteria : ~MetNow(k, c)'
    BY <1>3, <2>1 DEF FilterOf
  <2>5. \A k \in allowed'[p] : k \in touched'[p] \/ \A c \in cmd'[p].criteria \ todo'[p] : MetNow(k, c)'
    BY <1>3, <2>1, <2>2 DEF FilterOf
  <2>6. QED
    BY <1>3, <2>3, <2>4, <2>5 DEF FilterOf, Running
<1>4. QED
  BY <1>1, <1>2, <1>3 DEF Changes

LEMMA FilterInit == Init => FilterInv
<1> SUFFICES ASSUME Init, NEW p \in Procs PROVE FilterOf(p)
  BY DEF FilterInv
<1>1. pc[p] = "idle" /\ cmd[p].op = "none"
  BY DEF Init, Users, NoCommand
<1>2. QED
  BY <1>1 DEF FilterOf, Running

LEMMA FilterStarts ==
  ASSUME Types, NEW p \in Procs, NEW c \in Commands, Start(p, c)
  PROVE  FilterOf(p)'
<1>1. /\ cmd'[p] = c /\ pc'[p] = IF c.op = "filter" THEN "filter" ELSE "first"
      /\ UNCHANGED tables
  BY DEF Start, Users, Types, TypeCommands
<1>2. CASE c.op # "filter"
  BY <1>1, <1>2 DEF FilterOf, Running
<1>3. CASE c.op = "filter"
  <2>1. /\ todo'[p] = c.criteria /\ allowed'[p] = Keys /\ touched'[p] = {}
        /\ held'[p] = {k \in Keys : \A d \in c.criteria : MetNow(k, d)}
    BY <1>3 DEF Start, MetNow, Types, TypeCommands, TypeFilters
  <2>2. c.criteria \subseteq Criteria
    BY <1>3, CommandFields
  <2>3. \A k, d : MetNow(k, d)' <=> MetNow(k, d)
    BY <1>1 DEF tables, MetNow
  <2>4. QED
    BY <1>1, <1>3, <2>1, <2>2, <2>3 DEF FilterOf, Running
<1>4. QED
  BY <1>2, <1>3

LEMMA FilterReads ==
  ASSUME Types, NEW p \in Procs, FilterOf(p), Filter(p)
  PROVE  FilterOf(p)'
<1>1. PICK c \in todo[p] : /\ allowed' = [allowed EXCEPT ![p] = @ \cap Meets(c)]
                           /\ todo' = [todo EXCEPT ![p] = @ \ {c}]
  BY DEF Filter
<1>2. /\ allowed'[p] = allowed[p] \cap Meets(c) /\ todo'[p] = todo[p] \ {c}
      /\ pc'[p] = IF todo'[p] = {} THEN "done" ELSE "filter"
      /\ Running(p) /\ cmd' = cmd /\ held' = held /\ touched' = touched
      /\ \A k, d : MetNow(k, d)' <=> MetNow(k, d)
  BY <1>1 DEF Filter, To, Same, tables, history, MetNow, Running, Users, Types, TypeCommands
<1>3. c \in Criteria /\ c \in cmd[p].criteria /\ cmd[p].op = "filter"
  BY <1>1, <1>2 DEF FilterOf
<1>4. held[p] \subseteq Keys /\ allowed[p] \subseteq Keys
  BY DEF Types, TypeCommands, TypeFilters
<1>5. held[p] \subseteq allowed'[p]
  BY <1>2, <1>3, <1>4, MeetsMet DEF FilterOf
<1>6. \A k \in allowed'[p] : k \in touched[p] \/ \A d \in cmd[p].criteria \ todo'[p] : MetNow(k, d)
  BY <1>2, <1>3, <1>4, MeetsMet DEF FilterOf
<1>7. CASE todo'[p] = {}
  <2>1. allowed'[p] \subseteq held[p] \cup touched[p]
    BY <1>2, <1>4, <1>6, <1>7 DEF FilterOf
  <2>2. QED
    BY <1>2, <1>3, <1>5, <1>7, <2>1 DEF FilterOf, Running
<1>8. CASE todo'[p] # {}
  BY <1>2, <1>3, <1>5, <1>6, <1>8 DEF FilterOf, Running
<1>9. QED
  BY <1>7, <1>8

\* Every other step of a process is of a command that is no filter, or ends it.
LEMMA FilterOwn ==
  ASSUME Types, NEW p \in Procs, FilterOf(p), Command(p), ~Filter(p),
         ~\E c \in Commands : Start(p, c)
  PROVE  FilterOf(p)'
<1>1. p \in Users
  BY DEF Users
<1>2. CASE End(p) \/ Fail(p)
  <2>1. cmd'[p] = NoCommand /\ pc'[p] = "idle"
    BY <1>1, <1>2 DEF End, Fail, Types, TypeCommands
  <2>2. QED
    BY <2>1 DEF FilterOf, Running, NoCommand
<1>3. CASE ~(End(p) \/ Fail(p))
  <2>1. pc[p] \in {"first", "get", "delete"} /\ cmd' = cmd
    BY <1>3 DEF Command, NoteAdd, NoteEdit, NoteRemove, NoteList, TagAdd, TagRemove, StarAdd,
                StarRemove, Delete, Get, First, Quiet
  <2>2. pc'[p] \in {"get", "delete", "done"}
    BY <1>1, <1>3 DEF Command, NoteAdd, NoteEdit, NoteRemove, NoteList, TagAdd, TagRemove, StarAdd,
                StarRemove, Delete, Get, To, Types, TypeCommands
  <2>3. QED
    BY <2>1, <2>2 DEF FilterOf, Running
<1>4. QED
  BY <1>2, <1>3

LEMMA FilterStep == Types /\ FilterInv /\ [Next]_vars => FilterInv'
<1> SUFFICES ASSUME Types, FilterInv, [Next]_vars PROVE FilterInv'
  OBVIOUS
<1>1. CASE UNCHANGED vars
  BY <1>1 DEF vars, tables, cli, history, FilterInv, FilterOf, Running, MetNow
<1>2. ASSUME NEW p \in Procs, Command(p)
      PROVE  FilterOf(p)'
  BY <1>2, FilterStarts, FilterReads, FilterOwn DEF FilterInv
<1>3. ASSUME NEW p \in Procs, Command(p), NEW q \in Procs, q # p
      PROVE  FilterOf(q)'
  <2>1. p \in Users /\ q \in Users
    BY DEF Users
  <2>2. pc'[q] = pc[q] /\ cmd'[q] = cmd[q] /\ todo'[q] = todo[q] /\ allowed'[q] = allowed[q]
    BY <1>3, <2>1 DEF Command, Start, End, Fail, NoteAdd, NoteEdit, NoteRemove, NoteList, TagAdd, TagRemove,
        StarAdd, StarRemove, Delete, Get, Filter, Quiet, To, Types, TypeCommands
  <2>3. CASE (\E c \in Commands : Start(p, c)) \/ End(p) \/ Fail(p)
    <3>1. UNCHANGED tables /\ held'[q] = held[q] /\ touched'[q] = touched[q]
      BY <1>3, <2>3 DEF Start, End, Fail, Types, TypeFilters
    <3>2. QED
      BY <2>2, <3>1, FilterKept DEF FilterInv
  <2>4. QED
    BY <1>3, <2>2, <2>3, CommandTables, FilterKept DEF FilterInv
<1>4. ASSUME NEW t \in Tuis, Ui(t), NEW q \in Procs
      PROVE  FilterOf(q)'
  <2>1. q \in Users /\ t \in Users /\ q # t
    BY Apart
  <2>2. pc'[q] = pc[q] /\ UNCHANGED cli
    BY <1>4, <2>1 DEF Ui, Open, Load, UiFail, Toggle, Unstar, DeleteStar, Star, GetStar, Stored, UiSame, To,
        Types, TypeCommands
  <2>3. QED
    BY <1>4, <2>2, UiTables, FilterKept DEF FilterInv, cli
<1>5. QED
  BY <1>1, <1>2, <1>3, <1>4 DEF Next, FilterInv

\* However annotations change between a filter's statements, it hides no session that met
\* its criteria throughout and lets no other untouched one through.
THEOREM FiltersCorrect == Spec => []FilterSound
<1>1. FilterInv => FilterSound
  BY DEF FilterInv, FilterOf, FilterSound
<1>2. QED
  BY <1>1, TypesInit, TypesStep, FilterInit, FilterStep, PTL DEF Spec
=============================================================================
