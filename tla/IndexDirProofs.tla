--------------------------- MODULE IndexDirProofs ---------------------------
(***************************************************************************)
(* Proofs about IndexDir for any number of processes, providers, sessions  *)
(* and messages: the manifest never outlives the documents, strangers and  *)
(* live vectors survive, no download without consent, and an uninstall that*)
(* nothing disturbs can be run again unless it dies emptying the directory.*)
(***************************************************************************)
EXTENDS IndexDir, TLAPS

Texts == 0 .. MaxText

(***************************************************************************)
(* Typing, in two parts: what everybody shares and what each process has.  *)
(***************************************************************************)
TypeShared ==
  /\ dir \subseteq Entries /\ form \in [Formed -> Forms]
  /\ docs \subseteq Sessions /\ listed \subseteq Sessions
  /\ vec \in [Messages -> Texts] /\ text \in [Messages -> Texts]
  /\ unreadable \subseteq Sessions /\ broken \subseteq Providers
  /\ changes \in 0 .. MaxChanges /\ runs \in 0 .. MaxRuns
  /\ installed \subseteq {"binary", "marker", "config"}
  /\ accepted \in BOOLEAN /\ disturbed \in BOOLEAN

TypeRuns ==
  /\ pc \in [Procs -> Steps]
  /\ cmd \in [Procs -> Commands \cup {NoCommand}]
  /\ found \in [Procs -> SUBSET Sessions]
  /\ mem \in [Procs -> [Messages -> Texts]]
  /\ live \in [Procs -> SUBSET Messages]
  /\ todo \in [Procs -> SUBSET (Entries \cup Sessions)]
  /\ skipped \in [Procs -> BOOLEAN]

TypeFlags == flagged \in [Procs -> SUBSET Formed] /\ lone \in [Procs -> BOOLEAN]

Types == TypeShared /\ TypeRuns /\ TypeFlags

LEMMA Bounds == MaxText \in Nat /\ MaxChanges \in Nat /\ MaxRuns \in Nat /\ 0 \in Texts /\ NoVectors \in [Messages -> Texts]
BY ConstantsAssumption DEF Texts, NoVectors

LEMMA TypesInit == Init => Types
<1> SUFFICES ASSUME Init PROVE Types
  OBVIOUS
<1>1. text \in [Messages -> Texts] /\ vec \in [Messages -> Texts]
  BY ConstantsAssumption, Bounds DEF Init, Texts
<1>2. TypeShared
  <2>1. accepted \in BOOLEAN /\ disturbed \in BOOLEAN
    BY DEF Init, Good
  <2>2. dir \subseteq Entries
    BY ConstantsAssumption DEF Init
  <2>3. QED
    BY <1>1, <2>1, <2>2, Bounds DEF Init, TypeShared
<1>3. TypeRuns
  BY Bounds DEF Init, TypeRuns, Steps
<1>4. TypeFlags
  BY DEF Init, TypeFlags
<1>5. QED
  BY <1>2, <1>3, <1>4 DEF Types

LEMMA LeaveTyped ==
  ASSUME Types, NEW p \in Procs, Leave(p)
  PROVE  TypeRuns' /\ TypeFlags'
<1>1. TypeRuns'
  BY Bounds DEF Leave, Types, TypeRuns, Steps
<1>2. flagged' \in [Procs -> SUBSET Formed]
  BY DEF Leave, Types, TypeFlags
<1>3. lone' \in [Procs -> BOOLEAN]
  BY Zenon DEF Leave, Types, TypeFlags
<1>4. QED
  BY <1>1, <1>2, <1>3 DEF TypeFlags

LEMMA RemoveTyped ==
  ASSUME Types, NEW f, Remove(f)
  PROVE  /\ dir' \subseteq Entries /\ form' \in [Formed -> Forms]
         /\ docs' \subseteq Sessions /\ listed' \subseteq Sessions /\ vec' \in [Messages -> Texts]
BY Bounds DEF Remove, Types, TypeShared, Forms

LEMMA RefuseTyped ==
  ASSUME Types, NEW p \in Procs, Refuse(p), disturbed' = disturbed \/ disturbed' = TRUE
  PROVE  Types'
<1>1. TypeRuns' /\ TypeFlags'
  BY LeaveTyped DEF Refuse
<1>2. TypeShared'
  BY DEF Refuse, world, index, Types, TypeShared
<1>3. QED
  BY <1>1, <1>2 DEF Types

LEMMA EnvironmentTyped ==
  ASSUME Types, Environment
  PROVE  Types'
<1>1. changes' \in 0 .. MaxChanges /\ runs' \in 0 .. MaxRuns
  BY Bounds DEF Environment, EditText, ChangeAccess, UserFile, DeleteSidecar, Change, Types, TypeShared
<1>2. TypeRuns'
  BY DEF Environment, EditText, ChangeAccess, UserFile, DeleteSidecar, run, Types, TypeRuns
<1>3. TypeFlags'
  <2>1. NobodyLone
    BY DEF Environment, EditText, ChangeAccess, UserFile, DeleteSidecar
  <2>2. QED
    BY <2>1 DEF NobodyLone, TypeFlags
<1>4. ASSUME NEW m \in Messages, EditText(m)
      PROVE  TypeShared'
  <2>1. text' \in [Messages -> Texts]
    BY <1>4 DEF EditText, Types, TypeShared, Texts
  <2>2. QED
    BY <1>1, <1>4, <2>1 DEF EditText, index, Types, TypeShared
<1>5. CASE ChangeAccess
  <2>1. unreadable' \subseteq Sessions /\ broken' \subseteq Providers
    BY <1>5 DEF ChangeAccess, Flip, Types, TypeShared
  <2>2. UNCHANGED <<dir, form, docs, listed, vec, text, installed, accepted, disturbed>>
    BY <1>5 DEF ChangeAccess, index
  <2>3. accepted' \in BOOLEAN /\ disturbed' \in BOOLEAN
    BY <2>2, Zenon DEF Types, TypeShared
  <2>4. QED
    BY <1>1, <1>2, <1>3, <2>1, <2>2, <2>3 DEF Types, TypeShared
<1>6. CASE UserFile
  <2>1. dir' \subseteq Entries
    BY <1>6 DEF UserFile, Flip, Types, TypeShared, Entries, Unknown
  <2>2. UNCHANGED <<form, docs, listed, vec, text, unreadable, broken, installed, accepted, disturbed>>
    BY <1>6 DEF UserFile, index
  <2>3. accepted' \in BOOLEAN /\ disturbed' \in BOOLEAN
    BY <2>2, Zenon DEF Types, TypeShared
  <2>4. QED
    BY <1>1, <1>2, <1>3, <2>1, <2>2, <2>3 DEF Types, TypeShared
<1>7. CASE DeleteSidecar
  <2>1. PICK f : Remove(f)
    BY <1>7 DEF DeleteSidecar
  <2>2. UNCHANGED <<text, unreadable, broken, installed, accepted, disturbed>>
    BY <1>7 DEF DeleteSidecar
  <2>3. accepted' \in BOOLEAN /\ disturbed' \in BOOLEAN
    BY <2>2, Zenon DEF Types, TypeShared
  <2>4. /\ dir' \subseteq Entries /\ form' \in [Formed -> Forms]
        /\ docs' \subseteq Sessions /\ listed' \subseteq Sessions /\ vec' \in [Messages -> Texts]
    BY <2>1, RemoveTyped
  <2>5. QED
    BY <1>1, <1>2, <1>3, <2>2, <2>3, <2>4 DEF Types, TypeShared
<1>8. QED
  BY <1>2, <1>3, <1>4, <1>5, <1>6, <1>7 DEF Environment, Types

LEMMA StartTyped ==
  ASSUME Types, NEW p \in Procs, NEW c \in Commands, Start(p, c)
  PROVE  Types'
<1>1. FirstStep(c.kind) \in Steps
  BY ConstantsAssumption DEF Start, FirstStep, IndexCommands, OtherCommands, Command, Steps
<1>2. TypeRuns'
  BY <1>1 DEF Start, Discovered, Types, TypeRuns
<1>3. runs' \in 0 .. MaxRuns
  BY Bounds DEF Start, Types, TypeShared
<1>4. disturbed' \in BOOLEAN
  BY DEF Start
<1>5. TypeShared'
  BY <1>3, <1>4 DEF Start, index, Types, TypeShared
<1>6. flagged' \in [Procs -> SUBSET Formed]
  BY DEF Start
<1>7. lone' \in [Procs -> BOOLEAN]
  BY Zenon DEF Start
<1>8. QED
  BY <1>2, <1>5, <1>6, <1>7 DEF Types, TypeFlags

\* What most steps leave alone, and the files that others put in order.
LEMMA SameTyped ==
  ASSUME Types, Same
  PROVE  /\ text' \in [Messages -> Texts] /\ unreadable' \subseteq Sessions /\ broken' \subseteq Providers
         /\ changes' \in 0 .. MaxChanges /\ runs' \in 0 .. MaxRuns
         /\ installed' \subseteq {"binary", "marker", "config"} /\ accepted' \in BOOLEAN
         /\ TypeFlags'
BY DEF Same, world, Types, TypeShared, TypeFlags

LEMMA GoTyped ==
  ASSUME Types, NEW p \in Procs, NEW step \in Steps, Go(p, step)
  PROVE  pc' \in [Procs -> Steps]
BY DEF Go, Types, TypeRuns

LEMMA OpenTyped ==
  ASSUME Types, NEW p \in Procs, Open(p)
  PROVE  Types'
<1>1. CASE Refuse(p) /\ UNCHANGED disturbed
  BY <1>1, RefuseTyped
<1>2. ASSUME \/ Go(p, "create") /\ todo' = todo
             \/ Go(p, "reset") /\ todo' = [todo EXCEPT ![p] = ResetList],
             UNCHANGED <<dir, form, docs, listed, vec, cmd, found, mem, live, skipped, disturbed>>,
             Same
      PROVE  Types'
  <2>1. pc' \in [Procs -> Steps]
    BY <1>2, GoTyped DEF Steps
  <2>2. todo' \in [Procs -> SUBSET (Entries \cup Sessions)]
    BY <1>2 DEF ResetList, Types, TypeRuns, TypeShared
  <2>3. TypeRuns'
    BY <1>2, <2>1, <2>2 DEF Types, TypeRuns
  <2>4. TypeShared'
    BY <1>2, SameTyped DEF Types, TypeShared
  <2>5. QED
    BY <1>2, <2>3, <2>4, SameTyped DEF Types
<1>3. QED
  BY <1>1, <1>2 DEF Open, index, run

LEMMA ResetTyped ==
  ASSUME Types, NEW p \in Procs, ResetFile(p) \/ ResetDone(p)
  PROVE  Types'
<1>1. disturbed' \in BOOLEAN
  BY DEF ResetFile, ResetDone, Types, TypeShared
<1>2. ASSUME NEW f \in todo[p], Remove(f), todo' = [todo EXCEPT ![p] = todo[p] \ {f}],
             UNCHANGED <<pc, cmd, found, mem, live, skipped>>, Same
      PROVE  Types'
  <2>1. TypeRuns'
    BY <1>2 DEF Types, TypeRuns
  <2>2. TypeShared'
    BY <1>1, <1>2, RemoveTyped, SameTyped DEF TypeShared
  <2>3. QED
    BY <1>2, <2>1, <2>2, SameTyped DEF Types
<1>3. CASE Refuse(p)
  <2>1. TypeRuns' /\ TypeFlags'
    BY <1>3, LeaveTyped DEF Refuse
  <2>2. TypeShared'
    BY <1>1, <1>3 DEF Refuse, world, index, Types, TypeShared
  <2>3. QED
    BY <2>1, <2>2 DEF Types
<1>4. CASE ResetDone(p)
  <2>1. TypeRuns'
    BY <1>4, GoTyped DEF ResetDone, run, Steps, Types, TypeRuns
  <2>2. TypeShared'
    BY <1>1, <1>4, SameTyped DEF ResetDone, index, Types, TypeShared
  <2>3. QED
    BY <1>4, <2>1, <2>2, SameTyped DEF ResetDone, Types
<1>5. QED
  BY <1>2, <1>3, <1>4 DEF ResetFile

\* A step that goes on, leaves the process's variables alone and keeps the files typed.
LEMMA GoingTyped ==
  ASSUME Types, NEW p \in Procs, NEW step \in Steps, Go(p, step), UNCHANGED <<run, disturbed>>,
         dir' \subseteq Entries, form' \in [Formed -> Forms], docs' \subseteq Sessions,
         listed' \subseteq Sessions, vec' \in [Messages -> Texts],
         UNCHANGED <<world, flagged, lone>>, accepted' \in BOOLEAN,
         installed' \subseteq installed
  PROVE  Types'
<1>1. TypeRuns'
  BY GoTyped DEF run, Types, TypeRuns
<1>2. TypeShared'
  BY DEF world, Types, TypeShared
<1>3. TypeFlags'
  BY DEF Types, TypeFlags
<1>4. QED
  BY <1>1, <1>2, <1>3 DEF Types

LEMMA CreateTyped ==
  ASSUME Types, NEW p \in Procs, Create(p) \/ WriteSentinel(p) \/ Build(p)
  PROVE  Types'
<1>1. CASE Refuse(p) /\ UNCHANGED disturbed
  BY <1>1, RefuseTyped
<1>2. CASE Create(p) /\ ~(Refuse(p) /\ UNCHANGED disturbed)
  <2>1. /\ Go(p, "sentinel") /\ UNCHANGED <<form, listed, vec, run, disturbed>> /\ Same
        /\ dir' \subseteq Entries /\ docs' \subseteq Sessions
    BY <1>2 DEF Create, index, Types, TypeShared, Entries, Managed
  <2>2. QED
    BY <2>1, SameTyped, GoingTyped DEF Steps, Same, Types, TypeShared
<1>3. CASE WriteSentinel(p)
  <2>1. /\ Go(p, "build") /\ UNCHANGED <<form, docs, listed, vec, run, disturbed>> /\ Same
        /\ dir' \subseteq Entries
    BY <1>3 DEF WriteSentinel, index, Types, TypeShared, Entries, Managed
  <2>2. QED
    BY <2>1, SameTyped, GoingTyped DEF Steps, Same, Types, TypeShared
<1>4. CASE Build(p) /\ ~(Refuse(p) /\ UNCHANGED disturbed)
  <2>1. /\ Go(p, "consent") \/ Go(p, "query")
        /\ UNCHANGED <<vec, run, disturbed>> /\ Same
        /\ dir' = dir \cup {"manifest"} /\ form' = [form EXCEPT !["manifest"] = "good"]
    BY <1>4 DEF Build
  <2>2. docs' \subseteq Sessions /\ listed' \subseteq Sessions
    BY <1>4 DEF Build, Types, TypeShared, TypeRuns
  <2>3. dir' \subseteq Entries /\ form' \in [Formed -> Forms]
    BY <2>1 DEF Types, TypeShared, Entries, Managed, Formed, Forms
  <2>4. QED
    BY <2>1, <2>2, <2>3, SameTyped, GoingTyped DEF Steps, Same, Types, TypeShared
<1>5. QED
  BY <1>1, <1>2, <1>3, <1>4

LEMMA ConsentTyped ==
  ASSUME Types, NEW p \in Procs, Consent(p) \/ ConsentUnreadable(p)
  PROVE  Types'
<1>1. CASE ConsentUnreadable(p)
  BY <1>1, RefuseTyped DEF ConsentUnreadable
<1>2. CASE Consent(p)
  <2>1. UNCHANGED <<docs, listed, vec, world, installed, run, disturbed, flagged, lone>>
    BY <1>2 DEF Consent, index
  <2>2. Go(p, "store") \/ Go(p, "done")
    BY <1>2 DEF Consent
  <2>3. dir' \subseteq Entries /\ form' \in [Formed -> Forms]
    BY <1>2, ZenonT(60) DEF Consent, Types, TypeShared, Entries, Managed, Formed, Forms
  <2>4. accepted' \in BOOLEAN
    BY <1>2, Zenon DEF Consent, Types, TypeShared
  <2>5. QED
    BY <2>1, <2>2, <2>3, <2>4, GoingTyped DEF Steps, Types, TypeShared
<1>3. QED
  BY <1>1, <1>2

LEMMA StoreTyped ==
  ASSUME Types, NEW p \in Procs, OpenStore(p) \/ StoreCorrupt(p)
  PROVE  Types'
<1>1. CASE StoreCorrupt(p)
  BY <1>1, RefuseTyped DEF StoreCorrupt
<1>2. CASE OpenStore(p)
  <2>1. /\ dir' \subseteq Entries /\ form' \in [Formed -> Forms] /\ vec' \in [Messages -> Texts]
        /\ docs' \subseteq Sessions /\ listed' \subseteq Sessions
    BY <1>2, Bounds DEF OpenStore, Remove, index, Types, TypeShared, Forms, Formed
  <2>2. TypeRuns'
    BY <1>2, GoTyped, SMTT(30) DEF OpenStore, Steps, Types, TypeRuns, TypeShared
  <2>3. Same /\ UNCHANGED disturbed
    BY <1>2 DEF OpenStore
  <2>4. TypeShared'
    BY <2>1, <2>3, SameTyped DEF Types, TypeShared
  <2>5. QED
    BY <2>2, <2>3, <2>4, SameTyped DEF Types
<1>3. QED
  BY <1>1, <1>2

LEMMA EmbedTyped ==
  ASSUME Types, NEW p \in Procs, Embed(p) \/ EmbedderFails(p)
  PROVE  Types'
<1>1. CASE EmbedderFails(p)
  <2>1. TypeRuns' /\ TypeFlags'
    BY <1>1, LeaveTyped DEF EmbedderFails
  <2>2. dir' \subseteq Entries
    BY <1>1 DEF EmbedderFails, Types, TypeShared, Entries
  <2>3. UNCHANGED <<form, docs, listed, vec, world, installed, accepted, disturbed>>
    BY <1>1 DEF EmbedderFails, index
  <2>4. TypeShared'
    BY <2>2, <2>3 DEF world, Types, TypeShared
  <2>5. QED
    BY <2>1, <2>4 DEF Types
<1>2. CASE Embed(p)
  <2>1. PICK s : /\ todo' = [todo EXCEPT ![p] = @ \ {s}]
                 /\ UNCHANGED <<form, docs, listed, vec, pc, cmd, found, disturbed>>
                 /\ Same
    BY <1>2 DEF Embed, index
  <2>2. dir' \subseteq Entries
    BY <1>2 DEF Embed, Types, TypeShared, Entries
  <2>3. live' \in [Procs -> SUBSET Messages]
    BY <1>2 DEF Embed, Types, TypeRuns, MessagesOf
  <2>4. mem' \in [Procs -> [Messages -> Texts]]
    <3>1. \/ UNCHANGED mem
          \/ \E embedded : mem' = [mem EXCEPT ![p] = [m \in Messages |->
                              IF m \in embedded THEN text[m] ELSE mem[p][m]]]
      BY <1>2, Zenon DEF Embed
    <3>2. ASSUME NEW embedded
          PROVE  [m \in Messages |-> IF m \in embedded THEN text[m] ELSE mem[p][m]]
                   \in [Messages -> Texts]
      BY DEF Types, TypeRuns, TypeShared
    <3>3. UNCHANGED mem \/ \E M \in [Messages -> Texts] : mem' = [mem EXCEPT ![p] = M]
      BY <3>1, <3>2
    <3>4. QED
      BY <3>3 DEF Types, TypeRuns
  <2>5. skipped' \in [Procs -> BOOLEAN]
    <3>1. skipped' = skipped \/ skipped' = [skipped EXCEPT ![p] = TRUE]
      BY <1>2, Zenon DEF Embed
    <3>2. QED
      BY <3>1, Zenon DEF Types, TypeRuns
  <2>6. todo' \in [Procs -> SUBSET (Entries \cup Sessions)]
    BY <2>1 DEF Types, TypeRuns
  <2>7. TypeRuns'
    BY <2>1, <2>3, <2>4, <2>5, <2>6 DEF Types, TypeRuns
  <2>8. TypeShared'
    BY <2>1, <2>2, SameTyped DEF Types, TypeShared
  <2>9. QED
    BY <2>1, <2>7, <2>8, SameTyped DEF Types
<1>3. QED
  BY <1>1, <1>2

LEMMA PassTyped ==
  ASSUME Types, NEW p \in Procs, Flush(p) \/ Query(p) \/ Probe(p) \/ Unprobe(p)
  PROVE  Types'
<1>1. UNCHANGED <<docs, listed, run, disturbed>> /\ Same
  BY DEF Flush, Query, Probe, Unprobe, index
<1>2. Go(p, "done") \/ Go(p, "unprobe")
  BY DEF Flush, Query, Probe, Unprobe
<1>3. dir' \subseteq dir \cup {"vectors", "models"}
  BY DEF Flush, Query, Probe, Unprobe
<1>4. form' = form \/ form' = [form EXCEPT !["vectors"] = "good"]
  BY DEF Flush, Query, Probe, Unprobe
<1>5. dir' \subseteq Entries /\ form' \in [Formed -> Forms]
  BY <1>3, <1>4 DEF Types, TypeShared, Entries, Managed, Formed, Forms
<1>6. vec' \in [Messages -> Texts]
  BY Bounds DEF Flush, Query, Probe, Unprobe, Types, TypeShared, TypeRuns
<1>7. QED
  BY <1>1, <1>2, <1>5, <1>6, SameTyped, GoingTyped DEF Steps, Same, Types, TypeShared

LEMMA UninstallTyped ==
  ASSUME Types, NEW p \in Procs,
         CheckDir(p) \/ CheckFails(p) \/ RemoveEntry(p) \/ RemoveConfig(p) \/ RemoveProgram(p)
  PROVE  Types'
<1>1. CASE CheckFails(p)
  BY <1>1, RefuseTyped DEF CheckFails
<1>2. CASE CheckDir(p)
  <2>1. UNCHANGED <<dir, form, docs, listed, vec, cmd, found, mem, live, skipped, disturbed>> /\ Same
    BY <1>2 DEF CheckDir, index
  <2>2. pc' \in [Procs -> Steps]
    BY <1>2, GoTyped DEF CheckDir, Steps
  <2>3. todo' \in [Procs -> SUBSET (Entries \cup Sessions)]
    BY <1>2 DEF CheckDir, Types, TypeRuns, TypeShared
  <2>4. TypeRuns'
    BY <2>1, <2>2, <2>3 DEF Types, TypeRuns
  <2>5. TypeShared'
    BY <2>1, SameTyped DEF Types, TypeShared
  <2>6. QED
    BY <2>1, <2>4, <2>5, SameTyped DEF Types
<1>3. CASE RemoveEntry(p)
  <2>1. /\ dir' \subseteq Entries /\ form' \in [Formed -> Forms]
        /\ docs' \subseteq Sessions /\ listed' \subseteq Sessions /\ vec' \in [Messages -> Texts]
    BY <1>3, RemoveTyped DEF RemoveEntry, index, Types, TypeShared
  <2>2. pc' \in [Procs -> Steps]
    BY <1>3, GoTyped DEF RemoveEntry, Steps, Types, TypeRuns
  <2>3. UNCHANGED run /\ Same /\ disturbed' \in BOOLEAN
    BY <1>3 DEF RemoveEntry, Types, TypeShared
  <2>4. TypeRuns'
    BY <2>2, <2>3 DEF run, Types, TypeRuns
  <2>5. TypeShared'
    BY <2>1, <2>3, SameTyped DEF TypeShared
  <2>6. QED
    BY <2>3, <2>4, <2>5, SameTyped DEF Types
<1>4. CASE RemoveConfig(p) \/ RemoveProgram(p)
  <2>1. /\ UNCHANGED <<dir, form, docs, listed, vec, world, run, accepted, disturbed, flagged, lone>>
        /\ Go(p, "marker") \/ Go(p, "binary") \/ Go(p, "done")
        /\ installed' \subseteq installed
    BY <1>4 DEF RemoveConfig, RemoveProgram, index, history
  <2>2. QED
    BY <2>1, GoingTyped DEF Steps, Types, TypeShared
<1>5. QED
  BY <1>1, <1>2, <1>3, <1>4

LEMMA LeavingTyped ==
  ASSUME Types, NEW p \in Procs, End(p) \/ Die(p)
  PROVE  Types'
<1>1. TypeRuns' /\ TypeFlags'
  BY LeaveTyped DEF End, Die
<1>2. /\ changes' \in 0 .. MaxChanges /\ runs' \in 0 .. MaxRuns
      /\ UNCHANGED <<form, docs, listed, vec, text, unreadable, broken, installed, accepted>>
  BY Bounds DEF End, Die, Change, world, index, Types, TypeShared
<1>3. dir' \subseteq Entries
  BY DEF End, Die, Types, TypeShared, Entries, Unknown
<1>4. disturbed' \in BOOLEAN
  BY DEF End, Die, Types, TypeShared
<1>5. accepted' \in BOOLEAN
  BY <1>2, Zenon DEF Types, TypeShared
<1>6. TypeShared'
  BY <1>2, <1>3, <1>4, <1>5 DEF Types, TypeShared
<1>7. QED
  BY <1>1, <1>6 DEF Types

LEMMA TypesStep == Types /\ [Next]_vars => Types'
<1> SUFFICES ASSUME Types, [Next]_vars PROVE Types'
  OBVIOUS
<1>1. CASE UNCHANGED vars
  BY <1>1 DEF vars, Types, TypeShared, TypeRuns, TypeFlags
<1>2. CASE Environment
  BY <1>2, EnvironmentTyped
<1>3. ASSUME NEW p \in Procs, Process(p)
      PROVE  Types'
  BY <1>3, StartTyped, OpenTyped, ResetTyped, CreateTyped, ConsentTyped, StoreTyped, EmbedTyped,
     PassTyped, UninstallTyped, LeavingTyped DEF Process
<1>4. QED
  BY <1>1, <1>2, <1>3 DEF Next

\* Every variable holds a value of its kind, in every reachable state.
THEOREM TypeCorrect == Spec => []TypeOK
<1>1. Spec => []Types
  BY TypesInit, TypesStep, PTL DEF Spec
<1>2. Types => TypeOK
  BY DEF Types, TypeShared, TypeRuns, TypeFlags, TypeOK, Texts
<1>3. QED
  BY <1>1, <1>2, PTL

(***************************************************************************)
(* What a step of one process leaves to the others.                        *)
(***************************************************************************)
Own(p) ==
  \A q \in Procs \ {p} :
    /\ pc'[q] = pc[q] /\ cmd'[q] = cmd[q] /\ found'[q] = found[q] /\ mem'[q] = mem[q]
    /\ live'[q] = live[q] /\ todo'[q] = todo[q] /\ skipped'[q] = skipped[q]

LEMMA LeaveOwn ==
  ASSUME Types, NEW p \in Procs, Leave(p)
  PROVE  Own(p) /\ pc'[p] = "idle" /\ lone'[p] = FALSE
<1>1. Own(p) /\ pc'[p] = "idle"
  BY DEF Own, Leave, Types, TypeRuns
<1>2. lone'[p] = FALSE
  BY Zenon DEF Leave, Types, TypeFlags
<1>3. QED
  BY <1>1, <1>2

LEMMA GoOwn ==
  ASSUME Types, NEW p \in Procs, NEW step, Go(p, step)
  PROVE  pc'[p] = step /\ \A q \in Procs \ {p} : pc'[q] = pc[q]
BY DEF Go, Types, TypeRuns

LEMMA ProcessOwn ==
  ASSUME Types, NEW p \in Procs, Process(p)
  PROVE  Own(p)
<1>1. ASSUME Leave(p) PROVE Own(p)
  BY <1>1, LeaveOwn
<1>2. ASSUME NEW step, Go(p, step), UNCHANGED run PROVE Own(p)
  BY <1>2, GoOwn DEF Own, run
<1>3. ASSUME NEW c \in Commands, Start(p, c) PROVE Own(p)
  BY <1>3 DEF Own, Start, Types, TypeRuns
<1>4. ASSUME Open(p) \/ ResetFile(p) PROVE Own(p)
  BY <1>1, <1>2, <1>4, GoOwn DEF Own, Open, ResetFile, Refuse, run, Types, TypeRuns
<1>5. ASSUME OpenStore(p) PROVE Own(p)
  BY <1>5, GoOwn DEF Own, OpenStore, Types, TypeRuns
<1>6. ASSUME Embed(p) PROVE Own(p)
  <2>1. UNCHANGED <<pc, cmd, found>> /\ \A q \in Procs \ {p} : todo'[q] = todo[q]
    BY <1>6 DEF Embed, Types, TypeRuns
  <2>2. \A q \in Procs \ {p} : live'[q] = live[q] /\ skipped'[q] = skipped[q]
    BY <1>6 DEF Embed, Types, TypeRuns
  <2>3. \A q \in Procs \ {p} : mem'[q] = mem[q]
    <3>1. UNCHANGED mem \/ \E M : mem' = [mem EXCEPT ![p] = M]
      BY <1>6, Zenon DEF Embed
    <3>2. QED
      BY <3>1 DEF Types, TypeRuns
  <2>4. QED
    BY <2>1, <2>2, <2>3 DEF Own
<1>7. ASSUME CheckDir(p) PROVE Own(p)
  BY <1>7, GoOwn DEF Own, CheckDir, Types, TypeRuns
<1>8. ASSUME RemoveEntry(p) PROVE Own(p)
  BY <1>8, GoOwn DEF Own, RemoveEntry, run
<1>9. QED
  BY <1>1, <1>2, <1>3, <1>4, <1>5, <1>6, <1>7, <1>8 DEF Process, ResetDone, Create, WriteSentinel,
     Build, Consent, ConsentUnreadable, StoreCorrupt, EmbedderFails, Flush, Query, Probe, Unprobe,
     CheckFails, RemoveConfig, RemoveProgram, End, Die, Refuse

\* The world outside leaves the processes alone.
LEMMA EnvironmentFrame ==
  ASSUME Types, Environment
  PROVE  /\ UNCHANGED <<run, pc, installed, accepted, disturbed>> /\ changes' # changes
         /\ dir' \subseteq dir \cup {"stranger"}
         /\ \A p \in Procs : lone'[p] = FALSE
<1>1. UNCHANGED <<run, pc, installed, accepted, disturbed>> /\ NobodyLone
  BY DEF Environment, EditText, ChangeAccess, UserFile, DeleteSidecar
<1>2. changes' # changes
  BY Bounds DEF Environment, EditText, ChangeAccess, UserFile, DeleteSidecar, Change, Types, TypeShared
<1>3. dir' \subseteq dir \cup {"stranger"}
  BY DEF Environment, EditText, ChangeAccess, UserFile, DeleteSidecar, Remove, Flip
<1>4. QED
  BY <1>1, <1>2, <1>3 DEF NobodyLone

(***************************************************************************)
(* No download without consent: the pass goes beyond the consent only when *)
(* it has been given, and a usable consent file has been written by then.  *)
(***************************************************************************)
ConsentInv ==
  /\ ModelNeedsConsent
  /\ Good("consent") => accepted
  /\ \A p \in Procs : pc[p] \in {"store", "embed"} => accepted

\* A step that neither consents nor, without consent, gets anything that needs it.
LEMMA ConsentKept ==
  ASSUME ConsentInv, accepted => accepted',
         "models" \in dir' => "models" \in dir \/ accepted,
         Good("consent")' => Good("consent") \/ accepted,
         NEW p \in Procs, Own(p), pc'[p] \in {"store", "embed"} => accepted
  PROVE  ConsentInv'
BY DEF ConsentInv, ModelNeedsConsent, Own

LEMMA RemoveConsent ==
  ASSUME Types, NEW f, Remove(f)
  PROVE  dir' \subseteq dir /\ (Good("consent")' => Good("consent"))
BY DEF Remove, Good, Types, TypeShared, Formed

LEMMA ConsentStep ==
  Types /\ ConsentInv /\ [Next]_vars => ConsentInv'
<1> SUFFICES ASSUME Types, ConsentInv, [Next]_vars PROVE ConsentInv'
  OBVIOUS
<1>1. CASE UNCHANGED vars
  BY <1>1 DEF vars, ConsentInv, ModelNeedsConsent, Good
<1>2. CASE Environment
  <2>1. Good("consent")' => Good("consent")
    BY <1>2, RemoveConsent DEF Environment, EditText, ChangeAccess, UserFile, DeleteSidecar, Good, Flip
  <2>2. QED
    BY <1>2, <2>1, EnvironmentFrame DEF ConsentInv, ModelNeedsConsent
<1>3. ASSUME NEW p \in Procs, Process(p)
      PROVE  ConsentInv'
  <2>1. CASE Consent(p)
    <3>1. Good("consent") \/ cmd[p].accept => accepted'
      BY <2>1, Zenon DEF Consent, ConsentInv
    <3>2. accepted => accepted'
      BY <2>1, Zenon DEF Consent
    <3>3. "models" \in dir' => "models" \in dir
      BY <2>1 DEF Consent
    <3>4. Good("consent")' => Good("consent") \/ accepted'
      BY <2>1 DEF Consent, Good
    <3>5. pc'[p] \in {"store", "embed"} => accepted'
      BY <2>1, <3>1, GoOwn DEF Consent
    <3>6. QED
      BY <1>3, <3>1, <3>2, <3>3, <3>4, <3>5, ProcessOwn DEF Own, ConsentInv, ModelNeedsConsent
  <2>2. CASE Embed(p)
    <3>1. accepted' = accepted /\ accepted /\ pc' = pc /\ form' = form
      BY <2>2 DEF Embed, Same, ConsentInv
    <3>2. dir' \subseteq dir \cup {"models"}
      BY <2>2 DEF Embed
    <3>3. QED
      BY <1>3, <3>1, <3>2, ProcessOwn DEF Own, ConsentInv, ModelNeedsConsent, Good
  <2>3. CASE EmbedderFails(p)
    <3>1. accepted' = accepted /\ accepted /\ form' = form /\ dir' = dir \cup {"models"}
      BY <2>3 DEF EmbedderFails, ConsentInv
    <3>2. QED
      BY <1>3, <3>1, ProcessOwn DEF Own, ConsentInv, ModelNeedsConsent, Good
  <2>4. CASE ~Consent(p) /\ ~Embed(p) /\ ~EmbedderFails(p)
    <3>1. accepted' = accepted
      BY <1>3, <2>4 DEF Process, Start, Same, Refuse, Open, ResetFile, ResetDone, Create,
         WriteSentinel, Build, ConsentUnreadable, OpenStore, StoreCorrupt, Flush, Query, Probe,
         Unprobe, CheckDir, CheckFails, RemoveEntry, RemoveConfig, RemoveProgram, history, End, Die
    <3>2. "models" \in dir' => "models" \in dir \/ accepted
      BY <1>3, <2>4 DEF Process, Start, Same, Refuse, Open, ResetFile, ResetDone, Create, Remove,
         WriteSentinel, Build, ConsentUnreadable, OpenStore, StoreCorrupt, Flush, Query, Probe,
         Unprobe, CheckDir, CheckFails, RemoveEntry, RemoveConfig, RemoveProgram, history, End, Die,
         ConsentInv
    <3>3. Good("consent")' => Good("consent")
      <4>1. CASE \E f : Remove(f)
        BY <4>1, RemoveConsent
      <4>2. CASE "consent" \in dir' => "consent" \in dir /\ form'["consent"] = form["consent"]
        BY <4>2 DEF Good
      <4>3. ~(\E f : Remove(f)) => ("consent" \in dir' => "consent" \in dir)
        BY <1>3, <2>4 DEF Process, Start, Same, Refuse, Open, ResetFile, ResetDone, Create,
         WriteSentinel, Build, ConsentUnreadable, OpenStore, StoreCorrupt, Flush, Query, Probe,
         Unprobe, CheckDir, CheckFails, RemoveEntry, RemoveConfig, RemoveProgram, history, End, Die
      <4>4. ~(\E f : Remove(f)) => form'["consent"] = form["consent"]
        BY <1>3, <2>4 DEF Process, Start, Same, Refuse, Open, ResetFile, ResetDone, Create,
         WriteSentinel, Build, ConsentUnreadable, OpenStore, StoreCorrupt, Flush, Query, Probe,
         Unprobe, CheckDir, CheckFails, RemoveEntry, RemoveConfig, RemoveProgram, history, End, Die,
         Types, TypeShared, Formed
      <4>5. QED
        BY <4>1, <4>2, <4>3, <4>4
    <3>4. pc'[p] \in {"store", "embed"} => accepted
      <4>1. ASSUME NEW c \in Commands, Start(p, c) PROVE pc'[p] \notin {"store", "embed"}
        BY <4>1, ConstantsAssumption DEF Start, FirstStep, IndexCommands, OtherCommands, Command,
           Types, TypeRuns
      <4>2. Leave(p) => pc'[p] = "idle"
        BY LeaveOwn
      <4>3. \A step : Go(p, step) => pc'[p] = step
        BY GoOwn
      <4>4. QED
        BY <1>3, <2>4, <4>1, <4>2, <4>3 DEF Process, Refuse, Open, ResetFile, ResetDone, Create,
           WriteSentinel, Build, ConsentUnreadable, OpenStore, StoreCorrupt, Flush, Query, Probe,
           Unprobe, CheckDir, CheckFails, RemoveEntry, RemoveConfig, RemoveProgram, End, Die, ConsentInv
    <3>5. QED
      BY <1>3, <3>1, <3>2, <3>3, <3>4, ProcessOwn, ConsentKept
  <2>5. QED
    BY <2>1, <2>2, <2>3, <2>4
<1>4. QED
  BY <1>1, <1>2, <1>3 DEF Next

\* Nothing creates the model directory unless a user has accepted the download
\* (embed.rs, services/index/embeddings/enabled.rs).
THEOREM ConsentCorrect == Spec => []ModelNeedsConsent
<1>1. Init => ConsentInv
  BY DEF Init, ConsentInv, ModelNeedsConsent
<1>2. ConsentInv => ModelNeedsConsent
  BY DEF ConsentInv
<1>3. QED
  BY <1>1, <1>2, TypesInit, TypesStep, ConsentStep, PTL DEF Spec

(***************************************************************************)
(* Strangers survive: what a reset removes is listed, and a removal begins *)
(* only when the directory holds nothing else.                             *)
(***************************************************************************)
RemovalInv ==
  \A p \in Procs :
    /\ pc[p] = "reset" => todo[p] \subseteq Managed
    /\ pc[p] = "remove" => todo[p] \cap Unknown = {}

LEMMA RemovalStep ==
  Types /\ RemovalInv /\ [Next]_vars => RemovalInv'
<1> SUFFICES ASSUME Types, RemovalInv, [Next]_vars PROVE RemovalInv'
  OBVIOUS
<1>1. CASE UNCHANGED vars \/ Environment
  BY <1>1, EnvironmentFrame DEF vars, run, RemovalInv
<1>2. ASSUME NEW p \in Procs, Process(p)
      PROVE  RemovalInv'
  <2>1. ASSUME NEW c \in Commands, Start(p, c) PROVE pc'[p] \notin {"reset", "remove"}
    BY <2>1, ConstantsAssumption DEF Start, FirstStep, IndexCommands, OtherCommands, Command,
       Types, TypeRuns
  <2>2. Leave(p) => pc'[p] = "idle"
    BY LeaveOwn
  <2>3. \A step : Go(p, step) => pc'[p] = step
    BY GoOwn
  <2>4. CASE Open(p)
    <3>1. pc'[p] \in {"create", "idle"} \/ (pc'[p] = "reset" /\ todo'[p] = ResetList)
      BY <2>2, <2>3, <2>4 DEF Open, Refuse, Types, TypeRuns
    <3>2. QED
      BY <1>2, <3>1, ProcessOwn DEF Own, RemovalInv, ResetList
  <2>5. CASE ResetFile(p)
    <3>1. pc'[p] = "idle" \/ (pc'[p] = pc[p] /\ todo'[p] \subseteq todo[p])
      BY <2>2, <2>5 DEF ResetFile, Refuse, Types, TypeRuns
    <3>2. QED
      BY <1>2, <2>5, <3>1, ProcessOwn DEF Own, RemovalInv, ResetFile
  <2>6. CASE CheckDir(p)
    <3>1. pc'[p] = "config" \/ (pc'[p] = "remove" /\ todo'[p] = dir /\ MayRemove)
      BY <2>3, <2>6 DEF CheckDir, Types, TypeRuns
    <3>2. QED
      BY <1>2, <3>1, ProcessOwn DEF Own, RemovalInv, MayRemove, UnknownIn
  <2>7. CASE RemoveEntry(p)
    <3>1. pc'[p] = "config" \/ (pc'[p] = pc[p] /\ todo'[p] = todo[p])
      BY <2>3, <2>7 DEF RemoveEntry, run
    <3>2. QED
      BY <1>2, <2>7, <3>1, ProcessOwn DEF Own, RemovalInv, RemoveEntry
  <2>8. CASE ~Open(p) /\ ~ResetFile(p) /\ ~CheckDir(p) /\ ~RemoveEntry(p)
    <3>1. pc'[p] \notin {"reset", "remove"}
      BY <1>2, <2>8, <2>1, <2>2, <2>3 DEF Process, Refuse, ResetDone, Create, WriteSentinel, Build,
         Consent, ConsentUnreadable, OpenStore, StoreCorrupt, Embed, EmbedderFails, Flush, Query,
         Probe, Unprobe, CheckFails, RemoveConfig, RemoveProgram, End, Die
    <3>2. QED
      BY <1>2, <3>1, ProcessOwn DEF Own, RemovalInv
  <2>9. QED
    BY <2>4, <2>5, <2>6, <2>7, <2>8
<1>3. QED
  BY <1>1, <1>2 DEF Next

LEMMA StrangersStep ==
  ASSUME Types, RemovalInv, [Next]_vars, NEW f \in Unknown, f \in dir, f \notin dir'
  PROVE  changes' # changes \/ \E p \in Procs : pc[p] = "remove" /\ f \notin todo[p]
<1>1. CASE UNCHANGED vars \/ Environment
  BY <1>1, EnvironmentFrame DEF vars
<1>2. ASSUME NEW p \in Procs, Process(p)
      PROVE  pc[p] = "remove" /\ f \notin todo[p]
  <2>1. CASE RemoveEntry(p)
    BY <2>1 DEF RemoveEntry, RemovalInv
  <2>2. CASE ResetFile(p)
    BY <2>2 DEF ResetFile, Refuse, Remove, RemovalInv, Managed, Unknown
  <2>3. CASE ~RemoveEntry(p) /\ ~ResetFile(p)
    <3>1. dir \ dir' \subseteq {"vectors"}
      BY <1>2, <2>3 DEF Process, Start, Same, Refuse, Open, ResetDone, Create, Remove,
         WriteSentinel, Build, Consent, ConsentUnreadable, OpenStore, StoreCorrupt, Embed,
         EmbedderFails, Flush, Query, Probe, Unprobe, CheckDir, CheckFails, RemoveConfig,
         RemoveProgram, End, Die
    <3>2. QED
      BY <3>1 DEF Unknown
  <2>4. QED
    BY <2>1, <2>2, <2>3
<1>3. QED
  BY <1>1, <1>2 DEF Next

\* What the program does not recognise in the directory it does not delete,
\* unless it came after an uninstall had looked (search/storage.rs).
THEOREM StrangersCorrect == Spec => StrangersSurvive
<1>1. Init => RemovalInv
  BY DEF Init, RemovalInv
<1>2. Types /\ RemovalInv /\ [Next]_vars =>
        [\A f \in Unknown : f \in dir /\ f \notin dir' =>
           \/ changes' # changes
           \/ \E p \in Procs : pc[p] = "remove" /\ f \notin todo[p]]_vars
  BY StrangersStep
<1>3. QED
  BY <1>1, <1>2, TypesInit, TypesStep, RemovalStep, PTL DEF Spec, StrangersSurvive

(***************************************************************************)
(* The manifest and the documents.  A reset lists the managed files while  *)
(* nobody can add one: whoever builds has passed the check of the schema,  *)
(* so none is at work until the old index is gone, and then only a step    *)
(* that counts as a disturbance could put a file back.                     *)
(***************************************************************************)
Adding == {"create", "sentinel", "build", "consent", "store", "embed"}

FilesInv ==
  /\ "meta" \notin dir => docs = {}
  /\ "manifest" \notin dir => listed = {}

OldInv ==
  form["meta"] = "old" =>
    /\ "meta" \in dir
    /\ \A p \in Procs : pc[p] \notin Adding /\ (pc[p] = "reset" => "meta" \in todo[p])

ResetInv ==
  ~disturbed => \A p \in Procs : pc[p] = "reset" =>
    /\ dir \cap Managed \subseteq todo[p]
    /\ form["meta"] = "old" \/ OthersIdle(p)

Removing == \E p \in Procs : pc[p] \in {"reset", "remove"} /\ OthersIdle(p)
ListedInv == ~disturbed => listed \subseteq docs \/ ("meta" \notin dir /\ Removing)

ManifestInv == FilesInv /\ OldInv /\ ResetInv /\ ListedInv

Building(p) == Create(p) \/ WriteSentinel(p) \/ Build(p)
Deleting(p) == ResetFile(p) \/ RemoveEntry(p)

\* What the files look like after a step of each kind.
LEMMA RestFiles ==
  ASSUME Types, NEW p \in Procs, Process(p), ~Building(p), ~Deleting(p)
  PROVE  /\ docs' = docs /\ listed' = listed /\ form'["meta"] = form["meta"]
         /\ "meta" \in dir' <=> "meta" \in dir
         /\ "manifest" \in dir' <=> "manifest" \in dir
         /\ dir' \cap Managed \subseteq dir \/ pc[p] \in {"consent", "embed"}
<1>1. docs' = docs /\ listed' = listed
  BY DEF Process, Start, Same, Refuse, Open, ResetDone, Consent,
     ConsentUnreadable, OpenStore, StoreCorrupt, Embed, EmbedderFails, Flush, Query, Probe, Unprobe,
     CheckDir, CheckFails, RemoveConfig, RemoveProgram, history, End, Die, Building, Deleting, Create, WriteSentinel, Build,
     index, Remove
<1>2. form'["meta"] = form["meta"]
  BY DEF Process, Start, Same, Refuse, Open, ResetDone, Consent,
     ConsentUnreadable, OpenStore, StoreCorrupt, Embed, EmbedderFails, Flush, Query, Probe, Unprobe,
     CheckDir, CheckFails, RemoveConfig, RemoveProgram, history, End, Die, Building, Deleting, Remove,
     Types, TypeShared, Formed
<1>3. \/ dir' \subseteq dir \cup {"models", "probe"} /\ dir \subseteq dir' \cup {"vectors"}
      \/ pc[p] = "consent" /\ dir' = dir \cup {"consent"}
      \/ pc[p] = "embed" /\ dir' = dir \cup {"vectors"}
  BY DEF Process, Start, Same, Refuse, Open, ResetDone, Consent,
     ConsentUnreadable, OpenStore, StoreCorrupt, Embed, EmbedderFails, Flush, Query, Probe, Unprobe,
     CheckDir, CheckFails, RemoveConfig, RemoveProgram, history, End, Die, Building, Deleting, Remove
<1>4. QED
  BY <1>1, <1>2, <1>3 DEF Managed

LEMMA DeletingFiles ==
  ASSUME Types, NEW p \in Procs, Deleting(p), ~disturbed'
  PROVE  /\ ~disturbed /\ pc[p] \in {"reset", "remove"} /\ OthersIdle(p)
         /\ \/ pc' = pc /\ \E f : Remove(f) /\ (pc[p] = "reset" => todo' = [todo EXCEPT ![p] = todo[p] \ {f}])
            \/ pc[p] = "remove" /\ dir = {} /\ UNCHANGED <<dir, form, docs, listed>> /\ pc'[p] = "config"
<1>1. CASE ResetFile(p)
  BY <1>1 DEF ResetFile, Refuse
<1>2. CASE RemoveEntry(p)
  BY <1>2, GoOwn DEF RemoveEntry, index
<1>3. QED
  BY <1>1, <1>2 DEF Deleting

LEMMA BuildingFiles ==
  ASSUME Types, NEW p \in Procs, Building(p)
  PROVE  /\ form'["meta"] = form["meta"] /\ dir \subseteq dir' /\ pc[p] \in Adding
         /\ pc'[p] \notin {"reset", "remove"} /\ disturbed' = disturbed
<1>1. form'["meta"] = form["meta"] /\ pc[p] \in Adding /\ dir \subseteq dir'
  BY DEF Building, Create, WriteSentinel, Build, Refuse, Types, TypeShared, Formed, Adding
<1>2. pc'[p] \notin {"reset", "remove"}
  <2>1. \/ Leave(p) \/ Go(p, "sentinel") \/ Go(p, "build")
        \/ Go(p, "consent") \/ Go(p, "query")
    BY DEF Building, Create, WriteSentinel, Build, Refuse
  <2>2. \A step : Go(p, step) => pc'[p] = step
    BY GoOwn
  <2>3. Leave(p) => pc'[p] = "idle"
    BY LeaveOwn
  <2>4. QED
    BY <2>1, <2>2, <2>3
<1>3. disturbed' = disturbed
  BY DEF Building, Create, WriteSentinel, Build
<1>4. QED
  BY <1>1, <1>2, <1>3

LEMMA DisturbedStays ==
  ASSUME Types, [Next]_vars, ~disturbed'
  PROVE  ~disturbed
<1>1. CASE UNCHANGED vars \/ Environment
  BY <1>1, EnvironmentFrame DEF vars
<1>2. ASSUME NEW p \in Procs, Process(p)
      PROVE  ~disturbed
  BY <1>2 DEF Process, Start, Same, Refuse, Open, ResetDone, Consent,
     ConsentUnreadable, OpenStore, StoreCorrupt, Embed, EmbedderFails, Flush, Query, Probe, Unprobe,
     CheckDir, CheckFails, RemoveConfig, RemoveProgram, history, End, Die, Create, WriteSentinel, Build, ResetFile, RemoveEntry
<1>3. QED
  BY <1>1, <1>2 DEF Next

LEMMA EnvironmentFiles ==
  ASSUME Types, Environment
  PROVE  /\ docs' = docs /\ listed' = listed /\ form'["meta"] = form["meta"]
         /\ "meta" \in dir' <=> "meta" \in dir
         /\ "manifest" \in dir' <=> "manifest" \in dir
         /\ dir' \cap Managed \subseteq dir
BY DEF Environment, EditText, ChangeAccess, UserFile, DeleteSidecar, Remove, Flip, index, Managed,
   Types, TypeShared, Formed

LEMMA FilesStep ==
  Types /\ FilesInv /\ [Next]_vars => FilesInv'
<1> SUFFICES ASSUME Types, FilesInv, [Next]_vars PROVE FilesInv'
  OBVIOUS
<1>1. CASE UNCHANGED vars \/ Environment
  BY <1>1, EnvironmentFiles DEF vars, FilesInv
<1>2. ASSUME NEW p \in Procs, Process(p)
      PROVE  FilesInv'
  <2>1. CASE Building(p)
    BY <2>1 DEF Building, Create, WriteSentinel, Build, Refuse, index, FilesInv
  <2>2. CASE Deleting(p)
    BY <2>2 DEF Deleting, ResetFile, RemoveEntry, Refuse, Remove, index, FilesInv
  <2>3. CASE ~Building(p) /\ ~Deleting(p)
    BY <1>2, <2>3, RestFiles DEF FilesInv
  <2>4. QED
    BY <2>1, <2>2, <2>3
<1>3. QED
  BY <1>1, <1>2 DEF Next

LEMMA OldStep ==
  Types /\ OldInv /\ [Next]_vars => OldInv'
<1> SUFFICES ASSUME Types, OldInv, [Next]_vars, form'["meta"] = "old"
             PROVE  /\ "meta" \in dir'
                    /\ \A p \in Procs : pc'[p] \notin Adding /\ (pc'[p] = "reset" => "meta" \in todo'[p])
  BY DEF OldInv
<1>1. CASE UNCHANGED vars \/ Environment
  BY <1>1, EnvironmentFiles, EnvironmentFrame DEF vars, run, OldInv
<1>2. ASSUME NEW p \in Procs, Process(p)
      PROVE  /\ "meta" \in dir'
             /\ \A q \in Procs : pc'[q] \notin Adding /\ (pc'[q] = "reset" => "meta" \in todo'[q])
  <2>1. ASSUME NEW f, Remove(f) PROVE f # "meta" /\ form["meta"] = "old" /\ dir' = dir \ {f}
    BY <2>1 DEF Remove, Types, TypeShared, Formed
  <2>2. form["meta"] = "old"
    BY <1>2, <2>1, RestFiles, BuildingFiles DEF Deleting, ResetFile, RemoveEntry, Refuse
  <2>3. "meta" \in dir /\ \A q \in Procs : pc[q] \notin Adding /\ (pc[q] = "reset" => "meta" \in todo[q])
    BY <2>2 DEF OldInv
  <2>4. "meta" \in dir'
    BY <1>2, <2>1, <2>3, RestFiles, BuildingFiles DEF Deleting, ResetFile, RemoveEntry, Refuse
  <2>5. pc'[p] \notin Adding /\ (pc'[p] = "reset" => "meta" \in todo'[p])
    <3>1. ASSUME NEW c \in Commands, Start(p, c) PROVE pc'[p] \in {"open", "probe", "check"}
      BY <3>1, ConstantsAssumption DEF Start, FirstStep, IndexCommands, OtherCommands, Command,
         Types, TypeRuns
    <3>2. Leave(p) => pc'[p] = "idle"
      BY LeaveOwn
    <3>3. \A step : Go(p, step) => pc'[p] = step
      BY GoOwn
    <3>4. CASE Open(p)
      <4>1. pc'[p] = "idle" \/ (pc'[p] = "reset" /\ todo'[p] = ResetList)
        BY <2>2, <2>3, <3>2, <3>3, <3>4 DEF Open, Refuse, Good, Types, TypeRuns
      <4>2. QED
        BY <2>3, <4>1 DEF ResetList, Managed, Adding
    <3>5. CASE ResetFile(p)
      <4>1. pc'[p] = "idle" \/ (pc'[p] = "reset" /\ "meta" \in todo'[p])
        <5>1. CASE Refuse(p)
          BY <3>2, <5>1 DEF Refuse
        <5>2. ASSUME NEW f \in todo[p], Remove(f), todo' = [todo EXCEPT ![p] = todo[p] \ {f}],
                     pc' = pc
              PROVE  pc'[p] = "reset" /\ "meta" \in todo'[p]
          BY <2>1, <2>3, <3>5, <5>2 DEF ResetFile, Types, TypeRuns
        <5>3. QED
          BY <3>5, <5>1, <5>2 DEF ResetFile
      <4>2. QED
        BY <4>1 DEF Adding
    <3>6. CASE RemoveEntry(p)
      BY <3>3, <3>6 DEF RemoveEntry, Adding
    <3>7. CASE CheckDir(p)
      BY <3>3, <3>7 DEF CheckDir, Adding
    <3>8. CASE ~Open(p) /\ ~ResetFile(p) /\ ~RemoveEntry(p) /\ ~CheckDir(p)
      <4>1. ~Building(p) /\ ~Consent(p) /\ ~ConsentUnreadable(p) /\ ~OpenStore(p)
            /\ ~StoreCorrupt(p) /\ ~Embed(p) /\ ~EmbedderFails(p) /\ ~Flush(p) /\ ~ResetDone(p)
        BY <2>3, BuildingFiles DEF Adding, Consent, ConsentUnreadable, OpenStore, StoreCorrupt,
           Embed, EmbedderFails, Flush, ResetDone
      <4>2. pc'[p] \in {"idle", "open", "probe", "check", "done", "unprobe", "marker", "binary"}
        BY <1>2, <3>1, <3>2, <3>3, <3>8, <4>1 DEF Process, Building, Query, Probe, Unprobe,
           CheckFails, Refuse, RemoveConfig, RemoveProgram, End, Die
      <4>3. QED
        BY <4>2 DEF Adding
    <3>9. QED
      BY <3>4, <3>5, <3>6, <3>7, <3>8
  <2>6. QED
    BY <1>2, <2>3, <2>4, <2>5, ProcessOwn DEF Own
<1>3. QED
  BY <1>1, <1>2 DEF Next

LEMMA ResetStep ==
  Types /\ OldInv /\ ResetInv /\ [Next]_vars => ResetInv'
<1> SUFFICES ASSUME Types, OldInv, ResetInv, [Next]_vars, ~disturbed',
                    NEW r \in Procs, pc'[r] = "reset"
             PROVE  /\ dir' \cap Managed \subseteq todo'[r]
                    /\ form'["meta"] = "old" \/ OthersIdle(r)'
  BY DEF ResetInv
<1>0. ~disturbed
  BY DisturbedStays
<1>1. CASE UNCHANGED vars \/ Environment
  <2>1. pc' = pc /\ todo' = todo /\ form'["meta"] = form["meta"] /\ dir' \cap Managed \subseteq dir
    BY <1>1, EnvironmentFiles, EnvironmentFrame DEF vars, run
  <2>2. QED
    BY <1>0, <2>1 DEF ResetInv, OthersIdle
<1>2. ASSUME NEW p \in Procs, Process(p)
      PROVE  /\ dir' \cap Managed \subseteq todo'[r]
             /\ form'["meta"] = "old" \/ OthersIdle(r)'
  <2>1. CASE r = p
    <3>1. ASSUME NEW c \in Commands, Start(p, c) PROVE pc'[p] # "reset"
      BY <3>1, ConstantsAssumption DEF Start, FirstStep, IndexCommands, OtherCommands, Command,
         Types, TypeRuns
    <3>2. Leave(p) => pc'[p] = "idle"
      BY LeaveOwn
    <3>3. \A step : Go(p, step) => pc'[p] = step
      BY GoOwn
    <3>4. CASE Open(p)
      <4>1. todo'[p] = ResetList /\ form["meta"] = "old" /\ UNCHANGED <<dir, form>>
        BY <2>1, <3>2, <3>3, <3>4 DEF Open, Refuse, Types, TypeRuns
      <4>2. QED
        BY <2>1, <4>1 DEF ResetList
    <3>5. CASE ResetFile(p)
      <4>1. OthersIdle(p) /\ pc[p] = "reset" /\ pc' = pc
        BY <2>1, <3>2, <3>5 DEF ResetFile, Refuse
      <4>2. PICK f \in todo[p] : Remove(f) /\ todo' = [todo EXCEPT ![p] = todo[p] \ {f}]
        BY <2>1, <3>2, <3>5 DEF ResetFile, Refuse
      <4>3. dir' = dir \ {f} /\ todo'[p] = todo[p] \ {f}
        BY <4>2 DEF Remove, Types, TypeRuns
      <4>4. QED
        BY <1>0, <2>1, <4>1, <4>3 DEF ResetInv, OthersIdle
    <3>6. CASE ~Open(p) /\ ~ResetFile(p)
      <4>1. CASE Building(p)
        BY <2>1, <4>1, BuildingFiles
      <4>2. CASE Embed(p) \/ RemoveEntry(p)
        BY <2>1, <3>3, <4>2 DEF Embed, RemoveEntry
      <4>3. CASE ~Building(p) /\ ~Embed(p) /\ ~RemoveEntry(p)
        BY <1>2, <2>1, <3>1, <3>2, <3>3, <3>6, <4>3 DEF Process, Building, Refuse, ResetDone,
           Consent, ConsentUnreadable, OpenStore, StoreCorrupt, EmbedderFails, Flush, Query,
           Probe, Unprobe, CheckDir, CheckFails, RemoveConfig, RemoveProgram, End, Die
      <4>4. QED
        BY <4>1, <4>2, <4>3
    <3>7. QED
      BY <3>4, <3>5, <3>6
  <2>2. CASE r # p
    <3>1. pc[r] = "reset" /\ todo'[r] = todo[r]
      BY <1>2, <2>2, ProcessOwn DEF Own
    <3>2. dir \cap Managed \subseteq todo[r] /\ (form["meta"] = "old" \/ OthersIdle(r))
      BY <1>0, <3>1 DEF ResetInv
    <3>3. ~Deleting(p)
      BY <2>2, <3>1, DeletingFiles DEF OthersIdle
    <3>4. form["meta"] = "old"
      <4>1. CASE OthersIdle(r)
        <5>1. pc[p] = "idle"
          BY <2>2, <4>1 DEF OthersIdle
        <5>2. \E c \in Commands : Start(p, c)
          BY <1>2, <5>1 DEF Process, Open, ResetFile, ResetDone, Create, WriteSentinel, Build,
             Consent, ConsentUnreadable, OpenStore, StoreCorrupt, Embed, EmbedderFails, Flush,
             Query, Probe, Unprobe, CheckDir, CheckFails, RemoveEntry, RemoveConfig,
             RemoveProgram, End, Die
        <5>3. QED
          BY <3>1, <5>2 DEF Start
      <4>2. QED
        BY <3>2, <4>1
    <3>5. pc[p] \notin Adding
      BY <3>4 DEF OldInv
    <3>6. ~Building(p)
      BY <3>5, BuildingFiles
    <3>7. form'["meta"] = "old" /\ dir' \cap Managed \subseteq dir
      BY <1>2, <3>3, <3>4, <3>5, <3>6, RestFiles DEF Adding
    <3>8. QED
      BY <3>1, <3>2, <3>7
  <2>3. QED
    BY <2>1, <2>2
<1>3. QED
  BY <1>1, <1>2 DEF Next

LEMMA ListedStep ==
  Types /\ ManifestInv /\ [Next]_vars => ListedInv'
<1> SUFFICES ASSUME Types, ManifestInv, [Next]_vars, ~disturbed'
             PROVE  listed' \subseteq docs' \/ ("meta" \notin dir' /\ Removing')
  BY DEF ListedInv
<1>0. ~disturbed /\ (listed \subseteq docs \/ ("meta" \notin dir /\ Removing))
  BY DisturbedStays DEF ManifestInv, ListedInv
<1>1. CASE UNCHANGED vars \/ Environment
  <2>1. pc' = pc /\ docs' = docs /\ listed' = listed /\ ("meta" \in dir' <=> "meta" \in dir)
    BY <1>1, EnvironmentFiles, EnvironmentFrame DEF vars
  <2>2. QED
    BY <1>0, <2>1 DEF Removing, OthersIdle
<1>2. ASSUME NEW p \in Procs, Process(p)
      PROVE  listed' \subseteq docs' \/ ("meta" \notin dir' /\ Removing')
  <2>1. CASE Deleting(p)
    <3>1. pc[p] \in {"reset", "remove"} /\ OthersIdle(p)
      BY <2>1, DeletingFiles
    <3>2. CASE pc' = pc /\ \E f : Remove(f)
      <4>1. Removing'
        BY <3>1, <3>2 DEF Removing, OthersIdle
      <4>2. QED
        BY <1>0, <3>2, <4>1 DEF Remove, ManifestInv, FilesInv
    <3>3. CASE dir = {} /\ UNCHANGED <<dir, form, docs, listed>>
      BY <3>3 DEF ManifestInv, FilesInv
    <3>4. QED
      BY <2>1, <3>2, <3>3, DeletingFiles
  <2>2. CASE Building(p)
    <3>1. CASE "meta" \in dir
      <4>1. listed \subseteq docs
        BY <1>0, <3>1
      <4>2. CASE Build(p)
        <5>1. CASE Refuse(p)
          BY <4>1, <5>1 DEF Refuse, index
        <5>2. CASE ~Refuse(p)
          <6> DEFINE scope == SessionsOf(cmd[p].scope)
                     cleared == IF cmd[p].force THEN scope ELSE {}
                     kept == IF Good("manifest") THEN listed \ cleared ELSE {}
                     lost == (kept \cap (scope \ found[p])) \cup (found[p] \cap unreadable)
                     fresh == found[p] \ (unreadable \cup kept)
          <6>1. /\ (IF "manifest" \in dir /\ ~Good("manifest") THEN {} ELSE docs \ (cleared \cup lost))
                     \cup fresh \subseteq docs'
                /\ listed' = (kept \ lost) \cup fresh
            BY <4>2, <5>2 DEF Build
          <6>2. kept \ lost \subseteq
                  (IF "manifest" \in dir /\ ~Good("manifest") THEN {} ELSE docs \ (cleared \cup lost))
            BY <4>1
          <6>3. QED
            BY <6>1, <6>2
        <5>3. QED
          BY <5>1, <5>2
      <4>3. CASE Create(p) \/ WriteSentinel(p)
        BY <3>1, <4>1, <4>3 DEF Create, WriteSentinel, Refuse, index
      <4>4. QED
        BY <2>2, <4>2, <4>3 DEF Building
    <3>2. CASE "meta" \notin dir
      <4>1. listed \subseteq docs
        <5>1. ASSUME NEW q \in Procs, pc[q] \in {"reset", "remove"}, OthersIdle(q) PROVE FALSE
          <6>1. pc[p] \in Adding
            BY <2>2, BuildingFiles
          <6>2. p # q /\ pc[p] = "idle"
            BY <5>1, <6>1 DEF Adding, OthersIdle
          <6>3. QED
            BY <6>1, <6>2 DEF Adding
        <5>2. QED
          BY <1>0, <5>1 DEF Removing
      <4>2. listed = {}
        BY <3>2, <4>1 DEF ManifestInv, FilesInv
      <4>3. listed' = listed
        BY <2>2, <3>2 DEF Building, Create, WriteSentinel, Build, Refuse, index
      <4>4. QED
        BY <4>2, <4>3
    <3>3. QED
      BY <3>1, <3>2
  <2>3. CASE ~Deleting(p) /\ ~Building(p)
    <3>1. docs' = docs /\ listed' = listed
      BY <1>2, <2>3, RestFiles
    <3>2. CASE listed \subseteq docs
      BY <3>1, <3>2
    <3>3. CASE "meta" \notin dir /\ Removing
      <4>1. PICK r \in Procs : pc[r] \in {"reset", "remove"} /\ OthersIdle(r)
        BY <3>3 DEF Removing
      <4>2. CASE r # p
        <5>1. pc[p] = "idle"
          BY <4>1, <4>2 DEF OthersIdle
        <5>2. \E c \in Commands : Start(p, c)
          BY <1>2, <5>1 DEF Process, Open, ResetFile, ResetDone, Create, WriteSentinel, Build,
             Consent, ConsentUnreadable, OpenStore, StoreCorrupt, Embed, EmbedderFails, Flush,
             Query, Probe, Unprobe, CheckDir, CheckFails, RemoveEntry, RemoveConfig,
             RemoveProgram, End, Die
        <5>3. QED
          BY <4>1, <5>2 DEF Start
      <4>3. CASE r = p
        <5>1. ResetDone(p) \/ Die(p)
          BY <1>2, <2>3, <4>1, <4>3 DEF Process, Start, Deleting, Building, Open, Create,
             WriteSentinel, Build, Consent, ConsentUnreadable, OpenStore, StoreCorrupt, Embed,
             EmbedderFails, Flush, Query, Probe, Unprobe, CheckDir, CheckFails, RemoveConfig,
             RemoveProgram, End
        <5>2. ResetDone(p)
          BY <4>1, <4>3, <5>1 DEF Die
        <5>3. "manifest" \notin dir
          BY <1>0, <5>2 DEF ResetDone, ManifestInv, ResetInv, Managed
        <5>4. QED
          BY <3>1, <5>3 DEF ManifestInv, FilesInv
      <4>4. QED
        BY <4>2, <4>3
    <3>4. QED
      BY <1>0, <3>2, <3>3
  <2>4. QED
    BY <2>1, <2>2, <2>3
<1>3. QED
  BY <1>1, <1>2 DEF Next

LEMMA ManifestInit == Init => ManifestInv
<1> SUFFICES ASSUME Init PROVE ManifestInv
  OBVIOUS
<1>1. FilesInv
  BY DEF Init, FilesInv
<1>2. OldInv
  BY DEF Init, OldInv, Formed, Adding
<1>3. ResetInv
  BY DEF Init, ResetInv
<1>4. ListedInv
  BY DEF Init, ListedInv
<1>5. QED
  BY <1>1, <1>2, <1>3, <1>4 DEF ManifestInv

\* The manifest never vouches for a session without documents, whatever was
\* reset, cleared or rebuilt, unless a removal was cut short or overlapped other
\* work (search/index.rs, search/storage.rs).
THEOREM ManifestCorrect == Spec => []ManifestHasDocs
<1>1. Types /\ ManifestInv /\ [Next]_vars => ManifestInv'
  BY FilesStep, OldStep, ResetStep, ListedStep DEF ManifestInv
<1>2. ManifestInv => ManifestHasDocs
  BY DEF ManifestInv, ListedInv, ManifestHasDocs
<1>3. QED
  BY <1>1, <1>2, TypesInit, TypesStep, ManifestInit, PTL DEF Spec

(***************************************************************************)
(* Live vectors survive.  While nothing else happens, what a pass has      *)
(* discovered, noted and read is what the world and the file still hold.   *)
(***************************************************************************)
Pass == {"open", "reset", "create", "sentinel", "build", "consent", "store", "embed"}

Noted(p) ==
  skipped[p] \/ \A m \in Messages :
    SessionOf[m] \in found[p] \ todo[p] /\ text[m] # 0 => m \in live[p]
InMemory(p) == \A m \in Messages : mem[p][m] = 0 => vec[m] = 0

LoneInv ==
  \A p \in Procs : lone[p] =>
    /\ OthersIdle(p)
    /\ pc[p] \in Pass => found[p] = Discovered(cmd[p].scope)
    /\ pc[p] = "embed" => Noted(p) /\ InMemory(p)

LEMMA EmbedNotes ==
  ASSUME Types, NEW p \in Procs, Embed(p), Noted(p), InMemory(p)
  PROVE  Noted(p)' /\ InMemory(p)'
<1> DEFINE s == CHOOSE s \in todo[p] : TRUE
<1>1. s \in todo[p] /\ todo'[p] = todo[p] \ {s}
  BY DEF Embed, Types, TypeRuns
<1>2. UNCHANGED <<found, text, vec>>
  BY DEF Embed, Same, world
<1>3. CASE s \in unreadable
  <2>1. skipped'[p] = TRUE
    <3>1. skipped' = [skipped EXCEPT ![p] = TRUE]
      BY <1>3 DEF Embed
    <3>2. QED
      BY <3>1, Zenon DEF Types, TypeRuns
  <2>2. mem' = mem
    BY <1>3 DEF Embed
  <2>3. QED
    BY <1>2, <2>1, <2>2 DEF Noted, InMemory
<1>4. CASE s \notin unreadable
  <2>1. live'[p] = live[p] \cup {m \in MessagesOf(s) : text[m] # 0} /\ skipped' = skipped
    BY <1>4 DEF Embed, Types, TypeRuns
  <2>2. PICK embedded \in {{}, Pending(p, s)} :
          mem' = [mem EXCEPT ![p] = [m \in Messages |-> IF m \in embedded THEN text[m] ELSE mem[p][m]]]
    BY <1>4 DEF Embed
  <2>3. \A m \in Messages : mem'[p][m] = IF m \in embedded THEN text[m] ELSE mem[p][m]
    BY <2>2 DEF Types, TypeRuns
  <2>4. \A m \in embedded : text[m] # 0
    BY <2>2 DEF Pending
  <2>5. InMemory(p)'
    BY <1>2, <2>3, <2>4 DEF InMemory
  <2>6. Noted(p)'
    <3>1. CASE skipped[p]
      BY <2>1, <3>1 DEF Noted
    <3>2. CASE ~skipped[p]
      BY <1>1, <1>2, <2>1, <3>2 DEF Noted, MessagesOf
    <3>3. QED
      BY <3>1, <3>2
  <2>7. QED
    BY <2>5, <2>6
<1>5. QED
  BY <1>3, <1>4

LEMMA OpenStoreNotes ==
  ASSUME Types, NEW p \in Procs, OpenStore(p)
  PROVE  Noted(p)' /\ InMemory(p)'
<1>1. todo'[p] = found[p] /\ found' = found
  BY DEF OpenStore, Types, TypeRuns
<1>2. (mem'[p] = vec /\ vec' = vec) \/ vec' = NoVectors
  BY DEF OpenStore, Remove, Types, TypeRuns
<1>3. QED
  BY <1>1, <1>2 DEF Noted, InMemory, NoVectors

\* A step of a run under way leaves the world alone, and the run stays lone.
LEMMA LoneGoesOn ==
  ASSUME Types, NEW p \in Procs, Process(p), pc[p] # "idle", lone'[p]
  PROVE  /\ lone[p] /\ UNCHANGED <<text, unreadable, broken, lone, cmd, found>>
         /\ pc'[p] \in Pass => pc[p] \in Pass
         /\ pc'[p] = "embed" => OpenStore(p) \/ Embed(p)
<1>1. ~Leave(p) /\ ~(\E c \in Commands : Start(p, c))
  BY LeaveOwn DEF Start
<1>2. UNCHANGED <<text, unreadable, broken, lone, cmd, found>>
  BY <1>1 DEF Process, Open, ResetFile, ResetDone, Create, WriteSentinel, Build, Consent,
     ConsentUnreadable, OpenStore, StoreCorrupt, Embed, EmbedderFails, Flush, Query, Probe,
     Unprobe, CheckDir, CheckFails, RemoveEntry, RemoveConfig, RemoveProgram, End, Die, Refuse,
     Same, world, run, history
<1>3. /\ pc'[p] \in Pass => pc[p] \in Pass
      /\ pc'[p] = "embed" => OpenStore(p) \/ Embed(p)
  <2>1. \A step : Go(p, step) => pc'[p] = step
    BY GoOwn
  <2>2. QED
    BY <1>1, <2>1 DEF Process, Open, ResetFile, ResetDone, Create, WriteSentinel, Build, Consent,
       ConsentUnreadable, OpenStore, StoreCorrupt, Embed, EmbedderFails, Flush, Query, Probe,
       Unprobe, CheckDir, CheckFails, RemoveEntry, RemoveConfig, RemoveProgram, End, Die, Refuse,
       Pass
<1>4. QED
  BY <1>2, <1>3

LEMMA LoneStep ==
  Types /\ LoneInv /\ [Next]_vars => LoneInv'
<1> SUFFICES ASSUME Types, LoneInv, [Next]_vars, NEW r \in Procs, lone'[r]
             PROVE  /\ OthersIdle(r)'
                    /\ pc'[r] \in Pass => found'[r] = Discovered(cmd[r].scope)'
                    /\ pc'[r] = "embed" => Noted(r)' /\ InMemory(r)'
  BY DEF LoneInv
<1>1. CASE UNCHANGED vars
  BY <1>1 DEF vars, LoneInv, OthersIdle, Discovered, Noted, InMemory
<1>2. CASE Environment
  BY <1>2, EnvironmentFrame
<1>3. ASSUME NEW p \in Procs, Process(p)
      PROVE  /\ OthersIdle(r)'
             /\ pc'[r] \in Pass => found'[r] = Discovered(cmd[r].scope)'
             /\ pc'[r] = "embed" => Noted(r)' /\ InMemory(r)'
  <2>1. ASSUME NEW c \in Commands, Start(p, c)
        PROVE  /\ OthersIdle(r)'
               /\ pc'[r] \in Pass => found'[r] = Discovered(cmd[r].scope)'
               /\ pc'[r] # "embed"
    <3>1. r = p /\ OthersIdle(p)
      BY <2>1 DEF Start
    <3>2. pc'[p] = FirstStep(c.kind) /\ \A q \in Procs \ {p} : pc'[q] = pc[q]
      BY <2>1 DEF Start, Types, TypeRuns
    <3>3. c.kind \in {"index", "search"} \/ pc'[p] \in {"probe", "check"}
      BY <2>1, <3>2, ConstantsAssumption DEF FirstStep, IndexCommands, OtherCommands, Command
    <3>4. cmd'[p] = c /\ text' = text /\ broken' = broken
      BY <2>1 DEF Start, Types, TypeRuns
    <3>5. c.kind \in {"index", "search"} => found'[p] = Discovered(c.scope) /\ pc'[p] = "open"
      BY <2>1, <3>2 DEF Start, FirstStep, Types, TypeRuns
    <3>6. QED
      BY <3>1, <3>2, <3>3, <3>4, <3>5 DEF OthersIdle, Discovered, Pass
  <2>2. CASE pc[p] = "idle"
    <3>1. \E c \in Commands : Start(p, c)
      BY <1>3, <2>2 DEF Process, Open, ResetFile, ResetDone, Create, WriteSentinel, Build,
         Consent, ConsentUnreadable, OpenStore, StoreCorrupt, Embed, EmbedderFails, Flush,
         Query, Probe, Unprobe, CheckDir, CheckFails, RemoveEntry, RemoveConfig,
         RemoveProgram, End, Die
    <3>2. QED
      BY <2>1, <3>1
  <2>3. CASE pc[p] # "idle" /\ r # p
    <3>1. lone[r]
      <4>1. \A q \in Procs \ {p} : lone'[q] => lone[q]
        <5>1. ~(\E c \in Commands : Start(p, c))
          BY <2>3 DEF Start
        <5>2. Leave(p) \/ lone' = lone
          BY <1>3, <5>1 DEF Process, Open, ResetFile, ResetDone, Create, WriteSentinel, Build,
             Consent, ConsentUnreadable, OpenStore, StoreCorrupt, Embed, EmbedderFails, Flush,
             Query, Probe, Unprobe, CheckDir, CheckFails, RemoveEntry, RemoveConfig,
             RemoveProgram, End, Die, Refuse, Same, history
        <5>3. QED
          BY <5>2, Zenon DEF Leave, Types, TypeFlags
      <4>2. QED
        BY <2>3, <4>1
    <3>2. QED
      BY <2>3, <3>1 DEF LoneInv, OthersIdle
  <2>4. CASE pc[p] # "idle" /\ r = p
    <3>1. /\ lone[p] /\ UNCHANGED <<text, unreadable, broken, lone, cmd, found>>
          /\ pc'[p] \in Pass => pc[p] \in Pass
          /\ pc'[p] = "embed" => OpenStore(p) \/ Embed(p)
      BY <1>3, <2>4, LoneGoesOn
    <3>2. OthersIdle(p)'
      BY <1>3, <3>1, ProcessOwn DEF Own, OthersIdle, LoneInv
    <3>3. pc'[p] \in Pass => found'[p] = Discovered(cmd[p].scope)'
      BY <3>1 DEF LoneInv, Discovered
    <3>4. CASE OpenStore(p)
      BY <2>4, <3>2, <3>3, <3>4, OpenStoreNotes
    <3>5. CASE Embed(p)
      <4>1. Noted(p) /\ InMemory(p)
        BY <3>1, <3>5 DEF Embed, LoneInv
      <4>2. QED
        BY <2>4, <3>2, <3>3, <3>5, <4>1, EmbedNotes
    <3>6. QED
      BY <2>4, <3>1, <3>2, <3>3, <3>4, <3>5
  <2>5. QED
    BY <2>2, <2>3, <2>4
<1>4. QED
  BY <1>1, <1>2, <1>3 DEF Next

LEMMA LiveStep ==
  ASSUME Types, LoneInv, [Next]_vars, NEW p \in Procs, NEW m \in Messages,
         lone[p], pc[p] = "embed", pc'[p] = "done", vec[m] # 0, vec'[m] = 0
  PROVE  /\ ProviderOf[SessionOf[m]] \in cmd[p].scope
         /\ text[m] = 0 \/ ProviderOf[SessionOf[m]] \in broken
<1>1. Flush(p)
  <2>1. ~(UNCHANGED vars) /\ ~Environment
    BY EnvironmentFrame DEF vars
  <2>2. PICK q \in Procs : Process(q)
    BY <2>1 DEF Next
  <2>3. Process(p)
    BY <2>2, ProcessOwn DEF Own
  <2>4. ~Leave(p)
    BY LeaveOwn
  <2>5. QED
    BY <2>3, <2>4 DEF Process, Start, Open, ResetFile, ResetDone, Create, WriteSentinel, Build,
       Consent, ConsentUnreadable, OpenStore, StoreCorrupt, Embed, EmbedderFails, Query, Probe,
       Unprobe, CheckDir, CheckFails, RemoveEntry, RemoveConfig, RemoveProgram, End, Die
<1>2. Noted(p) /\ InMemory(p) /\ found[p] = Discovered(cmd[p].scope) /\ todo[p] = {}
  BY <1>1 DEF LoneInv, Pass, Flush
<1>3. mem[p][m] # 0
  BY <1>2 DEF InMemory
<1>4. m \notin Kept(p)
  BY <1>1, <1>3 DEF Flush
<1>5. ~skipped[p] /\ ProviderOf[SessionOf[m]] \in cmd[p].scope /\ m \notin live[p]
  BY <1>4 DEF Kept
<1>6. text[m] = 0 \/ SessionOf[m] \notin Discovered(cmd[p].scope)
  BY <1>2, <1>5 DEF Noted
<1>7. SessionOf[m] \in Sessions
  BY ConstantsAssumption
<1>8. QED
  BY <1>5, <1>6, <1>7 DEF Discovered

\* An undisturbed pass drops a vector only if its message has lost its text or
\* its provider, in the pass's scope, could not be discovered (enabled.rs).
THEOREM VectorsCorrect == Spec => LiveVectorsSurvive
<1>1. Init => LoneInv
  BY DEF Init, LoneInv
<1>2. Types /\ LoneInv /\ [Next]_vars =>
        [\A p \in Procs, m \in Messages :
           lone[p] /\ pc[p] = "embed" /\ pc'[p] = "done" /\ vec[m] # 0 /\ vec'[m] = 0 =>
             /\ ProviderOf[SessionOf[m]] \in cmd[p].scope
             /\ text[m] = 0 \/ ProviderOf[SessionOf[m]] \in broken]_vars
  BY LiveStep
<1>3. QED
  BY <1>1, <1>2, TypesInit, TypesStep, LoneStep, PTL DEF Spec, LiveVectorsSurvive

(***************************************************************************)
(* An uninstall can be run again.  One that nothing disturbs has found     *)
(* nothing unknown in the directory, and each of its removals finds the    *)
(* earlier ones completed and the later ones still to be made.             *)
(***************************************************************************)
Underway(p) ==
  /\ pc[p] \in {"check", "remove", "config", "marker", "binary"} => "binary" \in installed
  /\ pc[p] \in {"check", "remove", "config", "marker"} => "marker" \in installed
  /\ pc[p] = "remove" => UnknownIn = {}
  /\ pc[p] \in {"config", "marker", "binary"} => dir = {}
  /\ pc[p] \in {"marker", "binary"} => "config" \notin installed
  /\ pc[p] = "binary" => "marker" \notin installed

UninstallInv == \A p \in Procs : lone[p] => Underway(p)

\* A run that is lone after a step has just started or made the step itself.
LEMMA LoneMoves ==
  ASSUME Types, LoneInv, NEW p \in Procs, Process(p), NEW r \in Procs, lone'[r]
  PROVE  p = r /\ ((\E c \in Commands : Start(r, c)) \/ (pc[r] # "idle" /\ lone[r]))
<1>1. ASSUME NEW c \in Commands, Start(p, c) PROVE p = r
  BY <1>1 DEF Start
<1>2. CASE ~(\E c \in Commands : Start(p, c))
  <2>1. pc[p] # "idle"
    BY <1>2 DEF Process, Open, ResetFile, ResetDone, Create, WriteSentinel, Build,
       Consent, ConsentUnreadable, OpenStore, StoreCorrupt, Embed, EmbedderFails, Flush,
       Query, Probe, Unprobe, CheckDir, CheckFails, RemoveEntry, RemoveConfig,
       RemoveProgram, End, Die
  <2>2. Leave(p) \/ lone' = lone
    BY <1>2 DEF Process, Open, ResetFile, ResetDone, Create, WriteSentinel, Build,
       Consent, ConsentUnreadable, OpenStore, StoreCorrupt, Embed, EmbedderFails, Flush,
       Query, Probe, Unprobe, CheckDir, CheckFails, RemoveEntry, RemoveConfig,
       RemoveProgram, End, Die, Refuse, Same, history
  <2>3. lone[r] /\ (p = r \/ lone'[r] = lone[r])
    BY <2>2, Zenon DEF Leave, Types, TypeFlags
  <2>4. p = r
    BY <2>1, <2>3 DEF LoneInv, OthersIdle
  <2>5. QED
    BY <2>1, <2>3, <2>4
<1>3. QED
  BY <1>1, <1>2

LEMMA UninstallGoesOn ==
  ASSUME Types, LoneInv, NEW p \in Procs, Process(p), pc[p] # "idle", lone[p], lone'[p], Underway(p)
  PROVE  Underway(p)'
<1>1. ~Leave(p) /\ ~(\E c \in Commands : Start(p, c))
  BY LeaveOwn DEF Start
<1>2. \A step : Go(p, step) => pc'[p] = step
  BY GoOwn
<1>3. /\ \A q \in Procs \ {p} : pc'[q] = "idle"
      /\ pc'[p] # "unprobe" => UnknownIn' = dir' \cap Unknown
  BY ProcessOwn DEF Own, LoneInv, OthersIdle, UnknownIn
<1>4. CASE CheckDir(p)
  <2>1. UNCHANGED <<dir, installed>> /\ pc[p] = "check"
    BY <1>4 DEF CheckDir, Same
  <2>2. (pc'[p] = "remove" /\ UnknownIn = {}) \/ (pc'[p] = "config" /\ dir = {})
    BY <1>2, <1>4 DEF CheckDir, MayRemove
  <2>3. UnknownIn = {} => dir \cap Unknown = {}
    BY DEF UnknownIn
  <2>4. QED
    BY <1>3, <2>1, <2>2, <2>3 DEF Underway
<1>5. CASE RemoveEntry(p)
  <2>1. installed' = installed /\ pc[p] = "remove"
    BY <1>5 DEF RemoveEntry, Same
  <2>2. (pc'[p] = "remove" /\ dir' \subseteq dir) \/ (pc'[p] = "config" /\ dir' = {})
    BY <1>2, <1>5 DEF RemoveEntry, Remove
  <2>3. dir \cap Unknown = {}
    BY <2>1 DEF Underway, UnknownIn
  <2>4. QED
    BY <1>3, <2>1, <2>2, <2>3 DEF Underway
<1>6. CASE RemoveConfig(p)
  <2>1. /\ installed' = installed \ {"config"} /\ dir' = dir
        /\ pc[p] = "config" /\ pc'[p] = "marker"
    BY <1>2, <1>6 DEF RemoveConfig
  <2>2. QED
    BY <2>1 DEF Underway
<1>7. CASE RemoveProgram(p)
  <2>1. /\ installed' = installed \ {pc[p]} /\ dir' = dir
        /\ (pc[p] = "marker" /\ pc'[p] = "binary") \/ (pc[p] = "binary" /\ pc'[p] = "done")
    BY <1>2, <1>7 DEF RemoveProgram
  <2>2. QED
    BY <2>1 DEF Underway
<1>8. CASE ~CheckDir(p) /\ ~RemoveEntry(p) /\ ~RemoveConfig(p) /\ ~RemoveProgram(p)
  <2>1. pc'[p] \notin {"check", "remove", "config", "marker", "binary"}
    BY <1>1, <1>2, <1>8 DEF Process, Open, ResetFile, ResetDone, Create, WriteSentinel, Build,
       Consent, ConsentUnreadable, OpenStore, StoreCorrupt, Embed, EmbedderFails, Flush, Query,
       Probe, Unprobe, CheckFails, End, Die, Refuse
  <2>2. QED
    BY <2>1 DEF Underway
<1>9. QED
  BY <1>4, <1>5, <1>6, <1>7, <1>8

LEMMA UninstallStep ==
  Types /\ LoneInv /\ UninstallInv /\ [Next]_vars => UninstallInv'
<1> SUFFICES ASSUME Types, LoneInv, UninstallInv, [Next]_vars, NEW r \in Procs, lone'[r]
             PROVE  Underway(r)'
  BY DEF UninstallInv
<1>1. CASE UNCHANGED vars
  BY <1>1 DEF vars, UninstallInv, Underway, UnknownIn
<1>2. CASE Environment
  BY <1>2, EnvironmentFrame
<1>3. ASSUME NEW c \in Commands, Start(r, c)
      PROVE  Underway(r)'
  <2>1. pc'[r] = FirstStep(c.kind) /\ UNCHANGED installed
    BY <1>3 DEF Start, Types, TypeRuns
  <2>2. /\ c.kind = "uninstall" => {"binary", "marker"} \subseteq installed
        /\ c.kind # "uninstall" => pc'[r] \in {"open", "probe"}
    BY <1>3, <2>1, ConstantsAssumption DEF Start, SelfManaged, FirstStep, IndexCommands,
       OtherCommands, Command
  <2>3. c.kind = "uninstall" => pc'[r] = "check"
    BY <2>1 DEF FirstStep
  <2>4. QED
    BY <2>1, <2>2, <2>3 DEF Underway
<1>4. ASSUME NEW p \in Procs, Process(p)
      PROVE  Underway(r)'
  BY <1>3, <1>4, LoneMoves, UninstallGoesOn DEF UninstallInv
<1>5. QED
  BY <1>1, <1>2, <1>4 DEF Next

LEMMA ResumeStep ==
  ASSUME Types, LoneInv, UninstallInv, [Next]_vars, NEW p \in Procs, lone[p],
         pc[p] \in {"remove", "config", "marker", "binary"}, pc'[p] = "idle"
  PROVE  \/ CanUninstall'
         \/ installed' = {"binary"} /\ dir' = {}
         \/ pc[p] = "remove" /\ "sentinel" \notin dir
<1>1. Die(p)
  <2>1. ~(UNCHANGED vars) /\ ~Environment
    BY EnvironmentFrame DEF vars
  <2>2. PICK q \in Procs : Process(q)
    BY <2>1 DEF Next
  <2>3. Process(p)
    BY <2>2, ProcessOwn DEF Own
  <2>4. \A step : Go(p, step) => pc'[p] = step
    BY GoOwn
  <2>5. QED
    BY <2>3, <2>4 DEF Process, Start, Open, ResetFile, ResetDone, Create, WriteSentinel, Build,
       Consent, ConsentUnreadable, OpenStore, StoreCorrupt, Embed, EmbedderFails, Flush, Query,
       Probe, Unprobe, CheckDir, CheckFails, RemoveEntry, RemoveConfig, RemoveProgram, End
<1>2. installed' = installed /\ dir' = dir
  BY <1>1 DEF Die
<1>3. Underway(p)
  BY DEF UninstallInv
<1>4. CASE pc[p] = "remove" /\ "sentinel" \in dir
  <2>1. \A q \in Procs : pc'[q] = "idle"
    BY <1>1, LeaveOwn DEF Die, Own, LoneInv, OthersIdle
  <2>2. UnknownIn' = {}
    BY <1>2, <1>3, <1>4, <2>1 DEF Underway, UnknownIn
  <2>3. QED
    BY <1>2, <1>3, <1>4, <2>2 DEF Underway, CanUninstall, MayRemove
<1>5. CASE pc[p] \in {"config", "marker"}
  BY <1>2, <1>3, <1>5 DEF Underway, CanUninstall
<1>6. CASE pc[p] = "binary"
  <2>1. installed \subseteq {"binary", "marker", "config"}
    BY DEF Types, TypeShared
  <2>2. QED
    BY <1>2, <1>3, <1>6, <2>1 DEF Underway
<1>7. QED
  BY <1>4, <1>5, <1>6

\* An undisturbed uninstall that dies or fails can be run again and then goes
\* all the way, unless it stopped between the removal of the sentinel and that
\* of the directory (uninstall.rs, storage.rs).
THEOREM UninstallCorrect == Spec => UninstallCanResume
<1>1. Init => LoneInv /\ UninstallInv
  BY DEF Init, LoneInv, UninstallInv
<1>2. Types /\ LoneInv /\ UninstallInv /\ [Next]_vars =>
        [\A p \in Procs :
           lone[p] /\ pc[p] \in {"remove", "config", "marker", "binary"} /\ pc'[p] = "idle" =>
             \/ CanUninstall'
             \/ installed' = {"binary"} /\ dir' = {}
             \/ pc[p] = "remove" /\ "sentinel" \notin dir]_vars
  BY ResumeStep
<1>3. QED
  BY <1>1, <1>2, TypesInit, TypesStep, LoneStep, UninstallStep, PTL DEF Spec, UninstallCanResume

(***************************************************************************)
(* Hints.  What the command of a hint has put right stays right while it   *)
(* runs on undisturbed, and its last step leaves nothing to complain of.   *)
(***************************************************************************)
Built == {"consent", "store", "embed", "done"}
Asked == {"store", "embed", "done"}

Repaired(p) ==
  /\ cmd[p].kind = "index" /\ pc[p] \in Pass \cup {"done"}
  /\ pc[p] \in Built => "meta" \in dir /\ Good("manifest")
  /\ pc[p] \in Asked => ("consent" \in dir => Good("consent"))
  /\ pc[p] = "done" => Good("vectors") \/ ~Good("consent")

HintInv == \A p \in Procs : lone[p] /\ flagged[p] # {} => Repaired(p)

\* A run that follows a hint is an index run at its first step.
LEMMA HintStart ==
  ASSUME Types, NEW p \in Procs, NEW c \in Commands, Start(p, c),
         NEW r \in Procs, flagged'[r] # {}
  PROVE  r = p /\ Repaired(r)'
<1>1. r = p /\ \E k \in Formed : Hint(k) = Option(c)
  BY DEF Start
<1>2. c.kind = "index"
  <2>1. \A k \in Formed : Hint(k) # "none"
    BY DEF Hint, Formed
  <2>2. c.kind = "index" \/ (c.kind # "index" /\ c.force = FALSE /\ c.accept = FALSE)
    BY ConstantsAssumption DEF IndexCommands, OtherCommands, Command
  <2>3. c.kind # "index" => Option(c) = "none"
    BY <2>2 DEF Option
  <2>4. QED
    BY <1>1, <2>1, <2>3
<1>3. pc'[p] = "open" /\ cmd'[p] = c
  BY <1>2 DEF Start, FirstStep, Types, TypeRuns
<1>4. QED
  BY <1>1, <1>2, <1>3 DEF Repaired, Pass, Built, Asked

\* The steps of an index run up to the build: nothing is promised before it.
LEMMA HintBuild ==
  ASSUME Types, NEW p \in Procs, Repaired(p), cmd'[p] = cmd[p], ~Leave(p),
         \/ Open(p) \/ ResetFile(p) \/ ResetDone(p)
         \/ Create(p) \/ WriteSentinel(p) \/ Build(p)
  PROVE  Repaired(p)'
<1>1. \A step : Go(p, step) => pc'[p] = step
  BY GoOwn
<1>2. CASE Build(p)
  <2>1. /\ "meta" \in dir /\ dir' = dir \cup {"manifest"}
        /\ form' = [form EXCEPT !["manifest"] = "good"] /\ Go(p, "consent")
    BY <1>2 DEF Build, Refuse, Repaired
  <2>2. pc'[p] = "consent" /\ form'["manifest"] = "good"
    BY <1>1, <2>1 DEF Types, TypeShared, Formed
  <2>3. QED
    BY <2>1, <2>2 DEF Repaired, Pass, Asked, Good
<1>3. CASE Open(p) \/ ResetFile(p) \/ ResetDone(p) \/ Create(p) \/ WriteSentinel(p)
  <2>1. pc'[p] \in Pass \ (Built \cup Asked \cup {"done"})
    BY <1>1, <1>3 DEF Open, ResetFile, ResetDone, Create, WriteSentinel, Refuse, Pass, Built, Asked
  <2>2. QED
    BY <2>1 DEF Repaired, Pass, Built, Asked
<1>4. QED
  BY <1>2, <1>3

\* The embedding pass spoils neither the manifest nor the consent, and where it
\* goes on after the consent it ends with a store that can be read.
LEMMA HintEmbed ==
  ASSUME Types, NEW p \in Procs, Repaired(p), cmd'[p] = cmd[p], ~Leave(p),
         Consent(p) \/ OpenStore(p) \/ Embed(p) \/ Flush(p)
  PROVE  Repaired(p)'
<1>1. \A step : Go(p, step) => pc'[p] = step
  BY GoOwn
<1>2. form \in [Formed -> Forms] /\ Formed = {"meta", "manifest", "consent", "vectors"}
  BY DEF Types, TypeShared, Formed
<1>3. "meta" \in dir /\ Good("manifest") /\ cmd[p].kind = "index"
  BY DEF Repaired, Built, Consent, OpenStore, Embed, Flush
<1>4. CASE Consent(p)
  <2>1. /\ pc'[p] \in {"store", "done"} /\ dir \subseteq dir'
        /\ form' = form \/ form' = [form EXCEPT !["consent"] = "good"]
    BY <1>1, <1>4 DEF Consent
  <2>2. "meta" \in dir' /\ Good("manifest")'
    BY <1>2, <1>3, <2>1 DEF Good
  <2>3. "consent" \in dir' => Good("consent")'
    BY <1>2, <1>4 DEF Consent, Good
  <2>4. pc'[p] = "done" => ~Good("consent")'
    BY <1>1, <1>4 DEF Consent, Good
  <2>5. QED
    BY <1>3, <2>1, <2>2, <2>3, <2>4 DEF Repaired, Pass
<1>5. ASSUME ~Consent(p)
      PROVE  /\ dir' \subseteq dir \cup {"models", "vectors"} /\ dir \subseteq dir' \cup {"vectors"}
             /\ \A f \in {"manifest", "consent"} : form'[f] = form[f]
  BY <1>2, <1>5 DEF OpenStore, Embed, Flush, Remove
<1>6. ASSUME ~Consent(p)
      PROVE  "meta" \in dir' /\ Good("manifest")' /\ ("consent" \in dir' => Good("consent")')
  BY <1>3, <1>5, <1>6 DEF Repaired, Asked, OpenStore, Embed, Flush, Good
<1>7. CASE OpenStore(p) \/ Embed(p)
  <2>1. pc'[p] = "embed" /\ ~Consent(p)
    BY <1>1, <1>7 DEF OpenStore, Embed, Consent
  <2>2. QED
    BY <1>3, <1>6, <2>1 DEF Repaired, Pass
<1>8. CASE Flush(p)
  <2>1. pc'[p] = "done" /\ ~Consent(p) /\ Good("vectors")'
    BY <1>1, <1>2, <1>8 DEF Flush, Consent, Good
  <2>2. QED
    BY <1>3, <1>6, <2>1 DEF Repaired, Pass
<1>9. QED
  BY <1>4, <1>7, <1>8

LEMMA HintStep ==
  Types /\ LoneInv /\ HintInv /\ [Next]_vars => HintInv'
<1> SUFFICES ASSUME Types, LoneInv, HintInv, [Next]_vars,
                    NEW r \in Procs, lone'[r], flagged'[r] # {}
             PROVE  Repaired(r)'
  BY DEF HintInv
<1>1. CASE UNCHANGED vars
  BY <1>1 DEF vars, HintInv, Repaired, Good
<1>2. CASE Environment
  BY <1>2, EnvironmentFrame
<1>3. ASSUME NEW p \in Procs, Process(p)
      PROVE  Repaired(r)'
  <2>1. CASE \E c \in Commands : Start(p, c)
    BY <2>1, HintStart
  <2>2. CASE ~(\E c \in Commands : Start(p, c))
    <3>1. pc[p] # "idle"
      BY <1>3, <2>2 DEF Process, Open, ResetFile, ResetDone, Create, WriteSentinel, Build,
         Consent, ConsentUnreadable, OpenStore, StoreCorrupt, Embed, EmbedderFails, Flush,
         Query, Probe, Unprobe, CheckDir, CheckFails, RemoveEntry, RemoveConfig,
         RemoveProgram, End, Die
    <3>2. Leave(p) \/ UNCHANGED <<lone, flagged>>
      BY <1>3, <2>2 DEF Process, Open, ResetFile, ResetDone, Create, WriteSentinel, Build,
         Consent, ConsentUnreadable, OpenStore, StoreCorrupt, Embed, EmbedderFails, Flush,
         Query, Probe, Unprobe, CheckDir, CheckFails, RemoveEntry, RemoveConfig,
         RemoveProgram, End, Die, Refuse, Same, history
    <3>3. lone[r] /\ flagged[r] # {}
      <4>1. CASE UNCHANGED <<lone, flagged>>
        BY <4>1
      <4>2. CASE Leave(p)
        <5>1. r # p
          BY <4>2, LeaveOwn
        <5>2. lone'[r] = lone[r]
          BY <4>2, <5>1, Zenon DEF Leave, Types, TypeFlags
        <5>3. flagged'[r] = flagged[r]
          BY <4>2, <5>1 DEF Leave, Types, TypeFlags
        <5>4. QED
          BY <5>2, <5>3
      <4>3. QED
        BY <3>2, <4>1, <4>2
    <3>4. r = p
      BY <3>1, <3>3 DEF LoneInv, OthersIdle
    <3>5. Repaired(p)
      BY <3>3, <3>4 DEF HintInv
    <3>6. ~Leave(p)
      BY <3>4, LeaveOwn
    <3>7. cmd' = cmd
      BY <1>3, <3>1, <3>4, LoneGoesOn
    <3>8. \/ Open(p) \/ ResetFile(p) \/ ResetDone(p)
          \/ Create(p) \/ WriteSentinel(p) \/ Build(p)
          \/ Consent(p) \/ OpenStore(p) \/ Embed(p) \/ Flush(p)
      BY <1>3, <2>2, <3>5, <3>6 DEF Process, Repaired, Pass, ConsentUnreadable, StoreCorrupt,
         EmbedderFails, Query, Probe, Unprobe, CheckDir, CheckFails, RemoveEntry,
         RemoveConfig, RemoveProgram, End, Die, Refuse
    <3>9. QED
      BY <3>4, <3>5, <3>6, <3>7, <3>8, HintBuild, HintEmbed
  <2>3. QED
    BY <2>1, <2>2
<1>4. QED
  BY <1>1, <1>2, <1>3 DEF Next

\* The index command that a hint of health names, run to its end undisturbed,
\* makes the check say "ok" (health/index.rs, health/sidecars/embeddings.rs).
THEOREM HintsCorrect == Spec => []HintsWork
<1>1. Init => LoneInv /\ HintInv
  BY DEF Init, LoneInv, HintInv
<1>2. Types /\ HintInv => HintsWork
  <2> SUFFICES ASSUME Types, HintInv, NEW p \in Procs, pc[p] = "done", lone[p], NEW k \in flagged[p]
               PROVE  Says(k) = "ok" \/ (k = "vectors" /\ ~Good("consent"))
    BY DEF HintsWork
  <2>1. k \in Formed
    BY DEF Types, TypeFlags
  <2>2. Repaired(p)
    BY DEF HintInv
  <2>3. QED
    BY <2>1, <2>2 DEF Repaired, Built, Asked, Says, Good, Formed
<1>3. QED
  BY <1>1, <1>2, TypesInit, TypesStep, LoneStep, HintStep, PTL DEF Spec
=============================================================================
