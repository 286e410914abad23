------------------------- MODULE SearchIndexProofs -------------------------
(***************************************************************************)
(* Proofs about SearchIndex, for every number of processes, providers,     *)
(* files, sessions and notes and every bound on the clock.                 *)
(***************************************************************************)
EXTENDS SearchIndex, TLAPS

\* What the constants' assumption says of the job descriptions.
LEMMA JobShape ==
  ASSUME NEW j \in Jobs \cup {NoJob}
  PROVE  /\ j.first \in {"idle", "clear", "clear_providers", "build"}
         /\ j.scope \subseteq Providers /\ j.prune \subseteq Providers
  BY ConstantsAssumption DEF AllJobs, IndexAll, IndexOne, IndexVisible, Search,
     TuiIndex, Reindex, Job, NoJob

\* A job that is started begins with one of the three index transactions.
LEMMA FirstStep ==
  ASSUME NEW j \in Jobs
  PROVE  j.first \in {"clear", "clear_providers", "build"}
  BY ConstantsAssumption DEF AllJobs, IndexAll, IndexOne, IndexVisible, Search,
     TuiIndex, Reindex, Job

\* The working state of a process outside its transactions is well formed.
LEMMA NoTxnType == NoTxn \in Txn /\ NoTxn.cur \notin Sessions
  BY ConstantsAssumption DEF NoTxn, Txn, Blank, Items, Version, Forms

\* Removing entries keeps the range of the others.
LEMMA WithoutType ==
  ASSUME NEW f \in [Items -> Version], NEW S
  PROVE  Without(f, S) \in [Items -> Version]
  BY ConstantsAssumption DEF Without, Version

----------------------------------------------------------------------------
LEMMA LeaveType ==
  ASSUME TypeOK, NEW p \in Procs, Leave(p)
  PROVE  /\ pc' \in [Procs -> {"idle", "begin", "notes", "scan", "load", "save"}]
         /\ step' \in [Procs -> Steps]
         /\ job' \in [Procs -> Jobs \cup {NoJob}]
         /\ found' \in [Procs -> [Sessions -> Version]]
         /\ txn' \in [Procs -> Txn]
         /\ \A q \in Procs : pc'[q] = "load" <=> txn'[q].cur \in Sessions
<1>1. [s \in Sessions |-> 0] \in [Sessions -> Version]
  BY ConstantsAssumption DEF Version
<1>2. QED
  BY <1>1, NoTxnType DEF TypeOK, Leave, Steps

LEMMA ContinueType ==
  ASSUME TypeOK, NEW p \in Procs, Continue(p)
  PROVE  /\ pc' \in [Procs -> {"idle", "begin", "notes", "scan", "load", "save"}]
         /\ step' \in [Procs -> Steps]
         /\ job' \in [Procs -> Jobs \cup {NoJob}]
         /\ found' \in [Procs -> [Sessions -> Version]]
         /\ txn' \in [Procs -> Txn]
         /\ \A q \in Procs : pc'[q] = "load" <=> txn'[q].cur \in Sessions
<1> DEFINE next == NextStep(job[p], step[p])
           fresh == [NoTxn EXCEPT !.errors = txn[p].errors]
<1>1. CASE next = "idle"
  BY <1>1, LeaveType DEF Continue
<1>2. CASE next # "idle"
  <2>1. next \in Steps
    BY DEF NextStep, Steps
  <2>2. fresh \in Txn /\ fresh.cur \notin Sessions
    BY NoTxnType DEF Txn, TypeOK
  <2>3. /\ pc' = [pc EXCEPT ![p] = "begin"]
        /\ step' = [step EXCEPT ![p] = next]
        /\ txn' = [txn EXCEPT ![p] = fresh]
        /\ UNCHANGED <<job, found>>
    BY <1>2 DEF Continue
  <2> HIDE DEF next, fresh
  <2>4. QED
    BY <2>1, <2>2, <2>3 DEF TypeOK
<1>3. QED
  BY <1>1, <1>2

LEMMA CommitType ==
  ASSUME TypeOK, NEW p \in Procs, NEW t \in Txn, t.cur \notin Sessions, Commit(p, t)
  PROVE  TypeOK'
  BY DEF Commit, TypeOK, sources, Txn

LEMMA LoadManifestType ==
  ASSUME TypeOK
  PROVE  /\ LoadManifestOrReset \in Txn /\ LoadManifestOrReset.cur \notin Sessions
         /\ Reset \in Txn /\ Reset.cur \notin Sessions
<1>1. Reset \in Txn /\ Reset.cur \notin Sessions
  BY NoTxnType DEF Reset, Txn, Forms
<1>2. [NoTxn EXCEPT !.docs = docs, !.man = manifest, !.form = form] \in Txn
  BY NoTxnType DEF TypeOK, Txn
<1>3. QED
  BY <1>1, <1>2, NoTxnType DEF LoadManifestOrReset, Txn

LEMMA SkipFailedType ==
  ASSUME NEW t \in Txn, NEW s \in Sessions
  PROVE  SkipFailed(t, s) \in Txn /\ SkipFailed(t, s).cur \notin Sessions
  BY WithoutType, ConstantsAssumption DEF SkipFailed, Txn

LEMMA FingerprintType ==
  ASSUME TypeOK, NEW t \in Txn, NEW f \in Files
  PROVE  Fingerprint(t, f) \in Version \ {0}
  BY DEF TypeOK, Txn, Fingerprint

LEMMA ReindexedType ==
  ASSUME TypeOK, NEW t \in Txn, NEW s \in Sessions
  PROVE  Reindexed(t, s) \in Txn /\ Reindexed(t, s).cur \notin Sessions
<1>1. FileOf[s] \in Files
  BY ConstantsAssumption
<1>2. QED
  BY <1>1, FingerprintType, ConstantsAssumption DEF Reindexed, TypeOK, Txn, Items

----------------------------------------------------------------------------
LEMMA TypeInit == Init => TypeOK
<1> SUFFICES ASSUME Init PROVE TypeOK
  OBVIOUS
<1>1. 0 \in Version /\ 1 \in Version
  BY ConstantsAssumption DEF Version
<1>2. /\ clock \in Version /\ disk \in [Files -> Version \ {0}]
      /\ gone \subseteq Files /\ unreadable \subseteq Files /\ broken \subseteq Providers
      /\ note \in [Notes -> Version] /\ manifest \in [Items -> Version]
  BY <1>1 DEF Init, Blank
<1>3. docs \in [Items -> Version] /\ form \in Forms
  BY <1>1 DEF Init, Blank
<1>4. /\ pc \in [Procs -> {"idle", "begin", "notes", "scan", "load", "save"}]
      /\ step \in [Procs -> Steps] /\ job \in [Procs -> Jobs \cup {NoJob}]
      /\ found \in [Procs -> [Sessions -> Version]]
  BY <1>1 DEF Init, Steps
<1>5. txn \in [Procs -> Txn] /\ \A p \in Procs : pc[p] = "load" <=> txn[p].cur \in Sessions
  BY NoTxnType DEF Init
<1>6. QED
  BY <1>2, <1>3, <1>4, <1>5 DEF TypeOK

LEMMA TypeEnvironment == TypeOK /\ Environment => TypeOK'
<1> SUFFICES ASSUME TypeOK, Environment PROVE TypeOK'
  OBVIOUS
<1>1. ASSUME Tick PROVE clock + 1 \in Version \ {0} /\ clock' \in Version
  BY <1>1, ConstantsAssumption DEF Tick, TypeOK, Version
<1>2. ASSUME NEW f \in Files, EditFile(f) PROVE TypeOK'
  BY <1>1, <1>2 DEF EditFile, TypeOK, index, procs
<1>3. ASSUME NEW f \in Files, DeleteOrRestoreFile(f) PROVE TypeOK'
  BY <1>1, <1>3 DEF DeleteOrRestoreFile, Flip, TypeOK, index, procs
<1>4. ASSUME NEW f \in Files, ChangeReadability(f) PROVE TypeOK'
  BY <1>1, <1>4 DEF ChangeReadability, Flip, TypeOK, index, procs
<1>5. ASSUME NEW q \in Providers, BreakOrMendProvider(q) PROVE TypeOK'
  BY <1>1, <1>5 DEF BreakOrMendProvider, Flip, TypeOK, index, procs
<1>6. ASSUME NEW n \in Notes, ChangeNote(n) PROVE TypeOK'
  <2>1. PICK v \in {0, clock + 1} : note' = [note EXCEPT ![n] = v]
    BY <1>6 DEF ChangeNote
  <2>2. v \in Version
    BY <1>1, <1>6, <2>1, ConstantsAssumption DEF ChangeNote, Version
  <2>3. QED
    BY <1>1, <1>6, <2>1, <2>2 DEF ChangeNote, TypeOK, index, procs
<1>7. QED
  BY <1>2, <1>3, <1>4, <1>5, <1>6 DEF Environment

LEMMA TypeProcess ==
  ASSUME TypeOK, NEW p \in Procs, Process(p)
  PROVE  TypeOK'
<1>1. ASSUME NEW j \in Jobs, Start(p, j) PROVE TypeOK'
  <2>1. Discovered(j.scope) \in [Sessions -> Version]
    BY ConstantsAssumption DEF Discovered, TypeOK, Version
  <2>2. j.first \in Steps
    BY FirstStep DEF Steps
  <2>3. QED
    BY <1>1, <2>1, <2>2 DEF Start, TypeOK, sources, index
<1>2. ASSUME Clear(p) PROVE TypeOK'
  BY <1>2, CommitType, NoTxnType DEF Clear
<1>3. ASSUME ClearProviders(p) PROVE TypeOK'
  <2> DEFINE t == LoadManifestOrReset
             S == SessionsOf(job[p].prune)
             u == [t EXCEPT !.docs = Without(t.docs, S), !.man = Without(t.man, S)]
  <2>1. t \in Txn /\ t.cur \notin Sessions
    BY LoadManifestType
  <2> HIDE DEF t, S
  <2>2. u \in Txn /\ u.cur \notin Sessions
    BY <2>1, WithoutType DEF Txn
  <2>3. Commit(p, u)
    BY <1>3 DEF ClearProviders, t, S
  <2> HIDE DEF u
  <2>4. QED
    BY <2>2, <2>3, CommitType
<1>4. ASSUME BeginBuild(p) PROVE TypeOK'
  <2> DEFINE t == IF form = "legacy" THEN Reset ELSE LoadManifestOrReset
             u == [t EXCEPT !.todo = FoundBy(p)]
  <2>1. t \in Txn /\ t.cur \notin Sessions
    BY LoadManifestType
  <2> HIDE DEF t
  <2>2. u \in Txn /\ u.cur \notin Sessions
    BY <2>1 DEF Txn, FoundBy
  <2>3. /\ txn' = [txn EXCEPT ![p] = u] /\ pc' = [pc EXCEPT ![p] = "scan"]
        /\ UNCHANGED <<sources, index, step, job, found>>
    BY <1>4 DEF BeginBuild, t
  <2> HIDE DEF u
  <2>4. QED
    BY <2>2, <2>3 DEF TypeOK, sources, index
<1>5. ASSUME NEW s \in Sessions, FingerprintSession(p, s) PROVE TypeOK'
  <2> DEFINE t == txn[p]
             fp == Fingerprint(t, FileOf[s])
             known == [t EXCEPT !.cache[FileOf[s]] = fp]
  <2>1. t \in Txn /\ t.cur \notin Sessions
    BY <1>5 DEF FingerprintSession, TypeOK
  <2>2. FileOf[s] \in Files
    BY ConstantsAssumption
  <2>3. fp \in Version
    BY <2>1, <2>2, FingerprintType
  <2>4. \E u \in Txn :
          /\ txn' = [txn EXCEPT ![p] = u]
          /\ \/ u.cur \notin Sessions /\ UNCHANGED pc
             \/ u.cur \in Sessions /\ pc' = [pc EXCEPT ![p] = "load"]
    <3>1. CASE /\ txn' = [txn EXCEPT ![p] = SkipFailed(t, s)]
               /\ UNCHANGED pc
      BY <3>1, <2>1, SkipFailedType
    <3>2. CASE /\ txn' = [txn EXCEPT ![p] = [known EXCEPT !.todo = t.todo \ {s}]]
               /\ UNCHANGED pc
      <4> DEFINE u == [known EXCEPT !.todo = t.todo \ {s}]
      <4> HIDE DEF fp
      <4>1. u \in Txn /\ u.cur \notin Sessions
        BY <2>1, <2>2, <2>3 DEF Txn
      <4>2. QED
        BY <4>1, <3>2
    <3>3. CASE /\ txn' = [txn EXCEPT ![p] = [known EXCEPT !.cur = s]]
               /\ pc' = [pc EXCEPT ![p] = "load"]
      <4> DEFINE u == [known EXCEPT !.cur = s]
      <4> HIDE DEF fp
      <4>1. u \in Txn /\ u.cur \in Sessions
        BY <2>1, <2>2, <2>3 DEF Txn
      <4>2. QED
        BY <4>1, <3>3
    <3>4. QED
      BY <1>5, <3>1, <3>2, <3>3 DEF FingerprintSession
  <2>5. UNCHANGED <<sources, index, step, job, found>> /\ pc[p] = "scan"
    BY <1>5 DEF FingerprintSession
  <2>6. QED
    BY <2>4, <2>5 DEF TypeOK, sources, index
<1>6. ASSUME LoadSession(p) PROVE TypeOK'
  <2> DEFINE t == txn[p]
             u == IF Unreadable(FileOf[t.cur]) THEN SkipFailed(t, t.cur)
                  ELSE Reindexed(t, t.cur)
  <2>1. t \in Txn /\ t.cur \in Sessions
    BY <1>6 DEF LoadSession, TypeOK
  <2>2. u \in Txn /\ u.cur \notin Sessions
    BY <2>1, SkipFailedType, ReindexedType
  <2>3. /\ txn' = [txn EXCEPT ![p] = u] /\ pc' = [pc EXCEPT ![p] = "scan"]
        /\ UNCHANGED <<sources, index, step, job, found>>
    BY <1>6 DEF LoadSession
  <2> HIDE DEF u
  <2>4. QED
    BY <2>2, <2>3 DEF TypeOK, sources, index
<1>7. ASSUME CommitBuild(p) PROVE TypeOK'
  <2> DEFINE t == txn[p]
             u == [t EXCEPT !.docs = Without(t.docs, Stale(p)),
                            !.man = Without(t.man, Stale(p))]
  <2>1. t \in Txn /\ t.cur \notin Sessions
    BY <1>7 DEF CommitBuild, TypeOK
  <2>2. u \in Txn /\ u.cur \notin Sessions
    BY <2>1, WithoutType DEF Txn
  <2>3. Commit(p, u)
    BY <1>7 DEF CommitBuild
  <2> HIDE DEF u
  <2>4. QED
    BY <2>2, <2>3, CommitType
<1>8. ASSUME ReadNotes(p) PROVE TypeOK'
  <2> DEFINE list == [n \in Notes |-> IF NoteRef[n] \in FoundBy(p) THEN note[n] ELSE 0]
             t == txn[p]
             u == [t EXCEPT !.list = list]
  <2>1. list \in [Notes -> Version]
    BY ConstantsAssumption DEF TypeOK, Version
  <2>2. t \in Txn /\ t.cur \notin Sessions
    BY <1>8 DEF ReadNotes, TypeOK
  <2>3. /\ txn' = [txn EXCEPT ![p] = u] /\ pc' = [pc EXCEPT ![p] = "notes"]
        /\ UNCHANGED <<sources, index, step, job, found>>
    BY <1>8 DEF ReadNotes
  <2> HIDE DEF list, t
  <2>4. u \in Txn /\ u.cur \notin Sessions
    BY <2>1, <2>2 DEF Txn
  <2> HIDE DEF u
  <2>5. QED
    BY <2>3, <2>4 DEF TypeOK, sources, index
<1>9. ASSUME IndexNotes(p) PROVE TypeOK'
  <2> DEFINE t == LoadManifestOrReset
             list == txn[p].list
             u == [t EXCEPT !.docs = WithNotes(t.docs, t.man, list),
                            !.man = WithNotes(t.man, t.man, list),
                            !.errors = txn[p].errors]
  <2>1. t \in Txn /\ t.cur \notin Sessions
    BY LoadManifestType
  <2>2. list \in [Notes -> Version] /\ txn[p].errors \subseteq Sessions
    BY DEF TypeOK, Txn
  <2>3. \A f, g \in [Items -> Version] : WithNotes(f, g, list) \in [Items -> Version]
    BY <2>2 DEF WithNotes
  <2> HIDE DEF t, list
  <2>4. u \in Txn /\ u.cur \notin Sessions
    BY <2>1, <2>2, <2>3 DEF Txn
  <2>5. Commit(p, u)
    BY <1>9 DEF IndexNotes, t, list
  <2> HIDE DEF u
  <2>6. QED
    BY <2>4, <2>5, CommitType
<1>10. ASSUME Save(p) PROVE TypeOK'
  <2>1. txn[p].man \in [Items -> Version] /\ txn[p].form \in Forms
    BY DEF TypeOK, Txn
  <2>2. QED
    BY <1>10, <2>1, ContinueType DEF Save, TypeOK, sources
<1>11. ASSUME Leave(p) \/ Continue(p), UNCHANGED <<sources, index>> PROVE TypeOK'
  BY <1>11, LeaveType, ContinueType DEF TypeOK, sources, index
<1>12. QED
  BY <1>1, <1>2, <1>3, <1>4, <1>5, <1>6, <1>7, <1>8, <1>9, <1>10, <1>11
  DEF Process, Progress, Build, Refused, ReadHits, Abort, TornCommit

\* Every variable keeps its type, for any number of processes, providers,
\* files, sessions and notes.
THEOREM TypeCorrect == Spec => []TypeOK
<1>1. TypeOK /\ [Next]_vars => TypeOK'
  <2> SUFFICES ASSUME TypeOK, [Next]_vars PROVE TypeOK'
    OBVIOUS
  <2>1. CASE UNCHANGED vars
    BY <2>1 DEF vars, TypeOK
  <2>2. QED
    BY <2>1, TypeEnvironment, TypeProcess DEF Next
<1>2. QED
  BY <1>1, TypeInit, PTL DEF Spec

----------------------------------------------------------------------------
(***************************************************************************)
(* What a transaction stages is safe to commit.                            *)
(***************************************************************************)
LEMMA VersionOrder == \A x \in Version : x \in Nat /\ 0 <= x
  BY DEF Version

LEMMA LoadManifestSafe ==
  ASSUME TypeOK, SafetyInv
  PROVE  TxnSafe(LoadManifestOrReset) /\ TxnSafe(Reset) /\ TxnSafe(NoTxn)
<1>1. \A f \in Files : 0 <= disk[f]
  BY VersionOrder DEF TypeOK
<1>2. \A s \in Sessions : s \in Items /\ FileOf[s] \in Files
  BY ConstantsAssumption DEF Items
<1>3. TxnSafe(NoTxn) /\ TxnSafe(Reset)
  BY <1>1, <1>2 DEF TxnSafe, NoTxn, Reset, Blank
<1>4. TxnSafe([NoTxn EXCEPT !.docs = docs, !.man = manifest, !.form = form])
  BY <1>1, <1>2 DEF TxnSafe, NoTxn, SafetyInv, NeverStaleUnnoticed, Vouched
<1>5. QED
  BY <1>3, <1>4 DEF LoadManifestOrReset

LEMMA WithoutSafe ==
  ASSUME TypeOK, NEW t \in Txn, TxnSafe(t), NEW S,
         NEW u \in Txn, u.docs = Without(t.docs, S), u.man = Without(t.man, S),
         u.cache = t.cache
  PROVE  TxnSafe(u)
<1>1. \A s \in Sessions : s \in Items /\ FileOf[s] \in Files
  BY ConstantsAssumption DEF Items
<1>2. \A f \in Files : 0 <= disk[f]
  BY VersionOrder DEF TypeOK
<1>3. QED
  BY <1>1, <1>2 DEF TxnSafe, Without

LEMMA SkipFailedSafe ==
  ASSUME TypeOK, NEW t \in Txn, TxnSafe(t), NEW s \in Sessions
  PROVE  TxnSafe(SkipFailed(t, s))
<1> DEFINE u == SkipFailed(t, s)
<1>1. u \in Txn
  BY SkipFailedType
<1>2. u.docs = Without(t.docs, {s}) /\ u.man = Without(t.man, {s}) /\ u.cache = t.cache
  BY DEF SkipFailed, Txn
<1> HIDE DEF u
<1>3. TxnSafe(u)
  BY <1>1, <1>2, WithoutSafe
<1>4. QED
  BY <1>3 DEF u

LEMMA ReindexedSafe ==
  ASSUME TypeOK, SafetyInv, NEW t \in Txn, TxnSafe(t), NEW s \in Sessions
  PROVE  TxnSafe(Reindexed(t, s))
<1> DEFINE fp == Fingerprint(t, FileOf[s])
           u == Reindexed(t, s)
<1>1. FileOf[s] \in Files /\ s \in Items
  BY ConstantsAssumption DEF Items
<1>2. disk[FileOf[s]] \in Nat /\ manifest[s] <= disk[FileOf[s]]
  BY <1>1, VersionOrder DEF TypeOK, SafetyInv
<1>3. fp <= disk[FileOf[s]]
  BY <1>1, <1>2 DEF Fingerprint, TxnSafe
<1> HIDE DEF fp
<1>4. u.cache = t.cache
  BY DEF Reindexed, Txn
<1>5. \A r \in Sessions : /\ u.docs[r] = IF r = s THEN disk[FileOf[s]] ELSE t.docs[r]
                          /\ u.man[r] = IF r = s THEN fp ELSE t.man[r]
  BY <1>1 DEF Reindexed, Txn, fp, Items
<1> HIDE DEF u
<1>6. TxnSafe(u)
  BY <1>2, <1>3, <1>4, <1>5 DEF TxnSafe
<1>7. QED
  BY <1>6 DEF u

----------------------------------------------------------------------------
(***************************************************************************)
(* The three ways an action moves a process through a transaction.         *)
(***************************************************************************)
MayWrite(p) == LockFree \/ Writing(p)

LEMMA StageSafe ==
  ASSUME TypeOK, SafetyInv, NEW p \in Procs, MayWrite(p),
         NEW t \in Txn, TxnSafe(t), txn' = [txn EXCEPT ![p] = t],
         \/ pc' = [pc EXCEPT ![p] = "scan"]
         \/ pc' = [pc EXCEPT ![p] = "load"]
         \/ UNCHANGED pc /\ pc[p] \in {"scan", "load"},
         UNCHANGED <<sources, index>>
  PROVE  SafetyInv'
<1>1. \A q \in Procs : q # p => txn'[q] = txn[q] /\ pc'[q] = pc[q]
  BY DEF TypeOK
<1>2. txn'[p] = t /\ pc'[p] \in {"scan", "load"}
  BY DEF TypeOK
<1>3. \A q \in Procs : Writing(q)' => q = p
  BY <1>1 DEF SafetyInv, OneWriter, MayWrite, LockFree, Writing
<1>4. \A u : TxnSafe(u)' <=> TxnSafe(u)
  BY DEF TxnSafe, sources, index
<1>5. QED
  BY <1>1, <1>2, <1>3, <1>4
  DEF SafetyInv, OneWriter, NeverStaleUnnoticed, Vouched, sources, index, Writing, TxnSafe

LEMMA CommitSafe ==
  ASSUME TypeOK, SafetyInv, NEW p \in Procs, MayWrite(p),
         NEW t \in Txn, TxnSafe(t), Commit(p, t)
  PROVE  SafetyInv'
<1>1. \A q \in Procs : q # p => pc'[q] = pc[q]
  BY DEF TypeOK, Commit
<1>2. txn'[p] = t /\ pc'[p] = "save" /\ docs' = t.docs
  BY DEF TypeOK, Commit
<1>3. \A q \in Procs : Writing(q)' => q = p
  BY <1>1 DEF SafetyInv, OneWriter, MayWrite, LockFree, Writing
<1>4. UNCHANGED <<clock, disk, manifest>>
  BY DEF Commit, sources
<1>5. TxnSafe(t)'
  BY <1>4 DEF TxnSafe
<1>6. QED
  BY <1>2, <1>3, <1>4, <1>5 DEF SafetyInv, OneWriter, NeverStaleUnnoticed, Vouched, TxnSafe, Writing

\* A process that is not inside a transaction afterwards.
LEMMA OutsideSafe ==
  ASSUME TypeOK, SafetyInv, NEW p \in Procs,
         \A q \in Procs : q # p => pc'[q] = pc[q] /\ txn'[q] = txn[q],
         ~Writing(p)', UNCHANGED <<sources, index>>
  PROVE  SafetyInv'
<1>1. \A q \in Procs : Writing(q)' => q # p /\ Writing(q) /\ txn'[q] = txn[q] /\ pc'[q] = pc[q]
  BY DEF Writing
<1>2. \A u : TxnSafe(u)' <=> TxnSafe(u)
  BY DEF TxnSafe, sources, index
<1>3. QED
  BY <1>1, <1>2
  DEF SafetyInv, OneWriter, NeverStaleUnnoticed, Vouched, sources, index, Writing, TxnSafe

LEMMA LeaveShape ==
  ASSUME TypeOK, NEW p \in Procs, Leave(p) \/ Continue(p)
  PROVE  /\ \A q \in Procs : q # p => pc'[q] = pc[q] /\ txn'[q] = txn[q]
         /\ pc'[p] \in {"idle", "begin"}
  BY DEF TypeOK, Leave, Continue

----------------------------------------------------------------------------
LEMMA SafetyInit == Init /\ TypeOK => SafetyInv
<1> SUFFICES ASSUME Init, TypeOK PROVE SafetyInv
  OBVIOUS
<1>1. \A p \in Procs : ~Writing(p) /\ pc[p] # "save"
  BY DEF Init, Writing
<1>2. \A s \in Sessions : s \in Items /\ FileOf[s] \in Files
  BY ConstantsAssumption DEF Items
<1>3. \A s \in Sessions : docs[s] \in {0, 1} /\ manifest[s] = 0
  BY <1>2 DEF Init, Blank
<1>4. QED
  BY <1>1, <1>2, <1>3 DEF Init, SafetyInv, OneWriter, NeverStaleUnnoticed, Vouched

LEMMA SafetyEnvironment == TypeOK /\ SafetyInv /\ Environment => SafetyInv'
<1> SUFFICES ASSUME TypeOK, SafetyInv, Environment PROVE SafetyInv'
  OBVIOUS
<1>1. UNCHANGED <<index, procs>>
  BY DEF Environment, EditFile, DeleteOrRestoreFile, ChangeReadability,
         BreakOrMendProvider, ChangeNote
<1>2. clock' = clock + 1 /\ clock \in Nat
  BY DEF Environment, EditFile, DeleteOrRestoreFile, ChangeReadability,
         BreakOrMendProvider, ChangeNote, Tick, TypeOK, Version
<1>3. \A f \in Files : disk[f] <= disk'[f] /\ disk'[f] <= clock' /\ disk[f] \in Nat /\ disk'[f] \in Nat
  <2>1. \A f \in Files : disk[f] \in Nat /\ disk[f] <= clock
    BY VersionOrder DEF TypeOK, SafetyInv
  <2>2. UNCHANGED disk \/ \E f \in Files : disk' = [disk EXCEPT ![f] = clock + 1]
    BY DEF Environment, EditFile, DeleteOrRestoreFile, ChangeReadability,
           BreakOrMendProvider, ChangeNote
  <2>3. QED
    BY <1>2, <2>1, <2>2 DEF TypeOK
<1>4. \A s \in Sessions : /\ FileOf[s] \in Files /\ s \in Items
                          /\ docs[s] \in Nat /\ manifest[s] \in Nat
  BY ConstantsAssumption, VersionOrder DEF Items, TypeOK
<1>5. \A s \in Sessions : docs'[s] <= disk'[FileOf[s]] /\ manifest'[s] <= disk'[FileOf[s]]
  BY <1>1, <1>3, <1>4 DEF SafetyInv, index
<1>6. ASSUME NEW t \in Txn, TxnSafe(t) PROVE TxnSafe(t)'
  <2>1. \A f \in Files : t.cache[f] \in Nat
    BY VersionOrder DEF Txn
  <2>2. \A s \in Sessions : t.docs[s] \in Nat /\ t.man[s] \in Nat
    BY <1>4, VersionOrder DEF Txn
  <2>3. UNCHANGED manifest
    BY <1>1 DEF index
  <2>4. QED
    BY <1>3, <1>4, <1>6, <2>1, <2>2, <2>3 DEF TxnSafe
<1>7. \A p \in Procs : (Writing(p)' <=> Writing(p)) /\ txn'[p] = txn[p] /\ pc'[p] = pc[p]
  BY <1>1 DEF procs, Writing
<1>8. ASSUME NEW p \in Procs, Writing(p)' PROVE TxnSafe(txn[p])'
  <2>1. PICK t \in Txn : t = txn[p] /\ t = txn'[p]
    BY <1>7 DEF TypeOK
  <2>2. TxnSafe(t)
    BY <1>7, <1>8, <2>1 DEF SafetyInv
  <2>3. TxnSafe(t)'
    BY <1>6, <2>2
  <2>4. QED
    BY <2>1, <2>3 DEF TxnSafe
<1>9. OneWriter' /\ \A p \in Procs : pc'[p] = "save" => docs' = txn'[p].docs
  BY <1>1, <1>7 DEF SafetyInv, OneWriter, index
<1>10. NeverStaleUnnoticed'
  BY <1>1 DEF SafetyInv, NeverStaleUnnoticed, Vouched, index
<1>11. QED
  BY <1>3, <1>5, <1>8, <1>9, <1>10 DEF SafetyInv

----------------------------------------------------------------------------
\* Changing the entries of notes does not concern the sessions.
LEMMA WithNotesSafe ==
  ASSUME TypeOK, NEW t \in Txn, TxnSafe(t), NEW list,
         NEW u \in Txn, u.docs = WithNotes(t.docs, t.man, list),
         u.man = WithNotes(t.man, t.man, list), u.cache = t.cache
  PROVE  TxnSafe(u)
<1>1. \A s \in Sessions : s \in Items /\ s \notin Notes
  BY ConstantsAssumption DEF Items
<1>2. \A s \in Sessions : u.docs[s] = t.docs[s] /\ u.man[s] = t.man[s]
  BY <1>1 DEF WithNotes
<1>3. QED
  BY <1>2 DEF TxnSafe

\* What the scan learns of a file is no newer than the file.
LEMMA KnownSafe ==
  ASSUME TypeOK, NEW t \in Txn, TxnSafe(t), NEW f \in Files,
         NEW u \in Txn, u.docs = t.docs, u.man = t.man,
         u.cache = [t.cache EXCEPT ![f] = Fingerprint(t, f)]
  PROVE  TxnSafe(u)
<1>1. disk[f] \in Nat /\ t.cache \in [Files -> Version]
  BY VersionOrder DEF TypeOK, Txn
<1>2. Fingerprint(t, f) <= disk[f]
  BY <1>1 DEF Fingerprint, TxnSafe
<1>3. \A g \in Files : u.cache[g] = IF g = f THEN Fingerprint(t, f) ELSE t.cache[g]
  BY <1>1
<1>4. QED
  BY <1>2, <1>3 DEF TxnSafe

LEMMA SafetyProcess ==
  ASSUME TypeOK, SafetyInv, NEW p \in Procs, Process(p)
  PROVE  SafetyInv'
<1>0. Writing(p) => MayWrite(p) /\ TxnSafe(txn[p]) /\ txn[p] \in Txn
  BY DEF MayWrite, SafetyInv, TypeOK
<1>1. ASSUME NEW j \in Jobs, Start(p, j) PROVE SafetyInv'
  <2>1. \A q \in Procs : q # p => pc'[q] = pc[q] /\ txn'[q] = txn[q]
    BY <1>1 DEF Start, TypeOK
  <2>2. ~Writing(p)'
    BY <1>1 DEF Start, TypeOK, Writing
  <2>3. QED
    BY <1>1, <2>1, <2>2, OutsideSafe DEF Start
<1>2. ASSUME Clear(p) PROVE SafetyInv'
  BY <1>2, NoTxnType, LoadManifestSafe, CommitSafe DEF Clear, Acquire, MayWrite
<1>3. ASSUME ClearProviders(p) PROVE SafetyInv'
  <2> DEFINE t == LoadManifestOrReset
             S == SessionsOf(job[p].prune)
             u == [t EXCEPT !.docs = Without(t.docs, S), !.man = Without(t.man, S)]
  <2>1. t \in Txn /\ TxnSafe(t)
    BY LoadManifestType, LoadManifestSafe
  <2>2. Commit(p, u) /\ MayWrite(p)
    BY <1>3 DEF ClearProviders, Acquire, MayWrite
  <2> HIDE DEF t, S
  <2>3. /\ u \in Txn /\ u.cache = t.cache
        /\ u.docs = Without(t.docs, S) /\ u.man = Without(t.man, S)
    BY <2>1, WithoutType DEF Txn
  <2> HIDE DEF u
  <2>4. TxnSafe(u)
    BY <2>1, <2>3, WithoutSafe
  <2>5. QED
    BY <2>2, <2>3, <2>4, CommitSafe
<1>4. ASSUME BeginBuild(p) PROVE SafetyInv'
  <2> DEFINE t == IF form = "legacy" THEN Reset ELSE LoadManifestOrReset
             u == [t EXCEPT !.todo = FoundBy(p)]
  <2>1. t \in Txn /\ TxnSafe(t)
    BY LoadManifestType, LoadManifestSafe
  <2>2. /\ txn' = [txn EXCEPT ![p] = u] /\ pc' = [pc EXCEPT ![p] = "scan"]
        /\ UNCHANGED <<sources, index>> /\ MayWrite(p)
    BY <1>4 DEF BeginBuild, Acquire, MayWrite
  <2> HIDE DEF t
  <2>3. u \in Txn /\ u.docs = t.docs /\ u.man = t.man /\ u.cache = t.cache
    BY <2>1 DEF Txn, FoundBy
  <2> HIDE DEF u
  <2>4. TxnSafe(u)
    BY <2>1, <2>3 DEF TxnSafe
  <2>5. QED
    BY <2>2, <2>3, <2>4, StageSafe
<1>5. ASSUME NEW s \in Sessions, FingerprintSession(p, s) PROVE SafetyInv'
  <2> DEFINE t == txn[p]
             known == [t EXCEPT !.cache[FileOf[s]] = Fingerprint(t, FileOf[s])]
             seen == [known EXCEPT !.todo = t.todo \ {s}]
             load == [known EXCEPT !.cur = s]
  <2>1. /\ pc[p] = "scan" /\ Writing(p) /\ MayWrite(p) /\ t \in Txn /\ TxnSafe(t)
        /\ UNCHANGED <<sources, index>>
    BY <1>0, <1>5 DEF FingerprintSession, Writing
  <2>2. FileOf[s] \in Files /\ Fingerprint(t, FileOf[s]) \in Version
    BY <2>1, ConstantsAssumption, FingerprintType
  <2>3. /\ seen \in Txn /\ seen.docs = t.docs /\ seen.man = t.man
        /\ seen.cache = [t.cache EXCEPT ![FileOf[s]] = Fingerprint(t, FileOf[s])]
    <3> DEFINE fp == Fingerprint(t, FileOf[s])
    <3> HIDE DEF fp
    <3>1. fp \in Version
      BY <2>2 DEF fp
    <3>2. QED
      BY <2>1, <2>2, <3>1 DEF Txn, fp
  <2>4. /\ load \in Txn /\ load.docs = t.docs /\ load.man = t.man
        /\ load.cache = [t.cache EXCEPT ![FileOf[s]] = Fingerprint(t, FileOf[s])]
    BY <2>1, <2>2 DEF Txn
  <2>5. \/ txn' = [txn EXCEPT ![p] = SkipFailed(t, s)] /\ UNCHANGED pc
        \/ txn' = [txn EXCEPT ![p] = seen] /\ UNCHANGED pc
        \/ txn' = [txn EXCEPT ![p] = load] /\ pc' = [pc EXCEPT ![p] = "load"]
    BY <1>5 DEF FingerprintSession
  <2> HIDE DEF known, seen, load
  <2>6. TxnSafe(seen) /\ TxnSafe(load)
    BY <2>1, <2>2, <2>3, <2>4, KnownSafe
  <2>7. SkipFailed(t, s) \in Txn /\ TxnSafe(SkipFailed(t, s))
    BY <2>1, SkipFailedType, SkipFailedSafe
  <2>8. QED
    BY <2>1, <2>3, <2>4, <2>5, <2>6, <2>7, StageSafe
<1>6. ASSUME LoadSession(p) PROVE SafetyInv'
  <2> DEFINE t == txn[p]
             u == IF Unreadable(FileOf[t.cur]) THEN SkipFailed(t, t.cur)
                  ELSE Reindexed(t, t.cur)
  <2>1. t \in Txn /\ t.cur \in Sessions /\ TxnSafe(t) /\ MayWrite(p)
    BY <1>0, <1>6 DEF LoadSession, TypeOK, Writing
  <2>2. u \in Txn /\ TxnSafe(u)
    BY <2>1, SkipFailedType, ReindexedType, SkipFailedSafe, ReindexedSafe
  <2>3. /\ txn' = [txn EXCEPT ![p] = u] /\ pc' = [pc EXCEPT ![p] = "scan"]
        /\ UNCHANGED <<sources, index>>
    BY <1>6 DEF LoadSession
  <2> HIDE DEF u
  <2>4. QED
    BY <2>1, <2>2, <2>3, StageSafe
<1>7. ASSUME CommitBuild(p) PROVE SafetyInv'
  <2> DEFINE t == txn[p]
             u == [t EXCEPT !.docs = Without(t.docs, Stale(p)),
                            !.man = Without(t.man, Stale(p))]
  <2>1. t \in Txn /\ TxnSafe(t) /\ MayWrite(p)
    BY <1>0, <1>7 DEF CommitBuild, Writing
  <2>2. Commit(p, u)
    BY <1>7 DEF CommitBuild
  <2>3. /\ u \in Txn /\ u.cache = t.cache
        /\ u.docs = Without(t.docs, Stale(p)) /\ u.man = Without(t.man, Stale(p))
    BY <2>1, WithoutType DEF Txn
  <2> HIDE DEF u
  <2>4. TxnSafe(u)
    BY <2>1, <2>3, WithoutSafe
  <2>5. QED
    BY <2>1, <2>2, <2>3, <2>4, CommitSafe
<1>8. ASSUME ReadNotes(p) PROVE SafetyInv'
  <2>1. /\ \A q \in Procs : q # p => pc'[q] = pc[q] /\ txn'[q] = txn[q]
        /\ ~Writing(p)' /\ UNCHANGED <<sources, index>>
    BY <1>8 DEF ReadNotes, TypeOK, Writing
  <2>2. QED
    BY <2>1, OutsideSafe
<1>9. ASSUME IndexNotes(p) PROVE SafetyInv'
  <2> DEFINE t == LoadManifestOrReset
             list == txn[p].list
             u == [t EXCEPT !.docs = WithNotes(t.docs, t.man, list),
                            !.man = WithNotes(t.man, t.man, list),
                            !.errors = txn[p].errors]
  <2>1. t \in Txn /\ TxnSafe(t)
    BY LoadManifestType, LoadManifestSafe
  <2>2. list \in [Notes -> Version] /\ txn[p].errors \subseteq Sessions
    BY DEF TypeOK, Txn
  <2>3. \A f, g \in [Items -> Version] : WithNotes(f, g, list) \in [Items -> Version]
    BY <2>2 DEF WithNotes
  <2>4. Commit(p, u) /\ MayWrite(p)
    BY <1>9 DEF IndexNotes, MayWrite
  <2> HIDE DEF t, list
  <2>5. /\ u \in Txn /\ u.cache = t.cache
        /\ u.docs = WithNotes(t.docs, t.man, list) /\ u.man = WithNotes(t.man, t.man, list)
    BY <2>1, <2>2, <2>3 DEF Txn
  <2> HIDE DEF u
  <2>6. TxnSafe(u)
    BY <2>1, <2>5, WithNotesSafe
  <2>7. QED
    BY <2>4, <2>5, <2>6, CommitSafe
<1>10. ASSUME Save(p) PROVE SafetyInv'
  <2>1. /\ \A q \in Procs : q # p => pc'[q] = pc[q] /\ txn'[q] = txn[q]
        /\ pc'[p] \in {"idle", "begin"}
    BY <1>10, LeaveShape DEF Save
  <2>2. pc[p] = "save" /\ Writing(p) /\ TxnSafe(txn[p]) /\ docs = txn[p].docs
    BY <1>10 DEF Save, Writing, SafetyInv
  <2>3. \A q \in Procs : ~Writing(q)'
    BY <2>1, <2>2 DEF SafetyInv, OneWriter, Writing
  <2>4. manifest' = txn[p].man /\ UNCHANGED <<clock, disk, docs>>
    BY <1>10 DEF Save, sources
  <2>5. \A s \in Sessions : /\ docs[s] <= disk[FileOf[s]] /\ txn[p].man[s] <= disk[FileOf[s]]
                            /\ docs[s] # 0 => txn[p].man[s] <= docs[s]
    BY <2>2 DEF TxnSafe
  <2>6. \A q \in Procs : pc'[q] # "save"
    BY <2>3 DEF Writing
  <2>7. QED
    BY <2>3, <2>4, <2>5, <2>6 DEF SafetyInv, OneWriter, NeverStaleUnnoticed, Vouched
<1>11. ASSUME Leave(p) \/ Continue(p), UNCHANGED <<sources, index>> PROVE SafetyInv'
  <2>1. /\ \A q \in Procs : q # p => pc'[q] = pc[q] /\ txn'[q] = txn[q]
        /\ pc'[p] \in {"idle", "begin"}
    BY <1>11, LeaveShape
  <2>2. ~Writing(p)'
    BY <2>1 DEF Writing
  <2>3. QED
    BY <1>11, <2>1, <2>2, OutsideSafe
<1>12. QED
  BY <1>1, <1>2, <1>3, <1>4, <1>5, <1>6, <1>7, <1>8, <1>9, <1>10, <1>11
  DEF Process, Progress, Build, Refused, ReadHits, Abort, TornCommit

\* At every moment, whichever commands run, whatever edits arrive and wherever
\* a process dies, what the index holds is vouched for: no manifest entry
\* claims a version newer than the documents it stands for.
THEOREM SafetyCorrect == Spec => []SafetyInv
<1>1. Init => TypeOK /\ SafetyInv
  BY TypeInit, SafetyInit
<1>2. TypeOK /\ SafetyInv /\ [Next]_vars => (TypeOK /\ SafetyInv)'
  <2> SUFFICES ASSUME TypeOK, SafetyInv, [Next]_vars PROVE TypeOK' /\ SafetyInv'
    OBVIOUS
  <2>1. CASE UNCHANGED vars
    BY <2>1 DEF vars, TypeOK, SafetyInv, OneWriter, Writing, NeverStaleUnnoticed,
                Vouched, TxnSafe
  <2>2. QED
    BY <2>1, TypeEnvironment, TypeProcess, SafetyEnvironment, SafetyProcess DEF Next
<1>3. QED
  BY <1>1, <1>2, PTL DEF Spec

\* The manifest never vouches for a version its documents do not have, so a
\* changed session is always noticed (fingerprint before load, index_session).
THEOREM NeverStale == Spec => []NeverStaleUnnoticed
<1>1. SafetyInv => NeverStaleUnnoticed
  BY DEF SafetyInv
<1>2. QED
  BY <1>1, SafetyCorrect, PTL

----------------------------------------------------------------------------
(***************************************************************************)
(* Documents and manifest agree while no commit is torn from its save.     *)
(***************************************************************************)
LEMMA LoadManifestMatches ==
  ASSUME MatchInv, LockFree
  PROVE  TxnMatches(LoadManifestOrReset) /\ TxnMatches(Reset) /\ TxnMatches(NoTxn)
<1>1. TxnMatches(NoTxn) /\ TxnMatches(Reset)
  BY DEF TxnMatches, Matching, NoTxn, Reset, Blank
<1>2. form = "current" => Matching(docs, manifest)
  BY DEF MatchInv, LockFree, Writing
<1>3. TxnMatches([NoTxn EXCEPT !.docs = docs, !.man = manifest, !.form = form])
  BY <1>2 DEF TxnMatches, Matching, NoTxn
<1>4. QED
  BY <1>1, <1>3 DEF LoadManifestOrReset

LEMMA WithoutMatches ==
  ASSUME NEW t, TxnMatches(t), NEW S, NEW u, u.form = t.form,
         u.docs = Without(t.docs, S), u.man = Without(t.man, S)
  PROVE  TxnMatches(u)
  BY DEF TxnMatches, Matching, Without

LEMMA SkipFailedMatches ==
  ASSUME NEW t \in Txn, TxnMatches(t), NEW s \in Sessions
  PROVE  TxnMatches(SkipFailed(t, s))
<1> DEFINE u == SkipFailed(t, s)
<1>1. u.docs = Without(t.docs, {s}) /\ u.man = Without(t.man, {s}) /\ u.form = t.form
  BY DEF SkipFailed, Txn
<1> HIDE DEF u
<1>2. TxnMatches(u)
  BY <1>1, WithoutMatches
<1>3. QED
  BY <1>2 DEF u

LEMMA ReindexedMatches ==
  ASSUME TypeOK, NEW t \in Txn, TxnMatches(t), NEW s \in Sessions
  PROVE  TxnMatches(Reindexed(t, s))
<1> DEFINE fp == Fingerprint(t, FileOf[s])
           u == Reindexed(t, s)
<1>1. FileOf[s] \in Files /\ s \in Items
  BY ConstantsAssumption DEF Items
<1>2. disk[FileOf[s]] # 0 /\ fp # 0
  BY <1>1, FingerprintType DEF TypeOK
<1> HIDE DEF fp
<1>3. \A i \in Items : /\ u.docs[i] = IF i = s THEN disk[FileOf[s]] ELSE t.docs[i]
                       /\ u.man[i] = IF i = s THEN fp ELSE t.man[i]
  BY <1>1 DEF Reindexed, Txn, fp
<1>4. u.form = t.form
  BY DEF Reindexed, Txn
<1> HIDE DEF u
<1>5. TxnMatches(u)
  BY <1>2, <1>3, <1>4 DEF TxnMatches, Matching
<1>6. QED
  BY <1>5 DEF u

LEMMA WithNotesMatches ==
  ASSUME NEW t, TxnMatches(t), NEW list, NEW u, u.form = t.form,
         u.docs = WithNotes(t.docs, t.man, list), u.man = WithNotes(t.man, t.man, list)
  PROVE  TxnMatches(u)
  BY DEF TxnMatches, Matching, WithNotes

\* The steps inside a transaction, the commit, and the steps outside of one.
LEMMA StageMatches ==
  ASSUME TypeOK, MatchInv, NEW p \in Procs, pc[p] # "save",
         NEW t, TxnMatches(t), txn' = [txn EXCEPT ![p] = t],
         \/ pc' = [pc EXCEPT ![p] = "scan"]
         \/ pc' = [pc EXCEPT ![p] = "load"]
         \/ UNCHANGED pc,
         UNCHANGED index
  PROVE  MatchInv'
<1>1. \A q \in Procs : /\ q # p => txn'[q] = txn[q] /\ pc'[q] = pc[q]
                       /\ txn'[p] = t /\ pc'[p] # "save"
  BY DEF TypeOK
<1>2. QED
  BY <1>1 DEF MatchInv, Writing, TxnMatches, Matching, index

LEMMA CommitMatches ==
  ASSUME TypeOK, MatchInv, NEW p \in Procs, NEW t, TxnMatches(t), Commit(p, t)
  PROVE  MatchInv'
<1>1. \A q \in Procs : q # p => txn'[q] = txn[q] /\ pc'[q] = pc[q]
  BY DEF TypeOK, Commit
<1>2. txn'[p] = t /\ pc'[p] = "save"
  BY DEF TypeOK, Commit
<1>3. QED
  BY <1>1, <1>2 DEF MatchInv, Writing, TxnMatches, Matching

LEMMA OutsideMatches ==
  ASSUME TypeOK, MatchInv, NEW p \in Procs, pc[p] # "save",
         \A q \in Procs : q # p => pc'[q] = pc[q] /\ txn'[q] = txn[q],
         ~Writing(p)', UNCHANGED index
  PROVE  MatchInv'
  BY DEF MatchInv, Writing, TxnMatches, Matching, index

LEMMA MatchProcess ==
  ASSUME TypeOK, SafetyInv, MatchInv, Interrupts = FALSE, NEW p \in Procs, Process(p)
  PROVE  MatchInv'
<1>0. Writing(p) => TxnMatches(txn[p]) /\ txn[p] \in Txn
  BY DEF MatchInv, TypeOK
<1>1. ASSUME NEW j \in Jobs, Start(p, j) PROVE MatchInv'
  <2>1. /\ \A q \in Procs : q # p => pc'[q] = pc[q] /\ txn'[q] = txn[q]
        /\ ~Writing(p)' /\ pc[p] # "save" /\ UNCHANGED index
    BY <1>1 DEF Start, TypeOK, Writing
  <2>2. QED
    BY <2>1, OutsideMatches
<1>2. ASSUME Clear(p) PROVE MatchInv'
  BY <1>2, LoadManifestMatches, CommitMatches DEF Clear, Acquire
<1>3. ASSUME ClearProviders(p) PROVE MatchInv'
  <2> DEFINE t == LoadManifestOrReset
             S == SessionsOf(job[p].prune)
             u == [t EXCEPT !.docs = Without(t.docs, S), !.man = Without(t.man, S)]
  <2>1. t \in Txn /\ TxnMatches(t)
    BY <1>3, LoadManifestType, LoadManifestMatches DEF ClearProviders, Acquire
  <2>2. Commit(p, u)
    BY <1>3 DEF ClearProviders
  <2> HIDE DEF t, S
  <2>3. u.form = t.form /\ u.docs = Without(t.docs, S) /\ u.man = Without(t.man, S)
    BY <2>1 DEF Txn
  <2> HIDE DEF u
  <2>4. QED
    BY <2>1, <2>2, <2>3, WithoutMatches, CommitMatches
<1>4. ASSUME BeginBuild(p) PROVE MatchInv'
  <2> DEFINE t == IF form = "legacy" THEN Reset ELSE LoadManifestOrReset
             u == [t EXCEPT !.todo = FoundBy(p)]
  <2>1. t \in Txn /\ TxnMatches(t) /\ pc[p] # "save"
    BY <1>4, LoadManifestType, LoadManifestMatches DEF BeginBuild, Acquire
  <2>2. /\ txn' = [txn EXCEPT ![p] = u] /\ pc' = [pc EXCEPT ![p] = "scan"]
        /\ UNCHANGED index
    BY <1>4 DEF BeginBuild
  <2> HIDE DEF t
  <2>3. u.form = t.form /\ u.docs = t.docs /\ u.man = t.man
    BY <2>1 DEF Txn
  <2> HIDE DEF u
  <2>4. TxnMatches(u)
    BY <2>1, <2>3 DEF TxnMatches
  <2>5. QED
    BY <2>1, <2>2, <2>4, StageMatches
<1>5. ASSUME NEW s \in Sessions, FingerprintSession(p, s) PROVE MatchInv'
  <2> DEFINE t == txn[p]
             known == [t EXCEPT !.cache[FileOf[s]] = Fingerprint(t, FileOf[s])]
             seen == [known EXCEPT !.todo = t.todo \ {s}]
             load == [known EXCEPT !.cur = s]
  <2>1. pc[p] = "scan" /\ t \in Txn /\ TxnMatches(t) /\ UNCHANGED index
    BY <1>0, <1>5 DEF FingerprintSession, Writing
  <2>2. /\ seen.form = t.form /\ seen.docs = t.docs /\ seen.man = t.man
        /\ load.form = t.form /\ load.docs = t.docs /\ load.man = t.man
    BY <2>1 DEF Txn
  <2>3. \/ txn' = [txn EXCEPT ![p] = SkipFailed(t, s)] /\ UNCHANGED pc
        \/ txn' = [txn EXCEPT ![p] = seen] /\ UNCHANGED pc
        \/ txn' = [txn EXCEPT ![p] = load] /\ pc' = [pc EXCEPT ![p] = "load"]
    BY <1>5 DEF FingerprintSession
  <2> HIDE DEF known, seen, load
  <2>4. TxnMatches(seen) /\ TxnMatches(load) /\ TxnMatches(SkipFailed(t, s))
    BY <2>1, <2>2, SkipFailedMatches DEF TxnMatches
  <2>5. QED
    BY <2>1, <2>3, <2>4, StageMatches
<1>6. ASSUME LoadSession(p) PROVE MatchInv'
  <2> DEFINE t == txn[p]
             u == IF Unreadable(FileOf[t.cur]) THEN SkipFailed(t, t.cur)
                  ELSE Reindexed(t, t.cur)
  <2>1. t \in Txn /\ t.cur \in Sessions /\ TxnMatches(t) /\ pc[p] = "load"
    BY <1>0, <1>6 DEF LoadSession, TypeOK, Writing
  <2>2. TxnMatches(u)
    BY <2>1, SkipFailedMatches, ReindexedMatches
  <2>3. /\ txn' = [txn EXCEPT ![p] = u] /\ pc' = [pc EXCEPT ![p] = "scan"]
        /\ UNCHANGED index
    BY <1>6 DEF LoadSession
  <2> HIDE DEF u
  <2>4. QED
    BY <2>1, <2>2, <2>3, StageMatches
<1>7. ASSUME CommitBuild(p) PROVE MatchInv'
  <2> DEFINE t == txn[p]
             u == [t EXCEPT !.docs = Without(t.docs, Stale(p)),
                            !.man = Without(t.man, Stale(p))]
  <2>1. t \in Txn /\ TxnMatches(t) /\ Commit(p, u)
    BY <1>0, <1>7 DEF CommitBuild, Writing
  <2>2. u.form = t.form /\ u.docs = Without(t.docs, Stale(p)) /\ u.man = Without(t.man, Stale(p))
    BY <2>1 DEF Txn
  <2> HIDE DEF u
  <2>3. QED
    BY <2>1, <2>2, WithoutMatches, CommitMatches
<1>8. ASSUME ReadNotes(p) PROVE MatchInv'
  <2>1. /\ \A q \in Procs : q # p => pc'[q] = pc[q] /\ txn'[q] = txn[q]
        /\ ~Writing(p)' /\ pc[p] # "save" /\ UNCHANGED index
    BY <1>8 DEF ReadNotes, TypeOK, Writing
  <2>2. QED
    BY <2>1, OutsideMatches
<1>9. ASSUME IndexNotes(p) PROVE MatchInv'
  <2> DEFINE t == LoadManifestOrReset
             list == txn[p].list
             u == [t EXCEPT !.docs = WithNotes(t.docs, t.man, list),
                            !.man = WithNotes(t.man, t.man, list),
                            !.errors = txn[p].errors]
  <2>1. t \in Txn /\ TxnMatches(t) /\ Commit(p, u)
    BY <1>9, LoadManifestType, LoadManifestMatches DEF IndexNotes
  <2> HIDE DEF t, list
  <2>2. /\ u.form = t.form /\ u.docs = WithNotes(t.docs, t.man, list)
        /\ u.man = WithNotes(t.man, t.man, list)
    BY <2>1 DEF Txn
  <2> HIDE DEF u
  <2>3. QED
    BY <2>1, <2>2, WithNotesMatches, CommitMatches
<1>10. ASSUME Save(p) PROVE MatchInv'
  <2>1. /\ \A q \in Procs : q # p => pc'[q] = pc[q] /\ txn'[q] = txn[q]
        /\ pc'[p] \in {"idle", "begin"}
    BY <1>10, LeaveShape DEF Save
  <2>2. Writing(p) /\ TxnMatches(txn[p]) /\ docs = txn[p].docs
    BY <1>0, <1>10 DEF Save, Writing, SafetyInv
  <2>3. \A q \in Procs : ~Writing(q)'
    BY <2>1, <2>2 DEF SafetyInv, OneWriter, Writing
  <2>4. manifest' = txn[p].man /\ form' = txn[p].form /\ docs' = docs
    BY <1>10 DEF Save
  <2>5. QED
    BY <2>2, <2>3, <2>4 DEF MatchInv, TxnMatches, Matching
<1>11. ASSUME Leave(p) \/ Continue(p), pc[p] # "save", UNCHANGED index PROVE MatchInv'
  <2>1. /\ \A q \in Procs : q # p => pc'[q] = pc[q] /\ txn'[q] = txn[q]
        /\ pc'[p] \in {"idle", "begin"}
    BY <1>11, LeaveShape
  <2>2. ~Writing(p)'
    BY <2>1 DEF Writing
  <2>3. QED
    BY <1>11, <2>1, <2>2, OutsideMatches
<1>12. QED
  BY <1>1, <1>2, <1>3, <1>4, <1>5, <1>6, <1>7, <1>8, <1>9, <1>10, <1>11
  DEF Process, Progress, Build, Refused, ReadHits, Abort, TornCommit

\* Documents and manifest agree, staged and on disk, except between a commit
\* and its save.
LEMMA MatchInvariant ==
  ASSUME Interrupts = FALSE
  PROVE  Spec => [](TypeOK /\ SafetyInv /\ MatchInv)
<1>1. Init => TypeOK /\ SafetyInv /\ MatchInv
  <2>1. Init => MatchInv
    BY DEF Init, MatchInv, Writing, Matching, Blank
  <2>2. QED
    BY <2>1, TypeInit, SafetyInit
<1>2. TypeOK /\ SafetyInv /\ MatchInv /\ [Next]_vars => (TypeOK /\ SafetyInv /\ MatchInv)'
  <2> SUFFICES ASSUME TypeOK, SafetyInv, MatchInv, [Next]_vars
               PROVE  TypeOK' /\ SafetyInv' /\ MatchInv'
    OBVIOUS
  <2>1. CASE UNCHANGED vars
    BY <2>1 DEF vars, TypeOK, SafetyInv, OneWriter, Writing, NeverStaleUnnoticed,
                Vouched, TxnSafe, MatchInv, TxnMatches, Matching
  <2>2. CASE Environment
    <3>1. UNCHANGED <<index, procs>>
      BY <2>2 DEF Environment, EditFile, DeleteOrRestoreFile, ChangeReadability,
             BreakOrMendProvider, ChangeNote
    <3>2. MatchInv'
      BY <3>1 DEF index, procs, MatchInv, TxnMatches, Matching, Writing
    <3>3. QED
      BY <2>2, <3>2, TypeEnvironment, SafetyEnvironment
  <2>3. QED
    BY <2>1, <2>2, TypeProcess, SafetyProcess, MatchProcess DEF Next
<1>3. QED
  BY <1>1, <1>2, PTL DEF Spec

\* While every commit is followed by its save, the manifest lists an item
\* exactly if it has documents, whenever nobody holds the writer lock.
THEOREM MatchCorrect ==
  ASSUME Interrupts = FALSE
  PROVE  Spec => []ManifestMatchesDocs
<1>1. MatchInv => ManifestMatchesDocs
  BY DEF MatchInv, ManifestMatchesDocs, LockFree, Writing, Matching
<1>2. QED
  BY <1>1, MatchInvariant, PTL

----------------------------------------------------------------------------
(***************************************************************************)
(* The refinement.  For any processes, commands and sources: while every   *)
(* commit is followed by its save, the index implements IndexCache; and    *)
(* with torn commits too, a commit keeps to the scope of its command.      *)
(***************************************************************************)

(***************************************************************************)
(* Notes.  SafetyInv says how documents and manifest relate for sessions;  *)
(* for notes they carry the same version, which is none of the future.     *)
(***************************************************************************)
NotesKept(t) == \A n \in Notes : t.docs[n] = t.man[n] /\ t.docs[n] <= clock
ListKept(t) == \A n \in Notes : t.list[n] <= clock

NoteInv ==
  /\ \A n \in Notes : note[n] <= clock /\ docs[n] <= clock
  /\ (\A p \in Procs : pc[p] # "save") => \A n \in Notes : docs[n] = manifest[n]
  /\ \A p \in Procs : pc[p] = "notes" => ListKept(txn[p])
  /\ \A p \in Procs : Writing(p) => NotesKept(txn[p])

LEMMA NotesAreItems ==
  /\ \A n \in Notes : n \in Items /\ n \notin Sessions
  /\ MaxClock \in Nat /\ \A v \in Version : v \in Nat
BY ConstantsAssumption DEF Items, Version

LEMMA LoadManifestNotes ==
  ASSUME TypeOK, NoteInv, LockFree
  PROVE  NotesKept(LoadManifestOrReset) /\ NotesKept(Reset) /\ NotesKept(NoTxn)
<1>1. clock \in Nat /\ \A n \in Notes : n \in Items
  BY NotesAreItems DEF TypeOK
<1>2. NotesKept(NoTxn) /\ NotesKept(Reset)
  BY <1>1 DEF NotesKept, NoTxn, Reset, Blank
<1>3. \A n \in Notes : docs[n] = manifest[n] /\ docs[n] <= clock
  BY DEF NoteInv, LockFree, Writing
<1>4. NotesKept([NoTxn EXCEPT !.docs = docs, !.man = manifest, !.form = form])
  BY <1>3 DEF NotesKept, NoTxn
<1>5. QED
  BY <1>2, <1>4 DEF LoadManifestOrReset

LEMMA WithoutNotes ==
  ASSUME TypeOK, NEW t, NotesKept(t), NEW S, NEW u,
         u.docs = Without(t.docs, S), u.man = Without(t.man, S)
  PROVE  NotesKept(u)
<1>1. clock \in Nat /\ \A n \in Notes : n \in Items
  BY NotesAreItems DEF TypeOK
<1>2. QED
  BY <1>1 DEF NotesKept, Without

LEMMA SkipFailedNotes ==
  ASSUME TypeOK, NEW t \in Txn, NotesKept(t), NEW s \in Sessions
  PROVE  NotesKept(SkipFailed(t, s))
<1> DEFINE u == SkipFailed(t, s)
<1>1. u.docs = Without(t.docs, {s}) /\ u.man = Without(t.man, {s})
  BY DEF SkipFailed, Txn
<1> HIDE DEF u
<1>2. NotesKept(u)
  BY <1>1, WithoutNotes
<1>3. QED
  BY <1>2 DEF u

LEMMA ReindexedNotes ==
  ASSUME TypeOK, NEW t \in Txn, NotesKept(t), NEW s \in Sessions
  PROVE  NotesKept(Reindexed(t, s))
<1> DEFINE fp == Fingerprint(t, FileOf[s])
           u == Reindexed(t, s)
<1> HIDE DEF fp
<1>1. \A n \in Notes : u.docs[n] = t.docs[n] /\ u.man[n] = t.man[n]
  BY NotesAreItems DEF Reindexed, Txn, fp
<1> HIDE DEF u
<1>2. NotesKept(u)
  BY <1>1 DEF NotesKept
<1>3. QED
  BY <1>2 DEF u

LEMMA WithNotesNotes ==
  ASSUME NEW t, NotesKept(t), NEW list, \A n \in Notes : list[n] <= clock,
         NEW u, u.docs = WithNotes(t.docs, t.man, list), u.man = WithNotes(t.man, t.man, list)
  PROVE  NotesKept(u)
<1>1. \A n \in Notes : n \in Items
  BY NotesAreItems
<1>2. QED
  BY <1>1 DEF NotesKept, WithNotes

\* The steps inside a transaction, the commit, and the steps outside of one.
LEMMA StageNotes ==
  ASSUME TypeOK, NoteInv, NEW p \in Procs, pc[p] # "save",
         NEW t, NotesKept(t), txn' = [txn EXCEPT ![p] = t],
         \/ pc' = [pc EXCEPT ![p] = "scan"]
         \/ pc' = [pc EXCEPT ![p] = "load"]
         \/ UNCHANGED pc /\ pc[p] = "scan",
         UNCHANGED <<sources, index>>
  PROVE  NoteInv'
<1>1. \A q \in Procs : q # p => txn'[q] = txn[q] /\ pc'[q] = pc[q]
  BY DEF TypeOK
<1>2. txn'[p] = t /\ pc'[p] \in {"scan", "load"}
  BY DEF TypeOK
<1>3. UNCHANGED <<clock, note, docs, manifest>>
  BY DEF sources, index
<1>4. NotesKept(t)'
  BY <1>3 DEF NotesKept
<1>5. QED
  BY <1>1, <1>2, <1>3, <1>4 DEF NoteInv, Writing, NotesKept, ListKept

LEMMA CommitNotes ==
  ASSUME TypeOK, NoteInv, NEW p \in Procs, NEW t, NotesKept(t), Commit(p, t)
  PROVE  NoteInv'
<1>1. \A q \in Procs : q # p => txn'[q] = txn[q] /\ pc'[q] = pc[q]
  BY DEF TypeOK, Commit
<1>2. txn'[p] = t /\ pc'[p] = "save" /\ docs' = t.docs /\ clock' = clock /\ note' = note
  BY DEF TypeOK, Commit, sources
<1>3. QED
  BY <1>1, <1>2 DEF NoteInv, Writing, NotesKept, ListKept

LEMMA OutsideNotes ==
  ASSUME TypeOK, NoteInv, NEW p \in Procs, pc[p] # "save",
         \A q \in Procs : q # p => pc'[q] = pc[q] /\ txn'[q] = txn[q],
         ~Writing(p)', pc'[p] = "notes" => ListKept(txn'[p]), UNCHANGED <<sources, index>>
  PROVE  NoteInv'
<1>1. UNCHANGED <<clock, note, docs, manifest>>
  BY DEF sources, index
<1>2. QED
  BY <1>1 DEF NoteInv, Writing, NotesKept, ListKept

LEMMA NoteEnvironment ==
  ASSUME TypeOK, NoteInv, Environment
  PROVE  NoteInv'
<1>1. UNCHANGED <<index, procs>> /\ clock' = clock + 1
  BY DEF Environment, EditFile, DeleteOrRestoreFile, ChangeReadability,
         BreakOrMendProvider, ChangeNote, Tick
<1>2. clock \in Nat /\ \A n \in Notes : note[n] \in Nat /\ docs[n] \in Nat
  BY NotesAreItems DEF TypeOK
<1>3. \A n \in Notes : note'[n] <= clock'
  <2>1. UNCHANGED note \/ \E n \in Notes, v \in {0, clock + 1} : note' = [note EXCEPT ![n] = v]
    BY DEF Environment, EditFile, DeleteOrRestoreFile, ChangeReadability,
           BreakOrMendProvider, ChangeNote
  <2>2. QED
    BY <1>1, <1>2, <2>1 DEF TypeOK, NoteInv
<1>4. \A p \in Procs : Writing(p) => NotesKept(txn[p])'
  <2>1. \A p \in Procs : \A n \in Notes : txn[p].docs[n] \in Nat
    BY NotesAreItems DEF TypeOK, Txn
  <2>2. QED
    BY <1>1, <1>2, <2>1 DEF NoteInv, NotesKept, procs
<1>5. \A p \in Procs : pc[p] = "notes" => ListKept(txn[p])'
  <2>1. \A p \in Procs : \A n \in Notes : txn[p].list[n] \in Nat
    BY NotesAreItems DEF TypeOK, Txn
  <2>2. QED
    BY <1>1, <1>2, <2>1 DEF NoteInv, ListKept, procs
<1>6. QED
  BY <1>1, <1>2, <1>3, <1>4, <1>5 DEF NoteInv, Writing, index, procs

LEMMA NoteProcess ==
  ASSUME TypeOK, SafetyInv, NoteInv, Interrupts = FALSE, NEW p \in Procs, Process(p)
  PROVE  NoteInv'
<1>0. Writing(p) => NotesKept(txn[p]) /\ txn[p] \in Txn
  BY DEF NoteInv, TypeOK
<1>1. ASSUME NEW j \in Jobs, Start(p, j) PROVE NoteInv'
  <2>1. /\ \A q \in Procs : q # p => pc'[q] = pc[q] /\ txn'[q] = txn[q]
        /\ pc'[p] = "begin" /\ pc[p] # "save" /\ UNCHANGED <<sources, index>>
    BY <1>1 DEF Start, TypeOK
  <2>2. ~Writing(p)'
    BY <2>1 DEF Writing
  <2>3. QED
    BY <2>1, <2>2, OutsideNotes
<1>2. ASSUME Clear(p) PROVE NoteInv'
  BY <1>2, LoadManifestNotes, CommitNotes DEF Clear, Acquire
<1>3. ASSUME ClearProviders(p) PROVE NoteInv'
  <2> DEFINE t == LoadManifestOrReset
             S == SessionsOf(job[p].prune)
             u == [t EXCEPT !.docs = Without(t.docs, S), !.man = Without(t.man, S)]
  <2>1. t \in Txn /\ NotesKept(t)
    BY <1>3, LoadManifestType, LoadManifestNotes DEF ClearProviders, Acquire
  <2>2. Commit(p, u)
    BY <1>3 DEF ClearProviders
  <2> HIDE DEF t, S
  <2>3. u.docs = Without(t.docs, S) /\ u.man = Without(t.man, S)
    BY <2>1 DEF Txn
  <2> HIDE DEF u
  <2>4. QED
    BY <2>1, <2>2, <2>3, WithoutNotes, CommitNotes
<1>4. ASSUME BeginBuild(p) PROVE NoteInv'
  <2> DEFINE t == IF form = "legacy" THEN Reset ELSE LoadManifestOrReset
             u == [t EXCEPT !.todo = FoundBy(p)]
  <2>1. t \in Txn /\ NotesKept(t) /\ pc[p] # "save"
    BY <1>4, LoadManifestType, LoadManifestNotes DEF BeginBuild, Acquire
  <2>2. /\ txn' = [txn EXCEPT ![p] = u] /\ pc' = [pc EXCEPT ![p] = "scan"]
        /\ UNCHANGED <<sources, index>>
    BY <1>4 DEF BeginBuild
  <2> HIDE DEF t
  <2>3. u.docs = t.docs /\ u.man = t.man
    BY <2>1 DEF Txn
  <2> HIDE DEF u
  <2>4. NotesKept(u)
    BY <2>1, <2>3 DEF NotesKept
  <2>5. QED
    BY <2>1, <2>2, <2>4, StageNotes
<1>5. ASSUME NEW s \in Sessions, FingerprintSession(p, s) PROVE NoteInv'
  <2> DEFINE t == txn[p]
             known == [t EXCEPT !.cache[FileOf[s]] = Fingerprint(t, FileOf[s])]
             seen == [known EXCEPT !.todo = t.todo \ {s}]
             load == [known EXCEPT !.cur = s]
  <2>1. pc[p] = "scan" /\ t \in Txn /\ NotesKept(t) /\ UNCHANGED <<sources, index>>
    BY <1>0, <1>5 DEF FingerprintSession, Writing
  <2>2. /\ seen.docs = t.docs /\ seen.man = t.man
        /\ load.docs = t.docs /\ load.man = t.man
    BY <2>1 DEF Txn
  <2>3. \/ txn' = [txn EXCEPT ![p] = SkipFailed(t, s)] /\ UNCHANGED pc
        \/ txn' = [txn EXCEPT ![p] = seen] /\ UNCHANGED pc
        \/ txn' = [txn EXCEPT ![p] = load] /\ pc' = [pc EXCEPT ![p] = "load"]
    BY <1>5 DEF FingerprintSession
  <2> HIDE DEF known, seen, load
  <2>4. NotesKept(seen) /\ NotesKept(load) /\ NotesKept(SkipFailed(t, s))
    BY <2>1, <2>2, SkipFailedNotes DEF NotesKept
  <2>5. QED
    BY <2>1, <2>3, <2>4, StageNotes
<1>6. ASSUME LoadSession(p) PROVE NoteInv'
  <2> DEFINE t == txn[p]
             u == IF Unreadable(FileOf[t.cur]) THEN SkipFailed(t, t.cur)
                  ELSE Reindexed(t, t.cur)
  <2>1. t \in Txn /\ t.cur \in Sessions /\ NotesKept(t) /\ pc[p] = "load"
    BY <1>0, <1>6 DEF LoadSession, TypeOK, Writing
  <2>2. NotesKept(u)
    BY <2>1, SkipFailedNotes, ReindexedNotes
  <2>3. /\ txn' = [txn EXCEPT ![p] = u] /\ pc' = [pc EXCEPT ![p] = "scan"]
        /\ UNCHANGED <<sources, index>>
    BY <1>6 DEF LoadSession
  <2> HIDE DEF u
  <2>4. QED
    BY <2>1, <2>2, <2>3, StageNotes
<1>7. ASSUME CommitBuild(p) PROVE NoteInv'
  <2> DEFINE t == txn[p]
             u == [t EXCEPT !.docs = Without(t.docs, Stale(p)),
                            !.man = Without(t.man, Stale(p))]
  <2>1. t \in Txn /\ NotesKept(t) /\ Commit(p, u)
    BY <1>0, <1>7 DEF CommitBuild, Writing
  <2>2. u.docs = Without(t.docs, Stale(p)) /\ u.man = Without(t.man, Stale(p))
    BY <2>1 DEF Txn
  <2> HIDE DEF u
  <2>3. QED
    BY <2>1, <2>2, WithoutNotes, CommitNotes
<1>8. ASSUME ReadNotes(p) PROVE NoteInv'
  <2>1. /\ \A q \in Procs : q # p => pc'[q] = pc[q] /\ txn'[q] = txn[q]
        /\ pc'[p] = "notes" /\ pc[p] # "save" /\ UNCHANGED <<sources, index>>
        /\ txn'[p].list = [n \in Notes |-> IF NoteRef[n] \in FoundBy(p) THEN note[n] ELSE 0]
    BY <1>8 DEF ReadNotes, TypeOK, Txn
  <2>2. clock \in Nat
    BY NotesAreItems DEF TypeOK
  <2>3. ListKept(txn'[p])
    BY <2>1, <2>2 DEF ListKept, NoteInv
  <2>4. ~Writing(p)'
    BY <2>1 DEF Writing
  <2>5. QED
    BY <2>1, <2>3, <2>4, OutsideNotes
<1>9. ASSUME IndexNotes(p) PROVE NoteInv'
  <2> DEFINE t == LoadManifestOrReset
             list == txn[p].list
             u == [t EXCEPT !.docs = WithNotes(t.docs, t.man, list),
                            !.man = WithNotes(t.man, t.man, list),
                            !.errors = txn[p].errors]
  <2>1. t \in Txn /\ NotesKept(t) /\ Commit(p, u)
    BY <1>9, LoadManifestType, LoadManifestNotes DEF IndexNotes
  <2>2. \A n \in Notes : list[n] <= clock
    BY <1>9 DEF IndexNotes, NoteInv, ListKept
  <2> HIDE DEF t, list
  <2>3. u.docs = WithNotes(t.docs, t.man, list) /\ u.man = WithNotes(t.man, t.man, list)
    BY <2>1 DEF Txn
  <2> HIDE DEF u
  <2>4. QED
    BY <2>1, <2>2, <2>3, WithNotesNotes, CommitNotes
<1>10. ASSUME Save(p) PROVE NoteInv'
  <2>1. /\ \A q \in Procs : q # p => pc'[q] = pc[q] /\ txn'[q] = txn[q]
        /\ pc'[p] \in {"idle", "begin"}
    BY <1>10, LeaveShape DEF Save
  <2>2. Writing(p) /\ NotesKept(txn[p]) /\ docs = txn[p].docs
    BY <1>0, <1>10 DEF Save, Writing, SafetyInv
  <2>3. \A q \in Procs : ~Writing(q)'
    BY <2>1, <2>2 DEF SafetyInv, OneWriter, Writing
  <2>4. manifest' = txn[p].man /\ docs' = docs /\ clock' = clock /\ note' = note
    BY <1>10 DEF Save, sources
  <2>5. QED
    BY <2>1, <2>2, <2>3, <2>4 DEF NoteInv, NotesKept, ListKept
<1>11. ASSUME Leave(p) \/ Continue(p), pc[p] # "save", UNCHANGED <<sources, index>> PROVE NoteInv'
  <2>1. /\ \A q \in Procs : q # p => pc'[q] = pc[q] /\ txn'[q] = txn[q]
        /\ pc'[p] \in {"idle", "begin"}
    BY <1>11, LeaveShape
  <2>2. ~Writing(p)' /\ pc'[p] # "notes"
    BY <2>1 DEF Writing
  <2>3. QED
    BY <1>11, <2>1, <2>2, OutsideNotes
<1>12. QED
  BY <1>1, <1>2, <1>3, <1>4, <1>5, <1>6, <1>7, <1>8, <1>9, <1>10, <1>11
  DEF Process, Progress, Build, Refused, ReadHits, Abort, TornCommit

LEMMA NoteInvariant ==
  ASSUME Interrupts = FALSE
  PROVE  Spec => []NoteInv
<1>1. Init => NoteInv
  <2> SUFFICES ASSUME Init PROVE NoteInv
    OBVIOUS
  <2>1. \A n \in Notes : note[n] <= clock
    BY DEF Init
  <2>2. \A n \in Notes : docs[n] = 0 /\ manifest[n] = 0 /\ 0 <= clock
    BY NotesAreItems DEF Init, Blank
  <2>3. QED
    BY <2>1, <2>2 DEF Init, NoteInv, Writing
<1>2. TypeOK /\ SafetyInv /\ NoteInv /\ [Next]_vars => NoteInv'
  <2> SUFFICES ASSUME TypeOK, SafetyInv, NoteInv, [Next]_vars PROVE NoteInv'
    OBVIOUS
  <2>1. CASE UNCHANGED vars
    BY <2>1 DEF vars, NoteInv, Writing, NotesKept, ListKept
  <2>2. QED
    BY <2>1, NoteEnvironment, NoteProcess DEF Next
<1>3. QED
  BY <1>1, <1>2, MatchInvariant, PTL DEF Spec

(***************************************************************************)
(* The refinement: at any moment the entries are such as IndexCache has    *)
(* them, so any step of a process is a transaction or leaves them as they  *)
(* are, and a change outside leaves them alone.                            *)
(***************************************************************************)
EntriesKept == EntryBar \in [Items -> Cache!Entries(clock)]

\* Documents d and manifest m that make entries of the abstract cache.
LEMMA EffectiveKept ==
  ASSUME TypeOK, NEW d \in [Items -> Version], NEW m \in [Items -> Version], NEW f \in Forms,
         f = "current" => Matching(d, m),
         \A i \in Items : d[i] <= clock /\ (d[i] # 0 => m[i] <= d[i])
  PROVE  Effective(f, d, m) \in [Items -> Cache!Entries(clock)]
<1>1. clock \in Nat /\ \A i \in Items : d[i] \in Nat /\ m[i] \in Nat
  BY NotesAreItems DEF TypeOK
<1>2. ASSUME NEW i \in Items, f = "current"
      PROVE  [docs |-> d[i], fp |-> m[i]] \in Cache!Entries(clock)
  <2>1. CASE d[i] = 0
    BY <1>1, <1>2, <2>1 DEF Cache!Entries, Cache!Absent, Matching
  <2>2. CASE d[i] # 0
    <3>1. d[i] \in 1 .. clock /\ m[i] \in 1 .. clock /\ m[i] <= d[i]
      BY <1>1, <1>2, <2>2 DEF Matching
    <3>2. QED
      BY <3>1 DEF Cache!Entries, Cache!Indexed
  <2>3. QED
    BY <2>1, <2>2
<1>3. [docs |-> 0, fp |-> 0] \in Cache!Entries(clock)
  BY DEF Cache!Entries, Cache!Absent
<1>4. QED
  BY <1>2, <1>3 DEF Effective

LEMMA EntriesTyped ==
  ASSUME TypeOK, SafetyInv, MatchInv, NoteInv
  PROVE  EntriesKept
<1>1. clock \in Nat /\ \A f \in Files : disk[f] \in Nat /\ disk[f] <= clock
  BY NotesAreItems DEF TypeOK, SafetyInv
<1>2. \A s \in Sessions : FileOf[s] \in Files
  BY ConstantsAssumption
<1>3. \A i \in Items : docs[i] <= clock /\ docs[i] \in Nat /\ manifest[i] \in Nat
  <2>1. \A i \in Items : docs[i] \in Nat /\ manifest[i] \in Nat
    BY NotesAreItems DEF TypeOK
  <2>2. \A s \in Sessions : docs[s] <= disk[FileOf[s]]
    BY DEF SafetyInv
  <2>3. \A s \in Sessions : s \in Items
    BY DEF Items
  <2>4. \A s \in Sessions : docs[s] <= clock
    BY <1>1, <1>2, <2>1, <2>2, <2>3
  <2>5. \A n \in Notes : docs[n] <= clock
    BY DEF NoteInv
  <2>6. QED
    BY <2>1, <2>4, <2>5 DEF Items
<1>4. CASE \E p \in Procs : pc[p] = "save"
  <2> DEFINE t == txn[CHOOSE p \in Procs : pc[p] = "save"]
  <2>1. PICK p \in Procs : pc[p] = "save" /\ t = txn[p]
    BY <1>4
  <2> HIDE DEF t
  <2>2. t \in Txn /\ TxnSafe(t) /\ TxnMatches(t) /\ NotesKept(t) /\ docs = t.docs
    BY <2>1 DEF TypeOK, SafetyInv, MatchInv, NoteInv, Writing
  <2>3. \A i \in Items : docs[i] # 0 => t.man[i] <= docs[i]
    BY <2>2, <1>3 DEF Items, TxnSafe, NotesKept
  <2>4. /\ docs \in [Items -> Version] /\ t.man \in [Items -> Version] /\ t.form \in Forms
        /\ t.form = "current" => Matching(docs, t.man)
    BY <2>2 DEF Txn, TxnMatches
  <2>5. Effective(t.form, docs, t.man) \in [Items -> Cache!Entries(clock)]
    BY <1>3, <2>3, <2>4, EffectiveKept
  <2>6. EntryBar = Effective(t.form, docs, t.man)
    BY <1>4 DEF EntryBar, t
  <2>7. QED
    BY <2>5, <2>6 DEF EntriesKept
<1>5. CASE ~\E p \in Procs : pc[p] = "save"
  <2>1. \A i \in Items : docs[i] # 0 => manifest[i] <= docs[i]
    BY <1>3, <1>5 DEF Items, SafetyInv, NeverStaleUnnoticed, Vouched, NoteInv
  <2>2. /\ docs \in [Items -> Version] /\ manifest \in [Items -> Version] /\ form \in Forms
        /\ form = "current" => Matching(docs, manifest)
    BY <1>5 DEF TypeOK, MatchInv
  <2>3. Effective(form, docs, manifest) \in [Items -> Cache!Entries(clock)]
    BY <1>3, <2>1, <2>2, EffectiveKept
  <2>4. EntryBar = Effective(form, docs, manifest)
    BY <1>5, Zenon DEF EntryBar
  <2>5. QED
    BY <2>3, <2>4 DEF EntriesKept
<1>6. QED
  BY <1>4, <1>5

LEMMA CacheInit == Init => Cache!Init
<1> SUFFICES ASSUME Init PROVE Cache!Init
  OBVIOUS
<1>1. EntryBar = Effective(form, docs, manifest)
  BY DEF Init, EntryBar
<1>2. form = "current" => docs = Blank
  BY DEF Init
<1>3. EntryBar = [i \in Items |-> [docs |-> 0, fp |-> 0]]
  BY <1>1, <1>2 DEF Init, Effective, Blank
<1>4. QED
  BY <1>3 DEF Init, Cache!Init, Cache!Absent

LEMMA CacheStep ==
  ASSUME TypeOK, EntriesKept', [Next]_vars
  PROVE  [Cache!Next]_<<clock, EntryBar>>
<1>1. CASE UNCHANGED vars
  BY <1>1 DEF vars, EntryBar, Effective
<1>2. CASE Environment
  <2>1. UNCHANGED <<index, procs>> /\ Tick
    BY <1>2 DEF Environment, EditFile, DeleteOrRestoreFile, ChangeReadability,
           BreakOrMendProvider, ChangeNote
  <2>2. EntryBar' = EntryBar
    BY <2>1 DEF index, procs, EntryBar, Effective
  <2>3. QED
    BY <2>1, <2>2 DEF Tick, Cache!Next, Cache!Change
<1>3. ASSUME NEW p \in Procs, Process(p)
      PROVE  Cache!Transaction
  <2>1. clock' = clock
    BY <1>3 DEF Process, Progress, Build, Start, Clear, ClearProviders, BeginBuild,
       FingerprintSession, LoadSession, CommitBuild, ReadNotes, IndexNotes, Save, Refused, ReadHits,
       Abort, TornCommit, Commit, sources
  <2>2. QED
    BY <2>1 DEF EntriesKept, Cache!Transaction, Cache!Entries, Cache!Absent, Cache!Indexed
<1>4. QED
  BY <1>1, <1>2, <1>3 DEF Next, Cache!Next

\* While every commit is followed by its save, documents and manifest behave as
\* one value that is replaced atomically, whichever commands of however many
\* processes interleave (search/index/write.rs).
THEOREM CacheCorrect ==
  ASSUME Interrupts = FALSE
  PROVE  Spec => ImplementsIndexCache
<1>1. Spec => []EntriesKept
  BY MatchInvariant, NoteInvariant, EntriesTyped, PTL
<1>2. QED
  BY <1>1, MatchInvariant, CacheInit, CacheStep, PTL DEF Spec, ImplementsIndexCache, Cache!Spec

----------------------------------------------------------------------------
(***************************************************************************)
(* Scope.  What a pass has staged differs from the index on disk only in   *)
(* sessions of its command, and a pass of the UI's thread has dropped only *)
(* sessions whose loading failed.                                          *)
(***************************************************************************)
Staging(p) == pc[p] \in {"scan", "load"}

Within(t, j, errors) ==
  \A s \in Sessions :
    /\ ProviderOf[s] \notin j.scope \cup j.prune => t.docs[s] = docs[s] /\ t.man[s] = manifest[s]
    /\ j.kind = "tui" /\ docs[s] # 0 /\ t.docs[s] = 0 => s \in errors

Stays(t, j) ==
  /\ t.todo \subseteq SessionsOf(j.scope)
  /\ t.cur \in Sessions => t.cur \in SessionsOf(j.scope)
  /\ form = "current" => Within(t, j, t.errors)

ScopeInv ==
  \A p \in Procs :
    /\ FoundBy(p) \subseteq SessionsOf(job[p].scope)
    /\ Staging(p) => Stays(txn[p], job[p])

LEMMA TuiPrunesNothing ==
  ASSUME NEW j \in Jobs \cup {NoJob}, j.kind = "tui"
  PROVE  j.prune = {}
  BY ConstantsAssumption DEF AllJobs, IndexAll, IndexOne, IndexVisible, Search,
     TuiIndex, Reindex, Job, NoJob

\* Dropping sessions of the command; the UI's thread may drop those in errors.
LEMMA WithoutWithin ==
  ASSUME NEW t, NEW j, NEW errors, NEW S, Within(t, j, errors),
         NEW u, u.docs = Without(t.docs, S), u.man = Without(t.man, S),
         NEW more, errors \subseteq more,
         \A s \in S \cap Sessions : ProviderOf[s] \in j.scope \cup j.prune,
         j.kind = "tui" => S \cap Sessions \subseteq more
  PROVE  Within(u, j, more)
<1>1. \A s \in Sessions : /\ u.docs[s] = IF s \in S THEN 0 ELSE t.docs[s]
                          /\ u.man[s] = IF s \in S THEN 0 ELSE t.man[s]
  BY DEF Without, Items
<1>2. QED
  BY <1>1 DEF Within

LEMMA SkipFailedStays ==
  ASSUME NEW t \in Txn, NEW j, Stays(t, j), NEW s \in SessionsOf(j.scope)
  PROVE  Stays(SkipFailed(t, s), j)
<1> DEFINE u == SkipFailed(t, s)
<1>1. /\ u.docs = Without(t.docs, {s}) /\ u.man = Without(t.man, {s})
      /\ u.errors = t.errors \cup {s} /\ u.todo = t.todo \ {s} /\ u.cur = NoSession
  BY DEF SkipFailed, Txn
<1> HIDE DEF u
<1>2. ASSUME form = "current" PROVE Within(u, j, u.errors)
  <2>1. Within(t, j, t.errors) /\ ProviderOf[s] \in j.scope
    BY <1>2 DEF Stays, SessionsOf
  <2>2. QED
    BY <1>1, <2>1, WithoutWithin
<1>3. Stays(u, j)
  BY <1>1, <1>2, ConstantsAssumption DEF Stays
<1>4. QED
  BY <1>3 DEF u

LEMMA ReindexedStays ==
  ASSUME TypeOK, NEW t \in Txn, NEW j, Stays(t, j), NEW s \in SessionsOf(j.scope)
  PROVE  Stays(Reindexed(t, s), j)
<1> DEFINE fp == Fingerprint(t, FileOf[s])
           u == Reindexed(t, s)
<1> HIDE DEF fp
<1>1. s \in Sessions /\ ProviderOf[s] \in j.scope /\ FileOf[s] \in Files
  BY ConstantsAssumption DEF SessionsOf
<1>2. u.errors = t.errors /\ u.todo = t.todo \ {s} /\ u.cur = NoSession
  BY DEF Reindexed, Txn
<1>3. \A r \in Sessions : /\ u.docs[r] = IF r = s THEN disk[FileOf[s]] ELSE t.docs[r]
                          /\ r # s => u.man[r] = t.man[r]
  BY <1>1 DEF Reindexed, Txn, fp, Items
<1>4. disk[FileOf[s]] # 0
  BY <1>1 DEF TypeOK
<1> HIDE DEF u
<1>5. form = "current" => Within(u, j, u.errors)
  BY <1>1, <1>2, <1>3, <1>4 DEF Stays, Within
<1>6. Stays(u, j)
  BY <1>2, <1>5, ConstantsAssumption DEF Stays
<1>7. QED
  BY <1>6 DEF u

\* A pass goes on; a process that stages nothing changes; the index changes
\* under a process that is the only one to stage.
LEMMA StageScope ==
  ASSUME TypeOK, ScopeInv, NEW p \in Procs,
         NEW t, Stays(t, job[p]), txn' = [txn EXCEPT ![p] = t],
         \/ pc' = [pc EXCEPT ![p] = "scan"]
         \/ pc' = [pc EXCEPT ![p] = "load"]
         \/ UNCHANGED pc,
         UNCHANGED <<index, job, found>>
  PROVE  ScopeInv'
<1>1. \A q \in Procs : q # p => txn'[q] = txn[q] /\ pc'[q] = pc[q]
  BY DEF TypeOK
<1>2. txn'[p] = t /\ UNCHANGED <<docs, manifest, form, job, found>>
  BY DEF TypeOK, index
<1>3. Stays(t, job[p])'
  BY <1>2 DEF Stays, Within
<1>4. QED
  BY <1>1, <1>2, <1>3 DEF ScopeInv, Staging, Stays, Within, FoundBy

LEMMA OutsideScope ==
  ASSUME TypeOK, ScopeInv, NEW p \in Procs,
         \A q \in Procs : q # p =>
           pc'[q] = pc[q] /\ txn'[q] = txn[q] /\ job'[q] = job[q] /\ found'[q] = found[q],
         (FoundBy(p) \subseteq SessionsOf(job[p].scope))',
         ~Staging(p)',
         UNCHANGED index \/ \A q \in Procs : q # p => ~Staging(q)
  PROVE  ScopeInv'
<1>1. \A q \in Procs : q # p => (FoundBy(q) \subseteq SessionsOf(job[q].scope))'
  BY DEF ScopeInv, FoundBy
<1>2. \A q \in Procs : ~Staging(q)' \/ Stays(txn[q], job[q])'
  BY DEF ScopeInv, Staging, Stays, Within, index
<1>3. QED
  BY <1>1, <1>2 DEF ScopeInv

\* The commit itself is what the property is about.
ScopeKept ==
  \A p \in Procs, s \in Sessions :
     (pc[p] # "save" /\ pc'[p] = "save" /\ step[p] # "clear" /\ form = "current") =>
       /\ ProviderOf[s] \notin job[p].scope \cup job[p].prune =>
              docs'[s] = docs[s] /\ txn'[p].man[s] = manifest[s]
       /\ job[p].kind = "tui" /\ docs[s] # 0 /\ docs'[s] = 0 => s \in txn[p].errors

LEMMA CommitScope ==
  ASSUME TypeOK, SafetyInv, ScopeInv, NEW p \in Procs, MayWrite(p), NEW t, Commit(p, t),
         step[p] # "clear" /\ form = "current" => Within(t, job[p], txn[p].errors)
  PROVE  ScopeInv' /\ ScopeKept
<1>1. /\ \A q \in Procs : q # p =>
            pc'[q] = pc[q] /\ txn'[q] = txn[q] /\ job'[q] = job[q] /\ found'[q] = found[q]
      /\ txn'[p] = t /\ pc'[p] = "save" /\ docs' = t.docs
      /\ UNCHANGED <<job, found>>
  BY DEF TypeOK, Commit
<1>2. \A q \in Procs : q # p => ~Staging(q)
  BY DEF SafetyInv, OneWriter, MayWrite, LockFree, Writing, Staging
<1>3. (FoundBy(p) \subseteq SessionsOf(job[p].scope))'
  BY <1>1 DEF ScopeInv, FoundBy
<1>4. ScopeInv'
  BY <1>1, <1>2, <1>3, OutsideScope DEF Staging
<1>5. ScopeKept
  BY <1>1 DEF ScopeKept, Within
<1>6. QED
  BY <1>4, <1>5

\* A step without a commit.
LEMMA NoCommitKept ==
  ASSUME NEW p \in Procs, \A q \in Procs : q # p => pc'[q] = pc[q], pc'[p] # "save"
  PROVE  ScopeKept
  BY DEF ScopeKept

LEMMA LeaveScope ==
  ASSUME TypeOK, ScopeInv, NEW p \in Procs, Leave(p) \/ Continue(p),
         UNCHANGED index \/ \A q \in Procs : q # p => ~Staging(q)
  PROVE  ScopeInv' /\ ScopeKept
<1>1. /\ \A q \in Procs : q # p =>
            pc'[q] = pc[q] /\ txn'[q] = txn[q] /\ job'[q] = job[q] /\ found'[q] = found[q]
      /\ pc'[p] \in {"idle", "begin"}
      /\ \/ job'[p] = job[p] /\ found'[p] = found[p]
         \/ found'[p] = [s \in Sessions |-> 0]
  BY DEF TypeOK, Leave, Continue
<1>2. (FoundBy(p) \subseteq SessionsOf(job[p].scope))'
  BY <1>1 DEF ScopeInv, FoundBy
<1>3. ~Staging(p)'
  BY <1>1 DEF Staging
<1>4. QED
  BY <1>1, <1>2, <1>3, OutsideScope, NoCommitKept

LEMMA ScopeProcess ==
  ASSUME TypeOK, SafetyInv, ScopeInv, NEW p \in Procs, Process(p)
  PROVE  ScopeInv' /\ ScopeKept
<1>0. /\ job[p] \in Jobs \cup {NoJob} /\ txn[p] \in Txn
      /\ Staging(p) => Stays(txn[p], job[p]) /\ MayWrite(p)
  BY DEF TypeOK, ScopeInv, Staging, MayWrite, Writing
<1>1. ASSUME NEW j \in Jobs, Start(p, j) PROVE ScopeInv' /\ ScopeKept
  <2>1. /\ \A q \in Procs : q # p =>
              pc'[q] = pc[q] /\ txn'[q] = txn[q] /\ job'[q] = job[q] /\ found'[q] = found[q]
        /\ pc'[p] = "begin" /\ job'[p] = j /\ found'[p] = Discovered(j.scope)
        /\ UNCHANGED index
    BY <1>1 DEF Start, TypeOK
  <2>2. (FoundBy(p) \subseteq SessionsOf(job[p].scope))'
    BY <2>1 DEF FoundBy, Discovered, SessionsOf
  <2>3. ~Staging(p)'
    BY <2>1 DEF Staging
  <2>4. QED
    BY <2>1, <2>2, <2>3, OutsideScope, NoCommitKept
<1>2. ASSUME Clear(p) PROVE ScopeInv' /\ ScopeKept
  <2>1. Commit(p, NoTxn) /\ MayWrite(p) /\ step[p] = "clear"
    BY <1>2 DEF Clear, Acquire, MayWrite
  <2>2. QED
    BY <2>1, CommitScope
<1>3. ASSUME ClearProviders(p) PROVE ScopeInv' /\ ScopeKept
  <2> DEFINE t == LoadManifestOrReset
             S == SessionsOf(job[p].prune)
             u == [t EXCEPT !.docs = Without(t.docs, S), !.man = Without(t.man, S)]
  <2>1. t \in Txn /\ Commit(p, u) /\ MayWrite(p)
    BY <1>3, LoadManifestType DEF ClearProviders, Acquire, MayWrite
  <2>2. form = "current" => Within(t, job[p], txn[p].errors)
    BY DEF LoadManifestOrReset, NoTxn, Within
  <2>3. /\ \A s \in S \cap Sessions : ProviderOf[s] \in job[p].scope \cup job[p].prune
        /\ job[p].kind = "tui" => S \cap Sessions = {}
    BY <1>0, TuiPrunesNothing DEF SessionsOf
  <2> HIDE DEF t, S
  <2>4. u.docs = Without(t.docs, S) /\ u.man = Without(t.man, S)
    BY <2>1 DEF Txn
  <2> HIDE DEF u
  <2>5. form = "current" => Within(u, job[p], txn[p].errors)
    BY <2>2, <2>3, <2>4, WithoutWithin
  <2>6. QED
    BY <2>1, <2>5, CommitScope
<1>4. ASSUME BeginBuild(p) PROVE ScopeInv' /\ ScopeKept
  <2> DEFINE t == IF form = "legacy" THEN Reset ELSE LoadManifestOrReset
             u == [t EXCEPT !.todo = FoundBy(p)]
  <2>1. t \in Txn /\ t.cur \notin Sessions
    BY LoadManifestType
  <2>2. /\ txn' = [txn EXCEPT ![p] = u] /\ pc' = [pc EXCEPT ![p] = "scan"]
        /\ UNCHANGED <<index, job, found>>
    BY <1>4 DEF BeginBuild
  <2>3. form = "current" => t.docs = docs /\ t.man = manifest
    BY DEF LoadManifestOrReset, NoTxn
  <2> HIDE DEF t
  <2>4. u.docs = t.docs /\ u.man = t.man /\ u.todo = FoundBy(p) /\ u.cur = t.cur
    BY <2>1 DEF Txn
  <2> HIDE DEF u
  <2>5. Stays(u, job[p])
    BY <2>1, <2>3, <2>4 DEF Stays, Within, ScopeInv
  <2>6. pc'[p] # "save" /\ \A q \in Procs : q # p => pc'[q] = pc[q]
    BY <2>2 DEF TypeOK
  <2>7. QED
    BY <2>2, <2>5, <2>6, StageScope, NoCommitKept
<1>5. ASSUME NEW s \in Sessions, FingerprintSession(p, s) PROVE ScopeInv' /\ ScopeKept
  <2> DEFINE t == txn[p]
             known == [t EXCEPT !.cache[FileOf[s]] = Fingerprint(t, FileOf[s])]
             seen == [known EXCEPT !.todo = t.todo \ {s}]
             load == [known EXCEPT !.cur = s]
  <2>1. /\ t \in Txn /\ pc[p] = "scan" /\ s \in t.todo /\ Stays(t, job[p])
        /\ UNCHANGED <<index, job, found>>
    BY <1>0, <1>5 DEF FingerprintSession, Staging
  <2>2. s \in SessionsOf(job[p].scope)
    BY <2>1 DEF Stays
  <2>3. /\ seen.docs = t.docs /\ seen.man = t.man /\ seen.errors = t.errors
        /\ seen.cur = t.cur /\ seen.todo = t.todo \ {s}
        /\ load.docs = t.docs /\ load.man = t.man /\ load.errors = t.errors
        /\ load.cur = s /\ load.todo = t.todo
    BY <2>1 DEF Txn
  <2>4. \/ txn' = [txn EXCEPT ![p] = SkipFailed(t, s)] /\ UNCHANGED pc
        \/ txn' = [txn EXCEPT ![p] = seen] /\ UNCHANGED pc
        \/ txn' = [txn EXCEPT ![p] = load] /\ pc' = [pc EXCEPT ![p] = "load"]
    BY <1>5 DEF FingerprintSession
  <2> HIDE DEF known, seen, load
  <2>5. Stays(seen, job[p]) /\ Stays(load, job[p])
    BY <2>1, <2>2, <2>3 DEF Stays, Within
  <2>6. Stays(SkipFailed(t, s), job[p])
    BY <2>1, <2>2, SkipFailedStays
  <2>7. pc'[p] # "save" /\ \A q \in Procs : q # p => pc'[q] = pc[q]
    BY <2>1, <2>4 DEF TypeOK
  <2>8. ScopeInv'
    BY <2>1, <2>4, <2>5, <2>6, StageScope
  <2>9. QED
    BY <2>7, <2>8, NoCommitKept
<1>6. ASSUME LoadSession(p) PROVE ScopeInv' /\ ScopeKept
  <2> DEFINE t == txn[p]
             u == IF Unreadable(FileOf[t.cur]) THEN SkipFailed(t, t.cur)
                  ELSE Reindexed(t, t.cur)
  <2>1. t \in Txn /\ t.cur \in SessionsOf(job[p].scope) /\ Stays(t, job[p])
    BY <1>0, <1>6 DEF LoadSession, TypeOK, Staging, Stays
  <2>2. Stays(u, job[p])
    BY <2>1, SkipFailedStays, ReindexedStays
  <2>3. /\ txn' = [txn EXCEPT ![p] = u] /\ pc' = [pc EXCEPT ![p] = "scan"]
        /\ UNCHANGED <<index, job, found>>
    BY <1>6 DEF LoadSession
  <2> HIDE DEF u
  <2>4. pc'[p] # "save" /\ \A q \in Procs : q # p => pc'[q] = pc[q]
    BY <2>3 DEF TypeOK
  <2>5. QED
    BY <2>2, <2>3, <2>4, StageScope, NoCommitKept
<1>7. ASSUME CommitBuild(p) PROVE ScopeInv' /\ ScopeKept
  <2> DEFINE t == txn[p]
             S == Stale(p)
             u == [t EXCEPT !.docs = Without(t.docs, S), !.man = Without(t.man, S)]
  <2>1. t \in Txn /\ Stays(t, job[p]) /\ MayWrite(p) /\ Commit(p, u)
    BY <1>0, <1>7 DEF CommitBuild, Staging
  <2>2. /\ \A s \in S \cap Sessions : ProviderOf[s] \in job[p].scope \cup job[p].prune
        /\ job[p].kind = "tui" => S \cap Sessions = {}
    BY <1>0, TuiPrunesNothing DEF Stale, SessionsOf
  <2> HIDE DEF S
  <2>3. u.docs = Without(t.docs, S) /\ u.man = Without(t.man, S)
    BY <2>1 DEF Txn
  <2> HIDE DEF u
  <2>4. form = "current" => Within(u, job[p], txn[p].errors)
    BY <2>1, <2>2, <2>3, WithoutWithin DEF Stays
  <2>5. QED
    BY <2>1, <2>4, CommitScope
<1>8. ASSUME ReadNotes(p) PROVE ScopeInv' /\ ScopeKept
  <2>1. /\ \A q \in Procs : q # p =>
              pc'[q] = pc[q] /\ txn'[q] = txn[q] /\ job'[q] = job[q] /\ found'[q] = found[q]
        /\ pc'[p] = "notes" /\ UNCHANGED <<index, job, found>>
    BY <1>8 DEF ReadNotes, TypeOK
  <2>2. (FoundBy(p) \subseteq SessionsOf(job[p].scope))' /\ ~Staging(p)'
    BY <2>1 DEF ScopeInv, FoundBy, Staging
  <2>3. QED
    BY <2>1, <2>2, OutsideScope, NoCommitKept
<1>9. ASSUME IndexNotes(p) PROVE ScopeInv' /\ ScopeKept
  <2> DEFINE t == LoadManifestOrReset
             list == txn[p].list
             u == [t EXCEPT !.docs = WithNotes(t.docs, t.man, list),
                            !.man = WithNotes(t.man, t.man, list),
                            !.errors = txn[p].errors]
  <2>1. t \in Txn /\ Commit(p, u) /\ MayWrite(p)
    BY <1>9, LoadManifestType DEF IndexNotes, MayWrite
  <2>2. form = "current" => t.docs = docs /\ t.man = manifest
    BY DEF LoadManifestOrReset, NoTxn
  <2> HIDE DEF t, list
  <2>3. u.docs = WithNotes(t.docs, t.man, list) /\ u.man = WithNotes(t.man, t.man, list)
    BY <2>1 DEF Txn
  <2> HIDE DEF u
  <2>4. \A s \in Sessions : u.docs[s] = t.docs[s] /\ u.man[s] = t.man[s]
    BY <2>3, ConstantsAssumption DEF WithNotes, Items
  <2>5. form = "current" => Within(u, job[p], txn[p].errors)
    BY <2>2, <2>4 DEF Within
  <2>6. QED
    BY <2>1, <2>5, CommitScope
<1>10. ASSUME Save(p) PROVE ScopeInv' /\ ScopeKept
  <2>1. \A q \in Procs : q # p => ~Staging(q)
    BY <1>10 DEF Save, SafetyInv, OneWriter, Writing, Staging
  <2>2. QED
    BY <1>10, <2>1, LeaveScope DEF Save
<1>11. ASSUME Leave(p) \/ Continue(p), UNCHANGED <<sources, index>> PROVE ScopeInv' /\ ScopeKept
  BY <1>11, LeaveScope
<1>12. QED
  BY <1>1, <1>2, <1>3, <1>4, <1>5, <1>6, <1>7, <1>8, <1>9, <1>10, <1>11
  DEF Process, Progress, Build, Refused, ReadHits, Abort, TornCommit

\* Whatever interleaves and wherever a process dies, a commit changes only
\* sessions of the providers its command discovers or prunes, and the UI's
\* indexing thread drops none that it could read (build_index_inner).
THEOREM ScopeCorrect == Spec => CommitsStayInScope
<1>1. Init => ScopeInv
  <2> SUFFICES ASSUME Init, NEW p \in Procs
               PROVE  FoundBy(p) = {} /\ ~Staging(p)
    BY DEF ScopeInv
  <2>1. found[p] = [s \in Sessions |-> 0] /\ pc[p] = "idle"
    BY DEF Init
  <2>2. QED
    BY <2>1 DEF FoundBy, Staging
<1>2. TypeOK /\ SafetyInv /\ ScopeInv /\ [Next]_vars => ScopeInv' /\ [ScopeKept]_vars
  <2> SUFFICES ASSUME TypeOK, SafetyInv, ScopeInv, [Next]_vars
               PROVE  ScopeInv' /\ [ScopeKept]_vars
    OBVIOUS
  <2>1. CASE UNCHANGED vars
    BY <2>1 DEF vars, ScopeInv, FoundBy, Staging, Stays, Within
  <2>2. CASE Environment
    <3>1. UNCHANGED <<index, procs>>
      BY <2>2 DEF Environment, EditFile, DeleteOrRestoreFile, ChangeReadability,
             BreakOrMendProvider, ChangeNote
    <3>2. QED
      BY <3>1 DEF index, procs, ScopeInv, FoundBy, Staging, Stays, Within, ScopeKept
  <2>3. QED
    BY <2>1, <2>2, ScopeProcess DEF Next
<1>3. QED
  BY <1>1, <1>2, TypeCorrect, SafetyCorrect, PTL DEF Spec, CommitsStayInScope, ScopeKept

----------------------------------------------------------------------------
(***************************************************************************)
(* A single process.  For any sources, what a search serves is no older    *)
(* than what it discovered, and a forced run repairs what torn commits     *)
(* left behind.                                                            *)
(***************************************************************************)
OneProcess == \A p, q \in Procs : p = q

\* A pass that may rely on the manifest it begins with: nothing was torn, or
\* the index was cleared by the same command.
Sound(p) == Interrupts = FALSE \/ job[p].first = "clear"

\* What the manifest lists has documents.
Listed == form = "current" => \A s \in Sessions : manifest[s] # 0 => docs[s] # 0

\* Whatever the command discovered is there, or reported.
Reached(p, d, errors) == \A s \in FoundBy(p) : s \in errors \/ found[p][s] <= d[s]

(***************************************************************************)
(* In the middle of a pass: a discovered session is still to be visited,   *)
(* reported or there; a session to be visited is listed only if it has     *)
(* documents; a fingerprint taken in the pass is no older than discovery.  *)
(***************************************************************************)
Pass(p, t) ==
  /\ t.form = "current"
  /\ Reached(p, t.docs, t.errors \cup t.todo)
  /\ \A s \in t.todo : t.man[s] # 0 => t.docs[s] # 0
  /\ \A s \in Sessions : t.cache[FileOf[s]] # 0 => found[p][s] <= t.cache[FileOf[s]]

Places(p) ==
  /\ pc[p] \in {"scan", "load"} => step[p] = "build"
  /\ pc[p] = "notes" => step[p] = "notes"
  /\ job[p].first = "clear" => step[p] # "clear_providers"

Building(p) ==
  /\ step[p] = "clear" /\ pc[p] = "save" => txn[p].man = Blank
  /\ step[p] = "build" /\ pc[p] = "begin" => Listed
  /\ pc[p] \in {"scan", "load"} => Pass(p, txn[p])
  /\ step[p] = "build" /\ pc[p] = "save" =>
       txn[p].form = "current" /\ Reached(p, docs, txn[p].errors)

Searching(p) ==
  step[p] \in {"notes", "read"} =>
    /\ Reached(p, docs, txn[p].errors)
    /\ IF pc[p] = "save" THEN txn[p].form = "current" ELSE form = "current"

FreshFor(p) ==
  /\ \A s \in Sessions : found[p][s] <= disk[FileOf[s]]
  /\ Places(p)
  /\ Sound(p) => Building(p)
  /\ Interrupts = FALSE => Searching(p)

FreshInv == \A p \in Procs : FreshFor(p)

----------------------------------------------------------------------------
LEMMA Numbers ==
  ASSUME TypeOK
  PROVE  /\ \A f \in Files : disk[f] \in Nat \ {0}
         /\ \A s \in Sessions : /\ s \in Items /\ s \notin Notes /\ FileOf[s] \in Files
                                /\ docs[s] \in Nat /\ manifest[s] \in Nat
         /\ \A p \in Procs, s \in Sessions : found[p][s] \in Nat
         /\ \A t \in Txn, s \in Sessions : t.docs[s] \in Nat /\ t.man[s] \in Nat
         /\ \A t \in Txn, f \in Files : t.cache[f] \in Nat
  BY ConstantsAssumption, VersionOrder DEF TypeOK, Items, Txn

\* A fingerprint that a pass takes or has taken is no older than discovery.
LEMMA FingerprintReached ==
  ASSUME TypeOK, NEW p \in Procs, FreshFor(p), NEW t \in Txn, Pass(p, t), NEW s \in Sessions
  PROVE  found[p][s] <= Fingerprint(t, FileOf[s])
  BY DEF FreshFor, Pass, Fingerprint

LEMMA SkipFailedPass ==
  ASSUME NEW p, NEW t \in Txn, Pass(p, t), NEW s \in Sessions
  PROVE  Pass(p, SkipFailed(t, s))
<1> DEFINE u == SkipFailed(t, s)
<1>1. /\ u.docs = Without(t.docs, {s}) /\ u.man = Without(t.man, {s}) /\ u.cache = t.cache
      /\ u.errors = t.errors \cup {s} /\ u.todo = t.todo \ {s} /\ u.form = t.form
  BY DEF SkipFailed, Txn
<1>2. \A r \in Sessions : r # s => u.docs[r] = t.docs[r] /\ u.man[r] = t.man[r]
  BY <1>1 DEF Without, Items
<1>3. t.todo \subseteq Sessions
  BY DEF Txn
<1> HIDE DEF u
<1>4. Reached(p, u.docs, u.errors \cup u.todo)
  BY <1>1, <1>2 DEF Pass, Reached, FoundBy
<1>5. Pass(p, u)
  BY <1>1, <1>2, <1>3, <1>4 DEF Pass
<1>6. QED
  BY <1>5 DEF u

LEMMA ReindexedPass ==
  ASSUME TypeOK, NEW p \in Procs, FreshFor(p), NEW t \in Txn, Pass(p, t), NEW s \in Sessions
  PROVE  Pass(p, Reindexed(t, s))
<1> DEFINE fp == Fingerprint(t, FileOf[s])
           u == Reindexed(t, s)
<1> HIDE DEF fp
<1>1. /\ u.cache = t.cache /\ u.errors = t.errors /\ u.todo = t.todo \ {s} /\ u.form = t.form
  BY DEF Reindexed, Txn
<1>2. \A r \in Sessions : /\ u.docs[r] = IF r = s THEN disk[FileOf[s]] ELSE t.docs[r]
                          /\ r # s => u.man[r] = t.man[r]
  BY Numbers DEF Reindexed, Txn, fp
<1>3. t.todo \subseteq Sessions /\ found[p][s] <= disk[FileOf[s]]
  BY DEF Txn, FreshFor
<1> HIDE DEF u
<1>4. Reached(p, u.docs, u.errors \cup u.todo)
  BY <1>1, <1>2, <1>3 DEF Pass, Reached, FoundBy
<1>5. Pass(p, u)
  BY <1>1, <1>2, <1>3, <1>4 DEF Pass
<1>6. QED
  BY <1>5 DEF u

\* A session that is skipped because its fingerprint is unchanged is there.
LEMMA SeenPass ==
  ASSUME TypeOK, NEW p \in Procs, FreshFor(p), NEW t \in Txn, Pass(p, t), TxnSafe(t),
         NEW s \in t.todo, Fingerprint(t, FileOf[s]) = t.man[s]
  PROVE  found[p][s] <= t.docs[s]
<1>1. s \in Sessions
  BY DEF Txn
<1>2. Fingerprint(t, FileOf[s]) # 0
  BY <1>1, Numbers, FingerprintType
<1>3. t.man[s] <= t.docs[s]
  BY <1>1, <1>2 DEF Pass, TxnSafe
<1>4. found[p][s] <= t.man[s]
  BY <1>1, FingerprintReached
<1>5. QED
  BY <1>1, <1>3, <1>4, Numbers

\* Remembering a fingerprint, with or without going on to the next session.
LEMMA KnownPass ==
  ASSUME TypeOK, NEW p \in Procs, FreshFor(p), NEW t \in Txn, Pass(p, t), NEW s \in Sessions,
         NEW u, u.form = t.form, u.docs = t.docs, u.man = t.man, u.errors = t.errors,
         u.cache = [t.cache EXCEPT ![FileOf[s]] = Fingerprint(t, FileOf[s])],
         \/ u.todo = t.todo
         \/ u.todo = t.todo \ {s} /\ found[p][s] <= t.docs[s]
  PROVE  Pass(p, u)
<1>1. \A r \in Sessions : FileOf[r] = FileOf[s] => found[p][r] <= Fingerprint(t, FileOf[s])
  BY FingerprintReached
<1>2. \A f \in Files : u.cache[f] = IF f = FileOf[s] THEN Fingerprint(t, FileOf[s]) ELSE t.cache[f]
  BY DEF Txn
<1>3. \A r \in Sessions : u.cache[FileOf[r]] # 0 => found[p][r] <= u.cache[FileOf[r]]
  BY <1>1, <1>2, Numbers DEF Pass
<1>4. Reached(p, u.docs, u.errors \cup u.todo)
  BY DEF Pass, Reached
<1>5. QED
  BY <1>3, <1>4 DEF Pass

----------------------------------------------------------------------------
LEMMA FreshInit == TypeOK /\ Init => FreshInv
<1> SUFFICES ASSUME TypeOK, Init, NEW p \in Procs PROVE FreshFor(p)
  BY DEF FreshInv
<1>1. pc[p] = "idle" /\ step[p] = "idle" /\ \A s \in Sessions : found[p][s] = 0
  BY DEF Init
<1>2. QED
  BY <1>1, Numbers DEF FreshFor, Places, Building, Searching

LEMMA FreshEnvironment == TypeOK /\ SafetyInv /\ FreshInv /\ Environment => FreshInv'
<1> SUFFICES ASSUME TypeOK, SafetyInv, FreshInv, Environment, NEW p \in Procs
             PROVE  FreshFor(p)'
  BY DEF FreshInv
<1>1. UNCHANGED <<index, procs>> /\ clock' = clock + 1
  BY DEF Environment, EditFile, DeleteOrRestoreFile, ChangeReadability,
         BreakOrMendProvider, ChangeNote, Tick
<1>2. \A f \in Files : disk[f] <= disk'[f] /\ disk'[f] \in Nat
  <2>1. clock \in Nat /\ \A f \in Files : disk[f] \in Nat /\ disk[f] <= clock
    BY VersionOrder DEF TypeOK, SafetyInv
  <2>2. UNCHANGED disk \/ \E f \in Files : disk' = [disk EXCEPT ![f] = clock + 1]
    BY DEF Environment, EditFile, DeleteOrRestoreFile, ChangeReadability,
           BreakOrMendProvider, ChangeNote
  <2>3. QED
    BY <2>1, <2>2 DEF TypeOK
<1>3. \A s \in Sessions : found'[p][s] <= disk'[FileOf[s]]
  BY <1>1, <1>2, Numbers DEF FreshInv, FreshFor, procs
<1>4. Places(p)' /\ (Sound(p) => Building(p))' /\ (Interrupts = FALSE => Searching(p))'
  BY <1>1 DEF FreshInv, FreshFor, Places, Sound, Building, Searching, Listed, Pass,
              Reached, FoundBy, index, procs
<1>5. QED
  BY <1>3, <1>4 DEF FreshFor

\* The command ends.
LEMMA LeaveFresh ==
  ASSUME TypeOK, NEW p \in Procs, Leave(p), UNCHANGED disk
  PROVE  FreshFor(p)'
<1>1. pc'[p] = "idle" /\ step'[p] = "idle" /\ \A s \in Sessions : found'[p][s] = 0
  BY DEF TypeOK, Leave
<1>2. job'[p] = NoJob
  BY DEF TypeOK, Leave
<1>3. \A s \in Sessions : found'[p][s] <= disk'[FileOf[s]]
  BY <1>1, Numbers
<1>4. Places(p)' /\ Building(p)' /\ Searching(p)'
  BY <1>1 DEF Places, Building, Searching
<1>5. QED
  BY <1>3, <1>4 DEF FreshFor

\* A pass goes on; a commit.
LEMMA StageFresh ==
  ASSUME TypeOK, NEW p \in Procs, FreshFor(p), NEW t, Sound(p) => Pass(p, t),
         step[p] = "build", txn' = [txn EXCEPT ![p] = t],
         \/ pc' = [pc EXCEPT ![p] = "scan"]
         \/ pc' = [pc EXCEPT ![p] = "load"]
         \/ UNCHANGED pc /\ pc[p] = "scan",
         UNCHANGED <<sources, index, step, job, found>>
  PROVE  FreshFor(p)'
<1>1. txn'[p] = t /\ pc'[p] \in {"scan", "load"} /\ step'[p] = "build"
  BY DEF TypeOK
<1>2. \A s \in Sessions : found'[p][s] <= disk'[FileOf[s]]
  BY DEF FreshFor, sources
<1>3. Places(p)' /\ Searching(p)'
  BY <1>1 DEF FreshFor, Places, Searching
<1>4. (Sound(p) <=> Sound(p)') /\ (Pass(p, t) <=> Pass(p, t)')
  BY DEF Sound, Pass, Reached, FoundBy
<1>5. (Sound(p) => Building(p))'
  BY <1>1, <1>4 DEF Building, Pass, Reached, FoundBy
<1>6. QED
  BY <1>2, <1>3, <1>5 DEF FreshFor

LEMMA CommitFresh ==
  ASSUME TypeOK, NEW p \in Procs, FreshFor(p), NEW t, Commit(p, t),
         step[p] = "clear" => t.man = Blank,
         step[p] = "build" /\ Sound(p) => t.form = "current" /\ Reached(p, t.docs, t.errors),
         step[p] = "notes" /\ Interrupts = FALSE =>
           t.form = "current" /\ Reached(p, t.docs, t.errors),
         step[p] # "read"
  PROVE  FreshFor(p)'
<1>1. /\ txn'[p] = t /\ pc'[p] = "save" /\ docs' = t.docs
      /\ UNCHANGED <<sources, step, job, found>>
  BY DEF TypeOK, Commit
<1>2. \A s \in Sessions : found'[p][s] <= disk'[FileOf[s]]
  BY <1>1 DEF FreshFor, sources
<1>3. Places(p)' /\ (Sound(p) <=> Sound(p)')
  BY <1>1 DEF FreshFor, Places, Sound
<1>4. Reached(p, t.docs, t.errors) <=> Reached(p, docs, txn[p].errors)'
  BY <1>1 DEF Reached, FoundBy
<1>5. (Sound(p) => Building(p))'
  BY <1>1, <1>3, <1>4 DEF Building
<1>6. (Interrupts = FALSE => Searching(p))'
  BY <1>1, <1>4 DEF Searching
<1>7. QED
  BY <1>2, <1>3, <1>5, <1>6 DEF FreshFor

\* A process reads its notes or goes on to the search itself.
LEMMA SearchFresh ==
  ASSUME TypeOK, NEW p \in Procs, FreshFor(p), step[p] = "notes", pc[p] # "save",
         \/ Continue(p)
         \/ pc'[p] = "notes" /\ txn'[p].errors = txn[p].errors /\ UNCHANGED <<step, job, found>>,
         UNCHANGED <<sources, index>>
  PROVE  FreshFor(p)'
<1>1. /\ txn'[p].errors = txn[p].errors /\ UNCHANGED <<job, found>>
      /\ \/ pc'[p] = "begin" /\ step'[p] = "read"
         \/ pc'[p] = "notes" /\ step'[p] = "notes"
  BY NoTxnType DEF Continue, NextStep, TypeOK, Txn, Steps
<1>2. \A s \in Sessions : found'[p][s] <= disk'[FileOf[s]]
  BY <1>1 DEF FreshFor, sources
<1>3. Places(p)' /\ Building(p)'
  BY <1>1 DEF Places, Building
<1>4. (Interrupts = FALSE => Searching(p))'
  BY <1>1 DEF FreshFor, Searching, Reached, FoundBy, index
<1>5. QED
  BY <1>2, <1>3, <1>4 DEF FreshFor

\* A transaction ends with its save.
LEMMA SaveFresh ==
  ASSUME TypeOK, OneProcess, NEW p \in Procs, FreshFor(p), Save(p),
         Interrupts = FALSE => MatchInv'
  PROVE  FreshFor(p)'
<1>1. /\ pc[p] = "save" /\ manifest' = txn[p].man /\ form' = txn[p].form
      /\ Continue(p) /\ UNCHANGED docs /\ UNCHANGED disk
  BY DEF Save, sources
<1>2. CASE NextStep(job[p], step[p]) = "idle"
  BY <1>1, <1>2, LeaveFresh DEF Continue
<1>3. CASE NextStep(job[p], step[p]) # "idle"
  <2>1. /\ pc'[p] = "begin" /\ step'[p] = NextStep(job[p], step[p])
        /\ txn'[p].errors = txn[p].errors /\ UNCHANGED <<job, found>>
    BY <1>1, <1>3, NoTxnType DEF Continue, TypeOK, Txn
  <2>2. \/ step[p] \in {"clear", "clear_providers"} /\ step'[p] = "build"
        \/ step[p] = "build" /\ step'[p] = "notes"
        \/ step[p] = "notes" /\ step'[p] = "read"
    BY <1>3, <2>1 DEF NextStep
  <2>3. \A s \in Sessions : found'[p][s] <= disk'[FileOf[s]]
    BY <1>1, <2>1 DEF FreshFor
  <2>4. Places(p)'
    BY <2>1, <2>2 DEF Places
  <2>5. ASSUME Sound(p)', step'[p] = "build" PROVE Listed'
    <3>1. CASE Interrupts = FALSE
      <4>1. \A q \in Procs : pc'[q] # "save"
        BY <2>1 DEF OneProcess
      <4>2. form' = "current" => \A i \in Items : manifest'[i] # 0 <=> docs'[i] # 0
        BY <3>1, <4>1 DEF MatchInv, Matching
      <4>3. QED
        BY <4>2 DEF Listed, Items
    <3>2. CASE job[p].first = "clear"
      <4>1. step[p] = "clear"
        BY <2>2, <2>5, <3>2 DEF FreshFor, Places
      <4>2. manifest' = Blank
        BY <1>1, <3>2, <4>1 DEF FreshFor, Sound, Building
      <4>3. QED
        BY <4>2 DEF Listed, Blank, Items
    <3>3. QED
      BY <2>1, <2>5, <3>1, <3>2 DEF Sound
  <2>6. (Sound(p) => Building(p))'
    BY <2>1, <2>2, <2>5 DEF Building
  <2>7. (Interrupts = FALSE => Searching(p))'
    BY <1>1, <2>1, <2>2 DEF FreshFor, Sound, Building, Searching, Reached, FoundBy
  <2>8. QED
    BY <2>3, <2>4, <2>6, <2>7 DEF FreshFor
<1>4. QED
  BY <1>2, <1>3

----------------------------------------------------------------------------
LEMMA FreshProcess ==
  ASSUME TypeOK, SafetyInv, FreshInv, OneProcess, NEW p \in Procs, Process(p),
         Interrupts = FALSE => MatchInv /\ MatchInv'
  PROVE  FreshInv'
<1> SUFFICES FreshFor(p)'
  BY DEF FreshInv, OneProcess
<1>0. /\ FreshFor(p) /\ Places(p) /\ txn[p] \in Txn
      /\ pc[p] \in {"scan", "load"} =>
           step[p] = "build" /\ TxnSafe(txn[p]) /\ (Sound(p) => Pass(p, txn[p]))
  BY DEF FreshInv, FreshFor, Places, Building, TypeOK, SafetyInv, Writing
<1>1. ASSUME NEW j \in Jobs, Start(p, j) PROVE FreshFor(p)'
  <2>1. /\ pc'[p] = "begin" /\ job'[p] = j /\ step'[p] = j.first /\ pc[p] = "idle"
        /\ found'[p] = Discovered(j.scope) /\ UNCHANGED <<disk, docs, manifest, form>>
    BY <1>1 DEF Start, TypeOK, sources, index
  <2>2. \A s \in Sessions : found'[p][s] <= disk'[FileOf[s]]
    BY <2>1, Numbers DEF Discovered
  <2>3. step'[p] \in {"clear", "clear_providers", "build"}
    BY <2>1, FirstStep
  <2>4. Places(p)'
    BY <2>1 DEF Places
  <2>5. ASSUME step'[p] = "build", Sound(p)' PROVE Listed'
    <3>1. Interrupts = FALSE
      BY <2>1, <2>5 DEF Sound
    <3>2. \A q \in Procs : pc[q] # "save"
      BY <2>1 DEF OneProcess
    <3>3. form = "current" => \A i \in Items : manifest[i] # 0 <=> docs[i] # 0
      BY <3>1, <3>2 DEF MatchInv, Matching
    <3>4. QED
      BY <2>1, <3>3 DEF Listed, Items
  <2>6. (Sound(p) => Building(p))' /\ Searching(p)'
    BY <2>1, <2>3, <2>5 DEF Building, Searching
  <2>7. QED
    BY <2>2, <2>4, <2>6 DEF FreshFor
<1>2. ASSUME Clear(p) PROVE FreshFor(p)'
  <2>1. Commit(p, NoTxn) /\ step[p] = "clear" /\ NoTxn.man = Blank
    BY <1>2 DEF Clear, Acquire, NoTxn
  <2>2. QED
    BY <1>0, <2>1, CommitFresh
<1>3. ASSUME ClearProviders(p) PROVE FreshFor(p)'
  <2>1. step[p] = "clear_providers" /\ \E t : Commit(p, t)
    BY <1>3 DEF ClearProviders, Acquire
  <2>2. QED
    BY <1>0, <2>1, CommitFresh
<1>4. ASSUME BeginBuild(p) PROVE FreshFor(p)'
  <2> DEFINE t == IF form = "legacy" THEN Reset ELSE LoadManifestOrReset
             u == [t EXCEPT !.todo = FoundBy(p)]
  <2>1. /\ step[p] = "build" /\ pc[p] = "begin" /\ txn' = [txn EXCEPT ![p] = u]
        /\ pc' = [pc EXCEPT ![p] = "scan"] /\ UNCHANGED <<sources, index, step, job, found>>
    BY <1>4 DEF BeginBuild, Acquire
  <2>2. t \in Txn
    BY LoadManifestType
  <2>3. /\ t.form = "current" /\ t.cache = [f \in Files |-> 0]
        /\ \/ t.man = Blank
           \/ form = "current" /\ t.docs = docs /\ t.man = manifest
    BY DEF LoadManifestOrReset, Reset, NoTxn, TypeOK, Forms
  <2> HIDE DEF t
  <2>4. /\ u.form = t.form /\ u.cache = t.cache /\ u.docs = t.docs /\ u.man = t.man
        /\ u.todo = FoundBy(p)
    BY <2>2 DEF Txn
  <2> HIDE DEF u
  <2>5. FoundBy(p) \subseteq Sessions /\ \A s \in Sessions : s \in Items
    BY DEF FoundBy, Items
  <2>6. Sound(p) => Listed
    BY <1>0, <2>1 DEF FreshFor, Building
  <2>7. ASSUME Sound(p) PROVE Pass(p, u)
    <3>1. \A s \in u.todo : u.man[s] # 0 => u.docs[s] # 0
      BY <2>3, <2>4, <2>5, <2>6, <2>7 DEF Listed, Blank
    <3>2. Reached(p, u.docs, u.errors \cup u.todo)
      BY <2>4 DEF Reached
    <3>3. \A s \in Sessions : u.cache[FileOf[s]] = 0
      BY <2>3, <2>4, Numbers
    <3>4. QED
      BY <2>3, <2>4, <3>1, <3>2, <3>3 DEF Pass
  <2>8. QED
    BY <1>0, <2>1, <2>7, StageFresh
<1>5. ASSUME NEW s \in Sessions, FingerprintSession(p, s) PROVE FreshFor(p)'
  <2> DEFINE t == txn[p]
             known == [t EXCEPT !.cache[FileOf[s]] = Fingerprint(t, FileOf[s])]
             seen == [known EXCEPT !.todo = t.todo \ {s}]
             load == [known EXCEPT !.cur = s]
  <2>1. /\ t \in Txn /\ pc[p] = "scan" /\ s \in t.todo /\ step[p] = "build" /\ TxnSafe(t)
        /\ Sound(p) => Pass(p, t)
        /\ UNCHANGED <<sources, index, step, job, found>>
    BY <1>0, <1>5 DEF FingerprintSession
  <2>2. /\ seen.form = t.form /\ seen.docs = t.docs /\ seen.man = t.man
        /\ seen.errors = t.errors /\ seen.todo = t.todo \ {s}
        /\ seen.cache = [t.cache EXCEPT ![FileOf[s]] = Fingerprint(t, FileOf[s])]
    BY <2>1 DEF Txn
  <2>3. /\ load.form = t.form /\ load.docs = t.docs /\ load.man = t.man
        /\ load.errors = t.errors /\ load.todo = t.todo
        /\ load.cache = [t.cache EXCEPT ![FileOf[s]] = Fingerprint(t, FileOf[s])]
    BY <2>1 DEF Txn
  <2>4. \/ txn' = [txn EXCEPT ![p] = SkipFailed(t, s)] /\ UNCHANGED pc
        \/ /\ txn' = [txn EXCEPT ![p] = seen] /\ UNCHANGED pc
           /\ Fingerprint(t, FileOf[s]) = t.man[s]
        \/ txn' = [txn EXCEPT ![p] = load] /\ pc' = [pc EXCEPT ![p] = "load"]
    BY <1>5 DEF FingerprintSession
  <2> HIDE DEF known, seen, load, t
  <2>5. Sound(p) => Pass(p, SkipFailed(t, s)) /\ Pass(p, load)
    BY <1>0, <2>1, <2>3, SkipFailedPass, KnownPass
  <2>6. Sound(p) /\ Fingerprint(t, FileOf[s]) = t.man[s] => Pass(p, seen)
    BY <1>0, <2>1, <2>2, SeenPass, KnownPass, SMTT(30)
  <2>7. CASE txn' = [txn EXCEPT ![p] = SkipFailed(t, s)] /\ UNCHANGED pc
    BY <1>0, <2>1, <2>5, <2>7, StageFresh
  <2>8. CASE /\ txn' = [txn EXCEPT ![p] = seen] /\ UNCHANGED pc
             /\ Fingerprint(t, FileOf[s]) = t.man[s]
    BY <1>0, <2>1, <2>6, <2>8, StageFresh
  <2>9. CASE txn' = [txn EXCEPT ![p] = load] /\ pc' = [pc EXCEPT ![p] = "load"]
    BY <1>0, <2>1, <2>5, <2>9, StageFresh
  <2>10. QED
    BY <2>4, <2>7, <2>8, <2>9
<1>6. ASSUME LoadSession(p) PROVE FreshFor(p)'
  <2> DEFINE t == txn[p]
             u == IF Unreadable(FileOf[t.cur]) THEN SkipFailed(t, t.cur)
                  ELSE Reindexed(t, t.cur)
  <2>1. /\ t \in Txn /\ t.cur \in Sessions /\ step[p] = "build"
        /\ Sound(p) => Pass(p, t)
    BY <1>0, <1>6 DEF LoadSession, TypeOK
  <2>2. Sound(p) => Pass(p, u)
    BY <1>0, <2>1, SkipFailedPass, ReindexedPass
  <2>3. /\ txn' = [txn EXCEPT ![p] = u] /\ pc' = [pc EXCEPT ![p] = "scan"]
        /\ UNCHANGED <<sources, index, step, job, found>>
    BY <1>6 DEF LoadSession
  <2> HIDE DEF u, t
  <2>4. QED
    BY <1>0, <2>1, <2>2, <2>3, StageFresh
<1>7. ASSUME CommitBuild(p) PROVE FreshFor(p)'
  <2> DEFINE t == txn[p]
             S == Stale(p)
             u == [t EXCEPT !.docs = Without(t.docs, S), !.man = Without(t.man, S)]
  <2>1. /\ t \in Txn /\ step[p] = "build" /\ t.todo = {} /\ Commit(p, u)
        /\ Sound(p) => Pass(p, t)
    BY <1>0, <1>7 DEF CommitBuild
  <2>2. S \cap FoundBy(p) = {}
    BY DEF Stale
  <2> HIDE DEF S, t
  <2>3. u.docs = Without(t.docs, S) /\ u.errors = t.errors /\ u.form = t.form
    BY <2>1 DEF Txn
  <2> HIDE DEF u
  <2>4. \A s \in FoundBy(p) : u.docs[s] = t.docs[s]
    BY <2>2, <2>3 DEF Without, FoundBy, Items
  <2>5. Sound(p) => u.form = "current" /\ Reached(p, u.docs, u.errors)
    BY <2>1, <2>3, <2>4 DEF Pass, Reached
  <2>6. QED
    BY <1>0, <2>1, <2>5, CommitFresh
<1>8. ASSUME ReadNotes(p) PROVE FreshFor(p)'
  <2>1. /\ step[p] = "notes" /\ pc[p] = "begin" /\ pc'[p] = "notes"
        /\ txn'[p].errors = txn[p].errors /\ UNCHANGED <<sources, index, step, job, found>>
    BY <1>8 DEF ReadNotes, TypeOK, Txn
  <2>2. QED
    BY <1>0, <2>1, SearchFresh
<1>9. ASSUME IndexNotes(p) PROVE FreshFor(p)'
  <2> DEFINE t == LoadManifestOrReset
             list == txn[p].list
             u == [t EXCEPT !.docs = WithNotes(t.docs, t.man, list),
                            !.man = WithNotes(t.man, t.man, list),
                            !.errors = txn[p].errors]
  <2>1. t \in Txn /\ Commit(p, u) /\ pc[p] = "notes" /\ step[p] = "notes"
    BY <1>0, <1>9, LoadManifestType DEF IndexNotes, Places
  <2>2. form = "current" => t.docs = docs /\ t.form = form
    BY DEF LoadManifestOrReset, NoTxn
  <2> HIDE DEF t, list
  <2>3. /\ u.docs = WithNotes(t.docs, t.man, list) /\ u.form = t.form
        /\ u.errors = txn[p].errors
    BY <2>1 DEF Txn
  <2> HIDE DEF u
  <2>4. \A s \in FoundBy(p) : u.docs[s] = t.docs[s]
    BY <2>3, Numbers DEF WithNotes, FoundBy
  <2>5. ASSUME Interrupts = FALSE
        PROVE  u.form = "current" /\ Reached(p, u.docs, u.errors)
    BY <1>0, <2>1, <2>2, <2>3, <2>4, <2>5 DEF FreshFor, Searching, Reached
  <2>6. QED
    BY <1>0, <2>1, <2>5, CommitFresh
<1>10. ASSUME Save(p) PROVE FreshFor(p)'
  BY <1>0, <1>10, SaveFresh
<1>11. ASSUME Leave(p), UNCHANGED <<sources, index>> PROVE FreshFor(p)'
  BY <1>11, LeaveFresh DEF sources
<1>12. ASSUME Continue(p), step[p] = "notes", pc[p] # "save", UNCHANGED <<sources, index>>
       PROVE  FreshFor(p)'
  BY <1>0, <1>12, SearchFresh
<1>13. ASSUME TornCommit(p) PROVE FreshFor(p)'
  <2>1. CASE Leave(p)
    BY <1>11, <1>13, <2>1 DEF TornCommit
  <2>2. CASE step[p] = "notes" /\ Continue(p)
    <3>1. /\ pc'[p] = "begin" /\ step'[p] = "read" /\ UNCHANGED <<job, found>>
      BY <2>2 DEF Continue, NextStep, TypeOK
    <3>2. Interrupts # FALSE /\ UNCHANGED <<sources, index>>
      BY <1>13 DEF TornCommit
    <3>3. \A s \in Sessions : found'[p][s] <= disk'[FileOf[s]]
      BY <1>0, <3>1, <3>2 DEF FreshFor, sources
    <3>4. QED
      BY <3>1, <3>2, <3>3 DEF FreshFor, Places, Building
  <2>3. QED
    BY <1>13, <2>1, <2>2 DEF TornCommit
<1>14. QED
  BY <1>1, <1>2, <1>3, <1>4, <1>5, <1>6, <1>7, <1>8, <1>9, <1>10, <1>11, <1>12, <1>13
  DEF Process, Progress, Build, Refused, ReadHits, Abort

LEMMA FreshStep ==
  ASSUME OneProcess, TypeOK, SafetyInv, FreshInv, [Next]_vars,
         Interrupts = FALSE => MatchInv /\ MatchInv'
  PROVE  FreshInv'
<1>1. CASE UNCHANGED vars
  BY <1>1 DEF vars, FreshInv, FreshFor, Places, Sound, Building, Searching, Listed, Pass,
              Reached, FoundBy
<1>2. QED
  BY <1>1, FreshEnvironment, FreshProcess DEF Next

LEMMA FreshInvariant ==
  ASSUME OneProcess
  PROVE  Spec => []FreshInv
<1>1. CASE Interrupts = FALSE
  <2>1. TypeOK /\ SafetyInv /\ MatchInv /\ FreshInv /\ MatchInv' /\ [Next]_vars => FreshInv'
    BY FreshStep
  <2>2. Spec => [](TypeOK /\ SafetyInv /\ MatchInv)
    BY <1>1, MatchInvariant
  <2>3. QED
    BY <2>1, <2>2, FreshInit, TypeInit, PTL DEF Spec
<1>2. CASE Interrupts # FALSE
  <2>1. TypeOK /\ SafetyInv /\ FreshInv /\ [Next]_vars => FreshInv'
    BY <1>2, FreshStep
  <2>2. QED
    BY <2>1, FreshInit, TypeInit, SafetyCorrect, TypeCorrect, PTL DEF Spec
<1>3. QED
  BY <1>1, <1>2

\* With one process that is not killed between a commit and its save, a search
\* serves every session it discovered, at a version no older than discovery,
\* or reports that it could not load it (SearchService::search).
THEOREM SearchCorrect ==
  ASSUME OneProcess, Interrupts = FALSE
  PROVE  Spec => []SearchIsFresh
<1>1. TypeOK /\ FreshInv => SearchIsFresh
  <2> SUFFICES ASSUME TypeOK, FreshInv, NEW p \in Procs, pc[p] = "begin", step[p] = "read",
                      NEW s \in FoundBy(p) \ txn[p].errors
               PROVE  s \in Hits(p) /\ docs[s] >= found[p][s]
    BY DEF SearchIsFresh
  <2>1. found[p][s] <= docs[s] /\ s \in Sessions /\ found[p][s] # 0
    BY DEF FreshInv, FreshFor, Searching, Reached, FoundBy
  <2>2. QED
    BY <2>1, Numbers DEF Hits
<1>2. QED
  BY <1>1, FreshInvariant, TypeCorrect, PTL

\* Even after torn commits, a forced run over every provider leaves each session
\* it discovered at its current version, unless it meets an error or an edit.
THEOREM ForcedRunCorrect ==
  ASSUME OneProcess
  PROVE  Spec => ForcedRunRepairs
<1> DEFINE Repairs == \A p \in Procs :
      (IndexRunEnds(p) /\ job[p].first = "clear" /\ txn[p].errors = {}
         /\ found[p] = Discovered(job[p].scope)) =>
        \A s \in FoundBy(p) : docs[s] = disk[FileOf[s]]
<1>1. TypeOK /\ SafetyInv /\ FreshInv => Repairs
  <2> SUFFICES ASSUME TypeOK, SafetyInv, FreshInv, NEW p \in Procs, IndexRunEnds(p),
                      job[p].first = "clear", txn[p].errors = {},
                      found[p] = Discovered(job[p].scope), NEW s \in FoundBy(p)
               PROVE  docs[s] = disk[FileOf[s]]
    OBVIOUS
  <2>1. pc[p] = "save" /\ step[p] = "build"
    BY DEF IndexRunEnds, Save
  <2>2. found[p][s] <= docs[s]
    BY <2>1 DEF FreshInv, FreshFor, Sound, Building, Reached
  <2>3. s \in Sessions /\ found[p][s] = disk[FileOf[s]]
    BY DEF FoundBy, Discovered
  <2>4. docs[s] <= disk[FileOf[s]]
    BY <2>3 DEF SafetyInv
  <2>5. QED
    BY <2>2, <2>3, <2>4, Numbers
<1>2. TypeOK /\ SafetyInv /\ FreshInv => [Repairs]_vars
  BY <1>1
<1> HIDE DEF Repairs
<1>3. Spec => [][Repairs]_vars
  BY <1>2, FreshInvariant, TypeCorrect, SafetyCorrect, PTL
<1>4. QED
  BY <1>3 DEF ForcedRunRepairs, Repairs
=============================================================================
