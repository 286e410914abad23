-------------------------- MODULE FederationProofs --------------------------
(***************************************************************************)
(* Proofs about Federation, for every number of processes, sources, hosts, *)
(* files, providers and ids, any commands, and any number of changes.      *)
(***************************************************************************)
EXTENDS Federation, FiniteSetTheorems, TLAPS

USE DEF outside, cache, lookup

-----------------------------------------------------------------------------
(* Types.  TypeOK is proved in parts, with what makes it inductive: only a *)
(* process at its transfer pulls, and a command names at most one session. *)

TypeWorld ==
  /\ config \subseteq Sources
  /\ installed \subseteq Providers /\ local \subseteq Files
  /\ remote \in [Hosts -> SUBSET Files]
  /\ dirs \subseteq Names
  /\ data \in [Names -> [Files -> Hosts \cup {NoHost}]]
  /\ manifest \in [Names -> Hosts \cup {NoHost}]
  /\ changes \in 0 .. MaxChanges /\ runs \in 0 .. MaxRuns
  /\ strays \in [Names -> SUBSET Hosts]
TypeCommands ==
  /\ pc \in [Procs -> Steps] /\ cmd \in [Procs -> AllCommands]
  /\ \A p \in Procs : \A s, t \in cmd[p].sel : s = t
  /\ loaded \in [Procs -> SUBSET Sources]
  /\ detected \in [Procs -> SUBSET Providers]
  /\ todo \in [Procs -> SUBSET (Names \cup {Local})]
  /\ failed \in [Procs -> SUBSET (Names \cup {Local})]
TypePulls ==
  /\ pulling \in [Procs -> SUBSET Sources]
  /\ \A p \in Procs : pulling[p] \subseteq loaded[p] /\ \A s, t \in pulling[p] : s = t
  /\ \A p \in Procs : pc[p] # "rsync" => pulling[p] = {}
  /\ left \in [Procs -> SUBSET Files]
  /\ alone \in [Procs -> BOOLEAN]
TypeLookups ==
  /\ found \in [Procs -> SUBSET Sessions]
  /\ answer \in [Procs -> SUBSET Sessions]
  /\ \A p \in Procs : answer[p] \subseteq found[p] /\ \A s, t \in answer[p] : s = t
  /\ steady \in [Procs -> SUBSET Sessions]
Types == TypeWorld /\ TypeCommands /\ TypePulls /\ TypeLookups

LEMMA Bounds == MaxChanges \in Nat /\ MaxRuns \in Nat /\ MaxSources \in Nat
BY ConstantsAssumption

LEMMA TypesGiveTypeOK == Types => TypeOK
BY DEF Types, TypeOK, TypeWorld, TypeCommands, TypePulls, TypeLookups

\* What a command is.
LEMMA CommandsTyped ==
  /\ NoCommand \in AllCommands /\ NoCommand.sel = {}
  /\ \A sel \in SUBSET Selectors :
       Command("get", {}, sel) \in AllCommands /\ Command("get", {}, sel).sel = sel
  /\ \A c \in Commands : c \in AllCommands /\ \A s, t \in c.sel : s = t
<1>1. \A c \in Commands : c \in AllCommands /\ \A s, t \in c.sel : s = t
  BY ConstantsAssumption
<1>2. QED
  BY <1>1 DEF NoCommand, AllCommands, Command, Kinds

LEMMA RequestsTyped ==
  \A sel \in Requests : sel \in SUBSET Selectors /\ \A s, t \in sel : s = t
<1>1. \A sel \in ToolRequests : sel \in SUBSET Selectors /\ \A s, t \in sel : s = t
  BY CommandsTyped DEF ToolRequests, AllCommands
<1>2. \A t \in Selectors : Uri(t) \in Selectors
  BY DEF Uri, Selectors
<1>3. \A sel \in ResourceRequests : sel \in SUBSET Selectors /\ \A s, t \in sel : s = t
  BY <1>1, <1>2 DEF ResourceRequests
<1>4. QED
  BY <1>1, <1>3 DEF Requests

LEMMA FirstStepTyped ==
  \A c \in Commands : \A cfg : FirstStep(c, cfg) \in Steps \ {"rsync"}
BY DEF FirstStep, Steps

\* Of matches for one selector at most one is a target, and it is a match.
LEMMA MatchesTyped == \A sel, S : Matches(sel, S) \subseteq S
BY DEF Matches, ExactMatches, Candidates
LEMMA TargetsTyped ==
  \A sel, S : /\ UniqueTarget(Matches(sel, S)) \subseteq S
              /\ \A s, t \in UniqueTarget(Matches(sel, S)) : s = t
BY MatchesTyped DEF UniqueTarget

LEMMA TypesInit == Init => Types
<1> SUFFICES ASSUME Init PROVE Types
  OBVIOUS
<1>1. TypeWorld
  BY ConstantsAssumption DEF Init, TypeWorld, Sources
<1>2. TypeCommands
  BY CommandsTyped DEF Init, TypeCommands, Steps
<1>3. TypePulls
  BY DEF Init, TypePulls
<1>4. TypeLookups
  BY DEF Init, TypeLookups
<1>5. QED
  BY <1>1, <1>2, <1>3, <1>4 DEF Types

LEMMA TypesStep == Types /\ [Next]_vars => Types'
<1> SUFFICES ASSUME Types, [Next]_vars PROVE Types'
  OBVIOUS
<1>0. TypeWorld /\ TypeCommands /\ TypePulls /\ TypeLookups
  BY DEF Types
<1>1. ASSUME NEW f \in Files, EditLocal(f)
      PROVE  Types'
  <2>1. TypeWorld'
    BY <1>0, <1>1, Bounds DEF EditLocal, Idle, Change, TypeWorld
  <2>2. TypeCommands'
    BY <1>0, <1>1 DEF EditLocal, Idle, TypeCommands
  <2>3. TypePulls'
    BY <1>0, <1>1 DEF EditLocal, Idle, TypePulls
  <2>4. TypeLookups'
    BY <1>0, <1>1 DEF EditLocal, Idle, Unsettle, TypeLookups
  <2>5. QED
    BY <2>1, <2>2, <2>3, <2>4 DEF Types
<1>2. ASSUME NEW h \in Hosts, NEW f \in Files, EditRemote(h, f)
      PROVE  Types'
  <2>1. TypeWorld'
    BY <1>0, <1>2, Bounds DEF EditRemote, Idle, Change, TypeWorld
  <2>2. TypeCommands'
    BY <1>0, <1>2 DEF EditRemote, Idle, TypeCommands
  <2>3. TypePulls'
    BY <1>0, <1>2 DEF EditRemote, Idle, TypePulls
  <2>4. TypeLookups'
    BY <1>0, <1>2 DEF EditRemote, Idle, TypeLookups
  <2>5. QED
    BY <2>1, <2>2, <2>3, <2>4 DEF Types
<1>3. ASSUME NEW q \in Providers, Install(q)
      PROVE  Types'
  <2>1. TypeWorld'
    BY <1>0, <1>3, Bounds DEF Install, Idle, Change, TypeWorld
  <2>2. TypeCommands'
    BY <1>0, <1>3 DEF Install, Idle, TypeCommands
  <2>3. TypePulls'
    BY <1>0, <1>3 DEF Install, Idle, TypePulls
  <2>4. TypeLookups'
    BY <1>0, <1>3 DEF Install, Idle, TypeLookups
  <2>5. QED
    BY <2>1, <2>2, <2>3, <2>4 DEF Types
<1>4. ASSUME NEW n \in Names, DeleteCache(n)
      PROVE  Types'
  <2>1. TypeWorld'
    BY <1>0, <1>4, Bounds DEF DeleteCache, Idle, Change, Empty, TypeWorld
  <2>2. TypeCommands'
    BY <1>0, <1>4 DEF DeleteCache, Idle, TypeCommands
  <2>3. TypePulls'
    BY <1>0, <1>4 DEF DeleteCache, Idle, TypePulls
  <2>4. TypeLookups'
    BY <1>0, <1>4 DEF DeleteCache, Idle, Unsettle, TypeLookups
  <2>5. QED
    BY <2>1, <2>2, <2>3, <2>4 DEF Types
<1>5. ASSUME NEW p \in Procs, NEW c \in Commands, Start(p, c)
      PROVE  Types'
  <2>1. TypeWorld'
    BY <1>0, <1>5, Bounds DEF Start, Run, TypeWorld
  <2>2. TypeCommands'
    BY <1>0, <1>5, CommandsTyped, FirstStepTyped, SMTT(30) DEF Start, Lookup, TypeWorld, Targets, NamesOf, Sources, TypeCommands
  <2>3. TypePulls'
    BY <1>0, <1>5, FirstStepTyped DEF Start, TypeCommands, TypePulls
  <2>4. TypeLookups'
    BY <1>0, <1>5 DEF Start, Lookup, TypeLookups
  <2>5. QED
    BY <2>1, <2>2, <2>3, <2>4 DEF Types
<1>6. ASSUME NEW p \in Procs, NEW sel \in Requests, Request(p, sel)
      PROVE  Types'
  <2>1. TypeWorld'
    BY <1>0, <1>6, Bounds DEF Request, Run, TypeWorld
  <2>2. TypeCommands'
    BY <1>0, <1>6, CommandsTyped, RequestsTyped DEF Request, Lookup, Steps, NamesOf, Sources, TypeCommands
  <2>3. TypePulls'
    BY <1>0, <1>6 DEF Request, TypeCommands, TypePulls
  <2>4. TypeLookups'
    BY <1>0, <1>6 DEF Request, Lookup, TypeLookups
  <2>5. QED
    BY <2>1, <2>2, <2>3, <2>4 DEF Types
<1>7. ASSUME NEW p \in Procs, Save(p)
      PROVE  Types'
  <2>1. TypeWorld'
    BY <1>0, <1>7 DEF Save, TypeCommands, AllCommands, Targets, TypeWorld
  <2>2. TypeCommands'
    BY <1>0, <1>7 DEF Save, Steps, TypeCommands
  <2>3. TypePulls'
    BY <1>0, <1>7 DEF Save, TypeCommands, TypePulls
  <2>4. TypeLookups'
    BY <1>0, <1>7 DEF Save, TypeLookups
  <2>5. QED
    BY <2>1, <2>2, <2>3, <2>4 DEF Types
<1>8. ASSUME NEW p \in Procs, BeginPull(p)
      PROVE  Types'
  <2>1. TypeWorld'
    BY <1>0, <1>8 DEF BeginPull, TypeCommands, Sources, TypeWorld
  <2>2. TypeCommands'
    BY <1>0, <1>8 DEF BeginPull, Steps, TypeCommands
  <2>3. TypePulls'
    <3>1. PICK s \in loaded[p] : /\ pulling' = [pulling EXCEPT ![p] = {s}]
                                /\ alone' = [q \in Procs |->
                                     IF q = p THEN PullsOf(s.name) = {}
                                     ELSE alone[q] /\ q \notin PullsOf(s.name)]
      BY <1>8 DEF BeginPull
    <3>2. /\ loaded' = loaded /\ left' = [left EXCEPT ![p] = Files]
          /\ pc' = [pc EXCEPT ![p] = "rsync"]
      BY <1>8 DEF BeginPull
    <3>3. alone' \in [Procs -> BOOLEAN]
      BY <3>1, Zenon
    <3>4. QED
      BY <1>0, <3>1, <3>2, <3>3 DEF TypeCommands, TypePulls
  <2>4. TypeLookups'
    BY <1>0, <1>8 DEF BeginPull, TypeLookups
  <2>5. QED
    BY <2>1, <2>2, <2>3, <2>4 DEF Types
<1>9. ASSUME NEW p \in Procs, DryRun(p)
      PROVE  Types'
  <2>1. TypeWorld'
    BY <1>0, <1>9 DEF DryRun, TypeWorld
  <2>2. TypeCommands'
    BY <1>0, <1>9 DEF DryRun, Steps, TypeCommands
  <2>3. TypePulls'
    BY <1>0, <1>9 DEF DryRun, TypeCommands, TypePulls
  <2>4. TypeLookups'
    BY <1>0, <1>9 DEF DryRun, TypeLookups
  <2>5. QED
    BY <2>1, <2>2, <2>3, <2>4 DEF Types
<1>10. ASSUME NEW p \in Procs, NEW s \in pulling[p], Finish(p, s)
      PROVE  Types'
  <2>1. TypeWorld'
    BY <1>0, <1>10 DEF Finish, TypePulls, Sources, TypeWorld
  <2>2. TypeCommands'
    BY <1>0, <1>10 DEF Finish, Steps, TypeCommands
  <2>3. TypePulls'
    BY <1>0, <1>10 DEF Finish, TypeCommands, TypePulls
  <2>4. TypeLookups'
    BY <1>0, <1>10 DEF Finish, TypeLookups
  <2>5. QED
    BY <2>1, <2>2, <2>3, <2>4 DEF Types
<1>11. ASSUME NEW p \in Procs, NEW s \in pulling[p], NEW f \in Files, CopyFile(p, s, f)
      PROVE  Types'
  <2>1. TypeWorld'
    BY <1>0, <1>11 DEF CopyFile, TypePulls, Sources, TypeWorld
  <2>2. TypeCommands'
    BY <1>0, <1>11 DEF CopyFile, TypeCommands
  <2>3. TypePulls'
    BY <1>0, <1>11 DEF CopyFile, TypePulls
  <2>4. TypeLookups'
    BY <1>0, <1>11 DEF CopyFile, Unsettle, TypeLookups
  <2>5. QED
    BY <2>1, <2>2, <2>3, <2>4 DEF Types
<1>12. ASSUME NEW p \in Procs, NEW n \in Names \cup {Local}, NEW broken \in SUBSET Providers, Discover(p, n, broken)
      PROVE  Types'
  <2>1. TypeWorld'
    BY <1>0, <1>12, Bounds DEF Discover, Change, TypeWorld
  <2>2. TypeCommands'
    BY <1>0, <1>12 DEF Discover, TypeCommands
  <2>3. TypePulls'
    BY <1>0, <1>12 DEF Discover, TypePulls
  <2>4. TypeLookups'
    BY <1>0, <1>12 DEF Discover, TypeWorld, LocalFiles, Cached, At, Sessions, TypeLookups
  <2>5. QED
    BY <2>1, <2>2, <2>3, <2>4 DEF Types
<1>13. ASSUME NEW p \in Procs, Answer(p)
      PROVE  Types'
  <2>1. TypeWorld'
    BY <1>0, <1>13 DEF Answer, TypeWorld
  <2>2. TypeCommands'
    BY <1>0, <1>13 DEF Answer, Steps, TypeCommands
  <2>3. TypePulls'
    BY <1>0, <1>13 DEF Answer, TypeCommands, TypePulls
  <2>4. TypeLookups'
    BY <1>0, <1>13, TargetsTyped DEF Answer, TypeCommands, TypeLookups
  <2>5. QED
    BY <2>1, <2>2, <2>3, <2>4 DEF Types
<1>14. ASSUME NEW p \in Procs, Load(p)
      PROVE  Types'
  <2>1. TypeWorld'
    BY <1>0, <1>14 DEF Load, TypeWorld
  <2>2. TypeCommands'
    BY <1>0, <1>14 DEF Load, Steps, TypeCommands
  <2>3. TypePulls'
    BY <1>0, <1>14 DEF Load, TypeCommands, TypePulls
  <2>4. TypeLookups'
    BY <1>0, <1>14 DEF Load, TypeLookups
  <2>5. QED
    BY <2>1, <2>2, <2>3, <2>4 DEF Types
<1>15. ASSUME NEW p \in Procs, End(p)
      PROVE  Types'
  <2>1. TypeWorld'
    BY <1>0, <1>15 DEF End, Leave, TypeWorld
  <2>2. TypeCommands'
    BY <1>0, <1>15, CommandsTyped DEF End, Leave, Steps, TypeCommands
  <2>3. TypePulls'
    BY <1>0, <1>15 DEF End, Leave, TypeCommands, TypePulls
  <2>4. TypeLookups'
    BY <1>0, <1>15 DEF End, Leave, TypeLookups
  <2>5. QED
    BY <2>1, <2>2, <2>3, <2>4 DEF Types
<1>16. ASSUME NEW p \in Procs, Fail(p)
      PROVE  Types'
  <2>1. TypeWorld'
    BY <1>0, <1>16, Bounds DEF Fail, Leave, Change, TypeWorld
  <2>2. TypeCommands'
    BY <1>0, <1>16, CommandsTyped DEF Fail, Leave, Steps, TypeCommands
  <2>3. TypePulls'
    BY <1>0, <1>16 DEF Fail, Leave, TypeCommands, TypePulls
  <2>4. TypeLookups'
    BY <1>0, <1>16 DEF Fail, Leave, TypeLookups
  <2>5. QED
    BY <2>1, <2>2, <2>3, <2>4 DEF Types
<1>17. CASE UNCHANGED vars
  BY <1>0, <1>17 DEF vars, Types, TypeWorld, TypeCommands, TypePulls, TypeLookups
<1>18. QED
  BY <1>1, <1>2, <1>3, <1>4, <1>5, <1>6, <1>7, <1>8, <1>9, <1>10, <1>11, <1>12, <1>13, <1>14, <1>15, <1>16, <1>17
     DEF Next, Environment, Process

\* Every reachable state is one of the kind TypeOK describes: at most one source is
\* being pulled by a process, and a lookup gives at most one session it found.
THEOREM TypeCorrect == Spec => []TypeOK
<1>1. Spec => []Types
  BY TypesInit, TypesStep, PTL DEF Spec
<1>2. QED
  BY <1>1, TypesGiveTypeOK, PTL

-----------------------------------------------------------------------------
(* The registry.  What a command saves is what it loaded, which was in     *)
(* order, less a source or with one more of a new name.                    *)

RegistryInv ==
  /\ IsFiniteSet(config) /\ RegistryLoads
  /\ \A p \in Procs : pc[p] = "save" =>
       /\ IsFiniteSet(loaded[p]) /\ Loadable(loaded[p])
       /\ cmd[p].kind = "add" =>
            \E s \in Sources : cmd[p].sources = {s} /\ s.name \notin NamesOf(loaded[p])

LEMMA RegistryInit == Init => RegistryInv
BY ConstantsAssumption DEF Init, RegistryInv, RegistryLoads

\* All other steps leave the registry and the commands about to save alone.
RegistryKept ==
  /\ config' = config
  /\ \A p \in Procs : pc'[p] = "save" =>
       pc[p] = "save" /\ loaded'[p] = loaded[p] /\ cmd'[p] = cmd[p]

LEMMA KeptRegistry == RegistryInv /\ RegistryKept => RegistryInv'
BY DEF RegistryInv, RegistryLoads, RegistryKept

LEMMA StartRegistry ==
  ASSUME Types, RegistryInv, NEW p \in Procs, NEW c \in Commands, Start(p, c)
  PROVE  RegistryInv'
<1>1. /\ config' = config /\ pc' = [pc EXCEPT ![p] = FirstStep(c, config)]
      /\ cmd' = [cmd EXCEPT ![p] = c] /\ loaded' = [loaded EXCEPT ![p] = config]
      /\ Loadable(config)
  BY DEF Start
<1>2. c.kind = "add" =>
        \/ FirstStep(c, config) # "save"
        \/ \E s \in Sources : c.sources = {s} /\ s.name \notin NamesOf(config)
  BY ConstantsAssumption DEF FirstStep, NamesOf
<1>3. ASSUME NEW q \in Procs, pc'[q] = "save"
      PROVE  /\ IsFiniteSet(loaded'[q]) /\ Loadable(loaded'[q])
             /\ cmd'[q].kind = "add" =>
                  \E s \in Sources : cmd'[q].sources = {s} /\ s.name \notin NamesOf(loaded'[q])
  BY <1>1, <1>2, <1>3 DEF RegistryInv, Types, TypeCommands
<1>4. QED
  BY <1>1, <1>3 DEF RegistryInv, RegistryLoads

LEMMA SaveRegistry ==
  ASSUME Types, RegistryInv, NEW p \in Procs, Save(p)
  PROVE  RegistryInv'
<1> DEFINE cfg == loaded[p]
<1>1. /\ IsFiniteSet(cfg) /\ Cardinality(cfg) \in Nat /\ Cardinality(cfg) <= MaxSources
      /\ \A s, t \in cfg : s.name = t.name => s = t
  BY FS_CardinalityType DEF Save, RegistryInv, Loadable
<1>2. /\ IsFiniteSet(config') /\ Cardinality(config') <= MaxSources + 1
      /\ \A s, t \in config' : s.name = t.name => s = t
  <2>1. CASE cmd[p].kind = "add"
    <3>1. PICK s \in Sources : cmd[p].sources = {s} /\ s.name \notin NamesOf(cfg)
      BY <2>1 DEF Save, RegistryInv
    <3>2. config' = cfg \cup {s}
      BY <2>1, <3>1 DEF Save
    <3>3. /\ IsFiniteSet(config')
          /\ Cardinality(config') = IF s \in cfg THEN Cardinality(cfg) ELSE Cardinality(cfg) + 1
      BY <1>1, <3>2, FS_AddElement
    <3>4. QED
      BY <1>1, <3>1, <3>2, <3>3, Bounds DEF NamesOf
  <2>2. CASE cmd[p].kind # "add"
    <3>1. config' \subseteq cfg
      BY <2>2 DEF Save
    <3>2. IsFiniteSet(config') /\ Cardinality(config') \in Nat
          /\ Cardinality(config') <= Cardinality(cfg)
      BY <1>1, <3>1, FS_Subset, FS_CardinalityType
    <3>3. QED
      BY <1>1, <3>1, <3>2, Bounds
  <2>3. QED
    BY <2>1, <2>2
<1>3. \A q \in Procs : pc'[q] = "save" =>
        pc[q] = "save" /\ loaded'[q] = loaded[q] /\ cmd'[q] = cmd[q]
  BY DEF Save, Types, TypeCommands
<1>4. QED
  BY <1>2, <1>3 DEF RegistryInv, RegistryLoads

LEMMA RegistryStep == Types /\ RegistryInv /\ [Next]_vars => RegistryInv'
<1> SUFFICES ASSUME Types, RegistryInv, [Next]_vars PROVE RegistryInv'
  OBVIOUS
<1>1. CASE UNCHANGED vars
  BY <1>1, KeptRegistry DEF vars, RegistryKept
<1>2. CASE Environment
  BY <1>2, KeptRegistry
     DEF Environment, EditLocal, EditRemote, Install, DeleteCache, Idle, RegistryKept
<1>3. ASSUME NEW p \in Procs, Process(p) PROVE RegistryInv'
  <2>1. CASE \E c \in Commands : Start(p, c)
    BY <2>1, StartRegistry
  <2>2. CASE Save(p)
    BY <2>2, SaveRegistry
  <2>3. CASE \/ \E sel \in Requests : Request(p, sel)
             \/ BeginPull(p) \/ DryRun(p) \/ Answer(p) \/ Load(p)
    BY <2>3, KeptRegistry
       DEF Request, BeginPull, DryRun, Answer, Load, RegistryKept, Types, TypeCommands
  <2>4. CASE \/ \E s \in pulling[p] : Finish(p, s) \/ \E f \in Files : CopyFile(p, s, f)
             \/ \E n \in Names \cup {Local}, broken \in SUBSET Providers : Discover(p, n, broken)
    BY <2>4, KeptRegistry DEF Finish, CopyFile, Discover, RegistryKept, Types, TypeCommands
  <2>5. CASE End(p) \/ Fail(p)
    BY <2>5, KeptRegistry DEF End, Fail, Leave, RegistryKept, Types, TypeCommands
  <2>6. QED
    BY <1>3, <2>1, <2>2, <2>3, <2>4, <2>5 DEF Process
<1>4. QED
  BY <1>1, <1>2, <1>3 DEF Next

\* Whatever commands overwrite each other's changes of the registry, the file keeps
\* one source per name, and at most one more than a command accepts.
THEOREM RegistryCorrect == Spec => []RegistryLoads
<1>1. Spec => [](Types /\ RegistryInv)
  BY TypesInit, TypesStep, RegistryInit, RegistryStep, PTL DEF Spec
<1>2. RegistryInv => RegistryLoads
  BY DEF RegistryInv
<1>3. QED
  BY <1>1, <1>2, PTL

-----------------------------------------------------------------------------
(* The caches.  A file of a cache came from the host of the manifest, or   *)
(* from a pull that has not been completed alone since.  What a pull has   *)
(* reached came from its host, if no other pull of the source ran by it.   *)

PullInv(p, s) ==
  /\ s.host \in strays[s.name]
  /\ \A f \in Files \ left[p] :
       /\ data[s.name][f] \in {NoHost} \cup strays[s.name]
       /\ alone[p] => data[s.name][f] \in {NoHost, s.host}
  /\ alone[p] => \A q \in Procs \ {p} : s.name \notin NamesOf(pulling[q])
CacheInv ==
  /\ \A p \in Procs : \A s \in pulling[p] : PullInv(p, s)
  /\ \A n \in Names, f \in Files : data[n][f] \in {NoHost, manifest[n]} \cup strays[n]

LEMMA CacheInit == Init => CacheInv
BY DEF Init, CacheInv

LEMMA CacheGivesOwn == Types /\ CacheInv => HealthyCachesAreOwn
BY DEF Types, TypeWorld, Sources, CacheInv, HealthyCachesAreOwn, CacheHealthy

\* Steps that leave the caches and the pulls alone, and steps that end a pull.
CacheKept ==
  /\ UNCHANGED <<data, manifest, strays>>
  /\ \A p \in Procs :
       \/ pulling'[p] = {}
       \/ pulling'[p] = pulling[p] /\ left'[p] = left[p] /\ alone'[p] = alone[p]

LEMMA KeptCache == CacheInv /\ CacheKept => CacheInv'
BY DEF CacheInv, CacheKept, PullInv, NamesOf

LEMMA DeleteCacheStep ==
  ASSUME Types, CacheInv, NEW n \in Names, DeleteCache(n)
  PROVE  CacheInv'
BY DEF DeleteCache, Idle, Empty, CacheInv, PullInv, NamesOf, Types, TypeWorld, TypePulls, Sources

LEMMA BeginPullStep ==
  ASSUME Types, CacheInv, NEW p \in Procs, BeginPull(p)
  PROVE  CacheInv'
<1>1. PICK s \in loaded[p] :
        /\ pulling' = [pulling EXCEPT ![p] = {s}]
        /\ strays' = [strays EXCEPT ![s.name] = @ \cup {s.host}]
        /\ alone' = [q \in Procs |->
             IF q = p THEN PullsOf(s.name) = {} ELSE alone[q] /\ q \notin PullsOf(s.name)]
  BY DEF BeginPull
<1>2. /\ left' = [left EXCEPT ![p] = Files] /\ UNCHANGED <<data, manifest>>
  BY DEF BeginPull
<1>3. s \in Sources /\ s.name \in Names /\ s.host \in Hosts
  BY DEF Types, TypeCommands, Sources
<1>4. PullInv(p, s)'
  <2>1. (s.host \in strays[s.name])'
    BY <1>1, <1>3 DEF Types, TypeWorld
  <2>2. Files \ left'[p] = {}
    BY <1>2 DEF Types, TypePulls
  <2>3. ASSUME alone'[p], NEW q \in Procs \ {p} PROVE s.name \notin NamesOf(pulling'[q])
    <3>1. PullsOf(s.name) = {}
      BY <1>1, <2>3
    <3>2. pulling'[q] = pulling[q]
      BY <1>1 DEF Types, TypePulls
    <3>3. QED
      BY <3>1, <3>2 DEF PullsOf
  <2>4. QED
    BY <2>1, <2>2, <2>3 DEF PullInv
<1>5. ASSUME NEW q \in Procs \ {p}, NEW t \in pulling'[q] PROVE PullInv(q, t)'
  <2>1. /\ t \in pulling[q] /\ pulling'[q] = pulling[q] /\ left'[q] = left[q]
        /\ t.name \in Names
    BY <1>1, <1>2 DEF Types, TypePulls, Sources
  <2>2. PullInv(q, t) /\ strays[t.name] \subseteq strays'[t.name]
    BY <1>1, <1>3, <2>1 DEF CacheInv, Types, TypeWorld
  <2>3. ASSUME alone'[q]
        PROVE  alone[q] /\ \A r \in Procs \ {q} : t.name \notin NamesOf(pulling'[r])
    <3>1. alone[q] /\ q \notin PullsOf(s.name)
      BY <1>1, <2>3
    <3>2. t.name # s.name
      BY <2>1, <3>1 DEF PullsOf, NamesOf
    <3>3. pulling'[p] = {s} /\ \A r \in Procs \ {p} : pulling'[r] = pulling[r]
      BY <1>1 DEF Types, TypePulls
    <3>4. QED
      BY <2>2, <3>1, <3>2, <3>3 DEF PullInv, NamesOf
  <2>4. QED
    BY <1>2, <2>1, <2>2, <2>3 DEF PullInv
<1>6. \A q \in Procs : \A t \in pulling'[q] : PullInv(q, t)'
  BY <1>1, <1>4, <1>5 DEF Types, TypePulls
<1>7. \A n \in Names : strays[n] \subseteq strays'[n]
  BY <1>1, <1>3 DEF Types, TypeWorld
<1>8. QED
  BY <1>2, <1>6, <1>7 DEF CacheInv

LEMMA CopyFileStep ==
  ASSUME Types, CacheInv, NEW p \in Procs, NEW s \in pulling[p], NEW f \in Files,
         CopyFile(p, s, f)
  PROVE  CacheInv'
<1>1. /\ left' = [left EXCEPT ![p] = @ \ {f}]
      /\ UNCHANGED <<manifest, pulling, alone, strays>>
  BY DEF CopyFile
<1>2. s.name \in Names /\ s.host \in Hosts
  BY DEF Types, TypePulls, Sources
<1>3. /\ data'[s.name][f] \in {NoHost, s.host}
      /\ \A n \in Names, g \in Files : n # s.name \/ g # f => data'[n][g] = data[n][g]
  BY <1>2 DEF CopyFile, Types, TypeWorld
<1>4. PullInv(p, s)
  BY DEF CacheInv
<1>5. ASSUME NEW q \in Procs, NEW t \in pulling[q] PROVE PullInv(q, t)'
  <2>1. PullInv(q, t) /\ t.name \in Names
    BY DEF CacheInv, Types, TypePulls, Sources
  <2>2. CASE q = p
    <3>1. t = s
      BY <2>2 DEF Types, TypePulls
    <3>2. Files \ left'[p] \subseteq (Files \ left[p]) \cup {f}
      BY <1>1 DEF Types, TypePulls
    <3>3. QED
      BY <1>1, <1>2, <1>3, <1>4, <2>2, <3>1, <3>2 DEF PullInv
  <2>3. CASE q # p
    <3>1. left'[q] = left[q] /\ (t.name = s.name => ~alone[q])
      BY <1>1, <2>1, <2>3 DEF PullInv, NamesOf, Types, TypePulls
    <3>2. QED
      BY <1>1, <1>2, <1>3, <1>4, <2>1, <3>1 DEF PullInv
  <2>4. QED
    BY <2>2, <2>3
<1>6. QED
  BY <1>1, <1>2, <1>3, <1>4, <1>5 DEF CacheInv, PullInv

LEMMA FinishStep ==
  ASSUME Types, CacheInv, NEW p \in Procs, NEW s \in pulling[p], Finish(p, s)
  PROVE  CacheInv'
<1>1. /\ left[p] = {} /\ manifest' = [manifest EXCEPT ![s.name] = s.host]
      /\ strays' = [strays EXCEPT ![s.name] = IF alone[p] THEN {} ELSE @]
      /\ pulling' = [pulling EXCEPT ![p] = {}] /\ alone' = [alone EXCEPT ![p] = FALSE]
      /\ UNCHANGED <<data, left>>
  BY DEF Finish
<1>2. s.name \in Names /\ s.host \in Hosts /\ PullInv(p, s)
  BY DEF CacheInv, Types, TypePulls, Sources
<1>3. ASSUME NEW q \in Procs, NEW t \in pulling'[q] PROVE PullInv(q, t)'
  <2>1. /\ q # p /\ t \in pulling[q] /\ alone'[q] = alone[q]
        /\ \A r \in Procs : pulling'[r] \subseteq pulling[r]
    <3>1. \A r \in Procs : pulling'[r] = IF r = p THEN {} ELSE pulling[r]
      BY <1>1 DEF Types, TypePulls
    <3>2. q # p
      BY <1>3, <3>1
    <3>3. alone'[q] = alone[q]
      <4>1. alone \in [Procs -> BOOLEAN] /\ alone' = [alone EXCEPT ![p] = FALSE]
        BY <1>1 DEF Types, TypePulls
      <4>2. QED
        BY <4>1, <3>2, Zenon
    <3>4. QED
      BY <1>3, <3>1, <3>2, <3>3
  <2>2. PullInv(q, t) /\ t.name \in Names
    BY <2>1 DEF CacheInv, Types, TypePulls, Sources
  <2>3. strays'[t.name] = strays[t.name]
    BY <1>1, <1>2, <2>1, <2>2 DEF PullInv, NamesOf, Types, TypeWorld
  <2>4. QED
    BY <1>1, <2>1, <2>2, <2>3 DEF PullInv, NamesOf
<1>4. ASSUME NEW n \in Names, NEW f \in Files
      PROVE  data'[n][f] \in {NoHost, manifest'[n]} \cup strays'[n]
  <2>1. CASE n = s.name
    BY <1>1, <1>2, <2>1 DEF PullInv, Types, TypeWorld
  <2>2. CASE n # s.name
    BY <1>1, <2>2 DEF CacheInv, Types, TypeWorld
  <2>3. QED
    BY <2>1, <2>2
<1>5. QED
  BY <1>3, <1>4 DEF CacheInv

LEMMA CacheStep == Types /\ CacheInv /\ [Next]_vars => CacheInv'
<1> SUFFICES ASSUME Types, CacheInv, [Next]_vars PROVE CacheInv'
  OBVIOUS
<1>1. CASE UNCHANGED vars
  BY <1>1, KeptCache DEF vars, CacheKept
<1>2. CASE Environment
  BY <1>2, KeptCache, DeleteCacheStep
     DEF Environment, EditLocal, EditRemote, Install, Idle, CacheKept
<1>3. ASSUME NEW p \in Procs, Process(p) PROVE CacheInv'
  <2>1. CASE BeginPull(p)
    BY <2>1, BeginPullStep
  <2>2. CASE \E s \in pulling[p] : Finish(p, s) \/ \E f \in Files : CopyFile(p, s, f)
    BY <2>2, FinishStep, CopyFileStep
  <2>3. CASE \/ \E c \in Commands : Start(p, c)
             \/ \E sel \in Requests : Request(p, sel)
             \/ Save(p) \/ DryRun(p) \/ Answer(p) \/ Load(p)
             \/ \E n \in Names \cup {Local}, broken \in SUBSET Providers : Discover(p, n, broken)
    BY <2>3, KeptCache
       DEF Start, Request, Save, DryRun, Answer, Load, Discover, CacheKept
  <2>4. CASE End(p) \/ Fail(p)
    BY <2>4, KeptCache DEF End, Fail, Leave, CacheKept, Types, TypePulls
  <2>5. QED
    BY <1>3, <2>1, <2>2, <2>3, <2>4 DEF Process
<1>4. QED
  BY <1>1, <1>2, <1>3 DEF Next

\* Whatever names are added, removed and added again, and however pulls overlap,
\* fail or die, a cache that health finds in order holds files of its own host, or
\* of pulls that have not been completed since.
THEOREM CachesCorrect == Spec => []HealthyCachesAreOwn
<1>1. Spec => [](Types /\ CacheInv)
  BY TypesInit, TypesStep, CacheInit, CacheStep, PTL DEF Spec
<1>2. QED
  BY <1>1, CacheGivesOwn, PTL

-----------------------------------------------------------------------------
(* The lookups.  What has stood since a request began still stands, so a   *)
(* source that was discovered without a failure has shown it.              *)

LookupKinds == {"list", "show", "get"}
Looked(p) ==
  /\ \A s \in steady[p] : s.source \notin todo[p] /\ Visible(p, s) => s \in found[p]
  /\ \A s \in found[p] : ProviderOf[s.file] \in Scope(p)
  /\ pc[p] # "discover" => todo[p] = {}
LookupInv ==
  /\ \A p \in Procs : \A s \in steady[p] : Stands(s)
  /\ \A p \in Procs :
       pc[p] \in {"discover", "load", "done"} /\ cmd[p].kind \in LookupKinds => Looked(p)
  /\ \A p \in Procs : pc[p] \in {"discover", "load"} => cmd[p].kind \in LookupKinds
  /\ \A p \in Procs : pc[p] \in {"save", "pull", "rsync"} => cmd[p].kind \notin LookupKinds
  /\ \A p \in Procs : answer[p] # {} =>
       /\ pc[p] \in {"load", "done"} /\ cmd[p].kind \in LookupKinds
       /\ \A t \in answer[p], sel \in cmd[p].sel : Matches(sel, found[p]) = {t}

LEMMA LookupInit == Init => LookupInv
BY DEF Init, LookupInv

\* A target among many matches is the target among fewer.
LEMMA MatchesUnambiguous ==
  ASSUME NEW sel, NEW S, NEW s \in S, NEW t \in S, Matches(sel, S) = {t}, s # t
  PROVE  s \notin Matches(sel, {s, t})
<1>1. SUFFICES ASSUME s \in Matches(sel, {s, t}) PROVE FALSE
  OBVIOUS
<1>2. /\ \A x \in {s, t} : x \in Candidates(sel, {s, t}) <=> x \in Candidates(sel, S)
      /\ \A x \in {s, t} : x \in ExactMatches(sel, {s, t}) <=> x \in ExactMatches(sel, S)
      /\ ExactMatches(sel, {s, t}) \subseteq {s, t}
      /\ ExactMatches(sel, S) \subseteq Candidates(sel, S)
  BY DEF ExactMatches, Candidates
<1>3. CASE sel.exact \/ ExactMatches(sel, {s, t}) # {}
  BY <1>1, <1>2, <1>3 DEF Matches
<1>4. CASE ~(sel.exact \/ ExactMatches(sel, {s, t}) # {})
  BY <1>1, <1>2, <1>4 DEF Matches
<1>5. QED
  BY <1>3, <1>4

LEMMA LookupGivesReported == Types /\ LookupInv => NothingUnreported
BY DEF LookupInv, Looked, LookupKinds, NothingUnreported

LEMMA LookupGivesUnambiguous == Types /\ LookupInv => SelectorsAreUnambiguous
<1> SUFFICES ASSUME Types, LookupInv, NEW p \in Procs, pc[p] = "done",
                    NEW t \in answer[p], NEW s \in steady[p], NEW sel \in cmd[p].sel,
                    Visible(p, s), s # t
             PROVE  s \notin Matches(sel, {s, t})
  BY DEF SelectorsAreUnambiguous
<1>1. Looked(p) /\ todo[p] = {} /\ Matches(sel, found[p]) = {t}
  BY DEF LookupInv, Looked
<1>2. s \in found[p] /\ t \in found[p]
  BY <1>1 DEF Looked, Types, TypeLookups
<1>3. QED
  BY <1>1, <1>2, MatchesUnambiguous

\* The process q and its lookup are untouched; at most some of its sessions moved.
Untouched(q) ==
  /\ pc'[q] = pc[q] /\ cmd'[q] = cmd[q] /\ detected'[q] = detected[q]
  /\ todo'[q] = todo[q] /\ found'[q] = found[q] /\ failed'[q] = failed[q]
  /\ answer'[q] = answer[q] /\ steady'[q] \subseteq steady[q]
\* What process q's invariant says of it, apart from what stands.
LookupOf(q) ==
  /\ pc[q] \in {"discover", "load", "done"} /\ cmd[q].kind \in LookupKinds => Looked(q)
  /\ pc[q] \in {"discover", "load"} => cmd[q].kind \in LookupKinds
  /\ pc[q] \in {"save", "pull", "rsync"} => cmd[q].kind \notin LookupKinds
  /\ answer[q] # {} =>
       /\ pc[q] \in {"load", "done"} /\ cmd[q].kind \in LookupKinds
       /\ \A t \in answer[q], sel \in cmd[q].sel : Matches(sel, found[q]) = {t}

LEMMA UntouchedKeeps ==
  ASSUME LookupInv, NEW q \in Procs, Untouched(q)
  PROVE  LookupOf(q)'
<1>1. /\ Scope(q)' = Scope(q)
      /\ \A s : (s \in steady[q])' /\ Visible(q, s)' => s \in steady[q] /\ Visible(q, s)
  BY DEF Untouched, Scope, Visible
<1>2. Looked(q) => Looked(q)'
  BY <1>1 DEF Untouched, Looked
<1>3. LookupOf(q)
  BY DEF LookupInv, LookupOf
<1>4. \A sel, S : Matches(sel, S)' = Matches(sel, S)
  BY DEF Matches, ExactMatches, Candidates
<1>5. QED
  BY <1>2, <1>3, <1>4 DEF Untouched, LookupOf

\* Files that change are not steady, and a lookup starts with what stands.
LEMMA StandsStep ==
  Types /\ LookupInv /\ [Next]_vars => (\A p \in Procs : \A s \in steady[p] : Stands(s))'
<1> SUFFICES ASSUME Types, LookupInv, [Next]_vars, NEW q \in Procs, NEW s \in steady'[q]
             PROVE  Stands(s)'
  OBVIOUS
<1>0. \A r \in Procs : steady[r] \subseteq Sessions /\ \A x \in steady[r] : Stands(x)
  BY DEF LookupInv, Types, TypeLookups
<1>1. ASSUME UNCHANGED <<local, data>>, steady'[q] \subseteq steady[q] PROVE Stands(s)'
  BY <1>0, <1>1 DEF Stands, Cached
<1>2. ASSUME NEW f \in Files, EditLocal(f) PROVE Stands(s)'
  <2>1. s \in steady[q] \ At(Local, {f}) /\ data' = data
    BY <1>2 DEF EditLocal, Unsettle
  <2>2. s.source = Local => s.file # f
    BY <1>0, <2>1 DEF At, Sessions
  <2>3. QED
    BY <1>0, <1>2, <2>1, <2>2 DEF EditLocal, Stands, Cached
<1>3. ASSUME NEW n \in Names, DeleteCache(n) PROVE Stands(s)'
  <2>1. s \in steady[q] \ At(n, Files) /\ local' = local
    BY <1>3 DEF DeleteCache, Unsettle
  <2>2. s.source # n /\ s.source \in Names \cup {Local}
    BY <1>0, <2>1 DEF At, Sessions
  <2>3. s.source \in Names => data'[s.source] = data[s.source]
    BY <1>3, <2>2 DEF DeleteCache, Types, TypeWorld
  <2>4. QED
    BY <1>0, <2>1, <2>2, <2>3, ConstantsAssumption DEF Stands, Cached
<1>4. ASSUME NEW p \in Procs, NEW t \in pulling[p], NEW f \in Files, CopyFile(p, t, f)
      PROVE  Stands(s)'
  <2>1. CASE data'[t.name][f] = data[t.name][f]
    <3>1. t.name \in Names
      BY DEF Types, TypePulls, Sources
    <3>2. data' = data /\ local' = local /\ steady' = steady
      BY <1>4, <2>1, <3>1 DEF CopyFile, Types, TypeWorld
    <3>3. QED
      BY <1>1, <3>2
  <2>2. CASE data'[t.name][f] # data[t.name][f]
    <3>1. s \in steady[q] \ At(t.name, {f}) /\ local' = local
      BY <1>4, <2>2 DEF CopyFile, Unsettle
    <3>2. /\ s.source # t.name \/ s.file # f
          /\ s.source \in Names \cup {Local} /\ s.file \in Files
      BY <1>0, <3>1 DEF At, Sessions
    <3>3. s.source \in Names => data'[s.source][s.file] = data[s.source][s.file]
      BY <1>4, <3>2 DEF CopyFile, Types, TypeWorld, TypePulls, Sources
    <3>4. QED
      BY <1>0, <3>1, <3>2, <3>3, ConstantsAssumption DEF Stands, Cached
  <2>3. QED
    BY <2>1, <2>2
<1>5. ASSUME NEW p \in Procs, NEW cfg, Lookup(p, cfg), UNCHANGED <<local, data>> PROVE Stands(s)'
  <2>1. s \in steady[q] \/ Stands(s)
    BY <1>5 DEF Lookup, Types, TypeLookups
  <2>2. QED
    BY <1>0, <1>5, <2>1 DEF Stands, Cached
<1>6. CASE UNCHANGED vars
  BY <1>1, <1>6 DEF vars
<1>7. CASE Environment
  BY <1>1, <1>2, <1>3, <1>7 DEF Environment, EditRemote, Install
<1>8. ASSUME NEW p \in Procs, Process(p) PROVE Stands(s)'
  <2>1. CASE \E c \in Commands : Start(p, c)
    BY <1>1, <1>5, <2>1 DEF Start
  <2>2. CASE \E sel \in Requests : Request(p, sel)
    BY <1>5, <2>2 DEF Request
  <2>3. CASE \/ Save(p) \/ BeginPull(p) \/ DryRun(p) \/ Answer(p) \/ Load(p)
             \/ \E n \in Names \cup {Local}, broken \in SUBSET Providers : Discover(p, n, broken)
    BY <1>1, <2>3 DEF Save, BeginPull, DryRun, Answer, Load, Discover
  <2>4. CASE \E t \in pulling[p] : Finish(p, t) \/ \E f \in Files : CopyFile(p, t, f)
    BY <1>1, <1>4, <2>4 DEF Finish
  <2>5. CASE End(p) \/ Fail(p)
    BY <1>1, <2>5 DEF End, Fail, Leave, Types, TypeLookups
  <2>6. QED
    BY <1>8, <2>1, <2>2, <2>3, <2>4, <2>5 DEF Process
<1>9. QED
  BY <1>6, <1>7, <1>8 DEF Next
\* A request starts: nothing is found yet, and all that stands is still to discover.
LEMMA LookupStarts ==
  ASSUME Types, NEW p \in Procs, NEW cfg, Lookup(p, cfg), pc'[p] = "discover",
         todo'[p] = NamesOf(cfg) \cup {Local}, cmd'[p].kind \in LookupKinds
  PROVE  LookupOf(p)'
BY DEF Lookup, LookupOf, Looked, Types, TypeLookups

LEMMA StartLookup ==
  ASSUME Types, LookupInv, NEW p \in Procs, NEW c \in Commands, Start(p, c)
  PROVE  LookupOf(p)'
<1>1. /\ pc[p] = "idle" /\ pc'[p] = FirstStep(c, config) /\ cmd'[p] = c
      /\ c.kind \notin {"get", "none"}
  BY ConstantsAssumption DEF Start, Types, TypeCommands
<1>2. answer[p] = {}
  BY <1>1 DEF LookupInv
<1>3. CASE c.kind \in {"list", "show"}
  <2>1. /\ Lookup(p, config) /\ todo'[p] = NamesOf(config) \cup {Local}
        /\ pc'[p] = "discover"
    BY <1>1, <1>3 DEF Start, Types, TypeCommands, FirstStep
  <2>2. QED
    BY <1>1, <1>3, <2>1, LookupStarts DEF LookupKinds
<1>4. CASE c.kind \notin {"list", "show"}
  <2>1. /\ answer'[p] = {} /\ cmd'[p].kind \notin LookupKinds
        /\ pc'[p] \notin {"discover", "load"}
    BY <1>1, <1>2, <1>4 DEF Start, FirstStep, LookupKinds
  <2>2. QED
    BY <2>1 DEF LookupOf
<1>5. QED
  BY <1>3, <1>4

LEMMA RequestLookup ==
  ASSUME Types, NEW p \in Procs, NEW sel \in Requests, Request(p, sel)
  PROVE  LookupOf(p)'
<1>1. /\ Lookup(p, loaded[p]) /\ todo'[p] = NamesOf(loaded[p]) \cup {Local}
      /\ pc'[p] = "discover" /\ cmd'[p].kind = "get"
  BY DEF Request, Types, TypeCommands, Command
<1>2. QED
  BY <1>1, LookupStarts DEF LookupKinds

LEMMA DiscoverLookup ==
  ASSUME Types, LookupInv, NEW p \in Procs, NEW n \in Names \cup {Local},
         NEW broken \in SUBSET Providers, Discover(p, n, broken)
  PROVE  LookupOf(p)'
<1> DEFINE files == IF n = Local THEN LocalFiles(p) ELSE Cached(n)
           shown == At(n, {f \in files : ProviderOf[f] \in Scope(p) \ broken})
<1>1. /\ pc[p] = "discover" /\ pc' = pc /\ cmd' = cmd /\ detected' = detected
      /\ steady' = steady /\ answer' = answer
      /\ todo'[p] = todo[p] \ {n} /\ found'[p] = found[p] \cup shown
  BY DEF Discover, Types, TypeCommands, TypeLookups
<1>2. failed[p] \subseteq failed'[p] /\ (broken # {} => n \in failed'[p])
  BY DEF Discover, Types, TypeCommands
<1>3. Looked(p) /\ cmd[p].kind \in LookupKinds /\ answer[p] = {}
  BY <1>1 DEF LookupInv
<1>4. Scope(p)' = Scope(p)
  BY <1>1 DEF Scope
<1>5. ASSUME NEW s \in steady[p], s.source \notin todo'[p], Visible(p, s)'
      PROVE  s \in found'[p]
  <2>1. Visible(p, s)
    BY <1>1, <1>2, <1>4, <1>5 DEF Visible
  <2>2. CASE s.source # n
    BY <1>1, <1>3, <1>5, <2>1, <2>2 DEF Looked
  <2>3. CASE s.source = n
    <3>1. broken = {}
      BY <1>2, <1>5, <2>3 DEF Visible
    <3>2. s \in Sessions /\ Stands(s)
      BY DEF LookupInv, Types, TypeLookups
    <3>3. s.file \in files /\ ProviderOf[s.file] \in Scope(p)
      BY <2>1, <2>3, <3>2 DEF Stands, Visible, LocalFiles
    <3>4. s \in shown
      BY <2>3, <3>1, <3>2, <3>3 DEF At, Sessions
    <3>5. QED
      BY <1>1, <3>4
  <2>4. QED
    BY <2>2, <2>3
<1>6. \A s \in shown : ProviderOf[s.file] \in Scope(p)
  BY DEF At
<1>7. Looked(p)'
  BY <1>1, <1>3, <1>4, <1>5, <1>6 DEF Looked
<1>8. QED
  BY <1>1, <1>3, <1>7 DEF LookupOf

LEMMA AnswerLookup ==
  ASSUME Types, LookupInv, NEW p \in Procs, Answer(p)
  PROVE  LookupOf(p)'
<1>1. /\ pc[p] = "discover" /\ todo[p] = {} /\ todo' = todo /\ cmd' = cmd /\ found' = found
      /\ steady' = steady /\ failed' = failed /\ detected' = detected
      /\ answer'[p] = UNION {UniqueTarget(Matches(sel, found[p])) : sel \in cmd[p].sel}
      /\ pc'[p] = IF answer'[p] = {} THEN "done" ELSE "load"
  BY DEF Answer, Types, TypeCommands, TypeLookups
<1>2. Looked(p) /\ cmd[p].kind \in LookupKinds
  BY <1>1 DEF LookupInv
<1>3. Looked(p)'
  BY <1>1, <1>2 DEF Looked, Visible, Scope
<1>4. ASSUME NEW t \in answer'[p], NEW sel \in cmd[p].sel PROVE Matches(sel, found[p]) = {t}
  BY <1>1 DEF UniqueTarget, Types, TypeCommands
<1>5. \A sel, S : Matches(sel, S)' = Matches(sel, S)
  BY DEF Matches, ExactMatches, Candidates
<1>6. QED
  BY <1>1, <1>2, <1>3, <1>4, <1>5 DEF LookupOf

LEMMA LoadLookup ==
  ASSUME Types, LookupInv, NEW p \in Procs, Load(p)
  PROVE  LookupOf(p)'
<1>1. /\ pc[p] = "load" /\ pc'[p] = "done" /\ todo' = todo /\ cmd' = cmd /\ found' = found
      /\ steady' = steady /\ failed' = failed /\ detected' = detected
      /\ answer'[p] \subseteq answer[p]
  BY DEF Load, Types, TypeCommands, TypeLookups
<1>2. Looked(p) /\ cmd[p].kind \in LookupKinds
  BY <1>1 DEF LookupInv
<1>3. Looked(p)'
  BY <1>1, <1>2 DEF Looked, Visible, Scope
<1>4. \A t \in answer[p], sel \in cmd[p].sel : Matches(sel, found[p]) = {t}
  BY DEF LookupInv
<1>5. \A sel, S : Matches(sel, S)' = Matches(sel, S)
  BY DEF Matches, ExactMatches, Candidates
<1>6. QED
  BY <1>1, <1>2, <1>3, <1>4, <1>5 DEF LookupOf

\* The other steps of a process look nothing up.
LEMMA ElsewhereLookup ==
  ASSUME Types, LookupInv, NEW p \in Procs,
         \/ Save(p) \/ BeginPull(p) \/ DryRun(p) \/ End(p) \/ Fail(p)
         \/ \E s \in pulling[p] : Finish(p, s)
  PROVE  LookupOf(p)'
<1>1. CASE End(p) \/ Fail(p)
  <2>1. answer'[p] = {} /\ pc'[p] \in {"idle", "serve"}
    BY <1>1 DEF End, Fail, Leave, Types, TypeCommands, TypeLookups
  <2>2. QED
    BY <2>1 DEF LookupOf
<1>2. CASE \/ Save(p) \/ BeginPull(p) \/ DryRun(p)
           \/ \E s \in pulling[p] : Finish(p, s)
  <2>1. /\ pc[p] \in {"save", "pull", "rsync"} /\ answer' = answer /\ cmd' = cmd
        /\ pc'[p] \in {"rsync", "pull", "done"}
    BY <1>2 DEF Save, BeginPull, DryRun, Finish, Types, TypeCommands
  <2>2. answer'[p] = {}
    BY <2>1 DEF LookupInv
  <2>3. cmd'[p].kind \notin LookupKinds
    BY <2>1 DEF LookupInv
  <2>4. QED
    BY <2>1, <2>2, <2>3 DEF LookupOf
<1>3. QED
  BY <1>1, <1>2

LEMMA LookupStep == Types /\ LookupInv /\ [Next]_vars => LookupInv'
<1> SUFFICES ASSUME Types, LookupInv, [Next]_vars PROVE LookupInv'
  OBVIOUS
<1>1. ASSUME NEW q \in Procs PROVE LookupOf(q)'
  <2>1. CASE UNCHANGED vars
    BY <2>1, UntouchedKeeps DEF vars, Untouched
  <2>2. CASE Environment
    <3>1. Untouched(q)
      BY <2>2 DEF Environment, EditLocal, EditRemote, Install, DeleteCache, Unsettle, Idle,
                  Untouched, Types, TypeLookups
    <3>2. QED
      BY <3>1, UntouchedKeeps
  <2>3. ASSUME NEW p \in Procs, Process(p), p # q PROVE LookupOf(q)'
    <3>1. CASE \/ \E c \in Commands : Start(p, c)
               \/ \E sel \in Requests : Request(p, sel)
      BY <3>1, <2>3, UntouchedKeeps
         DEF Start, Request, Lookup, Untouched, Types, TypeCommands, TypeLookups
    <3>2. CASE \/ Save(p) \/ BeginPull(p) \/ DryRun(p) \/ Answer(p) \/ Load(p)
               \/ \E n \in Names \cup {Local}, broken \in SUBSET Providers : Discover(p, n, broken)
      BY <3>2, <2>3, UntouchedKeeps
         DEF Save, BeginPull, DryRun, Answer, Load, Discover, Untouched, Types, TypeCommands, TypeLookups
    <3>3. CASE \E s \in pulling[p] : Finish(p, s)
      BY <3>3, <2>3, UntouchedKeeps DEF Finish, Untouched, Types, TypeCommands, TypeLookups
    <3>5. CASE \E s \in pulling[p], f \in Files : CopyFile(p, s, f)
      BY <3>5, UntouchedKeeps DEF CopyFile, Unsettle, Untouched, Types, TypeLookups
    <3>4. CASE End(p) \/ Fail(p)
      BY <3>4, <2>3, UntouchedKeeps
         DEF End, Fail, Leave, Untouched, Types, TypeCommands, TypeLookups
    <3>6. QED
      BY <2>3, <3>1, <3>2, <3>3, <3>4, <3>5 DEF Process
  <2>4. ASSUME Process(q) PROVE LookupOf(q)'
    <3>1. CASE \E s \in pulling[q], f \in Files : CopyFile(q, s, f)
      BY <3>1, UntouchedKeeps DEF CopyFile, Unsettle, Untouched, Types, TypeLookups
    <3>2. QED
      BY <2>4, <3>1, StartLookup, RequestLookup, DiscoverLookup, AnswerLookup, LoadLookup,
         ElsewhereLookup DEF Process
  <2>5. QED
    BY <2>1, <2>2, <2>3, <2>4 DEF Next
<1>2. QED
  BY <1>1, StandsStep DEF LookupInv, LookupOf

\* A lookup over any number of sources and processes shows what stood all the while,
\* or reports its source, and shows nothing out of scope.
THEOREM LookupsComplete == Spec => []NothingUnreported
<1>1. Spec => [](Types /\ LookupInv)
  BY TypesInit, TypesStep, LookupInit, LookupStep, PTL DEF Spec
<1>2. QED
  BY <1>1, LookupGivesReported, PTL

\* A lookup that gives a session was not asked for another one.
THEOREM SelectorsCorrect == Spec => []SelectorsAreUnambiguous
<1>1. Spec => [](Types /\ LookupInv)
  BY TypesInit, TypesStep, LookupInit, LookupStep, PTL DEF Spec
<1>2. QED
  BY <1>1, LookupGivesUnambiguous, PTL
=============================================================================
