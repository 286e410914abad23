-------------------------- MODULE TranscriptsProofs -------------------------
(***************************************************************************)
(* Proofs about Transcripts, for any records an agent may write, however   *)
(* many of them, and for whatever is torn, completed or run together.      *)
(***************************************************************************)
EXTENDS Transcripts, AlgorithmProofs, FunctionTheorems

(***************************************************************************)
(* The disk.                                                               *)
(***************************************************************************)
Besides == {"index", "dated", "checkpoint", "huge", "log"}
Disks ==
  [recs : Seq(Records), half : {"no", "plain", "split"}, head : Seq(1 .. MaxRecs),
   meta : SUBSET Besides]

DiskInv ==
  /\ tool \in Tools /\ disk \in Disks
  /\ Len(disk.recs) <= MaxRecs
  /\ disk.half # "no" => disk.recs # <<>>
  /\ tool = "cursor" => disk.half = "no"
  /\ tool # "cursor" => disk.head = <<>>

LEMMA BadIsRecord == Bad \in Records /\ Binary \in Records
<1>1. <<>> \in Seq({"p", "f"})
  BY EmptySeq
<1>2. Bad \in Records
  BY <1>1 DEF Bad, Records, Types
<1>3. \A r \in Records : [r EXCEPT !.type = "binary"] \in Records
  BY DEF Records, Types
<1>4. QED
  BY <1>2, <1>3 DEF Binary

LEMMA ChangedRecord ==
  ASSUME NEW r \in Records
  PROVE  /\ AsProse(r) \in Records
         /\ WithPart(r) \in Records /\ WithPart(r).parts = r.parts \cup {"said"}
<1>1. <<"p">> \in Seq({"p", "f"})
  OBVIOUS
<1>2. \A q \in Records : [q EXCEPT !.type = "prose"] \in Records
  BY DEF Records, Types
<1>3. \A q \in Records : [q EXCEPT !.text = <<"p">>] \in Records
  BY <1>1 DEF Records
<1>4. AsProse(r) = [[r EXCEPT !.type = "prose"] EXCEPT !.text = <<"p">>]
  BY DEF AsProse
<1>5. AsProse(r) \in Records
  BY <1>2, <1>3, <1>4, Zenon
<1>6. WithPart(r) \in Records /\ WithPart(r).parts = r.parts \cup {"said"}
  BY DEF WithPart, Records, Parts
<1>7. QED
  BY <1>5, <1>6

LEMMA Kept ==
  ASSUME NEW s \in Seq(Records), NEW i \in 1 .. Len(s), NEW r \in Records
  PROVE  [s EXCEPT ![i] = r] \in Seq(Records) /\ Len([s EXCEPT ![i] = r]) = Len(s)
BY ExceptSeq

LEMMA Longer ==
  ASSUME NEW s \in Seq(Records), NEW r \in Records
  PROVE  Append(s, r) \in Seq(Records) /\ Len(Append(s, r)) = Len(s) + 1 /\ Append(s, r) # <<>>
<1>1. Append(s, r) \in Seq(Records) /\ Len(Append(s, r)) = Len(s) + 1
  BY AppendProperties
<1>2. Len(s) \in Nat /\ Len(<<>>) = 0
  BY LenProperties
<1>3. QED
  BY <1>1, <1>2

Halves == {"no", "plain", "split"}

LEMMA DiskIs ==
  ASSUME disk \in Disks, NEW recs \in Seq(Records), NEW half \in Halves
  PROVE  /\ Disk(recs, half) \in Disks
         /\ Disk(recs, half).recs = recs /\ Disk(recs, half).half = half
         /\ Disk(recs, half).head = disk.head /\ Disk(recs, half).meta = disk.meta
<1>1. \A d \in Disks : /\ [d EXCEPT !.recs = recs] \in Disks
                       /\ [d EXCEPT !.recs = recs].recs = recs
                       /\ [d EXCEPT !.recs = recs].head = d.head
                       /\ [d EXCEPT !.recs = recs].meta = d.meta
  BY DEF Disks
<1>2. \A d \in Disks : /\ [d EXCEPT !.half = half] \in Disks
                       /\ [d EXCEPT !.half = half].recs = d.recs
                       /\ [d EXCEPT !.half = half].half = half
                       /\ [d EXCEPT !.half = half].head = d.head
                       /\ [d EXCEPT !.half = half].meta = d.meta
  BY DEF Disks, Halves
<1> DEFINE some == [disk EXCEPT !.recs = recs]
<1>3. Disk(recs, half) = [some EXCEPT !.half = half]
  BY DEF Disk
<1>4. some \in Disks /\ some.recs = recs /\ some.head = disk.head /\ some.meta = disk.meta
  BY <1>1
<1> HIDE DEF some
<1>5. QED
  BY <1>2, <1>3, <1>4

\* What a write makes of the records.
WriteMakes(r) ==
  \E recs \in Seq(Records) :
    /\ disk' = Disk(recs, "no") /\ Len(recs) \in 0 .. MaxRecs /\ recs # <<>>

LEMMA WriteDisk ==
  ASSUME DiskInv, NEW r \in Written(tool), Write(r)
  PROVE  WriteMakes(r)
<1> DEFINE last == Len(disk.recs)
<1>1. /\ disk.recs \in Seq(Records) /\ r \in Records
      /\ MaxRecs \in Nat /\ last \in Nat /\ last < MaxRecs
      /\ disk.half # "no" => last \in 1 .. Len(disk.recs) /\ disk.recs[last] \in Records
  <2>1. disk.recs \in Seq(Records) /\ last \in Nat /\ (disk.recs # <<>> => last # 0)
    BY LenProperties, EmptySeq DEF DiskInv, Disks
  <2>2. \A i \in 1 .. Len(disk.recs) : disk.recs[i] \in Records
    BY <2>1, ElementOfSeq
  <2>3. QED
    BY <2>1, <2>2, TranscriptsAssumption DEF DiskInv, Write, Room
<1>2. ASSUME NEW recs \in Seq(Records), NEW n \in Nat, Len(recs) = n, n <= MaxRecs, recs # <<>>,
             disk' = Disk(recs, "no")
      PROVE  WriteMakes(r)
  BY <1>2, <1>1 DEF WriteMakes
<1>3. last + 1 \in Nat /\ last + 1 <= MaxRecs
  BY <1>1
<1>4. CASE disk' = Disk(Append(disk.recs, r), "no")
  <2>1. Append(disk.recs, r) \in Seq(Records) /\ Len(Append(disk.recs, r)) = last + 1 /\ Append(disk.recs, r) # <<>>
    BY <1>1, Longer
  <2>2. QED
    BY <1>2, <1>4, <1>3, <2>1, Zenon
<1>5. ASSUME NEW rest \in Records, disk.half # "no",
             disk' = Disk([disk.recs EXCEPT ![last] = rest], "no")
      PROVE  WriteMakes(r)
  <2> DEFINE recs == [disk.recs EXCEPT ![last] = rest]
  <2>1. recs \in Seq(Records) /\ Len(recs) = last
    BY <1>1, <1>5, Kept
  <2> HIDE DEF recs
  <2>2. recs # <<>> /\ Len(recs) \in 0 .. MaxRecs
    BY <1>1, <1>5, <2>1
  <2>3. disk' = Disk(recs, "no")
    BY <1>5 DEF recs
  <2>4. QED
    BY <2>1, <2>2, <2>3 DEF WriteMakes
<1>6. CASE disk' = Disk(Append([disk.recs EXCEPT ![last] = Bad], r), "no") /\ disk.half # "no"
  <2> DEFINE bad == [disk.recs EXCEPT ![last] = Bad]
  <2>1. bad \in Seq(Records) /\ Len(bad) = last
    BY <1>1, <1>6, Kept, BadIsRecord
  <2>2. disk' = Disk(Append(bad, r), "no")
    BY <1>6
  <2> HIDE DEF bad
  <2>3. Append(bad, r) \in Seq(Records) /\ Len(Append(bad, r)) = last + 1 /\ Append(bad, r) # <<>>
    BY <1>1, <2>1, Longer
  <2>4. QED
    BY <1>2, <1>3, <2>2, <2>3, Zenon
<1>7. \/ disk' = Disk(Append(disk.recs, r), "no")
      \/ disk.half # "no" /\ \E rest \in {Binary, Bad, AsProse(disk.recs[last])} :
                              disk' = Disk([disk.recs EXCEPT ![last] = rest], "no")
      \/ disk.half # "no" /\ disk' = Disk(Append([disk.recs EXCEPT ![last] = Bad], r), "no")
  BY DEF Write
<1>8. QED
  BY <1>1, <1>4, <1>5, <1>6, <1>7, BadIsRecord, ChangedRecord

\* The steps of the agent, as far as they touch the disk.
DiskStep ==
  /\ UNCHANGED tool
  /\ \/ \E recs \in Seq(Records), half \in Halves :
          /\ disk' = Disk(recs, half) /\ Len(recs) \in 0 .. MaxRecs
          /\ half # "no" => tool # "cursor" /\ recs # <<>>
     \/ \E i \in 1 .. MaxRecs : ListBubble(i)
     \/ \E meta \in Metas : WriteBeside(meta)
     \/ UNCHANGED disk

LEMMA DiskSteps ==
  ASSUME DiskInv, [Next]_vars
  PROVE  DiskStep
<1>1. /\ disk.recs \in Seq(Records) /\ disk.half \in Halves /\ Len(disk.recs) \in Nat
      /\ MaxRecs \in Nat /\ Len(disk.recs) <= MaxRecs
      /\ disk.half # "no" => tool # "cursor" /\ disk.recs # <<>>
  <2>1. disk.recs \in Seq(Records) /\ disk.half \in Halves
    BY DEF DiskInv, Disks, Halves
  <2>2. QED
    BY <2>1, LenProperties, TranscriptsAssumption DEF DiskInv
<1>2. ASSUME NEW r \in Written(tool), Write(r) PROVE DiskStep
  <2>1. PICK recs \in Seq(Records) : disk' = Disk(recs, "no") /\ Len(recs) \in 0 .. MaxRecs
    BY <1>2, WriteDisk DEF WriteMakes
  <2>2. UNCHANGED tool /\ "no" \in Halves
    BY <1>2 DEF Write, setup, Halves
  <2>3. QED
    BY <2>1, <2>2 DEF DiskStep
<1>3. ASSUME NEW r \in Written(tool), NEW cut \in {"plain", "split"}, Tear(r, cut) PROVE DiskStep
  <2>1. r \in Records
    BY TranscriptsAssumption DEF DiskInv
  <2> DEFINE recs == Append(disk.recs, r)
  <2>2. recs \in Seq(Records) /\ Len(recs) = Len(disk.recs) + 1 /\ recs # <<>>
    BY <1>1, <2>1, Longer
  <2>3. /\ disk' = Disk(recs, cut) /\ tool # "cursor" /\ UNCHANGED tool /\ cut \in Halves
        /\ Len(disk.recs) < MaxRecs
    BY <1>3 DEF Tear, Room, setup, Halves
  <2> HIDE DEF recs
  <2>4. Len(recs) \in 0 .. MaxRecs
    BY <1>1, <2>2, <2>3
  <2>5. QED
    BY <2>2, <2>3, <2>4 DEF DiskStep
<1>4. CASE Complete
  <2>1. disk' = Disk(disk.recs, "no") /\ UNCHANGED tool /\ "no" \in Halves
    BY <1>4 DEF Complete, setup, Halves
  <2>2. Len(disk.recs) \in 0 .. MaxRecs
    BY <1>1
  <2>3. QED
    BY <1>1, <2>1, <2>2 DEF DiskStep
<1>5. ASSUME NEW i \in DOMAIN disk.recs, AddPart(i) PROVE DiskStep
  <2> DEFINE recs == [disk.recs EXCEPT ![i] = WithPart(disk.recs[i])]
  <2>1. i \in 1 .. Len(disk.recs) /\ disk.recs[i] \in Records
    BY <1>1, LenProperties, ElementOfSeq
  <2>2. recs \in Seq(Records) /\ Len(recs) = Len(disk.recs)
    BY <1>1, <2>1, Kept, ChangedRecord
  <2>3. disk' = Disk(recs, disk.half) /\ UNCHANGED tool
    BY <1>5 DEF AddPart, setup
  <2> HIDE DEF recs
  <2>4. Len(recs) \in 0 .. MaxRecs /\ recs # <<>>
    BY <1>1, <2>1, <2>2
  <2>5. QED
    BY <1>1, <2>2, <2>3, <2>4 DEF DiskStep
<1>6. ASSUME NEW i \in 1 .. MaxRecs, ListBubble(i) PROVE DiskStep
  BY <1>6 DEF ListBubble, setup, DiskStep
<1>7. CASE UNCHANGED vars \/ Discover \/ \E ref \in listed : Load(ref)
  BY <1>7 DEF vars, Discover, Load, setup, DiskStep
<1>8. ASSUME NEW meta \in Metas, WriteBeside(meta) PROVE DiskStep
  BY <1>8 DEF WriteBeside, setup, DiskStep
<1>9. QED
  BY <1>2, <1>3, <1>4, <1>5, <1>6, <1>7, <1>8 DEF Next

LEMMA MetasAre == Metas \subseteq SUBSET Besides
BY DEF Metas, Besides

\* What a step beside the records leaves: the records.
LEMMA BesideIs ==
  ASSUME DiskInv, NEW meta \in Metas, WriteBeside(meta)
  PROVE  /\ tool' = tool /\ disk' \in Disks /\ disk'.meta = meta
         /\ disk'.recs = disk.recs /\ disk'.half = disk.half /\ disk'.head = disk.head
<1>1. tool' = tool /\ disk' = [disk EXCEPT !.meta = meta] /\ disk \in Disks
  BY DEF WriteBeside, setup, DiskInv
<1>2. meta \in SUBSET Besides
  BY MetasAre
<1>3. QED
  BY <1>1, <1>2 DEF Disks

LEMMA DiskKept ==
  ASSUME DiskInv, [Next]_vars
  PROVE  DiskInv'
<1>1. DiskStep
  BY DiskSteps
<1>2. CASE UNCHANGED disk
  BY <1>1, <1>2 DEF DiskInv, DiskStep
<1>3. ASSUME NEW recs \in Seq(Records), NEW half \in Halves, disk' = Disk(recs, half),
             Len(recs) \in 0 .. MaxRecs, half # "no" => tool # "cursor" /\ recs # <<>>
      PROVE  DiskInv'
  <2>1. disk' \in Disks /\ disk'.recs = recs /\ disk'.half = half /\ disk'.head = disk.head
    BY <1>3, DiskIs DEF DiskInv
  <2>2. QED
    BY <1>1, <1>3, <2>1, TranscriptsAssumption DEF DiskInv, DiskStep
<1>4. ASSUME NEW i \in 1 .. MaxRecs, ListBubble(i) PROVE DiskInv'
  <2>1. disk.head \in Seq(1 .. MaxRecs) /\ tool' = tool /\ tool = "cursor"
    BY <1>4 DEF ListBubble, DiskInv, Disks, setup
  <2> DEFINE head == Append(disk.head, i)
  <2>2. head \in Seq(1 .. MaxRecs)
    BY <2>1, AppendProperties
  <2>3. disk' = [disk EXCEPT !.head = head]
    BY <1>4 DEF ListBubble
  <2> HIDE DEF head
  <2>4. disk' \in Disks /\ disk'.recs = disk.recs /\ disk'.half = disk.half /\ disk'.head = head
    BY <2>2, <2>3 DEF DiskInv, Disks
  <2>5. QED
    BY <2>1, <2>4 DEF DiskInv
<1>5. ASSUME NEW meta \in Metas, WriteBeside(meta) PROVE DiskInv'
  BY <1>5, BesideIs DEF DiskInv
<1>6. QED
  BY <1>1, <1>2, <1>3, <1>4, <1>5 DEF DiskStep

LEMMA DiskStart == Init => DiskInv
<1> SUFFICES ASSUME Init PROVE DiskInv
  OBVIOUS
<1>1. tool \in Tools /\ disk \in [recs : {<<>>}, half : {"no"}, head : {<<>>}, meta : Metas]
  BY DEF Init
<1>2. Metas \subseteq SUBSET Besides
  BY MetasAre
<1>3. <<>> \in Seq(Records) /\ <<>> \in Seq(1 .. MaxRecs) /\ Len(<<>>) = 0
  BY EmptySeq
<1>4. disk.recs = <<>> /\ disk.half = "no" /\ disk.head = <<>> /\ disk \in Disks
  BY <1>1, <1>2, <1>3 DEF Disks
<1>5. QED
  BY <1>1, <1>3, <1>4, TranscriptsAssumption DEF DiskInv

(***************************************************************************)
(* Fingerprints.  But for Cursor's beside a log, one that a step leaves as *)
(* it was says that the records are as they were, and but for the readers  *)
(* that take nothing from beside them, what is beside them too.            *)
(***************************************************************************)
LEMMA SameDisk ==
  ASSUME NEW d \in Disks, NEW e \in Disks, d.recs = e.recs, d.half = e.half, d.head = e.head, d.meta = e.meta
  PROVE  d = e
BY DEF Disks

LEMMA SameRecord ==
  ASSUME NEW q \in Records, NEW r \in Records, MessageFile(q) = MessageFile(r),
         q.parts \cap PartKinds = r.parts \cap PartKinds
  PROVE  q = r
<1>1. /\ MessageFile(q).type = q.type /\ MessageFile(q).text = q.text /\ MessageFile(q).body = q.body
      /\ MessageFile(q).at = q.at /\ MessageFile(q).parts = q.parts \ PartKinds
  BY DEF MessageFile, Records
<1>2. /\ MessageFile(r).type = r.type /\ MessageFile(r).text = r.text /\ MessageFile(r).body = r.body
      /\ MessageFile(r).at = r.at /\ MessageFile(r).parts = r.parts \ PartKinds
  BY DEF MessageFile, Records
<1>3. q.parts = r.parts
  BY <1>1, <1>2
<1>4. QED
  BY <1>1, <1>2, <1>3 DEF Records

LEMMA MessageFiles ==
  ASSUME NEW d \in Disks, NEW e \in Disks, OpenCodeFingerprint(d) = OpenCodeFingerprint(e)
  PROVE  d.recs = e.recs /\ d.half = e.half /\ d.meta = e.meta
<1> DEFINE files(x) == [i \in DOMAIN x.recs |-> MessageFile(x.recs[i])]
           held(x) == {i \in DOMAIN x.recs : x.recs[i].parts \cap PartKinds # {}}
           parts(x) == [i \in held(x) |-> x.recs[i].parts \cap PartKinds]
<1>1. d.meta = e.meta /\ d.half = e.half /\ files(d) = files(e) /\ parts(d) = parts(e)
  BY DEF OpenCodeFingerprint
<1>2. d.recs \in Seq(Records) /\ e.recs \in Seq(Records)
  BY DEF Disks
<1>3. DOMAIN d.recs = 1 .. Len(d.recs) /\ DOMAIN e.recs = 1 .. Len(e.recs)
      /\ Len(d.recs) \in Nat /\ Len(e.recs) \in Nat
  BY <1>2, LenProperties
<1>4. DOMAIN files(d) = DOMAIN d.recs /\ DOMAIN files(e) = DOMAIN e.recs
  OBVIOUS
<1>5. DOMAIN d.recs = DOMAIN e.recs
  BY <1>1, <1>4, Zenon
<1>6. DOMAIN parts(d) = held(d) /\ DOMAIN parts(e) = held(e)
  OBVIOUS
<1>7. held(d) = held(e)
  BY <1>1, <1>6, Zenon
<1>8. \A i \in DOMAIN d.recs : d.recs[i] = e.recs[i]
  <2> SUFFICES ASSUME NEW i \in DOMAIN d.recs PROVE d.recs[i] = e.recs[i]
    OBVIOUS
  <2>1. d.recs[i] \in Records /\ e.recs[i] \in Records
    BY <1>2, <1>3, <1>5, ElementOfSeq
  <2>2. files(d)[i] = MessageFile(d.recs[i]) /\ files(e)[i] = MessageFile(e.recs[i])
    BY <1>5
  <2>3. MessageFile(d.recs[i]) = MessageFile(e.recs[i])
    BY <1>1, <2>2, Zenon
  <2>4. d.recs[i].parts \cap PartKinds = e.recs[i].parts \cap PartKinds
    <3>1. CASE i \in held(d)
      <4>1. parts(d)[i] = d.recs[i].parts \cap PartKinds
        BY <3>1
      <4>2. parts(e)[i] = e.recs[i].parts \cap PartKinds
        BY <1>7, <3>1
      <4>3. QED
        BY <1>1, <4>1, <4>2, Zenon
    <3>2. CASE i \notin held(d)
      BY <1>5, <1>7, <3>2
    <3>3. QED
      BY <3>1, <3>2
  <2>5. QED
    BY <2>1, <2>3, <2>4, SameRecord
<1>9. QED
  BY <1>1, <1>2, <1>3, <1>5, <1>8, SeqEqual

Wholly == {"opencode", "copilot-cli", "cline", "cursor"}

LEMMA FingerprintSays ==
  ASSUME DiskInv, [Next]_vars, IndexFingerprint(disk') = IndexFingerprint(disk),
         ~(tool = "cursor" /\ "log" \in disk.meta)
  PROVE  /\ disk'.recs = disk.recs /\ disk'.half = disk.half /\ disk'.head = disk.head
         /\ tool \in Wholly => disk' = disk
<1>1. DiskInv' /\ tool' = tool
  BY DiskKept, DiskSteps DEF DiskStep
<1>2. disk \in Disks /\ disk' \in Disks
  BY <1>1 DEF DiskInv
<1>3. ASSUME disk'.recs = disk.recs, disk'.half = disk.half, disk'.head = disk.head, disk'.meta = disk.meta
      PROVE  disk' = disk
  BY <1>2, <1>3, SameDisk
<1>4. CASE tool = "cursor"
  <2>1. IndexFingerprint(disk) = <<disk.recs, disk.head, disk.meta>>
    BY <1>4 DEF IndexFingerprint, CursorFingerprint
  <2>2. \A a, b, c : <<>> # <<a, b, c>>
    OBVIOUS
  <2>3. IndexFingerprint(disk') = <<disk'.recs, disk'.head, disk'.meta>>
    <3>1. IndexFingerprint(disk') = CursorFingerprint(disk')
      BY <1>4 DEF IndexFingerprint
    <3>2. "log" \in disk'.meta => CursorFingerprint(disk') = <<>>
      BY DEF CursorFingerprint
    <3>3. "log" \notin disk'.meta
      BY <2>1, <2>2, <3>1, <3>2, Zenon
    <3>4. QED
      BY <3>1, <3>3 DEF CursorFingerprint
  <2>4. disk'.recs = disk.recs /\ disk'.head = disk.head /\ disk'.meta = disk.meta
    BY <2>1, <2>3
  <2>5. disk'.half = disk.half
    BY <1>1, <1>4 DEF DiskInv
  <2>6. QED
    BY <1>3, <2>4, <2>5
<1>5. CASE tool # "cursor"
  <2>1. disk'.head = disk.head
    BY <1>1, <1>5 DEF DiskInv
  <2>2. CASE tool = "opencode"
    <3>1. disk'.recs = disk.recs /\ disk'.half = disk.half /\ disk'.meta = disk.meta
      BY <1>2, <2>2, MessageFiles DEF IndexFingerprint
    <3>2. QED
      BY <1>3, <2>1, <3>1
  <2>3. CASE tool \in {"copilot-cli", "cline"}
    <3>1. disk'.recs = disk.recs /\ disk'.half = disk.half /\ disk'.meta = disk.meta
      BY <2>3 DEF IndexFingerprint, DirectoryFingerprint
    <3>2. QED
      BY <1>3, <2>1, <3>1
  <2>4. CASE tool \notin Wholly
    BY <1>5, <2>1, <2>4 DEF IndexFingerprint, SourceFingerprint, Wholly
  <2>5. QED
    BY <1>5, <2>2, <2>3, <2>4 DEF Wholly
<1>6. QED
  BY <1>4, <1>5

(***************************************************************************)
(* Gathering.  Each outcome is of one record: it is taken as a turn, or    *)
(* passed over with a reason that is counted or for its kind.              *)
(***************************************************************************)
Reasons == {"error", "skipped", "empty"}
Taken(o, i) == o.turn.rec = i /\ o.turn.role # "none" /\ o.turn.at \in Int
Passed(o, r) == o.turn = NoTurn /\ (o.why \in Reasons \/ Silent(r))

Tuple(s, n) == n \in Nat /\ \E S : s \in [1 .. n -> S]

\* The outcomes outs are of the records of recs that from names.
Outcomes(outs, n, from, recs) ==
  /\ Tuple(outs, n) /\ from \in [1 .. n -> 1 .. Len(recs)]
  /\ \A k \in 1 .. n : Taken(outs[k], from[k]) \/ Passed(outs[k], recs[from[k]])

\* The turns made of them, each of an outcome of its own.
OneToOne(f, n) == \A k, l \in 1 .. n : f[k] = f[l] => k = l
Turned(turns, outs, n, from) ==
  /\ Tuple(turns, Len(turns))
  /\ \A j \in 1 .. Len(turns) :
       turns[j].role # "none" /\ turns[j].at \in Int /\ \E k \in 1 .. n : turns[j].rec = from[k]
  /\ \E pick \in [1 .. Len(turns) -> 1 .. n] :
       OneToOne(pick, Len(turns)) /\ \A j \in 1 .. Len(turns) : turns[j].rec = from[pick[j]]
  /\ \A k \in 1 .. n : Taken(outs[k], from[k]) => \E j \in 1 .. Len(turns) : turns[j].rec = from[k]

LEMMA TupleIs ==
  ASSUME NEW s, NEW n, Tuple(s, n)
  PROVE  n \in Nat /\ DOMAIN s = 1 .. n /\ Len(s) = n
BY DEF Tuple

LEMMA NoTurnIs == NoTurn.role = "none"
BY DEF NoTurn, Turn

LEMMA TurnsAre ==
  ASSUME NEW outs, NEW n, NEW from, NEW recs, Outcomes(outs, n, from, recs)
  PROVE  Turned(TurnsOf(outs), outs, n, from)
<1> DEFINE all == [k \in DOMAIN outs |-> outs[k].turn]
           I == {k \in DOMAIN outs : outs[k].turn # NoTurn}
           S == {outs[k].turn : k \in 1 .. n}
           turns == TurnsOf(outs)
<1>1. n \in Nat /\ DOMAIN outs = 1 .. n
  BY TupleIs DEF Outcomes
<1>2. all \in Seq(S) /\ Len(all) = n
  <2>1. all \in [1 .. n -> S]
    BY <1>1
  <2> HIDE DEF all, S
  <2>2. QED
    BY <1>1, <2>1
<1>3. turns = Picked(all, I)
  BY DEF TurnsOf
<1>4. InPlace(turns, all, I, n) /\ turns \in Seq(S)
  <2> HIDE DEF all, I, S, turns
  <2>1. InPlace(turns, all, I, n)
    BY <1>2, <1>3, PickedInPlace
  <2>2. turns \in Seq(S)
    BY <1>2, <1>3, PickedIs DEF Picks
  <2>3. QED
    BY <2>1, <2>2
<1>5. \A k \in (1 .. n) \cap I : all[k] = outs[k].turn /\ Taken(outs[k], from[k])
  BY <1>1 DEF Outcomes, Passed
<1>6. \A k \in 1 .. n : Taken(outs[k], from[k]) => k \in I
  BY <1>1, NoTurnIs DEF Taken
<1> HIDE DEF all, I, S, turns
<1>7. Len(turns) \in Nat /\ Tuple(turns, Len(turns))
  BY <1>4, LenProperties DEF Tuple
<1>8. \A j \in 1 .. Len(turns) : \E k \in (1 .. n) \cap I : Place(I, k) = j /\ turns[j] = outs[k].turn
  BY <1>4, <1>5 DEF InPlace
<1>9. \A k \in (1 .. n) \cap I : Place(I, k) \in 1 .. Len(turns) /\ turns[Place(I, k)] = outs[k].turn
  BY <1>4, <1>5 DEF InPlace
<1>10. ASSUME NEW j \in 1 .. Len(turns)
       PROVE  turns[j].role # "none" /\ turns[j].at \in Int /\ \E k \in 1 .. n : turns[j].rec = from[k]
  BY <1>5, <1>8, ZenonT(40) DEF Taken
<1> DEFINE Of(j) == {k \in (1 .. n) \cap I : Place(I, k) = j /\ turns[j] = outs[k].turn}
           pick == [j \in 1 .. Len(turns) |-> CHOOSE k \in Of(j) : TRUE]
<1>11. /\ pick \in [1 .. Len(turns) -> 1 .. n]
       /\ OneToOne(pick, Len(turns))
       /\ \A j \in 1 .. Len(turns) : turns[j].rec = from[pick[j]]
  <2>1. \A j \in 1 .. Len(turns) : pick[j] \in Of(j)
    <3>1. \A j \in 1 .. Len(turns) : Of(j) # {}
      BY <1>8
    <3>2. QED
      BY <3>1
  <2>2. \A j \in 1 .. Len(turns) :
          /\ pick[j] \in (1 .. n) \cap I /\ Place(I, pick[j]) = j
          /\ turns[j] = outs[pick[j]].turn
    BY <2>1
  <2>3. pick = [j \in 1 .. Len(turns) |-> pick[j]]
    OBVIOUS
  <2> HIDE DEF pick
  <2>4. pick \in [1 .. Len(turns) -> 1 .. n]
    BY <2>2, <2>3
  <2>5. \A j \in 1 .. Len(turns) : turns[j].rec = from[pick[j]]
    BY <1>5, <2>2 DEF Taken
  <2>6. QED
    BY <2>2, <2>4, <2>5 DEF OneToOne
<1>12. ASSUME NEW k \in 1 .. n, Taken(outs[k], from[k])
       PROVE  \E j \in 1 .. Len(turns) : turns[j].rec = from[k]
  BY <1>6, <1>9, <1>12 DEF Taken
<1> HIDE DEF pick
<1>13. QED
  BY <1>7, <1>10, <1>11, <1>12 DEF Turned, turns

\* Of different records, different turns.
LEMMA TurnedApart ==
  ASSUME NEW turns, NEW outs, NEW n, NEW from, Turned(turns, outs, n, from), OneToOne(from, n)
  PROVE  \A j, l \in 1 .. Len(turns) : turns[j].rec = turns[l].rec => j = l
<1>1. PICK pick \in [1 .. Len(turns) -> 1 .. n] :
        OneToOne(pick, Len(turns)) /\ \A j \in 1 .. Len(turns) : turns[j].rec = from[pick[j]]
  BY DEF Turned
<1>2. \A j \in 1 .. Len(turns) : pick[j] \in 1 .. n
  BY <1>1
<1>3. QED
  BY <1>1, <1>2 DEF OneToOne

(***************************************************************************)
(* Counts.                                                                 *)
(***************************************************************************)
LEMMA ApartAdd ==
  ASSUME NEW A, NEW B, IsFiniteSet(A), IsFiniteSet(B), A \cap B = {}
  PROVE  Cardinality(A \cup B) = Cardinality(A) + Cardinality(B)
<1>1. Cardinality(A \cup B) = Cardinality(A) + Cardinality(B) - Cardinality(A \cap B)
  BY FS_Union, Zenon
<1>2. Cardinality(A \cap B) = 0
  BY FS_EmptySet, Zenon
<1>3. Cardinality(A) \in Nat /\ Cardinality(B) \in Nat
  BY FS_CardinalityType
<1>4. QED
  BY <1>1, <1>2, <1>3

LEMMA CountsAre ==
  ASSUME NEW outs, NEW n, Tuple(outs, n)
  PROVE  /\ \A why \in Reasons : Counted(outs, why) \in Nat
         /\ Counted(outs, "error") + Counted(outs, "skipped") + Counted(outs, "empty") <= n
         /\ \A k \in 1 .. n, why \in Reasons : outs[k].why = why => Counted(outs, why) > 0
<1> DEFINE of(why) == {k \in DOMAIN outs : outs[k].why = why}
<1>1. n \in Nat /\ DOMAIN outs = 1 .. n
  BY TupleIs
<1>2. IsFiniteSet(1 .. n) /\ Cardinality(1 .. n) = n
  <2>1. 1 \in Int /\ n \in Int
    BY <1>1
  <2>2. IsFiniteSet(1 .. n) /\ Cardinality(1 .. n) = IF 1 > n THEN 0 ELSE n - 1 + 1
    BY <2>1, FS_Interval, Zenon
  <2>3. QED
    BY <1>1, <2>2
<1>3. \A why : of(why) \in SUBSET (1 .. n)
  BY <1>1
<1>4. \A why : Counted(outs, why) = Cardinality(of(why))
  BY DEF Counted
<1>5. /\ of("error") \cap of("skipped") = {}
      /\ (of("error") \cup of("skipped")) \cap of("empty") = {}
  OBVIOUS
<1>6. \A k \in 1 .. n, why \in Reasons : outs[k].why = why => of(why) # {}
  BY <1>1
<1> HIDE DEF of
<1>7. \A why : IsFiniteSet(of(why)) /\ Cardinality(of(why)) \in Nat
  BY <1>2, <1>3, FS_Subset, FS_CardinalityType
<1>8. Cardinality(of("error") \cup of("skipped")) = Cardinality(of("error")) + Cardinality(of("skipped"))
  BY <1>5, <1>7, ApartAdd
<1> DEFINE some == of("error") \cup of("skipped")
<1>9. IsFiniteSet(some) /\ some \cap of("empty") = {}
      /\ Cardinality(some) = Cardinality(of("error")) + Cardinality(of("skipped"))
  BY <1>5, <1>7, <1>8, FS_Union
<1> HIDE DEF some
<1>10. Cardinality(some \cup of("empty")) = Cardinality(some) + Cardinality(of("empty"))
  BY <1>7, <1>9, ApartAdd
<1>11. Cardinality(some \cup of("empty")) <= n
  <2>1. (some \cup of("empty")) \in SUBSET (1 .. n)
    BY <1>3 DEF some
  <2>2. QED
    BY <1>2, <2>1, FS_Subset
<1>12. \A why : of(why) # {} => Cardinality(of(why)) > 0
  BY <1>7, FS_EmptySet
<1>13. QED
  BY <1>4, <1>6, <1>7, <1>9, <1>10, <1>11, <1>12

(***************************************************************************)
(* Loads.  A load shows each record at most once, but for Cursor's, and    *)
(* none is left out without a count but the silent and what is beyond      *)
(* Cursor's limits.                                                        *)
(***************************************************************************)
OneOf(o, i, r) == Taken(o, i) \/ Passed(o, r)
Beyond(recs, i) == tool = "cursor" /\ (recs[i] = Huge \/ i > MaxRows)

Loaded(load, recs) ==
  /\ Tuple(load.turns, Len(load.turns))
  /\ \A j \in 1 .. Len(load.turns) :
       load.turns[j].rec \in 0 .. Len(recs) /\ load.turns[j].role # "none"
  /\ tool # "cursor" =>
       \A j, l \in 1 .. Len(load.turns) : load.turns[j].rec = load.turns[l].rec => j = l
  /\ load.ok => \A i \in 1 .. Len(recs) :
       \/ \E j \in 1 .. Len(load.turns) : load.turns[j].rec = i
       \/ HasWarnings(load.stats)
       \/ Silent(recs[i]) \/ Beyond(recs, i)
  /\ load.stats.errors + load.stats.skipped + load.stats.empty <= load.stats.seen

LEMMA GatherIs ==
  ASSUME NEW outs, NEW n, NEW from, NEW recs, Outcomes(outs, n, from, recs)
  PROVE  /\ Turned(Gather(outs).turns, outs, n, from)
         /\ \A k \in 1 .. n :
              \/ Taken(outs[k], from[k])
              \/ HasWarnings(Gather(outs).stats)
              \/ Silent(recs[from[k]])
         /\ Gather(outs).stats.errors + Gather(outs).stats.skipped + Gather(outs).stats.empty
              <= Gather(outs).stats.seen
<1>1. Tuple(outs, n) /\ Len(outs) = n
  BY TupleIs DEF Outcomes
<1>2. Turned(TurnsOf(outs), outs, n, from)
  BY TurnsAre
<1>3. /\ Gather(outs).turns = TurnsOf(outs)
      /\ Gather(outs).stats.seen = n
      /\ Gather(outs).stats.errors = Counted(outs, "error")
      /\ Gather(outs).stats.skipped = Counted(outs, "skipped")
      /\ Gather(outs).stats.empty = Counted(outs, "empty")
  BY <1>1 DEF Gather
<1>4. /\ Counted(outs, "error") \in Nat
      /\ Counted(outs, "skipped") \in Nat
      /\ Counted(outs, "empty") \in Nat
  BY <1>1, CountsAre DEF Reasons
<1>5. Counted(outs, "error") + Counted(outs, "skipped") + Counted(outs, "empty") <= n
  BY <1>1, CountsAre
<1>6. ASSUME NEW k \in 1 .. n, ~Taken(outs[k], from[k]), ~Silent(recs[from[k]])
      PROVE  HasWarnings(Gather(outs).stats)
  <2>1. outs[k].why \in Reasons
    BY <1>6 DEF Outcomes, Passed
  <2>2. Counted(outs, outs[k].why) > 0
    BY <1>1, <2>1, CountsAre
  <2>3. \/ Counted(outs, "error") > 0
        \/ Counted(outs, "skipped") > 0
        \/ Counted(outs, "empty") > 0
    BY <2>1, <2>2 DEF Reasons
  <2> HIDE DEF Gather
  <2>4. QED
    BY <1>3, <1>4, <2>3 DEF HasWarnings
<1>7. QED
  BY <1>2, <1>3, <1>5, <1>6

\* A load of every record in its order.
LEMMA GatherAll ==
  ASSUME NEW outs, NEW recs, Len(recs) \in Nat, Tuple(outs, Len(recs)),
         \A i \in 1 .. Len(recs) : OneOf(outs[i], i, recs[i])
  PROVE  Loaded(Gather(outs), recs)
<1> DEFINE n == Len(recs)
           from == [k \in 1 .. n |-> k]
           load == Gather(outs)
<1>1. Outcomes(outs, n, from, recs)
  BY DEF Outcomes, OneOf
<1>2. \A k \in 1 .. n : from[k] = k
  OBVIOUS
<1> HIDE DEF from
<1>3. /\ Turned(load.turns, outs, n, from)
      /\ \A j, l \in 1 .. Len(load.turns) : load.turns[j].rec = load.turns[l].rec => j = l
  <2>1. Turned(load.turns, outs, n, from) /\ OneToOne(from, n)
    BY <1>1, <1>2, GatherIs DEF OneToOne
  <2> HIDE DEF load
  <2>2. QED
    BY <2>1, TurnedApart
<1>4. \A k \in 1 .. n : Taken(outs[k], k) \/ HasWarnings(load.stats) \/ Silent(recs[k])
  BY <1>1, <1>2, GatherIs
<1>5. load.stats.errors + load.stats.skipped + load.stats.empty <= load.stats.seen
  BY <1>1, GatherIs
<1> HIDE DEF load
<1>6. \A i \in 1 .. n :
        \/ \E j \in 1 .. Len(load.turns) : load.turns[j].rec = i
        \/ HasWarnings(load.stats)
        \/ Silent(recs[i])
  BY <1>2, <1>3, <1>4 DEF Turned
<1>7. \A j \in 1 .. Len(load.turns) :
        load.turns[j].rec \in 0 .. n /\ load.turns[j].role # "none"
  BY <1>2, <1>3 DEF Turned
<1>8. QED
  BY <1>3, <1>5, <1>6, <1>7 DEF Loaded, Turned, load

LEMMA FailedLoads ==
  ASSUME NEW recs, Len(recs) \in Nat PROVE Loaded(Failed, recs)
<1>1. Len(<<>>) = 0 /\ <<>> \in [1 .. 0 -> {}]
  OBVIOUS
<1>2. QED
  BY <1>1 DEF Loaded, Failed, NoStats, Tuple

LEMMA MappedIs ==
  ASSUME NEW s, NEW n \in Nat, s = [i \in 1 .. n |-> s[i]]
  PROVE  Tuple(s, n)
<1>1. s \in [1 .. n -> {s[i] : i \in 1 .. n}]
  OBVIOUS
<1>2. QED
  BY <1>1, Zenon DEF Tuple

LEMMA VisitsLoad ==
  ASSUME NEW d \in Disks, NEW outs, Tuple(outs, Len(d.recs)),
         \A i \in 1 .. Len(d.recs) : OneOf(outs[i], i, d.recs[i])
  PROVE  Loaded(VisitLines(d, outs), d.recs) /\ Loaded(VisitArray(d, outs), d.recs)
<1> DEFINE n == Len(d.recs)
<1>1. n \in Nat /\ DOMAIN outs = 1 .. n
  BY TupleIs
<1>2. ASSUME NEW read PROVE Loaded(Gather(Visited(read, outs)), d.recs)
  <2> DEFINE all == Visited(read, outs)
  <2>1. \A i \in 1 .. n : OneOf(all[i], i, d.recs[i])
    BY <1>1 DEF OneOf, Passed, LeftOut, Reasons, Visited
  <2>2. all = [i \in 1 .. n |-> all[i]]
    BY <1>1 DEF Visited
  <2> HIDE DEF all
  <2>3. Tuple(all, n)
    BY <1>1, <2>2, MappedIs
  <2>4. Loaded(Gather(all), d.recs)
    BY <1>1, <2>1, <2>3, GatherAll
  <2>5. QED
    BY <2>4 DEF all
<1>3. Loaded(Failed, d.recs)
  BY <1>1, FailedLoads
<1>4. QED
  BY <1>2, <1>3 DEF VisitLines, VisitArray

(***************************************************************************)
(* Each reader takes a record, or passes it over for a reason.             *)
(***************************************************************************)
LEMMA TimeIs ==
  ASSUME NEW i \in Int, NEW r, NEW fallback \in Int
  PROVE  Time(i, r, fallback) \in Int
BY DEF Time, Start

LEMMA ShownIs ==
  ASSUME NEW i \in Int, NEW r, NEW role, role # "none", NEW blocks, NEW at \in Int
  PROVE  /\ OneOf(Shown(i, role, blocks, at), i, r)
         /\ OneOf(ShownUnlessEmpty(i, role, blocks, at), i, r)
<1>1. Taken(Shown(i, role, blocks, at), i)
  BY DEF Taken, Shown, Turn
<1>2. Passed(LeftOut("empty"), r)
  BY DEF Passed, LeftOut, Reasons
<1>3. QED
  BY <1>1, <1>2 DEF OneOf, ShownUnlessEmpty

LEMMA LeftOutIs ==
  ASSUME NEW i, NEW r
  PROVE  /\ OneOf(LeftOut("skipped"), i, r)
         /\ OneOf(LeftOut("error"), i, r)
         /\ Silent(r) => OneOf(LeftOut("quiet"), i, r)
BY DEF OneOf, Passed, LeftOut, Reasons

\* The same at the times that readers give.
LEMMA TimedIs ==
  ASSUME NEW i \in Int, NEW r, NEW role, role # "none", NEW blocks, NEW fallback \in Int
  PROVE  /\ OneOf(Shown(i, role, blocks, Time(i, r, fallback)), i, r)
         /\ OneOf(ShownUnlessEmpty(i, role, blocks, Time(i, r, fallback)), i, r)
BY TimeIs, ShownIs, Zenon

\* Every record of the disk read by the reader's rule.
Rule(outs, d) ==
  /\ outs = [i \in DOMAIN d.recs |-> outs[i]]
  /\ \A i \in 1 .. Len(d.recs) : OneOf(outs[i], i, d.recs[i])

LEMMA RuleLoads ==
  ASSUME NEW d \in Disks, NEW outs, Rule(outs, d)
  PROVE  Loaded(VisitLines(d, outs), d.recs) /\ Loaded(VisitArray(d, outs), d.recs)
<1>1. Len(d.recs) \in Nat /\ DOMAIN d.recs = 1 .. Len(d.recs)
  BY DEF Disks
<1>2. Tuple(outs, Len(d.recs))
  BY <1>1, MappedIs DEF Rule
<1>3. QED
  BY <1>2, VisitsLoad DEF Rule

LEMMA ClaudeOutcomeIs ==
  ASSUME NEW i \in Int, NEW r PROVE OneOf(ClaudeOutcome(i, r), i, r)
<1>1. CASE r.type \notin {"user", "assistant"} \/ ~r.body
  BY <1>1, LeftOutIs DEF ClaudeOutcome
<1>2. CASE r.type \in {"user", "assistant"} /\ r.body
  <2>1. i - 1 \in Int /\ r.type # "none"
    BY <1>2
  <2>2. QED
    BY <1>2, <2>1, TimedIs DEF ClaudeOutcome
<1>3. QED
  BY <1>1, <1>2

LEMMA CodexEventIs ==
  ASSUME tool = "codex-cli", NEW i \in Int, NEW r, r.type \in CodexEvents
  PROVE  OneOf(CodexEvent(i, r), i, r)
<1> DEFINE quiet == ~r.body \/ r.text = <<>> \/ r.type \notin {"user_message", "agent_message"}
           role == IF r.type = "user_message" THEN "user" ELSE "assistant"
<1>1. CASE quiet
  <2>1. Silent(r)
    BY <1>1 DEF Silent, CodexEvents
  <2>2. CodexEvent(i, r) = LeftOut("quiet")
    BY <1>1 DEF CodexEvent
  <2>3. QED
    BY <2>1, <2>2, LeftOutIs
<1>2. CASE ~quiet
  <2>1. CodexEvent(i, r) = Shown(i, role, TextBlocks(r.text), Time(i, r, i - 1))
    BY <1>2 DEF CodexEvent
  <2>2. role # "none" /\ i - 1 \in Int
    OBVIOUS
  <2> HIDE DEF role
  <2>3. QED
    BY <2>1, <2>2, TimedIs
<1>3. QED
  BY <1>1, <1>2

LEMMA CodexItemIs ==
  ASSUME tool = "codex-cli", NEW i \in Int, NEW r, r.type \in CodexItems
  PROVE  OneOf(CodexItem(i, r), i, r)
<1> DEFINE call == r.body /\ r.type = "function_call"
           result == r.body /\ r.type = "function_call_output" /\ r.text # <<>>
<1>1. i - 1 \in Int /\ "tool" # "none"
  OBVIOUS
<1>2. CASE call
  <2>1. CodexItem(i, r) = Shown(i, "tool", <<Block("call", 1)>>, Time(i, r, i - 1))
    BY <1>2 DEF CodexItem
  <2>2. QED
    BY <1>1, <2>1, TimedIs
<1>3. CASE result
  <2>1. CodexItem(i, r) = Shown(i, "tool", <<Block("result", 1)>>, Time(i, r, i - 1))
    BY <1>3 DEF CodexItem
  <2>2. QED
    BY <1>1, <2>1, TimedIs
<1>4. CASE ~call /\ ~result
  <2>1. Silent(r)
    BY <1>4 DEF Silent, CodexItems
  <2>2. CodexItem(i, r) = LeftOut("quiet")
    BY <1>4 DEF CodexItem
  <2>3. QED
    BY <2>1, <2>2, LeftOutIs
<1>5. QED
  BY <1>2, <1>3, <1>4

LEMMA CodexOutcomeIs ==
  ASSUME tool = "codex-cli", NEW i \in Int, NEW r PROVE OneOf(CodexOutcome(i, r), i, r)
<1> DEFINE old == {"user", "assistant", "tool_use"}
<1>1. /\ DOMAIN CodexOldTypes = old
      /\ \A type \in old : CodexOldTypes[type] \in {"user", "assistant", "tool"}
  BY DEF CodexOldTypes
<1>2. /\ old \cap CodexEvents = {} /\ old \cap CodexItems = {} /\ CodexEvents \cap CodexItems = {}
      /\ "error" \notin old \cup CodexEvents \cup CodexItems
  BY DEF CodexEvents, CodexItems
<1>3. i - 1 \in Int
  OBVIOUS
<1>4. CASE r.type \in old
  <2> DEFINE role == CodexOldTypes[r.type]
  <2>1. CodexOutcome(i, r) = ShownUnlessEmpty(i, role, CodexText(r, role), Time(i, r, i - 1))
    BY <1>1, <1>2, <1>4 DEF CodexOutcome
  <2>2. role # "none"
    BY <1>1, <1>4
  <2> HIDE DEF role
  <2>3. QED
    BY <1>3, <2>1, <2>2, TimedIs
<1>5. CASE r.type = "error"
  <2>1. CodexOutcome(i, r) =
          IF r.body THEN Shown(i, "system", <<Block("error", 1)>>, Time(i, r, i - 1))
          ELSE LeftOut("quiet")
    BY <1>1, <1>2, <1>5 DEF CodexOutcome
  <2>2. ~r.body => Silent(r)
    BY DEF Silent
  <2>3. QED
    BY <1>3, <2>1, <2>2, TimedIs, LeftOutIs
<1>6. CASE r.type \in CodexEvents
  BY <1>1, <1>2, <1>6, CodexEventIs DEF CodexOutcome
<1>7. CASE r.type \in CodexItems
  BY <1>1, <1>2, <1>7, CodexItemIs DEF CodexOutcome
<1>8. CASE r.type \notin old \cup {"error"} \cup CodexEvents \cup CodexItems
  <2>1. CodexOutcome(i, r) = LeftOut("skipped")
    BY <1>1, <1>8 DEF CodexOutcome
  <2>2. QED
    BY <2>1, LeftOutIs
<1>9. QED
  BY <1>4, <1>5, <1>6, <1>7, <1>8

LEMMA CopilotOutcomeIs ==
  ASSUME tool = "copilot-cli", NEW i \in Int, NEW r PROVE OneOf(CopilotOutcome(i, r), i, r)
<1> DEFINE spoken == {"user", "user_other", "assistant", "tool_invoke", "tool_other"}
<1>1. /\ DOMAIN CopilotRole = spoken
      /\ \A type \in spoken : CopilotRole[type] \in {"user", "assistant", "tool"}
  BY DEF CopilotRole
<1>2. i - 1 \in Int
  OBVIOUS
<1>3. CASE r.type = "tool_start"
  <2>1. CopilotOutcome(i, r) = CopilotToolStart(i, r)
    BY <1>1, <1>3 DEF CopilotOutcome
  <2>2. ~r.body => Silent(r)
    BY DEF Silent
  <2>3. QED
    BY <1>2, <2>1, <2>2, TimedIs, LeftOutIs DEF CopilotToolStart
<1>4. CASE r.type \in {"tool_complete", "tool_result"}
  <2>1. CopilotOutcome(i, r) = CopilotToolResult(i, r)
    BY <1>1, <1>4 DEF CopilotOutcome
  <2>2. ~(r.body /\ r.text # <<>>) => Silent(r)
    BY DEF Silent
  <2>3. QED
    BY <1>2, <2>1, <2>2, TimedIs, LeftOutIs DEF CopilotToolResult
<1>5. CASE r.type \in spoken
  <2> DEFINE role == CopilotRole[r.type]
  <2>1. CopilotOutcome(i, r) = ShownUnlessEmpty(i, role, CopilotBlocks(r), Time(i, r, i - 1))
    BY <1>1, <1>5 DEF CopilotOutcome
  <2>2. role # "none"
    BY <1>1, <1>5
  <2> HIDE DEF role
  <2>3. QED
    BY <1>2, <2>1, <2>2, TimedIs
<1>6. CASE r.type \notin {"tool_start", "tool_complete", "tool_result"} \cup spoken
  <2>1. CopilotOutcome(i, r) = LeftOut("skipped")
    BY <1>1, <1>6 DEF CopilotOutcome
  <2>2. QED
    BY <2>1, LeftOutIs
<1>7. QED
  BY <1>3, <1>4, <1>5, <1>6

LEMMA ContinueOutcomeIs ==
  ASSUME NEW i \in Int, NEW r, NEW start \in Int PROVE OneOf(ContinueOutcome(i, r, start), i, r)
<1>1. CASE r.type \notin {"user", "assistant", "system"}
  BY <1>1, LeftOutIs DEF ContinueOutcome
<1>2. CASE r.type \in {"user", "assistant", "system"}
  <2>1. start + i - 1 \in Int /\ r.type # "none"
    BY <1>2
  <2>2. QED
    BY <1>2, <2>1, ShownIs DEF ContinueOutcome
<1>3. QED
  BY <1>1, <1>2

LEMMA ClineOutcomeIs ==
  ASSUME NEW i \in Int, NEW r, NEW start \in Int PROVE OneOf(ClineOutcome(i, r, start), i, r)
<1>1. CASE r.type \notin {"user", "assistant"}
  BY <1>1, LeftOutIs DEF ClineOutcome
<1>2. CASE r.type \in {"user", "assistant"}
  <2>1. start + i - 1 \in Int /\ r.type # "none"
    BY <1>2
  <2>2. QED
    BY <1>2, <2>1, ShownIs DEF ClineOutcome
<1>3. QED
  BY <1>1, <1>2

LEMMA GeminiOutcomeIs ==
  ASSUME NEW i \in Int, NEW r PROVE OneOf(GeminiOutcome(i, r), i, r)
<1>1. CASE r.type \notin DOMAIN GeminiRole
  BY <1>1, LeftOutIs DEF GeminiOutcome
<1>2. CASE r.type \in DOMAIN GeminiRole
  <2>1. GeminiRole[r.type] # "none" /\ i - 1 \in Int
    BY <1>2 DEF GeminiRole
  <2>2. QED
    BY <1>2, <2>1, TimedIs DEF GeminiOutcome
<1>3. QED
  BY <1>1, <1>2

\* A turn that is shown and counted as empty too is shown all the same.
LEMMA CountedTooIs ==
  ASSUME NEW i, NEW role, role # "none", NEW blocks, NEW at \in Int, NEW why
  PROVE  Taken([Shown(i, role, blocks, at) EXCEPT !.why = why], i)
<1>1. [Shown(i, role, blocks, at) EXCEPT !.why = why] = [turn |-> Turn(i, role, blocks, at), why |-> why]
  BY DEF Shown
<1>2. Taken([turn |-> Turn(i, role, blocks, at), why |-> why], i)
  BY DEF Taken, Turn
<1>3. QED
  BY <1>1, <1>2

LEMMA ZedOutcomeIs ==
  ASSUME NEW i \in Int, NEW r PROVE OneOf(ZedOutcome(i, r), i, r)
<1> DEFINE role == ZedRole[r.type]
           blocks == TextBlocks(r.text)
           at == Time(i, r, i - 1)
           why == IF blocks = <<>> THEN "empty" ELSE "none"
<1>1. CASE r.type \notin DOMAIN ZedRole
  BY <1>1, LeftOutIs DEF ZedOutcome
<1>2. CASE r.type \in DOMAIN ZedRole
  <2>1. role # "none" /\ at \in Int
    BY <1>2, TimeIs DEF ZedRole
  <2>2. ZedOutcome(i, r) = [Shown(i, role, blocks, at) EXCEPT !.why = why]
    BY <1>2 DEF ZedOutcome
  <2> HIDE DEF role, blocks, at, why
  <2>3. Taken([Shown(i, role, blocks, at) EXCEPT !.why = why], i)
    BY <2>1, CountedTooIs
  <2>4. QED
    BY <2>2, <2>3 DEF OneOf
<1>3. QED
  BY <1>1, <1>2

\* What the reader of the tool makes of record i, and of all of them, in a
\* session that started at start.
OutcomeOf(t, i, r, start) ==
  CASE t = "claude-code" -> ClaudeOutcome(i, r)
    [] t = "codex-cli" -> CodexOutcome(i, r)
    [] t = "copilot-cli" -> CopilotOutcome(i, r)
    [] t = "continue-dev" -> ContinueOutcome(i, r, start)
    [] t = "gemini-cli" -> GeminiOutcome(i, r)
    [] t = "cline" -> ClineOutcome(i, r, start)
    [] t = "zed-ai" -> ZedOutcome(i, r)
OutcomesOf(t, recs, start) == [i \in DOMAIN recs |-> OutcomeOf(t, i, recs[i], start)]

LEMMA OutcomeOfIs ==
  ASSUME tool \in LineTools \cup ArrayTools, NEW i \in Int, NEW r, NEW start \in Int
  PROVE  OneOf(OutcomeOf(tool, i, r, start), i, r)
BY ClaudeOutcomeIs, CodexOutcomeIs, CopilotOutcomeIs, ContinueOutcomeIs, GeminiOutcomeIs,
   ClineOutcomeIs, ZedOutcomeIs DEF OutcomeOf, LineTools, ArrayTools

\* Nothing but the time of a turn follows from the start of its session.
SameTurn(s, t) == s.rec = t.rec /\ s.role = t.role /\ s.blocks = t.blocks
SameOutcome(o, p) == SameTurn(o.turn, p.turn) /\ (o.turn = NoTurn <=> p.turn = NoTurn)

LEMMA ShownAlike ==
  ASSUME NEW i, NEW role, role # "none", NEW blocks, NEW a, NEW b
  PROVE  LET o == ShownUnlessEmpty(i, role, blocks, a)
             p == ShownUnlessEmpty(i, role, blocks, b)
         IN  SameOutcome(o, p) /\ o.why = p.why
<1>1. CASE blocks = <<>>
  BY <1>1 DEF ShownUnlessEmpty, LeftOut, SameOutcome, SameTurn
<1>2. CASE blocks # <<>>
  <2>1. \A at : /\ Shown(i, role, blocks, at).turn = Turn(i, role, blocks, at)
                /\ Shown(i, role, blocks, at).why = "none"
    BY DEF Shown
  <2>2. \A at : /\ Turn(i, role, blocks, at).rec = i /\ Turn(i, role, blocks, at).role = role
                /\ Turn(i, role, blocks, at).blocks = blocks
    BY DEF Turn
  <2>3. \A at : Turn(i, role, blocks, at) # NoTurn
    BY <2>2, NoTurnIs
  <2>4. \A at : ShownUnlessEmpty(i, role, blocks, at) = Shown(i, role, blocks, at)
    BY <1>2 DEF ShownUnlessEmpty
  <2>5. QED
    BY <2>1, <2>2, <2>3, <2>4 DEF SameOutcome, SameTurn
<1>3. QED
  BY <1>1, <1>2

LEMMA OutcomesAlike ==
  ASSUME NEW i, NEW r, NEW a, NEW b, tool \in LineTools \cup ArrayTools
  PROVE  LET o == OutcomeOf(tool, i, r, a)
             p == OutcomeOf(tool, i, r, b)
         IN  SameOutcome(o, p) /\ o.why = p.why
<1> DEFINE o == OutcomeOf(tool, i, r, a)
           p == OutcomeOf(tool, i, r, b)
<1>1. CASE tool = "continue-dev"
  <2>1. o = ContinueOutcome(i, r, a) /\ p = ContinueOutcome(i, r, b)
    BY <1>1 DEF OutcomeOf
  <2>2. CASE r.type \notin {"user", "assistant", "system"}
    BY <2>1, <2>2 DEF ContinueOutcome, SameOutcome, SameTurn
  <2>3. CASE r.type \in {"user", "assistant", "system"}
    <3>1. r.type # "none"
      BY <2>3
    <3>2. /\ o = ShownUnlessEmpty(i, r.type, AnthropicBlocks(r), a + i - 1)
          /\ p = ShownUnlessEmpty(i, r.type, AnthropicBlocks(r), b + i - 1)
      BY <2>1, <2>3 DEF ContinueOutcome
    <3>3. QED
      BY <3>1, <3>2, ShownAlike
  <2>4. QED
    BY <2>2, <2>3
<1>2. CASE tool = "cline"
  <2>1. o = ClineOutcome(i, r, a) /\ p = ClineOutcome(i, r, b)
    BY <1>2 DEF OutcomeOf
  <2>2. CASE r.type \notin {"user", "assistant"}
    BY <2>1, <2>2 DEF ClineOutcome, SameOutcome, SameTurn
  <2>3. CASE r.type \in {"user", "assistant"}
    <3>1. r.type # "none"
      BY <2>3
    <3>2. /\ o = ShownUnlessEmpty(i, r.type, AnthropicBlocks(r), a + i - 1)
          /\ p = ShownUnlessEmpty(i, r.type, AnthropicBlocks(r), b + i - 1)
      BY <2>1, <2>3 DEF ClineOutcome
    <3>3. QED
      BY <3>1, <3>2, ShownAlike
  <2>4. QED
    BY <2>2, <2>3
<1>3. CASE tool \notin {"continue-dev", "cline"}
  <2>1. o = p
    BY <1>3 DEF OutcomeOf, LineTools, ArrayTools
  <2> HIDE DEF o, p
  <2>2. SameOutcome(o, p) /\ o.why = p.why
    BY <2>1 DEF SameOutcome, SameTurn
  <2>3. QED
    BY <2>2 DEF o, p
<1>4. QED
  BY <1>1, <1>2, <1>3

LEMMA LoadsVisit ==
  ASSUME NEW d, NEW ref, NEW start
  PROVE  LET load == LoadSession(d, ref, start)
             outs == OutcomesOf(tool, d.recs, start)
         IN  /\ tool \in LineTools =>
                  load = VisitLines(d, outs) \/ (tool = "copilot-cli" /\ d.recs = <<>>)
             /\ tool \in ArrayTools => load = VisitArray(d, outs)
<1>1. CASE tool = "claude-code"
  BY <1>1 DEF LoadSession, ClaudeLoad, OutcomesOf, OutcomeOf, ArrayTools
<1>2. CASE tool = "codex-cli"
  BY <1>2 DEF LoadSession, CodexLoad, OutcomesOf, OutcomeOf, ArrayTools
<1>3. CASE tool = "copilot-cli"
  BY <1>3 DEF LoadSession, CopilotLoad, CopilotEvents, OutcomesOf, OutcomeOf, ArrayTools
<1>4. CASE tool = "continue-dev"
  BY <1>4 DEF LoadSession, ContinueLoad, OutcomesOf, OutcomeOf, ArrayTools
<1>5. CASE tool = "gemini-cli"
  BY <1>5 DEF LoadSession, GeminiLoad, OutcomesOf, OutcomeOf, LineTools
<1>6. CASE tool = "cline"
  BY <1>6 DEF LoadSession, ClineLoad, OutcomesOf, OutcomeOf, LineTools
<1>7. CASE tool = "zed-ai"
  BY <1>7 DEF LoadSession, ZedLoad, OutcomesOf, OutcomeOf, LineTools
<1>8. QED
  BY <1>1, <1>2, <1>3, <1>4, <1>5, <1>6, <1>7 DEF LineTools, ArrayTools

\* Without events Copilot's checkpoint, which is of no record, is the only turn.
LEMMA CheckpointLoaded ==
  ASSUME NEW d, d.recs = <<>> PROVE Loaded(CopilotLoad(d), d.recs)
<1> DEFINE turns == IF "checkpoint" \in d.meta THEN <<Checkpoint>> ELSE <<>>
<1>1. CopilotLoad(d) = Unstated(turns)
  BY DEF CopilotLoad
<1>2. /\ turns \in Seq({Checkpoint}) /\ Len(turns) \in {0, 1}
      /\ \A j \in 1 .. Len(turns) : turns[j] = Checkpoint
  <2> DEFINE Good(s) ==
        /\ s \in Seq({Checkpoint}) /\ Len(s) \in {0, 1}
        /\ \A j \in 1 .. Len(s) : s[j] = Checkpoint
  <2>1. Good(<<>>)
    BY EmptySeq
  <2>2. \A c : <<c>> \in Seq({c}) /\ Len(<<c>>) = 1 /\ <<c>>[1] = c
    OBVIOUS
  <2>3. Good(<<Checkpoint>>)
    BY <2>2
  <2> HIDE DEF Good
  <2>4. Good(turns)
    BY <2>1, <2>3, Zenon
  <2>5. QED
    BY <2>4 DEF Good
<1>3. Checkpoint.rec = 0 /\ Checkpoint.role # "none"
  BY DEF Checkpoint
<1>4. Len(d.recs) = 0
  OBVIOUS
<1>5. Tuple(turns, Len(turns))
  <2> HIDE DEF turns
  <2>1. turns \in [1 .. Len(turns) -> {Checkpoint}] /\ Len(turns) \in Nat
    BY <1>2, LenProperties
  <2>2. QED
    BY <2>1, Zenon DEF Tuple
<1>6. \A j, l \in 1 .. Len(turns) : j = l
  BY <1>2
<1> HIDE DEF turns
<1>7. Loaded(Unstated(turns), d.recs)
  BY <1>2, <1>3, <1>4, <1>5, <1>6 DEF Loaded, Unstated, NoStats
<1>8. QED
  BY <1>1, <1>7

LEMMA VisitedLoaded ==
  ASSUME NEW d \in Disks, tool \in LineTools \cup ArrayTools, NEW ref, NEW start \in Int
  PROVE  Loaded(LoadSession(d, ref, start), d.recs)
<1> DEFINE outs == OutcomesOf(tool, d.recs, start)
<1>1. Len(d.recs) \in Nat /\ DOMAIN d.recs = 1 .. Len(d.recs)
  BY DEF Disks
<1>2. Rule(outs, d)
  BY <1>1, OutcomeOfIs DEF Rule, OutcomesOf
<1> HIDE DEF outs
<1>3. Loaded(VisitLines(d, outs), d.recs) /\ Loaded(VisitArray(d, outs), d.recs)
  BY <1>2, RuleLoads
<1>4. CASE tool = "copilot-cli" /\ d.recs = <<>>
  BY <1>4, CheckpointLoaded DEF LoadSession
<1>5. QED
  BY <1>3, <1>4, LoadsVisit DEF outs

\* The start of a session is a time.
LEMMA StartIs ==
  ASSUME NEW d \in Disks
  PROVE  StartedAt(d) \in Int
<1>1. Len(d.recs) \in Nat
  BY DEF Disks
<1>2. QED
  BY <1>1 DEF StartedAt, ContinueStart, Modified, ClineStart, Start

(***************************************************************************)
(* Sorting.  Turns of different records are strictly ordered, so that each *)
(* has a rank of its own, and each rank is some turn's.                    *)
(***************************************************************************)
Sortable(turns, n) ==
  /\ Tuple(turns, n)
  /\ \A j \in 1 .. n : turns[j].at \in Int /\ turns[j].rec \in Int
  /\ \A j, l \in 1 .. n : turns[j].rec = turns[l].rec => j = l

Earlier(turns, k) == {j \in DOMAIN turns : Before(turns[j], turns[k])}

LEMMA RanksIncrease ==
  ASSUME NEW turns, NEW n, Sortable(turns, n), NEW k \in 1 .. n, NEW l \in 1 .. n,
         Before(turns[k], turns[l])
  PROVE  Cardinality(Earlier(turns, k)) < Cardinality(Earlier(turns, l))
<1>1. n \in Nat /\ DOMAIN turns = 1 .. n
  BY TupleIs DEF Sortable
<1>2. IsFiniteSet(1 .. n)
  BY <1>1, FS_Interval
<1>3. IsFiniteSet(Earlier(turns, l)) /\ Cardinality(Earlier(turns, l)) \in Nat
  <2>1. Earlier(turns, l) \in SUBSET (1 .. n)
    BY <1>1 DEF Earlier
  <2>2. QED
    BY <1>2, <2>1, FS_Subset, FS_CardinalityType
<1>4. Earlier(turns, k) \in SUBSET Earlier(turns, l)
  BY <1>1 DEF Earlier, Before, Sortable
<1>5. k \in Earlier(turns, l) /\ k \notin Earlier(turns, k)
  BY <1>1 DEF Earlier, Before, Sortable
<1>6. /\ Cardinality(Earlier(turns, k)) <= Cardinality(Earlier(turns, l))
      /\ Cardinality(Earlier(turns, l)) # Cardinality(Earlier(turns, k))
      /\ Cardinality(Earlier(turns, k)) \in Nat
  <2>1. IsFiniteSet(Earlier(turns, k))
    BY <1>3, <1>4, FS_Subset
  <2>2. QED
    BY <1>3, <1>4, <1>5, <2>1, FS_Subset, FS_CardinalityType
<1>7. QED
  BY <1>3, <1>6

LEMMA RanksAre ==
  ASSUME NEW turns, NEW n, Sortable(turns, n)
  PROVE  /\ \A k \in 1 .. n : Cardinality(Earlier(turns, k)) \in 0 .. n - 1
         /\ \A k, l \in 1 .. n :
              Cardinality(Earlier(turns, k)) = Cardinality(Earlier(turns, l)) => k = l
         /\ \A i \in 1 .. n : \E k \in 1 .. n : Cardinality(Earlier(turns, k)) = i - 1
<1>1. n \in Nat /\ DOMAIN turns = 1 .. n
  BY TupleIs DEF Sortable
<1>2. IsFiniteSet(1 .. n) /\ Cardinality(1 .. n) = n
  <2>1. 1 \in Int /\ n \in Int
    BY <1>1
  <2>2. IsFiniteSet(1 .. n) /\ Cardinality(1 .. n) = IF 1 > n THEN 0 ELSE n - 1 + 1
    BY <2>1, FS_Interval, Zenon
  <2>3. QED
    BY <1>1, <2>2
<1> DEFINE rank == [k \in 1 .. n |-> Cardinality(Earlier(turns, k)) + 1]
<1>3. ASSUME NEW k \in 1 .. n PROVE Cardinality(Earlier(turns, k)) \in 0 .. n - 1
  <2>1. Earlier(turns, k) \in SUBSET (1 .. n) /\ k \notin Earlier(turns, k)
    BY <1>1 DEF Earlier, Before, Sortable
  <2>2. IsFiniteSet(Earlier(turns, k)) /\ Cardinality(Earlier(turns, k)) \in Nat
    BY <1>2, <2>1, FS_Subset, FS_CardinalityType
  <2>3. Cardinality(Earlier(turns, k)) <= n /\ Cardinality(Earlier(turns, k)) # n
    BY <1>2, <2>1, FS_Subset
  <2>4. QED
    BY <1>1, <2>2, <2>3
<1>4. ASSUME NEW k \in 1 .. n, NEW l \in 1 .. n,
             Cardinality(Earlier(turns, k)) = Cardinality(Earlier(turns, l))
      PROVE  k = l
  <2>1. k # l => Before(turns[k], turns[l]) \/ Before(turns[l], turns[k])
    BY DEF Before, Sortable
  <2>2. ~Before(turns[k], turns[l]) /\ ~Before(turns[l], turns[k])
    BY <1>3, <1>4, RanksIncrease
  <2>3. QED
    BY <2>1, <2>2
<1>5. rank \in [1 .. n -> 1 .. n]
  BY <1>1, <1>3
<1>6. \A k, l \in 1 .. n : rank[k] = rank[l] => k = l
  <2>1. \A k, l \in 1 .. n : rank[k] = rank[l]
          => Cardinality(Earlier(turns, k)) = Cardinality(Earlier(turns, l))
    BY <1>3
  <2>2. QED
    BY <1>4, <2>1
<1>7. \A i \in 1 .. n : \E k \in 1 .. n : rank[k] = i
  <2> HIDE DEF rank
  <2>1. rank \in Injection(1 .. n, 1 .. n)
    BY <1>5, <1>6, Fun_IsInj
  <2>2. rank \in Surjection(1 .. n, 1 .. n)
    BY <1>2, <2>1, FS_Injection
  <2>3. QED
    BY <2>2, Fun_SurjectionProperties
<1>8. ASSUME NEW i \in 1 .. n PROVE \E k \in 1 .. n : Cardinality(Earlier(turns, k)) = i - 1
  <2>1. PICK k \in 1 .. n : rank[k] = i
    BY <1>7
  <2>2. Cardinality(Earlier(turns, k)) + 1 = i /\ Cardinality(Earlier(turns, k)) \in Int
    BY <1>3, <2>1
  <2>3. QED
    BY <2>2
<1>9. QED
  BY <1>3, <1>4, <1>8

\* Sorting puts every turn at one place, and nothing else anywhere.
Rearranged(sorted, turns, n) ==
  /\ Tuple(sorted, n)
  /\ \A i \in 1 .. n : \E k \in 1 .. n : sorted[i] = turns[k]
  /\ \A k \in 1 .. n : \E i \in 1 .. n : sorted[i] = turns[k]
  /\ \A i, j \in 1 .. n : sorted[i].rec = sorted[j].rec => i = j

LEMMA SortedIs ==
  ASSUME NEW turns, NEW n, Sortable(turns, n)
  PROVE  Rearranged(Sorted(turns), turns, n)
<1> DEFINE Ranked(i) == CHOOSE k \in DOMAIN turns : Cardinality(Earlier(turns, k)) = i - 1
           sorted == [i \in DOMAIN turns |-> turns[Ranked(i)]]
<1>1. n \in Nat /\ DOMAIN turns = 1 .. n
  BY TupleIs DEF Sortable
<1>2. Sorted(turns) = sorted
  BY DEF Sorted, Earlier
<1>3. \A i \in 1 .. n : Ranked(i) \in 1 .. n /\ Cardinality(Earlier(turns, Ranked(i))) = i - 1
  BY <1>1, RanksAre
<1>4. \A i \in 1 .. n : sorted[i] = turns[Ranked(i)]
  BY <1>1
<1>5. Tuple(sorted, n)
  <2>1. sorted = [i \in 1 .. n |-> sorted[i]]
    BY <1>1
  <2> HIDE DEF sorted
  <2>2. QED
    BY <1>1, <2>1, MappedIs
<1> HIDE DEF Ranked, sorted
<1>6. ASSUME NEW k \in 1 .. n PROVE \E i \in 1 .. n : sorted[i] = turns[k]
  <2> DEFINE i == Cardinality(Earlier(turns, k)) + 1
  <2>1. i \in 1 .. n /\ i - 1 = Cardinality(Earlier(turns, k))
    <3>1. Cardinality(Earlier(turns, k)) \in 0 .. n - 1
      BY RanksAre
    <3>2. QED
      BY <1>1, <3>1
  <2> HIDE DEF i
  <2>2. Ranked(i) = k
    BY <1>3, <2>1, RanksAre
  <2>3. QED
    BY <1>4, <2>1, <2>2
<1>7. ASSUME NEW i \in 1 .. n, NEW j \in 1 .. n, sorted[i].rec = sorted[j].rec PROVE i = j
  <2>1. Ranked(i) = Ranked(j)
    BY <1>3, <1>4, <1>7 DEF Sortable
  <2>2. i - 1 = j - 1
    BY <1>3, <2>1
  <2>3. QED
    BY <2>2
<1>8. QED
  BY <1>2, <1>3, <1>4, <1>5, <1>6, <1>7 DEF Rearranged

LEMMA TurnedIsSortable ==
  ASSUME NEW turns, NEW outs, NEW n, NEW from, NEW recs, Len(recs) \in Nat,
         Outcomes(outs, n, from, recs), OneToOne(from, n), Turned(turns, outs, n, from)
  PROVE  Sortable(turns, Len(turns))
<1>1. \A j, l \in 1 .. Len(turns) : turns[j].rec = turns[l].rec => j = l
  BY TurnedApart
<1>2. \A j \in 1 .. Len(turns) : \E k \in 1 .. n : turns[j].rec = from[k]
  BY DEF Turned
<1>3. \A j \in 1 .. Len(turns) : turns[j].rec \in Int
  BY <1>2 DEF Outcomes
<1>4. Tuple(turns, Len(turns)) /\ \A j \in 1 .. Len(turns) : turns[j].at \in Int
  BY DEF Turned
<1>5. QED
  BY <1>1, <1>3, <1>4 DEF Sortable

\* A load whose turns are replaced.
LEMMA WithTurns ==
  ASSUME NEW outs, NEW turns
  PROVE  /\ [Gather(outs) EXCEPT !.turns = turns].ok
         /\ [Gather(outs) EXCEPT !.turns = turns].turns = turns
         /\ [Gather(outs) EXCEPT !.turns = turns].stats = Gather(outs).stats
BY DEF Gather

LEMMA OpenCodeOutcomeIs ==
  ASSUME NEW i \in Int, NEW r, NEW torn
  PROVE  OneOf(OpenCodeOutcome(i, r, torn), i, r)
<1> DEFINE said == r.type \in {"user", "assistant"}
<1>1. CASE r = Bad \/ torn
  <2>1. OpenCodeOutcome(i, r, torn) = LeftOut("error")
    BY <1>1 DEF OpenCodeOutcome
  <2>2. QED
    BY <2>1, LeftOutIs
<1>2. CASE r # Bad /\ ~torn /\ ~said
  <2>1. OpenCodeOutcome(i, r, torn) = LeftOut("skipped")
    BY <1>2 DEF OpenCodeOutcome
  <2>2. QED
    BY <2>1, LeftOutIs
<1>3. CASE r # Bad /\ ~torn /\ said
  <2>1. OpenCodeOutcome(i, r, torn)
          = ShownUnlessEmpty(i, r.type, OpenCodeBlocks(r), Time(i, r, Start + i))
    BY <1>3 DEF OpenCodeOutcome
  <2>2. Start + i \in Int /\ r.type # "none"
    BY <1>3 DEF Start
  <2>3. QED
    BY <2>1, <2>2, TimedIs
<1>4. QED
  BY <1>1, <1>2, <1>3

LEMMA OpenCodeLoaded ==
  ASSUME NEW d \in Disks PROVE Loaded(OpenCodeLoad(d), d.recs)
<1> DEFINE n == Len(d.recs)
           outs == [i \in DOMAIN d.recs |->
                     OpenCodeOutcome(i, d.recs[i], i = Len(d.recs) /\ d.half # "no")]
           from == [k \in 1 .. n |-> k]
           found == Gather(outs)
           sorted == Sorted(found.turns)
           load == [found EXCEPT !.turns = sorted]
<1>1. n \in Nat /\ DOMAIN d.recs = 1 .. n
  BY DEF Disks
<1>2. Rule(outs, d)
  BY <1>1, OpenCodeOutcomeIs DEF Rule
<1>3. OpenCodeLoad(d) = load
  BY DEF OpenCodeLoad
<1> HIDE DEF outs
<1>4. Tuple(outs, n)
  BY <1>1, <1>2, MappedIs DEF Rule
<1>5. Loaded(found, d.recs)
  BY <1>1, <1>2, <1>4, GatherAll DEF Rule
<1>6. Outcomes(outs, n, from, d.recs) /\ OneToOne(from, n)
  BY <1>1, <1>2, <1>4 DEF Outcomes, Rule, OneOf, OneToOne
<1> HIDE DEF from
<1>7. Sortable(found.turns, Len(found.turns))
  <2>1. Turned(found.turns, outs, n, from)
    BY <1>6, GatherIs
  <2>2. QED
    BY <1>1, <1>6, <2>1, TurnedIsSortable
<1>8. load.ok /\ load.turns = sorted /\ load.stats = found.stats
  BY WithTurns
<1>9. found.ok
  BY DEF Gather
<1> HIDE DEF found, load
<1>10. Rearranged(sorted, found.turns, Len(found.turns))
  BY <1>7, SortedIs
<1> HIDE DEF sorted
<1>11. Len(sorted) = Len(found.turns) /\ Tuple(sorted, Len(sorted))
  BY <1>10, TupleIs DEF Rearranged
<1>12. \A j \in 1 .. Len(sorted) : sorted[j].rec \in 0 .. n /\ sorted[j].role # "none"
  <2>1. \A k \in 1 .. Len(found.turns) :
          found.turns[k].rec \in 0 .. n /\ found.turns[k].role # "none"
    BY <1>5 DEF Loaded
  <2>2. \A j \in 1 .. Len(sorted) : \E k \in 1 .. Len(found.turns) : sorted[j] = found.turns[k]
    BY <1>10, <1>11 DEF Rearranged
  <2>3. QED
    BY <2>1, <2>2
<1>13. \A j, l \in 1 .. Len(sorted) : sorted[j].rec = sorted[l].rec => j = l
  BY <1>10, <1>11 DEF Rearranged
<1>14. \A i \in 1 .. n :
         \/ \E j \in 1 .. Len(sorted) : sorted[j].rec = i
         \/ HasWarnings(load.stats)
         \/ Silent(d.recs[i]) \/ Beyond(d.recs, i)
  <2>1. \A i \in 1 .. n :
          \/ \E j \in 1 .. Len(found.turns) : found.turns[j].rec = i
          \/ HasWarnings(load.stats)
          \/ Silent(d.recs[i]) \/ Beyond(d.recs, i)
    BY <1>5, <1>8, <1>9 DEF Loaded
  <2>2. \A j \in 1 .. Len(found.turns) : \E k \in 1 .. Len(sorted) : sorted[k] = found.turns[j]
    BY <1>10, <1>11 DEF Rearranged
  <2>3. QED
    BY <2>1, <2>2, SMTT(30)
<1>15. load.stats.errors + load.stats.skipped + load.stats.empty <= load.stats.seen
  BY <1>5, <1>8 DEF Loaded
<1> HIDE DEF n
<1>16. Loaded(load, d.recs)
  BY <1>8, <1>11, <1>12, <1>13, <1>14, <1>15 DEF Loaded, n
<1>17. QED
  BY <1>3, <1>16

(***************************************************************************)
(* Cursor.  The listed bubbles and the orphans are different records, and  *)
(* together all that the limits let through.                               *)
(***************************************************************************)
Positions(p, n, I) ==
  /\ Tuple(p, Len(p))
  /\ \A j \in 1 .. Len(p) : p[j] \in (1 .. n) \cap I
  /\ \A j, l \in 1 .. Len(p) : p[j] = p[l] => j = l
  /\ \A i \in (1 .. n) \cap I : \E j \in 1 .. Len(p) : p[j] = i

LEMMA PositionsAre ==
  ASSUME NEW n \in Nat, NEW I
  PROVE  Positions(Picked([k \in 1 .. n |-> k], I), n, I)
<1> DEFINE all == [k \in 1 .. n |-> k]
           p == Picked(all, I)
<1>1. all \in Seq(1 .. n) /\ Len(all) = n /\ \A k \in 1 .. n : all[k] = k
  <2>1. all \in [1 .. n -> 1 .. n]
    OBVIOUS
  <2>2. QED
    BY <2>1
<1> HIDE DEF all
<1>2. InPlace(p, all, I, n)
  BY <1>1, PickedInPlace
<1>3. p \in Seq(1 .. n)
  BY <1>1, PickedIs DEF Picks
<1> HIDE DEF p
<1>4. Tuple(p, Len(p))
  BY <1>3, LenProperties DEF Tuple
<1>5. \A j \in 1 .. Len(p) : \E i \in (1 .. n) \cap I : Place(I, i) = j /\ p[j] = i
  BY <1>1, <1>2 DEF InPlace
<1>6. \A i \in (1 .. n) \cap I : \E j \in 1 .. Len(p) : p[j] = i
  BY <1>1, <1>2 DEF InPlace
<1>7. Positions(p, n, I)
  BY <1>4, <1>5, <1>6 DEF Positions
<1>8. QED
  BY <1>7 DEF p, all

\* j is s and then t.
Joined(j, s, n, t, m) ==
  /\ Tuple(j, n + m)
  /\ \A k \in 1 .. n : j[k] = s[k]
  /\ \A k \in 1 .. m : j[n + k] = t[k]

LEMMA JoinedIs ==
  ASSUME NEW s, NEW n, Tuple(s, n), NEW t, NEW m, Tuple(t, m)
  PROVE  Joined(s \o t, s, n, t, m)
<1>1. PICK S : s \in [1 .. n -> S]
  BY DEF Tuple
<1>2. PICK T : t \in [1 .. m -> T]
  BY DEF Tuple
<1>3. n \in Nat /\ m \in Nat
  BY DEF Tuple
<1>4. s \in Seq(S \cup T) /\ Len(s) = n
  <2>1. s \in [1 .. n -> S \cup T]
    BY <1>1
  <2>2. QED
    BY <1>3, <2>1
<1>5. t \in Seq(S \cup T) /\ Len(t) = m
  <2>1. t \in [1 .. m -> S \cup T]
    BY <1>2
  <2>2. QED
    BY <1>3, <2>1
<1>6. s \o t \in Seq(S \cup T) /\ Len(s \o t) = n + m
  BY <1>4, <1>5
<1>7. Tuple(s \o t, n + m)
  <2>1. s \o t \in [1 .. n + m -> S \cup T]
    BY <1>6, LenProperties
  <2>2. n + m \in Nat
    BY <1>3
  <2>3. QED
    BY <2>1, <2>2, Zenon DEF Tuple
<1>8. QED
  BY <1>3, <1>4, <1>5, <1>7, ConcatProperties DEF Joined

LEMMA BubbleIs ==
  ASSUME NEW i \in Int, NEW r, NEW inList, NEW idx \in Int
  PROVE  OneOf(Bubble(i, r, inList, idx), i, r)
<1> DEFINE type == IF r.type = "unsaid" /\ inList THEN "assistant" ELSE r.type
           blocks == CursorBlocks(r)
           at == Time(i, r, idx)
           why == IF blocks = <<>> THEN "empty" ELSE "none"
<1>1. DOMAIN CursorRole = {"user", "assistant"}
  BY DEF CursorRole
<1>2. at \in Int
  BY TimeIs
<1>3. CASE r = Bad
  <2>1. Bubble(i, r, inList, idx) = LeftOut("error")
    BY <1>3 DEF Bubble
  <2>2. QED
    BY <2>1, LeftOutIs
<1>4. CASE r # Bad /\ type \notin DOMAIN CursorRole
  <2>1. Bubble(i, r, inList, idx) = LeftOut("skipped")
    BY <1>4 DEF Bubble
  <2>2. QED
    BY <2>1, LeftOutIs
<1>5. CASE r # Bad /\ type \in DOMAIN CursorRole
  <2>1. Bubble(i, r, inList, idx) = [Shown(i, type, blocks, at) EXCEPT !.why = why]
    BY <1>5 DEF Bubble
  <2>2. type # "none"
    BY <1>1, <1>5
  <2> HIDE DEF type, blocks, at, why
  <2>3. Taken([Shown(i, type, blocks, at) EXCEPT !.why = why], i)
    BY <1>2, <2>2, CountedTooIs
  <2>4. QED
    BY <2>1, <2>3 DEF OneOf
<1>6. QED
  BY <1>3, <1>4, <1>5

\* Outcomes of the records that a sequence names.
LEMMA NamedOutcomes ==
  ASSUME NEW recs, Len(recs) \in Nat, NEW from, NEW n \in Nat, from \in [1 .. n -> 1 .. Len(recs)],
         NEW outs, outs = [k \in 1 .. n |-> outs[k]],
         \A k \in 1 .. n : OneOf(outs[k], from[k], recs[from[k]])
  PROVE  Outcomes(outs, n, from, recs)
BY MappedIs DEF Outcomes, OneOf

\* The bubbles read at their places, and the places that name one.
Seen(d) == {d.head[k] : k \in Named(d)}
NamedAt(d, i) == {k \in DOMAIN d.head : d.head[k] = i}

\* The outcomes of the listed bubbles: the k-th is of the bubble that the place
\* at[k] names.
ListedBy(d, n, from, at) ==
  /\ Outcomes(CursorListed(d), n, from, d.recs)
  /\ at \in [1 .. n -> DOMAIN d.head] /\ OneToOne(at, n)
  /\ \A k \in 1 .. n : from[k] = d.head[at[k]] /\ from[k] \in Seen(d)
  /\ \A i \in (1 .. Len(d.recs)) \cap Seen(d) : \E k \in 1 .. n : from[k] = i

LEMMA ListedAre ==
  ASSUME NEW d \in Disks
  PROVE  \E n, from, at : ListedBy(d, n, from, at)
<1> DEFINE m == Len(d.head)
           I == Named(d)
           places == Picked([k \in 1 .. m |-> k], I)
           n == Len(places)
           from == [k \in 1 .. n |-> d.head[places[k]]]
           outs == [k \in 1 .. n |-> Bubble(d.head[places[k]], d.recs[d.head[places[k]]], TRUE, places[k] - 1)]
<1>1. /\ m \in Nat /\ DOMAIN d.head = 1 .. m
      /\ Len(d.recs) \in Nat /\ DOMAIN d.recs = 1 .. Len(d.recs)
  BY DEF Disks
<1>2. \A k \in I : k \in 1 .. m /\ d.head[k] \in 1 .. Len(d.recs)
  BY <1>1 DEF Named, Sized
<1>3. Positions(places, m, I)
  BY <1>1, PositionsAre
<1>4. CursorListed(d) = [k \in DOMAIN places |-> outs[k]] /\ n \in Nat /\ DOMAIN places = 1 .. n
  <2>1. n \in Nat /\ DOMAIN places = 1 .. n
    BY <1>3, TupleIs DEF Positions
  <2>2. QED
    BY <1>1, <2>1 DEF CursorListed
<1> HIDE DEF places, I, m
<1>5. \A k \in 1 .. n : /\ places[k] \in 1 .. m /\ places[k] \in I
                        /\ d.head[places[k]] \in 1 .. Len(d.recs)
                        /\ d.head[places[k]] \in Seen(d)
  BY <1>2, <1>3 DEF Positions, Seen, I
<1>6. from \in [1 .. n -> 1 .. Len(d.recs)] /\ \A k \in 1 .. n : from[k] = d.head[places[k]]
  BY <1>5
<1>7. places \in [1 .. n -> DOMAIN d.head] /\ OneToOne(places, n)
  <2>1. places = [k \in 1 .. n |-> places[k]]
    BY <1>3, <1>4 DEF Positions, Tuple
  <2>2. places \in [1 .. n -> 1 .. m]
    BY <1>5, <2>1
  <2>3. QED
    BY <1>1, <1>3, <2>2 DEF Positions, OneToOne, m
<1>8. ASSUME NEW k \in 1 .. n PROVE OneOf(outs[k], from[k], d.recs[from[k]])
  <2>1. from[k] \in Int /\ places[k] - 1 \in Int
    BY <1>5, <1>6
  <2>2. outs[k] = Bubble(from[k], d.recs[from[k]], TRUE, places[k] - 1)
    BY <1>6
  <2>3. QED
    BY <2>1, <2>2, BubbleIs
<1>9. outs = [k \in 1 .. n |-> outs[k]] /\ CursorListed(d) = outs
  BY <1>4
<1>10. \A i \in (1 .. Len(d.recs)) \cap Seen(d) : \E k \in 1 .. n : from[k] = i
  <2> TAKE i \in (1 .. Len(d.recs)) \cap Seen(d)
  <2>1. PICK j \in I : d.head[j] = i
    BY DEF Seen, I
  <2>2. j \in (1 .. m) \cap I
    BY <1>2, <2>1
  <2>3. PICK k \in 1 .. n : places[k] = j
    BY <1>3, <2>2 DEF Positions
  <2>4. QED
    BY <1>6, <2>1, <2>3
<1> HIDE DEF outs, from, n
<1>11. Outcomes(outs, n, from, d.recs)
  BY <1>1, <1>4, <1>6, <1>8, <1>9, NamedOutcomes, ZenonT(40)
<1>12. \A k \in 1 .. n : from[k] \in Seen(d)
  BY <1>5, <1>6
<1>13. ListedBy(d, n, from, places)
  BY <1>6, <1>7, <1>9, <1>10, <1>11, <1>12 DEF ListedBy
<1>14. QED
  BY <1>13

\* The rows that are scanned are some of those read: all of the first MaxRows.
LEMMA ScannedAre ==
  ASSUME NEW d \in Disks
  PROVE  /\ Scanned(d) \subseteq 1 .. Len(d.recs)
         /\ \A i \in 1 .. Len(d.recs) : d.recs[i] # Huge /\ i <= MaxRows => i \in Scanned(d)
<1>1. Len(d.recs) \in Nat /\ DOMAIN d.recs = 1 .. Len(d.recs)
  BY DEF Disks
<1>2. Scanned(d) \subseteq 1 .. Len(d.recs)
  BY <1>1 DEF Scanned, Sized
<1>3. ASSUME NEW i \in 1 .. Len(d.recs), d.recs[i] # Huge, i <= MaxRows
      PROVE  i \in Scanned(d)
  <2>1. IsFiniteSet(1 .. i) /\ Cardinality(1 .. i) = i
    <3>1. 1 \in Int /\ i \in Int
      OBVIOUS
    <3>2. IsFiniteSet(1 .. i) /\ Cardinality(1 .. i) = IF 1 > i THEN 0 ELSE i - 1 + 1
      BY <3>1, FS_Interval, Zenon
    <3>3. QED
      BY <3>2
  <2>2. (Sized(d) \cap 1 .. i) \in SUBSET (1 .. i)
    OBVIOUS
  <2>3. Cardinality(Sized(d) \cap 1 .. i) <= i /\ Cardinality(Sized(d) \cap 1 .. i) \in Nat
    BY <2>1, <2>2, FS_Subset, FS_CardinalityType
  <2>4. i \in Sized(d)
    BY <1>1, <1>3 DEF Sized
  <2>5. QED
    BY <1>3, <2>3, <2>4, MaxRowsAssumption DEF Scanned
<1>4. QED
  BY <1>2, <1>3

LEMMA OrphansAre ==
  ASSUME NEW d \in Disks, NEW before \in Nat
  PROVE  \E n, from : /\ Outcomes(CursorOrphans(d, before), n, from, d.recs) /\ OneToOne(from, n)
                      /\ \A k \in 1 .. n : from[k] \notin Seen(d)
                      /\ \A i \in Scanned(d) \ Seen(d) : \E k \in 1 .. n : from[k] = i
<1> DEFINE m == Len(d.recs)
           I == Scanned(d) \ Seen(d)
           left == Picked([k \in 1 .. m |-> k], I)
           n == Len(left)
           Orphan(k, idx) == Bubble(left[k], d.recs[left[k]], FALSE, idx)
           Shows(k) == {j \in 1 .. k - 1 : Orphan(j, 0).turn # NoTurn}
           outs == [k \in 1 .. n |-> Orphan(k, before + Cardinality(Shows(k)))]
<1>1. m \in Nat /\ DOMAIN d.recs = 1 .. m
  BY DEF Disks
<1>2. (1 .. m) \cap I = Scanned(d) \ Seen(d)
  BY ScannedAre
<1>3. Positions(left, m, I)
  BY <1>1, PositionsAre
<1>4. n \in Nat /\ DOMAIN left = 1 .. n
  BY <1>3, TupleIs DEF Positions
<1>5. CursorOrphans(d, before) = [k \in DOMAIN left |-> outs[k]]
  BY <1>1, <1>4 DEF CursorOrphans, Seen
<1> HIDE DEF left, I
<1>6. \A k \in 1 .. n : left[k] \in 1 .. m /\ left[k] \notin Seen(d)
  BY <1>2, <1>3 DEF Positions
<1>7. left \in [1 .. n -> 1 .. m]
  <2>1. left = [k \in 1 .. n |-> left[k]]
    BY <1>3, <1>4 DEF Positions, Tuple
  <2>2. QED
    BY <1>6, <2>1
<1>8. OneToOne(left, n)
  BY <1>3 DEF Positions, OneToOne
<1>9. \A k \in 1 .. n : Cardinality(Shows(k)) \in Nat
  <2> TAKE k \in 1 .. n
  <2>1. IsFiniteSet(1 .. k - 1)
    BY FS_Interval
  <2>2. Shows(k) \in SUBSET (1 .. k - 1)
    OBVIOUS
  <2> HIDE DEF Shows
  <2>3. QED
    BY <2>1, <2>2, FS_Subset, FS_CardinalityType
<1> HIDE DEF Shows
<1>10. ASSUME NEW k \in 1 .. n PROVE OneOf(outs[k], left[k], d.recs[left[k]])
  <2> DEFINE idx == before + Cardinality(Shows(k))
  <2>1. left[k] \in Int /\ idx \in Int
    BY <1>6, <1>9
  <2>2. outs[k] = Bubble(left[k], d.recs[left[k]], FALSE, idx)
    OBVIOUS
  <2> HIDE DEF idx, outs
  <2>3. QED
    BY <2>1, <2>2, BubbleIs
<1>11. outs = [k \in 1 .. n |-> outs[k]] /\ CursorOrphans(d, before) = outs
  BY <1>4, <1>5
<1>12. \A i \in Scanned(d) \ Seen(d) : \E k \in 1 .. n : left[k] = i
  BY <1>2, <1>3 DEF Positions
<1> HIDE DEF outs, n
<1>13. Outcomes(outs, n, left, d.recs)
  BY <1>1, <1>4, <1>7, <1>10, <1>11, NamedOutcomes
<1>14. Outcomes(CursorOrphans(d, before), n, left, d.recs)
  BY <1>11, <1>13
<1>15. \A k \in 1 .. n : left[k] \notin Seen(d)
  BY <1>6
<1>16. QED
  BY <1>8, <1>12, <1>14, <1>15, Zenon

\* Outcomes, one after the other.
Both(f, n, g, m) == [k \in 1 .. n + m |-> IF k <= n THEN f[k] ELSE g[k - n]]
Joins(j, both, s, n, f, t, m, g, recs) ==
  /\ Outcomes(j, n + m, both, recs)
  /\ \A k \in 1 .. n : k \in 1 .. n + m /\ both[k] = f[k] /\ j[k] = s[k]
  /\ \A k \in 1 .. m : n + k \in 1 .. n + m /\ both[n + k] = g[k] /\ j[n + k] = t[k]

LEMMA JoinedOutcomes ==
  ASSUME NEW recs, NEW s, NEW n, NEW f, Outcomes(s, n, f, recs),
         NEW t, NEW m, NEW g, Outcomes(t, m, g, recs)
  PROVE  Joins(s \o t, Both(f, n, g, m), s, n, f, t, m, g, recs)
<1> DEFINE both == Both(f, n, g, m)
           joined == s \o t
<1>1. n \in Nat /\ m \in Nat /\ Tuple(s, n) /\ Tuple(t, m)
  BY DEF Outcomes, Tuple
<1>2. /\ Tuple(joined, n + m)
      /\ \A k \in 1 .. n : joined[k] = s[k]
      /\ \A k \in 1 .. m : joined[n + k] = t[k]
  <2>1. Joined(joined, s, n, t, m)
    BY <1>1, JoinedIs, Zenon
  <2> HIDE DEF joined
  <2>2. QED
    BY <2>1 DEF Joined
<1> HIDE DEF joined
<1>3. \A k \in 1 .. n + m : k \in 1 .. n \/ (k - n \in 1 .. m /\ ~(k <= n) /\ k = n + (k - n))
  BY <1>1
<1>4. \A k \in 1 .. n : k \in 1 .. n + m /\ k <= n /\ both[k] = f[k]
  BY <1>1 DEF Both
<1>5. \A k \in 1 .. m : n + k \in 1 .. n + m /\ both[n + k] = g[k]
  BY <1>1 DEF Both
<1>6. \A k \in 1 .. n + m : ~(k <= n) => both[k] = g[k - n] /\ joined[k] = t[k - n]
  <2>1. \A k \in 1 .. n + m : ~(k <= n) => both[k] = g[k - n]
    BY DEF Both
  <2> HIDE DEF both
  <2>2. \A k \in 1 .. n + m : ~(k <= n) => k - n \in 1 .. m /\ n + (k - n) = k
    BY <1>1
  <2>3. QED
    BY <1>2, <2>1, <2>2
<1>7. both = [k \in 1 .. n + m |-> both[k]]
  BY DEF Both
<1> HIDE DEF both, joined
<1>8. both \in [1 .. n + m -> 1 .. Len(recs)]
  <2>1. \A k \in 1 .. n : f[k] \in 1 .. Len(recs)
    BY DEF Outcomes
  <2>2. \A k \in 1 .. m : g[k] \in 1 .. Len(recs)
    BY DEF Outcomes
  <2>3. \A k \in 1 .. n + m : both[k] \in 1 .. Len(recs)
    BY <1>3, <1>4, <1>6, <2>1, <2>2
  <2>4. QED
    BY <1>7, <2>3
<1>9. ASSUME NEW k \in 1 .. n + m
      PROVE  Taken(joined[k], both[k]) \/ Passed(joined[k], recs[both[k]])
  <2>1. CASE k \in 1 .. n
    <3>1. Taken(s[k], f[k]) \/ Passed(s[k], recs[f[k]])
      BY <2>1 DEF Outcomes
    <3>2. joined[k] = s[k] /\ both[k] = f[k]
      BY <1>2, <1>4, <2>1
    <3>3. QED
      BY <3>1, <3>2
  <2>2. CASE k \notin 1 .. n
    <3>1. k - n \in 1 .. m /\ joined[k] = t[k - n] /\ both[k] = g[k - n]
      BY <1>3, <1>6, <2>2
    <3>2. Taken(t[k - n], g[k - n]) \/ Passed(t[k - n], recs[g[k - n]])
      BY <3>1 DEF Outcomes
    <3>3. QED
      BY <3>1, <3>2
  <2>3. QED
    BY <2>1, <2>2
<1>10. Outcomes(joined, n + m, both, recs)
  BY <1>2, <1>8, <1>9 DEF Outcomes
<1>11. Joins(joined, both, s, n, f, t, m, g, recs)
  BY <1>2, <1>4, <1>5, <1>10 DEF Joins
<1>12. QED
  BY <1>11 DEF both, joined

\* A bubble is shown once, or else no more often than the composer row names it.
Rows(turns, i) == {j \in 1 .. Len(turns) : turns[j].rec = i}
OftenAsNamed(turns, d) ==
  \A i \in 1 .. Len(d.recs) :
    \/ \A j, l \in Rows(turns, i) : j = l
    \/ \E f \in [Rows(turns, i) -> NamedAt(d, i)] : \A j, l \in Rows(turns, i) : f[j] = f[l] => j = l

LEMMA CursorLoaded ==
  ASSUME NEW d \in Disks, tool = "cursor"
  PROVE  Loaded(CursorLoad(d), d.recs) /\ OftenAsNamed(CursorLoad(d).turns, d)
<1> DEFINE N == Len(d.recs)
           first == CursorListed(d)
           shownFirst == Gather(first).turns
           rest == CursorOrphans(d, Len(shownFirst))
           unsorted == Gather(rest).turns
           sorted == Sorted(unsorted)
           turns == shownFirst \o sorted
           load == [Gather(first \o rest) EXCEPT !.turns = turns]
<1>1. CursorLoad(d) = load
  BY DEF CursorLoad, CursorJoined
<1>2. load.ok /\ load.turns = turns /\ load.stats = Gather(first \o rest).stats
  BY WithTurns
<1>3. N \in Nat
  BY DEF Disks
<1> HIDE DEF first, load
<1>4. PICK n, f, at : ListedBy(d, n, f, at)
  BY ListedAre
<1>5. Outcomes(first, n, f, d.recs) /\ Turned(shownFirst, first, n, f)
  BY <1>4, GatherIs DEF ListedBy, first
<1>6. Len(shownFirst) \in Nat
  BY <1>5 DEF Turned, Tuple
<1> HIDE DEF rest
<1>7. PICK m, g : /\ Outcomes(rest, m, g, d.recs) /\ OneToOne(g, m)
                  /\ \A k \in 1 .. m : g[k] \notin Seen(d)
                  /\ \A i \in Scanned(d) \ Seen(d) : \E k \in 1 .. m : g[k] = i
  BY <1>6, OrphansAre, ZenonT(60) DEF rest
<1>8. Turned(unsorted, rest, m, g)
  BY <1>7, GatherIs
<1>9. Sortable(unsorted, Len(unsorted))
  BY <1>3, <1>7, <1>8, TurnedIsSortable
<1> HIDE DEF shownFirst, unsorted
<1>10. Rearranged(sorted, unsorted, Len(unsorted))
  BY <1>9, SortedIs
<1> HIDE DEF sorted
<1>11. Len(sorted) = Len(unsorted) /\ Tuple(sorted, Len(sorted)) /\ Len(sorted) \in Nat
  BY <1>10, TupleIs DEF Rearranged
<1> DEFINE a == Len(shownFirst)
           b == Len(sorted)
<1>12. /\ Tuple(turns, a + b)
       /\ \A k \in 1 .. a : turns[k] = shownFirst[k]
       /\ \A k \in 1 .. b : turns[a + k] = sorted[k]
  <2>1. Tuple(shownFirst, a) /\ Tuple(sorted, b)
    BY <1>5, <1>11 DEF Turned
  <2> HIDE DEF a, b
  <2>2. Joined(turns, shownFirst, a, sorted, b)
    BY <2>1, JoinedIs, Zenon
  <2> HIDE DEF turns
  <2>3. QED
    BY <2>2 DEF Joined
<1> HIDE DEF turns
<1>13. Len(turns) = a + b
  BY <1>12, TupleIs
<1>14. a \in Nat /\ b \in Nat
  BY <1>6, <1>11
<1>15. \A k \in 1 .. Len(turns) : k \in 1 .. a \/ (k - a \in 1 .. b /\ k = a + (k - a))
  BY <1>13, <1>14
<1> HIDE DEF a, b
<1>16. \A j \in 1 .. a : /\ turns[j].role # "none" /\ turns[j].rec \in 1 .. N
                         /\ turns[j].rec \in Seen(d)
  <2>1. \A j \in 1 .. a : shownFirst[j].role # "none" /\ \E k \in 1 .. n : shownFirst[j].rec = f[k]
    BY <1>5 DEF Turned, a
  <2>2. \A k \in 1 .. n : f[k] \in 1 .. N
    BY <1>5 DEF Outcomes
  <2>3. QED
    BY <1>4, <1>12, <2>1, <2>2 DEF ListedBy
<1>17. \A j \in 1 .. b : /\ sorted[j].role # "none" /\ sorted[j].rec \in 1 .. N
                         /\ sorted[j].rec \notin Seen(d)
  <2>1. \A j \in 1 .. Len(unsorted) :
          unsorted[j].role # "none" /\ \E k \in 1 .. m : unsorted[j].rec = g[k]
    BY <1>8 DEF Turned
  <2>2. \A k \in 1 .. m : g[k] \in 1 .. N
    BY <1>7 DEF Outcomes
  <2>3. \A j \in 1 .. b : \E k \in 1 .. Len(unsorted) : sorted[j] = unsorted[k]
    BY <1>10, <1>11 DEF Rearranged, b
  <2>4. QED
    BY <1>7, <2>1, <2>2, <2>3
<1>18. \A j \in 1 .. Len(turns) : turns[j].rec \in 0 .. N /\ turns[j].role # "none"
  BY <1>12, <1>15, <1>16, <1>17
<1>19. OftenAsNamed(turns, d)
  <2> SUFFICES ASSUME NEW i \in 1 .. N
               PROVE  \/ \A j, l \in Rows(turns, i) : j = l
                      \/ \E h \in [Rows(turns, i) -> NamedAt(d, i)] :
                           \A j, l \in Rows(turns, i) : h[j] = h[l] => j = l
    BY DEF OftenAsNamed
  <2> DEFINE rows == Rows(turns, i)
  <2>1. CASE i \in Seen(d)
    <3>1. PICK pick \in [1 .. a -> 1 .. n] :
            OneToOne(pick, a) /\ \A j \in 1 .. a : shownFirst[j].rec = f[pick[j]]
      BY <1>5 DEF Turned, a
    <3>2. \A j \in rows : j \in 1 .. a /\ turns[j].rec = i
      BY <1>12, <1>15, <1>17, <2>1 DEF Rows
    <3> HIDE DEF rows
    <3>3. \A j \in rows : pick[j] \in 1 .. n /\ f[pick[j]] = i
      BY <1>12, <3>1, <3>2
    <3>4. \A j \in rows : at[pick[j]] \in NamedAt(d, i)
      BY <1>4, <3>3 DEF ListedBy, NamedAt
    <3> DEFINE h == [j \in rows |-> at[pick[j]]]
    <3>5. h \in [rows -> NamedAt(d, i)]
      BY <3>4
    <3>6. ASSUME NEW j \in rows, NEW l \in rows, h[j] = h[l] PROVE j = l
      <4>1. at[pick[j]] = at[pick[l]]
        BY <3>6
      <4>2. pick[j] = pick[l]
        BY <1>4, <3>3, <4>1 DEF ListedBy, OneToOne
      <4>3. QED
        BY <3>1, <3>2, <4>2 DEF OneToOne
    <3> HIDE DEF h
    <3>7. QED
      BY <3>5, <3>6 DEF rows
  <2>2. CASE i \notin Seen(d)
    <3>1. \A j \in rows : j \in 1 .. Len(turns) /\ turns[j].rec = i
      BY DEF Rows
    <3> HIDE DEF rows
    <3>2. \A j \in rows : j - a \in 1 .. b /\ j = a + (j - a) /\ sorted[j - a].rec = i
      <4> TAKE j \in rows
      <4>1. j \notin 1 .. a
        BY <1>16, <2>2, <3>1
      <4>2. j - a \in 1 .. b /\ j = a + (j - a)
        BY <1>15, <3>1, <4>1
      <4>3. QED
        BY <1>12, <3>1, <4>2
    <3>3. \A p, q \in 1 .. b : sorted[p].rec = sorted[q].rec => p = q
      BY <1>10, <1>11 DEF Rearranged, b
    <3>4. ASSUME NEW j \in rows, NEW l \in rows PROVE j = l
      <4>1. j - a = l - a
        BY <3>2, <3>3
      <4>2. QED
        BY <3>2, <4>1
    <3>5. QED
      BY <3>4 DEF rows
  <2>3. QED
    BY <2>1, <2>2
<1> DEFINE both == Both(f, n, g, m)
           joined == first \o rest
<1>20. /\ Outcomes(joined, n + m, both, d.recs)
       /\ \A k \in 1 .. n : k \in 1 .. n + m /\ both[k] = f[k] /\ joined[k] = first[k]
       /\ \A k \in 1 .. m : n + k \in 1 .. n + m /\ both[n + k] = g[k] /\ joined[n + k] = rest[k]
  <2>1. Joins(joined, both, first, n, f, rest, m, g, d.recs)
    BY <1>5, <1>7, JoinedOutcomes
  <2> HIDE DEF both, joined
  <2>2. QED
    BY <2>1 DEF Joins
<1> HIDE DEF both, joined
<1>21. /\ \A k \in 1 .. n + m :
            \/ Taken(joined[k], both[k])
            \/ HasWarnings(load.stats)
            \/ Silent(d.recs[both[k]])
       /\ load.stats.errors + load.stats.skipped + load.stats.empty <= load.stats.seen
  <2>1. load.stats = Gather(joined).stats
    BY <1>2 DEF joined
  <2>2. QED
    BY <1>20, <2>1, GatherIs
<1>22. ASSUME NEW i \in 1 .. N
       PROVE  \/ \E j \in 1 .. Len(turns) : turns[j].rec = i
              \/ HasWarnings(load.stats)
              \/ Silent(d.recs[i]) \/ Beyond(d.recs, i)
  <2>1. CASE i \in Seen(d)
    <3>1. PICK k \in 1 .. n : f[k] = i
      BY <1>4, <2>1 DEF ListedBy
    <3>2. Taken(first[k], i) \/ HasWarnings(load.stats) \/ Silent(d.recs[i])
      BY <1>20, <1>21, <3>1
    <3>3. Taken(first[k], i) => \E j \in 1 .. a : shownFirst[j].rec = i
      BY <1>5, <3>1 DEF Turned, a
    <3>4. \A j \in 1 .. a : j \in 1 .. Len(turns)
      BY <1>13, <1>14
    <3>5. QED
      BY <1>12, <3>2, <3>3, <3>4
  <2>2. CASE i \notin Seen(d) /\ ~Beyond(d.recs, i)
    <3>1. i \in Scanned(d)
      BY <2>2, ScannedAre, MaxRowsAssumption DEF Beyond
    <3>2. PICK k \in 1 .. m : g[k] = i
      BY <1>7, <2>2, <3>1
    <3>3. Taken(rest[k], i) \/ HasWarnings(load.stats) \/ Silent(d.recs[i])
      BY <1>20, <1>21, <3>2
    <3>4. Taken(rest[k], i) => \E j \in 1 .. Len(unsorted) : unsorted[j].rec = i
      BY <1>8, <3>2 DEF Turned
    <3>5. \A j \in 1 .. Len(unsorted) : \E l \in 1 .. b : sorted[l] = unsorted[j]
      BY <1>10, <1>11 DEF Rearranged, b
    <3>6. \A l \in 1 .. b : a + l \in 1 .. Len(turns) /\ turns[a + l] = sorted[l]
      BY <1>12, <1>13, <1>14
    <3>7. QED
      BY <3>3, <3>4, <3>5, <3>6
  <2>3. QED
    BY <2>1, <2>2
<1> HIDE DEF N
<1>23. Loaded(load, d.recs)
  BY <1>2, <1>12, <1>13, <1>18, <1>21, <1>22 DEF Loaded, N
<1>24. QED
  BY <1>1, <1>2, <1>19, <1>23

(***************************************************************************)
(* What a load leaves out.                                                 *)
(***************************************************************************)
LEMMA AllLoad ==
  ASSUME DiskInv, tool # "aider", NEW ref, NEW start \in Int
  PROVE  Loaded(LoadSession(disk, ref, start), disk.recs)
<1>1. tool \in LineTools \cup ArrayTools \cup {"opencode", "cursor"}
  BY TranscriptsAssumption DEF TranscriptsAssumption, DiskInv
<1>2. disk \in Disks
  BY DEF DiskInv
<1>3. CASE tool \in LineTools \cup ArrayTools
  BY <1>2, <1>3, VisitedLoaded
<1>4. CASE tool = "opencode"
  BY <1>2, <1>4, OpenCodeLoaded DEF LoadSession
<1>5. CASE tool = "cursor"
  BY <1>2, <1>5, CursorLoaded DEF LoadSession
<1>6. QED
  BY <1>1, <1>3, <1>4, <1>5

LEMMA AtMostOne ==
  ASSUME NEW S, \A j, l \in S : j = l
  PROVE  Cardinality(S) <= 1
<1>1. CASE S = {}
  BY <1>1, FS_EmptySet
<1>2. CASE S # {}
  <2>1. PICK j \in S : S = {j}
    BY <1>2
  <2>2. Cardinality({j}) = 1
    BY FS_Singleton, Zenon
  <2>3. QED
    BY <2>1, <2>2
<1>3. QED
  BY <1>1, <1>2

\* As many as there are to be had.
LEMMA NoMoreThanNamed ==
  ASSUME NEW S, NEW n \in Nat, NEW T, T \subseteq 1 .. n,
         NEW f \in [S -> T], \A j, l \in S : f[j] = f[l] => j = l
  PROVE  Cardinality(S) <= Cardinality(T)
<1>1. IsFiniteSet(T)
  <2>1. IsFiniteSet(1 .. n)
    BY FS_Interval
  <2>2. QED
    BY <2>1, FS_Subset
<1>2. f \in Injection(S, T)
  BY DEF Injection, IsInjective
<1>3. QED
  BY <1>1, <1>2, FS_Injection

LEMMA LeftOutHolds == DiskInv => LeftOutIsCounted
<1> SUFFICES ASSUME DiskInv, LoadMessages(disk, 1).ok, tool # "aider", NEW i \in DOMAIN disk.recs
             PROVE  LET load == LoadMessages(disk, 1)
                        Of == {k \in DOMAIN load.turns : load.turns[k].rec = i}
                        naming == {k \in DOMAIN disk.head : disk.head[k] = i}
                    IN  /\ Cardinality(Of) <= 1 \/ Cardinality(Of) <= Cardinality(naming)
                        /\ Of = {} => HasWarnings(load.stats) \/ Silent(disk.recs[i]) \/ TooMuch(i)
  BY DEF LeftOutIsCounted
<1> DEFINE load == LoadMessages(disk, 1)
           Of == {k \in DOMAIN load.turns : load.turns[k].rec = i}
           naming == {k \in DOMAIN disk.head : disk.head[k] = i}
<1>1. Loaded(load, disk.recs) /\ (tool = "cursor" => OftenAsNamed(load.turns, disk))
  <2>1. disk \in Disks
    BY DEF DiskInv
  <2>2. StartedAt(disk) \in Int
    BY <2>1, StartIs
  <2>3. Loaded(load, disk.recs)
    BY <2>2, AllLoad DEF LoadMessages
  <2>4. tool = "cursor" => load = CursorLoad(disk)
    BY DEF LoadMessages, LoadSession
  <2> HIDE DEF load
  <2>5. QED
    BY <2>1, <2>3, <2>4, CursorLoaded
<1>2. load.ok
  OBVIOUS
<1> HIDE DEF load
<1>3. DOMAIN load.turns = 1 .. Len(load.turns)
  BY <1>1, TupleIs DEF Loaded
<1>4. i \in 1 .. Len(disk.recs) /\ DOMAIN disk.head = 1 .. Len(disk.head) /\ Len(disk.head) \in Nat
  BY DEF DiskInv, Disks
<1>5. Cardinality(Of) <= 1 \/ Cardinality(Of) <= Cardinality(naming)
  <2>1. CASE \A j, l \in Of : j = l
    <3> HIDE DEF Of
    <3>1. QED
      BY <2>1, AtMostOne
  <2>2. CASE ~ \A j, l \in Of : j = l
    <3>1. tool = "cursor"
      BY <1>1, <1>3, <2>2 DEF Loaded
    <3>2. Of = Rows(load.turns, i) /\ naming = NamedAt(disk, i)
      BY <1>3 DEF Rows, NamedAt
    <3> HIDE DEF Of, naming
    <3>3. PICK f \in [Of -> naming] : \A j, l \in Of : f[j] = f[l] => j = l
      BY <1>1, <1>4, <2>2, <3>1, <3>2 DEF OftenAsNamed
    <3>4. naming \subseteq 1 .. Len(disk.head)
      BY <1>4 DEF naming
    <3>5. QED
      BY <1>4, <3>3, <3>4, NoMoreThanNamed
  <2>3. QED
    BY <2>1, <2>2
<1>6. Of = {} => HasWarnings(load.stats) \/ Silent(disk.recs[i]) \/ TooMuch(i)
  BY <1>1, <1>2, <1>3, <1>4 DEF Loaded, TooMuch, Beyond
<1>7. QED
  BY <1>5, <1>6 DEF load

\* No load shows a record twice but as often as Cursor's composer row names it,
\* and none leaves a record out without its counts saying so, but the silent ones
\* and those beyond Cursor's limits, whatever was written, torn or run together
\* (provider/load.rs and the readers' parse/ modules).
THEOREM LeftOutCorrect == Spec => []LeftOutIsCounted
BY DiskStart, DiskKept, LeftOutHolds, PTL DEF Spec

(***************************************************************************)
(* Growth.  What a load finds in a history is found again, at the same     *)
(* places, in every history that begins with it.                           *)
(***************************************************************************)
Begins(s, t) == Len(s) <= Len(t) /\ \A i \in 1 .. Len(s) : s[i] = t[i]
Extends(a, b) == Len(a) <= Len(b) /\ \A k \in 1 .. Len(a) : Same(a[k], b[k])

LEMMA TurnsGrow ==
  ASSUME NEW s, NEW n, Tuple(s, n), NEW t, NEW m, Tuple(t, m), n <= m, \A k \in 1 .. n : SameOutcome(s[k], t[k])
  PROVE  /\ Extends(TurnsOf(s), TurnsOf(t))
         /\ \A j \in 1 .. Len(TurnsOf(s)) : SameTurn(TurnsOf(s)[j], TurnsOf(t)[j])
         /\ (\A k \in 1 .. m : k <= n \/ t[k].turn = NoTurn)
              => Len(TurnsOf(s)) = Len(TurnsOf(t)) /\ Extends(TurnsOf(t), TurnsOf(s))
<1> DEFINE all(o) == [k \in DOMAIN o |-> o[k].turn]
           of(o) == {k \in DOMAIN o : o[k].turn # NoTurn}
           S == {s[k].turn : k \in 1 .. n}
           T == {t[k].turn : k \in 1 .. m}
           p == TurnsOf(s)
           q == TurnsOf(t)
<1>1. n \in Nat /\ m \in Nat /\ DOMAIN s = 1 .. n /\ DOMAIN t = 1 .. m
  BY TupleIs
<1>2. p = Picked(all(s), of(s)) /\ q = Picked(all(t), of(t))
  BY DEF TurnsOf
<1>3. all(s) \in Seq(S) /\ Len(all(s)) = n /\ all(t) \in Seq(T) /\ Len(all(t)) = m
  <2>1. all(s) \in [1 .. n -> S] /\ all(t) \in [1 .. m -> T]
    BY <1>1
  <2> HIDE DEF all, S, T
  <2>2. QED
    BY <1>1, <2>1
<1>4. (1 .. n) \cap of(s) = (1 .. n) \cap of(t)
  <2>1. \A k \in 1 .. n : s[k].turn = NoTurn <=> t[k].turn = NoTurn
    BY DEF SameOutcome
  <2>2. QED
    BY <1>1, <2>1
<1>5. \A k \in 1 .. n : SameTurn(all(s)[k], all(t)[k])
  <2>1. \A k \in 1 .. n : SameTurn(s[k].turn, t[k].turn)
    BY DEF SameOutcome
  <2>2. \A k \in 1 .. n : all(s)[k] = s[k].turn /\ all(t)[k] = t[k].turn
    BY <1>1
  <2>3. QED
    BY <2>1, <2>2
<1>6. (\A k \in 1 .. m : k <= n \/ t[k].turn = NoTurn) => \A i \in (1 .. m) \cap of(t) : i <= n
  BY <1>1
<1> HIDE DEF all, of, S, T, p, q
<1>7. /\ Beside(p, q, all(s), all(t), of(s), n)
      /\ (\A i \in (1 .. m) \cap of(t) : i <= n) => Len(p) = Len(q)
  <2>1. PicksGrow(all(s), all(t), of(s), of(t))
    BY <1>1, <1>3, <1>4, PickedGrows
  <2>2. QED
    BY <1>2, <1>3, <2>1 DEF PicksGrow
<1>8. Len(p) <= Len(q) /\ \A j \in 1 .. Len(p) : SameTurn(p[j], q[j])
  BY <1>5, <1>7 DEF Beside
<1>9. QED
  BY <1>6, <1>7, <1>8 DEF Extends, Same, SameTurn, p, q

\* What a record-by-record reader finds in the records.
FoundIn(t, recs) == TurnsOf(Visited(recs, OutcomesOf(t, recs, Start)))

LEMMA VisitedAre ==
  ASSUME NEW recs \in Seq(Records), NEW read, NEW start
  PROVE  /\ Tuple(Visited(read, OutcomesOf(tool, recs, start)), Len(recs))
         /\ \A i \in 1 .. Len(recs) :
              Visited(read, OutcomesOf(tool, recs, start))[i]
                = IF read[i] = Bad THEN LeftOut("error") ELSE OutcomeOf(tool, i, recs[i], start)
<1> DEFINE v == Visited(read, OutcomesOf(tool, recs, start))
<1>1. DOMAIN recs = 1 .. Len(recs) /\ Len(recs) \in Nat
  OBVIOUS
<1>2. v = [i \in 1 .. Len(recs) |-> v[i]]
  BY <1>1 DEF Visited, OutcomesOf
<1>3. \A i \in 1 .. Len(recs) :
        v[i] = IF read[i] = Bad THEN LeftOut("error") ELSE OutcomeOf(tool, i, recs[i], start)
  BY <1>1 DEF Visited, OutcomesOf
<1> HIDE DEF v
<1>4. Tuple(v, Len(recs))
  BY <1>1, <1>2, MappedIs
<1>5. QED
  BY <1>3, <1>4 DEF v

\* The same record read at two places of reading, whatever the starts.
LEMMA VisitedAlike ==
  ASSUME NEW s \in Seq(Records), NEW t \in Seq(Records), NEW q, NEW r, NEW a, NEW b,
         tool \in LineTools \cup ArrayTools,
         NEW i \in 1 .. Len(s), i \in 1 .. Len(t), s[i] = t[i], q[i] = r[i]
  PROVE  LET o == Visited(q, OutcomesOf(tool, s, a))[i]
             p == Visited(r, OutcomesOf(tool, t, b))[i]
         IN  SameOutcome(o, p) /\ o.why = p.why
<1> DEFINE o == Visited(q, OutcomesOf(tool, s, a))[i]
           p == Visited(r, OutcomesOf(tool, t, b))[i]
<1>1. /\ o = IF q[i] = Bad THEN LeftOut("error") ELSE OutcomeOf(tool, i, s[i], a)
      /\ p = IF q[i] = Bad THEN LeftOut("error") ELSE OutcomeOf(tool, i, s[i], b)
  BY VisitedAre
<1> HIDE DEF o, p
<1>2. q[i] = Bad => SameOutcome(o, p) /\ o.why = p.why
  BY <1>1 DEF SameOutcome, SameTurn
<1>3. q[i] # Bad => SameOutcome(o, p) /\ o.why = p.why
  BY <1>1, OutcomesAlike
<1>4. QED
  BY <1>2, <1>3 DEF o, p

LEMMA FoundGrows ==
  ASSUME NEW s \in Seq(Records), NEW t \in Seq(Records), Begins(s, t), tool \in LineTools \cup ArrayTools
  PROVE  Extends(FoundIn(tool, s), FoundIn(tool, t))
<1> DEFINE v == Visited(s, OutcomesOf(tool, s, Start))
           w == Visited(t, OutcomesOf(tool, t, Start))
           n == Len(s)
           m == Len(t)
<1>1. Tuple(v, n) /\ Tuple(w, m)
  BY VisitedAre
<1>2. n \in Nat /\ m \in Nat /\ n <= m /\ \A i \in 1 .. n : s[i] = t[i] /\ i \in 1 .. m
  BY DEF Begins
<1>3. \A i \in 1 .. n : SameOutcome(v[i], w[i])
  BY <1>2, VisitedAlike
<1> HIDE DEF v, w, n, m
<1>4. Extends(TurnsOf(v), TurnsOf(w))
  BY <1>1, <1>2, <1>3, TurnsGrow
<1>5. QED
  BY <1>4 DEF FoundIn, v, w

\* What of the disk an agent may no longer change.
Settled(d) ==
  IF d.half = "no" THEN d.recs ELSE [i \in 1 .. Len(d.recs) - 1 |-> d.recs[i]]

Whole(d) == d \in Disks /\ (d.half # "no" => d.recs # <<>>)

LEMMA SettledIs ==
  ASSUME NEW d, Whole(d)
  PROVE  /\ Settled(d) \in Seq(Records) /\ Begins(Settled(d), d.recs)
         /\ Len(Settled(d)) = IF d.half = "no" THEN Len(d.recs) ELSE Len(d.recs) - 1
<1>1. d.recs \in Seq(Records) /\ Len(d.recs) \in Nat
  BY LenProperties DEF Whole, Disks
<1>2. CASE d.half = "no"
  BY <1>1, <1>2 DEF Settled, Begins
<1>3. CASE d.half # "no"
  <2>1. Len(d.recs) - 1 \in Nat
    BY <1>1, <1>3, EmptySeq DEF Whole
  <2> DEFINE n == Len(d.recs) - 1
             front == [i \in 1 .. n |-> d.recs[i]]
  <2>2. \A i \in 1 .. n : d.recs[i] \in Records
    BY <1>1
  <2>3. front \in [1 .. n -> Records]
    BY <2>2
  <2>4. front \in Seq(Records) /\ Len(front) = n
    <3> HIDE DEF front, n
    <3>1. n \in Nat
      BY <2>1 DEF n
    <3>2. QED
      BY <2>3, <3>1
  <2>5. Settled(d) = front
    BY <1>3 DEF Settled
  <2>6. \A i \in 1 .. n : front[i] = d.recs[i]
    OBVIOUS
  <2> HIDE DEF front
  <2>7. QED
    BY <1>1, <1>3, <2>1, <2>4, <2>5, <2>6 DEF Begins
<1>4. QED
  BY <1>2, <1>3

Agree(a, b) == Len(a) = Len(b) /\ Extends(a, b) /\ Extends(b, a)

\* A load that succeeds finds what is settled: a torn line is not read.
LEMMA LinesFind ==
  ASSUME NEW d, Whole(d), tool \in LineTools, NEW start, VisitLines(d, OutcomesOf(tool, d.recs, start)).ok
  PROVE  Agree(FoundIn(tool, Settled(d)), VisitLines(d, OutcomesOf(tool, d.recs, start)).turns)
<1> DEFINE settled == Settled(d)
           n == Len(settled)
           m == Len(d.recs)
           s == Visited(settled, OutcomesOf(tool, settled, Start))
           t == Visited(Lines(d), OutcomesOf(tool, d.recs, start))
<1>1. Utf8(d) /\ VisitLines(d, OutcomesOf(tool, d.recs, start)) = Gather(t)
  BY DEF VisitLines, Failed
<1>2. Gather(t).turns = TurnsOf(t)
  BY DEF Gather
<1>3. /\ d.recs \in Seq(Records) /\ m \in Nat /\ DOMAIN d.recs = 1 .. m
      /\ settled \in Seq(Records) /\ Begins(settled, d.recs)
      /\ n = IF d.half = "no" THEN m ELSE m - 1
  BY SettledIs, LenProperties DEF Whole, Disks
<1>4. n \in Nat /\ n <= m
  BY <1>3, LenProperties DEF Begins
<1>5. Tuple(s, n) /\ Tuple(t, m)
  BY <1>3, VisitedAre
<1>6. d.half = "no" \/ d.half = "plain"
  BY <1>1 DEF Utf8, Whole, Disks
<1>7. \A i \in 1 .. n : settled[i] = Lines(d)[i] /\ settled[i] = d.recs[i] /\ i \in 1 .. m
  BY <1>3, <1>4 DEF Begins, Lines
<1>8. \A i \in 1 .. n : SameOutcome(s[i], t[i])
  <2> TAKE i \in 1 .. n
  <2>1. /\ i \in 1 .. Len(settled) /\ i \in 1 .. Len(d.recs)
        /\ settled[i] = d.recs[i] /\ settled[i] = Lines(d)[i]
    BY <1>7
  <2> HIDE DEF settled
  <2>2. QED
    BY <1>3, <2>1, VisitedAlike
<1>9. \A i \in 1 .. m : i <= n \/ t[i].turn = NoTurn
  <2> SUFFICES ASSUME NEW i \in 1 .. m, ~(i <= n) PROVE t[i].turn = NoTurn
    OBVIOUS
  <2>1. d.half = "plain" /\ i = m
    BY <1>3, <1>4, <1>6
  <2>2. Lines(d)[i] = Bad
    BY <1>3, <2>1 DEF Lines
  <2>3. t[i] = LeftOut("error")
    BY <1>3, <2>2, VisitedAre
  <2>4. QED
    BY <2>3 DEF LeftOut
<1> HIDE DEF s, t, n, m
<1>10. m \in Nat
  BY <1>3
<1>11. Agree(TurnsOf(s), TurnsOf(t))
  BY <1>4, <1>5, <1>8, <1>9, <1>10, TurnsGrow DEF Agree
<1>12. FoundIn(tool, settled) = TurnsOf(s)
  BY DEF FoundIn, s
<1>13. QED
  BY <1>1, <1>2, <1>11, <1>12 DEF t

LEMMA TurnsAreTuple ==
  ASSUME NEW s, NEW n, Tuple(s, n)
  PROVE  Tuple(TurnsOf(s), Len(TurnsOf(s))) /\ Len(TurnsOf(s)) <= n
<1> DEFINE S == {s[k].turn : k \in 1 .. n}
           all == [k \in DOMAIN s |-> s[k].turn]
           of == {k \in DOMAIN s : s[k].turn # NoTurn}
<1>1. n \in Nat /\ DOMAIN s = 1 .. n
  BY TupleIs
<1>2. all \in Seq(S) /\ Len(all) = n
  <2>1. all \in [1 .. n -> S]
    BY <1>1
  <2> HIDE DEF all, S
  <2>2. QED
    BY <1>1, <2>1
<1>3. TurnsOf(s) = Picked(all, of)
  BY DEF TurnsOf
<1> DEFINE picked == Picked(all, of)
<1> HIDE DEF all, S, of
<1>4. picked \in Seq(S) /\ Len(picked) <= n
  BY <1>2, PickedIs DEF Picks
<1> HIDE DEF picked
<1>5. Len(picked) \in Nat /\ picked \in [1 .. Len(picked) -> S]
  BY <1>4
<1>6. QED
  BY <1>3, <1>4, <1>5 DEF Tuple, picked

LEMMA ArraysFind ==
  ASSUME NEW d, Whole(d), tool \in ArrayTools, NEW start, VisitArray(d, OutcomesOf(tool, d.recs, start)).ok
  PROVE  Agree(FoundIn(tool, Settled(d)), VisitArray(d, OutcomesOf(tool, d.recs, start)).turns)
<1> DEFINE n == Len(d.recs)
           s == Visited(d.recs, OutcomesOf(tool, d.recs, Start))
           t == Visited(d.recs, OutcomesOf(tool, d.recs, start))
<1>1. d.half = "no" /\ Settled(d) = d.recs
  BY DEF VisitArray, Failed, Settled
<1>2. VisitArray(d, OutcomesOf(tool, d.recs, start)).turns = TurnsOf(t) /\ FoundIn(tool, Settled(d)) = TurnsOf(s)
  BY <1>1 DEF VisitArray, Gather, FoundIn
<1>3. d.recs \in Seq(Records) /\ n \in Nat
  BY LenProperties DEF Whole, Disks
<1>4. Tuple(s, n) /\ Tuple(t, n) /\ \A i \in 1 .. n : SameOutcome(s[i], t[i]) /\ SameOutcome(t[i], s[i])
  BY <1>3, VisitedAre, VisitedAlike
<1> HIDE DEF s, t, n
<1>5. Extends(TurnsOf(s), TurnsOf(t)) /\ Extends(TurnsOf(t), TurnsOf(s))
  BY <1>3, <1>4, TurnsGrow
<1>6. Len(TurnsOf(s)) \in Nat /\ Len(TurnsOf(t)) \in Nat
  BY <1>4, TurnsAreTuple DEF Tuple
<1>7. QED
  BY <1>2, <1>5, <1>6 DEF Agree, Extends

\* What a load that succeeds has found, but for Copilot's checkpoint.
LEMMA LoadFinds ==
  ASSUME NEW d, Whole(d), tool \in LineTools \cup ArrayTools, NEW ref, NEW start, LoadSession(d, ref, start).ok
  PROVE  LET turns == LoadSession(d, ref, start).turns
         IN  \/ Agree(FoundIn(tool, Settled(d)), turns)
             \/ d.recs = <<>> /\ \A k \in DOMAIN turns : turns[k] = Checkpoint
<1>1. CASE tool = "copilot-cli" /\ d.recs = <<>>
  <2> DEFINE turns == IF "checkpoint" \in d.meta THEN <<Checkpoint>> ELSE <<>>
  <2>1. LoadSession(d, ref, start) = Unstated(turns)
    BY <1>1 DEF LoadSession, CopilotLoad
  <2>2. \A c : DOMAIN <<c>> = {1} /\ <<c>>[1] = c
    OBVIOUS
  <2>3. DOMAIN <<>> = {}
    OBVIOUS
  <2>4. \A k \in DOMAIN turns : turns[k] = Checkpoint
    BY <2>2, <2>3
  <2>5. QED
    BY <1>1, <2>1, <2>4 DEF Unstated
<1>2. CASE ~(tool = "copilot-cli" /\ d.recs = <<>>)
  BY <1>2, LinesFind, ArraysFind, LoadsVisit
<1>3. QED
  BY <1>1, <1>2

(***************************************************************************)
(* Changes.  A load is made of the records, and the start of its session   *)
(* says only when each was said.                                           *)
(***************************************************************************)
LEMMA CountedAlike ==
  ASSUME NEW s, NEW t, NEW n, Tuple(s, n), Tuple(t, n), \A k \in 1 .. n : s[k].why = t[k].why, NEW why
  PROVE  Counted(s, why) = Counted(t, why)
<1>1. DOMAIN s = 1 .. n /\ DOMAIN t = 1 .. n
  BY TupleIs
<1>2. {k \in DOMAIN s : s[k].why = why} = {k \in DOMAIN t : t[k].why = why}
  BY <1>1
<1>3. QED
  BY <1>2 DEF Counted

LEMMA GatheredAlike ==
  ASSUME NEW s, NEW t, NEW n, Tuple(s, n), Tuple(t, n),
         \A k \in 1 .. n : SameOutcome(s[k], t[k]) /\ SameOutcome(t[k], s[k]) /\ s[k].why = t[k].why
  PROVE  Untimed(Gather(s)) = Untimed(Gather(t))
<1> DEFINE p == TurnsOf(s)
           q == TurnsOf(t)
           kept(turns) == [k \in DOMAIN turns |-> <<turns[k].rec, turns[k].role, turns[k].blocks>>]
<1>1. n \in Nat /\ Len(s) = n /\ Len(t) = n
  BY TupleIs
<1>2. /\ Extends(p, q) /\ Extends(q, p) /\ Tuple(p, Len(p)) /\ Tuple(q, Len(q))
      /\ \A j \in 1 .. Len(p) : SameTurn(p[j], q[j])
  <2>1. n <= n
    BY <1>1
  <2>2. Extends(p, q) /\ \A j \in 1 .. Len(p) : SameTurn(p[j], q[j])
    BY <2>1, TurnsGrow
  <2>3. Extends(q, p)
    BY <2>1, TurnsGrow
  <2>4. QED
    BY <2>2, <2>3, TurnsAreTuple
<1> HIDE DEF p, q
<1>3. DOMAIN p = 1 .. Len(p) /\ DOMAIN q = 1 .. Len(p)
  <2>1. Len(p) = Len(q)
    <3>1. Len(p) \in Nat /\ Len(q) \in Nat
      BY <1>2 DEF Tuple
    <3>2. Len(p) <= Len(q) /\ Len(q) <= Len(p)
      BY <1>2 DEF Extends
    <3>3. QED
      BY <3>1, <3>2
  <2>2. QED
    BY <1>2, <2>1, TupleIs
<1>4. kept(p) = kept(q)
  BY <1>2, <1>3 DEF SameTurn
<1>5. Gather(s).stats = Gather(t).stats
  <2>1. \A why : Counted(s, why) = Counted(t, why)
    BY CountedAlike
  <2>2. QED
    BY <1>1, <2>1 DEF Gather
<1>6. /\ Untimed(Gather(s)) = <<TRUE, kept(p), Gather(s).stats>>
      /\ Untimed(Gather(t)) = <<TRUE, kept(q), Gather(t).stats>>
  BY DEF Untimed, Gather, p, q
<1> HIDE DEF kept
<1>7. QED
  BY <1>4, <1>5, <1>6

LEMMA StartsAlike ==
  ASSUME tool = "continue-dev", NEW d \in Disks, NEW e \in Disks, d.recs = e.recs, d.half = e.half,
         NEW ref, NEW a, NEW b
  PROVE  Untimed(LoadSession(d, ref, a)) = Untimed(LoadSession(e, ref, b))
<1> DEFINE n == Len(d.recs)
           s == Visited(Lines(d), OutcomesOf(tool, d.recs, a))
           t == Visited(Lines(d), OutcomesOf(tool, d.recs, b))
<1>1. Lines(d) = Lines(e) /\ (Utf8(d) <=> Utf8(e))
  BY DEF Lines, Utf8
<1>2. /\ LoadSession(d, ref, a) = IF Utf8(d) THEN Gather(s) ELSE Failed
      /\ LoadSession(e, ref, b) = IF Utf8(d) THEN Gather(t) ELSE Failed
  <2>1. /\ LoadSession(d, ref, a) = VisitLines(d, OutcomesOf(tool, d.recs, a))
        /\ LoadSession(e, ref, b) = VisitLines(e, OutcomesOf(tool, e.recs, b))
    BY LoadsVisit DEF LineTools
  <2>2. QED
    BY <1>1, <2>1 DEF VisitLines
<1>3. d.recs \in Seq(Records) /\ n \in Nat
  BY LenProperties DEF Disks
<1>4. /\ Tuple(s, n) /\ Tuple(t, n)
      /\ \A i \in 1 .. n : SameOutcome(s[i], t[i]) /\ SameOutcome(t[i], s[i]) /\ s[i].why = t[i].why
  <2>1. tool \in LineTools \cup ArrayTools
    BY DEF LineTools
  <2>2. Tuple(s, n) /\ Tuple(t, n)
    BY <1>3, <2>1, VisitedAre
  <2>3. \A i \in 1 .. n : SameOutcome(s[i], t[i])
    <3> TAKE i \in 1 .. n
    <3>1. i \in 1 .. Len(d.recs)
      OBVIOUS
    <3> HIDE DEF n
    <3>2. QED
      BY <1>3, <2>1, <3>1, VisitedAlike
  <2>4. \A i \in 1 .. n : SameOutcome(t[i], s[i])
    <3> TAKE i \in 1 .. n
    <3>1. i \in 1 .. Len(d.recs)
      OBVIOUS
    <3> HIDE DEF n
    <3>2. QED
      BY <1>3, <2>1, <3>1, VisitedAlike
  <2>5. \A i \in 1 .. n : s[i].why = t[i].why
    <3> TAKE i \in 1 .. n
    <3>1. /\ s[i] = IF Lines(d)[i] = Bad THEN LeftOut("error") ELSE OutcomeOf(tool, i, d.recs[i], a)
          /\ t[i] = IF Lines(d)[i] = Bad THEN LeftOut("error") ELSE OutcomeOf(tool, i, d.recs[i], b)
      BY <1>3, VisitedAre
    <3> HIDE DEF s, t, n
    <3>2. OutcomeOf(tool, i, d.recs[i], a).why = OutcomeOf(tool, i, d.recs[i], b).why
      BY <2>1, OutcomesAlike
    <3>3. QED
      BY <3>1, <3>2
  <2> HIDE DEF s, t, n
  <2>6. QED
    BY <2>2, <2>3, <2>4, <2>5
<1> HIDE DEF s, t, n
<1>5. Untimed(Gather(s)) = Untimed(Gather(t))
  BY <1>4, GatheredAlike
<1>6. QED
  BY <1>2, <1>5

\* The others' loads are made of the records alone.
LEMMA LoadsAgree ==
  ASSUME tool \in {"claude-code", "codex-cli", "gemini-cli", "zed-ai", "aider"},
         NEW d, NEW e, d.recs = e.recs, d.half = e.half, NEW ref
  PROVE  LoadMessages(d, ref) = LoadMessages(e, ref)
<1>1. \A outs : VisitLines(d, outs) = VisitLines(e, outs) /\ VisitArray(d, outs) = VisitArray(e, outs)
  BY DEF VisitLines, VisitArray, Lines, Utf8
<1>2. CASE tool = "claude-code"
  BY <1>1, <1>2 DEF LoadMessages, LoadSession, ClaudeLoad
<1>3. CASE tool = "codex-cli"
  BY <1>1, <1>3 DEF LoadMessages, LoadSession, CodexLoad
<1>4. CASE tool = "gemini-cli"
  BY <1>1, <1>4 DEF LoadMessages, LoadSession, GeminiLoad
<1>5. CASE tool = "zed-ai"
  BY <1>1, <1>5 DEF LoadMessages, LoadSession, ZedLoad
<1>6. CASE tool = "aider"
  <2>1. AiderLines(d) = AiderLines(e) /\ (Utf8(d) <=> Utf8(e))
    BY DEF AiderLines, Utf8
  <2>2. AiderLoad(d, ref) = AiderLoad(e, ref)
    BY <2>1 DEF AiderLoad
  <2>3. QED
    BY <1>6, <2>2 DEF LoadMessages, LoadSession
<1>7. QED
  BY <1>2, <1>3, <1>4, <1>5, <1>6

Unnoticed(ref) ==
  \/ tool = "cursor" /\ "log" \in disk.meta
  \/ LoadMessages(disk', ref) = LoadMessages(disk, ref)
  \/ /\ tool = "continue-dev" /\ disk'.meta # disk.meta
     /\ Untimed(LoadMessages(disk', ref)) = Untimed(LoadMessages(disk, ref))

LEMMA ChangesHold ==
  ASSUME DiskInv, [Next]_vars, NEW ref, IndexFingerprint(disk') = IndexFingerprint(disk)
  PROVE  Unnoticed(ref)
<1>1. DiskInv' /\ tool' = tool
  BY DiskKept, DiskSteps DEF DiskStep
<1>2. disk \in Disks /\ disk' \in Disks
  BY <1>1 DEF DiskInv
<1>3. CASE tool = "cursor" /\ "log" \in disk.meta
  BY <1>3 DEF Unnoticed
<1>4. CASE ~(tool = "cursor" /\ "log" \in disk.meta)
  <2>1. /\ disk'.recs = disk.recs /\ disk'.half = disk.half /\ disk'.head = disk.head
        /\ tool \in Wholly => disk' = disk
    BY <1>4, FingerprintSays
  <2>2. CASE tool \in Wholly
    <3>1. disk' = disk
      BY <2>1, <2>2
    <3>2. LoadMessages(disk', ref) = LoadMessages(disk, ref)
      BY <3>1
    <3>3. QED
      BY <3>2 DEF Unnoticed
  <2>3. CASE tool \in {"claude-code", "codex-cli", "gemini-cli", "zed-ai", "aider"}
    BY <2>1, <2>3, LoadsAgree DEF Unnoticed
  <2>4. CASE tool = "continue-dev"
    <3>1. CASE disk'.meta = disk.meta
      <4>1. disk' = disk
        BY <1>2, <2>1, <3>1, SameDisk
      <4>2. LoadMessages(disk', ref) = LoadMessages(disk, ref)
        BY <4>1
      <4>3. QED
        BY <4>2 DEF Unnoticed
    <3>2. CASE disk'.meta # disk.meta
      <4>1. Untimed(LoadSession(disk', ref, StartedAt(disk'))) = Untimed(LoadSession(disk, ref, StartedAt(disk)))
        BY <1>2, <2>1, <2>4, StartsAlike
      <4>2. QED
        BY <2>4, <3>2, <4>1 DEF Unnoticed, LoadMessages
    <3>3. QED
      BY <3>1, <3>2
  <2>5. tool \in Wholly \/ tool \in {"claude-code", "codex-cli", "gemini-cli", "zed-ai", "aider", "continue-dev"}
    BY TranscriptsAssumption DEF DiskInv, LineTools, ArrayTools, Wholly
  <2>6. QED
    BY <2>2, <2>3, <2>4, <2>5
<1>5. QED
  BY <1>3, <1>4

\* A step that leaves a session's index fingerprint as it was leaves what a load
\* returns, so that the index never keeps a session it would have to load again;
\* but for a log beside Cursor's database, and for the times that Continue's
\* index.json gives its messages (provider/load.rs, search/fingerprint.rs).
THEOREM ChangesCorrect == Spec => ChangesAreFingerprinted
<1> DEFINE Noticed ==
      disk' # disk /\ IndexFingerprint(disk') = IndexFingerprint(disk) =>
        \A ref \in Refs :
          LET old == LoadMessages(disk, ref)
              new == LoadMessages(disk', ref)
          IN  \/ tool = "cursor" /\ "log" \in disk.meta
              \/ new = old
              \/ /\ tool = "continue-dev" /\ disk'.meta # disk.meta
                 /\ Untimed(new) = Untimed(old)
<1>1. DiskInv /\ [Next]_vars => Noticed
  BY ChangesHold DEF Unnoticed
<1>2. DiskInv /\ [Next]_vars => [Noticed]_disk
  BY <1>1
<1>3. QED
  BY <1>2, DiskStart, DiskKept, PTL DEF Spec, ChangesAreFingerprinted

(***************************************************************************)
(* Aider: what reading a block line by line does.                          *)
(***************************************************************************)
AiderStep(b, lines, read, n) ==
  IF n = 0 THEN Unread(b) ELSE AiderLine(read[n - 1], b.body[n], lines)
Reads(b, lines, m, read) == read = [n \in 0 .. m |-> AiderStep(b, lines, read, n)]

LEMMA ReadsAt ==
  ASSUME NEW b, NEW lines, NEW m, NEW read, Reads(b, lines, m, read), NEW n \in 0 .. m
  PROVE  read[n] = AiderStep(b, lines, read, n)
<1>1. [i \in 0 .. m |-> AiderStep(b, lines, read, i)][n] = AiderStep(b, lines, read, n)
  OBVIOUS
<1>2. QED
  BY <1>1, Zenon DEF Reads

\* The recursion has a solution up to every position.
LEMMA ReadsTo ==
  ASSUME NEW b, NEW lines, NEW m \in Nat
  PROVE  \E read : Reads(b, lines, m, read)
<1> DEFINE Stuck == {k \in Nat : ~\E read : Reads(b, lines, k, read)}
<1> SUFFICES ASSUME Stuck # {} PROVE FALSE
  OBVIOUS
<1>1. PICK k \in Stuck : \A j \in Stuck : k <= j
  BY LeastExists
<1>2. k # 0
  <2> DEFINE start == [n \in 0 .. 0 |-> Unread(b)]
  <2>1. Reads(b, lines, 0, start)
    BY DEF Reads, AiderStep
  <2>2. QED
    BY <2>1
<1>3. k - 1 \in Nat \ Stuck
  BY <1>1, <1>2
<1>4. PICK read : Reads(b, lines, k - 1, read)
  BY <1>3
<1> DEFINE longer == [n \in 0 .. k |-> IF n = k THEN AiderStep(b, lines, read, k) ELSE read[n]]
<1>5. \A n \in 0 .. k : longer[n] = AiderStep(b, lines, longer, n)
  <2> SUFFICES ASSUME NEW n \in 0 .. k PROVE longer[n] = AiderStep(b, lines, longer, n)
    OBVIOUS
  <2>1. n # 0 => longer[n - 1] = read[n - 1]
    OBVIOUS
  <2>2. AiderStep(b, lines, longer, n) = AiderStep(b, lines, read, n)
    BY <2>1 DEF AiderStep
  <2>3. n # k => read[n] = AiderStep(b, lines, read, n)
    BY <1>4 DEF Reads
  <2>4. QED
    BY <2>2, <2>3
<1>6. Reads(b, lines, k, longer)
  BY <1>5 DEF Reads
<1>7. QED
  BY <1>6

LEMMA ReadsAlike ==
  ASSUME NEW b, NEW lines, NEW m \in Nat, NEW k \in 0 .. m, NEW g, NEW h, Reads(b, lines, m, g), Reads(b, lines, k, h)
  PROVE  \A n \in 0 .. k : g[n] = h[n]
<1> DEFINE Apart == {n \in 0 .. k : g[n] # h[n]}
<1> SUFFICES ASSUME Apart # {} PROVE FALSE
  OBVIOUS
<1>1. PICK n \in Apart : \A j \in Apart : n <= j
  <2>1. Apart \subseteq Nat
    OBVIOUS
  <2> HIDE DEF Apart
  <2>2. QED
    BY <2>1, LeastExists
<1>2. g[n] = AiderStep(b, lines, g, n) /\ h[n] = AiderStep(b, lines, h, n)
  <2>1. n \in 0 .. m /\ n \in 0 .. k
    OBVIOUS
  <2>2. QED
    BY <2>1, ReadsAt
<1>3. n # 0 => g[n - 1] = h[n - 1]
  BY <1>1
<1>4. QED
  BY <1>2, <1>3 DEF AiderStep

LEMMA AiderReadIs ==
  ASSUME NEW b, NEW lines
  PROVE  \A n \in Nat : AiderRead(b, lines)[n] = AiderStep(b, lines, AiderRead(b, lines), n)
<1> DEFINE upto(n) == CHOOSE read : Reads(b, lines, n, read)
           whole == [n \in Nat |-> upto(n)[n]]
<1>1. \A n \in Nat : Reads(b, lines, n, upto(n))
  BY ReadsTo
<1>2. \A n \in Nat : upto(n)[n] = AiderStep(b, lines, upto(n), n)
  <2>1. \A n \in Nat : n \in 0 .. n
    OBVIOUS
  <2> HIDE DEF upto
  <2>2. QED
    BY <1>1, <2>1, ReadsAt
<1>3. ASSUME NEW n \in Nat, n # 0 PROVE upto(n)[n - 1] = upto(n - 1)[n - 1]
  <2>1. n - 1 \in 0 .. n /\ n - 1 \in Nat /\ n - 1 \in 0 .. n - 1
    BY <1>3
  <2>2. Reads(b, lines, n, upto(n)) /\ Reads(b, lines, n - 1, upto(n - 1))
    BY <1>1, <2>1
  <2> HIDE DEF upto
  <2>3. QED
    BY <2>1, <2>2, ReadsAlike
<1> HIDE DEF upto
<1>4. \A n \in Nat : whole[n] = AiderStep(b, lines, whole, n)
  <2> SUFFICES ASSUME NEW n \in Nat PROVE whole[n] = AiderStep(b, lines, whole, n)
    OBVIOUS
  <2>1. whole[n] = AiderStep(b, lines, upto(n), n)
    BY <1>2
  <2>2. n # 0 => whole[n - 1] = upto(n)[n - 1]
    BY <1>3
  <2>3. QED
    BY <2>1, <2>2 DEF AiderStep
<1> HIDE DEF whole
<1>5. whole = [n \in Nat |-> AiderStep(b, lines, whole, n)]
  BY <1>4 DEF whole
<1>6. AiderRead(b, lines) = CHOOSE read : read = [n \in Nat |-> AiderStep(b, lines, read, n)]
  BY DEF AiderRead, AiderStep
<1>7. AiderRead(b, lines) = [n \in Nat |-> AiderStep(b, lines, AiderRead(b, lines), n)]
  BY <1>5, <1>6
<1>8. QED
  BY <1>7

\* What is read so far of lines 1 .. N: turns, and one that is still open.
Formed(p) ==
  /\ p = [out |-> p.out, role |-> p.role, own |-> p.own, fenced |-> p.fenced, at |-> p.at]
  /\ p.fenced \in BOOLEAN
Pending(p, N) ==
  /\ Formed(p)
  /\ p.own \in Seq(1 .. N)
  /\ p.role # "none" => p.own # <<>>
  /\ Tuple(p.out, Len(p.out))
  /\ \A k \in 1 .. Len(p.out) : p.out[k].rec \in 1 .. N /\ p.out[k].role # "none"

Wordless(p, lines) == p.role = "none" \/ \A k \in DOMAIN p.own : lines[p.own[k]].text = <<>>

LEMMA AppendedIs ==
  ASSUME NEW s, NEW n, Tuple(s, n), NEW x
  PROVE  /\ Tuple(Append(s, x), n + 1)
         /\ \A k \in 1 .. n : Append(s, x)[k] = s[k]
         /\ Append(s, x)[n + 1] = x
<1>1. PICK S : s \in [1 .. n -> S]
  BY DEF Tuple
<1>2. n \in Nat /\ Len(s) = n
  BY TupleIs
<1>3. s \in Seq(S \cup {x})
  <2>1. s \in [1 .. n -> S \cup {x}]
    BY <1>1
  <2>2. QED
    BY <1>2, <2>1
<1>4. Append(s, x) \in Seq(S \cup {x}) /\ Len(Append(s, x)) = n + 1
  BY <1>2, <1>3, AppendProperties
<1>5. Tuple(Append(s, x), n + 1)
  <2>1. Append(s, x) \in [1 .. n + 1 -> S \cup {x}]
    BY <1>4, LenProperties
  <2>2. n + 1 \in Nat
    BY <1>2
  <2>3. QED
    BY <2>1, <2>2, Zenon DEF Tuple
<1>6. QED
  BY <1>2, <1>3, <1>5, AppendProperties

\* Closing the open turn.
Closed(out, p, lines) ==
  /\ Tuple(out, Len(out))
  /\ \A k \in 1 .. Len(p.out) : out[k] = p.out[k]
  /\ Wordless(p, lines) => Len(out) = Len(p.out)
  /\ ~Wordless(p, lines) => /\ Len(out) = Len(p.out) + 1
                            /\ out[Len(out)].rec = p.own[1] /\ out[Len(out)].role = p.role

LEMMA FlushIs ==
  ASSUME NEW p, NEW N, Pending(p, N), NEW lines
  PROVE  Closed(FlushPending(p, lines), p, lines)
<1> DEFINE out == FlushPending(p, lines)
<1>1. Tuple(p.out, Len(p.out)) /\ Len(p.out) \in Nat
  BY DEF Pending, Tuple
<1>2. CASE Wordless(p, lines)
  <2>1. out = p.out
    BY <1>2 DEF FlushPending, Wordless
  <2>2. QED
    BY <1>1, <1>2, <2>1 DEF Closed
<1>3. CASE ~Wordless(p, lines)
  <2>1. PICK blocks : out = Append(p.out, Turn(p.own[1], p.role, blocks, p.at + Len(p.out)))
    BY <1>3 DEF FlushPending, Wordless
  <2> DEFINE turn == Turn(p.own[1], p.role, blocks, p.at + Len(p.out))
  <2>2. turn.rec = p.own[1] /\ turn.role = p.role
    BY DEF Turn
  <2> HIDE DEF turn, out
  <2>3. /\ Tuple(out, Len(p.out) + 1)
        /\ \A k \in 1 .. Len(p.out) : out[k] = p.out[k]
        /\ out[Len(p.out) + 1] = turn
    BY <1>1, <2>1, AppendedIs DEF turn
  <2>4. Len(out) = Len(p.out) + 1
    BY <2>3, TupleIs
  <2>5. QED
    BY <1>3, <2>2, <2>3, <2>4 DEF Closed, out
<1>4. QED
  BY <1>2, <1>3

\* Reading a line leaves the open turn, adds to it, or closes it for another.
Lined(q, p, i, lines) ==
  /\ Formed(q)
  /\ \/ q.out = p.out /\ q.own = p.own /\ q.role = p.role
     \/ q.out = p.out /\ q.own = Append(p.own, i) /\ q.role = p.role
     \/ q.out = FlushPending(p, lines) /\ q.own = <<i>> /\ q.role # "none"

LEMMA OpenForIs ==
  ASSUME NEW p, NEW N, Pending(p, N), NEW i, NEW lines, NEW role, role # "none"
  PROVE  Lined(OpenFor(p, role, i, lines), p, i, lines)
<1> DEFINE own == Append(p.own, i)
           out == FlushPending(p, lines)
<1>1. p = [out |-> p.out, role |-> p.role, own |-> p.own, fenced |-> p.fenced, at |-> p.at]
      /\ p.fenced \in BOOLEAN
  BY DEF Pending, Formed
<1>2. CASE p.role = role
  <2>1. OpenFor(p, role, i, lines) = [p EXCEPT !.own = own]
    BY <1>2 DEF OpenFor
  <2> HIDE DEF own
  <2>2. [p EXCEPT !.own = own]
          = [out |-> p.out, role |-> p.role, own |-> own, fenced |-> p.fenced, at |-> p.at]
    BY <1>1
  <2>3. QED
    BY <1>1, <2>1, <2>2 DEF Lined, Formed, own
<1>3. CASE p.role # role
  <2>1. OpenFor(p, role, i, lines) = [out |-> out, role |-> role, own |-> <<i>>,
                                      fenced |-> p.fenced, at |-> p.at]
    BY <1>3 DEF OpenFor
  <2>2. QED
    BY <1>1, <2>1 DEF Lined, Formed
<1>4. QED
  BY <1>2, <1>3

LEMMA LineIs ==
  ASSUME NEW p, NEW N, Pending(p, N), NEW i, NEW lines
  PROVE  Lined(AiderLine(p, i, lines), p, i, lines)
<1> DEFINE type == lines[i].type
<1>1. p = [out |-> p.out, role |-> p.role, own |-> p.own, fenced |-> p.fenced, at |-> p.at]
      /\ p.fenced \in BOOLEAN
  BY DEF Pending, Formed
<1>2. CASE type = "fence"
  <2> DEFINE role == IF p.role = "none" THEN "assistant" ELSE p.role
             q == OpenFor(p, role, i, lines)
  <2>1. AiderLine(p, i, lines) = [q EXCEPT !.fenced = ~@]
    BY <1>2 DEF AiderLine
  <2>2. role # "none"
    OBVIOUS
  <2> HIDE DEF role
  <2>3. Lined(q, p, i, lines)
    BY <2>2, OpenForIs
  <2> HIDE DEF q
  <2>4. [q EXCEPT !.fenced = ~@]
          = [out |-> q.out, role |-> q.role, own |-> q.own, fenced |-> ~q.fenced, at |-> q.at]
    BY <2>3 DEF Lined, Formed
  <2>5. QED
    BY <2>1, <2>3, <2>4 DEF Lined, Formed
<1>3. CASE p.fenced /\ type # "fence"
  <2> DEFINE own == Append(p.own, i)
  <2>1. AiderLine(p, i, lines) = [p EXCEPT !.own = own]
    BY <1>3 DEF AiderLine
  <2> HIDE DEF own
  <2>2. [p EXCEPT !.own = own]
          = [out |-> p.out, role |-> p.role, own |-> own, fenced |-> p.fenced, at |-> p.at]
    BY <1>1
  <2>3. QED
    BY <1>1, <2>1, <2>2 DEF Lined, Formed, own
<1>4. CASE ~p.fenced /\ type = "user"
  <2>1. AiderLine(p, i, lines) = OpenFor(p, "user", i, lines)
    BY <1>4 DEF AiderLine
  <2>2. QED
    BY <2>1, OpenForIs
<1>5. CASE ~p.fenced /\ type = "tool"
  <2>1. AiderLine(p, i, lines) = OpenFor(p, "tool", i, lines)
    BY <1>5 DEF AiderLine
  <2>2. QED
    BY <2>1, OpenForIs
<1>6. CASE ~p.fenced /\ type = "blank"
  <2>1. AiderLine(p, i, lines) = IF p.role = "none" THEN p ELSE OpenFor(p, p.role, i, lines)
    BY <1>6 DEF AiderLine
  <2>2. Lined(p, p, i, lines)
    BY <1>1 DEF Lined, Formed
  <2>3. QED
    BY <2>1, <2>2, OpenForIs
<1>7. CASE ~p.fenced /\ type \notin {"fence", "user", "tool", "blank"}
  <2>1. AiderLine(p, i, lines) = OpenFor(p, "assistant", i, lines)
    BY <1>7 DEF AiderLine
  <2>2. QED
    BY <2>1, OpenForIs
<1>8. QED
  BY <1>1, <1>2, <1>3, <1>4, <1>5, <1>6, <1>7

\* A line read keeps what is pending well formed, and what is closed by then.
LEMMA LineKeeps ==
  ASSUME NEW p, NEW N \in Nat, Pending(p, N), NEW i \in 1 .. N, NEW lines
  PROVE  Pending(AiderLine(p, i, lines), N)
<1> DEFINE q == AiderLine(p, i, lines)
<1>1. Lined(q, p, i, lines)
  BY LineIs
<1>2. Closed(FlushPending(p, lines), p, lines)
  BY FlushIs
<1> SUFFICES Pending(q, N)
  OBVIOUS
<1> HIDE DEF q
<1>3. CASE q.out = p.out /\ q.own = p.own /\ q.role = p.role
  BY <1>1, <1>3 DEF Pending, Lined
<1>4. CASE q.out = p.out /\ q.own = Append(p.own, i) /\ q.role = p.role
  <2>1. Append(p.own, i) \in Seq(1 .. N) /\ Append(p.own, i) # <<>>
    <3>1. p.own \in Seq(1 .. N)
      BY DEF Pending
    <3>2. QED
      BY <3>1, SMTT(30)
  <2>2. QED
    BY <1>1, <1>4, <2>1 DEF Pending, Lined
<1>5. CASE q.out = FlushPending(p, lines) /\ q.own = <<i>> /\ q.role # "none"
  <2> DEFINE out == FlushPending(p, lines)
  <2>1. <<i>> \in Seq(1 .. N) /\ <<i>> # <<>>
    OBVIOUS
  <2>2. \A k \in 1 .. Len(p.out) : p.out[k].rec \in 1 .. N /\ p.out[k].role # "none"
    BY DEF Pending
  <2>3. Len(p.out) \in Nat
    BY DEF Pending, Tuple
  <2> HIDE DEF out
  <2>4. Closed(out, p, lines)
    BY <1>2 DEF out
  <2>5. ~Wordless(p, lines) => p.own[1] \in 1 .. N /\ p.role # "none"
    <3>1. p.own \in Seq(1 .. N) /\ (p.role # "none" => p.own # <<>>)
      BY DEF Pending
    <3>2. p.own # <<>> => p.own[1] \in 1 .. N
      BY <3>1
    <3>3. QED
      BY <3>1, <3>2 DEF Wordless
  <2>6. \A k \in 1 .. Len(out) : out[k].rec \in 1 .. N /\ out[k].role # "none"
    <3>1. CASE Wordless(p, lines)
      BY <2>2, <2>4, <3>1 DEF Closed
    <3>2. CASE ~Wordless(p, lines)
      BY <2>2, <2>3, <2>4, <2>5, <3>2, SMTT(30) DEF Closed
    <3>3. QED
      BY <3>1, <3>2
  <2>7. q.out = out
    BY <1>5 DEF out
  <2>8. QED
    BY <1>1, <1>5, <2>1, <2>4, <2>6, <2>7 DEF Pending, Lined, Closed
<1>6. QED
  BY <1>1, <1>3, <1>4, <1>5 DEF Lined

\* What would be shown if the history ended here stays, and at most one turn
\* comes with a line.
LEMMA LineExtends ==
  ASSUME NEW p, NEW N \in Nat, Pending(p, N), NEW i \in 1 .. N, NEW lines
  PROVE  /\ Extends(FlushPending(p, lines), FlushPending(AiderLine(p, i, lines), lines))
         /\ Len(FlushPending(AiderLine(p, i, lines), lines)) <= Len(FlushPending(p, lines)) + 1
<1> DEFINE q == AiderLine(p, i, lines)
           a == FlushPending(p, lines)
           b == FlushPending(q, lines)
<1>1. Lined(q, p, i, lines) /\ Pending(q, N)
  BY LineIs, LineKeeps
<1>2. Closed(a, p, lines) /\ Closed(b, q, lines)
  BY <1>1, FlushIs
<1> SUFFICES Extends(a, b) /\ Len(b) <= Len(a) + 1
  OBVIOUS
<1>3. Len(p.out) \in Nat /\ Len(q.out) \in Nat /\ Len(a) \in Nat /\ Len(b) \in Nat
  BY <1>1, <1>2 DEF Pending, Closed, Tuple
<1>4. CASE q.out = p.out /\ q.own = p.own /\ q.role = p.role
  <2> HIDE DEF q, a, b
  <2>1. Wordless(p, lines) <=> Wordless(q, lines)
    BY <1>4 DEF Wordless
  <2>2. Len(a) = Len(b) /\ \A k \in 1 .. Len(p.out) : a[k] = b[k]
    BY <1>2, <1>4, <2>1 DEF Closed
  <2>3. \/ Len(a) = Len(p.out)
        \/ /\ Len(a) = Len(p.out) + 1
           /\ a[Len(a)].rec = b[Len(b)].rec /\ a[Len(a)].role = b[Len(b)].role
    BY <1>2, <1>4, <2>1 DEF Closed
  <2>4. QED
    BY <1>3, <2>2, <2>3 DEF Extends, Same
<1>5. CASE q.out = p.out /\ q.own = Append(p.own, i) /\ q.role = p.role
  <2>1. p.own \in Seq(1 .. N)
    BY DEF Pending
  <2>2. ~Wordless(p, lines) => ~Wordless(q, lines) /\ q.own[1] = p.own[1]
    <3> SUFFICES ASSUME ~Wordless(p, lines) PROVE ~Wordless(q, lines) /\ q.own[1] = p.own[1]
      OBVIOUS
    <3>1. PICK k \in DOMAIN p.own : lines[p.own[k]].text # <<>>
      BY DEF Wordless
    <3>2. k \in 1 .. Len(p.own) /\ Len(p.own) \in Nat
      BY <2>1, <3>1
    <3>3. \A j \in 1 .. Len(p.own) : j \in DOMAIN Append(p.own, i) /\ Append(p.own, i)[j] = p.own[j]
      BY <2>1, AppendProperties
    <3>4. 1 \in 1 .. Len(p.own)
      BY <3>2
    <3> HIDE DEF q
    <3>5. QED
      BY <1>5, <3>1, <3>2, <3>3, <3>4 DEF Wordless
  <2> HIDE DEF q, a, b
  <2>3. CASE Wordless(p, lines)
    <3>1. Len(a) = Len(p.out) /\ Len(p.out) <= Len(b) /\ Len(b) <= Len(p.out) + 1
      BY <1>2, <1>3, <1>5, <2>3 DEF Closed
    <3>2. \A k \in 1 .. Len(a) : a[k] = b[k]
      BY <1>2, <1>5, <3>1 DEF Closed
    <3>3. QED
      BY <3>1, <3>2 DEF Extends, Same
  <2>4. CASE ~Wordless(p, lines)
    <3>1. /\ Len(a) = Len(p.out) + 1 /\ Len(b) = Len(p.out) + 1
          /\ \A k \in 1 .. Len(p.out) : a[k] = b[k]
          /\ a[Len(a)].rec = b[Len(b)].rec /\ a[Len(a)].role = b[Len(b)].role
      BY <1>2, <1>5, <2>2, <2>4 DEF Closed
    <3>2. QED
      BY <1>3, <3>1 DEF Extends, Same
  <2>5. QED
    BY <2>3, <2>4
<1>6. CASE q.out = a /\ q.own = <<i>> /\ q.role # "none"
  <2> HIDE DEF q, a, b
  <2>1. Len(a) <= Len(b) /\ Len(b) <= Len(a) + 1 /\ \A k \in 1 .. Len(a) : a[k] = b[k]
    BY <1>2, <1>3, <1>6 DEF Closed
  <2>2. QED
    BY <2>1 DEF Extends, Same
<1>7. QED
  BY <1>1, <1>4, <1>5, <1>6 DEF Lined

LEMMA ExtendsOn ==
  ASSUME NEW a, NEW b, NEW c, Extends(a, b), Extends(b, c),
         Len(a) \in Nat, Len(b) \in Nat, Len(c) \in Nat
  PROVE  Extends(a, c)
BY DEF Extends, Same

\* A block of lines 1 .. N.
OfLines(b, N) == Len(b.body) \in Nat /\ \A n \in 1 .. Len(b.body) : b.body[n] \in 1 .. N

LEMMA ReadPends ==
  ASSUME NEW b, NEW N \in Nat, OfLines(b, N), NEW lines, NEW m \in 0 .. Len(b.body)
  PROVE  Pending(AiderRead(b, lines)[m], N)
<1> DEFINE read == AiderRead(b, lines)
           Wrong == {n \in 0 .. Len(b.body) : ~Pending(read[n], N)}
<1> SUFFICES ASSUME Wrong # {} PROVE FALSE
  OBVIOUS
<1>1. Len(b.body) \in Nat
  BY DEF OfLines
<1>2. PICK k \in Wrong : \A n \in Wrong : k <= n
  <2>1. Wrong \subseteq Nat
    BY <1>1
  <2> HIDE DEF Wrong
  <2>2. QED
    BY <2>1, LeastExists
<1>3. k \in Nat /\ k \in 0 .. Len(b.body) /\ ~Pending(read[k], N)
  BY <1>1
<1>4. read[k] = AiderStep(b, lines, read, k)
  BY <1>3, AiderReadIs
<1>5. CASE k = 0
  <2>1. read[k] = Unread(b)
    BY <1>4, <1>5 DEF AiderStep
  <2>2. <<>> \in Seq(1 .. N) /\ Len(<<>>) = 0 /\ Tuple(<<>>, 0)
    <3>1. <<>> \in [1 .. 0 -> {}]
      OBVIOUS
    <3>2. Tuple(<<>>, 0)
      BY <3>1, Zenon DEF Tuple
    <3>3. QED
      BY <3>2, EmptySeq
  <2>3. Formed(Unread(b))
    BY DEF Unread, Formed
  <2>4. Pending(Unread(b), N)
    BY <2>2, <2>3 DEF Unread, Pending
  <2>5. QED
    BY <1>3, <2>1, <2>4
<1>6. CASE k # 0
  <2>1. k - 1 \in 0 .. Len(b.body) /\ ~(k <= k - 1) /\ k \in 1 .. Len(b.body)
    BY <1>1, <1>3, <1>6
  <2>2. Pending(read[k - 1], N)
    BY <1>2, <2>1
  <2>3. b.body[k] \in 1 .. N
    BY <2>1 DEF OfLines
  <2>4. read[k] = AiderLine(read[k - 1], b.body[k], lines)
    BY <1>4, <1>6 DEF AiderStep
  <2> HIDE DEF read
  <2>5. QED
    BY <1>3, <2>2, <2>3, <2>4, LineKeeps
<1>7. QED
  BY <1>5, <1>6

FirmAt(b, lines, m) == FlushPending(AiderRead(b, lines)[m], lines)

LEMMA FirmIs ==
  ASSUME NEW b, NEW N \in Nat, OfLines(b, N), NEW lines, NEW m \in 0 .. Len(b.body)
  PROVE  /\ Tuple(FirmAt(b, lines, m), Len(FirmAt(b, lines, m)))
         /\ \A k \in 1 .. Len(FirmAt(b, lines, m)) :
              FirmAt(b, lines, m)[k].rec \in 1 .. N /\ FirmAt(b, lines, m)[k].role # "none"
<1> DEFINE p == AiderRead(b, lines)[m]
           out == FlushPending(p, lines)
<1>1. Pending(p, N)
  BY ReadPends
<1> HIDE DEF p
<1>2. Closed(out, p, lines)
  BY <1>1, FlushIs
<1> HIDE DEF out
<1>3. Len(p.out) \in Nat /\ \A k \in 1 .. Len(p.out) : p.out[k].rec \in 1 .. N /\ p.out[k].role # "none"
  BY <1>1 DEF Pending, Tuple
<1>4. p.role # "none" => p.own[1] \in 1 .. N
  <2>1. p.own \in Seq(1 .. N) /\ (p.role # "none" => p.own # <<>>)
    BY <1>1 DEF Pending
  <2>2. p.own # <<>> => p.own[1] \in 1 .. N
    BY <2>1
  <2>3. QED
    BY <2>1, <2>2
<1>5. \A k \in 1 .. Len(out) : out[k].rec \in 1 .. N /\ out[k].role # "none"
  <2>1. CASE Wordless(p, lines)
    BY <1>2, <1>3, <2>1 DEF Closed
  <2>2. CASE ~Wordless(p, lines)
    <3>1. p.role # "none"
      BY <2>2 DEF Wordless
    <3>2. QED
      BY <1>2, <1>3, <1>4, <2>2, <3>1, SMTT(30) DEF Closed
  <2>3. QED
    BY <2>1, <2>2
<1>6. QED
  BY <1>2, <1>5 DEF Closed, FirmAt, out, p

LEMMA ReadExtends ==
  ASSUME NEW b, NEW N \in Nat, OfLines(b, N), NEW lines,
         NEW n \in 0 .. Len(b.body), NEW m \in n .. Len(b.body)
  PROVE  /\ Extends(FirmAt(b, lines, n), FirmAt(b, lines, m))
         /\ m <= n + 1 => Len(FirmAt(b, lines, m)) <= Len(FirmAt(b, lines, n)) + 1
<1> DEFINE L == Len(b.body)
           firm(i) == FirmAt(b, lines, i)
           Wrong == {i \in n .. L : ~Extends(firm(n), firm(i))}
<1>1. L \in Nat /\ n \in Nat
  BY DEF OfLines
<1>2. \A i \in 0 .. L : Len(firm(i)) \in Nat
  BY FirmIs DEF Tuple
<1>3. ASSUME NEW i \in 0 .. L, i # 0
      PROVE  Extends(firm(i - 1), firm(i)) /\ Len(firm(i)) <= Len(firm(i - 1)) + 1
  <2> DEFINE p == AiderRead(b, lines)[i - 1]
             q == AiderRead(b, lines)[i]
  <2>1. i - 1 \in 0 .. L /\ i \in 1 .. L /\ i \in Nat
    BY <1>1, <1>3
  <2>2. q = AiderLine(p, b.body[i], lines)
    BY <1>3, <2>1, AiderReadIs DEF AiderStep
  <2>3. Pending(p, N) /\ b.body[i] \in 1 .. N
    BY <2>1, ReadPends DEF OfLines
  <2> HIDE DEF p, q
  <2>4. /\ Extends(FlushPending(p, lines), FlushPending(q, lines))
        /\ Len(FlushPending(q, lines)) <= Len(FlushPending(p, lines)) + 1
    BY <2>2, <2>3, LineExtends
  <2>5. QED
    BY <2>4 DEF FirmAt, p, q
<1> HIDE DEF firm
<1>4. Wrong = {}
  <2> SUFFICES ASSUME Wrong # {} PROVE FALSE
    OBVIOUS
  <2>1. PICK k \in Wrong : \A i \in Wrong : k <= i
    <3>1. Wrong \subseteq Nat
      BY <1>1
    <3> HIDE DEF Wrong
    <3>2. QED
      BY <3>1, LeastExists
  <2>2. k \in n .. L /\ ~Extends(firm(n), firm(k)) /\ k \in 0 .. L
    BY <1>1
  <2>3. k # n
    <3>1. Extends(firm(n), firm(n))
      BY <1>2 DEF Extends, Same
    <3>2. QED
      BY <2>2, <3>1
  <2>4. k - 1 \in n .. L /\ k - 1 \in 0 .. L /\ k # 0 /\ ~(k <= k - 1)
    BY <1>1, <2>2, <2>3
  <2>5. Extends(firm(n), firm(k - 1))
    BY <2>1, <2>4
  <2>6. QED
    BY <1>2, <1>3, <2>2, <2>4, <2>5, ExtendsOn
<1>5. m <= n + 1 => Len(firm(m)) <= Len(firm(n)) + 1
  <2>1. m = n \/ m = n + 1 \/ m > n + 1
    BY <1>1
  <2>2. m = n + 1 => m \in 0 .. L /\ m # 0 /\ m - 1 = n
    BY <1>1
  <2>3. QED
    BY <1>1, <1>2, <1>3, <2>1, <2>2
<1>6. QED
  BY <1>4, <1>5 DEF firm

LEMMA MembersIn ==
  \A S, s : s \in Seq(S) => \A k \in DOMAIN s : s[k] \in S
  OBVIOUS

\* Reading a block looks at its own lines only.
LEMMA ClosesAlike ==
  ASSUME NEW p, NEW N, Pending(p, N), NEW s, NEW t, \A i \in 1 .. N : s[i] = t[i]
  PROVE  FlushPending(p, s) = FlushPending(p, t)
<1> DEFINE words(lines) == [k \in DOMAIN p.own |-> lines[p.own[k]].text]
           mute(lines) == \A k \in DOMAIN p.own : lines[p.own[k]].text = <<>>
<1>1. \A k \in DOMAIN p.own : s[p.own[k]] = t[p.own[k]]
  <2>1. p.own \in Seq(1 .. N)
    BY DEF Pending
  <2>2. \A k \in DOMAIN p.own : p.own[k] \in 1 .. N
    BY <2>1, MembersIn
  <2>3. QED
    BY <2>2
<1>2. words(s) = words(t)
  BY <1>1
<1>3. mute(s) <=> mute(t)
  BY <1>1
<1> DEFINE flushed(lines) ==
      IF p.role = "none" \/ mute(lines) THEN p.out
      ELSE LET text == FlattenSeq(words(lines))
               blocks == IF p.role = "tool" THEN <<Block("text", Len(text))>> ELSE TextBlocks(text)
           IN  Append(p.out, Turn(p.own[1], p.role, blocks, p.at + Len(p.out)))
<1>4. FlushPending(p, s) = flushed(s) /\ FlushPending(p, t) = flushed(t)
  BY DEF FlushPending
<1> HIDE DEF words, mute
<1>5. flushed(s) = flushed(t)
  BY <1>2, <1>3, Zenon
<1>6. QED
  BY <1>4, <1>5

LEMMA LinesAlike ==
  ASSUME NEW p, NEW N, Pending(p, N), NEW s, NEW t, \A i \in 1 .. N : s[i] = t[i], NEW i \in 1 .. N
  PROVE  AiderLine(p, i, s) = AiderLine(p, i, t)
<1>1. s[i] = t[i]
  OBVIOUS
<1>2. FlushPending(p, s) = FlushPending(p, t)
  BY ClosesAlike
<1>3. \A role : OpenFor(p, role, i, s) = OpenFor(p, role, i, t)
  BY <1>2 DEF OpenFor
<1>4. QED
  BY <1>1, <1>3 DEF AiderLine

\* Block c is block b, perhaps with more lines.
Continues(c, b) ==
  /\ c.at = b.at /\ Len(b.body) <= Len(c.body)
  /\ \A n \in 1 .. Len(b.body) : c.body[n] = b.body[n]

LEMMA ReadsSame ==
  ASSUME NEW b, NEW N \in Nat, OfLines(b, N), NEW c, Continues(c, b), NEW s, NEW t,
         \A i \in 1 .. N : s[i] = t[i], NEW m \in 0 .. Len(b.body)
  PROVE  AiderRead(b, s)[m] = AiderRead(c, t)[m]
<1> DEFINE r == AiderRead(b, s)
           q == AiderRead(c, t)
           Apart == {n \in 0 .. Len(b.body) : r[n] # q[n]}
<1> SUFFICES ASSUME Apart # {} PROVE FALSE
  OBVIOUS
<1>1. Len(b.body) \in Nat
  BY DEF OfLines
<1>2. PICK k \in Apart : \A n \in Apart : k <= n
  <2>1. Apart \subseteq Nat
    BY <1>1
  <2> HIDE DEF Apart
  <2>2. QED
    BY <2>1, LeastExists
<1>3. k \in Nat /\ k \in 0 .. Len(b.body) /\ r[k] # q[k]
  BY <1>1
<1>4. r[k] = AiderStep(b, s, r, k) /\ q[k] = AiderStep(c, t, q, k)
  BY <1>3, AiderReadIs
<1>5. CASE k = 0
  BY <1>3, <1>4, <1>5 DEF AiderStep, Unread, Continues
<1>6. CASE k # 0
  <2>1. k - 1 \in 0 .. Len(b.body) /\ ~(k <= k - 1) /\ k \in 1 .. Len(b.body)
    BY <1>1, <1>3, <1>6
  <2>2. r[k - 1] = q[k - 1]
    BY <1>2, <2>1
  <2>3. Pending(r[k - 1], N)
    BY <2>1, ReadPends
  <2>4. b.body[k] \in 1 .. N /\ c.body[k] = b.body[k]
    BY <2>1 DEF OfLines, Continues
  <2> HIDE DEF r, q
  <2>5. AiderLine(r[k - 1], b.body[k], s) = AiderLine(q[k - 1], c.body[k], t)
    <3> DEFINE p == r[k - 1]
               i == b.body[k]
    <3>1. Pending(p, N) /\ i \in 1 .. N
      BY <2>3, <2>4
    <3> HIDE DEF p, i
    <3>2. AiderLine(p, i, s) = AiderLine(p, i, t)
      BY <3>1, LinesAlike
    <3>3. QED
      BY <2>2, <2>4, <3>2 DEF p, i
  <2>6. QED
    BY <1>3, <1>4, <1>6, <2>5 DEF AiderStep
<1>7. QED
  BY <1>5, <1>6

\* What is shown of a block is shown of it when it, or the history, has grown.
LEMMA BlockExtends ==
  ASSUME NEW b, NEW N \in Nat, OfLines(b, N), NEW c, NEW M \in Nat, OfLines(c, M), Continues(c, b),
         NEW s, NEW t, \A i \in 1 .. N : s[i] = t[i]
  PROVE  /\ Extends(AiderTurns(b, s), AiderTurns(c, t))
         /\ Len(c.body) <= Len(b.body) + 1 => Len(AiderTurns(c, t)) <= Len(AiderTurns(b, s)) + 1
<1> DEFINE n == Len(b.body)
           m == Len(c.body)
<1>1. n \in 0 .. n /\ n \in 0 .. m /\ m \in n .. m
  BY DEF OfLines, Continues
<1>2. AiderRead(b, s)[n] = AiderRead(c, t)[n] /\ Pending(AiderRead(b, s)[n], N)
  BY <1>1, ReadsSame, ReadPends
<1>3. AiderTurns(b, s) = FirmAt(c, t, n)
  <2>1. FlushPending(AiderRead(b, s)[n], s) = FlushPending(AiderRead(b, s)[n], t)
    BY <1>2, ClosesAlike
  <2>2. QED
    BY <1>2, <2>1 DEF AiderTurns, FirmAt
<1>4. AiderTurns(c, t) = FirmAt(c, t, m)
  BY DEF AiderTurns, FirmAt
<1>5. QED
  BY <1>1, <1>3, <1>4, ReadExtends

(***************************************************************************)
(* Aider: the blocks of a history.                                         *)
(***************************************************************************)
LEMMA MapIsSeq ==
  ASSUME NEW f, NEW n \in Nat, DOMAIN f = 1 .. n, NEW S, \A k \in 1 .. n : f[k] \in S,
         f = [k \in 1 .. n |-> f[k]]
  PROVE  f \in Seq(S) /\ Len(f) = n
<1>1. f \in [1 .. n -> S]
  OBVIOUS
<1>2. QED
  BY <1>1

DatedHeads(lines) == {i \in Heads(lines) : Dated(lines[i])}
Places(lines) == [i \in DOMAIN lines |-> i]

LEMMA StartsAre ==
  ASSUME NEW lines \in Seq(Records)
  PROVE  /\ Starts(lines) = Picked(Places(lines), DatedHeads(lines))
         /\ Places(lines) \in Seq(1 .. Len(lines)) /\ Len(Places(lines)) = Len(lines)
         /\ Starts(lines) \in Seq(1 .. Len(lines))
<1> DEFINE n == Len(lines)
           here == Places(lines)
<1>1. n \in Nat /\ DOMAIN lines = 1 .. n
  BY LenProperties
<1>2. here \in Seq(1 .. n) /\ Len(here) = n
  <2>1. here \in [1 .. n -> 1 .. n]
    BY <1>1 DEF Places
  <2> HIDE DEF here
  <2>2. QED
    BY <1>1, <2>1
<1>3. Starts(lines) = Picked(here, DatedHeads(lines))
  BY DEF Starts, DatedHeads, Places
<1> HIDE DEF here, n
<1>4. Picked(here, DatedHeads(lines)) \in Seq(1 .. n)
  BY <1>2, PickedIs DEF Picks
<1>5. QED
  BY <1>2, <1>3, <1>4 DEF here, n

LEMMA BodyIs ==
  ASSUME NEW lines \in Seq(Records), NEW i \in 1 .. Len(lines)
  PROVE  /\ Body(lines, i) \in SUBSET ((i + 1) .. Len(lines))
         /\ IsFiniteSet(Body(lines, i)) /\ Cardinality(Body(lines, i)) \in 0 .. Len(lines) - i
<1> DEFINE n == Len(lines)
<1>1. n \in Nat /\ DOMAIN lines = 1 .. n /\ i \in Nat /\ i <= n
  BY LenProperties
<1>2. Body(lines, i) \in SUBSET ((i + 1) .. n)
  BY <1>1 DEF Body
<1>3. IsFiniteSet((i + 1) .. n) /\ Cardinality((i + 1) .. n) = n - i
  <2>1. i + 1 \in Int /\ n \in Int
    BY <1>1
  <2>2. /\ IsFiniteSet((i + 1) .. n)
        /\ Cardinality((i + 1) .. n) = IF i + 1 > n THEN 0 ELSE n - (i + 1) + 1
    BY <2>1, FS_Interval, Zenon
  <2>3. QED
    BY <1>1, <2>2
<1>4. IsFiniteSet(Body(lines, i)) /\ Cardinality(Body(lines, i)) <= n - i
  BY <1>2, <1>3, FS_Subset
<1>5. QED
  BY <1>1, <1>2, <1>4, FS_CardinalityType

\* The k-th block.
BlockAt(lines, i) ==
  [at |-> Time(i, lines[i], 0), body |-> [j \in 1 .. Cardinality(Body(lines, i)) |-> i + j]]

LEMMA BlockIs ==
  ASSUME NEW lines \in Seq(Records), NEW i \in 1 .. Len(lines)
  PROVE  /\ OfLines(BlockAt(lines, i), Len(lines))
         /\ BlockAt(lines, i).at = Time(i, lines[i], 0)
         /\ Len(BlockAt(lines, i).body) = Cardinality(Body(lines, i))
         /\ \A n \in 1 .. Cardinality(Body(lines, i)) : BlockAt(lines, i).body[n] = i + n
<1> DEFINE c == Cardinality(Body(lines, i))
           body == [j \in 1 .. c |-> i + j]
<1>1. c \in Nat /\ c <= Len(lines) - i /\ i \in Nat /\ Len(lines) \in Nat
  BY BodyIs, LenProperties
<1>2. BlockAt(lines, i).at = Time(i, lines[i], 0) /\ BlockAt(lines, i).body = body
  BY DEF BlockAt
<1>3. \A n \in 1 .. c : body[n] = i + n /\ body[n] \in 1 .. Len(lines)
  <2> HIDE DEF c
  <2>1. QED
    BY <1>1
<1>4. body \in Seq(Nat) /\ Len(body) = c
  <2> HIDE DEF c
  <2>1. body \in [1 .. c -> Nat]
    BY <1>1
  <2> HIDE DEF body
  <2>2. QED
    BY <1>1, <2>1
<1> HIDE DEF c, body
<1>5. QED
  BY <1>1, <1>2, <1>3, <1>4 DEF OfLines, c

LEMMA SplitIs ==
  ASSUME NEW lines \in Seq(Records)
  PROVE  /\ Len(Starts(lines)) \in Nat
         /\ SplitSessions(lines) \in Seq({BlockAt(lines, i) : i \in 1 .. Len(lines)})
         /\ Len(SplitSessions(lines)) = Len(Starts(lines))
         /\ \A k \in 1 .. Len(Starts(lines)) :
              Starts(lines)[k] \in 1 .. Len(lines)
                /\ SplitSessions(lines)[k] = BlockAt(lines, Starts(lines)[k])
<1> DEFINE starts == Starts(lines)
           blocks == SplitSessions(lines)
           B == {BlockAt(lines, i) : i \in 1 .. Len(lines)}
<1>1. starts \in Seq(1 .. Len(lines))
  BY StartsAre
<1>2. Len(starts) \in Nat /\ DOMAIN starts = 1 .. Len(starts)
  BY <1>1, LenProperties
<1>3. \A k \in 1 .. Len(starts) : starts[k] \in 1 .. Len(lines)
  BY <1>1, <1>2, MembersIn
<1>4. blocks = [k \in 1 .. Len(starts) |-> BlockAt(lines, starts[k])]
  BY <1>2 DEF SplitSessions, BlockAt
<1> HIDE DEF blocks, starts
<1>5. DOMAIN blocks = 1 .. Len(starts) /\ \A k \in 1 .. Len(starts) : blocks[k] = BlockAt(lines, starts[k])
  BY <1>4
<1>6. blocks \in [1 .. Len(starts) -> B]
  BY <1>3, <1>4
<1> HIDE DEF B
<1>7. blocks \in Seq(B) /\ Len(blocks) = Len(starts)
  BY <1>2, <1>6
<1>8. QED
  BY <1>2, <1>3, <1>5, <1>7 DEF blocks, starts, B

\* The lines of a block are still its lines when the history has grown.
LEMMA BodyGrows ==
  ASSUME NEW s \in Seq(Records), NEW t \in Seq(Records), Begins(s, t), NEW i \in 1 .. Len(s)
  PROVE  /\ Cardinality(Body(s, i)) <= Cardinality(Body(t, i))
         /\ Len(t) <= Len(s) + 1 => Cardinality(Body(t, i)) <= Cardinality(Body(s, i)) + 1
<1> DEFINE n == Len(s)
           m == Len(t)
<1>1. n \in Nat /\ m \in Nat /\ n <= m /\ DOMAIN s = 1 .. n /\ DOMAIN t = 1 .. m /\ i \in 1 .. m /\ i \in Nat
  BY LenProperties DEF Begins
<1>2. \A j \in 1 .. n : s[j] = t[j]
  BY DEF Begins
<1>3. \A j \in 1 .. n : Heads(s) \cap (i + 1) .. j = Heads(t) \cap (i + 1) .. j
  BY <1>1, <1>2 DEF Heads
<1>4. Body(s, i) \in SUBSET Body(t, i) /\ Body(t, i) \in SUBSET (Body(s, i) \cup (n + 1) .. m)
  BY <1>1, <1>3 DEF Body
<1>5. IsFiniteSet(Body(s, i)) /\ IsFiniteSet(Body(t, i))
  BY <1>1, BodyIs
<1>6. Cardinality(Body(s, i)) \in Nat /\ Cardinality(Body(t, i)) \in Nat
  BY <1>5, FS_CardinalityType
<1>7. Cardinality(Body(s, i)) <= Cardinality(Body(t, i))
  BY <1>4, <1>5, FS_Subset
<1>8. ASSUME m <= n + 1
      PROVE  Cardinality(Body(t, i)) <= Cardinality(Body(s, i)) + 1
  <2> DEFINE more == Body(s, i) \cup {m}
  <2>1. Body(t, i) \in SUBSET more
    BY <1>1, <1>4, <1>8
  <2>2. IsFiniteSet(more) /\ Cardinality(more) <= Cardinality(Body(s, i)) + 1
    <3> DEFINE body == Body(s, i)
    <3>1. IsFiniteSet(body) /\ Cardinality(body) \in Nat
      BY <1>5, <1>6
    <3> HIDE DEF body, m
    <3>2. /\ IsFiniteSet(body \cup {m})
          /\ Cardinality(body \cup {m})
               = IF m \in body THEN Cardinality(body) ELSE Cardinality(body) + 1
      BY <3>1, FS_AddElement, Zenon
    <3>3. QED
      BY <3>1, <3>2 DEF body
  <2> HIDE DEF more
  <2>3. Cardinality(Body(t, i)) <= Cardinality(more) /\ Cardinality(more) \in Nat
    BY <2>1, <2>2, FS_Subset, FS_CardinalityType
  <2>4. QED
    BY <1>6, <2>2, <2>3
<1>9. QED
  BY <1>7, <1>8

LEMMA BlockGrows ==
  ASSUME NEW s \in Seq(Records), NEW t \in Seq(Records), Begins(s, t), NEW i \in 1 .. Len(s)
  PROVE  /\ i \in 1 .. Len(t) /\ Continues(BlockAt(t, i), BlockAt(s, i))
         /\ Len(t) <= Len(s) + 1 => Len(BlockAt(t, i).body) <= Len(BlockAt(s, i).body) + 1
<1>1. Len(s) \in Nat /\ Len(t) \in Nat /\ i \in 1 .. Len(t) /\ s[i] = t[i]
  BY LenProperties DEF Begins
<1>2. Cardinality(Body(s, i)) \in Nat /\ Cardinality(Body(t, i)) \in Nat
  BY <1>1, BodyIs
<1>3. BlockAt(t, i).at = BlockAt(s, i).at
  BY <1>1, BlockIs
<1>4. \A n \in 1 .. Cardinality(Body(s, i)) : BlockAt(t, i).body[n] = BlockAt(s, i).body[n]
  <2> SUFFICES ASSUME NEW n \in 1 .. Cardinality(Body(s, i)) PROVE BlockAt(t, i).body[n] = BlockAt(s, i).body[n]
    OBVIOUS
  <2>1. n \in 1 .. Cardinality(Body(t, i))
    BY <1>2, BodyGrows
  <2>2. QED
    BY <1>1, <2>1, BlockIs
<1>5. Len(BlockAt(t, i).body) = Cardinality(Body(t, i)) /\ Len(BlockAt(s, i).body) = Cardinality(Body(s, i))
  BY <1>1, BlockIs
<1>6. QED
  BY <1>1, <1>3, <1>4, <1>5, BodyGrows DEF Continues

\* The block of a session, when the history has one.
OfSecond(lines, ref) ==
  Picked(SplitSessions(lines), {k \in DOMAIN SplitSessions(lines) : SplitSessions(lines)[k].at = ref})

LEMMA SecondIs ==
  ASSUME NEW lines \in Seq(Records), NEW ref
  PROVE  /\ Len(OfSecond(lines, ref)) \in Nat
         /\ OfSecond(lines, ref) # <<>> =>
              Len(OfSecond(lines, ref)) # 0 /\ OfLines(OfSecond(lines, ref)[1], Len(lines))
<1> DEFINE same == OfSecond(lines, ref)
           B == {BlockAt(lines, i) : i \in 1 .. Len(lines)}
<1>1. SplitSessions(lines) \in Seq(B)
  BY SplitIs
<1>2. \A b \in B : OfLines(b, Len(lines))
  BY BlockIs
<1> HIDE DEF B
<1>3. same \in Seq(B)
  BY <1>1, PickedIs DEF OfSecond, Picks
<1> HIDE DEF same
<1>4. Len(same) \in Nat /\ (same # <<>> => Len(same) # 0 /\ same[1] \in B)
  BY <1>3
<1>5. QED
  BY <1>2, <1>4 DEF same

LEMMA FoundIs ==
  ASSUME NEW lines \in Seq(Records), NEW ref
  PROVE  /\ Tuple(AiderFound(lines, ref), Len(AiderFound(lines, ref)))
         /\ \A k \in 1 .. Len(AiderFound(lines, ref)) :
              /\ AiderFound(lines, ref)[k].rec \in 1 .. Len(lines)
              /\ AiderFound(lines, ref)[k].role # "none"
<1> DEFINE same == OfSecond(lines, ref)
<1>1. AiderFound(lines, ref) = IF same = <<>> THEN <<>> ELSE AiderTurns(same[1], lines)
  BY DEF AiderFound, OfSecond
<1>2. CASE same = <<>>
  <2>1. AiderFound(lines, ref) = <<>>
    BY <1>1, <1>2
  <2>2. Len(<<>>) = 0 /\ <<>> \in [1 .. 0 -> {}]
    OBVIOUS
  <2>3. QED
    BY <2>1, <2>2 DEF Tuple
<1>3. CASE same # <<>>
  <2> DEFINE b == same[1]
             n == Len(b.body)
  <2>1. OfLines(b, Len(lines)) /\ Len(lines) \in Nat
    BY <1>3, SecondIs, LenProperties
  <2>2. n \in 0 .. n
    BY <2>1 DEF OfLines
  <2>3. AiderFound(lines, ref) = FirmAt(b, lines, n)
    BY <1>1, <1>3 DEF AiderTurns, FirmAt
  <2> HIDE DEF b
  <2>4. QED
    BY <2>1, <2>2, <2>3, FirmIs
<1>4. QED
  BY <1>2, <1>3

\* A session is still found where the history goes on, and of its turns at most
\* the last is another when no more than a line of no header is added.
Grown(s, t, ref) ==
  /\ Extends(AiderFound(s, ref), AiderFound(t, ref))
  /\ Len(t) <= Len(s) + 1 /\ (\A i \in 1 .. Len(t) : i <= Len(s) \/ t[i].type # "head")
       => Len(AiderFound(t, ref)) <= Len(AiderFound(s, ref)) + 1

LEMMA StartsGrow ==
  ASSUME NEW s \in Seq(Records), NEW t \in Seq(Records), Begins(s, t)
  PROVE  /\ Len(Starts(s)) <= Len(Starts(t))
         /\ \A k \in 1 .. Len(Starts(s)) : Starts(s)[k] = Starts(t)[k]
         /\ (\A i \in 1 .. Len(t) : i <= Len(s) \/ t[i].type # "head")
              => Len(Starts(s)) = Len(Starts(t))
<1> DEFINE n == Len(s)
           m == Len(t)
           I == DatedHeads(s)
           J == DatedHeads(t)
           p == Places(s)
           q == Places(t)
<1>1. n \in Nat /\ m \in Nat /\ n <= m /\ DOMAIN s = 1 .. n /\ DOMAIN t = 1 .. m
  BY LenProperties DEF Begins
<1>2. \A i \in 1 .. n : s[i] = t[i]
  BY DEF Begins
<1>3. (1 .. n) \cap I = (1 .. n) \cap J
  BY <1>1, <1>2 DEF DatedHeads, Heads
<1>4. \A i \in 1 .. n : p[i] = i /\ q[i] = i
  BY <1>1 DEF Places
<1>5. (\A i \in 1 .. m : i <= n \/ t[i].type # "head") => \A i \in (1 .. m) \cap J : i <= n
  BY DEF DatedHeads, Heads
<1>6. /\ Starts(s) = Picked(p, I) /\ p \in Seq(1 .. n) /\ Len(p) = n
      /\ Starts(t) = Picked(q, J) /\ q \in Seq(1 .. m) /\ Len(q) = m
  BY StartsAre
<1> HIDE DEF n, m, I, J, p, q
<1>7. /\ Beside(Picked(p, I), Picked(q, J), p, q, I, n)
      /\ (\A i \in (1 .. m) \cap J : i <= n) => Len(Picked(p, I)) = Len(Picked(q, J))
  <2>1. /\ p \in Seq(1 .. n) /\ q \in Seq(1 .. m)
        /\ Len(p) <= Len(q) /\ (1 .. Len(p)) \cap I = (1 .. Len(p)) \cap J
    BY <1>1, <1>3, <1>6
  <2>2. PicksGrow(p, q, I, J)
    BY <2>1, PickedGrows
  <2>3. QED
    BY <1>6, <2>2 DEF PicksGrow
<1>8. QED
  BY <1>4, <1>5, <1>6, <1>7 DEF Beside, n, m

LEMMA SecondsGrow ==
  ASSUME NEW s \in Seq(Records), NEW t \in Seq(Records), Begins(s, t), NEW ref
  PROVE  /\ OfSecond(s, ref) # <<>> =>
              /\ OfSecond(t, ref) # <<>>
              /\ Continues(OfSecond(t, ref)[1], OfSecond(s, ref)[1])
              /\ Len(t) <= Len(s) + 1 =>
                   Len(OfSecond(t, ref)[1].body) <= Len(OfSecond(s, ref)[1].body) + 1
         /\ Len(Starts(s)) = Len(Starts(t)) /\ OfSecond(s, ref) = <<>> => OfSecond(t, ref) = <<>>
<1> DEFINE b == SplitSessions(s)
           c == SplitSessions(t)
           B == {BlockAt(s, i) : i \in 1 .. Len(s)}
           C == {BlockAt(t, i) : i \in 1 .. Len(t)}
           I == {k \in DOMAIN b : b[k].at = ref}
           J == {k \in DOMAIN c : c[k].at = ref}
           n == Len(Starts(s))
           m == Len(Starts(t))
           p == OfSecond(s, ref)
           q == OfSecond(t, ref)
           close == Len(t) <= Len(s) + 1
<1>1. /\ n \in Nat /\ b \in Seq(B) /\ Len(b) = n /\ DOMAIN b = 1 .. n
      /\ m \in Nat /\ c \in Seq(C) /\ Len(c) = m /\ DOMAIN c = 1 .. m
      /\ n <= m
  <2>1. n \in Nat /\ b \in Seq(B) /\ Len(b) = n /\ m \in Nat /\ c \in Seq(C) /\ Len(c) = m
    BY SplitIs
  <2>2. n <= m
    BY StartsGrow
  <2> HIDE DEF b, c, B, C
  <2>3. DOMAIN b = 1 .. n /\ DOMAIN c = 1 .. m
    BY <2>1
  <2>4. QED
    BY <2>1, <2>2, <2>3
<1>2. \A k \in 1 .. n :
        /\ Continues(c[k], b[k])
        /\ close => Len(c[k].body) <= Len(b[k].body) + 1
  <2> SUFFICES ASSUME NEW k \in 1 .. n
               PROVE  /\ Continues(c[k], b[k])
                      /\ close => Len(c[k].body) <= Len(b[k].body) + 1
    OBVIOUS
  <2>1. Starts(s)[k] \in 1 .. Len(s) /\ b[k] = BlockAt(s, Starts(s)[k])
    BY SplitIs
  <2>2. k \in 1 .. m
    BY <1>1
  <2>3. c[k] = BlockAt(t, Starts(s)[k])
    BY <2>2, SplitIs, StartsGrow
  <2> HIDE DEF b, c
  <2>4. QED
    BY <2>1, <2>3, BlockGrows
<1>3. (1 .. n) \cap I = (1 .. n) \cap J
  <2>1. \A k \in 1 .. n : b[k].at = c[k].at /\ k \in 1 .. m
    BY <1>1, <1>2 DEF Continues
  <2> HIDE DEF b, c
  <2>2. QED
    BY <1>1, <2>1
<1>4. p = Picked(b, I) /\ q = Picked(c, J)
  BY DEF OfSecond
<1> HIDE DEF b, c, B, C, I, J, n, m, p, q
<1>5. p \in Seq(B) /\ q \in Seq(C)
  BY <1>1, <1>4, PickedIs DEF Picks
<1>6. /\ Beside(p, q, b, c, I, n)
      /\ (\A i \in (1 .. m) \cap J : i <= n) => Len(p) = Len(q)
  <2>1. b \in Seq(B) /\ c \in Seq(C) /\ Len(b) <= Len(c) /\ (1 .. Len(b)) \cap I = (1 .. Len(b)) \cap J
    BY <1>1, <1>3
  <2> HIDE DEF close
  <2>2. PicksGrow(b, c, I, J)
    BY <2>1, PickedGrows
  <2>3. QED
    BY <1>1, <1>4, <2>2 DEF PicksGrow
<1>7. Len(p) \in Nat /\ Len(q) \in Nat /\ (p = <<>> <=> Len(p) = 0) /\ (q = <<>> <=> Len(q) = 0)
  BY <1>5
<1>8. ASSUME p # <<>>
      PROVE  q # <<>> /\ Continues(q[1], p[1]) /\ (close => Len(q[1].body) <= Len(p[1].body) + 1)
  <2>1. 1 \in 1 .. Len(p) /\ q # <<>>
    BY <1>6, <1>7, <1>8 DEF Beside
  <2>2. PICK i \in (1 .. n) \cap I : p[1] = b[i] /\ q[1] = c[i]
    BY <1>6, <2>1 DEF Beside
  <2> HIDE DEF close
  <2>3. QED
    BY <1>2, <2>1, <2>2
<1>9. n = m /\ p = <<>> => q = <<>>
  <2>1. n = m => \A i \in (1 .. m) \cap J : i <= n
    BY <1>1
  <2>2. QED
    BY <1>6, <1>7, <2>1
<1>10. QED
  BY <1>8, <1>9 DEF p, q, n, m

LEMMA FoundGoesOn ==
  ASSUME NEW s \in Seq(Records), NEW t \in Seq(Records), Begins(s, t), NEW ref
  PROVE  Grown(s, t, ref)
<1> DEFINE p == OfSecond(s, ref)
           q == OfSecond(t, ref)
           a == AiderFound(s, ref)
           z == AiderFound(t, ref)
           close == Len(t) <= Len(s) + 1
           prose == \A i \in 1 .. Len(t) : i <= Len(s) \/ t[i].type # "head"
<1>1. /\ a = IF p = <<>> THEN <<>> ELSE AiderTurns(p[1], s)
      /\ z = IF q = <<>> THEN <<>> ELSE AiderTurns(q[1], t)
  BY DEF AiderFound, OfSecond
<1>2. Len(s) \in Nat /\ Len(t) \in Nat /\ \A i \in 1 .. Len(s) : s[i] = t[i]
  BY LenProperties DEF Begins
<1>3. CASE p # <<>>
  <2>1. /\ q # <<>> /\ Continues(q[1], p[1])
        /\ close => Len(q[1].body) <= Len(p[1].body) + 1
    BY <1>3, SecondsGrow
  <2>2. OfLines(p[1], Len(s)) /\ OfLines(q[1], Len(t))
    BY <1>3, <2>1, SecondIs
  <2>3. a = AiderTurns(p[1], s) /\ z = AiderTurns(q[1], t)
    BY <1>1, <1>3, <2>1
  <2> HIDE DEF p, q, a, z, close, prose
  <2>4. /\ Extends(AiderTurns(p[1], s), AiderTurns(q[1], t))
        /\ Len(q[1].body) <= Len(p[1].body) + 1
             => Len(AiderTurns(q[1], t)) <= Len(AiderTurns(p[1], s)) + 1
    BY <1>2, <2>1, <2>2, BlockExtends
  <2>5. Extends(a, z) /\ (close => Len(z) <= Len(a) + 1)
    BY <2>1, <2>3, <2>4
  <2>6. QED
    BY <2>5 DEF Grown, a, z, close
<1>4. CASE p = <<>>
  <2>1. a = <<>> /\ Len(a) = 0 /\ Len(z) \in Nat
    <3>1. Len(z) \in Nat
      BY FoundIs DEF Tuple
    <3>2. a = <<>>
      BY <1>1, <1>4
    <3>3. QED
      BY <3>1, <3>2
  <2>2. prose => q = <<>>
    BY <1>4, StartsGrow, SecondsGrow
  <2>3. q = <<>> => Len(z) = 0
    BY <1>1
  <2> HIDE DEF p, q, a, z, close, prose
  <2>4. Extends(a, z) /\ (prose => Len(z) <= Len(a) + 1)
    BY <2>1, <2>2, <2>3 DEF Extends
  <2>5. QED
    BY <2>4 DEF Grown, a, z, prose
<1>5. QED
  BY <1>3, <1>4

(***************************************************************************)
(* What stands.  What is settled stays so, and whatever was shown, but for *)
(* Aider's last turn and Copilot's checkpoint, was found in it.            *)
(***************************************************************************)
LEMMA SettledFollows ==
  ASSUME NEW d, Whole(d), NEW e, Whole(e), Len(d.recs) <= Len(e.recs),
         e.half = "no" \/ (d.half = "no" /\ Len(d.recs) < Len(e.recs)),
         \A i \in 1 .. Len(d.recs) : (i = Len(d.recs) /\ d.half # "no") \/ e.recs[i] = d.recs[i]
  PROVE  Begins(Settled(d), Settled(e))
<1> DEFINE n == Len(Settled(d))
           m == Len(Settled(e))
<1>1. Len(d.recs) \in Nat /\ Len(e.recs) \in Nat
  BY LenProperties DEF Whole, Disks
<1>2. /\ n = IF d.half = "no" THEN Len(d.recs) ELSE Len(d.recs) - 1
      /\ m = IF e.half = "no" THEN Len(e.recs) ELSE Len(e.recs) - 1
      /\ \A i \in 1 .. n : Settled(d)[i] = d.recs[i]
      /\ \A i \in 1 .. m : Settled(e)[i] = e.recs[i]
  BY SettledIs DEF Begins
<1> HIDE DEF n, m
<1>3. n <= m /\ n \in Int /\ m \in Int
  BY <1>1, <1>2
<1>4. \A i \in 1 .. n : i \in 1 .. m /\ e.recs[i] = d.recs[i]
  BY <1>1, <1>2, <1>3
<1>5. n <= m /\ \A i \in 1 .. n : Settled(d)[i] = Settled(e)[i]
  BY <1>2, <1>3, <1>4
<1>6. QED
  BY <1>5 DEF Begins, n, m

LEMMA DiskIsWhole == DiskInv => Whole(disk)
BY DEF DiskInv, Whole

LEMMA SettledGrows ==
  ASSUME DiskInv, [Next]_vars, tool \notin {"opencode", "cursor"}
  PROVE  Begins(Settled(disk), Settled(disk'))
<1> DEFINE last == Len(disk.recs)
<1>1. /\ disk \in Disks /\ disk.recs \in Seq(Records) /\ last \in Nat
      /\ disk.half # "no" => last \in 1 .. last
      /\ Whole(disk)
  BY LenProperties, EmptySeq DEF DiskInv, Whole, Disks
<1>2. Whole(disk')
  BY DiskKept DEF DiskInv, Whole
<1>3. ASSUME NEW recs \in Seq(Records), NEW half \in Halves, disk' = Disk(recs, half), last <= Len(recs),
             half = "no" \/ (disk.half = "no" /\ last < Len(recs)),
             \A i \in 1 .. last : (i = last /\ disk.half # "no") \/ recs[i] = disk.recs[i]
      PROVE  Begins(Settled(disk), Settled(disk'))
  <2>1. disk'.recs = recs /\ disk'.half = half
    BY <1>1, <1>3, DiskIs
  <2>2. QED
    BY <1>1, <1>2, <1>3, <2>1, SettledFollows
<1>4. ASSUME NEW q \in Records, NEW recs \in Seq(Records), Len(recs) = last,
             \A i \in 1 .. last : (i = last /\ disk.half # "no") \/ recs[i] = disk.recs[i],
             NEW half \in Halves, half = "no" \/ disk.half = "no", disk' = Disk(Append(recs, q), half)
      PROVE  Begins(Settled(disk), Settled(disk'))
  <2> DEFINE more == Append(recs, q)
  <2>1. more \in Seq(Records) /\ Len(more) = last + 1
    BY <1>4, Longer
  <2>2. \A i \in 1 .. last : more[i] = recs[i]
    BY <1>4, AppendProperties
  <2> HIDE DEF more
  <2>3. disk' = Disk(more, half)
    BY <1>4 DEF more
  <2>4. last <= Len(more) /\ last < Len(more)
    BY <1>1, <2>1
  <2>5. \A i \in 1 .. last : (i = last /\ disk.half # "no") \/ more[i] = disk.recs[i]
    BY <1>4, <2>2
  <2> HIDE DEF last
  <2>6. QED
    BY <1>3, <1>4, <2>1, <2>3, <2>4, <2>5
<1>5. "no" \in Halves /\ "plain" \in Halves /\ "split" \in Halves
  BY DEF Halves
<1>6. ASSUME NEW q \in Records, disk.half # "no"
      PROVE  /\ [disk.recs EXCEPT ![last] = q] \in Seq(Records)
             /\ Len([disk.recs EXCEPT ![last] = q]) = last
             /\ \A i \in 1 .. last : i = last \/ [disk.recs EXCEPT ![last] = q][i] = disk.recs[i]
  BY <1>1, <1>6, Kept
<1>7. ASSUME NEW r \in Written(tool), Write(r) PROVE Begins(Settled(disk), Settled(disk'))
  <2>1. r \in Records
    BY TranscriptsAssumption DEF DiskInv
  <2>2. CASE disk' = Disk(Append(disk.recs, r), "no")
    BY <1>1, <1>4, <1>5, <2>1, <2>2
  <2>3. ASSUME NEW rest \in Records, disk.half # "no",
               disk' = Disk([disk.recs EXCEPT ![last] = rest], "no")
        PROVE  Begins(Settled(disk), Settled(disk'))
    <3> DEFINE recs == [disk.recs EXCEPT ![last] = rest]
    <3>1. /\ recs \in Seq(Records) /\ Len(recs) = last
          /\ \A i \in 1 .. last : i = last \/ recs[i] = disk.recs[i]
      BY <1>6, <2>3
    <3>2. disk' = Disk(recs, "no")
      BY <2>3
    <3>3. last <= last
      BY <1>1
    <3> HIDE DEF recs, last
    <3>4. QED
      BY <1>3, <1>5, <2>3, <3>1, <3>2, <3>3
  <2>4. CASE disk.half # "no" /\ disk' = Disk(Append([disk.recs EXCEPT ![last] = Bad], r), "no")
    <3> DEFINE recs == [disk.recs EXCEPT ![last] = Bad]
    <3>1. /\ recs \in Seq(Records) /\ Len(recs) = last
          /\ \A i \in 1 .. last : i = last \/ recs[i] = disk.recs[i]
      BY <1>6, <2>4, BadIsRecord
    <3>2. disk' = Disk(Append(recs, r), "no")
      BY <2>4
    <3> HIDE DEF recs
    <3>3. QED
      BY <1>4, <1>5, <2>1, <2>4, <3>1, <3>2
  <2>5. disk.half # "no" => disk.recs[last] \in Records
    BY <1>1, ElementOfSeq
  <2>6. \/ disk' = Disk(Append(disk.recs, r), "no")
        \/ disk.half # "no" /\ \E rest \in {Binary, Bad, AsProse(disk.recs[last])} :
                                disk' = Disk([disk.recs EXCEPT ![last] = rest], "no")
        \/ disk.half # "no" /\ disk' = Disk(Append([disk.recs EXCEPT ![last] = Bad], r), "no")
    BY <1>7 DEF Write
  <2>7. QED
    BY <2>2, <2>3, <2>4, <2>5, <2>6, BadIsRecord, ChangedRecord
<1>8. ASSUME NEW r \in Written(tool), NEW cut \in {"plain", "split"}, Tear(r, cut)
      PROVE  Begins(Settled(disk), Settled(disk'))
  <2>1. r \in Records
    BY TranscriptsAssumption DEF DiskInv
  <2>2. disk' = Disk(Append(disk.recs, r), cut) /\ disk.half = "no" /\ cut \in Halves
    BY <1>5, <1>8 DEF Tear
  <2>3. QED
    BY <1>1, <1>4, <2>1, <2>2
<1>9. CASE Complete
  <2>1. disk' = Disk(disk.recs, "no") /\ last <= last /\ last = Len(disk.recs)
    BY <1>1, <1>9 DEF Complete
  <2> HIDE DEF last
  <2>2. QED
    BY <1>1, <1>3, <1>5, <2>1
<1>10. CASE UNCHANGED disk
  <2>1. Len(Settled(disk)) \in Nat
    BY <1>1, SettledIs, LenProperties
  <2>2. QED
    BY <1>10, <2>1 DEF Begins
<1>11. \/ \E r \in Written(tool) : Write(r) \/ \E cut \in {"plain", "split"} : Tear(r, cut)
       \/ Complete \/ UNCHANGED disk
       \/ \E meta \in Metas : WriteBeside(meta)
  BY DEF Next, vars, AddPart, ListBubble, Discover, Load
<1>12. ASSUME NEW meta \in Metas, WriteBeside(meta) PROVE Begins(Settled(disk), Settled(disk'))
  <2>1. Settled(disk') = Settled(disk)
    BY <1>1, <1>12, BesideIs DEF Settled, WriteBeside
  <2>2. Len(Settled(disk)) \in Nat
    BY <1>1, SettledIs, LenProperties
  <2>3. QED
    BY <2>1, <2>2 DEF Begins
<1>13. QED
  BY <1>7, <1>8, <1>9, <1>10, <1>11, <1>12

\* The lines Aider's history is read as: what is settled, and a torn line as prose.
LEMMA AiderLinesAre ==
  ASSUME NEW d, Whole(d), Utf8(d)
  PROVE  /\ AiderLines(d) \in Seq(Records) /\ Len(AiderLines(d)) = Len(d.recs)
         /\ Begins(Settled(d), AiderLines(d)) /\ Len(AiderLines(d)) <= Len(Settled(d)) + 1
         /\ \A i \in 1 .. Len(AiderLines(d)) : i <= Len(Settled(d)) \/ AiderLines(d)[i].type # "head"
<1> DEFINE lines == AiderLines(d)
           n == Len(d.recs)
           m == Len(Settled(d))
<1>1. n \in Nat /\ DOMAIN d.recs = 1 .. n /\ \A i \in 1 .. n : d.recs[i] \in Records
  <2>1. d.recs \in Seq(Records)
    BY DEF Whole, Disks
  <2>2. QED
    BY <2>1, LenProperties, MembersIn
<1>2. lines = [i \in 1 .. n |-> lines[i]] /\ DOMAIN lines = 1 .. n
  BY <1>1 DEF AiderLines
<1>3. \A i \in 1 .. n : lines[i] = IF i = n /\ d.half = "plain" THEN AsProse(d.recs[i]) ELSE d.recs[i]
  BY <1>1 DEF AiderLines
<1>4. \A i \in 1 .. n : lines[i] \in Records
  BY <1>1, <1>3, ChangedRecord
<1>5. /\ m = IF d.half = "no" THEN n ELSE n - 1
      /\ \A i \in 1 .. m : Settled(d)[i] = d.recs[i]
      /\ d.half \in {"no", "plain"}
  BY SettledIs DEF Begins, Utf8, Whole, Disks
<1>6. \A r \in Records : AsProse(r).type = "prose"
  <2>1. \A r \in Records : [r EXCEPT !.type = "prose"].type = "prose"
    BY DEF Records
  <2>2. \A q, x : [q EXCEPT !.text = x].type = q.type
    OBVIOUS
  <2>3. \A r : AsProse(r) = [[r EXCEPT !.type = "prose"] EXCEPT !.text = <<"p">>]
    BY DEF AsProse
  <2>4. QED
    BY <2>1, <2>2, <2>3, Zenon
<1> HIDE DEF lines, n, m
<1>7. lines \in Seq(Records) /\ Len(lines) = n
  BY <1>1, <1>2, <1>4, MapIsSeq
<1>8. m \in Int /\ m <= n /\ n <= m + 1 /\ \A i \in 1 .. m : Settled(d)[i] = lines[i]
  BY <1>1, <1>3, <1>5
<1>9. \A i \in 1 .. n : i <= m \/ lines[i].type # "head"
  BY <1>1, <1>3, <1>5, <1>6
<1>10. QED
  BY <1>7, <1>8, <1>9 DEF Begins, lines, n, m

\* What of the session ref stands, of the history of the tool t on disk d.
Standing(t, d, ref) == IF t = "aider" THEN AiderFound(Settled(d), ref) ELSE FoundIn(t, Settled(d))
Stands(t, turns, found) ==
  \A k \in 1 .. Len(turns) :
    \/ t = "aider" /\ k = Len(turns)
    \/ turns[k] = Checkpoint
    \/ k \in 1 .. Len(found) /\ Same(turns[k], found[k])

Measured(turns, counts) ==
  /\ Tuple(turns, Len(turns))
  /\ \A k \in 1 .. Len(turns) : turns[k].rec \in 0 .. MaxRecs /\ turns[k].role # "none"
  /\ counts.errors + counts.skipped + counts.empty <= counts.seen

\* The inductive invariant.
ShownInv ==
  /\ DiskInv
  /\ began \in Int
  /\ Measured(shown.turns, stats)
  /\ tool = "aider" /\ shown.ref = 0 => shown.turns = <<>>
  /\ tool \notin {"opencode", "cursor"} => Stands(tool, shown.turns, Standing(tool, disk, shown.ref))

LEMMA StandsIsTuple ==
  ASSUME DiskInv, NEW ref
  PROVE  Tuple(Standing(tool, disk, ref), Len(Standing(tool, disk, ref)))
<1>1. Settled(disk) \in Seq(Records)
  BY DiskIsWhole, SettledIs
<1>2. Tuple(FoundIn(tool, Settled(disk)), Len(FoundIn(tool, Settled(disk))))
  BY <1>1, VisitedAre, TurnsAreTuple DEF FoundIn
<1>3. QED
  BY <1>1, <1>2, FoundIs DEF Standing

LEMMA AiderLoadIs ==
  ASSUME NEW d, NEW ref
  PROVE  /\ AiderLoad(d, ref).ok => Utf8(d)
         /\ Utf8(d) => /\ AiderLoad(d, ref).turns = AiderFound(AiderLines(d), ref)
                       /\ AiderLoad(d, ref).stats = [NoStats EXCEPT !.seen = Len(AiderFound(AiderLines(d), ref))]
<1> DEFINE turns == AiderFound(AiderLines(d), ref)
           counts == [NoStats EXCEPT !.seen = Len(turns)]
<1>1. AiderLoad(d, ref) = IF ~Utf8(d) THEN Failed ELSE [ok |-> TRUE, turns |-> turns, stats |-> counts]
  BY DEF AiderLoad
<1> HIDE DEF turns, counts
<1>2. Utf8(d) => AiderLoad(d, ref).turns = turns /\ AiderLoad(d, ref).stats = counts
  BY <1>1
<1>3. AiderLoad(d, ref).ok => Utf8(d)
  BY <1>1 DEF Failed
<1>4. QED
  BY <1>2, <1>3 DEF turns, counts

LEMMA LoadMeasured ==
  ASSUME DiskInv, NEW ref, NEW start \in Int, LoadSession(disk, ref, start).ok
  PROVE  Measured(LoadSession(disk, ref, start).turns, LoadSession(disk, ref, start).stats)
<1> DEFINE load == LoadSession(disk, ref, start)
<1>1. MaxRecs \in Nat /\ Len(disk.recs) \in Nat /\ Len(disk.recs) <= MaxRecs
  BY TranscriptsAssumption, LenProperties DEF DiskInv, Disks
<1>2. CASE tool # "aider"
  <2>1. Loaded(load, disk.recs)
    BY <1>2, AllLoad
  <2> HIDE DEF load
  <2>2. \A k \in 1 .. Len(load.turns) : load.turns[k].rec \in 0 .. MaxRecs
    BY <1>1, <2>1 DEF Loaded
  <2>3. QED
    BY <2>1, <2>2 DEF Loaded, Measured, load
<1>3. CASE tool = "aider"
  <2> DEFINE turns == AiderFound(AiderLines(disk), ref)
             counts == [NoStats EXCEPT !.seen = Len(turns)]
  <2>1. load = AiderLoad(disk, ref)
    BY <1>3 DEF LoadSession
  <2>2. Utf8(disk) /\ load.turns = turns /\ load.stats = counts
    BY <2>1, AiderLoadIs
  <2>3. AiderLines(disk) \in Seq(Records) /\ Len(AiderLines(disk)) = Len(disk.recs)
    BY <2>2, DiskIsWhole, AiderLinesAre
  <2>4. /\ Tuple(turns, Len(turns))
        /\ \A k \in 1 .. Len(turns) : turns[k].rec \in 1 .. Len(disk.recs) /\ turns[k].role # "none"
    BY <2>3, FoundIs
  <2> HIDE DEF turns, load
  <2>5. counts.errors = 0 /\ counts.skipped = 0 /\ counts.empty = 0 /\ counts.seen = Len(turns)
    BY DEF NoStats
  <2>6. \A k \in 1 .. Len(turns) : turns[k].rec \in 0 .. MaxRecs
    BY <1>1, <2>4
  <2>7. Len(turns) \in Nat
    BY <2>4 DEF Tuple
  <2> HIDE DEF counts
  <2>8. Measured(turns, counts)
    BY <2>4, <2>5, <2>6, <2>7 DEF Measured
  <2>9. QED
    BY <2>2, <2>8 DEF load
<1>4. QED
  BY <1>2, <1>3

\* A load finds what stands, and shows no more than that but for Aider's last turn
\* and Copilot's checkpoint.
LEMMA LoadStands ==
  ASSUME DiskInv, tool \notin {"opencode", "cursor"}, NEW ref, NEW start \in Int, LoadSession(disk, ref, start).ok
  PROVE  /\ Stands(tool, LoadSession(disk, ref, start).turns, Standing(tool, disk, ref))
         /\ Extends(Standing(tool, disk, ref), LoadSession(disk, ref, start).turns)
<1> DEFINE turns == LoadSession(disk, ref, start).turns
           found == Standing(tool, disk, ref)
<1>1. Whole(disk) /\ Settled(disk) \in Seq(Records)
  BY DiskIsWhole, SettledIs
<1>2. Tuple(found, Len(found)) /\ Tuple(turns, Len(turns))
  BY StandsIsTuple, LoadMeasured DEF Measured
<1>3. Len(found) \in Nat /\ Len(turns) \in Nat /\ DOMAIN turns = 1 .. Len(turns)
  BY <1>2, TupleIs
<1>4. CASE tool = "aider"
  <2> DEFINE lines == AiderLines(disk)
  <2>1. LoadSession(disk, ref, start) = AiderLoad(disk, ref)
    BY <1>4 DEF LoadSession
  <2>2. Utf8(disk) /\ turns = AiderFound(lines, ref) /\ found = AiderFound(Settled(disk), ref)
    BY <1>4, <2>1, AiderLoadIs DEF Standing
  <2>3. /\ lines \in Seq(Records) /\ Begins(Settled(disk), lines) /\ Len(lines) <= Len(Settled(disk)) + 1
        /\ \A i \in 1 .. Len(lines) : i <= Len(Settled(disk)) \/ lines[i].type # "head"
    BY <1>1, <2>2, AiderLinesAre
  <2> HIDE DEF lines, turns, found
  <2>4. Extends(found, turns) /\ Len(turns) <= Len(found) + 1
    BY <1>1, <2>2, <2>3, FoundGoesOn DEF Grown
  <2>5. \A k \in 1 .. Len(turns) : k = Len(turns) \/ (k \in 1 .. Len(found) /\ Same(turns[k], found[k]))
    <3>1. \A k \in 1 .. Len(turns) : k = Len(turns) \/ k \in 1 .. Len(found)
      <4>1. \A x, y \in Nat : x <= y + 1 => \A k \in 1 .. x : k = x \/ k \in 1 .. y
        OBVIOUS
      <4>2. QED
        BY <1>3, <2>4, <4>1
    <3>2. \A k \in 1 .. Len(found) : Same(turns[k], found[k])
      BY <2>4 DEF Extends, Same
    <3>3. QED
      BY <3>1, <3>2
  <2>6. QED
    BY <1>4, <2>4, <2>5 DEF Stands, turns, found
<1>5. CASE tool # "aider"
  <2>1. tool \in LineTools \cup ArrayTools
    BY <1>5, TranscriptsAssumption DEF DiskInv
  <2>2. found = FoundIn(tool, Settled(disk))
    BY <1>5 DEF Standing
  <2>3. \/ Agree(found, turns)
        \/ disk.recs = <<>> /\ \A k \in DOMAIN turns : turns[k] = Checkpoint
    BY <1>1, <2>1, <2>2, LoadFinds
  <2>4. disk.recs = <<>> => Len(found) <= 0
    <3>1. Len(FoundIn(tool, Settled(disk))) <= Len(Settled(disk))
      BY <1>1, VisitedAre, TurnsAreTuple DEF FoundIn
    <3>2. disk.recs = <<>> => Len(Settled(disk)) = 0
      BY <1>1, SettledIs DEF Whole
    <3>3. QED
      BY <2>2, <3>1, <3>2
  <2> HIDE DEF turns, found
  <2>5. CASE Agree(found, turns)
    BY <1>3, <2>5 DEF Agree, Extends, Stands, turns, found
  <2>6. CASE disk.recs = <<>> /\ \A k \in DOMAIN turns : turns[k] = Checkpoint
    BY <1>3, <2>4, <2>6 DEF Extends, Stands, turns, found
  <2>7. QED
    BY <2>3, <2>5, <2>6
<1>6. QED
  BY <1>4, <1>5

\* The agent does not take back what stands.
LEMMA StandsOn ==
  ASSUME DiskInv, [Next]_vars, tool \notin {"opencode", "cursor"}, NEW turns, NEW ref,
         Stands(tool, turns, Standing(tool, disk, ref))
  PROVE  Stands(tool', turns, Standing(tool', disk', ref))
<1> DEFINE s == Settled(disk)
           t == Settled(disk')
           found == Standing(tool, disk, ref)
           on == IF tool = "aider" THEN AiderFound(t, ref) ELSE FoundIn(tool, t)
<1>1. tool' = tool /\ Standing(tool', disk', ref) = on
  BY DiskSteps DEF DiskStep, Standing
<1>2. s \in Seq(Records) /\ t \in Seq(Records)
  BY DiskIsWhole, SettledIs, DiskKept DEF DiskInv, Whole
<1>3. Begins(s, t)
  BY SettledGrows
<1>4. Extends(found, on)
  <2>1. tool # "aider" => tool \in LineTools \cup ArrayTools
    BY TranscriptsAssumption DEF DiskInv
  <2>2. QED
    BY <1>2, <1>3, <2>1, FoundGrows, FoundGoesOn DEF Standing, Grown
<1>5. Tuple(found, Len(found)) /\ Tuple(on, Len(on))
  BY <1>2, StandsIsTuple, FoundIs, VisitedAre, TurnsAreTuple DEF FoundIn
<1> HIDE DEF found, on
<1>6. Len(found) \in Nat /\ Len(on) \in Nat
  BY <1>5 DEF Tuple
<1>7. \A k \in 1 .. Len(turns) :
        \/ tool = "aider" /\ k = Len(turns)
        \/ turns[k] = Checkpoint
        \/ k \in 1 .. Len(on) /\ Same(turns[k], on[k])
  BY <1>4, <1>6 DEF Stands, Extends, Same, found
<1>8. QED
  BY <1>1, <1>7 DEF Stands

\* No session is of the second 0.
LEMMA NoneAtZero ==
  ASSUME NEW lines \in Seq(Records)
  PROVE  AiderFound(lines, 0) = <<>>
<1> DEFINE starts == Starts(lines)
           blocks == SplitSessions(lines)
           here == Places(lines)
           I == DatedHeads(lines)
           n == Len(lines)
           none == {k \in DOMAIN blocks : blocks[k].at = 0}
           B == {BlockAt(lines, i) : i \in 1 .. Len(lines)}
<1>1. n \in Nat /\ DOMAIN lines = 1 .. n /\ \A i \in 1 .. n : lines[i] \in Records
  BY LenProperties, MembersIn
<1>2. /\ starts = Picked(here, I) /\ here \in Seq(1 .. n) /\ Len(here) = n
      /\ Len(starts) \in Nat /\ blocks \in Seq(B) /\ Len(blocks) = Len(starts)
      /\ \A k \in 1 .. Len(starts) : starts[k] \in 1 .. n /\ blocks[k] = BlockAt(lines, starts[k])
  BY StartsAre, SplitIs
<1>3. \A i \in 1 .. n : here[i] = i
  BY <1>1 DEF Places
<1>4. \A i \in I : i \in 1 .. n /\ Dated(lines[i])
  BY <1>1 DEF DatedHeads, Heads
<1> HIDE DEF starts, blocks, here, I, B, n, none
<1>5. \A k \in 1 .. Len(starts) : starts[k] \in I
  <2>1. Picks(Picked(here, I), here, I, n, 1 .. n)
    BY <1>2, PickedIs
  <2> SUFFICES ASSUME NEW k \in 1 .. Len(starts) PROVE starts[k] \in I
    OBVIOUS
  <2>2. PICK i \in (1 .. n) \cap I : here[i] = starts[k]
    BY <1>2, <2>1, Zenon DEF Picks
  <2>3. QED
    BY <1>3, <2>2
<1>6. \A k \in 1 .. Len(starts) : blocks[k].at # 0
  <2> SUFFICES ASSUME NEW k \in 1 .. Len(starts) PROVE blocks[k].at # 0
    OBVIOUS
  <2> DEFINE i == starts[k]
  <2>1. i \in 1 .. n /\ Dated(lines[i]) /\ lines[i] \in Records
    BY <1>1, <1>4, <1>5
  <2>2. blocks[k] = BlockAt(lines, i)
    BY <1>2
  <2> HIDE DEF i
  <2>3. blocks[k].at = Time(i, lines[i], 0)
    BY <2>1, <2>2, BlockIs DEF n
  <2>4. lines[i].at \in {"own", "early"}
    BY <2>1 DEF Dated, Records
  <2>5. i \in Nat
    BY <1>1, <2>1
  <2>6. QED
    BY <2>3, <2>4, <2>5 DEF Time, Start
<1>7. none = {}
  <2>1. DOMAIN blocks = 1 .. Len(starts)
    BY <1>2
  <2>2. QED
    BY <1>6, <2>1 DEF none
<1>8. Picked(blocks, none) = <<>>
  <2>1. Picks(Picked(blocks, none), blocks, none, Len(blocks), B)
    BY <1>2, PickedIs
  <2> DEFINE same == Picked(blocks, none)
  <2> HIDE DEF same
  <2>2. same \in Seq(B) /\ ~\E j \in 1 .. Len(same) : same[j] = same[j]
    BY <1>7, <2>1 DEF Picks, same
  <2>3. QED
    BY <2>2 DEF same
<1>9. QED
  BY <1>8 DEF AiderFound, blocks, none

\* A step loads or leaves what is shown.
LoadStep(ref) ==
  /\ LoadSession(disk, ref, began).ok /\ shown.ref \in {0, ref}
  /\ shown' = [ref |-> ref, turns |-> LoadSession(disk, ref, began).turns]
  /\ stats' = LoadSession(disk, ref, began).stats
  /\ UNCHANGED <<tool, disk, began>>

LEMMA ShownSteps ==
  ASSUME [Next]_vars
  PROVE  UNCHANGED <<shown, stats>> \/ \E ref : LoadStep(ref)
<1>1. ASSUME NEW ref, Load(ref) PROVE UNCHANGED <<shown, stats>> \/ LoadStep(ref)
  BY <1>1 DEF Load, setup, LoadStep
<1>2. CASE ~\E ref \in listed : Load(ref)
  BY <1>2 DEF Next, vars, Write, Tear, Complete, AddPart, ListBubble, WriteBeside, Discover, Reader
<1>3. QED
  BY <1>1, <1>2

LEMMA BeganSteps ==
  ASSUME [Next]_vars
  PROVE  began' \in {began, StartedAt(disk)}
BY DEF Next, vars, Write, Tear, Complete, AddPart, ListBubble, WriteBeside, Discover, Load, Reader

LEMMA ShownStart == Init => ShownInv
<1> SUFFICES ASSUME Init PROVE ShownInv
  OBVIOUS
<1>1. shown.turns = <<>> /\ Len(<<>>) = 0 /\ stats = NoStats
  BY DEF Init, NoLoad
<1>2. Tuple(shown.turns, Len(shown.turns))
  <2>1. <<>> \in [1 .. 0 -> {}]
    OBVIOUS
  <2>2. QED
    BY <1>1, <2>1 DEF Tuple
<1>3. Measured(shown.turns, stats)
  BY <1>1, <1>2 DEF Measured, NoStats
<1>4. Stands(tool, shown.turns, Standing(tool, disk, shown.ref))
  BY <1>1 DEF Stands
<1>5. QED
  BY <1>1, <1>3, <1>4, DiskStart DEF ShownInv, Init, Start

LEMMA ShownKept ==
  ASSUME ShownInv, [Next]_vars
  PROVE  ShownInv'
<1> SUFFICES /\ DiskInv' /\ began' \in Int
             /\ Measured(shown'.turns, stats')
             /\ tool' = "aider" /\ shown'.ref = 0 => shown'.turns = <<>>
             /\ tool' \notin {"opencode", "cursor"} =>
                  Stands(tool', shown'.turns, Standing(tool', disk', shown'.ref))
  BY DEF ShownInv
<1>1. DiskInv /\ DiskInv' /\ tool' = tool /\ began \in Int /\ began' \in Int
  <2>1. DiskInv /\ began \in Int /\ StartedAt(disk) \in Int
    BY StartIs DEF ShownInv, DiskInv
  <2>2. began' \in {began, StartedAt(disk)}
    BY BeganSteps
  <2>3. QED
    BY <2>1, <2>2, DiskKept, DiskSteps DEF DiskStep
<1>2. CASE UNCHANGED <<shown, stats>>
  <2>1. tool \notin {"opencode", "cursor"} =>
          Stands(tool', shown.turns, Standing(tool', disk', shown.ref))
    BY <1>1, StandsOn DEF ShownInv
  <2>2. shown' = shown /\ stats' = stats
    BY <1>2
  <2>3. QED
    BY <1>1, <2>1, <2>2 DEF ShownInv
<1>3. ASSUME NEW ref, LoadStep(ref)
      PROVE  /\ Measured(shown'.turns, stats')
             /\ tool' = "aider" /\ shown'.ref = 0 => shown'.turns = <<>>
             /\ tool' \notin {"opencode", "cursor"} =>
                  Stands(tool', shown'.turns, Standing(tool', disk', shown'.ref))
  <2> DEFINE turns == LoadSession(disk, ref, began).turns
  <2>1. /\ LoadSession(disk, ref, began).ok /\ disk' = disk
        /\ shown'.ref = ref /\ shown'.turns = turns /\ stats' = LoadSession(disk, ref, began).stats
    BY <1>3 DEF LoadStep
  <2>2. Measured(turns, stats')
    BY <1>1, <2>1, LoadMeasured
  <2>3. tool \notin {"opencode", "cursor"} => Stands(tool, turns, Standing(tool, disk, ref))
    BY <1>1, <2>1, LoadStands
  <2>4. tool = "aider" /\ ref = 0 => turns = <<>>
    <3> SUFFICES ASSUME tool = "aider", ref = 0 PROVE turns = <<>>
      OBVIOUS
    <3>1. LoadSession(disk, ref, began) = AiderLoad(disk, ref)
      BY DEF LoadSession
    <3>2. Utf8(disk) /\ turns = AiderFound(AiderLines(disk), ref)
      <4>1. AiderLoad(disk, ref).ok
        BY <2>1, <3>1
      <4>2. Utf8(disk)
        BY <4>1, AiderLoadIs
      <4>3. AiderLoad(disk, ref).turns = AiderFound(AiderLines(disk), ref)
        BY <4>2, AiderLoadIs
      <4>4. QED
        BY <3>1, <4>2, <4>3
    <3>3. AiderLines(disk) \in Seq(Records)
      BY <1>1, <3>2, DiskIsWhole, AiderLinesAre
    <3>4. QED
      BY <3>2, <3>3, NoneAtZero
  <2> HIDE DEF turns
  <2>5. QED
    BY <1>1, <2>1, <2>2, <2>3, <2>4
<1>4. QED
  BY <1>1, <1>2, <1>3, ShownSteps

\* Whatever is written, torn or run together, a load shows records that are there,
\* in a role, and counts no more left out than it read.
THEOREM TypeCorrect == Spec => []TypeOK
<1>1. ShownInv => TypeOK
  <2> SUFFICES ASSUME ShownInv PROVE TypeOK
    OBVIOUS
  <2>1. DiskInv /\ Measured(shown.turns, stats)
    BY DEF ShownInv
  <2>2. DOMAIN shown.turns = 1 .. Len(shown.turns)
    BY <2>1, TupleIs DEF Measured
  <2>3. QED
    BY <2>1, <2>2 DEF DiskInv, Disks, Measured, TypeOK
<1>2. ShownInv /\ [Next]_vars => ShownInv'
  BY ShownKept
<1>3. QED
  BY <1>1, <1>2, ShownStart, PTL DEF Spec

\* What a load showed at a place, a later load of the grown history shows there too
\* (provider/load.rs, the readers' parse/ modules): a star, a note or a citation that
\* names a turn by its place keeps naming it.
THEOREM TurnsCorrect == Spec => TurnsStay
<1> DEFINE Stay ==
      tool \notin {"opencode", "cursor"} =>
        \A k \in DOMAIN shown.turns :
            \/ tool = "aider" /\ k = Len(shown.turns)
            \/ shown.turns[k] = Checkpoint
            \/ k \in DOMAIN shown'.turns /\ Same(shown.turns[k], shown'.turns[k])
<1>1. ASSUME ShownInv, [Next]_vars, shown' # shown
      PROVE  Stay
  <2> SUFFICES ASSUME tool \notin {"opencode", "cursor"}, NEW k \in DOMAIN shown.turns
               PROVE  \/ tool = "aider" /\ k = Len(shown.turns)
                      \/ shown.turns[k] = Checkpoint
                      \/ k \in DOMAIN shown'.turns /\ Same(shown.turns[k], shown'.turns[k])
    OBVIOUS
  <2>1. PICK ref : LoadStep(ref)
    BY <1>1, ShownSteps
  <2> DEFINE load == LoadSession(disk, ref, began)
             found == Standing(tool, disk, ref)
  <2>2. DiskInv /\ load.ok /\ shown'.turns = load.turns /\ shown.ref \in {0, ref} /\ began \in Int
    BY <1>1, <2>1 DEF LoadStep, ShownInv
  <2>3. DOMAIN shown.turns = 1 .. Len(shown.turns) /\ DOMAIN load.turns = 1 .. Len(load.turns)
    BY <1>1, <2>2, LoadMeasured, TupleIs DEF ShownInv, Measured
  <2>4. Stands(tool, shown.turns, found)
    <3>1. Stands(tool, shown.turns, Standing(tool, disk, shown.ref))
      BY <1>1 DEF ShownInv
    <3>2. tool # "aider" => found = Standing(tool, disk, shown.ref)
      BY DEF Standing
    <3>3. tool = "aider" => found = Standing(tool, disk, shown.ref) \/ shown.turns = <<>>
      BY <1>1, <2>2 DEF ShownInv
    <3>4. shown.turns = <<>> => DOMAIN shown.turns = {}
      OBVIOUS
    <3>5. QED
      BY <3>1, <3>2, <3>3, <3>4
  <2>5. Extends(found, load.turns) /\ Tuple(found, Len(found)) /\ Tuple(load.turns, Len(load.turns))
    BY <2>2, LoadStands, StandsIsTuple, LoadMeasured DEF Measured
  <2> HIDE DEF load, found
  <2>6. Len(found) \in Nat /\ Len(load.turns) \in Nat
    BY <2>5 DEF Tuple
  <2>7. QED
    BY <2>2, <2>3, <2>4, <2>5, <2>6 DEF Stands, Extends, Same
<1>2. ShownInv /\ [Next]_vars => [Stay]_shown
  BY <1>1
<1>3. ShownInv /\ [Next]_vars => ShownInv'
  BY ShownKept
<1>4. QED
  BY <1>2, <1>3, ShownStart, PTL DEF Spec, TurnsStay

(***************************************************************************)
(* Lists.  What is picked from a sequence stands at positions of its own.  *)
(***************************************************************************)
Drawn(t, s, n, I) ==
  /\ Tuple(t, Len(t)) /\ Len(t) <= n
  /\ \A j \in 1 .. Len(t) : \E i \in (1 .. n) \cap I : Place(I, i) = j /\ t[j] = s[i]
  /\ \A i \in (1 .. n) \cap I : \E j \in 1 .. Len(t) : Place(I, i) = j /\ t[j] = s[i]

LEMMA DrawnFrom ==
  ASSUME NEW s, NEW n, Tuple(s, n), NEW I
  PROVE  Drawn(Picked(s, I), s, n, I)
<1>1. PICK S : s \in [1 .. n -> S]
  BY DEF Tuple
<1>2. n \in Nat /\ Len(s) = n
  BY TupleIs
<1>3. s \in Seq(S)
  BY <1>1, <1>2
<1> DEFINE t == Picked(s, I)
<1>4. t \in Seq(S) /\ Len(t) <= n
  BY <1>2, <1>3, PickedIs DEF Picks
<1>5. InPlace(t, s, I, n)
  BY <1>2, <1>3, PickedInPlace
<1> HIDE DEF t
<1>6. Len(t) \in Nat /\ t \in [1 .. Len(t) -> S]
  BY <1>4
<1>7. Tuple(t, Len(t))
  BY <1>6 DEF Tuple
<1>8. QED
  BY <1>4, <1>5, <1>7 DEF Drawn, InPlace, t

\* A listing has the session ref below the bases P, once merged, and never with
\* fewer than c messages.
Listed(list, ref, P, c) ==
  /\ Tuple(list, Len(list))
  /\ \A k \in 1 .. Len(list) : list[k].ref = ref => list[k].path \in P
  /\ \A p \in P : \E k \in 1 .. Len(list) : list[k].ref = ref /\ list[k].path = p
  /\ \A k \in 1 .. Len(list) : list[k].ref = ref /\ ~Known(list, k) => list[k].count >= c

Entries(list, ref) == Picked(list, {k \in DOMAIN list : list[k].ref = ref})

LEMMA MergedOnce ==
  ASSUME NEW list, NEW ref, NEW P, NEW c, Listed(list, ref, P, c)
  PROVE  LET t == Merged(list)
         IN  /\ Tuple(t, Len(t))
             /\ \A j, l \in 1 .. Len(t) : t[j].ref = t[l].ref /\ t[j].path = t[l].path => j = l
             /\ \A j \in 1 .. Len(t) : t[j].ref = ref => t[j].path \in P /\ t[j].count >= c
             /\ \A p \in P : \E j \in 1 .. Len(t) : t[j].ref = ref /\ t[j].path = p
<1> DEFINE n == Len(list)
           K == {k \in DOMAIN list : ~Known(list, k)}
           t == Merged(list)
<1>1. n \in Nat /\ DOMAIN list = 1 .. n /\ Tuple(list, n)
  BY TupleIs DEF Listed
<1>2. Drawn(t, list, n, K)
  BY <1>1, DrawnFrom DEF Merged
<1>3. \A i \in (1 .. n) \cap K : ~Known(list, i)
  OBVIOUS
<1>4. \A i \in 1 .. n : ~Known(list, i) => i \in (1 .. n) \cap K
  BY <1>1
<1> HIDE DEF t, K
<1>5. ASSUME NEW i \in (1 .. n) \cap K, NEW k \in (1 .. n) \cap K,
             list[i].ref = list[k].ref, list[i].path = list[k].path
      PROVE  i = k
  <2>1. ~(i < k) /\ ~(k < i)
    BY <1>1, <1>3, <1>5 DEF Known
  <2>2. QED
    BY <1>1, <2>1
<1>6. ASSUME NEW j \in 1 .. Len(t), NEW l \in 1 .. Len(t), t[j].ref = t[l].ref, t[j].path = t[l].path
      PROVE  j = l
  <2>1. PICK i \in (1 .. n) \cap K : Place(K, i) = j /\ t[j] = list[i]
    BY <1>2 DEF Drawn
  <2>2. PICK k \in (1 .. n) \cap K : Place(K, k) = l /\ t[l] = list[k]
    BY <1>2 DEF Drawn
  <2>3. QED
    BY <1>5, <1>6, <2>1, <2>2
<1>7. ASSUME NEW j \in 1 .. Len(t), t[j].ref = ref
      PROVE  t[j].path \in P /\ t[j].count >= c
  <2>1. PICK i \in (1 .. n) \cap K : t[j] = list[i]
    BY <1>2 DEF Drawn
  <2>2. QED
    BY <1>3, <1>7, <2>1 DEF Listed
<1>8. ASSUME NEW p \in P
      PROVE  \E j \in 1 .. Len(t) : t[j].ref = ref /\ t[j].path = p
  <2> DEFINE T == {k \in 1 .. n : list[k].ref = ref /\ list[k].path = p}
  <2>1. T \subseteq Nat /\ T # {}
    BY <1>1 DEF Listed
  <2>2. PICK i \in T : \A k \in T : i <= k
    BY <2>1, LeastExists
  <2>3. ~Known(list, i)
    <3> SUFFICES ASSUME Known(list, i) PROVE FALSE
      OBVIOUS
    <3>1. PICK k \in 1 .. i - 1 : list[k].ref = ref /\ list[k].path = p
      BY <2>2 DEF Known
    <3>2. k \in T /\ k < i
      BY <1>1, <2>2, <3>1
    <3>3. QED
      BY <1>1, <2>2, <3>2
  <2>4. PICK j \in 1 .. Len(t) : t[j] = list[i]
    BY <1>2, <1>4, <2>2, <2>3 DEF Drawn
  <2>5. QED
    BY <2>2, <2>4
<1>9. QED
  <2>1. Tuple(t, Len(t))
    BY <1>2 DEF Drawn
  <2>2. QED
    BY <1>6, <1>7, <1>8, <2>1 DEF t

LEMMA OnePerBase ==
  ASSUME NEW list, NEW ref, NEW P, IsFiniteSet(P), NEW c, Listed(list, ref, P, c)
  PROVE  LET entries == Entries(Merged(list), ref)
         IN  /\ Len(entries) = Cardinality(P)
             /\ \A k \in 1 .. Len(entries) : entries[k].count >= c
<1> DEFINE t == Merged(list)
           J == {k \in DOMAIN t : t[k].ref = ref}
           e == Entries(t, ref)
           paths == [k \in 1 .. Len(e) |-> e[k].path]
<1>1. /\ Tuple(t, Len(t))
      /\ \A j, l \in 1 .. Len(t) : t[j].ref = t[l].ref /\ t[j].path = t[l].path => j = l
      /\ \A j \in 1 .. Len(t) : t[j].ref = ref => t[j].path \in P /\ t[j].count >= c
      /\ \A p \in P : \E j \in 1 .. Len(t) : t[j].ref = ref /\ t[j].path = p
  BY MergedOnce
<1> HIDE DEF t
<1>2. DOMAIN t = 1 .. Len(t)
  BY <1>1, TupleIs
<1>3. Drawn(e, t, Len(t), J)
  BY <1>1, DrawnFrom DEF Entries
<1>4. \A i \in (1 .. Len(t)) \cap J : t[i].ref = ref
  OBVIOUS
<1>5. \A i \in 1 .. Len(t) : t[i].ref = ref => i \in (1 .. Len(t)) \cap J
  BY <1>2
<1> HIDE DEF e, J
<1>6. Len(e) \in Nat
  BY <1>3 DEF Drawn, Tuple
<1>7. \A k \in 1 .. Len(e) : e[k].path \in P /\ e[k].count >= c
  BY <1>1, <1>3, <1>4 DEF Drawn
<1>8. ASSUME NEW k \in 1 .. Len(e), NEW l \in 1 .. Len(e), e[k].path = e[l].path
      PROVE  k = l
  <2>1. PICK i \in (1 .. Len(t)) \cap J : Place(J, i) = k /\ e[k] = t[i]
    BY <1>3 DEF Drawn
  <2>2. PICK j \in (1 .. Len(t)) \cap J : Place(J, j) = l /\ e[l] = t[j]
    BY <1>3 DEF Drawn
  <2>3. QED
    BY <1>1, <1>4, <1>8, <2>1, <2>2
<1>9. ASSUME NEW p \in P
      PROVE  \E k \in 1 .. Len(e) : e[k].path = p
  <2>1. PICK i \in (1 .. Len(t)) \cap J : t[i].path = p
    BY <1>1, <1>5
  <2>2. QED
    BY <1>3, <2>1 DEF Drawn
<1>10. Len(e) = Cardinality(P)
  <2>1. paths \in Injection(1 .. Len(e), P)
    BY <1>7, <1>8, Fun_IsInj
  <2>2. paths \in Surjection(1 .. Len(e), P)
    BY <1>7, <1>9, Fun_IsSurj
  <2>3. Cardinality(1 .. Len(e)) = Cardinality(P)
    BY <2>1, <2>2, FS_Injection
  <2> DEFINE n == Len(e)
  <2>4. n \in Nat
    BY <1>6
  <2>5. Cardinality(1 .. Len(e)) = Cardinality(1 .. n)
    OBVIOUS
  <2> HIDE DEF n
  <2>6. Cardinality(1 .. n) = IF 1 > n THEN 0 ELSE n - 1 + 1
    BY <2>4, FS_Interval, SMTT(30)
  <2>7. Cardinality(1 .. n) = n
    BY <2>4, <2>6, SMTT(30)
  <2>8. QED
    BY <2>3, <2>5, <2>7 DEF n
<1>11. QED
  BY <1>7, <1>10 DEF e, t

(***************************************************************************)
(* The listings of one base, and of two.                                   *)
(***************************************************************************)
LEMMA FlattenOne ==
  ASSUME NEW s, s = [k \in {1} |-> s[k]], Len(s) = 1
  PROVE  FlattenSeq(s) = s[1]
<1> DEFINE Flat(f) == f = [i \in 1 .. Len(s) |-> IF i = 1 THEN s[i] ELSE f[i - 1] \o s[i]]
           one == [i \in 1 .. Len(s) |-> s[1]]
<1>1. \A i \in 1 .. Len(s) : i = 1
  OBVIOUS
<1>2. Flat(one)
  BY <1>1
<1>3. FlattenSeq(s) = (CHOOSE f : Flat(f))[Len(s)]
  BY DEF FlattenSeq
<1>4. \A f : Flat(f) => f[1] = s[1]
  OBVIOUS
<1>5. QED
  BY <1>2, <1>3, <1>4

LEMMA FlattenTwo ==
  ASSUME NEW s, Len(s) = 2
  PROVE  FlattenSeq(s) = s[1] \o s[2]
<1> DEFINE Flat(f) == f = [i \in 1 .. Len(s) |-> IF i = 1 THEN s[i] ELSE f[i - 1] \o s[i]]
           two == [i \in 1 .. Len(s) |-> IF i = 1 THEN s[1] ELSE s[1] \o s[2]]
<1>1. \A i \in 1 .. Len(s) : i = 1 \/ (i = 2 /\ two[i - 1] = s[1])
  OBVIOUS
<1>2. Flat(two)
  BY <1>1
<1>3. FlattenSeq(s) = (CHOOSE f : Flat(f))[Len(s)]
  BY DEF FlattenSeq
<1>4. ASSUME NEW f, Flat(f) PROVE f[2] = s[1] \o s[2]
  <2>1. f[1] = s[1]
    BY <1>4
  <2>2. f[2] = f[1] \o s[2]
    BY <1>4
  <2>3. QED
    BY <2>1, <2>2
<1>5. QED
  BY <1>2, <1>3, <1>4

LEMMA NoneListed ==
  ASSUME NEW ref, NEW c PROVE Listed(<<>>, ref, {}, c)
<1>1. <<>> \in [1 .. 0 -> {}] /\ Len(<<>>) = 0
  OBVIOUS
<1>2. Tuple(<<>>, 0)
  BY <1>1, Zenon DEF Tuple
<1>3. QED
  BY <1>1, <1>2 DEF Listed

LEMMA BothListed ==
  ASSUME NEW ref, NEW c, NEW s, NEW P, Listed(s, ref, P, c), NEW t, NEW Q, Listed(t, ref, Q, c)
  PROVE  Listed(s \o t, ref, P \cup Q, c)
<1> DEFINE n == Len(s)
           m == Len(t)
           j == s \o t
<1>1. n \in Nat /\ m \in Nat /\ Tuple(s, n) /\ Tuple(t, m)
  BY DEF Listed, Tuple
<1>2. Joined(j, s, n, t, m)
  BY <1>1, JoinedIs
<1>3. Len(j) = n + m /\ Tuple(j, n + m)
  BY <1>2, TupleIs DEF Joined
<1>4. /\ \A k \in 1 .. n : j[k] = s[k] /\ (Known(j, k) => Known(s, k))
      /\ \A k \in 1 .. m : j[n + k] = t[k] /\ (Known(t, k) => Known(j, n + k))
  <2>1. \A k \in 1 .. n : j[k] = s[k]
    BY <1>2 DEF Joined
  <2>2. \A k \in 1 .. m : j[n + k] = t[k]
    BY <1>2 DEF Joined
  <2> HIDE DEF j, n, m
  <2>3. ASSUME NEW k \in 1 .. n, Known(j, k) PROVE Known(s, k)
    <3>1. PICK i \in 1 .. k - 1 : j[i].ref = j[k].ref /\ j[i].path = j[k].path
      BY <2>3 DEF Known
    <3>2. i \in 1 .. n
      BY <1>1
    <3>3. QED
      BY <2>1, <3>1, <3>2 DEF Known
  <2>4. ASSUME NEW k \in 1 .. m, Known(t, k) PROVE Known(j, n + k)
    <3>1. PICK i \in 1 .. k - 1 : t[i].ref = t[k].ref /\ t[i].path = t[k].path
      BY <2>4 DEF Known
    <3>2. i \in 1 .. m /\ n + i \in 1 .. (n + k) - 1
      BY <1>1
    <3>3. j[n + i].ref = j[n + k].ref /\ j[n + i].path = j[n + k].path
      BY <2>2, <3>1, <3>2
    <3>4. QED
      BY <3>2, <3>3, Zenon DEF Known
  <2>5. QED
    BY <2>1, <2>2, <2>3, <2>4
<1>5. \A k \in 1 .. n + m : k \in 1 .. n \/ \E l \in 1 .. m : k = n + l
  <2>1. \A k \in 1 .. n + m : k \in 1 .. n \/ (k - n \in 1 .. m /\ k = n + (k - n))
    BY <1>1
  <2>2. QED
    BY <2>1
<1>6. \A k \in 1 .. n : k \in 1 .. n + m
  BY <1>1
<1>7. \A k \in 1 .. m : n + k \in 1 .. n + m
  BY <1>1
<1> HIDE DEF j, n, m
<1>8. ASSUME NEW k \in 1 .. n + m, j[k].ref = ref
      PROVE  j[k].path \in P \cup Q
  <2>1. CASE k \in 1 .. n
    BY <1>4, <1>8, <2>1 DEF Listed, n
  <2>2. ASSUME NEW l \in 1 .. m, k = n + l PROVE j[k].path \in Q
    BY <1>4, <1>8, <2>2 DEF Listed, m
  <2>3. QED
    BY <1>5, <2>1, <2>2
<1>9. ASSUME NEW p \in P \cup Q
      PROVE  \E k \in 1 .. n + m : j[k].ref = ref /\ j[k].path = p
  <2>1. CASE p \in P
    BY <1>4, <1>6, <2>1 DEF Listed, n
  <2>2. CASE p \in Q
    BY <1>4, <1>7, <2>2 DEF Listed, m
  <2>3. QED
    BY <2>1, <2>2
<1>10. ASSUME NEW k \in 1 .. n + m, j[k].ref = ref, ~Known(j, k)
       PROVE  j[k].count >= c
  <2>1. CASE k \in 1 .. n
    <3>1. j[k] = s[k] /\ \/ s[k].count >= c
                         \/ Known(s, k)
      BY <1>4, <1>10, <2>1 DEF Listed, n
    <3>2. Known(s, k) => Known(j, k)
      <4> SUFFICES ASSUME Known(s, k) PROVE Known(j, k)
        OBVIOUS
      <4>1. PICK i \in 1 .. k - 1 : s[i].ref = s[k].ref /\ s[i].path = s[k].path
        BY DEF Known
      <4>2. i \in 1 .. n
        BY <1>1, <2>1
      <4>3. QED
        BY <1>4, <2>1, <4>1, <4>2 DEF Known
    <3>3. QED
      BY <1>10, <3>1, <3>2
  <2>2. ASSUME NEW l \in 1 .. m, k = n + l
        PROVE  j[k].count >= c
    <3>1. j[k] = t[l] /\ ~Known(t, l)
      BY <1>4, <1>10, <2>2
    <3>2. QED
      BY <1>10, <3>1 DEF Listed, m
  <2>3. QED
    BY <1>5, <2>1, <2>2
<1>11. Listed(j, ref, P \cup Q, c)
  BY <1>3, <1>8, <1>9, <1>10 DEF Listed
<1>12. QED
  BY <1>11 DEF j

\* A reader finds the session ref, the first time with c messages or more.
Offers(sessions, ref, c) ==
  /\ Tuple(sessions, Len(sessions))
  /\ \E k \in 1 .. Len(sessions) : sessions[k].ref = ref
  /\ \A k \in 1 .. Len(sessions) :
       sessions[k].ref = ref /\ (\A j \in 1 .. k - 1 : sessions[j].ref # ref)
         => sessions[k].count >= c

LEMMA AtListed ==
  ASSUME NEW ref, NEW c, NEW s, Offers(s, ref, c), NEW p
  PROVE  Listed(At(p, s), ref, {p}, c)
<1> DEFINE t == At(p, s)
           n == Len(s)
<1>1. n \in Nat /\ DOMAIN s = 1 .. n
  BY TupleIs DEF Offers
<1>2. /\ t = [k \in 1 .. n |-> t[k]]
      /\ \A k \in 1 .. n : t[k].ref = s[k].ref /\ t[k].count = s[k].count /\ t[k].path = p
  BY <1>1 DEF At
<1> HIDE DEF t
<1>3. Tuple(t, n) /\ Len(t) = n
  BY <1>1, <1>2, MappedIs, TupleIs
<1>4. ASSUME NEW k \in 1 .. n, t[k].ref = ref, ~Known(t, k)
      PROVE  t[k].count >= c
  <2>1. ASSUME NEW j \in 1 .. k - 1 PROVE s[j].ref # ref
    <3>1. j \in 1 .. n
      BY <1>1
    <3>2. QED
      BY <1>2, <1>4, <3>1 DEF Known
  <2>2. QED
    BY <1>2, <1>4, <2>1 DEF Offers
<1>5. \A q \in {p} : \E k \in 1 .. n : t[k].ref = ref /\ t[k].path = q
  BY <1>2 DEF Offers
<1>6. \A k \in 1 .. n : t[k].path \in {p}
  BY <1>2
<1>7. Listed(t, ref, {p}, c)
  BY <1>3, <1>4, <1>5, <1>6 DEF Listed
<1>8. QED
  BY <1>7 DEF t

\* What a base contributes, and the paths it contributes.
FromBase(p, hit, s) == IF hit THEN At(p, s) ELSE <<>>
PathsOf(p, hit) == IF hit THEN {p} ELSE {}

LEMMA FromBaseListed ==
  ASSUME NEW ref, NEW c, NEW s, Offers(s, ref, c), NEW p, NEW hit
  PROVE  Listed(FromBase(p, hit, s), ref, PathsOf(p, hit), c)
<1>1. CASE hit
  BY <1>1, AtListed DEF FromBase, PathsOf
<1>2. CASE ~hit
  BY <1>2, NoneListed DEF FromBase, PathsOf
<1>3. QED
  BY <1>1, <1>2

LEMMA ListingOne ==
  ASSUME NEW ref, NEW c, NEW s, Offers(s, ref, c), NEW p, NEW where
  PROVE  /\ Listed(Listing(<<p>>, where, s), ref, PathsOf(p, Resolved(p) = where), c)
         /\ Listed(ListingUnseen(<<p>>, where, s), ref, PathsOf(p, Resolved(p) = where), c)
<1> DEFINE one == FromBase(p, Resolved(p) = where, s)
<1>1. Listed(one, ref, PathsOf(p, Resolved(p) = where), c)
  BY FromBaseListed
<1>2. Listing(<<p>>, where, s) = one
  <2> DEFINE l == [k \in DOMAIN <<p>> |-> IF Resolved(<<p>>[k]) = where THEN At(<<p>>[k], s) ELSE <<>>]
  <2>1. l = [k \in {1} |-> l[k]] /\ Len(l) = 1 /\ l[1] = one
    BY DEF FromBase
  <2>2. Listing(<<p>>, where, s) = FlattenSeq(l)
    BY DEF Listing
  <2> HIDE DEF l
  <2>3. QED
    BY <2>1, <2>2, FlattenOne
<1>3. ListingUnseen(<<p>>, where, s) = one
  <2> DEFINE l == [k \in DOMAIN <<p>> |->
                    IF /\ Resolved(<<p>>[k]) = where
                       /\ \A j \in 1 .. k - 1 : Resolved(<<p>>[j]) # where
                    THEN At(<<p>>[k], s) ELSE <<>>]
  <2>1. l = [k \in {1} |-> l[k]] /\ Len(l) = 1 /\ l[1] = one
    BY DEF FromBase
  <2>2. ListingUnseen(<<p>>, where, s) = FlattenSeq(l)
    BY DEF ListingUnseen
  <2> HIDE DEF l
  <2>3. QED
    BY <2>1, <2>2, FlattenOne
<1>4. QED
  BY <1>1, <1>2, <1>3

LEMMA ListingTwo ==
  ASSUME NEW ref, NEW c, NEW s, Offers(s, ref, c), NEW p, NEW q, NEW where
  PROVE  /\ Listed(Listing(<<p, q>>, where, s), ref,
                   PathsOf(p, Resolved(p) = where) \cup PathsOf(q, Resolved(q) = where), c)
         /\ Listed(ListingUnseen(<<p, q>>, where, s), ref,
                   PathsOf(p, Resolved(p) = where)
                     \cup PathsOf(q, Resolved(q) = where /\ Resolved(p) # where), c)
<1> DEFINE one == FromBase(p, Resolved(p) = where, s)
           two == FromBase(q, Resolved(q) = where, s)
           new == FromBase(q, Resolved(q) = where /\ Resolved(p) # where, s)
<1>1. /\ Listed(one, ref, PathsOf(p, Resolved(p) = where), c)
      /\ Listed(two, ref, PathsOf(q, Resolved(q) = where), c)
      /\ Listed(new, ref, PathsOf(q, Resolved(q) = where /\ Resolved(p) # where), c)
  BY FromBaseListed
<1>2. Listing(<<p, q>>, where, s) = one \o two
  <2> DEFINE l == [k \in DOMAIN <<p, q>> |->
                    IF Resolved(<<p, q>>[k]) = where THEN At(<<p, q>>[k], s) ELSE <<>>]
  <2>1. Len(l) = 2 /\ l[1] = one /\ l[2] = two
    BY DEF FromBase
  <2>2. Listing(<<p, q>>, where, s) = FlattenSeq(l)
    BY DEF Listing
  <2> HIDE DEF l
  <2>3. QED
    BY <2>1, <2>2, FlattenTwo
<1>3. ListingUnseen(<<p, q>>, where, s) = one \o new
  <2> DEFINE l == [k \in DOMAIN <<p, q>> |->
                    IF /\ Resolved(<<p, q>>[k]) = where
                       /\ \A j \in 1 .. k - 1 : Resolved(<<p, q>>[j]) # where
                    THEN At(<<p, q>>[k], s) ELSE <<>>]
  <2>1. Len(l) = 2 /\ l[1] = one /\ l[2] = new
    BY DEF FromBase
  <2>2. ListingUnseen(<<p, q>>, where, s) = FlattenSeq(l)
    BY DEF ListingUnseen
  <2> HIDE DEF l
  <2>3. QED
    BY <2>1, <2>2, FlattenTwo
<1>4. QED
  <2> DEFINE P == PathsOf(p, Resolved(p) = where)
             Q == PathsOf(q, Resolved(q) = where)
             R == PathsOf(q, Resolved(q) = where /\ Resolved(p) # where)
  <2> HIDE DEF one, two, new, P, Q, R
  <2>1. Listed(one, ref, P, c) /\ Listed(two, ref, Q, c) /\ Listed(new, ref, R, c)
    BY <1>1, Zenon DEF P, Q, R
  <2>2. Listed(one \o two, ref, P \cup Q, c) /\ Listed(one \o new, ref, P \cup R, c)
    BY <2>1, BothListed
  <2>3. QED
    BY <1>2, <1>3, <2>2, Zenon DEF P, Q, R

\* Aider's: a base is searched for everything below it.
AiderBase(d, p, where) ==
  IF where \in Below(p) THEN At(IF p = "alias" THEN "alias" ELSE where, AiderSessions(d)) ELSE <<>>
AiderPaths(p, where) == PathsOf(IF p = "alias" THEN "alias" ELSE where, where \in Below(p))

LEMMA AiderListing ==
  ASSUME NEW d, NEW ref, NEW c, Offers(AiderSessions(d), ref, c), NEW p, NEW where
  PROVE  /\ Listed(AiderDiscover(d, <<p>>, where), ref, AiderPaths(p, where), c)
         /\ \A q : Listed(AiderDiscover(d, <<p, q>>, where), ref,
                          AiderPaths(p, where) \cup AiderPaths(q, where), c)
<1>1. \A q : Listed(AiderBase(d, q, where), ref, AiderPaths(q, where), c)
  BY FromBaseListed DEF AiderBase, AiderPaths, FromBase
<1>2. AiderDiscover(d, <<p>>, where) = AiderBase(d, p, where)
  <2> DEFINE l == [k \in DOMAIN <<p>> |->
                    IF where \in Below(<<p>>[k])
                    THEN At(IF <<p>>[k] = "alias" THEN "alias" ELSE where, AiderSessions(d))
                    ELSE <<>>]
  <2>1. l = [k \in {1} |-> l[k]] /\ Len(l) = 1 /\ l[1] = AiderBase(d, p, where)
    BY DEF AiderBase
  <2>2. AiderDiscover(d, <<p>>, where) = FlattenSeq(l)
    BY DEF AiderDiscover
  <2> HIDE DEF l
  <2>3. QED
    BY <2>1, <2>2, FlattenOne
<1>3. ASSUME NEW q
      PROVE  AiderDiscover(d, <<p, q>>, where) = AiderBase(d, p, where) \o AiderBase(d, q, where)
  <2> DEFINE l == [k \in DOMAIN <<p, q>> |->
                    IF where \in Below(<<p, q>>[k])
                    THEN At(IF <<p, q>>[k] = "alias" THEN "alias" ELSE where, AiderSessions(d))
                    ELSE <<>>]
  <2>1. Len(l) = 2 /\ l[1] = AiderBase(d, p, where) /\ l[2] = AiderBase(d, q, where)
    BY DEF AiderBase
  <2>2. AiderDiscover(d, <<p, q>>, where) = FlattenSeq(l)
    BY DEF AiderDiscover
  <2> HIDE DEF l
  <2>3. QED
    BY <2>1, <2>2, FlattenTwo
<1>4. ASSUME NEW q
      PROVE  Listed(AiderBase(d, p, where) \o AiderBase(d, q, where), ref,
                    AiderPaths(p, where) \cup AiderPaths(q, where), c)
  BY <1>1, BothListed
<1>5. QED
  BY <1>1, <1>2, <1>3, <1>4

(***************************************************************************)
(* Where it is found.  Below the bases searched the session has as many    *)
(* paths as the directory that holds it has names among them.              *)
(***************************************************************************)
SetupInv == env \in Envs /\ place \in IF tool = "aider" THEN Bases \cup Hidden ELSE Bases

Finds(list, ref, c) ==
  \E P : IsFiniteSet(P) /\ Cardinality(P) = Paths /\ Listed(list, ref, P, c)

LEMMA OnePath ==
  ASSUME NEW list, NEW ref, NEW c, NEW p, Listed(list, ref, {p}, c), Paths = 1
  PROVE  Finds(list, ref, c)
<1>1. IsFiniteSet({p}) /\ Cardinality({p}) = 1
  BY FS_Singleton, Zenon
<1>2. QED
  BY <1>1 DEF Finds

LEMMA TwoPaths ==
  ASSUME NEW list, NEW ref, NEW c, NEW p, NEW q, p # q, Listed(list, ref, {p} \cup {q}, c), Paths = 2
  PROVE  Finds(list, ref, c)
<1>1. IsFiniteSet({p}) /\ Cardinality({p}) = 1 /\ IsFiniteSet({q}) /\ Cardinality({q}) = 1
  BY FS_Singleton, Zenon
<1>2. IsFiniteSet({p} \cup {q})
  BY <1>1, FS_Union
<1>3. {p} \cap {q} = {}
  OBVIOUS
<1>4. Cardinality({p} \cup {q}) = 2
  BY <1>1, <1>3, ApartAdd
<1>5. QED
  BY <1>2, <1>4, Zenon DEF Finds

LEMMA HitPaths ==
  ASSUME NEW p, NEW hit
  PROVE  (hit => PathsOf(p, hit) = {p}) /\ (~hit => PathsOf(p, hit) = {})
<1>1. QED
  BY Zenon DEF PathsOf

LEMMA RemoteFinds ==
  ASSUME place \in {"root", "sub"}, NEW ref, NEW c, NEW s, Offers(s, ref, c)
  PROVE  /\ Finds(Listing(Searched, place, s), ref, c)
         /\ Finds(ListingUnseen(Searched, place, s), ref, c)
<1>1. Searched = <<"root", "sub">>
  BY DEF Searched, RemoteCandidates
<1>2. Resolved("root") = "root" /\ Resolved("sub") = "sub"
  BY DEF Resolved
<1>3. Paths = 1
  BY DEF Paths
<1> DEFINE P == PathsOf("root", Resolved("root") = place)
           Q == PathsOf("sub", Resolved("sub") = place)
           R == PathsOf("sub", Resolved("sub") = place /\ Resolved("root") # place)
<1>4. P = (IF "root" = place THEN {"root"} ELSE {}) /\ Q = IF "sub" = place THEN {"sub"} ELSE {}
  BY <1>2, Zenon DEF PathsOf
<1>5. R = IF "sub" = place THEN {"sub"} ELSE {}
  <2>1. (Resolved("sub") = place /\ Resolved("root") # place) <=> "sub" = place
    BY <1>2
  <2>2. QED
    BY <2>1, Zenon DEF PathsOf
<1>6. /\ Listed(Listing(<<"root", "sub">>, place, s), ref, P \cup Q, c)
      /\ Listed(ListingUnseen(<<"root", "sub">>, place, s), ref, P \cup R, c)
  BY ListingTwo, Zenon
<1> HIDE DEF P, Q, R
<1>7. P \cup Q = {place} /\ P \cup R = {place}
  BY <1>4, <1>5
<1>8. QED
  BY <1>1, <1>3, <1>6, <1>7, OnePath

LEMMA EnvDirIs ==
  ASSUME SetupInv
  PROVE  /\ env \in {"unset", "blank"} => EnvDir(env) = <<>>
         /\ env \in {"home", "alias", "other"} => EnvDir(env) = <<env>>
         /\ env \in {"unset", "blank"} \/ env \in {"home", "alias", "other"}
BY DEF EnvDir, SetupInv, Envs

LEMMA PairIs ==
  ASSUME NEW a, NEW b PROVE <<a>> \o <<b>> = <<a, b>>
<1>1. <<a>> \in Seq({a, b}) /\ <<b>> \in Seq({a, b}) /\ <<a, b>> \in Seq({a, b})
  OBVIOUS
<1>2. Len(<<a>>) = 1 /\ Len(<<b>>) = 1 /\ Len(<<a, b>>) = 2
  OBVIOUS
<1> DEFINE j == <<a>> \o <<b>>
<1>3. j \in Seq({a, b}) /\ Len(j) = 2 /\ j[1] = a /\ j[2] = b
  BY <1>1, <1>2, ConcatProperties
<1> HIDE DEF j
<1>4. \A k \in 1 .. 2 : k = 1 \/ k = 2
  OBVIOUS
<1>5. \A k \in 1 .. 2 : j[k] = <<a, b>>[k]
  BY <1>3, <1>4
<1>6. j = <<a, b>>
  BY <1>1, <1>2, <1>3, <1>5, SeqEqual
<1>7. QED
  BY <1>6 DEF j

\* The bases of a local reader: the default and the variable's, in either order.
LEMMA LocalBases ==
  ASSUME SetupInv, place \in {"home", "other"}
  PROVE  /\ tool \in {"claude-code", "copilot-cli", "gemini-cli"} => Searched = <<"home">>
         /\ env \in {"unset", "blank"} =>
              /\ tool \in {"codex-cli", "opencode", "cursor", "zed-ai", "continue-dev", "cline", "aider"}
                   => Searched = <<"home">>
         /\ env \in {"home", "alias", "other"} =>
              /\ tool \in {"codex-cli", "opencode"} => Searched = <<"home", env>>
              /\ tool \in {"cursor", "zed-ai"} => Searched = <<env, "home">>
              /\ tool \in {"continue-dev", "cline"} => Searched = <<env>>
              /\ tool = "aider" => Searched = IF env = "home" THEN <<env>> ELSE <<env, "home">>
<1>1. Searched = BaseDirs
  BY DEF Searched
<1>2. <<"home">> \o <<>> = <<"home">> /\ <<>> \o <<"home">> = <<"home">> /\ <<env>> \o <<>> = <<env>>
  OBVIOUS
<1>3. <<"home">> \o <<env>> = <<"home", env>> /\ <<env>> \o <<"home">> = <<env, "home">>
  BY PairIs
<1>4. <<env>> # <<>>
  OBVIOUS
<1>5. CASE tool \in {"claude-code", "copilot-cli", "gemini-cli"}
  BY <1>1, <1>5 DEF BaseDirs, ClaudeDirs, CopilotDirs, GeminiDirs
<1>6. CASE tool \in {"codex-cli", "opencode"}
  <2>1. Searched = <<"home">> \o EnvDir(env)
    BY <1>1, <1>6 DEF BaseDirs, CodexDirs, OpenCodeDirs
  <2>2. QED
    BY <1>2, <1>3, <1>6, <2>1, EnvDirIs
<1>7. CASE tool \in {"cursor", "zed-ai"}
  <2>1. Searched = EnvDir(env) \o <<"home">>
    BY <1>1, <1>7 DEF BaseDirs, CursorDirs, ZedDirs
  <2>2. QED
    BY <1>2, <1>3, <1>7, <2>1, EnvDirIs
<1>8. CASE tool \in {"continue-dev", "cline"}
  <2>1. Searched = IF EnvDir(env) # <<>> THEN EnvDir(env) ELSE <<"home">>
    BY <1>1, <1>8 DEF BaseDirs, ContinueDirs, ClineDirs
  <2>2. QED
    BY <1>4, <1>8, <2>1, EnvDirIs
<1>9. CASE tool = "aider"
  <2>1. Searched = EnvDir(env) \o (IF env = "home" THEN <<>> ELSE <<"home">>)
    BY <1>1, <1>9 DEF BaseDirs, AiderDirs
  <2>2. QED
    BY <1>2, <1>3, <1>9, <2>1, EnvDirIs
<1>10. QED
  BY <1>5, <1>6, <1>7, <1>8, <1>9, Zenon

\* The directory that holds the history is searched, if reached at all, as itself
\* and, when the variable gives it another name, as that.
Local == SetupInv /\ place \in {"home", "other"} /\ Reachable

LEMMA ResolvedIs ==
  Resolved("home") = "home" /\ Resolved("alias") = "home" /\ Resolved("other") = "other"
BY DEF Resolved

LEMMA PathsAre ==
  ASSUME SetupInv
  PROVE  /\ tool \notin {"codex-cli", "opencode", "cursor", "aider"} => Paths = 1
         /\ env # "alias" => Paths = 1
         /\ place # "home" => Paths = 1
         /\ (/\ tool \in {"codex-cli", "opencode", "cursor", "aider"}
             /\ env = "alias" /\ place = "home") => Paths = 2
<1>1. ~(/\ env = "alias" /\ place = "home"
        /\ tool \in {"codex-cli", "opencode", "cursor", "aider"}) => Paths = 1
  BY DEF Paths
<1>2. (/\ env = "alias" /\ place = "home"
       /\ tool \in {"codex-cli", "opencode", "cursor", "aider"}) => Paths = 2
  BY DEF Paths
<1>3. QED
  BY <1>1, <1>2, Zenon

LEMMA HitIs ==
  ASSUME NEW p \in {"home", "alias", "other"}, NEW where \in {"home", "other"}
  PROVE  /\ where = "home" /\ p # "other" => PathsOf(p, Resolved(p) = where) = {p}
         /\ where = "home" /\ p = "other" => PathsOf(p, Resolved(p) = where) = {}
         /\ where = "other" /\ p # "other" => PathsOf(p, Resolved(p) = where) = {}
         /\ where = "other" /\ p = "other" => PathsOf(p, Resolved(p) = where) = {p}
<1>1. CASE Resolved(p) = where
  <2>1. PathsOf(p, Resolved(p) = where) = {p}
    BY <1>1, HitPaths
  <2>2. QED
    BY <1>1, <2>1, ResolvedIs
<1>2. CASE Resolved(p) # where
  <2>1. PathsOf(p, Resolved(p) = where) = {}
    BY <1>2, HitPaths
  <2>2. QED
    BY <1>2, <2>1, ResolvedIs
<1>3. QED
  BY <1>1, <1>2

\* One base.
LEMMA OneFinds ==
  ASSUME NEW p, Searched = <<p>>, Resolved(p) = place, Paths = 1, NEW ref, NEW c, NEW s, Offers(s, ref, c)
  PROVE  /\ Finds(Listing(Searched, place, s), ref, c)
         /\ Finds(ListingUnseen(Searched, place, s), ref, c)
<1>1. PathsOf(p, Resolved(p) = place) = {p}
  BY HitPaths
<1>2. /\ Listed(Listing(<<p>>, place, s), ref, PathsOf(p, Resolved(p) = place), c)
      /\ Listed(ListingUnseen(<<p>>, place, s), ref, PathsOf(p, Resolved(p) = place), c)
  BY ListingOne, Zenon
<1>3. QED
  <2>1. Listed(Listing(<<p>>, place, s), ref, {p}, c) /\ Listed(ListingUnseen(<<p>>, place, s), ref, {p}, c)
    BY <1>1, <1>2, Zenon
  <2>2. QED
    BY <2>1, OnePath

\* Two bases, every one of which is listed.
LEMMA BothFind ==
  ASSUME Local, NEW p \in {"home", env}, NEW q \in {"home", env}, "home" \in {p, q}, env \in {p, q},
         Searched = <<p, q>>, env \in {"home", "alias", "other"}, tool \in {"codex-cli", "opencode", "cursor"},
         NEW ref, NEW c, NEW s, Offers(s, ref, c)
  PROVE  Finds(Listing(Searched, place, s), ref, c)
<1>1. SetupInv /\ place \in {"home", "other"} /\ (place = "other" => env = "other")
  BY DEF Local, Reachable
<1> DEFINE P == PathsOf(p, Resolved(p) = place)
           Q == PathsOf(q, Resolved(q) = place)
<1>2. Listed(Listing(Searched, place, s), ref, P \cup Q, c)
  BY ListingTwo, Zenon
<1>3. p \in {"home", "alias", "other"} /\ q \in {"home", "alias", "other"}
  OBVIOUS
<1>4. /\ place = "home" => P = (IF p = "other" THEN {} ELSE {p}) /\ Q = IF q = "other" THEN {} ELSE {q}
      /\ place = "other" => P = (IF p = "other" THEN {p} ELSE {}) /\ Q = IF q = "other" THEN {q} ELSE {}
  BY <1>1, <1>3, HitIs
<1> HIDE DEF P, Q
<1>5. CASE place = "home" /\ env = "alias"
  <2>1. P \cup Q = {p} \cup {q} /\ p # q
    BY <1>4, <1>5
  <2>2. QED
    BY <1>1, <1>2, <1>5, <2>1, TwoPaths, PathsAre
<1>6. CASE ~(place = "home" /\ env = "alias")
  <2>1. P \cup Q = {place}
    BY <1>1, <1>4, <1>6
  <2>2. QED
    BY <1>1, <1>2, <1>6, <2>1, OnePath, PathsAre
<1>7. QED
  BY <1>5, <1>6

\* Two bases, of which the first that is there is listed.
LEMMA FirstFinds ==
  ASSUME Local, Searched = <<env, "home">>, env \in {"home", "alias", "other"}, tool = "zed-ai",
         NEW ref, NEW c, NEW s, Offers(s, ref, c)
  PROVE  Finds(ListingUnseen(Searched, place, s), ref, c)
<1>1. SetupInv /\ place \in {"home", "other"} /\ (place = "other" => env = "other")
  BY DEF Local, Reachable
<1> DEFINE P == PathsOf(env, Resolved(env) = place)
           hit == Resolved("home") = place /\ Resolved(env) # place
           Q == PathsOf("home", hit)
<1>2. Listed(ListingUnseen(Searched, place, s), ref, P \cup Q, c)
  BY ListingTwo, Zenon
<1>3. /\ place = "home" => P = IF env = "other" THEN {} ELSE {env}
      /\ place = "other" => P = {env}
  BY <1>1, HitIs
<1>4. Q = IF place = "home" /\ env = "other" THEN {"home"} ELSE {}
  <2>1. hit <=> place = "home" /\ env = "other"
    BY <1>1, ResolvedIs
  <2> HIDE DEF hit
  <2>2. QED
    BY <2>1, HitPaths
<1> HIDE DEF P, Q
<1>5. P \cup Q = {IF place = "home" /\ env = "other" THEN "home" ELSE env}
  BY <1>1, <1>3, <1>4
<1>6. Paths = 1
  BY <1>1, PathsAre
<1>7. QED
  BY <1>2, <1>5, <1>6, OnePath

\* What the tools but Aider list below a base.
SessionsOf(t, d) ==
  CASE t = "claude-code" -> ClaudeSession(d)
    [] t = "codex-cli" -> CodexSession(d)
    [] t = "copilot-cli" -> CopilotSession(d)
    [] t = "continue-dev" -> ContinueSession(d)
    [] t = "gemini-cli" -> GeminiSession(d)
    [] t = "cline" -> ClineSession(d)
    [] t = "zed-ai" -> ZedSession(d)
    [] t = "opencode" -> OpenCodeSession(d)
    [] t = "cursor" -> CursorSession(d)

ListsAll == {"claude-code", "codex-cli", "copilot-cli", "gemini-cli", "opencode", "cursor"}
ListsUnseen == {"continue-dev", "cline", "zed-ai"}

LEMMA DiscoversIn ==
  ASSUME tool = "claude-code" => "index" \in disk.meta
  PROVE  /\ tool \in ListsAll => Discovered(disk) = Listing(Searched, place, SessionsOf(tool, disk))
         /\ tool \in ListsUnseen => Discovered(disk) = ListingUnseen(Searched, place, SessionsOf(tool, disk))
         /\ tool = "aider" => Discovered(disk) = AiderDiscover(disk, Searched, place)
<1>1. CASE tool \in {"claude-code", "codex-cli", "copilot-cli"}
  BY <1>1 DEF Discovered, SessionsOf, ClaudeDiscover, CodexDiscover, CopilotDiscover, ListsAll, ListsUnseen
<1>2. CASE tool \in {"gemini-cli", "opencode", "cursor"}
  BY <1>2 DEF Discovered, SessionsOf, GeminiDiscover, OpenCodeDiscover, CursorDiscover, ListsAll, ListsUnseen
<1>3. CASE tool \in ListsUnseen
  BY <1>3 DEF Discovered, SessionsOf, ContinueDiscover, ClineDiscover, ZedDiscover, ListsAll, ListsUnseen
<1>4. CASE tool = "aider"
  BY <1>4 DEF Discovered, ListsAll, ListsUnseen
<1>5. QED
  BY <1>1, <1>2, <1>3, <1>4 DEF ListsAll, ListsUnseen

LEMMA ReaderFinds ==
  ASSUME SetupInv, Reachable, tool \in ListsAll \cup ListsUnseen,
         NEW ref, NEW c, Offers(SessionsOf(tool, disk), ref, c)
  PROVE  Finds(Discovered(disk), ref, c)
<1> DEFINE s == SessionsOf(tool, disk)
<1>1. /\ tool \in ListsAll => Discovered(disk) = Listing(Searched, place, s)
      /\ tool \in ListsUnseen => Discovered(disk) = ListingUnseen(Searched, place, s)
  BY DiscoversIn DEF Reachable
<1> HIDE DEF s
<1>2. Offers(s, ref, c)
  BY DEF s
<1>3. CASE place \in {"root", "sub"}
  BY <1>1, <1>2, <1>3, RemoteFinds
<1>4. CASE place \in {"home", "other"}
  <2>1. Local
    BY <1>4 DEF Local
  <2>2. /\ place = "other" => env = "other" /\ tool \notin {"claude-code", "copilot-cli", "gemini-cli"}
        /\ place = "home" /\ tool \in {"cline", "continue-dev"} => env # "other"
    BY DEF Reachable
  <2>3. CASE tool \in {"claude-code", "copilot-cli", "gemini-cli"}
    <3>1. Searched = <<"home">> /\ place = "home" /\ Paths = 1 /\ tool \in ListsAll
      BY <1>4, <2>2, <2>3, LocalBases, PathsAre DEF ListsAll
    <3>2. QED
      BY <1>1, <1>2, <3>1, OneFinds, ResolvedIs
  <2>4. CASE tool \in {"codex-cli", "opencode", "cursor"}
    <3>1. tool \in ListsAll
      BY <2>4 DEF ListsAll
    <3>2. CASE env \in {"unset", "blank"}
      <4>1. Searched = <<"home">> /\ place = "home" /\ Paths = 1
        BY <1>4, <2>2, <2>4, <3>2, LocalBases, PathsAre
      <4>2. QED
        BY <1>1, <1>2, <3>1, <4>1, OneFinds, ResolvedIs
    <3>3. CASE env \in {"home", "alias", "other"}
      <4>1. Searched = <<"home", env>> \/ Searched = <<env, "home">>
        BY <1>4, <2>4, <3>3, LocalBases
      <4>2. CASE Searched = <<"home", env>>
        BY <1>1, <1>2, <2>1, <2>4, <3>1, <3>3, <4>2, BothFind
      <4>3. CASE Searched = <<env, "home">>
        BY <1>1, <1>2, <2>1, <2>4, <3>1, <3>3, <4>3, BothFind
      <4>4. QED
        BY <4>1, <4>2, <4>3
    <3>4. QED
      BY <3>2, <3>3, EnvDirIs
  <2>5. CASE tool \in {"continue-dev", "cline"}
    <3>1. tool \in ListsUnseen /\ Paths = 1
      BY <2>5, PathsAre DEF ListsUnseen
    <3>2. CASE env \in {"unset", "blank"}
      <4>1. Searched = <<"home">> /\ place = "home"
        BY <1>4, <2>2, <2>5, <3>2, LocalBases
      <4>2. QED
        BY <1>1, <1>2, <3>1, <4>1, OneFinds, ResolvedIs
    <3>3. CASE env \in {"home", "alias", "other"}
      <4>1. Searched = <<env>> /\ Resolved(env) = place
        BY <1>4, <2>2, <2>5, <3>3, LocalBases, ResolvedIs
      <4>2. QED
        BY <1>1, <1>2, <3>1, <4>1, OneFinds
    <3>4. QED
      BY <3>2, <3>3, EnvDirIs
  <2>6. CASE tool = "zed-ai"
    <3>1. tool \in ListsUnseen /\ Paths = 1
      BY <2>6, PathsAre DEF ListsUnseen
    <3>2. CASE env \in {"unset", "blank"}
      <4>1. Searched = <<"home">> /\ place = "home"
        BY <1>4, <2>2, <2>6, <3>2, LocalBases
      <4>2. QED
        BY <1>1, <1>2, <3>1, <4>1, OneFinds, ResolvedIs
    <3>3. CASE env \in {"home", "alias", "other"}
      <4>1. Searched = <<env, "home">>
        BY <1>4, <2>6, <3>3, LocalBases
      <4>2. QED
        BY <1>1, <1>2, <2>1, <2>6, <3>1, <3>3, <4>1, FirstFinds
    <3>4. QED
      BY <3>2, <3>3, EnvDirIs
  <2>7. QED
    BY <2>3, <2>4, <2>5, <2>6 DEF ListsAll, ListsUnseen
<1>5. tool # "aider"
  BY DEF ListsAll, ListsUnseen
<1>6. QED
  BY <1>3, <1>4, <1>5 DEF SetupInv, Bases

\* Aider's bases.
LEMMA BelowIs ==
  /\ Below("home") = {"home"} /\ Below("alias") = {"home"} /\ Below("other") = {"other"}
  /\ Below("root") = {"root", "sub"} /\ Below("sub") = {"sub", "far"}
BY DEF Below, Resolved

LEMMA AiderPathsAre ==
  ASSUME NEW p, NEW where
  PROVE  AiderPaths(p, where)
           = IF where \in Below(p) THEN {IF p = "alias" THEN "alias" ELSE where} ELSE {}
<1>1. CASE where \in Below(p)
  BY <1>1, HitPaths DEF AiderPaths
<1>2. CASE where \notin Below(p)
  BY <1>2, HitPaths DEF AiderPaths
<1>3. QED
  BY <1>1, <1>2

LEMMA AiderFinds ==
  ASSUME SetupInv, Reachable, tool = "aider", NEW ref, NEW c, Offers(AiderSessions(disk), ref, c)
  PROVE  Finds(Discovered(disk), ref, c)
<1>1. Discovered(disk) = AiderDiscover(disk, Searched, place)
  BY DiscoversIn
<1>2. place = "other" => env = "other"
  BY DEF Reachable
<1>3. CASE place \in {"root", "sub", "far"}
  <2>1. Searched = <<"root", "sub">> /\ Paths = 1
    BY <1>3 DEF Searched, RemoteCandidates, Paths
  <2>2. AiderPaths("root", place) \cup AiderPaths("sub", place) = {place}
    BY <1>3, AiderPathsAre, BelowIs
  <2>3. Listed(AiderDiscover(disk, <<"root", "sub">>, place), ref,
               AiderPaths("root", place) \cup AiderPaths("sub", place), c)
    BY AiderListing
  <2>4. QED
    BY <1>1, <2>1, <2>2, <2>3, OnePath
<1>4. CASE place \in {"home", "other"} /\ (env = "home" \/ env \in {"unset", "blank"})
  <2>1. Searched = <<"home">> /\ place = "home" /\ Paths = 1
    BY <1>2, <1>4, LocalBases, PathsAre
  <2>2. AiderPaths("home", place) = {place}
    BY <2>1, AiderPathsAre, BelowIs
  <2>3. Listed(AiderDiscover(disk, <<"home">>, place), ref, AiderPaths("home", place), c)
    BY AiderListing
  <2>4. QED
    BY <1>1, <2>1, <2>2, <2>3, OnePath
<1>5. CASE place \in {"home", "other"} /\ env \in {"alias", "other"}
  <2>1. Searched = <<env, "home">>
    BY <1>5, LocalBases
  <2>2. Listed(AiderDiscover(disk, <<env, "home">>, place), ref,
               AiderPaths(env, place) \cup AiderPaths("home", place), c)
    BY AiderListing
  <2>3. CASE place = "home" /\ env = "alias"
    <3>1. AiderPaths(env, place) \cup AiderPaths("home", place) = {"alias"} \cup {"home"}
      BY <2>3, AiderPathsAre, BelowIs
    <3>2. Paths = 2
      BY <2>3, PathsAre
    <3>3. QED
      BY <1>1, <2>1, <2>2, <3>1, <3>2, TwoPaths
  <2>4. CASE ~(place = "home" /\ env = "alias")
    <3>1. AiderPaths(env, place) \cup AiderPaths("home", place) = {place}
      BY <1>2, <1>5, <2>4, AiderPathsAre, BelowIs
    <3>2. Paths = 1
      BY <2>4, PathsAre
    <3>3. QED
      BY <1>1, <2>1, <2>2, <3>1, <3>2, OnePath
  <2>5. QED
    BY <2>3, <2>4
<1>6. place # "deep"
  BY DEF Reachable
<1>7. QED
  BY <1>3, <1>4, <1>5, <1>6 DEF SetupInv, Envs, Bases, Hidden

(***************************************************************************)
(* What was said.  Each turn of the user or the assistant comes from one   *)
(* record, of the kinds that the list counts.                              *)
(***************************************************************************)
Speakers == {"user", "assistant"}
Spoken(turns) == Picked(turns, {k \in DOMAIN turns : turns[k].role \in Speakers})

LEMMA SpokenAre ==
  ASSUME NEW turns, Tuple(turns, Len(turns))
  PROVE  /\ Tuple(Spoken(turns), Len(Spoken(turns))) /\ Len(Spoken(turns)) <= Len(turns)
         /\ \A j \in 1 .. Len(Spoken(turns)) :
              Spoken(turns)[j].role \in Speakers /\ \E k \in 1 .. Len(turns) : Spoken(turns)[j] = turns[k]
<1> DEFINE n == Len(turns)
           I == {k \in DOMAIN turns : turns[k].role \in Speakers}
           s == Spoken(turns)
<1>1. Drawn(s, turns, n, I)
  BY DrawnFrom DEF Spoken
<1>2. \A i \in (1 .. n) \cap I : turns[i].role \in Speakers
  OBVIOUS
<1> HIDE DEF s, I, n
<1>3. \A j \in 1 .. Len(s) : \E i \in (1 .. n) \cap I : Place(I, i) = j /\ s[j] = turns[i]
  BY <1>1 DEF Drawn
<1>4. \A j \in 1 .. Len(s) : s[j].role \in Speakers /\ \E k \in 1 .. n : s[j] = turns[k]
  BY <1>2, <1>3
<1>5. QED
  BY <1>1, <1>4 DEF Drawn, s, n

\* What n places hold is no more than n things.
LEMMA NoMoreThan ==
  ASSUME NEW f, NEW n \in Nat, NEW S, \A x \in S : \E k \in 1 .. n : f[k] = x
  PROVE  IsFiniteSet(S) /\ Cardinality(S) <= n
<1> DEFINE at == [x \in S |-> CHOOSE k \in 1 .. n : f[k] = x]
<1>1. \A x \in S : at[x] \in 1 .. n /\ f[at[x]] = x
  OBVIOUS
<1>2. at \in [S -> 1 .. n]
  BY <1>1
<1> HIDE DEF at
<1>3. at \in Injection(S, 1 .. n)
  BY <1>1, <1>2 DEF Injection, IsInjective
<1>4. IsFiniteSet(1 .. n) /\ Cardinality(1 .. n) = n
  BY FS_Interval
<1>5. QED
  BY <1>3, <1>4, FS_Injection

\* A turn gathered is an outcome's.
LEMMA GatheredIs ==
  ASSUME NEW outs, NEW n, Tuple(outs, n), NEW j \in 1 .. Len(Gather(outs).turns)
  PROVE  \E i \in 1 .. n : Gather(outs).turns[j] = outs[i].turn
<1> DEFINE all == [k \in DOMAIN outs |-> outs[k].turn]
           I == {k \in DOMAIN outs : outs[k].turn # NoTurn}
           t == Gather(outs).turns
<1>1. n \in Nat /\ DOMAIN outs = 1 .. n
  BY TupleIs
<1>2. t = Picked(all, I)
  BY DEF Gather, TurnsOf
<1>3. all = [k \in 1 .. n |-> all[k]] /\ \A k \in 1 .. n : all[k] = outs[k].turn
  BY <1>1
<1> HIDE DEF all, I
<1>4. Drawn(t, all, n, I)
  BY <1>1, <1>2, <1>3, MappedIs, DrawnFrom
<1>5. PICK i \in 1 .. n : t[j] = all[i]
  BY <1>4 DEF Drawn
<1>6. QED
  BY <1>3, <1>5

\* What a record-by-record load shows of a speaker was read as that from a record.
ReadAs(turn, i, d) ==
  /\ turn.rec = i /\ turn = OutcomeOf(tool, i, d.recs[i], StartedAt(d)).turn
  /\ tool \in LineTools => Utf8(d) /\ Lines(d)[i] = d.recs[i]
  /\ tool \in ArrayTools => d.half = "no"

LEMMA SpokenIsRead ==
  ASSUME DiskInv, tool \in LineTools \cup ArrayTools, NEW ref,
         NEW j \in 1 .. Len(LoadMessages(disk, ref).turns),
         LoadMessages(disk, ref).turns[j].role \in Speakers
  PROVE  \E i \in 1 .. Len(disk.recs) : ReadAs(LoadMessages(disk, ref).turns[j], i, disk)
<1> DEFINE outs == OutcomesOf(tool, disk.recs, StartedAt(disk))
           n == Len(disk.recs)
           turn == LoadMessages(disk, ref).turns[j]
<1>1. disk.recs \in Seq(Records) /\ n \in Nat /\ DOMAIN disk.recs = 1 .. n
  BY DEF DiskInv, Disks
<1>2. LineTools \cap ArrayTools = {}
  BY DEF LineTools, ArrayTools
<1>3. Len(Failed.turns) = 0
  BY DEF Failed
<1>4. StartedAt(disk) \in Int
  BY StartIs DEF DiskInv
<1>5. ASSUME NEW read, NEW i \in 1 .. n, turn = Visited(read, outs)[i].turn
      PROVE  read[i] # Bad /\ turn.rec = i /\ turn = OutcomeOf(tool, i, disk.recs[i], StartedAt(disk)).turn
  <2>1. Visited(read, outs)[i] = IF read[i] = Bad THEN LeftOut("error") ELSE OutcomeOf(tool, i, disk.recs[i], StartedAt(disk))
    BY <1>1, VisitedAre
  <2>2. LeftOut("error").turn.role = "none" /\ NoTurn.role = "none"
    BY NoTurnIs DEF LeftOut
  <2>3. turn.role # "none"
    BY DEF Speakers
  <2> HIDE DEF turn, outs
  <2>4. read[i] # Bad /\ turn = OutcomeOf(tool, i, disk.recs[i], StartedAt(disk)).turn
    BY <1>5, <2>1, <2>2, <2>3
  <2>5. OneOf(OutcomeOf(tool, i, disk.recs[i], StartedAt(disk)), i, disk.recs[i])
    BY <1>4, OutcomeOfIs
  <2>6. QED
    BY <2>2, <2>3, <2>4, <2>5 DEF OneOf, Taken, Passed
<1>6. CASE tool = "copilot-cli" /\ disk.recs = <<>>
  <2>1. LoadMessages(disk, ref) = Unstated(IF "checkpoint" \in disk.meta THEN <<Checkpoint>> ELSE <<>>)
    BY <1>6 DEF LoadMessages, LoadSession, CopilotLoad
  <2>2. turn = Checkpoint
    BY <2>1 DEF Unstated
  <2>3. QED
    BY <2>2 DEF Checkpoint, Speakers
<1>7. CASE tool \in LineTools /\ ~(tool = "copilot-cli" /\ disk.recs = <<>>)
  <2>1. LoadMessages(disk, ref) = VisitLines(disk, outs)
    BY <1>7, LoadsVisit DEF LoadMessages
  <2>2. Utf8(disk) /\ LoadMessages(disk, ref) = Gather(Visited(Lines(disk), outs))
    BY <1>3, <2>1 DEF VisitLines
  <2>3. Tuple(Visited(Lines(disk), outs), n)
    BY <1>1, VisitedAre
  <2>4. PICK i \in 1 .. n : turn = Visited(Lines(disk), outs)[i].turn
    BY <2>2, <2>3, GatheredIs
  <2>5. Lines(disk)[i] # Bad /\ turn.rec = i /\ turn = OutcomeOf(tool, i, disk.recs[i], StartedAt(disk)).turn
    BY <1>5, <2>4
  <2>6. Lines(disk)[i] = disk.recs[i]
    BY <1>1, <2>5 DEF Lines
  <2>7. QED
    BY <1>2, <1>7, <2>2, <2>5, <2>6 DEF ReadAs
<1>8. CASE tool \in ArrayTools
  <2>1. LoadMessages(disk, ref) = VisitArray(disk, outs)
    BY <1>8, LoadsVisit DEF LoadMessages
  <2>2. disk.half = "no" /\ LoadMessages(disk, ref) = Gather(Visited(disk.recs, outs))
    BY <1>3, <2>1 DEF VisitArray
  <2>3. Tuple(Visited(disk.recs, outs), n)
    BY <1>1, VisitedAre
  <2>4. PICK i \in 1 .. n : turn = Visited(disk.recs, outs)[i].turn
    BY <2>2, <2>3, GatheredIs
  <2>5. turn.rec = i /\ turn = OutcomeOf(tool, i, disk.recs[i], StartedAt(disk)).turn
    BY <1>5, <2>4
  <2>6. QED
    BY <1>2, <1>8, <2>2, <2>5 DEF ReadAs
<1>9. QED
  BY <1>6, <1>7, <1>8

LEMMA RolesAre ==
  ASSUME NEW i, NEW role, NEW blocks, NEW at, NEW why
  PROVE  /\ Shown(i, role, blocks, at).turn.role = role
         /\ ShownUnlessEmpty(i, role, blocks, at).turn.role \in {role, "none"}
         /\ LeftOut(why).turn.role = "none"
<1>1. Shown(i, role, blocks, at).turn.role = role
  BY DEF Shown, Turn
<1>2. LeftOut(why).turn.role = "none"
  BY NoTurnIs DEF LeftOut
<1>3. \/ ShownUnlessEmpty(i, role, blocks, at) = LeftOut("empty")
      \/ ShownUnlessEmpty(i, role, blocks, at) = Shown(i, role, blocks, at)
  BY DEF ShownUnlessEmpty
<1>4. LeftOut("empty").turn.role = "none"
  BY NoTurnIs DEF LeftOut
<1>5. ShownUnlessEmpty(i, role, blocks, at).turn.role \in {role, "none"}
  BY <1>1, <1>3, <1>4
<1>6. QED
  BY <1>1, <1>2, <1>5

LEMMA ClaudeSpeaks ==
  ASSUME NEW i, NEW r, ClaudeOutcome(i, r).turn.role \in Speakers
  PROVE  r.type \in {"user", "assistant"}
<1> SUFFICES ASSUME r.type \notin {"user", "assistant"} PROVE FALSE
  OBVIOUS
<1>1. ClaudeOutcome(i, r) = LeftOut("skipped")
  BY DEF ClaudeOutcome
<1>2. QED
  BY <1>1, RolesAre DEF Speakers

LEMMA GeminiSpeaks ==
  ASSUME NEW i, NEW r, GeminiOutcome(i, r).turn.role \in Speakers
  PROVE  r.type \in DOMAIN GeminiRole
<1> SUFFICES ASSUME r.type \notin DOMAIN GeminiRole PROVE FALSE
  OBVIOUS
<1>1. GeminiOutcome(i, r) = LeftOut("skipped")
  BY DEF GeminiOutcome
<1>2. QED
  BY <1>1, RolesAre DEF Speakers

LEMMA CopilotSpeaks ==
  ASSUME NEW i, NEW r, CopilotOutcome(i, r).turn.role \in Speakers
  PROVE  r.type \in CopilotCounted \cup {"user_other"}
<1>1. CASE r.type \in {"tool_start", "tool_complete", "tool_result"}
  BY <1>1 DEF CopilotCounted
<1>2. CASE r.type \in DOMAIN CopilotRole
  <2>1. CASE r.type = "tool_other"
    <3> DEFINE role == CopilotRole[r.type]
    <3>1. CopilotOutcome(i, r) = ShownUnlessEmpty(i, role, CopilotBlocks(r), Time(i, r, i - 1))
      BY <1>2, <2>1 DEF CopilotOutcome
    <3>2. role = "tool"
      BY <2>1 DEF CopilotRole
    <3> HIDE DEF role
    <3>3. CopilotOutcome(i, r).turn.role \in {role, "none"}
      BY <3>1, RolesAre
    <3>4. QED
      BY <3>2, <3>3 DEF Speakers
  <2>2. CASE r.type # "tool_other"
    BY <1>2, <2>2 DEF CopilotRole, CopilotCounted
  <2>3. QED
    BY <2>1, <2>2
<1>3. CASE r.type \notin {"tool_start", "tool_complete", "tool_result"} \cup DOMAIN CopilotRole
  <2>1. CopilotOutcome(i, r) = LeftOut("skipped")
    BY <1>3 DEF CopilotOutcome
  <2>2. QED
    BY <2>1, RolesAre DEF Speakers
<1>4. QED
  BY <1>1, <1>2, <1>3

LEMMA CodexSpeaks ==
  ASSUME NEW i, NEW r, CodexOutcome(i, r).turn.role \in Speakers
  PROVE  \/ r.type \in {"user", "assistant"}
         \/ r.type \in {"user_message", "agent_message"} /\ r.body
<1> DEFINE old == {"user", "assistant", "tool_use"}
<1>1. DOMAIN CodexOldTypes = old /\ CodexOldTypes["tool_use"] = "tool"
  BY DEF CodexOldTypes
<1>2. /\ old \cap CodexEvents = {} /\ old \cap CodexItems = {} /\ CodexEvents \cap CodexItems = {}
      /\ "error" \notin old \cup CodexEvents \cup CodexItems
  BY DEF CodexEvents, CodexItems
<1>3. \A why : LeftOut(why).turn.role \notin Speakers
  BY RolesAre DEF Speakers
<1>4. CASE r.type \in old
  <2>1. CASE r.type = "tool_use"
    <3> DEFINE role == CodexOldTypes[r.type]
    <3>1. CodexOutcome(i, r) = ShownUnlessEmpty(i, role, CodexText(r, role), Time(i, r, i - 1))
      BY <1>1, <1>2, <1>4 DEF CodexOutcome
    <3>2. role = "tool"
      BY <1>1, <2>1
    <3> HIDE DEF role
    <3>3. CodexOutcome(i, r).turn.role \in {role, "none"}
      BY <3>1, RolesAre
    <3>4. QED
      BY <3>2, <3>3 DEF Speakers
  <2>2. QED
    BY <1>4, <2>1
<1>5. CASE r.type = "error"
  <2>1. CodexOutcome(i, r) =
          IF r.body THEN Shown(i, "system", <<Block("error", 1)>>, Time(i, r, i - 1))
          ELSE LeftOut("quiet")
    BY <1>1, <1>2, <1>5 DEF CodexOutcome
  <2>2. Shown(i, "system", <<Block("error", 1)>>, Time(i, r, i - 1)).turn.role = "system"
    BY RolesAre
  <2>3. CodexOutcome(i, r).turn.role = "system" \/ CodexOutcome(i, r) = LeftOut("quiet")
    BY <2>1, <2>2
  <2>4. QED
    BY <1>3, <2>3 DEF Speakers
<1>6. CASE r.type \in CodexEvents
  <2>1. CodexOutcome(i, r) = CodexEvent(i, r)
    BY <1>1, <1>2, <1>6 DEF CodexOutcome
  <2>2. CASE ~r.body \/ r.type \notin {"user_message", "agent_message"}
    <3>1. CodexEvent(i, r) = LeftOut("quiet")
      BY <2>2 DEF CodexEvent
    <3>2. QED
      BY <1>3, <2>1, <3>1
  <2>3. QED
    BY <2>2
<1>7. CASE r.type \in CodexItems
  <2>1. CodexOutcome(i, r) = CodexItem(i, r)
    BY <1>1, <1>2, <1>7 DEF CodexOutcome
  <2>2. \/ CodexItem(i, r) = LeftOut("quiet")
        \/ CodexItem(i, r) = Shown(i, "tool", <<Block("call", 1)>>, Time(i, r, i - 1))
        \/ CodexItem(i, r) = Shown(i, "tool", <<Block("result", 1)>>, Time(i, r, i - 1))
    BY DEF CodexItem
  <2>3. \A b, at : Shown(i, "tool", b, at).turn.role = "tool"
    BY RolesAre
  <2>4. QED
    BY <1>3, <2>1, <2>2, <2>3 DEF Speakers
<1>8. CASE r.type \notin old \cup {"error"} \cup CodexEvents \cup CodexItems
  <2>1. CodexOutcome(i, r) = LeftOut("skipped")
    BY <1>1, <1>8 DEF CodexOutcome
  <2>2. QED
    BY <1>3, <2>1
<1>9. QED
  BY <1>4, <1>5, <1>6, <1>7, <1>8

(***************************************************************************)
(* The list counts what was said.                                          *)
(***************************************************************************)
LEMMA SessionOffers ==
  ASSUME NEW count, NEW c, count >= c
  PROVE  Offers(Session(1, count), 1, c)
<1> DEFINE s == Session(1, count)
<1>1. s \in [1 .. 1 -> {s[1]}] /\ Len(s) = 1 /\ s[1].ref = 1 /\ s[1].count = count
  BY DEF Session
<1> HIDE DEF s
<1>2. Tuple(s, Len(s))
  <2>1. 1 \in Nat
    OBVIOUS
  <2>2. Tuple(s, 1)
    BY <1>1, <2>1, Zenon DEF Tuple
  <2>3. QED
    BY <1>1, <2>2
<1>3. \A k \in 1 .. 1 : k = 1
  OBVIOUS
<1>4. 1 \in 1 .. 1
  OBVIOUS
<1>5. Offers(s, 1, c)
  BY <1>1, <1>2, <1>3, <1>4 DEF Offers
<1>6. QED
  BY <1>5 DEF s

\* What the load of the one session shows of its speakers, and the records of those
\* turns that the list knows.
TheSaid(said) ==
  /\ said = Spoken(LoadMessages(disk, 1).turns)
  /\ Tuple(said, Len(said)) /\ 1 \in 1 .. Len(said)
  /\ Len(said) <= Len(LoadMessages(disk, 1).turns)

KnownOf(said) == {i \in {said[k].rec : k \in DOMAIN said} : Announced(i)}

LEMMA KnownAre ==
  ASSUME NEW said, Tuple(said, Len(said))
  PROVE  /\ IsFiniteSet(KnownOf(said)) /\ Cardinality(KnownOf(said)) \in Nat
         /\ Cardinality(KnownOf(said)) <= Len(said)
         /\ \A i \in KnownOf(said) : Announced(i) /\ \E j \in 1 .. Len(said) : said[j].rec = i
<1>1. DOMAIN said = 1 .. Len(said) /\ Len(said) \in Nat
  BY TupleIs DEF Tuple
<1>2. \A i \in KnownOf(said) : Announced(i) /\ \E j \in 1 .. Len(said) : said[j].rec = i
  BY <1>1 DEF KnownOf
<1> DEFINE of == [j \in 1 .. Len(said) |-> said[j].rec]
<1>3. \A i \in KnownOf(said) : \E j \in 1 .. Len(said) : of[j] = i
  BY <1>2
<1> HIDE DEF of
<1>4. IsFiniteSet(KnownOf(said)) /\ Cardinality(KnownOf(said)) <= Len(said)
  BY <1>1, <1>3, NoMoreThan
<1>5. Cardinality(KnownOf(said)) \in Nat
  BY <1>4, FS_CardinalityType
<1>6. QED
  BY <1>2, <1>4, <1>5

\* What a command loads after listing shows what there is of the records.
LEMMA MessagesLoaded ==
  ASSUME DiskInv, tool # "aider", NEW ref
  PROVE  Loaded(LoadMessages(disk, ref), disk.recs)
<1>1. StartedAt(disk) \in Int
  BY StartIs DEF DiskInv
<1>2. QED
  BY <1>1, AllLoad DEF LoadMessages

LEMMA EmptyTuple ==
  ASSUME NEW s, Tuple(s, Len(s)), s # <<>> PROVE 1 \in 1 .. Len(s)
<1>1. PICK S : s \in [1 .. Len(s) -> S]
  BY DEF Tuple
<1>2. Len(s) \in Nat
  BY DEF Tuple
<1>3. s \in Seq(S)
  BY <1>1, <1>2
<1>4. Len(s) # 0
  BY <1>3, EmptySeq
<1>5. QED
  BY <1>2, <1>4

LEMMA SaidIs ==
  ASSUME DiskInv, tool # "aider", Spoken(LoadMessages(disk, 1).turns) # <<>>
  PROVE  TheSaid(Spoken(LoadMessages(disk, 1).turns))
<1> DEFINE turns == LoadMessages(disk, 1).turns
<1>1. Tuple(turns, Len(turns))
  BY MessagesLoaded DEF Loaded
<1> HIDE DEF turns
<1>2. Tuple(Spoken(turns), Len(Spoken(turns))) /\ Len(Spoken(turns)) <= Len(turns)
  BY <1>1, SpokenAre
<1>3. Spoken(turns) # <<>>
  BY DEF turns
<1>4. 1 \in 1 .. Len(Spoken(turns))
  BY <1>2, <1>3, EmptyTuple
<1>5. QED
  BY <1>2, <1>4 DEF TheSaid, turns

LEMMA SaidIsRead ==
  ASSUME DiskInv, tool \in LineTools \cup ArrayTools, NEW said, TheSaid(said), NEW j \in 1 .. Len(said)
  PROVE  \E i \in 1 .. Len(disk.recs) :
           /\ said[j].rec = i /\ said[j].role \in Speakers
           /\ ReadAs(said[j], i, disk)
<1> DEFINE turns == LoadMessages(disk, 1).turns
<1>1. tool # "aider"
  BY DEF LineTools, ArrayTools
<1>2. Tuple(turns, Len(turns))
  BY <1>1, MessagesLoaded DEF Loaded
<1>3. said[j].role \in Speakers /\ \E k \in 1 .. Len(turns) : said[j] = turns[k]
  <2>1. said = Spoken(turns)
    BY DEF TheSaid
  <2> HIDE DEF turns
  <2>2. \A l \in 1 .. Len(Spoken(turns)) :
          Spoken(turns)[l].role \in Speakers /\ \E k \in 1 .. Len(turns) : Spoken(turns)[l] = turns[k]
    BY <1>2, SpokenAre, Zenon
  <2>3. QED
    BY <2>1, <2>2, Zenon
<1>4. PICK k \in 1 .. Len(turns) : said[j] = turns[k]
  BY <1>3
<1>5. PICK i \in 1 .. Len(disk.recs) : ReadAs(turns[k], i, disk)
  BY <1>3, <1>4, SpokenIsRead
<1>6. QED
  BY <1>3, <1>4, <1>5 DEF ReadAs

LEMMA ThoseAre ==
  ASSUME DiskInv, NEW recs, DOMAIN recs = DOMAIN disk.recs, NEW C, C \subseteq DOMAIN recs
  PROVE  IsFiniteSet(C) /\ Cardinality(C) \in Nat
<1>1. Len(disk.recs) \in Nat /\ DOMAIN recs = 1 .. Len(disk.recs)
  BY DEF DiskInv, Disks
<1>2. \A n \in Nat : IsFiniteSet(1 .. n)
  BY FS_Interval
<1>3. IsFiniteSet(C)
  BY <1>1, <1>2, FS_Subset
<1>4. QED
  BY <1>3, FS_CardinalityType

\* What the list counts at least: the records said that it knows, which are among
\* those it counts.
AtLeast(said) == Cardinality(KnownOf(said))

LEMMA KnownAmong ==
  ASSUME NEW said, TheSaid(said), NEW C, IsFiniteSet(C),
         \A j \in 1 .. Len(said) : Announced(said[j].rec) => said[j].rec \in C
  PROVE  Cardinality(C) >= AtLeast(said)
<1>1. Tuple(said, Len(said))
  BY DEF TheSaid
<1>2. KnownOf(said) \subseteq C
  BY <1>1, KnownAre
<1>3. Cardinality(KnownOf(said)) <= Cardinality(C)
  BY <1>2, FS_Subset
<1>4. Cardinality(KnownOf(said)) \in Nat /\ Cardinality(C) \in Nat
  BY <1>1, KnownAre, FS_CardinalityType
<1>5. QED
  BY <1>3, <1>4 DEF AtLeast

LEMMA SaidAmong ==
  ASSUME NEW said, TheSaid(said), NEW C, IsFiniteSet(C), \A j \in 1 .. Len(said) : said[j].rec \in C
  PROVE  C # {} /\ Cardinality(C) >= AtLeast(said)
<1>1. C # {}
  BY DEF TheSaid
<1>2. QED
  BY <1>1, KnownAmong

LEMMA NoMoreKnown ==
  ASSUME NEW said, TheSaid(said)
  PROVE  AtLeast(said) \in Nat /\ AtLeast(said) <= Len(said) /\ Len(said) \in Nat
BY KnownAre DEF TheSaid, AtLeast, Tuple

LEMMA ClaudeCounts ==
  ASSUME DiskInv, tool = "claude-code", NEW said, TheSaid(said), CanBeDated(disk, said)
  PROVE  Offers(ClaudeSession(disk), 1, AtLeast(said))
<1> DEFINE recs == Lines(disk)
           C == Those(recs, {"user", "assistant"})
<1>1. tool \in LineTools /\ DOMAIN recs = DOMAIN disk.recs /\ C \subseteq DOMAIN recs
  BY DEF LineTools, Lines, Those
<1>2. \A j \in 1 .. Len(said) : Utf8(disk) /\ said[j].rec \in C
  <2> TAKE j \in 1 .. Len(said)
  <2>1. PICK i \in 1 .. Len(disk.recs) :
          said[j].rec = i /\ said[j].role \in Speakers /\ ReadAs(said[j], i, disk)
    BY <1>1, SaidIsRead
  <2>2. Utf8(disk) /\ recs[i] = disk.recs[i] /\ said[j] = OutcomeOf(tool, i, disk.recs[i], StartedAt(disk)).turn
    BY <1>1, <2>1 DEF ReadAs
  <2>3. said[j] = ClaudeOutcome(i, disk.recs[i]).turn
    BY <2>2 DEF OutcomeOf
  <2>4. recs[i].type \in {"user", "assistant"}
    BY <2>1, <2>2, <2>3, ClaudeSpeaks
  <2>5. i \in DOMAIN recs
    BY <1>1 DEF DiskInv, Disks
  <2> HIDE DEF recs
  <2>6. QED
    BY <2>1, <2>2, <2>4, <2>5 DEF Those
<1>3. Utf8(disk)
  BY <1>2 DEF TheSaid
<1>4. "dated" \in disk.meta \/ {i \in DOMAIN recs : Dated(recs[i])} # {}
  BY <1>1 DEF CanBeDated
<1>5. IsFiniteSet(C)
  BY <1>1, ThoseAre
<1>6. C # {} /\ Cardinality(C) >= AtLeast(said)
  BY <1>2, <1>5, SaidAmong
<1>7. ClaudeSession(disk) = Session(1, Cardinality(C))
  BY <1>3, <1>4, <1>6 DEF ClaudeSession
<1>8. QED
  BY <1>6, <1>7, SessionOffers

LEMMA CodexCounts ==
  ASSUME DiskInv, tool = "codex-cli", NEW said, TheSaid(said), CanBeDated(disk, said)
  PROVE  Offers(CodexSession(disk), 1, AtLeast(said))
<1> DEFINE recs == Lines(disk)
           C == Those(recs, {"user", "assistant"})
                  \cup {i \in Those(recs, {"user_message", "agent_message"}) : recs[i].body}
<1>1. tool \in LineTools /\ DOMAIN recs = DOMAIN disk.recs /\ C \subseteq DOMAIN recs
  BY DEF LineTools, Lines, Those
<1>2. \A j \in 1 .. Len(said) : Utf8(disk) /\ said[j].rec \in C
  <2> TAKE j \in 1 .. Len(said)
  <2>1. PICK i \in 1 .. Len(disk.recs) :
          said[j].rec = i /\ said[j].role \in Speakers /\ ReadAs(said[j], i, disk)
    BY <1>1, SaidIsRead
  <2>2. Utf8(disk) /\ recs[i] = disk.recs[i] /\ said[j] = OutcomeOf(tool, i, disk.recs[i], StartedAt(disk)).turn
    BY <1>1, <2>1 DEF ReadAs
  <2>3. said[j] = CodexOutcome(i, disk.recs[i]).turn
    BY <2>2 DEF OutcomeOf
  <2>4. \/ recs[i].type \in {"user", "assistant"}
        \/ recs[i].type \in {"user_message", "agent_message"} /\ recs[i].body
    BY <2>1, <2>2, <2>3, CodexSpeaks
  <2>5. i \in DOMAIN recs
    BY <1>1 DEF DiskInv, Disks
  <2> HIDE DEF recs
  <2>6. QED
    BY <2>1, <2>2, <2>4, <2>5 DEF Those
<1>3. Utf8(disk)
  BY <1>2 DEF TheSaid
<1>4. \E i \in DOMAIN recs : Dated(recs[i])
  BY <1>1 DEF CanBeDated
<1>5. IsFiniteSet(C)
  BY <1>1, ThoseAre
<1>6. C # {} /\ Cardinality(C) >= AtLeast(said)
  BY <1>2, <1>5, SaidAmong
<1>7. CodexSession(disk) = Session(1, Cardinality(C))
  BY <1>3, <1>4, <1>6 DEF CodexSession
<1>8. QED
  BY <1>6, <1>7, SessionOffers

LEMMA CopilotCounts ==
  ASSUME DiskInv, tool = "copilot-cli", NEW said, TheSaid(said), CanBeDated(disk, said)
  PROVE  Offers(CopilotSession(disk), 1, AtLeast(said))
<1> DEFINE recs == Lines(disk)
           C == {i \in Those(recs, CopilotCounted) : \A k \in 1 .. i : recs[k] # Binary}
<1>1. tool \in LineTools /\ DOMAIN recs = DOMAIN disk.recs /\ C \subseteq DOMAIN recs
  BY DEF LineTools, Lines, Those
<1>2. \A j \in 1 .. Len(said) :
        Utf8(disk) /\ (Announced(said[j].rec) => said[j].rec \in Those(recs, CopilotCounted))
  <2> TAKE j \in 1 .. Len(said)
  <2>1. PICK i \in 1 .. Len(disk.recs) :
          said[j].rec = i /\ said[j].role \in Speakers /\ ReadAs(said[j], i, disk)
    BY <1>1, SaidIsRead
  <2>2. Utf8(disk) /\ recs[i] = disk.recs[i] /\ said[j] = OutcomeOf(tool, i, disk.recs[i], StartedAt(disk)).turn
    BY <1>1, <2>1 DEF ReadAs
  <2>3. said[j] = CopilotOutcome(i, disk.recs[i]).turn
    BY <2>2 DEF OutcomeOf
  <2>4. recs[i].type \in CopilotCounted \cup {"user_other"}
    BY <2>1, <2>2, <2>3, CopilotSpeaks
  <2>5. i \in DOMAIN recs
    BY <1>1 DEF DiskInv, Disks
  <2>6. Announced(i) => recs[i].type # "user_other"
    BY <2>2 DEF Announced
  <2> HIDE DEF recs
  <2>7. QED
    BY <2>1, <2>2, <2>4, <2>5, <2>6 DEF Those
<1>3. Utf8(disk)
  BY <1>2 DEF TheSaid
<1>4. \A k \in DOMAIN recs : recs[k] # Binary
  <2>1. Bad # Binary
    BY DEF Bad, Binary
  <2>2. QED
    BY <1>3, <2>1 DEF Lines, Utf8
<1>5. \A i \in DOMAIN recs : \A k \in 1 .. i : k \in DOMAIN recs
  <2>1. DOMAIN recs = 1 .. Len(disk.recs) /\ Len(disk.recs) \in Nat
    BY <1>1 DEF DiskInv, Disks
  <2> HIDE DEF recs
  <2>2. QED
    BY <2>1
<1>6. \A i \in Those(recs, CopilotCounted) : i \in C
  BY <1>4, <1>5 DEF Those
<1>7. IsFiniteSet(C)
  BY <1>1, ThoseAre
<1>8. \A j \in 1 .. Len(said) : Announced(said[j].rec) => said[j].rec \in C
  BY <1>2, <1>6
<1>9. Cardinality(C) >= AtLeast(said)
  BY <1>7, <1>8, KnownAmong
<1>10. CopilotCount(disk) = Cardinality(C)
  <2>1. disk.half # "split"
    BY <1>3 DEF Utf8
  <2>2. QED
    BY <2>1 DEF CopilotCount
<1>11. CopilotSession(disk) = Session(1, Cardinality(C))
  BY <1>10 DEF CopilotSession, CanBeDated
<1>12. QED
  BY <1>9, <1>11, SessionOffers

LEMMA GeminiCounts ==
  ASSUME DiskInv, tool = "gemini-cli", NEW said, TheSaid(said), CanBeDated(disk, said)
  PROVE  Offers(GeminiSession(disk), 1, AtLeast(said))
<1> DEFINE recs == disk.recs
           C == Those(recs, DOMAIN GeminiRole)
<1>1. tool \in ArrayTools /\ C \subseteq DOMAIN recs /\ DOMAIN said = 1 .. Len(said)
  BY TupleIs DEF ArrayTools, Those, TheSaid
<1>2. \A j \in 1 .. Len(said) : disk.half = "no" /\ said[j].rec \in C
  <2> TAKE j \in 1 .. Len(said)
  <2>1. PICK i \in 1 .. Len(disk.recs) :
          said[j].rec = i /\ said[j].role \in Speakers /\ ReadAs(said[j], i, disk)
    BY <1>1, SaidIsRead
  <2>2. disk.half = "no" /\ said[j] = OutcomeOf(tool, i, recs[i], StartedAt(disk)).turn
    BY <1>1, <2>1 DEF ReadAs
  <2>3. said[j] = GeminiOutcome(i, recs[i]).turn
    BY <2>2 DEF OutcomeOf
  <2>4. recs[i].type \in DOMAIN GeminiRole
    BY <2>1, <2>3, GeminiSpeaks
  <2>5. i \in DOMAIN recs
    BY <1>1 DEF DiskInv, Disks
  <2> HIDE DEF recs
  <2>6. QED
    BY <2>1, <2>2, <2>4, <2>5 DEF Those
<1>3. disk.half = "no"
  BY <1>2 DEF TheSaid
<1>4. "dated" \in disk.meta \/ \E i \in C : Dated(recs[i])
  <2>1. "dated" \in disk.meta \/ \E k \in DOMAIN said : Dated(recs[said[k].rec])
    BY DEF CanBeDated
  <2> HIDE DEF C
  <2>2. QED
    BY <1>1, <1>2, <2>1
<1>5. IsFiniteSet(C)
  BY <1>1, ThoseAre
<1>6. C # {} /\ Cardinality(C) >= AtLeast(said)
  BY <1>2, <1>5, SaidAmong
<1>7. GeminiSession(disk) = Session(1, Cardinality(C))
  BY <1>3, <1>4, <1>6 DEF GeminiSession
<1>8. QED
  BY <1>6, <1>7, SessionOffers

\* Continue and Cline count the turns of a load, Zed the records.
LEMMA SaidIsRecorded ==
  ASSUME DiskInv, tool \in LineTools \cup ArrayTools, NEW said, TheSaid(said)
  PROVE  /\ disk.recs # <<>> /\ Len(disk.recs) >= AtLeast(said)
         /\ tool \in ArrayTools => disk.half = "no"
<1>1. Len(disk.recs) \in Nat /\ DOMAIN disk.recs = 1 .. Len(disk.recs)
  BY DEF DiskInv, Disks
<1> DEFINE C == DOMAIN disk.recs
<1>2. \A j \in 1 .. Len(said) : said[j].rec \in C /\ (tool \in ArrayTools => disk.half = "no")
  BY <1>1, SaidIsRead DEF ReadAs
<1>3. IsFiniteSet(C)
  BY <1>1, ThoseAre
<1>4. \A n \in Nat : Cardinality(1 .. n) = n
  BY FS_Interval
<1>5. Cardinality(C) = Len(disk.recs)
  BY <1>1, <1>4
<1>6. disk.recs = <<>> => C = {}
  OBVIOUS
<1> HIDE DEF C
<1>7. C # {} /\ Cardinality(C) >= AtLeast(said)
  BY <1>2, <1>3, SaidAmong
<1>8. 1 \in 1 .. Len(said)
  BY DEF TheSaid
<1>9. QED
  BY <1>2, <1>5, <1>6, <1>7, <1>8

LEMMA OthersCount ==
  ASSUME DiskInv, tool \in {"continue-dev", "cline", "zed-ai"}, NEW said, TheSaid(said)
  PROVE  Offers(SessionsOf(tool, disk), 1, AtLeast(said))
<1>1. tool \in LineTools \cup ArrayTools
  BY DEF LineTools, ArrayTools
<1>2. /\ disk.recs # <<>> /\ Len(disk.recs) >= AtLeast(said)
      /\ tool \in ArrayTools => disk.half = "no"
  BY <1>1, SaidIsRecorded
<1>3. Len(LoadMessages(disk, 1).turns) >= AtLeast(said)
  <2>1. Loaded(LoadMessages(disk, 1), disk.recs)
    BY MessagesLoaded
  <2>2. Len(LoadMessages(disk, 1).turns) \in Nat
    BY <2>1 DEF Loaded, Tuple
  <2>3. QED
    BY <2>2, NoMoreKnown DEF TheSaid
<1>4. CASE tool = "continue-dev"
  <2>1. SessionsOf(tool, disk) = Session(1, Len(LoadMessages(disk, 1).turns))
    BY <1>2, <1>4 DEF SessionsOf, ContinueSession, LoadMessages, LoadSession, StartedAt
  <2>2. QED
    BY <1>3, <2>1, SessionOffers
<1>5. CASE tool = "cline"
  <2>1. SessionsOf(tool, disk) = Session(1, Len(LoadMessages(disk, 1).turns))
    BY <1>2, <1>5 DEF SessionsOf, ClineSession, LoadMessages, LoadSession, StartedAt
  <2>2. QED
    BY <1>3, <2>1, SessionOffers
<1>6. CASE tool = "zed-ai"
  <2>1. SessionsOf(tool, disk) = Session(1, Len(disk.recs))
    BY <1>2, <1>6 DEF SessionsOf, ZedSession, ArrayTools
  <2>2. QED
    BY <1>2, <2>1, SessionOffers
<1>7. QED
  BY <1>4, <1>5, <1>6

LEMMA OpenCodeCounts ==
  ASSUME DiskInv, tool = "opencode", NEW said, TheSaid(said), CanBeDated(disk, said)
  PROVE  Offers(OpenCodeSession(disk), 1, AtLeast(said))
<1> DEFINE n == Len(disk.recs)
           outs == [i \in DOMAIN disk.recs |->
                     OpenCodeOutcome(i, disk.recs[i], i = Len(disk.recs) /\ disk.half # "no")]
           turns == Gather(outs).turns
<1>1. n \in Nat /\ DOMAIN disk.recs = 1 .. n
  BY DEF DiskInv, Disks
<1>2. LoadMessages(disk, 1).turns = Sorted(turns)
  <2>1. LoadMessages(disk, 1) = OpenCodeLoad(disk)
    BY DEF LoadMessages, LoadSession
  <2>2. OpenCodeLoad(disk) = [Gather(outs) EXCEPT !.turns = Sorted(turns)]
    BY DEF OpenCodeLoad
  <2> DEFINE put == Sorted(turns)
  <2>3. OpenCodeLoad(disk) = [Gather(outs) EXCEPT !.turns = put]
    BY <2>2
  <2>4. put = Sorted(turns)
    OBVIOUS
  <2> HIDE DEF put, turns, outs
  <2>5. [Gather(outs) EXCEPT !.turns = put].turns = put
    BY WithTurns
  <2>6. OpenCodeLoad(disk).turns = put
    BY <2>3, <2>5, Zenon
  <2>7. QED
    BY <2>1, <2>4, <2>6, Zenon
<1>3. outs = [i \in 1 .. n |-> outs[i]]
  BY <1>1
<1> HIDE DEF outs
<1>4. Tuple(outs, n)
  BY <1>1, <1>3, MappedIs
<1>5. Tuple(turns, Len(turns)) /\ Len(turns) <= n
  BY <1>4, TurnsAreTuple DEF Gather
<1> HIDE DEF turns
<1>6. Len(Sorted(turns)) = Len(turns)
  <2>1. DOMAIN Sorted(turns) = 1 .. Len(turns) /\ Len(turns) \in Nat
    BY <1>5, TupleIs DEF Sorted
  <2>2. Sorted(turns) = [i \in DOMAIN turns |-> Sorted(turns)[i]]
    BY DEF Sorted
  <2>3. Sorted(turns) = [i \in 1 .. Len(turns) |-> Sorted(turns)[i]]
    BY <1>5, <2>2, TupleIs
  <2>4. QED
    BY <2>1, <2>3, MappedIs, TupleIs
<1>7. n >= AtLeast(said)
  <2>1. Len(said) <= Len(turns)
    BY <1>2, <1>6 DEF TheSaid
  <2>2. Len(turns) \in Nat
    BY <1>5 DEF Tuple
  <2>3. QED
    BY <1>1, <1>5, <2>1, <2>2, NoMoreKnown
<1>8. OpenCodeSession(disk) = Session(1, n)
  BY DEF OpenCodeSession, CanBeDated
<1>9. QED
  BY <1>7, <1>8, SessionOffers

\* Cursor's composer row names every bubble that the list knows.
LEMMA CursorCounts ==
  ASSUME DiskInv, tool = "cursor", NEW said, TheSaid(said), CanBeDated(disk, said)
  PROVE  Offers(CursorSession(disk), 1, AtLeast(said))
<1>1. DOMAIN disk.head = 1 .. Len(disk.head) /\ Len(disk.head) \in Nat
  BY DEF DiskInv, Disks
<1>2. \A i \in KnownOf(said) : \E k \in 1 .. Len(disk.head) : disk.head[k] = i
  BY <1>1, KnownAre DEF TheSaid, Announced
<1>3. Cardinality(KnownOf(said)) <= Len(disk.head)
  BY <1>1, <1>2, NoMoreThan
<1>4. Len(disk.head) >= AtLeast(said)
  BY <1>1, <1>3, NoMoreKnown DEF AtLeast
<1>5. CursorSession(disk) = Session(1, Len(disk.head))
  BY DEF CursorSession, CanBeDated
<1>6. QED
  BY <1>4, <1>5, SessionOffers

LEMMA ReaderOffers ==
  ASSUME DiskInv, tool \in ListsAll \cup ListsUnseen, NEW said, TheSaid(said), CanBeDated(disk, said)
  PROVE  Offers(SessionsOf(tool, disk), 1, AtLeast(said))
<1>1. CASE tool = "claude-code"
  BY <1>1, ClaudeCounts DEF SessionsOf
<1>2. CASE tool = "codex-cli"
  BY <1>2, CodexCounts DEF SessionsOf
<1>3. CASE tool = "copilot-cli"
  BY <1>3, CopilotCounts DEF SessionsOf
<1>4. CASE tool = "gemini-cli"
  BY <1>4, GeminiCounts DEF SessionsOf
<1>5. CASE tool = "opencode"
  BY <1>5, OpenCodeCounts DEF SessionsOf
<1>6. CASE tool \in ListsUnseen
  BY <1>6, OthersCount DEF ListsUnseen
<1>7. CASE tool = "cursor"
  BY <1>7, CursorCounts DEF SessionsOf
<1>8. QED
  BY <1>1, <1>2, <1>3, <1>4, <1>5, <1>6, <1>7 DEF ListsAll

(***************************************************************************)
(* Aider lists a block of a second, and a load finds the first of them, if *)
(* that has a turn, first too.                                             *)
(***************************************************************************)
LEMMA DrawnInOrder ==
  ASSUME NEW t, NEW s, NEW n, n \in Nat, NEW I, Drawn(t, s, n, I),
         NEW a \in (1 .. n) \cap I, NEW b \in (1 .. n) \cap I, a < b
  PROVE  Place(I, a) \in 1 .. Len(t) /\ Place(I, a) < Place(I, b)
<1>1. Place(I, a) \in 1 .. Len(t)
  BY DEF Drawn
<1>2. a \in Nat /\ b \in Nat /\ b \in I
  OBVIOUS
<1>3. QED
  BY <1>1, <1>2, PlacesDiffer

\* What is drawn first stands at i, the first of the positions in I.
LeadsAt(t, s, n, I, i) ==
  /\ i \in (1 .. n) \cap I /\ t[1] = s[i]
  /\ \A k \in (1 .. n) \cap I : i <= k

LEMMA FirstDrawn ==
  ASSUME NEW t, NEW s, NEW n, n \in Nat, NEW I, Drawn(t, s, n, I), 1 \in 1 .. Len(t)
  PROVE  \E i : LeadsAt(t, s, n, I, i)
<1>1. PICK i \in (1 .. n) \cap I : Place(I, i) = 1 /\ t[1] = s[i]
  BY DEF Drawn
<1>2. ASSUME NEW k \in (1 .. n) \cap I, k < i PROVE FALSE
  <2>1. Place(I, k) \in 1 .. Len(t) /\ Place(I, k) < Place(I, i)
    BY <1>2, DrawnInOrder
  <2>2. Len(t) \in Nat
    BY DEF Drawn, Tuple
  <2>3. QED
    BY <1>1, <2>1, <2>2
<1>3. \A k \in (1 .. n) \cap I : i <= k
  BY <1>2
<1>4. LeadsAt(t, s, n, I, i)
  BY <1>1, <1>3 DEF LeadsAt
<1>5. QED
  BY <1>4

LEMMA AiderOffers ==
  ASSUME DiskInv, NEW ref, Spoken(AiderLoad(disk, ref).turns) # <<>>
  PROVE  Offers(AiderSessions(disk), ref, AtLeast(Spoken(AiderLoad(disk, ref).turns)))
<1> DEFINE lines == AiderLines(disk)
           blocks == SplitSessions(lines)
           n == Len(Starts(lines))
           turns == AiderLoad(disk, ref).turns
           read == [k \in DOMAIN blocks |-> AiderTurns(blocks[k], lines)]
           raw == [k \in DOMAIN blocks |-> [ref |-> blocks[k].at, count |-> Len(read[k])]]
           I == {k \in DOMAIN blocks : blocks[k].at = ref}
           K == {k \in DOMAIN blocks : read[k] # <<>>}
           same == OfSecond(lines, ref)
           c == AtLeast(Spoken(turns))
           s == AiderSessions(disk)
<1>1. turns # <<>>
  <2>1. Spoken(<<>>) = <<>>
    <3>1. Tuple(<<>>, Len(<<>>)) /\ Len(<<>>) = 0
      BY NoneListed DEF Listed
    <3>2. Tuple(Spoken(<<>>), Len(Spoken(<<>>))) /\ Len(Spoken(<<>>)) <= 0
      BY <3>1, SpokenAre
    <3>3. ~(1 \in 1 .. Len(Spoken(<<>>)))
      BY <3>2 DEF Tuple
    <3>4. QED
      BY <3>2, <3>3, EmptyTuple
  <2> HIDE DEF turns
  <2>2. Spoken(turns) # <<>>
    BY DEF turns
  <2>3. QED
    BY <2>1, <2>2
<1>2. Utf8(disk)
  BY <1>1 DEF AiderLoad, Failed
<1>3. turns = AiderFound(lines, ref)
  BY <1>2, AiderLoadIs
<1>4. lines \in Seq(Records)
  BY <1>2, DiskIsWhole, AiderLinesAre
<1>5. s = Picked(raw, K)
  BY <1>2 DEF AiderSessions
<1> HIDE DEF lines
<1>6. n \in Nat /\ blocks \in Seq({BlockAt(lines, i) : i \in 1 .. Len(lines)}) /\ Len(blocks) = n
  BY <1>4, SplitIs
<1>7. Tuple(blocks, n) /\ DOMAIN blocks = 1 .. n
  <2> DEFINE B == {BlockAt(lines, i) : i \in 1 .. Len(lines)}
  <2> HIDE DEF B, blocks, n
  <2>1. blocks \in Seq(B) /\ n \in Nat /\ Len(blocks) = n
    BY <1>6 DEF B
  <2>2. blocks \in [1 .. n -> B]
    BY <2>1
  <2>3. QED
    BY <2>1, <2>2 DEF Tuple
<1>8. same = Picked(blocks, I)
  BY DEF OfSecond
<1>9. turns = IF same = <<>> THEN <<>> ELSE AiderTurns(same[1], lines)
  BY <1>3 DEF AiderFound, OfSecond
<1>10. c \in Nat /\ c <= Len(turns) /\ Len(turns) \in Nat
  <2>1. Tuple(turns, Len(turns))
    BY <1>3, <1>4, FoundIs
  <2> HIDE DEF turns
  <2>2. Tuple(Spoken(turns), Len(Spoken(turns))) /\ Len(Spoken(turns)) <= Len(turns)
    BY <2>1, SpokenAre
  <2>3. /\ Cardinality(KnownOf(Spoken(turns))) \in Nat
        /\ Cardinality(KnownOf(Spoken(turns))) <= Len(Spoken(turns))
    BY <2>2, KnownAre
  <2>4. Len(turns) \in Nat /\ Len(Spoken(turns)) \in Nat
    BY <2>1, <2>2 DEF Tuple
  <2>5. QED
    BY <2>2, <2>3, <2>4 DEF AtLeast
<1>11. /\ \A k \in 1 .. n : read[k] = AiderTurns(blocks[k], lines)
       /\ \A k \in 1 .. n : raw[k].ref = blocks[k].at /\ raw[k].count = Len(read[k])
       /\ raw = [k \in 1 .. n |-> raw[k]]
  BY <1>7
<1>12. /\ \A k \in (1 .. n) \cap I : blocks[k].at = ref
       /\ \A k \in 1 .. n : blocks[k].at = ref => k \in (1 .. n) \cap I
       /\ \A k \in 1 .. n : read[k] # <<>> => k \in (1 .. n) \cap K
  BY <1>7
<1> HIDE DEF blocks, n, turns, read, raw, I, K, same, c, s
<1>13. Drawn(same, blocks, n, I)
  BY <1>7, <1>8, DrawnFrom
<1>14. Drawn(s, raw, n, K)
  BY <1>5, <1>6, <1>11, MappedIs, DrawnFrom
<1>15. 1 \in 1 .. Len(same)
  <2>1. same # <<>>
    BY <1>1, <1>9
  <2>2. Tuple(same, Len(same))
    BY <1>13 DEF Drawn
  <2>3. QED
    BY <2>1, <2>2, EmptyTuple
<1>16. PICK i \in (1 .. n) \cap I : same[1] = blocks[i] /\ \A k \in (1 .. n) \cap I : i <= k
  <2>1. n \in Nat
    BY <1>6
  <2>2. PICK i : LeadsAt(same, blocks, n, I, i)
    BY <2>1, <1>13, <1>15, FirstDrawn
  <2>3. QED
    BY <2>2 DEF LeadsAt
<1>17. read[i] = turns /\ i \in (1 .. n) \cap K /\ raw[i].ref = ref /\ raw[i].count >= c
  <2>1. read[i] = turns
    BY <1>1, <1>9, <1>11, <1>16
  <2>2. i \in (1 .. n) \cap K
    BY <1>1, <1>12, <2>1
  <2>3. raw[i].ref = ref /\ raw[i].count = Len(turns)
    BY <1>11, <1>12, <2>1
  <2>4. QED
    BY <1>10, <2>1, <2>2, <2>3
<1>18. PICK j \in 1 .. Len(s) : Place(K, i) = j /\ s[j] = raw[i]
  BY <1>14, <1>17 DEF Drawn
<1>19. ASSUME NEW l \in 1 .. Len(s), s[l].ref = ref, \A k \in 1 .. l - 1 : s[k].ref # ref
       PROVE  s[l].count >= c
  <2>1. PICK a \in (1 .. n) \cap K : Place(K, a) = l /\ s[l] = raw[a]
    BY <1>14 DEF Drawn
  <2>2. a \in (1 .. n) \cap I
    BY <1>11, <1>12, <1>19, <2>1
  <2>3. i <= a
    BY <1>16, <2>2
  <2>4. ~(i < a)
    <3> SUFFICES ASSUME i < a PROVE FALSE
      OBVIOUS
    <3>1. j \in 1 .. Len(s) /\ j < l
      BY <1>6, <1>14, <1>17, <1>18, <2>1, DrawnInOrder
    <3>2. j \in 1 .. l - 1
      BY <3>1
    <3>3. QED
      BY <1>17, <1>18, <1>19, <3>2
  <2>5. a = i
    BY <1>6, <2>3, <2>4
  <2>6. QED
    BY <1>17, <2>1, <2>5
<1>20. Tuple(s, Len(s)) /\ \E k \in 1 .. Len(s) : s[k].ref = ref
  BY <1>14, <1>17, <1>18 DEF Drawn
<1>21. Offers(s, ref, c)
  BY <1>19, <1>20 DEF Offers
<1>22. QED
  BY <1>21 DEF s, c, turns

(***************************************************************************)
(* The two parsers of a format agree.                                      *)
(***************************************************************************)
SaidInv == DiskInv /\ SetupInv

LEMMA SaidHolds == SaidInv => SaidIsListed
<1> SUFFICES ASSUME SaidInv, NEW ref \in Refs,
                    Spoken(LoadMessages(disk, ref).turns) # <<>>,
                    CanBeDated(disk, Spoken(LoadMessages(disk, ref).turns)), Reachable
             PROVE  LET entries == Entries(Merged(Discovered(disk)), ref)
                        said == Spoken(LoadMessages(disk, ref).turns)
                    IN  Len(entries) = Paths /\ entries[1].count >= AtLeast(said)
  BY DEF SaidIsListed, Spoken, Speakers, Entries, AtLeast, KnownOf
<1> DEFINE said == Spoken(LoadMessages(disk, ref).turns)
           entries == Entries(Merged(Discovered(disk)), ref)
<1>1. DiskInv /\ SetupInv
  BY DEF SaidInv
<1>2. tool \in ListsAll \cup ListsUnseen \/ tool = "aider"
  BY <1>1, TranscriptsAssumption DEF DiskInv, LineTools, ArrayTools, ListsAll, ListsUnseen
<1>3. Finds(Discovered(disk), ref, AtLeast(said))
  <2>1. CASE tool = "aider"
    <3>1. LoadMessages(disk, ref) = AiderLoad(disk, ref)
      BY <2>1 DEF LoadMessages, LoadSession
    <3>2. Offers(AiderSessions(disk), ref, AtLeast(said))
      BY <1>1, <3>1, AiderOffers
    <3> HIDE DEF said
    <3>3. QED
      BY <1>1, <2>1, <3>2, AiderFinds
  <2>2. CASE tool \in ListsAll \cup ListsUnseen
    <3>1. tool # "aider" /\ ref = 1
      BY <2>2 DEF ListsAll, ListsUnseen, Refs
    <3>2. TheSaid(said)
      BY <1>1, <3>1, SaidIs
    <3>3. Offers(SessionsOf(tool, disk), 1, AtLeast(said))
      BY <1>1, <2>2, <3>2, ReaderOffers
    <3> HIDE DEF said
    <3>4. QED
      BY <1>1, <2>2, <3>1, <3>3, ReaderFinds
  <2>3. QED
    BY <1>2, <2>1, <2>2
<1> HIDE DEF said
<1>4. PICK P : IsFiniteSet(P) /\ Cardinality(P) = Paths /\ Listed(Discovered(disk), ref, P, AtLeast(said))
  BY <1>3 DEF Finds
<1>5. Len(entries) = Paths /\ \A k \in 1 .. Len(entries) : entries[k].count >= AtLeast(said)
  BY <1>4, OnePerBase
<1>6. Paths \in Nat /\ Paths # 0
  BY DEF Paths
<1> HIDE DEF entries
<1>7. entries[1].count >= AtLeast(said)
  BY <1>5, <1>6
<1>8. QED
  BY <1>5, <1>7 DEF entries, said

\* Whatever the user or the assistant said that a load would show is in the list,
\* once for every name its directory was searched by, with no fewer messages than
\* that but for Copilot's events of types the list does not know and the bubbles
\* Cursor's composer row does not name; a session is excepted that nothing dates,
\* whose composer row is too large, or that lies where the walk for Aider's histories
\* does not get to (provider/registry.rs, federated/discovery.rs and the readers'
\* parse/ modules).
THEOREM SaidCorrect == Spec => []SaidIsListed
<1>1. Init => SaidInv
  <2> SUFFICES ASSUME Init PROVE SaidInv
    OBVIOUS
  <2>1. tool \in Tools /\ \E s \in Setups(tool) : env = s[1] /\ place = s[2]
    BY DEF Init
  <2>2. Setups(tool) \subseteq Envs \X (IF tool = "aider" THEN Bases \cup Hidden ELSE Bases)
    BY <2>1, TranscriptsAssumption
  <2>3. env \in Envs /\ place \in IF tool = "aider" THEN Bases \cup Hidden ELSE Bases
    BY <2>1, <2>2
  <2>4. QED
    BY <2>3, DiskStart DEF SaidInv, SetupInv
<1>2. SaidInv /\ [Next]_vars => SaidInv'
  <2> SUFFICES ASSUME SaidInv, [Next]_vars PROVE SaidInv'
    OBVIOUS
  <2>1. DiskInv'
    BY DiskKept DEF SaidInv
  <2>2. UNCHANGED setup
    BY DEF Next, Write, Tear, Complete, AddPart, ListBubble, WriteBeside, Discover, Load, vars, setup
  <2>3. QED
    BY <2>1, <2>2 DEF SaidInv, SetupInv, setup
<1>3. QED
  BY <1>1, <1>2, SaidHolds, PTL DEF Spec
=============================================================================
