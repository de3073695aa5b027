-------------------------- MODULE CoordinatorProofs --------------------------
(***************************************************************************)
(* Proofs about Coordinator and the snapshots it triggers: types, that a   *)
(* step a snapshot records is saved, that the primary records before a     *)
(* backup does, and that a snapshot that ran alone is complete only when   *)
(* every backup has recorded it.                                           *)
(*                                                                         *)
(* Each invariant is the conjunction the property needs to be inductive.   *)
(* A step is one of the snapshot protocol or leaves its variables alone:   *)
(* the invariants about the protocol are shown once for each of its        *)
(* actions, and for Coordinator through them.                              *)
(***************************************************************************)
EXTENDS Coordinator, FiniteSetTheorems, TLAPS

(* Started snapshots *)

\* Snapshots start in the order of their numbers, each once: Next0 is fresh.
Started == {n \in Snapshots : job[n].stage # "none"}
StartedInOrder == \A n \in Started : 1 .. n \subseteq Started

\* The number Next0 gives a snapshot is not one of a snapshot that has started, and
\* all below it are (InitiateSnapshot makes a new snapshot each time).
LEMMA Next0IsFresh ==
    ASSUME StartedInOrder, NEW n \in Snapshots, n = Next0
    PROVE  /\ n \notin Started
           /\ 1 .. (n - 1) \subseteq Started
<1>1. MaxSnapshots \in Nat /\ n \in Nat /\ n >= 1
  BY SnapshotAssumption DEF Snapshots
<1>2. IsFiniteSet(Started)
  <2>1. IsFiniteSet(1 .. MaxSnapshots)
    BY <1>1, FS_Interval
  <2> QED
    BY <2>1, FS_Subset DEF Started, Snapshots
<1>3. Cardinality(Started) \in Nat /\ Cardinality(Started) = n - 1
  BY <1>1, <1>2, FS_CardinalityType DEF Next0, Started
<1>4. Cardinality(1 .. n) = n /\ Cardinality(1 .. (n - 1)) = n - 1
  BY <1>1, FS_Interval
<1>5. n \notin Started
  <2> SUFFICES ASSUME n \in Started PROVE FALSE
    OBVIOUS
  <2>1. 1 .. n \subseteq Started
    BY DEF StartedInOrder
  <2>2. Cardinality(1 .. n) <= Cardinality(Started)
    BY <1>2, <2>1, FS_Subset
  <2> QED
    BY <1>1, <1>3, <1>4, <2>2
<1>6. Started \subseteq 1 .. (n - 1)
  <2> SUFFICES ASSUME NEW m \in Started PROVE m \in 1 .. (n - 1)
    OBVIOUS
  <2>1. m \in Nat /\ m >= 1
    BY <1>1 DEF Started, Snapshots
  <2>2. ~(n <= m)
    BY <1>1, <1>5, <2>1 DEF StartedInOrder
  <2> QED
    BY <1>1, <2>1, <2>2
<1>7. Started = 1 .. (n - 1)
  <2>1. IsFiniteSet(1 .. (n - 1))
    BY <1>1, FS_Interval
  <2> QED
    BY <1>3, <1>4, <1>6, <2>1, FS_Subset
<1> QED
  BY <1>5, <1>7

-------------------------------------------------------------------------------
(* The invariants *)

\* Snapshots that got as far as sending markers.
Marked == {n \in Snapshots : job[n].stage \in {"wait", "complete", "timedout"}}

\* Markers are sent, and calls awaited, by handlers that have recorded their snapshot.
MarkersFollowRecord ==
    /\ \A n \in Marked : files[Primary][job[n].id] # NoFile
    /\ \A t \in tasks : t[1] \in Marked /\ t[2] \in job[t[1]].asked
    /\ \A t \in markers : t[1] \in Marked

RecordInv == SnapshotTypeOK /\ StartedInOrder /\ MarkersFollowRecord /\ RecordedFirst

\* No other snapshot has the id of n.
OwnId(n) == \A m \in Started : job[m].id = job[n].id => m = n

\* The marker of n for b had its effect, or is known to have failed.
Delivered(n, b) == <<n, b>> \in failed \/ files[b][job[n].id].by = n

\* s.snapshot is a snapshot that has not ended, except by failing.
CurrentRuns == current # 0 => job[current].stage \in {"scan", "wait", "failed"}

\* A snapshot that is not shared meets no other one while it runs, nor a goroutine of
\* another one; so nobody acknowledges it before it has sent its markers.
RunsAlone ==
    \A n \in Active \ shared :
        /\ Active = {n}
        /\ \A t \in tasks : t[1] = n
        /\ job[n].stage = "scan" => job[n].acked = {}

\* A marker is on its way or delivered.
MarkersArrive ==
    \A n \in Marked : OwnId(n) =>
        \A b \in job[n].asked : <<n, b>> \in markers \/ Delivered(n, b)

\* An acknowledged one is delivered, unless the snapshot is shared.
AcksCount ==
    \A n \in Marked \ shared : OwnId(n) /\ job[n].stage # "timedout" =>
        \A b \in job[n].asked \cap job[n].acked : Delivered(n, b)

AloneInv == CurrentRuns /\ RunsAlone /\ MarkersArrive /\ AcksCount

\* The pointers name saved steps, and are rewritten for a step that is saved.
PointersSaved ==
    \A w \in Workers : /\ latest[w] \subseteq saved[w]
                       /\ rewrite[w] \in saved[w] \cup {0}
                       /\ worker[w].does = "point" => worker[w].step \in saved[w]

\* Of steps read by snapshot n, those of pointers that were not being rewritten are saved.
ReadSaved(n, steps) == \A w \in Workers \ scan[n].torn : steps[w] \in saved[w] \cup {0}

\* What is recorded of a worker was read from its pointer.
SavedInv ==
    /\ PointersSaved
    /\ \A n \in Snapshots : ReadSaved(n, scan[n].steps)
    /\ \A i \in Ids : LET f == files[Primary][i] IN
          f # NoFile => f.by \in Snapshots /\ ReadSaved(f.by, f.steps)

-------------------------------------------------------------------------------
(* Steps of the snapshot protocol *)

Stages == {"none", "scan", "wait"} \cup Ended
Jobs   == [stage : Stages, id : Ids, asked : SUBSET Backups, acked : SUBSET Backups]
Record0(n, r) == [by |-> n, steps |-> r]
FileType == [by : 0 .. MaxSnapshots, steps : Reports]

\* NoFile is a snapshot file, and one that names a snapshot is another.
LEMMA FileTypes ==
    /\ NoFile \in FileType
    /\ \A n \in Snapshots, r \in Reports :
          Record0(n, r) \in FileType /\ Record0(n, r) # NoFile
    /\ \A n \in Snapshots :
          /\ [NoFile EXCEPT !.by = n] \in FileType
          /\ [NoFile EXCEPT !.by = n] # NoFile /\ [NoFile EXCEPT !.by = n].by = n
<1>1. MaxSnapshots \in Nat /\ Last \in Nat
  BY SnapshotAssumption
<1>2. NoFile \in FileType
  BY <1>1 DEF NoFile, FileType, Reports
<1>3. ASSUME NEW n \in Snapshots, NEW r \in Reports
      PROVE  Record0(n, r) \in FileType /\ Record0(n, r) # NoFile
  BY <1>1 DEF NoFile, FileType, Record0, Snapshots
<1>4. ASSUME NEW n \in Snapshots
      PROVE  /\ [NoFile EXCEPT !.by = n] \in FileType
             /\ [NoFile EXCEPT !.by = n] # NoFile /\ [NoFile EXCEPT !.by = n].by = n
  BY <1>1, <1>2 DEF NoFile, FileType, Snapshots
<1> QED
  BY <1>2, <1>3, <1>4

\* What Initiate, Record, Complete, TimeOut, SendMarker and MarkerEnds do to the job
\* of a snapshot keeps it a job.
LEMMA JobTypes ==
    ASSUME job \in [Snapshots -> Jobs], NEW n \in Snapshots
    PROVE  /\ \A x \in Stages : [job EXCEPT ![n].stage = x] \in [Snapshots -> Jobs]
           /\ \A b \in Backups :
                 [job EXCEPT ![n].acked = @ \cup {b}] \in [Snapshots -> Jobs]
           /\ \A i \in Ids : [job EXCEPT ![n] = [stage |-> "scan", id |-> i,
                                                 asked |-> Backups \ MarkedDead,
                                                 acked |-> {}]] \in [Snapshots -> Jobs]
<1>1. job[n] \in Jobs
  OBVIOUS
<1>2. ASSUME NEW x \in Stages PROVE [job[n] EXCEPT !.stage = x] \in Jobs
  BY <1>1 DEF Jobs
<1>3. ASSUME NEW b \in Backups PROVE [job[n] EXCEPT !.acked = @ \cup {b}] \in Jobs
  BY <1>1 DEF Jobs
<1>4. ASSUME NEW i \in Ids
      PROVE  [stage |-> "scan", id |-> i, asked |-> Backups \ MarkedDead,
              acked |-> {}] \in Jobs
  BY DEF Jobs, Stages
<1> QED
  BY <1>2, <1>3, <1>4

\* The steps of a handler after it has read the pointers.
Proceeds(n) == Record(n) \/ Complete(n) \/ TimeOut(n)

\* The protocol's steps, by action; reading the pointers is apart, for it changes the
\* locals of a handler and nothing else.
SnapshotStep ==
    \/ \E n \in Snapshots, i \in Ids : Initiate(n, i)
    \/ \E n \in Snapshots : Proceeds(n)
    \/ \E n \in Snapshots, b \in Backups : SendMarker(n, b) \/ MarkerEnds(n, b)

\* SnapshotTypeOK in two parts: of what is read, and of the protocol.
ScanType == [listed : BOOLEAN, unread : SUBSET Workers, steps : Reports, torn : SUBSET Workers]
PointerTyping ==
    /\ latest \in [Workers -> SUBSET Steps] /\ rewrite \in [Workers -> 0 .. Last]
    /\ scan \in [Snapshots -> ScanType]
HandlerTyping ==
    /\ job \in [Snapshots -> Jobs] /\ current \in 0 .. MaxSnapshots
    /\ tasks \subseteq Snapshots \X Backups /\ markers \subseteq Snapshots \X Backups
    /\ files \in [Servers -> [Ids -> FileType]]
    /\ failed \subseteq Snapshots \X Backups /\ shared \subseteq Snapshots

LEMMA TypeParts == SnapshotTypeOK <=> PointerTyping /\ HandlerTyping
BY DEF SnapshotTypeOK, PointerTyping, HandlerTyping, ScanType, Jobs, Stages, FileType

\* Every action of the protocol preserves the types of its variables.
LEMMA SnapshotTyping ==
    ASSUME SnapshotTypeOK, SnapshotStep
    PROVE  SnapshotTypeOK'
<1>1. /\ job \in [Snapshots -> Jobs] /\ \A n \in Snapshots : job[n] \in Jobs
      /\ files \in [Servers -> [Ids -> FileType]]
      /\ Primary \in Servers /\ Backups \subseteq Servers
  BY DEF SnapshotTypeOK, Jobs, Stages, FileType, Servers
<1>2. MaxSnapshots \in Nat /\ HandlerTyping /\ PointerTyping
  BY SnapshotAssumption, TypeParts
<1>8. ASSUME UNCHANGED <<pointer_vars, scan>>, HandlerTyping' PROVE SnapshotTypeOK'
  <2>1. PointerTyping'
    BY <1>2, <1>8 DEF PointerTyping, pointer_vars
  <2> QED
    BY <1>8, <2>1
       DEF SnapshotTypeOK, PointerTyping, HandlerTyping, ScanType, Jobs, Stages, FileType
<1>3. CASE \E n \in Snapshots, i \in Ids : Initiate(n, i)
  <2>1. PICK n \in Snapshots, i \in Ids : Initiate(n, i)
    BY <1>3
  <2>2. job' \in [Snapshots -> Jobs]
    BY <1>1, <2>1, JobTypes DEF Initiate
  <2>3. current' \in 0 .. MaxSnapshots
    BY <1>2, <2>1 DEF Initiate, Snapshots
  <2>4. shared' \subseteq Snapshots
    <3>1. \A t \in tasks : t[1] \in Snapshots
      BY DEF SnapshotTypeOK
    <3> QED
      BY <2>1, <3>1 DEF Initiate, Active, SnapshotTypeOK
  <2>8. HandlerTyping'
    BY <1>2, <2>1, <2>2, <2>3, <2>4 DEF Initiate, HandlerTyping, marker_vars
  <2> QED
    BY <1>8, <2>1, <2>8 DEF Initiate
<1>4. CASE \E n \in Snapshots : Record(n)
  <2>1. PICK n \in Snapshots : Record(n)
    BY <1>4
  <2>2. job' \in [Snapshots -> Jobs]
    <3>1. \E x \in {"wait", "failed"} : job' = [job EXCEPT ![n].stage = x]
      BY <2>1 DEF Record, SendMarkers
    <3>2. {"wait", "failed"} \subseteq Stages
      BY DEF Stages, Ended
    <3> QED
      BY <1>1, <3>1, <3>2, JobTypes
  <2>3. files' \in [Servers -> [Ids -> FileType]]
    <3>1. job[n].id \in Ids
      BY <1>1 DEF Jobs
    <3>2. FileOf(n) \in FileType
      BY FileTypes DEF FileOf, Record0, SnapshotTypeOK
    <3> QED
      BY <1>1, <2>1, <3>1, <3>2 DEF Record
  <2>4. tasks' \subseteq Snapshots \X Backups /\ markers' \subseteq Snapshots \X Backups
    <3>1. {<<n, b>> : b \in job[n].asked} \subseteq Snapshots \X Backups
      BY <1>1 DEF Jobs
    <3> QED
      BY <2>1, <3>1 DEF Record, SendMarkers, SnapshotTypeOK
  <2>8. HandlerTyping'
    BY <1>2, <2>1, <2>2, <2>3, <2>4 DEF Record, HandlerTyping, marker_vars
  <2> QED
    BY <1>8, <2>1, <2>8 DEF Record
<1>5. CASE \E n \in Snapshots : Complete(n) \/ TimeOut(n)
  <2>1. PICK n \in Snapshots, x \in Ended : EndAs(n, x)
    BY <1>5 DEF Complete, TimeOut, Ended
  <2>2. job' \in [Snapshots -> Jobs]
    BY <1>1, <2>1, JobTypes DEF EndAs, Stages
  <2>3. current' \in 0 .. MaxSnapshots
    BY <1>2, <2>1 DEF EndAs
  <2>8. HandlerTyping'
    BY <1>2, <2>1, <2>2, <2>3 DEF EndAs, HandlerTyping, marker_vars
  <2> QED
    BY <1>8, <2>1, <2>8 DEF EndAs
<1>6. CASE \E n \in Snapshots, b \in Backups : SendMarker(n, b)
  <2>1. PICK n \in Snapshots, b \in Backups : SendMarker(n, b)
    BY <1>6
  <2>2. files' \in [Servers -> [Ids -> FileType]]
    <3>1. job[n].id \in Ids /\ b \in Servers
      BY <1>1 DEF Jobs
    <3>2. [NoFile EXCEPT !.by = n] \in FileType
      BY FileTypes
    <3> QED
      BY <1>1, <2>1, <3>1, <3>2 DEF SendMarker
  <2>3. markers' \subseteq Snapshots \X Backups /\ failed' \subseteq Snapshots \X Backups
    BY <2>1 DEF SendMarker, SnapshotTypeOK
  <2>8. HandlerTyping'
    BY <1>2, <2>1, <2>2, <2>3 DEF SendMarker, HandlerTyping, marker_vars
  <2> QED
    BY <1>8, <2>1, <2>8 DEF SendMarker
<1>7. CASE \E n \in Snapshots, b \in Backups : MarkerEnds(n, b)
  <2>1. PICK n \in Snapshots, b \in Backups : MarkerEnds(n, b)
    BY <1>7
  <2>2. job' \in [Snapshots -> Jobs]
    <3>1. current = 0 \/ current \in Snapshots
      BY <1>2 DEF SnapshotTypeOK, Snapshots
    <3> QED
      BY <1>1, <2>1, <3>1, JobTypes DEF MarkerEnds, ReceiveMarkerAck
  <2>3. tasks' \subseteq Snapshots \X Backups /\ failed' \subseteq Snapshots \X Backups
    BY <2>1 DEF MarkerEnds, SnapshotTypeOK
  <2>8. HandlerTyping'
    BY <1>2, <2>1, <2>2, <2>3 DEF MarkerEnds, HandlerTyping, marker_vars
  <2> QED
    BY <1>8, <2>1, <2>8 DEF MarkerEnds
<1> QED
  BY <1>3, <1>4, <1>5, <1>6, <1>7 DEF SnapshotStep, Proceeds

\* What a handler has read once it has found step s in the pointer of w.
AfterRead(n, w, s) == [scan EXCEPT ![n].unread = @ \ {w}, ![n].steps[w] = s,
                                   ![n].torn = IF rewrite[w] # 0 THEN @ \cup {w} ELSE @]

\* Reading a pointer gives a number of a checkpoint, or none.
LEMMA ScanTyping ==
    ASSUME SnapshotTypeOK, NEW n \in Snapshots, Scan(n)
    PROVE  SnapshotTypeOK'
<1>1. scan \in [Snapshots -> ScanType] /\ UNCHANGED <<pointer_vars, handler_vars>>
  BY TypeParts DEF PointerTyping, Scan, List, ReadPointer
<1>2. ASSUME scan' \in [Snapshots -> ScanType] PROVE SnapshotTypeOK'
  BY <1>1, <1>2 DEF SnapshotTypeOK, ScanType, pointer_vars, handler_vars, marker_vars
<1>3. CASE List(n)
  <2>1. ASSUME NEW x \in ScanType, NEW U \in SUBSET Workers
        PROVE  [x EXCEPT !.listed = TRUE, !.unread = U] \in ScanType
    BY DEF ScanType
  <2> DEFINE U == {w \in Workers : latest[w] # {} \/ rewrite[w] # 0}
  <2>2. scan' = [scan EXCEPT ![n] = [scan[n] EXCEPT !.listed = TRUE, !.unread = U]]
    BY <1>1, <1>3 DEF List
  <2> HIDE DEF U
  <2>3. U \in SUBSET Workers
    BY DEF U
  <2> QED
    BY <1>1, <1>2, <2>1, <2>2, <2>3
<1>4. ASSUME NEW w \in Workers, ReadPointer(n, w) PROVE SnapshotTypeOK'
  <2>1. PICK s \in FirstNumbers(w) : scan' = AfterRead(n, w, s)
    BY <1>4 DEF ReadPointer, AfterRead
  <2>2. s \in 0 .. Last
    <3>1. Last \in Nat /\ latest[w] \subseteq Steps /\ 0 \in 0 .. Last
      BY SnapshotAssumption DEF SnapshotTypeOK
    <3> QED
      BY <3>1 DEF FirstNumbers, Steps
  <2>3. ASSUME NEW x \in ScanType, NEW T \in SUBSET Workers
        PROVE  [x EXCEPT !.unread = @ \ {w}, !.steps[w] = s, !.torn = T] \in ScanType
    <3>1. [x.steps EXCEPT ![w] = s] \in Reports
      BY <2>2, <2>3 DEF Reports, ScanType
    <3> QED
      BY <3>1 DEF ScanType
  <2> DEFINE T == IF rewrite[w] # 0 THEN scan[n].torn \cup {w} ELSE scan[n].torn
  <2>4. AfterRead(n, w, s) =
           [scan EXCEPT ![n] = [scan[n] EXCEPT !.unread = @ \ {w}, !.steps[w] = s, !.torn = T]]
    BY <1>1 DEF AfterRead
  <2>5. T \in SUBSET Workers /\ scan[n] \in ScanType
    BY <1>1 DEF ScanType
  <2>6. [scan[n] EXCEPT !.unread = @ \ {w}, !.steps[w] = s, !.torn = T] \in ScanType
    BY <2>3, <2>5
  <2> HIDE DEF T
  <2> QED
    BY <1>1, <1>2, <2>1, <2>4, <2>6
<1> QED
  BY <1>3, <1>4 DEF Scan

-------------------------------------------------------------------------------
(* The primary records first *)

\* Every action of the protocol preserves the order of snapshots: only Initiate starts
\* one, the next.
LEMMA OrderKept ==
    ASSUME SnapshotTypeOK, StartedInOrder, SnapshotStep
    PROVE  /\ StartedInOrder'
           /\ Started \subseteq Started'
           /\ \A n \in Started : job'[n].id = job[n].id /\ job'[n].asked = job[n].asked
<1>1. job \in [Snapshots -> Jobs]
  BY DEF SnapshotTypeOK, Jobs, Stages
<1>2. ASSUME NEW n \in Snapshots, NEW i \in Ids, Initiate(n, i)
      PROVE  /\ StartedInOrder'
             /\ Started \subseteq Started'
             /\ \A m \in Started : job'[m] = job[m]
  <2>1. n \notin Started /\ 1 .. (n - 1) \subseteq Started
    BY <1>2, Next0IsFresh DEF Initiate
  <2>2. Started' = Started \cup {n}
    BY <1>1, <1>2 DEF Initiate, Started
  <2>3. \A m \in Started : job'[m] = job[m]
    BY <1>1, <1>2, <2>1 DEF Initiate, Started
  <2>4. 1 .. n \subseteq Started'
    BY <2>1, <2>2, SnapshotAssumption DEF Snapshots
  <2> QED
    BY <2>2, <2>3, <2>4 DEF StartedInOrder
<1>3. ASSUME NEW n \in Snapshots, NEW x \in {"wait"} \cup Ended,
             job[n].stage # "none", job' = [job EXCEPT ![n].stage = x]
      PROVE  Started' = Started /\ \A m \in Started : job'[m].id = job[m].id
                                                   /\ job'[m].asked = job[m].asked
  BY <1>1, <1>3 DEF Started, Ended, Jobs
<1>4. ASSUME NEW b \in Backups, ReceiveMarkerAck(b)
      PROVE  Started' = Started /\ \A m \in Started : job'[m].id = job[m].id
                                                   /\ job'[m].asked = job[m].asked
  BY <1>1, <1>4 DEF Started, ReceiveMarkerAck, Jobs
<1>5. ASSUME NEW n \in Snapshots, Proceeds(n)
      PROVE  \E x \in {"wait"} \cup Ended :
                job[n].stage # "none" /\ job' = [job EXCEPT ![n].stage = x]
  BY <1>5 DEF Proceeds, Record, SendMarkers, Complete, TimeOut, EndAs, Ended
<1>6. ASSUME NEW n \in Snapshots, NEW b \in Backups, SendMarker(n, b)
      PROVE  job' = job
  BY <1>6 DEF SendMarker
<1>7. CASE \E n \in Snapshots, i \in Ids : Initiate(n, i)
  BY <1>2, <1>7
<1>8. CASE \E n \in Snapshots : Proceeds(n)
  BY <1>3, <1>5, <1>8 DEF StartedInOrder
<1>9. CASE \E n \in Snapshots, b \in Backups : SendMarker(n, b) \/ MarkerEnds(n, b)
  BY <1>4, <1>6, <1>9 DEF StartedInOrder, Started, MarkerEnds
<1> QED
  BY <1>7, <1>8, <1>9 DEF SnapshotStep

\* A new snapshot has sent no markers yet.
LEMMA RecordInitiate ==
    ASSUME RecordInv, NEW n \in Snapshots, NEW i \in Ids, Initiate(n, i)
    PROVE  MarkersFollowRecord' /\ RecordedFirst' /\ Marked' = Marked
<1>1. job \in [Snapshots -> Jobs]
  BY DEF RecordInv, SnapshotTypeOK, Jobs, Stages
<1>2. n \notin Started
  BY Next0IsFresh DEF Initiate, RecordInv
<1>3. \A m \in Snapshots : m # n => job'[m] = job[m]
  BY <1>1 DEF Initiate
<1>4. n \notin Marked /\ job'[n].stage = "scan"
  BY <1>1, <1>2 DEF Initiate, Started, Marked
<1>5. Marked' = Marked
  BY <1>3, <1>4 DEF Marked
<1>6. \A m \in Marked : job'[m] = job[m]
  BY <1>3, <1>4 DEF Marked
<1>7. UNCHANGED <<files, tasks, markers>>
  BY DEF Initiate, marker_vars
<1> QED
  BY <1>5, <1>6, <1>7 DEF MarkersFollowRecord, RecordedFirst, RecordInv

\* The file is written before the markers are sent.
LEMMA RecordRecord ==
    ASSUME RecordInv, NEW n \in Snapshots, Record(n)
    PROVE  MarkersFollowRecord' /\ RecordedFirst'
<1>1. /\ job \in [Snapshots -> Jobs] /\ job[n] \in Jobs /\ job[n].id \in Ids
      /\ files \in [Servers -> [Ids -> FileType]] /\ Primary \in Servers
      /\ \A b \in Backups : b \in Servers /\ b # Primary
  BY SnapshotAssumption
     DEF RecordInv, SnapshotTypeOK, Jobs, Stages, FileType, Servers
<1>2. n \notin Marked
  BY DEF Marked, Record
<1>3. ASSUME files' = [files EXCEPT ![Primary][job[n].id] = FileOf(n)], SendMarkers(n)
      PROVE  MarkersFollowRecord' /\ RecordedFirst'
  <2>1. Marked' = Marked \cup {n}
    BY <1>1, <1>3 DEF SendMarkers, Marked
  <2>2. \A m \in Snapshots : job'[m].id = job[m].id /\ job'[m].asked = job[m].asked
    BY <1>1, <1>3 DEF SendMarkers, Jobs
  <2>3. FileOf(n) # NoFile
    BY FileTypes DEF FileOf, Record0, RecordInv, SnapshotTypeOK
  <2>4. /\ files'[Primary][job[n].id] = FileOf(n)
        /\ \A j \in Ids : j # job[n].id => files'[Primary][j] = files[Primary][j]
        /\ \A b \in Backups : files'[b] = files[b]
    BY <1>1, <1>3
  <2>5. \A m \in Marked' : files'[Primary][job'[m].id] # NoFile
    BY <1>1, <2>1, <2>2, <2>3, <2>4 DEF RecordInv, MarkersFollowRecord, Marked, Jobs
  <2>6. /\ \A x \in tasks' : x[1] \in Marked' /\ x[2] \in job'[x[1]].asked
        /\ \A x \in markers' : x[1] \in Marked'
    <3>1. \A x \in {<<n, b>> : b \in job[n].asked} : x[1] = n /\ x[2] \in job[n].asked
      OBVIOUS
    <3> QED
      BY <1>3, <2>1, <2>2, <3>1 DEF SendMarkers, RecordInv, MarkersFollowRecord, Marked
  <2>7. RecordedFirst'
    BY <2>3, <2>4 DEF RecordInv, RecordedFirst
  <2> QED
    BY <2>5, <2>6, <2>7 DEF MarkersFollowRecord
<1>4. CASE job' = [job EXCEPT ![n].stage = "failed"] /\ UNCHANGED <<files, tasks, markers>>
  <2>1. Marked' = Marked
    BY <1>1, <1>2, <1>4 DEF Marked
  <2>2. \A m \in Marked : job'[m] = job[m]
    BY <1>1, <1>2, <1>4 DEF Marked
  <2> QED
    BY <1>4, <2>1, <2>2 DEF MarkersFollowRecord, RecordedFirst, RecordInv
<1> QED
  BY <1>3, <1>4 DEF Record

\* The end of a snapshot undoes nothing.
LEMMA RecordEndAs ==
    ASSUME RecordInv, NEW n \in Snapshots, job[n].stage = "wait",
           NEW x \in {"complete", "timedout"}, EndAs(n, x)
    PROVE  MarkersFollowRecord' /\ RecordedFirst' /\ Marked' = Marked
<1>1. job \in [Snapshots -> Jobs]
  BY DEF RecordInv, SnapshotTypeOK, Jobs, Stages
<1>2. \A m \in Snapshots : job'[m].id = job[m].id /\ job'[m].asked = job[m].asked
  BY <1>1 DEF EndAs, Jobs
<1>3. Marked' = Marked
  BY <1>1 DEF EndAs, Marked
<1>4. UNCHANGED <<files, tasks, markers>>
  BY DEF EndAs, marker_vars
<1> QED
  BY <1>2, <1>3, <1>4 DEF MarkersFollowRecord, RecordedFirst, RecordInv, Marked

\* A backup records under the id of a snapshot that was recorded at the primary.
LEMMA RecordSendMarker ==
    ASSUME RecordInv, NEW n \in Snapshots, NEW b \in Backups, SendMarker(n, b)
    PROVE  MarkersFollowRecord' /\ RecordedFirst' /\ Marked' = Marked
<1>1. /\ files \in [Servers -> [Ids -> FileType]]
      /\ b \in Servers /\ b # Primary /\ Primary \in Servers
  BY SnapshotAssumption DEF RecordInv, SnapshotTypeOK, FileType, Servers
<1>2. n \in Marked /\ files[Primary][job[n].id] # NoFile
  BY DEF SendMarker, RecordInv, MarkersFollowRecord
<1>3. /\ files'[Primary] = files[Primary]
      /\ \A c \in Backups, j \in Ids :
            c # b \/ j # job[n].id => files'[c][j] = files[c][j]
  BY <1>1 DEF SendMarker, Servers
<1>4. markers' \subseteq markers /\ UNCHANGED <<job, tasks>>
  BY DEF SendMarker
<1>5. Marked' = Marked
  BY <1>4 DEF Marked
<1> QED
  BY <1>2, <1>3, <1>4, <1>5 DEF MarkersFollowRecord, RecordedFirst, RecordInv

\* An acknowledgement changes neither files nor what was asked.
LEMMA RecordMarkerEnds ==
    ASSUME RecordInv, NEW n \in Snapshots, NEW b \in Backups, MarkerEnds(n, b)
    PROVE  MarkersFollowRecord' /\ RecordedFirst' /\ Marked' = Marked
<1>1. job \in [Snapshots -> Jobs]
  BY DEF RecordInv, SnapshotTypeOK, Jobs, Stages
<1>2. \A m \in Snapshots : /\ job'[m].id = job[m].id /\ job'[m].asked = job[m].asked
                           /\ job'[m].stage = job[m].stage
  BY <1>1 DEF MarkerEnds, ReceiveMarkerAck, Jobs
<1>3. Marked' = Marked
  BY <1>2 DEF Marked
<1>4. tasks' \subseteq tasks /\ UNCHANGED <<files, markers>>
  BY DEF MarkerEnds
<1> QED
  BY <1>2, <1>3, <1>4 DEF MarkersFollowRecord, RecordedFirst, RecordInv, Marked

\* RecordInv is inductive for the protocol.
LEMMA RecordStep ==
    ASSUME RecordInv, SnapshotStep
    PROVE  RecordInv'
<1>1. SnapshotTypeOK' /\ StartedInOrder'
  BY SnapshotTyping, OrderKept DEF RecordInv
<1>2. MarkersFollowRecord' /\ RecordedFirst'
  <2>1. CASE \E n \in Snapshots, i \in Ids : Initiate(n, i)
    BY <2>1, RecordInitiate
  <2>2. CASE \E n \in Snapshots : Proceeds(n)
    BY <2>2, RecordRecord, RecordEndAs DEF Proceeds, Complete, TimeOut
  <2>3. CASE \E n \in Snapshots, b \in Backups : SendMarker(n, b) \/ MarkerEnds(n, b)
    BY <2>3, RecordSendMarker, RecordMarkerEnds
  <2> QED
    BY <2>1, <2>2, <2>3 DEF SnapshotStep
<1> QED
  BY <1>1, <1>2 DEF RecordInv

-------------------------------------------------------------------------------
(* A snapshot that runs alone *)

\* A new snapshot is shared, and so are those it meets, unless it meets none.
LEMMA AloneInitiate ==
    ASSUME RecordInv, AloneInv, NEW n \in Snapshots, NEW i \in Ids, Initiate(n, i)
    PROVE  AloneInv'
<1>1. job \in [Snapshots -> Jobs] /\ n \notin Started /\ n # 0
  BY SnapshotAssumption, Next0IsFresh
     DEF Initiate, RecordInv, SnapshotTypeOK, Jobs, Stages, Snapshots
<1>2. /\ \A m \in Snapshots : m # n => job'[m] = job[m]
      /\ job'[n].stage = "scan" /\ job'[n].id = i
      /\ UNCHANGED <<files, tasks, markers, failed>> /\ current' = n
  BY <1>1 DEF Initiate, marker_vars
<1>3. Marked' = Marked /\ n \notin Marked /\ Started' = Started \cup {n}
      /\ Active' = Active \cup {n} /\ n \notin Active
  BY <1>1, <1>2 DEF Marked, Started, Active
<1>4. \A m \in Marked : job'[m] = job[m] /\ m \in Started
  BY <1>2, <1>3 DEF Marked, Started
<1>5. ASSUME NEW m \in Marked, OwnId(m)' PROVE OwnId(m)
  BY <1>1, <1>2, <1>3, <1>4, <1>5 DEF OwnId, Started
<1>6. ASSUME NEW m \in Marked, NEW b PROVE Delivered(m, b)' = Delivered(m, b)
  BY <1>2, <1>4 DEF Delivered
<1>7. CurrentRuns'
  BY <1>2 DEF CurrentRuns
<1>8. RunsAlone'
  <2>1. CASE Active = {} /\ tasks = {}
    <3>1. job'[n].acked = {}
      BY <1>1 DEF Initiate
    <3> QED
      BY <1>2, <1>3, <2>1, <3>1 DEF RunsAlone
  <2>2. CASE ~(Active = {} /\ tasks = {})
    <3>1. Active' \subseteq shared'
      BY <1>3, <2>2 DEF Initiate
    <3> QED
      BY <3>1 DEF RunsAlone
  <2> QED
    BY <2>1, <2>2
<1>9. MarkersArrive'
  BY <1>2, <1>3, <1>4, <1>5, <1>6 DEF AloneInv, MarkersArrive
<1>10. shared \subseteq shared'
  BY DEF Initiate
<1>11. AcksCount'
  BY <1>3, <1>4, <1>5, <1>6, <1>10 DEF AloneInv, AcksCount
<1> QED
  BY <1>7, <1>8, <1>9, <1>11 DEF AloneInv

\* The markers of a snapshot are sent to all that are asked, and none of them has
\* acknowledged yet, for acknowledgements come from calls.
LEMMA AloneRecord ==
    ASSUME RecordInv, AloneInv, NEW n \in Snapshots, Record(n)
    PROVE  AloneInv'
<1>1. /\ job \in [Snapshots -> Jobs] /\ job[n] \in Jobs /\ job[n].stage = "scan"
      /\ files \in [Servers -> [Ids -> FileType]] /\ Primary \in Servers
      /\ \A b \in Backups : b \in Servers /\ b # Primary
  BY SnapshotAssumption
     DEF Record, RecordInv, SnapshotTypeOK, Jobs, Stages, FileType, Servers
<1>2. n \notin Marked /\ n \in Started /\ n \in Active
  BY <1>1 DEF Marked, Started, Active
<1>3. /\ \A m \in Snapshots : /\ job'[m].id = job[m].id /\ job'[m].asked = job[m].asked
                              /\ job'[m].acked = job[m].acked
                              /\ m # n => job'[m] = job[m]
      /\ job'[n].stage \in {"wait", "failed"}
      /\ UNCHANGED <<current, failed, shared>>
  <2>1. \E x \in {"wait", "failed"} : job' = [job EXCEPT ![n].stage = x]
    BY DEF Record, SendMarkers
  <2> QED
    BY <1>1, <2>1 DEF Record, Jobs
<1>4. /\ Started' = Started /\ Marked' \subseteq Marked \cup {n} /\ Active' \subseteq Active
      /\ job'[n].stage = "wait" \/ n \notin Marked'
  BY <1>1, <1>2, <1>3 DEF Started, Marked, Active
<1>5. \A m \in Snapshots : OwnId(m)' = OwnId(m)
  BY <1>3, <1>4 DEF OwnId, Started
<1>6. \A b \in Backups : files'[b] = files[b]
  BY <1>1 DEF Record
<1>7. \A m \in Snapshots, b \in Backups : Delivered(m, b)' = Delivered(m, b)
  BY <1>3, <1>6 DEF Delivered
<1>8. \A m \in Snapshots : job[m].asked \subseteq Backups
  BY <1>1 DEF Jobs
<1>9. CurrentRuns'
  <2>1. CASE current = n
    BY <1>3, <2>1 DEF CurrentRuns
  <2>2. CASE current # n /\ current # 0
    <3>1. current \in Snapshots
      BY <2>2, SnapshotAssumption DEF RecordInv, SnapshotTypeOK, Snapshots
    <3> QED
      BY <1>3, <2>2, <3>1 DEF AloneInv, CurrentRuns
  <2> QED
    BY <1>3, <2>1, <2>2 DEF CurrentRuns
<1>10. RunsAlone'
  <2> SUFFICES ASSUME NEW m \in Active' \ shared'
               PROVE  /\ Active' = {m} /\ \A t \in tasks' : t[1] = m
                      /\ job'[m].stage = "scan" => job'[m].acked = {}
    BY DEF RunsAlone
  <2>1. m \in Active \ shared /\ Active = {m} /\ m = n
    BY <1>2, <1>3, <1>4 DEF AloneInv, RunsAlone
  <2>2. \A t \in tasks' : t[1] = n
    BY <2>1 DEF Record, SendMarkers, AloneInv, RunsAlone
  <2> QED
    BY <1>3, <1>4, <2>1, <2>2
<1>11. MarkersArrive'
  <2> SUFFICES ASSUME NEW m \in Marked', OwnId(m)', NEW b \in job'[m].asked
               PROVE  <<m, b>> \in markers' \/ Delivered(m, b)'
    BY DEF MarkersArrive
  <2>1. CASE m = n
    <3>1. job'[n].stage = "wait" /\ b \in job[n].asked
      BY <1>3, <1>4, <2>1
    <3>2. \/ markers' = markers \cup {<<n, c>> : c \in job[n].asked}
          \/ job' = [job EXCEPT ![n].stage = "failed"]
      BY DEF Record, SendMarkers
    <3>3. job' # [job EXCEPT ![n].stage = "failed"]
      BY <1>1, <3>1 DEF Jobs
    <3> QED
      BY <2>1, <3>1, <3>2, <3>3
  <2>2. CASE m # n
    <3>1. m \in Marked /\ OwnId(m) /\ b \in job[m].asked /\ m \in Snapshots
      BY <1>3, <1>4, <1>5, <2>2 DEF Marked
    <3>2. <<m, b>> \in markers \/ Delivered(m, b)
      BY <3>1 DEF AloneInv, MarkersArrive
    <3>3. markers \subseteq markers'
      BY DEF Record, SendMarkers
    <3> QED
      BY <1>7, <1>8, <3>1, <3>2, <3>3
  <2> QED
    BY <2>1, <2>2
<1>12. AcksCount'
  <2> SUFFICES ASSUME NEW m \in Marked' \ shared', OwnId(m)', job'[m].stage # "timedout",
                      NEW b \in job'[m].asked \cap job'[m].acked
               PROVE  Delivered(m, b)'
    BY DEF AcksCount
  <2>1. CASE m = n
    <3>1. job[n].acked = {}
      BY <1>1, <1>2, <1>3, <2>1 DEF AloneInv, RunsAlone
    <3> QED
      BY <1>2, <1>3, <2>1, <3>1 DEF Started
  <2>2. CASE m # n
    <3>1. /\ m \in Marked \ shared /\ OwnId(m) /\ job[m].stage # "timedout"
          /\ b \in job[m].asked \cap job[m].acked /\ m \in Snapshots
      BY <1>3, <1>4, <1>5, <2>2 DEF Marked
    <3> QED
      BY <1>7, <1>8, <3>1 DEF AloneInv, AcksCount
  <2> QED
    BY <2>1, <2>2
<1> QED
  BY <1>9, <1>10, <1>11, <1>12 DEF AloneInv

\* The end of a snapshot: none is current after it.
LEMMA AloneEndAs ==
    ASSUME RecordInv, AloneInv, NEW n \in Snapshots, job[n].stage = "wait",
           NEW x \in {"complete", "timedout"}, EndAs(n, x)
    PROVE  AloneInv'
<1>1. job \in [Snapshots -> Jobs]
  BY DEF RecordInv, SnapshotTypeOK, Jobs, Stages
<1>2. /\ \A m \in Snapshots : /\ job'[m].id = job[m].id /\ job'[m].asked = job[m].asked
                              /\ job'[m].acked = job[m].acked
                              /\ m # n => job'[m] = job[m]
      /\ job'[n].stage = x
      /\ UNCHANGED <<files, tasks, markers, failed, shared>> /\ current' = 0
  BY <1>1 DEF EndAs, Jobs, marker_vars
<1>3. /\ Started' = Started /\ Marked' = Marked /\ Active' \subseteq Active
      /\ n \in Active /\ n \in Marked /\ n \notin Active'
  BY <1>2 DEF Started, Marked, Active
<1>4. \A m \in Snapshots : OwnId(m)' = OwnId(m)
  BY <1>2, <1>3 DEF OwnId, Started
<1>5. \A m \in Snapshots, b \in Backups : Delivered(m, b)' = Delivered(m, b)
  BY <1>2 DEF Delivered
<1>6. \A m \in Marked : m \in Snapshots /\ job[m].asked \subseteq Backups
  BY <1>1 DEF Jobs, Marked
<1>7. CurrentRuns'
  BY <1>2 DEF CurrentRuns
<1>8. RunsAlone'
  <2> SUFFICES ASSUME NEW m \in Active' \ shared' PROVE FALSE
    BY DEF RunsAlone
  <2>1. m \in Active \ shared /\ Active = {m}
    BY <1>2, <1>3 DEF AloneInv, RunsAlone
  <2> QED
    BY <1>3, <2>1
<1>9. MarkersArrive'
  BY <1>2, <1>3, <1>4, <1>5, <1>6 DEF AloneInv, MarkersArrive
<1>10. AcksCount'
  <2>1. \A m \in Marked : job'[m].stage # "timedout" => job[m].stage # "timedout"
    BY <1>2, <1>6
  <2> QED
    BY <1>2, <1>3, <1>4, <1>5, <1>6, <2>1 DEF AloneInv, AcksCount
<1> QED
  BY <1>7, <1>8, <1>9, <1>10 DEF AloneInv

\* A marker handled is delivered or failed; it may overwrite the record of a snapshot
\* with the same id, whose id is then not its own.
LEMMA AloneSendMarker ==
    ASSUME RecordInv, AloneInv, NEW n \in Snapshots, NEW b \in Backups, SendMarker(n, b)
    PROVE  AloneInv'
<1>1. /\ files \in [Servers -> [Ids -> FileType]] /\ b \in Servers /\ Backups \subseteq Servers
      /\ job \in [Snapshots -> Jobs]
  BY DEF RecordInv, SnapshotTypeOK, FileType, Servers, Jobs, Stages
<1>2. n \in Marked /\ n \in Started
  BY DEF SendMarker, RecordInv, MarkersFollowRecord, Marked, Started
<1>3. /\ markers' = markers \ {<<n, b>>} /\ failed \subseteq failed'
      /\ UNCHANGED <<job, current, tasks, shared>>
      /\ Started' = Started /\ Marked' = Marked /\ Active' = Active
  BY DEF SendMarker, Started, Marked, Active
<1>4. \A m \in Snapshots : OwnId(m)' = OwnId(m)
  BY <1>3 DEF OwnId
<1>5. Delivered(n, b)'
  <2>1. [NoFile EXCEPT !.by = n].by = n
    BY FileTypes
  <2>2. job[n].id \in Ids
    BY <1>1 DEF Jobs
  <2>3. CASE <<n, b>> \in failed'
    BY <2>3 DEF Delivered
  <2>4. CASE files' = [files EXCEPT ![b][job[n].id] = [NoFile EXCEPT !.by = n]]
    <3>1. files'[b][job[n].id] = [NoFile EXCEPT !.by = n]
      BY <1>1, <2>2, <2>4
    <3> QED
      BY <1>3, <2>1, <3>1 DEF Delivered
  <2> QED
    BY <2>3, <2>4 DEF SendMarker
<1>6. ASSUME NEW m \in Marked, OwnId(m), NEW c \in Backups, Delivered(m, c)
      PROVE  Delivered(m, c)'
  <2>1. CASE m = n /\ c = b
    BY <1>5, <2>1
  <2>2. CASE m # n
    <3>1. job[m].id # job[n].id
      BY <1>2, <1>6, <2>2 DEF OwnId
    <3>2. \/ files' = [files EXCEPT ![b][job[n].id] = [NoFile EXCEPT !.by = n]]
          \/ files' = files
      BY DEF SendMarker
    <3>3. files'[c][job[m].id] = files[c][job[m].id]
      <4>1. c \in Servers /\ job[m].id \in Ids
        BY <1>1 DEF Marked, Jobs
      <4> QED
        BY <1>1, <3>1, <3>2, <4>1
    <3> QED
      BY <1>3, <1>6, <3>3 DEF Delivered
  <2>3. CASE c # b
    <3>1. files'[c] = files[c]
      BY <1>1, <2>3 DEF SendMarker
    <3> QED
      BY <1>3, <1>6, <3>1 DEF Delivered
  <2> QED
    BY <2>1, <2>2, <2>3
<1>7. \A m \in Marked : m \in Snapshots /\ job[m].asked \subseteq Backups
  BY <1>1 DEF Jobs, Marked
<1>8. CurrentRuns' /\ RunsAlone'
  BY <1>3 DEF AloneInv, CurrentRuns, RunsAlone
<1>9. MarkersArrive'
  <2> SUFFICES ASSUME NEW m \in Marked, OwnId(m), NEW c \in job[m].asked
               PROVE  <<m, c>> \in markers' \/ Delivered(m, c)'
    BY <1>3, <1>4, <1>7 DEF MarkersArrive
  <2>1. <<m, c>> \in markers \/ Delivered(m, c)
    BY DEF AloneInv, MarkersArrive
  <2>2. CASE m = n /\ c = b
    BY <1>5, <2>2
  <2>3. CASE ~(m = n /\ c = b) /\ <<m, c>> \in markers
    BY <1>3, <2>3
  <2> QED
    BY <1>6, <1>7, <2>1, <2>2, <2>3
<1>10. AcksCount'
  BY <1>3, <1>4, <1>6, <1>7 DEF AloneInv, AcksCount
<1> QED
  BY <1>8, <1>9, <1>10 DEF AloneInv

\* The call that ends may be one of another snapshot, and then the current one is
\* shared; of its own, the marker is delivered, or given up and counted as failed.
LEMMA AloneMarkerEnds ==
    ASSUME RecordInv, AloneInv, NEW n \in Snapshots, NEW b \in Backups, MarkerEnds(n, b)
    PROVE  AloneInv'
<1>1. /\ job \in [Snapshots -> Jobs] /\ \A m \in Snapshots : job[m].acked \subseteq Backups
      /\ \A m \in Snapshots : job[m].asked \subseteq Backups
  BY DEF RecordInv, SnapshotTypeOK, Jobs, Stages
<1>2. n \in Marked
  BY DEF MarkerEnds, RecordInv, MarkersFollowRecord
<1>3. /\ \A m \in Snapshots : /\ job'[m].stage = job[m].stage /\ job'[m].id = job[m].id
                              /\ job'[m].asked = job[m].asked
      /\ \A m \in Snapshots : m # current => job'[m].acked = job[m].acked
      /\ \A m \in Snapshots : job'[m].acked \subseteq job[m].acked \cup {b}
  BY <1>1 DEF MarkerEnds, ReceiveMarkerAck, Jobs
<1>4. /\ Started' = Started /\ Marked' = Marked /\ Active' = Active
      /\ failed \subseteq failed' /\ tasks' \subseteq tasks
      /\ UNCHANGED <<current, markers, files, shared>>
  BY <1>3 DEF MarkerEnds, Started, Marked, Active
<1>5. \A m \in Snapshots : OwnId(m)' = OwnId(m)
  BY <1>3, <1>4 DEF OwnId, Started
<1>6. \A m \in Snapshots, c \in Backups : Delivered(m, c) => Delivered(m, c)'
  BY <1>3, <1>4 DEF Delivered
<1>7. \A m \in Marked : m \in Snapshots /\ m \in Started
  BY DEF Marked, Started
<1>8. CurrentRuns'
  <2>1. current = 0 \/ current \in Snapshots
    BY SnapshotAssumption DEF RecordInv, SnapshotTypeOK, Snapshots
  <2> QED
    BY <1>3, <1>4, <2>1 DEF AloneInv, CurrentRuns
<1>9. RunsAlone'
  <2> SUFFICES ASSUME NEW m \in Active \ shared
               PROVE  /\ Active = {m} /\ \A t \in tasks : t[1] = m
                      /\ job[m].stage = "scan" => job'[m].acked = {}
    BY <1>3, <1>4 DEF RunsAlone, Active
  <2>1. /\ Active = {m} /\ \A t \in tasks : t[1] = m
        /\ job[m].stage = "scan" => job[m].acked = {}
    BY DEF AloneInv, RunsAlone
  <2>2. m = n
    BY <2>1 DEF MarkerEnds
  <2>3. job[m].stage # "scan"
    BY <1>2, <2>2 DEF Marked
  <2> QED
    BY <2>1, <2>3
<1>10. MarkersArrive'
  BY <1>3, <1>4, <1>5, <1>6, <1>7, <1>1 DEF AloneInv, MarkersArrive
<1>11. AcksCount'
  <2> SUFFICES ASSUME NEW m \in Marked \ shared, OwnId(m), job[m].stage # "timedout",
                      NEW c \in job[m].asked \cap job'[m].acked
               PROVE  Delivered(m, c)'
    BY <1>3, <1>4, <1>5, <1>7 DEF AcksCount
  <2>1. CASE c \in job[m].acked
    BY <1>1, <1>6, <1>7, <2>1 DEF AloneInv, AcksCount
  <2>2. CASE c \notin job[m].acked
    <3>1. c = b /\ m = current
      BY <1>3, <1>7, <2>2
    <3>2. job[m].stage = "wait" /\ m \in Active
      BY <1>7, <3>1, SnapshotAssumption DEF AloneInv, CurrentRuns, Marked, Active, Snapshots
    <3>3. m = n
      BY <3>2 DEF AloneInv, RunsAlone, MarkerEnds
    <3>4. <<m, c>> \in markers => <<m, c>> \in failed'
      BY <3>1, <3>3 DEF MarkerEnds
    <3>5. <<m, c>> \in markers \/ Delivered(m, c)
      BY DEF AloneInv, MarkersArrive
    <3> QED
      BY <1>1, <1>6, <1>7, <3>4, <3>5 DEF Delivered
  <2> QED
    BY <2>1, <2>2
<1> QED
  BY <1>8, <1>9, <1>10, <1>11 DEF AloneInv

\* AloneInv is inductive for the protocol.
LEMMA AloneStep ==
    ASSUME RecordInv, AloneInv, SnapshotStep
    PROVE  AloneInv'
<1>1. CASE \E n \in Snapshots, i \in Ids : Initiate(n, i)
  BY <1>1, AloneInitiate
<1>2. CASE \E n \in Snapshots : Proceeds(n)
  BY <1>2, AloneRecord, AloneEndAs DEF Proceeds, Complete, TimeOut
<1>3. CASE \E n \in Snapshots, b \in Backups : SendMarker(n, b) \/ MarkerEnds(n, b)
  BY <1>3, AloneSendMarker, AloneMarkerEnds
<1> QED
  BY <1>1, <1>2, <1>3 DEF SnapshotStep

\* A complete snapshot has the acknowledgements of all it asked, and keeps them.
CompleteAcked ==
    \A n \in Snapshots : job[n].stage = "complete" => job[n].asked \subseteq job[n].acked

LEMMA CompleteAckedStep ==
    ASSUME RecordInv, CompleteAcked, SnapshotStep
    PROVE  CompleteAcked'
<1>1. job \in [Snapshots -> Jobs]
  BY DEF RecordInv, SnapshotTypeOK, Jobs, Stages
<1>2. CASE \E n \in Snapshots, i \in Ids : Initiate(n, i)
  BY <1>1, <1>2 DEF Initiate, CompleteAcked
<1>3. CASE \E n \in Snapshots : Record(n)
  <2>1. PICK n \in Snapshots, x \in {"wait", "failed"} : job' = [job EXCEPT ![n].stage = x]
    BY <1>3 DEF Record, SendMarkers
  <2> QED
    BY <1>1, <2>1 DEF CompleteAcked, Jobs
<1>4. CASE \E n \in Snapshots : Complete(n) \/ TimeOut(n)
  <2>1. PICK n \in Snapshots, x \in {"complete", "timedout"} :
           /\ job' = [job EXCEPT ![n].stage = x]
           /\ x = "complete" => job[n].asked \subseteq job[n].acked
    BY <1>4 DEF Complete, TimeOut, AllAcked, EndAs
  <2> QED
    BY <1>1, <2>1 DEF CompleteAcked, Jobs
<1>5. CASE \E n \in Snapshots, b \in Backups : SendMarker(n, b) \/ MarkerEnds(n, b)
  <2>1. PICK b \in Backups : job' = job \/ ReceiveMarkerAck(b)
    BY <1>5 DEF SendMarker, MarkerEnds
  <2> QED
    BY <1>1, <2>1 DEF ReceiveMarkerAck, CompleteAcked, Jobs
<1> QED
  BY <1>2, <1>3, <1>4, <1>5 DEF SnapshotStep, Proceeds

\* What is complete and was not shared is recorded.
LEMMA AloneIsRecorded ==
    ASSUME SnapshotTypeOK, AloneInv, CompleteAcked
    PROVE  CompleteIsRecorded
<1> SUFFICES ASSUME NEW n \in Snapshots \ shared, job[n].stage = "complete",
                    \A m \in Snapshots : job[m].stage # "none" /\ job[m].id = job[n].id => m = n,
                    NEW b \in job[n].asked
             PROVE  <<n, b>> \in failed \/ files[b][job[n].id].by = n
  BY DEF CompleteIsRecorded
<1>1. n \in Marked \ shared /\ OwnId(n)
  BY DEF Marked, OwnId, Started
<1>2. b \in job[n].asked \cap job[n].acked
  BY DEF CompleteAcked
<1> QED
  BY <1>1, <1>2 DEF AloneInv, AcksCount, Delivered

-------------------------------------------------------------------------------
(* The coordinator *)

\* Every step of the coordinator is one of the snapshot protocol, or leaves the
\* protocol's variables alone.
LEMMA SnapshotOrNot ==
    ASSUME TypeOK, [Next]_vars
    PROVE  \/ SnapshotStep /\ UNCHANGED <<worker_vars, monitor_vars>>
           \/ UNCHANGED handler_vars
<1> USE DEF snapshot_vars
<1>1. CASE TriggerSnapshot
  <2>1. Next0 \in Snapshots /\ snapCount + 1 \in Ids
    BY <1>1, SnapshotAssumption DEF TriggerSnapshot, Initiate, TypeOK, Ids
  <2> QED
    BY <1>1, <2>1 DEF TriggerSnapshot, SnapshotStep
<1>2. CASE OperatorSnapshot
  <2>1. Next0 \in Snapshots /\ 0 \in Ids
    BY <1>2, SnapshotAssumption DEF OperatorSnapshot, Initiate, Ids
  <2> QED
    BY <1>2, <2>1 DEF OperatorSnapshot, SnapshotStep
<1>3. CASE Snapshotting
  BY <1>3 DEF Snapshotting, SnapshotStep, Run, Proceeds, Scan, List, ReadPointer
<1>4. CASE \E w \in Workers : \/ Train(w) \/ SaveCheckpointMeta(w) \/ PointerWritten(w)
                              \/ SendHeartbeat(w) \/ Crash(w) \/ RegisterWorker(w) \/ Heartbeat(w) \/ Monitor(w)
  BY <1>4 DEF Train, SaveCheckpointMeta, PointerWritten, SendHeartbeat, Crash, RegisterWorker, Heartbeat,
              Monitor, Expire, LoadCheckpointMeta
<1>5. CASE checkDeadWorkers \/ SetResumeStep \/ TriggerFails \/ Restart
  BY <1>5 DEF checkDeadWorkers, SetResumeStep, TriggerFails, Restart
<1>6. CASE UNCHANGED vars
  BY <1>6 DEF vars
<1> QED
  BY <1>1, <1>2, <1>3, <1>4, <1>5, <1>6 DEF Next

WorkerType == [does : {"down", "train", "save", "point", "write"}, step : 0 .. Last]
StatusType == [known : BOOLEAN, alive : BOOLEAN, recent : BOOLEAN, step : 0 .. Last,
               deadSince : BOOLEAN, resume : 0 .. Last]
Lefts == [Bounded -> Nat]

\* The statuses the coordinator writes are statuses.
LEMMA StatusTypes ==
    /\ Unknown \in StatusType
    /\ \A s \in 0 .. Last : NewStatus(s) \in StatusType
    /\ \A x \in StatusType :
          /\ [x EXCEPT !.alive = TRUE, !.recent = TRUE, !.deadSince = FALSE] \in StatusType
          /\ \A s \in 0 .. Last :
                [x EXCEPT !.alive = TRUE, !.recent = TRUE, !.step = s] \in StatusType
          /\ [x EXCEPT !.recent = FALSE] \in StatusType
          /\ [x EXCEPT !.alive = FALSE, !.deadSince = TRUE] \in StatusType
          /\ \A s \in 0 .. Last : [x EXCEPT !.resume = s] \in StatusType
<1>1. Last \in Nat /\ 0 \in 0 .. Last
  BY SnapshotAssumption
<1>2. Unknown \in StatusType
  BY <1>1 DEF Unknown, StatusType
<1>3. \A s \in 0 .. Last : NewStatus(s) \in StatusType
  BY <1>2 DEF NewStatus, StatusType
<1>4. ASSUME NEW x \in StatusType
      PROVE  /\ [x EXCEPT !.alive = TRUE, !.recent = TRUE, !.deadSince = FALSE] \in StatusType
             /\ \A s \in 0 .. Last :
                   [x EXCEPT !.alive = TRUE, !.recent = TRUE, !.step = s] \in StatusType
             /\ [x EXCEPT !.recent = FALSE] \in StatusType
             /\ [x EXCEPT !.alive = FALSE, !.deadSince = TRUE] \in StatusType
             /\ \A s \in 0 .. Last : [x EXCEPT !.resume = s] \in StatusType
  BY DEF StatusType
<1> QED
  BY <1>2, <1>3, <1>4

\* What is left of a budget stays a budget.
LEMMA SpendType ==
    ASSUME left \in Lefts, NEW b \in Bounded, Spend(b)
    PROVE  left' \in Lefts
<1>1. left[b] - 1 \in Nat
  BY DEF Spend, Lefts
<1> QED
  BY <1>1 DEF Spend, Lefts

\* A worker that saves has reached a step to save: without it, it might save step 0,
\* which stands for none.
TypeInv ==
    /\ TypeOK
    /\ \A w \in Workers : worker[w].does \in {"save", "point", "write"} => worker[w].step # 0

\* The initial state has the types.
LEMMA InitTyping == Init => TypeInv
<1> SUFFICES ASSUME Init PROVE TypeInv
  OBVIOUS
<1>1. Last \in Nat /\ MaxSnapshots \in Nat /\ MaxIds \in Nat
  BY SnapshotAssumption
<1>2. SnapshotTypeOK
  <2>1. job \in [Snapshots -> Jobs]
    BY <1>1 DEF Init, SnapshotInit, Unstarted, Jobs, Stages, Ids
  <2>2. files \in [Servers -> [Ids -> FileType]]
    BY FileTypes DEF Init, SnapshotInit
  <2>3. scan \in [Snapshots -> ScanType]
    BY <1>1 DEF Init, SnapshotInit, Unscanned, ScanType, Reports
  <2> QED
    BY <1>1, <2>1, <2>2, <2>3
       DEF Init, SnapshotInit, SnapshotTypeOK, ScanType, Jobs, Stages, FileType
<1>3. worker \in [Workers -> WorkerType] /\ beat \in [Workers -> -1 .. Last]
  BY <1>1 DEF Init, WorkerType
<1>4. status \in [Workers -> StatusType]
  BY StatusTypes DEF Init
<1>5. left \in Lefts
  BY CoordinatorAssumption DEF Init, Lefts
<1> QED
  BY <1>1, <1>2, <1>3, <1>4, <1>5
     DEF Init, TypeInv, TypeOK, WorkerType, StatusType, Lefts

\* Types of a state, with the names above; and that a step that leaves a part of
\* the variables alone leaves their types.
LEMMA TypeFacts ==
    ASSUME TypeInv
    PROVE  /\ worker \in [Workers -> WorkerType] /\ status \in [Workers -> StatusType]
           /\ \A w \in Workers : worker[w] \in WorkerType /\ status[w] \in StatusType
           /\ beat \in [Workers -> -1 .. Last] /\ left \in Lefts
           /\ saved \in [Workers -> SUBSET Steps] /\ latest \in [Workers -> SUBSET Steps]
           /\ rewrite \in [Workers -> 0 .. Last]
           /\ Last \in Nat /\ 0 \in 0 .. Last
           /\ {"starts", "trainings", "crashes", "restarts", "early", "beats",
               "snapshots"} \subseteq Bounded
BY SnapshotAssumption
   DEF TypeInv, TypeOK, SnapshotTypeOK, WorkerType, StatusType, Lefts, Bounded

\* What a worker does preserves the types.
LEMMA WorkerTyping ==
    ASSUME TypeInv, NEW w \in Workers,
           \/ Train(w) \/ SaveCheckpointMeta(w) \/ PointerWritten(w) \/ SendHeartbeat(w)
           \/ Crash(w) \/ RegisterWorker(w)
    PROVE  TypeInv'
<1>1. /\ worker \in [Workers -> WorkerType] /\ worker[w] \in WorkerType
      /\ status \in [Workers -> StatusType] /\ status[w] \in StatusType
      /\ beat \in [Workers -> -1 .. Last] /\ left \in Lefts /\ Last \in Nat /\ 0 \in 0 .. Last
      /\ saved \in [Workers -> SUBSET Steps] /\ latest \in [Workers -> SUBSET Steps]
      /\ rewrite \in [Workers -> 0 .. Last]
  BY TypeFacts
<1>2. {"starts", "trainings", "crashes", "beats"} \subseteq Bounded
  BY TypeFacts
<1>0. ASSUME UNCHANGED snapshot_vars, latest' \in [Workers -> SUBSET Steps],
             rewrite' \in [Workers -> 0 .. Last]
      PROVE  SnapshotTypeOK'
  <2>1. HandlerTyping' /\ scan' \in [Snapshots -> ScanType]
    <3>1. HandlerTyping /\ PointerTyping
      BY TypeParts DEF TypeInv, TypeOK
    <3> QED
      BY <1>0, <3>1 DEF PointerTyping, HandlerTyping, snapshot_vars, handler_vars, marker_vars
  <2>2. PointerTyping'
    BY <1>0, <2>1 DEF PointerTyping
  <2> QED
    BY <2>1, <2>2
       DEF SnapshotTypeOK, PointerTyping, HandlerTyping, ScanType, Jobs, Stages, FileType
<1>3. UNCHANGED <<pointer_vars, snapshot_vars>>
         => SnapshotTypeOK' /\ UNCHANGED <<latest, rewrite>>
  BY <1>0, <1>1 DEF pointer_vars, TypeInv, TypeOK
<1>4. CASE Train(w)
  <2>1. worker' \in [Workers -> WorkerType]
    BY <1>1, <1>4 DEF Train, WorkerType
  <2>2. left' \in Lefts
    BY <1>1, <1>2, <1>4, SpendType DEF Train
  <2>3. worker'[w].step # 0 /\ \A v \in Workers : v # w => worker'[v] = worker[v]
    BY <1>1, <1>4 DEF Train, WorkerType
  <2> QED
    BY <1>1, <1>3, <1>4, <2>1, <2>2, <2>3
       DEF Train, monitor_vars, trigger_vars, TypeInv, TypeOK, WorkerType, StatusType, Lefts
<1>5. CASE SaveCheckpointMeta(w)
  <2>1. worker[w].does \in {"save", "point", "write"} /\ worker[w].step \in Steps
    BY <1>1, <1>5 DEF SaveCheckpointMeta, TypeInv, Steps, WorkerType
  <2>2. PICK x \in {"train", "point", "write"} : worker' = [worker EXCEPT ![w].does = x]
    BY <1>5 DEF SaveCheckpointMeta, DoesNext
  <2>3. /\ worker' \in [Workers -> WorkerType]
        /\ \A v \in Workers : v # w => worker'[v] = worker[v]
        /\ worker'[w].step = worker[w].step
    BY <1>1, <2>2 DEF WorkerType
  <2>4. saved' \in [Workers -> SUBSET Steps]
    BY <1>1, <1>5, <2>1 DEF SaveCheckpointMeta
  <2>5. worker'[w].step # 0
    BY <1>1, <2>1, <2>3 DEF Steps
  <2>6. rewrite' \in [Workers -> 0 .. Last] /\ latest' = latest
    <3>1. rewrite' = rewrite \/ rewrite' = [rewrite EXCEPT ![w] = worker[w].step]
      BY <1>5 DEF SaveCheckpointMeta
    <3> QED
      BY <1>1, <1>5, <3>1 DEF SaveCheckpointMeta, WorkerType
  <2>7. SnapshotTypeOK'
    BY <1>0, <1>1, <1>5, <2>6 DEF SaveCheckpointMeta, TypeInv, TypeOK
  <2> QED
    BY <1>1, <1>5, <2>3, <2>4, <2>5, <2>7
       DEF SaveCheckpointMeta, monitor_vars, trigger_vars, TypeInv, TypeOK, WorkerType,
           StatusType, Lefts
<1>9. CASE PointerWritten(w)
  <2>1. rewrite[w] \in Steps
    BY <1>1, <1>9 DEF PointerWritten, Steps
  <2>2. latest' \in [Workers -> SUBSET Steps] /\ rewrite' \in [Workers -> 0 .. Last]
    BY <1>1, <1>9, <2>1 DEF PointerWritten
  <2>3. PICK x \in {"train", worker[w].does} : worker' = [worker EXCEPT ![w].does = x]
    BY <1>1, <1>9 DEF PointerWritten, WorkerType
  <2>4. /\ worker' \in [Workers -> WorkerType]
        /\ \A v \in Workers : v # w => worker'[v] = worker[v]
        /\ worker'[w].step = worker[w].step
        /\ worker'[w].does \in {"save", "point", "write"} => worker'[w].does = worker[w].does
    BY <1>1, <2>3 DEF WorkerType
  <2>5. SnapshotTypeOK'
    BY <1>0, <1>9, <2>2 DEF PointerWritten, TypeInv, TypeOK
  <2> QED
    BY <1>1, <1>9, <2>4, <2>5
       DEF PointerWritten, monitor_vars, trigger_vars, TypeInv, TypeOK, WorkerType,
           StatusType, Lefts
<1>6. CASE SendHeartbeat(w)
  <2>1. beat' \in [Workers -> -1 .. Last]
    BY <1>1, <1>6 DEF SendHeartbeat, WorkerType
  <2>2. left' \in Lefts
    BY <1>1, <1>2, <1>6, SpendType DEF SendHeartbeat
  <2> QED
    BY <1>1, <1>3, <1>6, <2>1, <2>2
       DEF SendHeartbeat, monitor_vars, trigger_vars, TypeInv, TypeOK, WorkerType, StatusType,
           Lefts
<1>7. CASE Crash(w)
  <2>1. [worker[w] EXCEPT !.does = "down", !.step = 0] \in WorkerType
    BY <1>1 DEF WorkerType
  <2>2. worker' = [worker EXCEPT ![w] = [worker[w] EXCEPT !.does = "down", !.step = 0]]
    BY <1>1, <1>7 DEF Crash
  <2>3. worker' \in [Workers -> WorkerType] /\ worker'[w].does = "down"
        /\ \A v \in Workers : v # w => worker'[v] = worker[v]
    BY <1>1, <2>1, <2>2 DEF WorkerType
  <2>4. left' \in Lefts
    BY <1>1, <1>2, <1>7, SpendType DEF Crash
  <2> QED
    BY <1>1, <1>3, <1>7, <2>3, <2>4
       DEF Crash, monitor_vars, trigger_vars, TypeInv, TypeOK, WorkerType, StatusType, Lefts
<1>8. CASE RegisterWorker(w)
  <2>1. status' \in [Workers -> StatusType]
    <3>1. PICK x \in StatusType : status' = [status EXCEPT ![w] = x]
      <4>1. CASE status[w].known /\ ~status[w].alive
        BY <1>1, <1>8, <4>1, StatusTypes DEF RegisterWorker
      <4>2. CASE ~(status[w].known /\ ~status[w].alive)
        BY <1>1, <1>8, <4>2, StatusTypes DEF RegisterWorker
      <4> QED
        BY <4>1, <4>2
    <3> QED
      BY <1>1, <3>1
  <2>2. PICK r \in 0 .. Last :
           worker' = [worker EXCEPT ![w] = [does |-> "train", step |-> r]]
    BY <1>1, <1>8 DEF RegisterWorker, StatusType
  <2>3. worker' \in [Workers -> WorkerType] /\ worker'[w].does = "train"
        /\ \A v \in Workers : v # w => worker'[v] = worker[v]
    BY <1>1, <2>2 DEF WorkerType
  <2>4. left' \in Lefts
    BY <1>1, <1>2, <1>8, SpendType DEF RegisterWorker
  <2> QED
    BY <1>1, <1>3, <1>8, <2>1, <2>3, <2>4
       DEF RegisterWorker, trigger_vars, TypeInv, TypeOK, WorkerType, StatusType, Lefts
<1> QED
  BY <1>4, <1>5, <1>6, <1>7, <1>8, <1>9

\* No heartbeat is one of the values of beat.
LEMMA NoBeat == -1 \in -1 .. Last
<1>1. Last \in Nat
  BY SnapshotAssumption
<1> QED
  BY <1>1

\* What the coordinator does about its workers preserves the types.
LEMMA MonitorTyping ==
    ASSUME TypeInv,
           \/ \E w \in Workers : Heartbeat(w) \/ Monitor(w)
           \/ checkDeadWorkers \/ SetResumeStep
    PROVE  TypeInv'
<1>1. /\ status \in [Workers -> StatusType] /\ \A w \in Workers : status[w] \in StatusType
      /\ beat \in [Workers -> -1 .. Last] /\ left \in Lefts /\ Last \in Nat
      /\ saved \in [Workers -> SUBSET Steps] /\ latest \in [Workers -> SUBSET Steps]
      /\ dead \subseteq Workers
      /\ found = Nothing \/ found \in Workers \X Steps
      /\ {"early"} \subseteq Bounded
  BY TypeFacts DEF TypeInv, TypeOK
<1>2. UNCHANGED <<pointer_vars, snapshot_vars>> => SnapshotTypeOK'
  BY DEF TypeInv, TypeOK, SnapshotTypeOK, pointer_vars, snapshot_vars, handler_vars, marker_vars
<1>3. ASSUME UNCHANGED <<pointer_vars, snapshot_vars, saved, worker, trigger_vars>>,
             status' \in [Workers -> StatusType], beat' \in [Workers -> -1 .. Last],
             dead' \subseteq Workers, found' = Nothing \/ found' \in Workers \X Steps,
             left' \in Lefts
      PROVE  TypeInv'
  BY <1>2, <1>3 DEF trigger_vars, TypeInv, TypeOK, WorkerType, StatusType, Lefts
<1>4. ASSUME NEW w \in Workers, Heartbeat(w) PROVE TypeInv'
  <2>1. beat[w] \in 0 .. Last
    <3>1. beat[w] # -1 /\ beat[w] \in -1 .. Last
      BY <1>1, <1>4 DEF Heartbeat
    <3> QED
      BY <1>1, <3>1
  <2>2. PICK x \in StatusType : status' = [status EXCEPT ![w] = x]
    <3>1. CASE status[w].known
      BY <1>1, <1>4, <2>1, <3>1, StatusTypes DEF Heartbeat
    <3>2. CASE ~status[w].known
      BY <1>1, <1>4, <2>1, <3>2, StatusTypes DEF Heartbeat
    <3> QED
      BY <3>1, <3>2
  <2>3. status' \in [Workers -> StatusType] /\ beat' \in [Workers -> -1 .. Last]
    <3>1. beat' = [beat EXCEPT ![w] = -1]
      BY <1>4 DEF Heartbeat
    <3> QED
      BY <1>1, <2>2, <3>1, NoBeat
  <2>4. UNCHANGED <<pointer_vars, snapshot_vars, saved, worker, trigger_vars, dead, found, left>>
    BY <1>4 DEF Heartbeat
  <2> QED
    BY <1>1, <1>3, <2>3, <2>4
<1>5. ASSUME NEW w \in Workers, Expire(w) PROVE TypeInv'
  <2>1. [status[w] EXCEPT !.recent = FALSE] \in StatusType
    BY <1>1, StatusTypes
  <2>2. status' \in [Workers -> StatusType]
    BY <1>1, <1>5, <2>1 DEF Expire
  <2>3. left' \in Lefts
    BY <1>1, <1>5, SpendType DEF Expire
  <2>4. UNCHANGED <<pointer_vars, snapshot_vars, saved, worker, beat, trigger_vars, dead, found>>
    BY <1>5 DEF Expire, worker_vars
  <2> QED
    BY <1>1, <1>3, <2>2, <2>3, <2>4
<1>6. ASSUME NEW w \in Workers, LoadCheckpointMeta(w) PROVE TypeInv'
  <2>1. dead' \subseteq Workers /\ (found' = Nothing \/ found' \in Workers \X Steps)
    <3>1. CASE found' = found /\ dead' = dead \ {w}
      BY <1>1, <3>1
    <3>2. CASE dead' = dead /\ \E s \in FirstNumbers(w) \cap saved[w] : found' = <<w, s>>
      BY <1>1, <3>2
    <3> QED
      BY <1>6, <3>1, <3>2 DEF LoadCheckpointMeta
  <2>2. UNCHANGED <<pointer_vars, snapshot_vars, saved, worker, beat, trigger_vars, status, left>>
    BY <1>6 DEF LoadCheckpointMeta, worker_vars
  <2> QED
    BY <1>1, <1>3, <2>1, <2>2
<1>7. CASE checkDeadWorkers
  <2>1. \A w \in Workers : [status[w] EXCEPT !.alive = FALSE, !.deadSince = TRUE] \in StatusType
    BY <1>1, StatusTypes
  <2>2. status' \in [Workers -> StatusType] /\ dead' \subseteq Workers
    BY <1>1, <1>7, <2>1 DEF checkDeadWorkers
  <2>3. UNCHANGED <<pointer_vars, snapshot_vars, saved, worker, beat, trigger_vars, found, left>>
    BY <1>7 DEF checkDeadWorkers, worker_vars
  <2> QED
    BY <1>1, <1>3, <2>2, <2>3
<1>8. CASE SetResumeStep
  <2>1. found[1] \in Workers /\ found[2] \in Steps /\ found' = Nothing
    BY <1>1, <1>8 DEF SetResumeStep
  <2>2. PICK r \in 0 .. Last : status' = [status EXCEPT ![found[1]].resume = r]
    <3>1. found[2] \in 0 .. Last /\ status[found[1]].resume \in 0 .. Last
      BY <1>1, <2>1 DEF Steps, StatusType
    <3>2. status' = [status EXCEPT ![found[1]].resume =
                        IF status[found[1]].known THEN found[2] ELSE @]
      BY <1>8 DEF SetResumeStep
    <3>3. status' = [status EXCEPT ![found[1]].resume =
                        IF status[found[1]].known THEN found[2]
                                                  ELSE status[found[1]].resume]
      BY <1>1, <2>1, <3>2
    <3> QED
      BY <3>1, <3>3
  <2>3. [status[found[1]] EXCEPT !.resume = r] \in StatusType
    BY <1>1, <2>1, StatusTypes
  <2>4. status' \in [Workers -> StatusType]
    BY <1>1, <2>1, <2>2, <2>3
  <2>5. dead' \subseteq Workers
    BY <1>1, <1>8, <2>1 DEF SetResumeStep
  <2>6. UNCHANGED <<pointer_vars, snapshot_vars, saved, worker, beat, trigger_vars, left>>
    BY <1>8 DEF SetResumeStep, worker_vars
  <2> QED
    BY <1>1, <1>3, <2>1, <2>4, <2>5, <2>6
<1> QED
  BY <1>4, <1>5, <1>6, <1>7, <1>8 DEF Monitor

\* The steps of snapshots, and a restart of the coordinator, preserve the types.
LEMMA TriggerTyping ==
    ASSUME TypeInv,
           TriggerSnapshot \/ TriggerFails \/ OperatorSnapshot \/ Restart \/ Snapshotting
    PROVE  TypeInv'
<1>1. /\ beat \in [Workers -> -1 .. Last] /\ left \in Lefts /\ Last \in Nat
      /\ {"snapshots", "restarts"} \subseteq Bounded
      /\ snapCount \in 0 .. MaxIds /\ mine \in 0 .. MaxSnapshots
      /\ MaxIds \in Nat /\ MaxSnapshots \in Nat
  BY TypeFacts, SnapshotAssumption DEF TypeInv, TypeOK
<1>2. UNCHANGED <<pointer_vars, snapshot_vars>> => SnapshotTypeOK'
  BY DEF TypeInv, TypeOK, SnapshotTypeOK, pointer_vars, snapshot_vars, handler_vars, marker_vars
<1>3. SnapshotStep => SnapshotTypeOK'
  BY SnapshotTyping DEF TypeInv, TypeOK
<1>4. CASE TriggerSnapshot
  <2>1. Next0 \in Snapshots /\ snapCount + 1 \in Ids
    BY <1>1, <1>4 DEF TriggerSnapshot, Initiate, Ids
  <2>2. SnapshotTypeOK'
    BY <1>3, <1>4, <2>1 DEF TriggerSnapshot, SnapshotStep
  <2>3. snapCount' \in 0 .. MaxIds /\ mine' \in 0 .. MaxSnapshots
    BY <1>1, <1>4, <2>1 DEF TriggerSnapshot, Snapshots
  <2>4. left' \in Lefts
    BY <1>1, <1>4, SpendType DEF TriggerSnapshot
  <2> QED
    BY <1>4, <2>2, <2>3, <2>4
       DEF TriggerSnapshot, worker_vars, monitor_vars, TypeInv, TypeOK, Lefts
<1>5. CASE TriggerFails
  <2>1. snapCount' \in 0 .. MaxIds
    BY <1>1, <1>5 DEF TriggerFails
  <2>2. left' \in Lefts
    BY <1>1, <1>5, SpendType DEF TriggerFails
  <2> QED
    BY <1>2, <1>5, <2>1, <2>2
       DEF TriggerFails, worker_vars, monitor_vars, TypeInv, TypeOK, Lefts
<1>6. CASE OperatorSnapshot
  <2>1. Next0 \in Snapshots /\ 0 \in Ids
    BY <1>1, <1>6 DEF OperatorSnapshot, Initiate, Ids
  <2>2. SnapshotTypeOK'
    BY <1>3, <1>6, <2>1 DEF OperatorSnapshot, SnapshotStep
  <2>3. left' \in Lefts
    BY <1>1, <1>6, SpendType DEF OperatorSnapshot
  <2> QED
    BY <1>6, <2>2, <2>3
       DEF OperatorSnapshot, worker_vars, monitor_vars, trigger_vars, TypeInv, TypeOK, Lefts
<1>7. CASE Restart
  <2>1. status' \in [Workers -> StatusType] /\ beat' \in [Workers -> -1 .. Last]
    BY <1>7, StatusTypes, NoBeat DEF Restart
  <2>2. left' \in Lefts
    BY <1>1, <1>7, SpendType DEF Restart
  <2> QED
    BY <1>1, <1>2, <1>7, <2>1, <2>2 DEF Restart, TypeInv, TypeOK, StatusType, Lefts
<1>8. CASE Snapshotting
  <2>1. SnapshotTypeOK'
    <3>1. CASE \E n \in Snapshots : Scan(n)
      BY <3>1, ScanTyping DEF TypeInv, TypeOK
    <3> QED
      BY <1>3, <1>8, <3>1 DEF Snapshotting, SnapshotStep, Run, Proceeds
  <2> QED
    BY <1>8, <2>1
       DEF Snapshotting, worker_vars, monitor_vars, trigger_vars, TypeInv, TypeOK
<1> QED
  BY <1>4, <1>5, <1>6, <1>7, <1>8

\* TypeInv is an invariant.
LEMMA TypeInvariant == Spec => []TypeInv
<1>1. Init => TypeInv
  BY InitTyping
<1>2. TypeInv /\ [Next]_vars => TypeInv'
  <2> SUFFICES ASSUME TypeInv, [Next]_vars PROVE TypeInv'
    OBVIOUS
  <2>1. CASE Next
    BY <2>1, WorkerTyping, MonitorTyping, TriggerTyping DEF Next
  <2>2. CASE UNCHANGED vars
    BY <2>2 DEF vars, pointer_vars, snapshot_vars, handler_vars, marker_vars, worker_vars, monitor_vars, trigger_vars,
                TypeInv, TypeOK, SnapshotTypeOK
  <2> QED
    BY <2>1, <2>2
<1> QED
  BY <1>1, <1>2, PTL DEF Spec

\* Every variable keeps its type, in every behaviour of the coordinator (TypeOK).
THEOREM Typing == Spec => []TypeOK
<1>1. TypeInv => TypeOK
  BY DEF TypeInv
<1> QED
  BY <1>1, TypeInvariant, PTL

\* The invariants about the protocol depend on its variables only.
LEMMA ProtocolFrame ==
    ASSUME RecordInv, AloneInv, CompleteAcked, SnapshotTypeOK', UNCHANGED handler_vars
    PROVE  RecordInv' /\ AloneInv' /\ CompleteAcked'
<1>1. UNCHANGED <<job, current, tasks, markers, files, failed, shared>>
  BY DEF handler_vars, marker_vars
<1>2. Started' = Started /\ Marked' = Marked /\ Active' = Active
  BY <1>1 DEF Started, Marked, Active
<1>3. RecordInv'
  BY <1>1, <1>2 DEF RecordInv, StartedInOrder, MarkersFollowRecord, RecordedFirst
<1>4. AloneInv'
  <2>1. (\A n \in Marked : OwnId(n)' = OwnId(n)) /\ \A n, b : Delivered(n, b)' = Delivered(n, b)
    BY <1>1, <1>2 DEF OwnId, Delivered
  <2> QED
    BY <1>1, <1>2, <2>1 DEF AloneInv, CurrentRuns, RunsAlone, MarkersArrive, AcksCount
<1>5. CompleteAcked'
  BY <1>1 DEF CompleteAcked
<1> QED
  BY <1>3, <1>4, <1>5

ProtocolInv == TypeInv /\ RecordInv /\ AloneInv /\ CompleteAcked

\* ProtocolInv is an invariant: in the initial state nothing has started, and a step
\* of the coordinator is one of the protocol or leaves it alone.
LEMMA ProtocolInvariant == Spec => []ProtocolInv
<1>1. Init => ProtocolInv
  <2> SUFFICES ASSUME Init PROVE ProtocolInv
    OBVIOUS
  <2>1. Started = {} /\ Marked = {} /\ Active = {} /\ current = 0
    BY DEF Init, SnapshotInit, Started, Marked, Active, Unstarted
  <2>2. tasks = {} /\ markers = {} /\ \A b \in Backups, i \in Ids : files[b][i] = NoFile
    BY DEF Init, SnapshotInit, Servers
  <2>3. TypeInv /\ SnapshotTypeOK
    BY InitTyping DEF TypeInv, TypeOK
  <2>4. RecordInv
    BY <2>1, <2>2, <2>3
       DEF RecordInv, StartedInOrder, MarkersFollowRecord, RecordedFirst
  <2>5. AloneInv
    BY <2>1 DEF AloneInv, CurrentRuns, RunsAlone, MarkersArrive, AcksCount
  <2>6. CompleteAcked
    BY DEF Init, SnapshotInit, CompleteAcked, Unstarted
  <2> QED
    BY <2>3, <2>4, <2>5, <2>6 DEF ProtocolInv
<1>2. ProtocolInv /\ TypeInv' /\ [Next]_vars => ProtocolInv'
  <2> SUFFICES ASSUME ProtocolInv, TypeInv', [Next]_vars PROVE ProtocolInv'
    OBVIOUS
  <2>1. TypeOK /\ SnapshotTypeOK'
    BY DEF ProtocolInv, TypeInv, TypeOK
  <2>2. CASE SnapshotStep
    BY <2>2, RecordStep, AloneStep, CompleteAckedStep DEF ProtocolInv
  <2>3. CASE UNCHANGED handler_vars
    BY <2>1, <2>3, ProtocolFrame DEF ProtocolInv
  <2> QED
    BY <2>1, <2>2, <2>3, SnapshotOrNot
<1> QED
  BY <1>1, <1>2, TypeInvariant, PTL DEF Spec

\* What a backup has recorded under an id, the primary recorded before
\* (RecordedFirst): "C-L: record before sending markers", server_snapshots.go:306.
THEOREM RecordingOrder == Spec => []RecordedFirst
<1>1. ProtocolInv => RecordedFirst
  BY DEF ProtocolInv, RecordInv
<1> QED
  BY <1>1, ProtocolInvariant, PTL

\* A snapshot that ran alone under an id of its own is reported complete only when
\* every backup it asked has recorded it, or failed to (CompleteIsRecorded).
THEOREM Completeness == Spec => []CompleteIsRecorded
<1>1. ProtocolInv => CompleteIsRecorded
  BY AloneIsRecorded DEF ProtocolInv, RecordInv
<1> QED
  BY <1>1, ProtocolInvariant, PTL

-------------------------------------------------------------------------------
(* Recorded steps are saved *)

\* The part of SavedInv about the files and the reads is kept by a step that reads no
\* pointer and leaves the files of the primary alone, for what is saved stays saved.
LEMMA SavedFrame ==
    ASSUME SavedInv, UNCHANGED scan, files'[Primary] = files[Primary], PointersSaved',
           \A w \in Workers : saved[w] \subseteq saved'[w]
    PROVE  SavedInv'
<1>1. ASSUME NEW n, NEW r, ReadSaved(n, r) PROVE ReadSaved(n, r)'
  BY <1>1 DEF ReadSaved
<1>2. \A n \in Snapshots : ReadSaved(n, scan[n].steps)'
  BY <1>1 DEF SavedInv
<1>3. \A i \in Ids : files[Primary][i] # NoFile =>
         files[Primary][i].by \in Snapshots
         /\ ReadSaved(files[Primary][i].by, files[Primary][i].steps)'
  BY <1>1 DEF SavedInv
<1> QED
  BY <1>2, <1>3 DEF SavedInv, ReadSaved

\* Reading a pointer finds a step it names, which is saved, or the read is torn.
LEMMA SavedScan ==
    ASSUME TypeInv, SavedInv, NEW n \in Snapshots, Scan(n), UNCHANGED worker_vars
    PROVE  SavedInv'
<1>1. /\ scan \in [Snapshots -> ScanType] /\ scan[n] \in ScanType
      /\ UNCHANGED <<latest, rewrite, files, saved, worker>>
  BY TypeParts DEF TypeInv, TypeOK, PointerTyping, Scan, List, ReadPointer, pointer_vars, handler_vars,
         worker_vars
<1>2. PointersSaved'
  BY <1>1 DEF SavedInv, PointersSaved
\* It is enough that n knows of more torn reads, and that what it has read is saved.
<1>3. ASSUME \A m \in Snapshots : scan[m].torn \subseteq scan'[m].torn,
             \A m \in Snapshots \ {n} : scan'[m] = scan[m],
             ReadSaved(n, scan[n].steps)'
      PROVE  SavedInv'
  <2>1. ASSUME NEW m \in Snapshots, NEW r, ReadSaved(m, r)
        PROVE  \A w \in Workers \ scan'[m].torn : r[w] \in saved'[w] \cup {0}
    BY <1>1, <1>3, <2>1 DEF ReadSaved
  <2>2. \A m \in Snapshots : ReadSaved(m, scan[m].steps)'
    <3> SUFFICES ASSUME NEW m \in Snapshots, m # n PROVE ReadSaved(m, scan[m].steps)'
      BY <1>3
    <3>1. \A w \in Workers \ scan'[m].torn : scan[m].steps[w] \in saved'[w] \cup {0}
      BY <2>1 DEF SavedInv
    <3> QED
      BY <1>3, <3>1 DEF ReadSaved
  <2>3. ASSUME NEW i \in Ids, files'[Primary][i] # NoFile
        PROVE  /\ files'[Primary][i].by \in Snapshots
               /\ ReadSaved(files[Primary][i].by, files[Primary][i].steps)'
    <3>1. /\ files[Primary][i].by \in Snapshots
          /\ ReadSaved(files[Primary][i].by, files[Primary][i].steps)
      BY <1>1, <2>3 DEF SavedInv
    <3> QED
      BY <1>1, <2>1, <3>1 DEF ReadSaved
  <2> QED
    BY <1>2, <2>2, <2>3 DEF SavedInv
<1>4. ReadSaved(n, scan[n].steps)
  BY DEF SavedInv
<1>5. CASE List(n)
  <2>1. PICK U \in SUBSET Workers :
           scan' = [scan EXCEPT ![n] = [scan[n] EXCEPT !.listed = TRUE, !.unread = U]]
    BY <1>1, <1>5 DEF List
  <2>2. /\ scan'[n].steps = scan[n].steps /\ scan'[n].torn = scan[n].torn
        /\ \A m \in Snapshots \ {n} : scan'[m] = scan[m]
    BY <1>1, <2>1 DEF ScanType
  <2> QED
    BY <1>1, <1>3, <1>4, <2>2 DEF ReadSaved
<1>6. ASSUME NEW w \in Workers, ReadPointer(n, w) PROVE SavedInv'
  <2> DEFINE T == IF rewrite[w] # 0 THEN scan[n].torn \cup {w} ELSE scan[n].torn
  <2>1. PICK s \in FirstNumbers(w) : scan' = AfterRead(n, w, s)
    BY <1>6 DEF ReadPointer, AfterRead
  <2>2. AfterRead(n, w, s) =
           [scan EXCEPT ![n] = [scan[n] EXCEPT !.unread = @ \ {w}, !.steps[w] = s, !.torn = T]]
    BY <1>1 DEF AfterRead
  <2>3. /\ scan'[n].torn = T /\ scan'[n].steps = [scan[n].steps EXCEPT ![w] = s]
        /\ \A m \in Snapshots \ {n} : scan'[m] = scan[m]
    BY <1>1, <2>1, <2>2 DEF ScanType
  <2>4. \A m \in Snapshots : scan[m].torn \subseteq scan'[m].torn
    BY <2>3
  <2>5. rewrite[w] = 0 => s \in saved[w] \cup {0}
    BY <2>1 DEF FirstNumbers, SavedInv, PointersSaved
  <2>6. scan[n].steps \in [Workers -> 0 .. Last]
    BY <1>1 DEF ScanType, Reports
  <2>7. ASSUME NEW v \in Workers \ T
        PROVE  [scan[n].steps EXCEPT ![w] = s][v] \in saved[v] \cup {0}
    <3>1. CASE v = w
      BY <2>5, <2>6, <2>7, <3>1
    <3>2. CASE v # w
      BY <1>4, <2>6, <2>7, <3>2 DEF ReadSaved
    <3> QED
      BY <3>1, <3>2
  <2> HIDE DEF T
  <2>8. ReadSaved(n, scan[n].steps)'
    BY <1>1, <2>3, <2>7 DEF ReadSaved
  <2> QED
    BY <1>3, <2>3, <2>4, <2>8
<1> QED
  BY <1>5, <1>6 DEF Scan

\* The snapshot protocol records what was read, and only the backups record otherwise.
LEMMA SavedSnapshot ==
    ASSUME TypeInv, SavedInv, SnapshotStep, UNCHANGED worker_vars
    PROVE  SavedInv'
<1>1. UNCHANGED <<latest, rewrite, scan, saved, worker>>
  BY DEF SnapshotStep, Initiate, Proceeds, Record, Complete, TimeOut, EndAs, SendMarker,
         MarkerEnds, pointer_vars, worker_vars
<1>2. PointersSaved' /\ \A w \in Workers : saved[w] \subseteq saved'[w]
  BY <1>1 DEF SavedInv, PointersSaved
<1>3. /\ files \in [Servers -> [Ids -> FileType]]
      /\ Primary \in Servers /\ \A b \in Backups : b # Primary
  BY SnapshotAssumption DEF TypeInv, TypeOK, SnapshotTypeOK, FileType, Servers
<1>4. CASE files'[Primary] = files[Primary]
  BY <1>1, <1>2, <1>4, SavedFrame
<1>5. ASSUME NEW n \in Snapshots,
             files' = [files EXCEPT ![Primary][job[n].id] = FileOf(n)]
      PROVE  SavedInv'
  <2>1. FileOf(n).by = n /\ FileOf(n).steps = scan[n].steps
    BY DEF FileOf
  <2>2. \A m, r : ReadSaved(m, r)' <=> ReadSaved(m, r)
    BY <1>1 DEF ReadSaved
  <2>3. \A m \in Snapshots : ReadSaved(m, scan[m].steps)
    BY DEF SavedInv
  <2>4. ASSUME NEW i \in Ids
        PROVE  files'[Primary][i] \in {files[Primary][i], FileOf(n)}
    BY <1>3, <1>5
  <2>5. ASSUME NEW i \in Ids, files'[Primary][i] # NoFile
        PROVE  /\ files'[Primary][i].by \in Snapshots
               /\ ReadSaved(files'[Primary][i].by, files'[Primary][i].steps)
    <3>1. CASE files'[Primary][i] = FileOf(n)
      BY <2>1, <2>3, <3>1
    <3>2. CASE files'[Primary][i] = files[Primary][i]
      BY <2>5, <3>2 DEF SavedInv
    <3> QED
      BY <2>4, <3>1, <3>2
  <2>6. \A m \in Snapshots : ReadSaved(m, scan[m].steps)'
    BY <1>1, <2>3 DEF ReadSaved
  <2>7. \A i \in Ids : files'[Primary][i] # NoFile =>
           /\ files'[Primary][i].by \in Snapshots
           /\ ReadSaved(files[Primary][i].by, files[Primary][i].steps)'
    BY <1>1, <2>5 DEF ReadSaved
  <2> QED
    BY <1>2, <2>6, <2>7 DEF SavedInv
<1>6. ASSUME NEW n \in Snapshots, Record(n) PROVE SavedInv'
  BY <1>4, <1>5, <1>6 DEF Record
<1>7. ASSUME NEW n \in Snapshots, NEW b \in Backups, SendMarker(n, b)
      PROVE  files'[Primary] = files[Primary]
  <2>1. \/ files' = [files EXCEPT ![b][job[n].id] = [NoFile EXCEPT !.by = n]]
        \/ files' = files
    BY <1>7 DEF SendMarker
  <2> QED
    BY <1>3, <2>1
<1>8. \/ files' = files
      \/ \E n \in Snapshots : Record(n)
      \/ \E n \in Snapshots, b \in Backups : SendMarker(n, b)
  BY DEF SnapshotStep, Initiate, Proceeds, Complete, TimeOut, EndAs, MarkerEnds
<1> QED
  BY <1>4, <1>6, <1>7, <1>8

\* What a worker does: it saves the metadata before the pointer.
LEMMA SavedWorker ==
    ASSUME TypeInv, SavedInv, NEW w \in Workers,
           \/ Train(w) \/ SaveCheckpointMeta(w) \/ PointerWritten(w)
           \/ Crash(w) \/ RegisterWorker(w)
    PROVE  SavedInv'
<1>1. /\ worker \in [Workers -> WorkerType] /\ worker[w] \in WorkerType
      /\ saved \in [Workers -> SUBSET Steps] /\ latest \in [Workers -> SUBSET Steps]
      /\ rewrite \in [Workers -> 0 .. Last]
  BY TypeFacts
<1>2. \A v \in Workers : /\ latest[v] \subseteq saved[v] /\ rewrite[v] \in saved[v] \cup {0}
                         /\ worker[v].does = "point" => worker[v].step \in saved[v]
  BY DEF SavedInv, PointersSaved
<1>3. UNCHANGED <<scan, files>>
  BY DEF Train, SaveCheckpointMeta, PointerWritten, Crash, RegisterWorker, snapshot_vars,
         handler_vars
<1>4. CASE Train(w) \/ Crash(w) \/ RegisterWorker(w)
  <2>1. UNCHANGED <<saved, latest, rewrite>>
    BY <1>4 DEF Train, Crash, RegisterWorker, pointer_vars
  <2>2. PICK x \in [does : {"save", "down", "train"}, step : 0 .. Last] :
           worker' = [worker EXCEPT ![w] = x]
    <3>1. CASE Train(w)
      BY <1>1, <3>1 DEF Train, WorkerType
    <3>2. CASE Crash(w)
      <4>1. [worker[w] EXCEPT !.does = "down", !.step = 0]
               \in [does : {"save", "down", "train"}, step : 0 .. Last]
        BY <1>1, TypeFacts DEF WorkerType
      <4> QED
        BY <1>1, <3>2, <4>1 DEF Crash
    <3>3. CASE RegisterWorker(w)
      <4>1. PICK r \in 0 .. Last :
               worker' = [worker EXCEPT ![w] = [does |-> "train", step |-> r]]
        BY <3>3, TypeFacts DEF RegisterWorker, StatusType
      <4> QED
        BY <4>1
    <3> QED
      BY <1>4, <3>1, <3>2, <3>3
  <2>3. \A v \in Workers : worker'[v].does = "point" => worker'[v] = worker[v]
    BY <1>1, <2>2
  <2>4. PointersSaved'
    BY <1>2, <2>1, <2>3 DEF PointersSaved
  <2> QED
    BY <1>3, <2>1, <2>4, SavedFrame
<1>5. CASE SaveCheckpointMeta(w)
  <2>1. latest' = latest /\ \A v \in Workers : saved[v] \subseteq saved'[v]
    BY <1>1, <1>5 DEF SaveCheckpointMeta
  <2>2. PICK x \in {"train", "point", "write"} :
           /\ worker' = [worker EXCEPT ![w].does = x]
           /\ x = "point" => saved' = [saved EXCEPT ![w] = @ \cup {worker[w].step}]
    BY <1>5 DEF SaveCheckpointMeta, DoesNext
  <2>3. /\ \A v \in Workers : v # w => worker'[v] = worker[v]
        /\ worker'[w].step = worker[w].step /\ worker'[w].does = x
    BY <1>1, <2>2 DEF WorkerType
  <2>4. worker'[w].does = "point" => worker'[w].step \in saved'[w]
    BY <1>1, <2>2, <2>3
  <2>5. \A v \in Workers : worker'[v].does = "point" => worker'[v].step \in saved'[v]
    BY <1>2, <2>1, <2>3, <2>4
  <2>6. ASSUME NEW v \in Workers PROVE rewrite'[v] \in saved'[v] \cup {0}
    <3>1. CASE rewrite' = rewrite
      BY <1>2, <2>1, <3>1
    <3>2. CASE /\ worker[w].does = "point"
               /\ rewrite' = [rewrite EXCEPT ![w] = worker[w].step]
      BY <1>1, <1>2, <2>1, <3>2
    <3> QED
      BY <1>5, <3>1, <3>2 DEF SaveCheckpointMeta
  <2>7. PointersSaved'
    BY <1>2, <2>1, <2>5, <2>6 DEF PointersSaved
  <2> QED
    BY <1>3, <2>1, <2>7, SavedFrame
<1>6. CASE PointerWritten(w)
  <2>1. /\ saved' = saved /\ rewrite[w] \in saved[w]
        /\ latest' = [latest EXCEPT ![w] = @ \cup {rewrite[w]}]
        /\ rewrite' = [rewrite EXCEPT ![w] = 0]
    BY <1>2, <1>6 DEF PointerWritten
  <2>2. \A v \in Workers : latest'[v] \subseteq saved'[v] /\ rewrite'[v] \in saved'[v] \cup {0}
    BY <1>1, <1>2, <2>1
  <2>3. PICK x \in {"train", worker[w].does} : worker' = [worker EXCEPT ![w].does = x]
    BY <1>1, <1>6 DEF PointerWritten, WorkerType
  <2>4. \A v \in Workers : worker'[v].does = "point" => worker'[v] = worker[v]
    BY <1>1, <2>3 DEF WorkerType
  <2>5. PointersSaved'
    BY <1>2, <2>1, <2>2, <2>4 DEF PointersSaved
  <2> QED
    BY <1>3, <2>1, <2>5, SavedFrame
<1> QED
  BY <1>4, <1>5, <1>6

\* The rest of the coordinator writes neither a pointer nor a snapshot.
LEMMA SavedOther ==
    ASSUME SavedInv,
           \/ \E w \in Workers : SendHeartbeat(w) \/ Heartbeat(w) \/ Monitor(w)
           \/ checkDeadWorkers \/ SetResumeStep \/ TriggerFails \/ Restart \/ UNCHANGED vars
    PROVE  SavedInv'
<1>1. UNCHANGED <<latest, rewrite, scan, files, saved, worker>>
  BY DEF SendHeartbeat, Heartbeat, Monitor, Expire, LoadCheckpointMeta, checkDeadWorkers,
         SetResumeStep, TriggerFails, Restart, vars, snapshot_vars, handler_vars, pointer_vars,
         worker_vars
<1>2. PointersSaved'
  BY <1>1 DEF SavedInv, PointersSaved
<1> QED
  BY <1>1, <1>2, SavedFrame

\* A step a snapshot has recorded for a worker, of a pointer it did not read while it was
\* rewritten, is one whose metadata are stored (RecordedIsSaved: the unlocked reads of
\* server_snapshots.go:286-299), for any number of workers, crashes, restarts, failed
\* calls and snapshots.
THEOREM RecordedSaved == Spec => []RecordedIsSaved
<1>1. Init => SavedInv
  <2> SUFFICES ASSUME Init PROVE SavedInv
    OBVIOUS
  <2>1. \A i \in Ids : files[Primary][i] = NoFile
    BY DEF Init, SnapshotInit, Servers
  <2>2. PointersSaved
    BY DEF Init, SnapshotInit, PointersSaved
  <2>3. \A n \in Snapshots : ReadSaved(n, scan[n].steps)
    BY DEF Init, SnapshotInit, ReadSaved, Unscanned
  <2> QED
    BY <2>1, <2>2, <2>3 DEF SavedInv
<1>2. TypeInv /\ SavedInv /\ [Next]_vars => SavedInv'
  <2> SUFFICES ASSUME TypeInv, SavedInv, [Next]_vars PROVE SavedInv'
    OBVIOUS
  <2>1. CASE \E w \in Workers : \/ Train(w) \/ SaveCheckpointMeta(w) \/ PointerWritten(w)
                                \/ Crash(w) \/ RegisterWorker(w)
    BY <2>1, SavedWorker
  <2>2. CASE \/ \E w \in Workers : SendHeartbeat(w) \/ Heartbeat(w) \/ Monitor(w)
             \/ checkDeadWorkers \/ SetResumeStep \/ TriggerFails \/ Restart \/ UNCHANGED vars
    BY <2>2, SavedOther
  <2>3. CASE TriggerSnapshot \/ OperatorSnapshot
    <3>1. SnapshotStep /\ UNCHANGED worker_vars
      <4>1. \A n, i : Initiate(n, i) => n \in Snapshots
        BY DEF Initiate
      <4>2. snapCount < MaxIds => snapCount + 1 \in Ids
        BY SnapshotAssumption DEF TypeInv, TypeOK, Ids
      <4>3. 0 \in Ids
        BY SnapshotAssumption DEF Ids
      <4> QED
        BY <2>3, <4>1, <4>2, <4>3 DEF TriggerSnapshot, OperatorSnapshot, SnapshotStep
    <3> QED
      BY <3>1, SavedSnapshot
  <2>4. CASE Snapshotting
    <3>1. UNCHANGED worker_vars
      BY <2>4 DEF Snapshotting
    <3>2. SnapshotStep \/ \E n \in Snapshots : Scan(n)
      BY <2>4 DEF Snapshotting, SnapshotStep, Run, Proceeds
    <3> QED
      BY <3>1, <3>2, SavedScan, SavedSnapshot
  <2> QED
    BY <2>1, <2>2, <2>3, <2>4 DEF Next
<1>3. SavedInv => RecordedIsSaved
  BY DEF SavedInv, ReadSaved, RecordedIsSaved
<1> QED
  BY <1>1, <1>2, <1>3, TypeInvariant, PTL DEF Spec

===============================================================================
