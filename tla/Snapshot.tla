-------------------------------- MODULE Snapshot --------------------------------
(***************************************************************************)
(* Global snapshots (server_snapshots.go): InitiateSnapshot at the         *)
(* primary, the markers it sends to the backups from a goroutine each,     *)
(* the snapshots the backups record, and the acknowledgements, which go    *)
(* to whatever snapshot s.snapshot is then.                                *)
(*                                                                         *)
(* A snapshot is an InitiateSnapshot handler; they are numbered in the     *)
(* order they start.  Of what one records, this module has the step of     *)
(* every worker; module Client has the open clients.  Module Coordinator   *)
(* composes this one with the training it takes snapshots of.              *)
(***************************************************************************)
EXTENDS Integers, FiniteSets

CONSTANTS
    Primary,      \* the server whose role is Primary
    Backups,
    MarkedDead,   \* backups whose Alive flag is FALSE at the primary
    Workers,
    Last,         \* bound: the steps of a training run at which it saves
    MaxSnapshots, \* bound: snapshots
    MaxIds        \* bound: ids the coordinator gives to snapshots

ASSUME SnapshotAssumption ==
    /\ IsFiniteSet(Backups) /\ Primary \notin Backups
    /\ MarkedDead \subseteq Backups
    /\ Last \in Nat \ {0} /\ MaxSnapshots \in Nat /\ MaxIds \in Nat

VARIABLES
    latest,       \* the numbers in the pointer file of a worker, on the primary's disk
    rewrite,      \* the step a Close is rewriting that file with, 0 for none
    job,          \* the InitiateSnapshot handlers
    scan,         \* what a handler has read of the pointers
    current,      \* s.snapshot, by number; 0 for nil
    tasks,        \* goroutines whose SendMarker call has not ended
    markers,      \* markers no backup has handled
    files,        \* the snapshot file of a server for an id
    failed,       \* ghost: markers whose call failed
    shared        \* ghost: snapshots that ran while another did

marker_vars == <<tasks, markers, failed>>
handler_vars == <<job, current, marker_vars, files, shared>>
snapshot_vars == <<handler_vars, scan>>
pointer_vars == <<latest, rewrite>>

Servers   == {Primary} \cup Backups
Snapshots == 1 .. MaxSnapshots
Steps     == 1 .. Last
Ids       == 0 .. MaxIds            \* the coordinator counts from 1; 0 is an operator's
Reports   == [Workers -> 0 .. Last] \* a step for each worker, 0 for none

\* A snapshot ends as complete, timed out or failed.
Ended == {"complete", "timedout", "failed"}

Unstarted == [stage |-> "none", id |-> 0, asked |-> {}, acked |-> {}]
NoFile    == [by |-> 0, steps |-> [w \in Workers |-> 0]]
\* Files of the directory that are still to be read, and the steps found in others;
\* torn (ghost) are those read while they were rewritten.
Unscanned == [listed |-> FALSE, unread |-> {}, steps |-> [w \in Workers |-> 0], torn |-> {}]

Active == {n \in Snapshots : job[n].stage \in {"scan", "wait"}}
Next0  == Cardinality({n \in Snapshots : job[n].stage # "none"}) + 1

SnapshotInit ==
    /\ latest = [w \in Workers |-> {}]
    /\ rewrite = [w \in Workers |-> 0]
    /\ scan = [n \in Snapshots |-> Unscanned]
    /\ job = [n \in Snapshots |-> Unstarted]
    /\ current = 0
    /\ tasks = {} /\ markers = {}
    /\ files = [s \in Servers |-> [i \in Ids |-> NoFile]]
    /\ failed = {} /\ shared = {}

-------------------------------------------------------------------------------
(* InitiateSnapshot *)

\* Under s.mu: the local state, and the peers whose acknowledgement is due.  The
\* snapshot becomes the current one, whether or not there is one already.
Initiate(n, i) ==
    /\ n = Next0 /\ n \in Snapshots
    /\ job' = [job EXCEPT ![n] = [stage |-> "scan", id |-> i, asked |-> Backups \ MarkedDead,
                                  acked |-> {}]]
    /\ current' = n
    /\ shared' = IF Active = {} /\ tasks = {} THEN shared
                 ELSE shared \cup Active \cup {t[1] : t \in tasks} \cup {n}
    /\ UNCHANGED <<pointer_vars, scan, marker_vars, files>>

\* Without s.mu, which a Close holds when it rewrites a pointer: the names in the
\* directory, and then one file after the other.
List(n) ==
    /\ job[n].stage = "scan" /\ ~scan[n].listed
    /\ scan' = [scan EXCEPT ![n].listed = TRUE,
                           ![n].unread = {w \in Workers : latest[w] # {} \/ rewrite[w] # 0}]
    /\ UNCHANGED <<pointer_vars, handler_vars>>

\* The first number of a pointer; a file keeps its numbers in no order.  One that is
\* truncated and half written has none, or a part of one, which may be any.
FirstNumbers(w) == IF rewrite[w] # 0 THEN 0 .. Last
                   ELSE IF latest[w] = {} THEN {0} ELSE latest[w]

ReadPointer(n, w) ==
    /\ job[n].stage = "scan" /\ w \in scan[n].unread
    /\ \E s \in FirstNumbers(w) :
          scan' = [scan EXCEPT ![n].unread = @ \ {w}, ![n].steps[w] = s,
                               ![n].torn = IF rewrite[w] # 0 THEN @ \cup {w} ELSE @]
    /\ UNCHANGED <<pointer_vars, handler_vars>>

Scan(n) == List(n) \/ \E w \in Workers : ReadPointer(n, w)

\* The snapshot file of n at the primary.
FileOf(n) == [by |-> n, steps |-> scan[n].steps]

\* A goroutine for each peer sends a marker.
SendMarkers(n) ==
    /\ job' = [job EXCEPT ![n].stage = "wait"]
    /\ tasks' = tasks \cup {<<n, b>> : b \in job[n].asked}
    /\ markers' = markers \cup {<<n, b>> : b \in job[n].asked}

\* Mutated form: a failure to write the file is only logged.
RecordRegardless(n) ==
    /\ job[n].stage = "scan" /\ scan[n].listed /\ scan[n].unread = {}
    /\ files' \in {files, [files EXCEPT ![Primary][job[n].id] = FileOf(n)]}
    /\ SendMarkers(n)
    /\ UNCHANGED <<pointer_vars, scan, current, failed, shared>>

\* The file is written, and then the goroutines start.  If it cannot be written the
\* handler returns and leaves s.snapshot as it is.
Record(n) ==
    /\ job[n].stage = "scan" /\ scan[n].listed /\ scan[n].unread = {}
    /\ \/ /\ files' = [files EXCEPT ![Primary][job[n].id] = FileOf(n)]
          /\ SendMarkers(n)
       \/ /\ job' = [job EXCEPT ![n].stage = "failed"]
          /\ UNCHANGED <<files, tasks, markers>>
    /\ UNCHANGED <<pointer_vars, scan, current, failed, shared>>

\* The wait is over and s.snapshot set to nil, whichever snapshot it is by then.
EndAs(n, outcome) ==
    /\ job' = [job EXCEPT ![n].stage = outcome]
    /\ current' = 0
    /\ UNCHANGED <<pointer_vars, scan, marker_vars, files, shared>>

\* Mutated form: one acknowledgement is enough.
AnyAcked(n) == job[n].asked = {} \/ job[n].acked # {}
AllAcked(n) == job[n].asked \subseteq job[n].acked

Complete(n) ==
    /\ job[n].stage = "wait"
    /\ AllAcked(n)
    /\ EndAs(n, "complete")

\* Mutated form: the wait has no timeout.
TimeOutNever(n) == FALSE

\* Ten seconds; the marker calls of the snapshot have ended, for they take five.
TimeOut(n) ==
    /\ job[n].stage = "wait"
    /\ ~AllAcked(n)
    /\ \A b \in Backups : <<n, b>> \notin tasks
    /\ EndAs(n, "timedout")

-------------------------------------------------------------------------------
(* Markers *)

\* SendMarker at a backup: it records its state, unless it cannot write.
SendMarker(n, b) ==
    /\ <<n, b>> \in markers
    /\ markers' = markers \ {<<n, b>>}
    /\ \/ /\ files' = [files EXCEPT ![b][job[n].id] =
                          [NoFile EXCEPT !.by = n]]
          /\ UNCHANGED failed
       \/ /\ failed' = failed \cup {<<n, b>>}
          /\ UNCHANGED files
    /\ UNCHANGED <<pointer_vars, scan, job, current, tasks, shared>>

\* ReceiveMarkerAck: to the snapshot that is current, if there is one.
ReceiveMarkerAck(b) ==
    job' = IF current = 0 THEN job ELSE [job EXCEPT ![current].acked = @ \cup {b}]

\* The call of a goroutine ends, with an answer or a failure (a marker on its way may
\* still arrive), and counts as acknowledged in any case.
MarkerEnds(n, b) ==
    /\ <<n, b>> \in tasks
    /\ tasks' = tasks \ {<<n, b>>}
    /\ failed' = IF <<n, b>> \in markers THEN failed \cup {<<n, b>>} ELSE failed
    /\ ReceiveMarkerAck(b)
    /\ UNCHANGED <<pointer_vars, scan, current, markers, files, shared>>

Run(n) == Scan(n) \/ Record(n) \/ Complete(n) \/ TimeOut(n)

\* A handler goes on, and a marker call ends: both have timeouts.  A marker need not arrive.
SnapshotFairness ==
    /\ \A n \in Snapshots : WF_<<pointer_vars, snapshot_vars>>(Run(n))
    /\ \A n \in Snapshots, b \in Backups : WF_<<pointer_vars, snapshot_vars>>(MarkerEnds(n, b))

-------------------------------------------------------------------------------
(* Properties *)

SnapshotTypeOK ==
    /\ latest \in [Workers -> SUBSET Steps]
    /\ rewrite \in [Workers -> 0 .. Last]
    /\ scan \in [Snapshots -> [listed : BOOLEAN, unread : SUBSET Workers, steps : Reports,
                               torn : SUBSET Workers]]
    /\ job \in [Snapshots -> [stage : {"none", "scan", "wait"} \cup Ended, id : Ids,
                              asked : SUBSET Backups, acked : SUBSET Backups]]
    /\ current \in 0 .. MaxSnapshots
    /\ tasks \subseteq Snapshots \X Backups
    /\ markers \subseteq Snapshots \X Backups
    /\ files \in [Servers -> [Ids -> [by : 0 .. MaxSnapshots, steps : Reports]]]
    /\ failed \subseteq Snapshots \X Backups
    /\ shared \subseteq Snapshots

\* "Once all backups have ACKed, the global snapshot is complete" (server_snapshots.go:27)
\* of a snapshot that ran alone, under an id of its own: every backup it asked has
\* recorded its state under that id, or is one whose marker failed.
CompleteIsRecorded ==
    \A n \in Snapshots \ shared :
        /\ job[n].stage = "complete"
        /\ \A m \in Snapshots : job[m].stage # "none" /\ job[m].id = job[n].id => m = n
        => \A b \in job[n].asked : <<n, b>> \in failed \/ files[b][job[n].id].by = n

\* "C-L: record before sending markers" (server_snapshots.go:306): what a backup has
\* recorded under an id, the primary had recorded under that id before, with
\* snapshots failing half way and running at the same time.
RecordedFirst ==
    \A b \in Backups, i \in Ids : files[b][i] # NoFile => files[Primary][i] # NoFile

\* A snapshot ends ("It blocks until the snapshot is complete or times out",
\* server_snapshots.go:195), though another one may take its acknowledgements.
SnapshotEnds == \A n \in Snapshots : n \in Active ~> n \notin Active
===============================================================================
