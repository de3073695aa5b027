------------------------------ MODULE Coordinator ------------------------------
(***************************************************************************)
(* The training coordinator (ml_coordinator/coordinator.go) with the       *)
(* workers it watches and the snapshots it triggers (module Snapshot).     *)
(*                                                                         *)
(* An action is a stretch under c.mu, or a call to the file service        *)
(* between two of them.  The workers are clients of its HTTP interface as  *)
(* the comments in the file describe them: register at the start, send     *)
(* heartbeats with the current step, save checkpoints.  A checkpoint is    *)
(* its metadata and then the pointer (module Checkpoint has the details,   *)
(* and shows that today the metadata never parse: here they may).          *)
(***************************************************************************)
EXTENDS Snapshot

CONSTANTS
    Budgets  \* bounds: how often what may happen, as a set of records Init chooses from

Bounded == {"starts", "trainings", "crashes", "restarts", "early", "beats", "snapshots"}

ASSUME CoordinatorAssumption == Budgets \subseteq [Bounded -> Nat]

VARIABLES
    saved,      \* steps of a worker whose metadata are stored
    worker,     \* a worker: what it does, its step
    beat,       \* a heartbeat on its way, by its step; -1 for none
    status,     \* c.workers
    dead,       \* the workers whose death checkDeadWorkers still has to handle
    found,      \* the step LoadCheckpointMeta has answered for one of them
    snapCount,  \* c.snapCount
    mine,       \* the snapshot TriggerSnapshot waits for, 0 for none
    left        \* what is left of the budget

worker_vars == <<saved, worker, beat>>
monitor_vars == <<status, dead, found>>
trigger_vars == <<snapCount, mine>>
vars == <<pointer_vars, snapshot_vars, worker_vars, monitor_vars, trigger_vars, left>>

Unknown == [known |-> FALSE, alive |-> FALSE, recent |-> FALSE, step |-> 0, deadSince |-> FALSE,
            resume |-> 0]
NewStatus(s) == [Unknown EXCEPT !.known = TRUE, !.alive = TRUE, !.recent = TRUE, !.step = s]
Nothing == <<>>

Init ==
    /\ SnapshotInit
    /\ saved = [w \in Workers |-> {}]
    /\ worker = [w \in Workers |-> [does |-> "down", step |-> 0]]
    /\ beat = [w \in Workers |-> -1]
    /\ status = [w \in Workers |-> Unknown]
    /\ dead = {} /\ found = Nothing
    /\ snapCount = 0 /\ mine = 0
    /\ left \in Budgets

Spend(b) == left[b] > 0 /\ left' = [left EXCEPT ![b] = @ - 1]

-------------------------------------------------------------------------------
(* A worker *)

\* It trains up to the step of its next checkpoint.
Train(w) ==
    /\ worker[w].does = "train" /\ worker[w].step < Last
    /\ Spend("trainings")
    /\ worker' = [worker EXCEPT ![w].step = @ + 1, ![w].does = "save"]
    /\ UNCHANGED <<pointer_vars, snapshot_vars, saved, beat, monitor_vars, trigger_vars>>

DoesNext(w, l) == worker' = [worker EXCEPT ![w].does = l]

\* Mutated form: the pointer is written before the metadata.
SavePointerFirst(w) ==
    /\ \/ /\ worker[w].does = "save" /\ rewrite[w] = 0
          /\ rewrite' = [rewrite EXCEPT ![w] = worker[w].step]
          /\ DoesNext(w, "point")
          /\ UNCHANGED saved
       \/ /\ worker[w].does = "point"
          /\ saved' = [saved EXCEPT ![w] = @ \cup {worker[w].step}]
          /\ DoesNext(w, "train")
          /\ UNCHANGED rewrite
    /\ UNCHANGED <<latest, snapshot_vars, beat, monitor_vars, trigger_vars, left>>

\* SaveCheckpointMeta: the metadata are saved, and then the server begins to rewrite
\* the pointer; or a call fails and the training goes on, also when the server has
\* what it was sent.
SaveCheckpointMeta(w) ==
    /\ \/ /\ worker[w].does = "save"
          /\ saved' = [saved EXCEPT ![w] = @ \cup {worker[w].step}]
          /\ DoesNext(w, "point")
          /\ UNCHANGED rewrite
       \/ /\ worker[w].does = "point" /\ rewrite[w] = 0
          /\ rewrite' = [rewrite EXCEPT ![w] = worker[w].step]
          /\ DoesNext(w, "write")
          /\ UNCHANGED saved
       \/ /\ worker[w].does \in {"save", "point", "write"}
          /\ DoesNext(w, "train")
          /\ UNCHANGED <<rewrite, saved>>
    /\ UNCHANGED <<latest, snapshot_vars, beat, monitor_vars, trigger_vars, left>>

\* The apply of the server ends: the pointer has the step and the numbers it had.
PointerWritten(w) ==
    /\ rewrite[w] # 0
    /\ latest' = [latest EXCEPT ![w] = @ \cup {rewrite[w]}]
    /\ rewrite' = [rewrite EXCEPT ![w] = 0]
    /\ worker' = [worker EXCEPT ![w].does = IF @ = "write" THEN "train" ELSE @]
    /\ UNCHANGED <<snapshot_vars, saved, beat, monitor_vars, trigger_vars, left>>

SendHeartbeat(w) ==
    /\ worker[w].does # "down"
    /\ beat[w] = -1
    /\ Spend("beats")
    /\ beat' = [beat EXCEPT ![w] = worker[w].step]
    /\ UNCHANGED <<pointer_vars, snapshot_vars, saved, worker, monitor_vars, trigger_vars>>

Crash(w) ==
    /\ worker[w].does # "down"
    /\ Spend("crashes")
    /\ worker' = [worker EXCEPT ![w].does = "down", ![w].step = 0]
    /\ UNCHANGED <<pointer_vars, snapshot_vars, saved, beat, monitor_vars, trigger_vars>>

-------------------------------------------------------------------------------
(* RegisterWorker and Heartbeat *)

\* A worker known to be dead is told its resume step; any other is taken for new.
RegisterWorker(w) ==
    LET restarted == status[w].known /\ ~status[w].alive
        told == IF restarted THEN status[w].resume ELSE 0
    IN
    /\ worker[w].does = "down"
    /\ Spend("starts")
    /\ status' = [status EXCEPT ![w] =
                    IF restarted THEN [@ EXCEPT !.alive = TRUE, !.recent = TRUE,
                                                !.deadSince = FALSE]
                                 ELSE NewStatus(0)]
    /\ worker' = [worker EXCEPT ![w] = [does |-> "train", step |-> told]]
    /\ UNCHANGED <<pointer_vars, snapshot_vars, saved, beat, dead, found, trigger_vars>>

\* The worker is alive, whatever it was; DeadSince and ResumeStep stay.
Heartbeat(w) ==
    /\ beat[w] # -1
    /\ status' = [status EXCEPT ![w] =
                    IF @.known THEN [@ EXCEPT !.alive = TRUE, !.recent = TRUE, !.step = beat[w]]
                               ELSE NewStatus(beat[w])]
    /\ beat' = [beat EXCEPT ![w] = -1]
    /\ UNCHANGED <<pointer_vars, snapshot_vars, saved, worker, dead, found, trigger_vars, left>>

-------------------------------------------------------------------------------
(* MonitorWorkers *)

\* Fifteen seconds without a heartbeat: the worker is down, or it is slow.
Expire(w) ==
    /\ status[w].recent
    /\ \/ worker[w].does = "down" /\ UNCHANGED left
       \/ worker[w].does # "down" /\ Spend("early")
    /\ status' = [status EXCEPT ![w].recent = FALSE]
    /\ UNCHANGED <<pointer_vars, snapshot_vars, worker_vars, dead, found, trigger_vars>>

Silent(w) == status[w].alive /\ ~status[w].recent

\* checkDeadWorkers marks the silent ones under c.mu, and handles them one by one.
checkDeadWorkers ==
    /\ dead = {}
    /\ \E w \in Workers : Silent(w)
    /\ dead' = {w \in Workers : Silent(w)}
    /\ status' = [w \in Workers |-> IF Silent(w) THEN [status[w] EXCEPT !.alive = FALSE,
                                                                       !.deadSince = TRUE]
                                                 ELSE status[w]]
    /\ UNCHANGED <<pointer_vars, snapshot_vars, worker_vars, found, trigger_vars, left>>

\* Mutated form: a death whose checkpoint cannot be read is tried again for ever.
LoadUntilFound(w) ==
    /\ w \in dead
    /\ found = Nothing
    /\ \E s \in FirstNumbers(w) \cap saved[w] : found' = <<w, s>>
    /\ UNCHANGED <<pointer_vars, snapshot_vars, worker_vars, status, dead, trigger_vars, left>>

\* Mutated form: a checkpoint that cannot be read is taken for step 0.
LoadOrZero(w) ==
    /\ w \in dead
    /\ found = Nothing
    /\ \/ \E s \in FirstNumbers(w) \cap saved[w] : found' = <<w, s>>
       \/ found' = <<w, 0>>
    /\ UNCHANGED <<pointer_vars, snapshot_vars, worker_vars, status, dead, trigger_vars, left>>

\* LoadCheckpointMeta, without c.mu: the step a read of the pointer gives, if its metadata
\* are there; or it fails and the loop goes on with the next worker.
LoadCheckpointMeta(w) ==
    /\ w \in dead
    /\ found = Nothing
    /\ \/ /\ \E s \in FirstNumbers(w) \cap saved[w] : found' = <<w, s>>
          /\ UNCHANGED dead
       \/ /\ dead' = dead \ {w}
          /\ UNCHANGED found
    /\ UNCHANGED <<pointer_vars, snapshot_vars, worker_vars, status, trigger_vars, left>>

\* Under c.mu again: the worker may be alive by now, or a new one.
SetResumeStep ==
    /\ found # Nothing
    /\ LET w == found[1] IN
       /\ status' = [status EXCEPT ![w].resume = IF status[w].known THEN found[2] ELSE @]
       /\ dead' = dead \ {w}
    /\ found' = Nothing
    /\ UNCHANGED <<pointer_vars, snapshot_vars, worker_vars, trigger_vars, left>>

-------------------------------------------------------------------------------
(* TriggerSnapshot *)

\* One snapshot after the other (the ticker's two minutes are longer than a snapshot,
\* across a restart of the coordinator too), under an id counted from the start of
\* the process.
TriggerSnapshot ==
    /\ mine \notin Active
    /\ snapCount < MaxIds
    /\ Spend("snapshots")
    /\ snapCount' = snapCount + 1
    /\ mine' = Next0
    /\ Initiate(Next0, snapCount + 1)
    /\ UNCHANGED <<worker_vars, monitor_vars>>

\* The call fails: the primary does not answer, or is not the primary.
TriggerFails ==
    /\ mine \notin Active
    /\ snapCount < MaxIds
    /\ Spend("snapshots")
    /\ snapCount' = snapCount + 1
    /\ UNCHANGED <<pointer_vars, snapshot_vars, worker_vars, monitor_vars, mine>>

\* "The caller can be an admin tool, a test, or the primary itself on a timer."
OperatorSnapshot ==
    /\ Spend("snapshots")
    /\ Initiate(Next0, 0)
    /\ UNCHANGED <<worker_vars, monitor_vars, trigger_vars>>

\* A coordinator that starts again knows no workers and counts from the beginning;
\* requests to the one that crashed are lost.
Restart ==
    /\ Spend("restarts")
    /\ status' = [w \in Workers |-> Unknown]
    /\ dead' = {} /\ found' = Nothing
    /\ beat' = [w \in Workers |-> -1]
    /\ snapCount' = 0
    /\ UNCHANGED <<pointer_vars, snapshot_vars, saved, worker, mine>>

-------------------------------------------------------------------------------
Snapshotting ==
    /\ \/ \E n \in Snapshots : Run(n)
       \/ \E n \in Snapshots, b \in Backups : SendMarker(n, b) \/ MarkerEnds(n, b)
    /\ UNCHANGED <<worker_vars, monitor_vars, trigger_vars, left>>

Monitor(w) == Expire(w) \/ LoadCheckpointMeta(w)

Next ==
    \/ \E w \in Workers : \/ Train(w) \/ SaveCheckpointMeta(w) \/ PointerWritten(w)
                          \/ SendHeartbeat(w) \/ Crash(w)
                          \/ RegisterWorker(w) \/ Heartbeat(w) \/ Monitor(w)
    \/ checkDeadWorkers \/ SetResumeStep
    \/ TriggerSnapshot \/ TriggerFails \/ OperatorSnapshot
    \/ Restart
    \/ Snapshotting

Spec == Init /\ [][Next]_vars

\* The coordinator's loop goes on, calls of the file service end, and what was sent to
\* the coordinator arrives.  Nothing is assumed of workers.
Fairness ==
    /\ SnapshotFairness
    /\ \A w \in Workers : WF_vars(Heartbeat(w)) /\ WF_vars(Expire(w))
                          /\ WF_vars(LoadCheckpointMeta(w))
    /\ WF_vars(checkDeadWorkers) /\ WF_vars(SetResumeStep)

LiveSpec == Spec /\ Fairness

-------------------------------------------------------------------------------
(* Properties *)

TypeOK ==
    /\ SnapshotTypeOK
    /\ saved \in [Workers -> SUBSET Steps]
    /\ worker \in [Workers -> [does : {"down", "train", "save", "point", "write"},
                               step : 0 .. Last]]
    /\ beat \in [Workers -> -1 .. Last]
    /\ status \in [Workers -> [known : BOOLEAN, alive : BOOLEAN, recent : BOOLEAN,
                               step : 0 .. Last, deadSince : BOOLEAN, resume : 0 .. Last]]
    /\ dead \subseteq Workers
    /\ found = Nothing \/ found \in Workers \X Steps
    /\ snapCount \in 0 .. MaxIds
    /\ mine \in 0 .. MaxSnapshots
    /\ left \in [Bounded -> Nat]

\* The step a snapshot has recorded for a worker is one whose metadata are stored, or
\* none, however saves, failed calls and crashes interleave with its unlocked reads
\* (server_snapshots.go:286-299).  Of a pointer that was read while a Close rewrote it
\* (server_replication.go:365) the number may be any: such reads are excepted.
RecordedIsSaved ==
    \A i \in Ids : LET f == files[Primary][i] IN
        f # NoFile => \A w \in Workers \ scan[f.by].torn : f.steps[w] \in saved[w] \cup {0}

\* A worker that goes down for good ends up dead for the coordinator and stays so,
\* though late heartbeats revive it and its death may be handled more than once
\* ("If a worker misses 3 heartbeats it is declared dead", coordinator.go:7).
LostIsDead ==
    \A w \in Workers : <>[](worker[w].does = "down") => <>[](~status[w].alive)
===============================================================================
