---------------------------- MODULE MCCoordinator ----------------------------
(* Small instances of Coordinator: one worker, a primary and two backups. *)
EXTENDS Coordinator, TLC

CONSTANTS w1, w2, p, b1, b2

OneWorker == {w1}
TwoWorkers == {w1, w2}
Both      == {b1, b2}
Nobody    == {}

Budget(st, t, c, r, e, b, sn) ==
    [starts |-> st, trainings |-> t, crashes |-> c, restarts |-> r, early |-> e, beats |-> b,
     snapshots |-> sn]

\* A training with every disturbance of the coordinator and no snapshot, a snapshot of a
\* training whose worker may crash, and two across a restart of the coordinator.
Watching   == Budget(3, 2, 2, 1, 1, 2, 0)
Recording  == Budget(2, 2, 1, 0, 0, 0, 1)
Restarting == Budget(0, 0, 0, 1, 0, 0, 2)
EachBudget == {Watching, Recording, Restarting}
===============================================================================
