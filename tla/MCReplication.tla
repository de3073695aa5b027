---------------------------- MODULE MCReplication ----------------------------
(* Small instances of Replication: one primary, two backups. *)
EXTENDS Replication, TLC

CONSTANTS p, b1, b2, a, b, h1, h2

Backups    == {b1, b2}
OneFile    == {a}
TwoFiles   == {a, b}
OneHandler == {h1}
TwoHandlers == {h1, h2}
Both       == {"Close", "Write"}
CloseOnly  == {"Close"}
PrimaryOnly == {p}
Everyone   == Servers
Nobody     == {}
FirstBackup == {b1}

Symmetric == Permutations(Backups) \cup Permutations(TwoHandlers)
===============================================================================
