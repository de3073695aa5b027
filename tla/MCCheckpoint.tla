----------------------------- MODULE MCCheckpoint -----------------------------
(* Small instances of Checkpoint. *)
EXTENDS Checkpoint, TLC

CONSTANTS w1, w2, bias, weight, x, y

OneWorker  == {w1}
TwoWorkers == {w1, w2}
OneName    == {bias}
TwoNames   == {bias, weight}
TwoContents == {x, y}

\* The last numbers of the shapes in a metadata file; no step has them.
SomeDims == {64}

Symmetric == Permutations(TwoWorkers)
===============================================================================
