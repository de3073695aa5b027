------------------------------ MODULE Checkpoint ------------------------------
(***************************************************************************)
(* How a training worker saves and restores its model                      *)
(* (ml_worker/worker.go, server_handle.go) with the file operations.       *)
(*                                                                         *)
(* A checkpoint is a file per tensor, named after the hash of the tensor   *)
(* and shared by all workers, then the metadata of the checkpoint, then    *)
(* the pointer to the latest checkpoint of the worker.  An action is a     *)
(* call of the file service; Create is two, for other workers see the      *)
(* table between them.  A call that a crash interrupts ends before the     *)
(* worker is back.  The primary stays up (module Client restarts it)       *)
(* and serves one Close at a time (module Replication does not), and its  *)
(* descriptors do not run out (in module FileService they do).             *)
(***************************************************************************)
EXTENDS Integers, Sequences, FiniteSets

CONSTANTS
    Workers,
    Names,        \* names of tensors
    Contents,     \* bound: what a tensor can be trained to
    Dims,         \* the numbers in the text of the metadata
    Last,         \* bound: checkpoints of a training run (the code: 10)
    MaxCrashes,   \* bound: crashes of workers
    MaxFailures   \* bound: calls that fail

ASSUME CheckpointAssumption ==
    /\ Names # {} /\ Contents # {} /\ Dims \subseteq Nat
    /\ Last \in Nat \ {0} /\ MaxCrashes \in Nat /\ MaxFailures \in Nat

VARIABLES
    files,      \* the files at the primary, with their entries in the table
    backlog,    \* the log entries that were not committed
    pc,         \* what a worker is doing
    model,      \* its tensors
    step,       \* the checkpoint it works for
    todo,       \* tensors SaveTensors has not come to
    target,     \* the file it writes
    crashes, failures,
    committed   \* ghost: the checkpoints SaveCheckpoint reported, by worker

worker_vars == <<pc, model, step, todo, target>>
bounds == <<crashes, failures>>
vars == <<files, backlog, worker_vars, bounds, committed>>

-------------------------------------------------------------------------------
(* Files *)

Steps == 1 .. Last

\* Tensors with one name and one content have one hash.
TensorPath(n, x)    == <<"tensor", n, x>>
MetaPath(w, s)      == <<"meta", w, s>>
LatestMetaPath(w)   == <<"latest", w, 0>>

TensorFiles == {TensorPath(n, x) : n \in Names, x \in Contents}
Files == TensorFiles \cup {MetaPath(w, s) : w \in Workers, s \in Steps}
                     \cup {LatestMetaPath(w) : w \in Workers}

\* The numbers in a text, and whether there is more in it than numbers.
Texts == [numbers : SUBSET (Steps \cup Dims), more : BOOLEAN]
Empty == [numbers |-> {}, more |-> FALSE]

\* What the worker writes to the file: raw bytes, JSON or a number.
DataOf(f) == [numbers |-> IF f[1] = "meta" THEN Dims
                          ELSE IF f[1] = "latest" THEN {step[f[2]]} ELSE {},
              more |-> f[1] # "latest"]

\* What Close keeps of it: the numbers, with those the file had.
Kept(f, d) == [numbers |-> files[f].primes \cup d.numbers, more |-> FALSE]

NoFile == [known |-> FALSE, version |-> 0, exists |-> FALSE, written |-> FALSE,
           data |-> Empty, primes |-> {}]

Stored(f) == files[f].known /\ files[f].version > 0

-------------------------------------------------------------------------------
Init ==
    /\ files = [f \in Files |-> NoFile]
    /\ backlog = <<>>
    /\ pc = [w \in Workers |-> "restore"]
    /\ model = [w \in Workers |-> CHOOSE m \in [Names -> Contents] : TRUE]
    /\ step = [w \in Workers |-> 0]
    /\ todo = [w \in Workers |-> {}]
    /\ target = [w \in Workers |-> LatestMetaPath(w)]
    /\ crashes = 0 /\ failures = 0
    /\ committed = [w \in Workers |-> {}]

Goto(w, l) == pc' = [pc EXCEPT ![w] = l]

\* SaveCheckpoint returns, or the worker is gone.
Leave(w, l) ==
    /\ Goto(w, l)
    /\ todo' = [todo EXCEPT ![w] = {}]
    /\ target' = [target EXCEPT ![w] = LatestMetaPath(w)]

\* The tensor the target of w stands for is done with.
TensorDone(w) ==
    /\ todo' = [todo EXCEPT ![w] = @ \ {target[w][2]}]
    /\ Goto(w, "tensors")

\* Mutated form: one checkpoint more than the training has.
DueTooOften(w) == step[w] <= Last
Due(w) == step[w] < Last

\* CheckpointInterval steps of training later the next checkpoint is due; each
\* tensor has been changed or not.
Train(w) ==
    /\ pc[w] = "train"
    /\ Due(w)
    /\ step' = [step EXCEPT ![w] = @ + 1]
    /\ \E m \in [Names -> Contents] : model' = [model EXCEPT ![w] = m]
    /\ todo' = [todo EXCEPT ![w] = Names]
    /\ Goto(w, "tensors")
    /\ UNCHANGED <<files, backlog, target, bounds, committed>>

Complete(w) ==
    /\ pc[w] = "train"
    /\ ~Due(w)
    /\ Goto(w, "complete")
    /\ UNCHANGED <<files, backlog, model, step, todo, target, bounds, committed>>

-------------------------------------------------------------------------------
(* SaveTensors *)

\* TestAuth knows a version of the tensor's file: it counts as stored.
Deduplicate(w) ==
    /\ pc[w] = "tensors"
    /\ \E n \in todo[w] :
        /\ Stored(TensorPath(n, model[w][n]))
        /\ todo' = [todo EXCEPT ![w] = @ \ {n}]
    /\ UNCHANGED <<files, backlog, pc, model, step, target, bounds, committed>>

NewTensor(w) ==
    /\ pc[w] = "tensors"
    /\ \E n \in todo[w] :
        /\ ~Stored(TensorPath(n, model[w][n]))
        /\ target' = [target EXCEPT ![w] = TensorPath(n, model[w][n])]
    /\ Goto(w, "create")
    /\ UNCHANGED <<files, backlog, model, step, todo, bounds, committed>>

-------------------------------------------------------------------------------
(* SaveCheckpointMeta *)

\* Mutated form: the pointer is written before the metadata.
PointerFirst(w) == <<LatestMetaPath(w), MetaPath(w, step[w])>>
\* The files that are written once the tensors are, in order.
MetaFiles(w) == <<MetaPath(w, step[w]), LatestMetaPath(w)>>

SaveMeta(w) ==
    /\ pc[w] = "tensors"
    /\ todo[w] = {}
    /\ target' = [target EXCEPT ![w] = MetaFiles(w)[1]]
    /\ Goto(w, "create")
    /\ UNCHANGED <<files, backlog, model, step, todo, bounds, committed>>

\* After a Close: another tensor, the other file of SaveCheckpointMeta, or the
\* checkpoint is complete.
Continue(w) ==
    \/ /\ target[w] \in TensorFiles
       /\ TensorDone(w)
       /\ UNCHANGED <<target, committed>>
    \/ /\ target[w] = MetaFiles(w)[1]
       /\ target' = [target EXCEPT ![w] = MetaFiles(w)[2]]
       /\ Goto(w, "create")
       /\ UNCHANGED <<todo, committed>>
    \/ /\ target[w] = MetaFiles(w)[2]
       /\ committed' = [committed EXCEPT ![w] = @ \cup {step[w]}]
       /\ Leave(w, "train")

-------------------------------------------------------------------------------
(* The calls for one file: Create, Open, Close *)

\* Create looks the file up in the table first; a new entry has version 1.
LookUp(w) ==
    LET f == target[w] IN
    /\ pc[w] = "create"
    /\ files' = [files EXCEPT ![f] = IF @.known THEN @
                                     ELSE [@ EXCEPT !.known = TRUE, !.version = 1]]
    /\ Goto(w, "make")
    /\ UNCHANGED <<backlog, model, step, todo, target, bounds, committed>>

\* Mutated form: Create empties a file that exists.
CreateTruncates(w) ==
    LET f == target[w] IN
    /\ pc[w] = "make"
    /\ files' = [files EXCEPT ![f].exists = TRUE, ![f].version = 0, ![f].data = Empty]
    /\ Goto(w, "open")
    /\ UNCHANGED <<backlog, model, step, todo, target, bounds, committed>>

\* Mutated form: a tensor file that exists is written again.
Rewritten(f) == FALSE
\* A file that exists: the tensor is stored, by another worker in a race.
Shared(f) == f \in TensorFiles

\* Then it makes the file, of version 0, if there is none.
Create(w) ==
    LET f == target[w] IN
    /\ pc[w] = "make"
    /\ \/ /\ ~files[f].exists
          /\ files' = [files EXCEPT ![f].exists = TRUE, ![f].version = 0,
                                    ![f].data = Empty]
          /\ Goto(w, "open")
          /\ UNCHANGED todo
       \/ /\ files[f].exists /\ Shared(f)
          /\ TensorDone(w)
          /\ UNCHANGED files
       \/ /\ files[f].exists /\ ~Shared(f)
          /\ Goto(w, "open")
          /\ UNCHANGED <<files, todo>>
    /\ UNCHANGED <<backlog, model, step, target, bounds, committed>>

\* Open for writing, and WriteFile, which changes the local copy.
Open(w) ==
    /\ pc[w] = "open"
    /\ Goto(w, "close")
    /\ UNCHANGED <<files, backlog, model, step, todo, target, bounds, committed>>

\* Every file after the entries of the log were applied in order.
Applied(entries) ==
    [f \in Files |->
        LET P == {i \in DOMAIN entries : entries[i].file = f}
        IN  IF P = {} THEN files[f]
            ELSE [files[f] EXCEPT !.exists = TRUE, !.written = TRUE,
                                  !.data = entries[CHOOSE i \in P : \A j \in P : j <= i].data]]

Entry(w) == [file |-> target[w], data |-> Kept(target[w], DataOf(target[w]))]

\* The entry is committed and so is what the log holds before it.
Commit(w) ==
    /\ files' = [Applied(Append(backlog, Entry(w)))
                    EXCEPT ![target[w]].version = @ + 1,
                           ![target[w]].primes = Entry(w).data.numbers]
    /\ backlog' = <<>>

Close(w) ==
    /\ pc[w] = "close"
    /\ Commit(w)
    /\ Continue(w)
    /\ UNCHANGED <<model, step, bounds>>

-------------------------------------------------------------------------------
(* Failures *)

\* A call that the worker gets no good answer to has done nothing (a Create may have
\* got as far as the table); a Close may also have logged its entry without finding a
\* majority, or have saved the file when its answer was lost.
Interrupted(w) ==
    \/ UNCHANGED <<files, backlog>>
    \/ pc[w] = "close" /\ backlog' = Append(backlog, Entry(w)) /\ UNCHANGED files
    \/ pc[w] = "close" /\ Commit(w)

\* A call that fails ends the checkpoint; the training goes on.
Fail(w) ==
    /\ pc[w] \in {"create", "make", "open", "close"}
    /\ failures < MaxFailures
    /\ failures' = failures + 1
    /\ Interrupted(w)
    /\ Leave(w, "train")
    /\ UNCHANGED <<model, step, crashes, committed>>

\* The worker crashes; the service carries on with the call that is under way.
Crash(w) ==
    /\ pc[w] \notin {"restore", "make"}
    /\ crashes < MaxCrashes
    /\ crashes' = crashes + 1
    /\ Interrupted(w)
    /\ Leave(w, "restore")
    /\ step' = [step EXCEPT ![w] = 0]
    /\ UNCHANGED <<model, failures, committed>>

\* RestoreCheckpoint: the first number of the pointer names a step (the numbers of
\* a file are in no order), its metadata must parse, and the tensors it names must
\* be there.
Restorable(w, s) ==
    /\ files[LatestMetaPath(w)].exists
    /\ s \in files[LatestMetaPath(w)].data.numbers
    /\ files[MetaPath(w, s)].exists /\ files[MetaPath(w, s)].data.more

\* Without a checkpoint the training starts from scratch; Train says what becomes
\* of the model.
Restore(w) ==
    /\ pc[w] = "restore"
    /\ LET S == {s \in Steps : Restorable(w, s)}
       IN  \E s \in IF S = {} THEN {0} ELSE S :
              /\ step' = [step EXCEPT ![w] = s]
              /\ Goto(w, "train")
    /\ UNCHANGED <<files, backlog, model, todo, target, bounds, committed>>

Save(w) == \/ Train(w) \/ Complete(w) \/ Deduplicate(w) \/ NewTensor(w) \/ SaveMeta(w)
           \/ LookUp(w) \/ Create(w) \/ Open(w) \/ Close(w) \/ Restore(w)

Next == \E w \in Workers : Save(w) \/ Fail(w) \/ Crash(w)

Spec == Init /\ [][Next]_vars

\* A worker goes on, and one that crashed is started again.
LiveSpec == Spec /\ \A w \in Workers : WF_vars(Save(w))

-------------------------------------------------------------------------------
(* Properties *)

TypeOK ==
    /\ files \in [Files -> [known : BOOLEAN, version : Nat, exists : BOOLEAN,
                            written : BOOLEAN, data : Texts, primes : SUBSET (Steps \cup Dims)]]
    /\ \A i \in DOMAIN backlog : backlog[i] \in [file : Files, data : Texts]
    /\ pc \in [Workers -> {"restore", "train", "tensors", "create", "make", "open",
                           "close", "complete"}]
    /\ model \in [Workers -> [Names -> Contents]]
    /\ step \in [Workers -> 0 .. Last]
    /\ todo \in [Workers -> SUBSET Names]
    /\ target \in [Workers -> Files]
    /\ crashes \in 0 .. MaxCrashes /\ failures \in 0 .. MaxFailures
    /\ committed \in [Workers -> SUBSET Steps]

\* The pointer of a worker, in its file and in every entry that may yet be applied,
\* names checkpoints whose metadata were closed, wherever a worker crashes and
\* whichever call fails ("the final commit operation", server_handle.go:99).
PointerNamesMeta ==
    \A w \in Workers :
        LET f == LatestMetaPath(w)
            named == files[f].data.numbers
                       \cup UNION {backlog[i].data.numbers :
                                     i \in {j \in DOMAIN backlog : backlog[j].file = f}}
        IN  \A s \in named : files[MetaPath(w, s)].exists /\ Stored(MetaPath(w, s))

\* Once a checkpoint of a worker was reported there is a pointer, and it names a
\* checkpoint whose metadata are saved: a later checkpoint that fails or is interrupted
\* between the Create and the Close of the pointer leaves something to resume from
\* ("the final commit operation", server_handle.go:99).
ReportedHasPointer ==
    \A w \in Workers : committed[w] # {} =>
        /\ files[LatestMetaPath(w)].exists
        /\ \E s \in Steps : /\ s \in files[LatestMetaPath(w)].data.numbers
                            /\ files[MetaPath(w, s)].exists /\ Stored(MetaPath(w, s))

\* The service stores a tensor at most once, whoever races for it ("only new
\* (non-duplicate) tensors are written", server_handle.go:48).
StoredOnce == \A f \in TensorFiles : files[f].exists => files[f].version <= 1

\* A checkpoint reported as saved has its tensors written: what SaveTensors takes
\* for a duplicate was written ("AlreadyExists is fine - race between workers,
\* tensor is stored", server_handle.go:73).
DedupedIsStored ==
    [][\A w \in Workers : committed'[w] # committed[w] =>
          \A n \in Names : files'[TensorPath(n, model[w][n])].written]_vars

\* A worker that starts again resumes from its latest checkpoint (README.md:61
\* "resumes from step 300 (last checkpoint)").
ResumesFromLatest ==
    [][\A w \in Workers : pc[w] = "restore" /\ pc'[w] # "restore" /\ committed[w] # {} =>
          step'[w] = CHOOSE s \in committed[w] : \A r \in committed[w] : r <= s]_vars
===============================================================================
