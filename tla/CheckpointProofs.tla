--------------------------- MODULE CheckpointProofs ---------------------------
(***************************************************************************)
(* That the pointer of a worker names saved checkpoints only and stays     *)
(* once one was reported, and that a tensor is stored once, for any number *)
(* of workers, tensors, checkpoints, crashes and failed calls.             *)
(***************************************************************************)
EXTENDS Checkpoint, NumberLemmas, SequenceTheorems, TLAPS

-------------------------------------------------------------------------------
(* The inductive invariant *)

Numbers   == Steps \cup Dims
FileType  == [known : BOOLEAN, version : Nat, exists : BOOLEAN,
              written : BOOLEAN, data : Texts, primes : SUBSET Numbers]
EntryType == [file : Files, data : Texts]

Writing == {"create", "make", "open", "close"}
\* Its file is there, and stays.
Holding == {"open", "close"}

\* A worker that saves works for a checkpoint, and writes a tensor or a file of its own.
WritesItsOwn(w) ==
    /\ pc[w] \in Writing \cup {"tensors"} => step[w] \in Steps
    /\ pc[w] \in Writing =>
          target[w] \in TensorFiles \cup {MetaPath(w, step[w]), LatestMetaPath(w)}

TypeInv ==
    /\ TypeOK
    /\ backlog \in Seq(EntryType)
    /\ \A w \in Workers : WritesItsOwn(w)

\* What a call has made for the next one is still there: no step takes an entry
\* out of the table or a file off the disk.
FilesStay ==
    /\ \A f \in Files : files[f].exists => files[f].known
    /\ \A f \in Files : ~files[f].exists => files[f].primes = {}
    /\ \A w \in Workers : pc[w] \in Writing \ {"create"} => files[target[w]].known
    /\ \A w \in Workers : pc[w] \in Holding => files[target[w]].exists
    /\ \A i \in 1 .. Len(backlog) : files[backlog[i].file].exists

MetaSaved(w, s) ==
    /\ s \in Steps
    /\ files[MetaPath(w, s)].exists /\ Stored(MetaPath(w, s))

\* A number that is, was or may yet be in a pointer has its metadata: Close adds the
\* numbers the file had (primes) to those it is sent, whichever Close was last.
PointerInv ==
    \A w \in Workers :
        /\ \A s \in files[LatestMetaPath(w)].data.numbers : MetaSaved(w, s)
        /\ \A s \in files[LatestMetaPath(w)].primes : MetaSaved(w, s)
        /\ \A i \in 1 .. Len(backlog) : backlog[i].file = LatestMetaPath(w) =>
              \A s \in backlog[i].data.numbers : MetaSaved(w, s)
        /\ pc[w] \in Writing /\ target[w] = LatestMetaPath(w) => MetaSaved(w, step[w])

\* What was reported is in everything a later Close could leave in the pointer.
ReportedInv ==
    \A w \in Workers :
        /\ committed[w] \subseteq files[LatestMetaPath(w)].data.numbers
        /\ committed[w] \subseteq files[LatestMetaPath(w)].primes
        /\ \A i \in 1 .. Len(backlog) : backlog[i].file = LatestMetaPath(w) =>
              committed[w] \subseteq backlog[i].data.numbers

\* Whoever has made the file of a tensor is alone with it.
TensorInv ==
    /\ StoredOnce
    /\ \A w \in Workers : pc[w] \in Holding /\ target[w] \in TensorFiles =>
          /\ files[target[w]].version = 0
          /\ \A v \in Workers \ {w} : pc[v] \in Holding => target[v] # target[w]

-------------------------------------------------------------------------------
(* Paths and texts *)

\* The three kinds of files differ, and a worker has a pointer and metadata of its own.
LEMMA Paths ==
    /\ TensorFiles \subseteq Files
    /\ \A w \in Workers : LatestMetaPath(w) \in Files /\ LatestMetaPath(w) \notin TensorFiles
    /\ \A w \in Workers, s \in Steps : MetaPath(w, s) \in Files /\ MetaPath(w, s) \notin TensorFiles
    /\ \A v, w \in Workers, s \in Steps : MetaPath(w, s) # LatestMetaPath(v)
    /\ \A v, w \in Workers : LatestMetaPath(w) = LatestMetaPath(v) => w = v
<1>1. TensorFiles \subseteq Files
  BY DEF Files
<1>2. \A w \in Workers : LatestMetaPath(w) \in Files /\ LatestMetaPath(w) \notin TensorFiles
  BY DEF Files, TensorFiles, TensorPath, LatestMetaPath
<1>3. \A w \in Workers, s \in Steps : MetaPath(w, s) \in Files /\ MetaPath(w, s) \notin TensorFiles
  BY DEF Files, TensorFiles, TensorPath, MetaPath
<1>4. \A v, w \in Workers, s \in Steps : MetaPath(w, s) # LatestMetaPath(v)
  BY DEF MetaPath, LatestMetaPath
<1>5. \A v, w \in Workers : LatestMetaPath(w) = LatestMetaPath(v) => w = v
  BY DEF LatestMetaPath
<1> QED
  BY <1>1, <1>2, <1>3, <1>4, <1>5

\* What a worker sends is a text; to a pointer it sends the step it works for.
LEMMA Sent ==
    ASSUME TypeInv, NEW w \in Workers, pc[w] \in Writing
    PROVE  /\ Entry(w) \in EntryType
           /\ Entry(w).file = target[w]
           /\ files[target[w]].primes \subseteq Entry(w).data.numbers
           /\ target[w] = LatestMetaPath(w) =>
                 Entry(w).data.numbers = files[target[w]].primes \cup {step[w]}
<1> DEFINE f == target[w]
<1>1. f \in Files /\ files[f].primes \subseteq Numbers
  BY DEF TypeInv, TypeOK, Numbers
<1>2. DataOf(f).numbers \subseteq Numbers
  <2>1. CASE f \in TensorFiles
    BY <2>1 DEF TensorFiles, TensorPath, DataOf
  <2>2. CASE f = MetaPath(w, step[w])
    BY <2>2 DEF MetaPath, DataOf, Numbers
  <2>3. CASE f = LatestMetaPath(w)
    BY <2>3 DEF LatestMetaPath, DataOf, Numbers, TypeInv, WritesItsOwn, Writing
  <2> QED
    BY <2>1, <2>2, <2>3 DEF TypeInv, WritesItsOwn
<1>3. f = LatestMetaPath(w) => DataOf(f).numbers = {step[w]}
  BY DEF LatestMetaPath, DataOf
<1>4. Kept(f, DataOf(f)) \in Texts
  BY <1>1, <1>2 DEF Kept, Texts, Numbers
<1>5. Kept(f, DataOf(f)).numbers = files[f].primes \cup DataOf(f).numbers
  BY DEF Kept
<1> HIDE DEF f
<1>6. Entry(w) = [file |-> f, data |-> Kept(f, DataOf(f))]
  BY DEF Entry, f
<1> QED
  BY <1>1, <1>3, <1>4, <1>5, <1>6 DEF EntryType, f

\* The file f with the contents x, as an entry of the log leaves it.
Replaced(f, x) == [files[f] EXCEPT !.exists = TRUE, !.written = TRUE, !.data = x]

LEMMA ReplacedFile ==
    ASSUME NEW f \in Files, files[f] \in FileType, NEW x \in Texts
    PROVE  /\ Replaced(f, x) \in FileType
           /\ Replaced(f, x).known = files[f].known
           /\ Replaced(f, x).version = files[f].version
           /\ Replaced(f, x).primes = files[f].primes
           /\ Replaced(f, x).exists /\ Replaced(f, x).data = x
  BY DEF Replaced, FileType

\* After a replay a file is as the last entry of the log for it says.
LEMMA Replayed ==
    ASSUME NEW entries \in Seq(EntryType), NEW f \in Files
    PROVE  \/ /\ \A i \in 1 .. Len(entries) : entries[i].file # f
              /\ Applied(entries)[f] = files[f]
           \/ \E i \in 1 .. Len(entries) :
                 /\ entries[i].file = f
                 /\ \A j \in 1 .. Len(entries) : entries[j].file = f => j <= i
                 /\ Applied(entries)[f] = Replaced(f, entries[i].data)
<1> DEFINE P == {i \in DOMAIN entries : entries[i].file = f}
           k == CHOOSE i \in P : \A j \in P : j <= i
<1>1. DOMAIN entries = 1 .. Len(entries) /\ Len(entries) \in Nat
  OBVIOUS
<1>2. Applied(entries)[f] = IF P = {} THEN files[f]
                            ELSE Replaced(f, entries[k].data)
  BY DEF Applied, Replaced
<1>3. CASE P = {}
  BY <1>1, <1>2, <1>3
<1>4. CASE P # {}
  <2>1. P \subseteq Nat /\ \A i \in P : i <= Len(entries)
    BY <1>1
  <2>2. \E i \in P : \A j \in P : j <= i
    BY <1>1, <1>4, <2>1, GreatestNat
  <2>3. k \in P /\ \A j \in P : j <= k
    BY <2>2
  <2> QED
    BY <1>1, <1>2, <1>4, <2>3
<1> QED
  BY <1>3, <1>4

-------------------------------------------------------------------------------
(* Closing a file *)

\* Close leaves in its file the numbers the file had and those it was sent; in others
\* it leaves what they had or what an earlier Close without majority was sent.
Commits(w) == pc[w] = "close" /\ Commit(w)

LEMMA Closed ==
    ASSUME TypeInv, NEW w \in Workers, Commits(w)
    PROVE  /\ files' \in [Files -> FileType]
           /\ \A f \in Files :
                 /\ files'[f].known = files[f].known
                 /\ files[f].exists => files'[f].exists
                 /\ f # target[w] =>
                       /\ files'[f].version = files[f].version
                       /\ files'[f].primes = files[f].primes
                       /\ \/ /\ files'[f].data = files[f].data
                             /\ files'[f].exists = files[f].exists
                          \/ \E i \in 1 .. Len(backlog) :
                                backlog[i].file = f /\ files'[f].data = backlog[i].data
                 /\ f = target[w] =>
                       /\ files'[f].exists
                       /\ files'[f].version = files[f].version + 1
                       /\ files'[f].primes = Entry(w).data.numbers
                       /\ files'[f].data = Entry(w).data
<1> DEFINE t == target[w]
           d == Entry(w).data
           es == Append(backlog, Entry(w))
<1>1. Entry(w) \in EntryType /\ Entry(w).file = t /\ d \in Texts
  BY Sent DEF Commits, Writing, EntryType
<1>2. es \in Seq(EntryType) /\ Len(es) = Len(backlog) + 1 /\ Len(backlog) \in Nat
  BY <1>1 DEF TypeInv
<1>3. /\ es[Len(backlog) + 1] = Entry(w)
      /\ \A i \in 1 .. Len(backlog) : es[i] = backlog[i]
  BY <1>1 DEF TypeInv
<1>4. files' = [Applied(es) EXCEPT ![t].version = @ + 1, ![t].primes = d.numbers]
  BY DEF Commits, Commit
<1>5. files \in [Files -> FileType] /\ t \in Files
  BY DEF TypeInv, TypeOK, FileType, Numbers
<1> HIDE DEF es, d, t
<1>6. DOMAIN Applied(es) = Files
  BY DEF Applied
<1>7. ASSUME NEW f \in Files
      PROVE  \/ f # t /\ Applied(es)[f] = files[f]
             \/ \E e \in EntryType :
                   /\ \/ f = t /\ e.data = d
                      \/ f # t /\ \E i \in 1 .. Len(backlog) : backlog[i].file = f /\ e = backlog[i]
                   /\ Applied(es)[f] = Replaced(f, e.data)
  <2>1. CASE \A i \in 1 .. Len(es) : es[i].file # f
    <3>1. Applied(es)[f] = files[f]
      BY <1>2, <2>1, Replayed
    <3>2. f # t
      BY <1>1, <1>2, <1>3, <2>1
    <3> QED
      BY <3>1, <3>2
  <2>2. ASSUME NEW i \in 1 .. Len(es), es[i].file = f,
               \A j \in 1 .. Len(es) : es[j].file = f => j <= i,
               Applied(es)[f] = Replaced(f, es[i].data)
        PROVE  \E e \in EntryType :
                   /\ \/ f = t /\ e.data = d
                      \/ f # t /\ \E j \in 1 .. Len(backlog) : backlog[j].file = f /\ e = backlog[j]
                   /\ Applied(es)[f] = Replaced(f, e.data)
    <3>1. es[i] \in EntryType
      BY <1>2
    <3>2. CASE f = t
      <4>1. i = Len(backlog) + 1
        BY <1>1, <1>2, <1>3, <2>2, <3>2
      <4> QED
        BY <1>3, <2>2, <3>1, <3>2, <4>1 DEF d
    <3>3. CASE f # t
      <4>1. i \in 1 .. Len(backlog)
        BY <1>1, <1>2, <1>3, <2>2, <3>3
      <4> QED
        BY <1>3, <2>2, <3>1, <3>3, <4>1
    <3> QED
      BY <3>2, <3>3
  <2> QED
    BY <1>2, <2>1, <2>2, Replayed
<1>8. ASSUME NEW f \in Files
      PROVE  Applied(es)[f] \in FileType
  BY <1>5, <1>7, ReplacedFile DEF EntryType
<1>9. Applied(es) \in [Files -> FileType]
  BY <1>6, <1>8 DEF Applied
<1>10. d.numbers \in SUBSET Numbers
  BY <1>1 DEF Texts, Numbers
<1>11. /\ \A f \in Files \ {t} : files'[f] = Applied(es)[f]
       /\ files'[t] = [Applied(es)[t] EXCEPT !.version = @ + 1, !.primes = d.numbers]
  BY <1>4, <1>5, <1>9
<1>12. files' \in [Files -> FileType]
  <2>1. [Applied(es)[t] EXCEPT !.version = @ + 1, !.primes = d.numbers] \in FileType
    <3>1. \A r \in FileType : [r EXCEPT !.version = @ + 1] \in FileType
      BY DEF FileType
    <3>2. \A r \in FileType, n \in SUBSET Numbers : [r EXCEPT !.primes = n] \in FileType
      BY DEF FileType
    <3> QED
      BY <1>5, <1>8, <1>10, <3>1, <3>2
  <2> QED
    BY <1>4, <1>5, <1>9, <2>1
<1>13. ASSUME NEW f \in Files, f # t
       PROVE  /\ files'[f].known = files[f].known
              /\ files[f].exists => files'[f].exists
              /\ files'[f].version = files[f].version
              /\ files'[f].primes = files[f].primes
              /\ \/ /\ files'[f].data = files[f].data
                    /\ files'[f].exists = files[f].exists
                 \/ \E i \in 1 .. Len(backlog) :
                       backlog[i].file = f /\ files'[f].data = backlog[i].data
  <2>1. files'[f] = Applied(es)[f] /\ files[f] \in FileType
    BY <1>5, <1>11, <1>13
  <2>2. CASE Applied(es)[f] = files[f]
    BY <2>1, <2>2
  <2>3. ASSUME NEW i \in 1 .. Len(backlog), backlog[i].file = f, backlog[i] \in EntryType,
               Applied(es)[f] = Replaced(f, backlog[i].data)
        PROVE  /\ files'[f].known = files[f].known
               /\ files'[f].exists
               /\ files'[f].version = files[f].version
               /\ files'[f].primes = files[f].primes
               /\ files'[f].data = backlog[i].data
    BY <2>1, <2>3, ReplacedFile DEF EntryType
  <2> QED
    BY <1>7, <1>13, <2>2, <2>3
<1>14. /\ files'[t].known = files[t].known
       /\ files'[t].exists
       /\ files'[t].version = files[t].version + 1
       /\ files'[t].primes = d.numbers
       /\ files'[t].data = d
  <2>1. Applied(es)[t] = Replaced(t, d) /\ files[t] \in FileType
    BY <1>5, <1>7
  <2>2. /\ Applied(es)[t] \in FileType
        /\ Applied(es)[t].known = files[t].known
        /\ Applied(es)[t].version = files[t].version
        /\ Applied(es)[t].exists /\ Applied(es)[t].data = d
    BY <1>1, <1>5, <2>1, ReplacedFile
  <2> QED
    BY <1>11, <2>2 DEF FileType
<1> QED
  BY <1>12, <1>13, <1>14 DEF d, t
-------------------------------------------------------------------------------
(* Steps of a worker *)

WorkerStep(w) == Save(w) \/ Fail(w) \/ Crash(w)

PcTypes == {"restore", "train", "tensors", "create", "make", "open", "close", "complete"}

\* A step of a worker is a step of nobody else's.
LEMMA OthersStay ==
    ASSUME TypeInv, NEW w \in Workers, WorkerStep(w), NEW v \in Workers \ {w}
    PROVE  /\ pc'[v] = pc[v] /\ step'[v] = step[v] /\ target'[v] = target[v]
           /\ committed'[v] = committed[v]
<1> USE DEF TypeInv, TypeOK, Goto
<1>1. CASE Train(w) \/ Complete(w) \/ Deduplicate(w) \/ NewTensor(w) \/ SaveMeta(w)
  BY <1>1 DEF Train, Complete, Deduplicate, NewTensor, SaveMeta
<1>2. CASE LookUp(w) \/ Create(w) \/ Open(w) \/ Restore(w)
  BY <1>2 DEF LookUp, Create, Open, Restore, TensorDone
<1>3. CASE Close(w)
  BY <1>3 DEF Close, Continue, TensorDone, Leave
<1>4. CASE Fail(w) \/ Crash(w)
  BY <1>4 DEF Fail, Crash, Leave
<1> QED
  BY <1>1, <1>2, <1>3, <1>4 DEF WorkerStep, Save

\* Where a worker goes on after a Close, and what it has reported by then.
LEMMA Continued ==
    ASSUME TypeInv, NEW w \in Workers, Close(w)
    PROVE  /\ pc' \in [Workers -> PcTypes] /\ target' \in [Workers -> Files]
           /\ todo' \in [Workers -> SUBSET Names] /\ committed' \in [Workers -> SUBSET Steps]
           /\ step' = step /\ step[w] \in Steps
           /\ \/ /\ target[w] \in TensorFiles
                 /\ pc'[w] = "tensors" /\ committed'[w] = committed[w]
              \/ /\ target[w] = MetaPath(w, step[w])
                 /\ pc'[w] = "create" /\ target'[w] = LatestMetaPath(w)
                 /\ committed'[w] = committed[w]
              \/ /\ target[w] = LatestMetaPath(w)
                 /\ pc'[w] = "train" /\ target'[w] = LatestMetaPath(w)
                 /\ committed'[w] = committed[w] \cup {step[w]}
<1>1. /\ pc \in [Workers -> PcTypes] /\ target \in [Workers -> Files]
      /\ todo \in [Workers -> SUBSET Names] /\ committed \in [Workers -> SUBSET Steps]
  BY DEF TypeInv, TypeOK, PcTypes
<1>2. step' = step /\ step[w] \in Steps
  BY DEF Close, TypeInv, WritesItsOwn, Writing
<1>3. LatestMetaPath(w) \in Files
  BY Paths
<1>4. CASE target[w] \in TensorFiles /\ TensorDone(w) /\ UNCHANGED <<target, committed>>
  BY <1>1, <1>2, <1>4 DEF TensorDone, Goto, PcTypes
<1>5. CASE /\ target[w] = MetaFiles(w)[1]
           /\ target' = [target EXCEPT ![w] = MetaFiles(w)[2]]
           /\ Goto(w, "create")
           /\ UNCHANGED <<todo, committed>>
  BY <1>1, <1>2, <1>3, <1>5 DEF MetaFiles, Goto, PcTypes
<1>6. CASE /\ target[w] = MetaFiles(w)[2]
           /\ committed' = [committed EXCEPT ![w] = @ \cup {step[w]}]
           /\ Leave(w, "train")
  BY <1>1, <1>2, <1>3, <1>6 DEF MetaFiles, Leave, Goto, PcTypes
<1> QED
  BY <1>4, <1>5, <1>6 DEF Close, Continue

\* The steps that leave the files, the log and what was reported as they are.
Quiet(w) == \/ Train(w) \/ Complete(w) \/ Deduplicate(w) \/ NewTensor(w) \/ SaveMeta(w)
            \/ Open(w) \/ Restore(w)

LEMMA QuietSteps ==
    ASSUME TypeInv, NEW w \in Workers, Quiet(w)
    PROVE  /\ UNCHANGED <<files, backlog, committed>>
           /\ \/ pc'[w] \notin Writing
              \/ pc'[w] = "create" /\ target'[w] # LatestMetaPath(w)
              \/ /\ pc[w] = "open" /\ pc'[w] = "close"
                 /\ target'[w] = target[w] /\ step'[w] = step[w]
<1>1. UNCHANGED <<files, backlog, committed>>
  BY DEF Quiet, Train, Complete, Deduplicate, NewTensor, SaveMeta, Open, Restore
<1>2. pc \in [Workers -> PcTypes] /\ target \in [Workers -> Files]
  BY DEF TypeInv, TypeOK, PcTypes
<1>3. CASE Train(w) \/ Complete(w) \/ Deduplicate(w) \/ Restore(w)
  BY <1>1, <1>2, <1>3 DEF Train, Complete, Deduplicate, Restore, Goto, Writing
<1>4. CASE NewTensor(w)
  <2>1. \A n \in Names : TensorPath(n, model[w][n]) # LatestMetaPath(w)
    BY DEF TensorPath, LatestMetaPath
  <2>2. \A n \in todo[w] : n \in Names
    BY DEF TypeInv, TypeOK
  <2> QED
    BY <1>1, <1>2, <1>4, <2>1, <2>2 DEF NewTensor, Goto
<1>5. CASE SaveMeta(w)
  BY <1>1, <1>2, <1>5 DEF SaveMeta, MetaFiles, Goto, MetaPath, LatestMetaPath
<1>6. CASE Open(w)
  BY <1>1, <1>2, <1>6 DEF Open, Goto
<1> QED
  BY <1>1, <1>3, <1>4, <1>5, <1>6 DEF Quiet

\* A call that fails or is interrupted leaves the worker outside of the save: nothing
\* was reported.  The file may have been saved, or a Close may be in the log.
Ended(w)  == Fail(w) \/ Crash(w)
Lost(w)   == Ended(w) /\ UNCHANGED files
Landed(w) == Ended(w) /\ Commits(w)

LEMMA EndedCall ==
    ASSUME TypeInv, NEW w \in Workers, Ended(w)
    PROVE  /\ UNCHANGED committed /\ pc'[w] \in {"train", "restore"}
           /\ \/ Commits(w)
              \/ UNCHANGED files
<1> DEFINE Same == UNCHANGED committed /\ pc'[w] \in {"train", "restore"}
<1>1. CASE Fail(w)
  BY <1>1 DEF Fail, Interrupted, Commits, Leave, Goto, TypeInv, TypeOK
<1>2. CASE Crash(w)
  BY <1>2 DEF Crash, Interrupted, Commits, Leave, Goto, TypeInv, TypeOK
<1> QED
  BY <1>1, <1>2 DEF Ended

LEMMA LoggedByEnded ==
    ASSUME TypeInv, NEW w \in Workers, Lost(w)
    PROVE  \/ backlog' \in {backlog, <<>>}
           \/ pc[w] = "close" /\ backlog' = Append(backlog, Entry(w))
  BY DEF Lost, Ended, Fail, Crash, Interrupted, Commit

\* A call that got no good answer may leave an entry in the log: of a Close, no other.
LEMMA FailedCall ==
    ASSUME TypeInv, NEW w \in Workers, Lost(w)
    PROVE  /\ UNCHANGED <<files, committed>> /\ pc'[w] \in {"train", "restore"}
           /\ \A i \in 1 .. Len(backlog') :
                 \/ i \in 1 .. Len(backlog) /\ backlog'[i] = backlog[i]
                 \/ pc[w] = "close" /\ backlog'[i] = Entry(w)
<1>1. UNCHANGED <<files, committed>> /\ pc'[w] \in {"train", "restore"}
  BY EndedCall DEF Lost
<1>2. \/ backlog' \in {backlog, <<>>}
      \/ pc[w] = "close" /\ backlog' = Append(backlog, Entry(w))
  BY LoggedByEnded
<1>3. pc[w] = "close" => Entry(w) \in EntryType
  BY Sent DEF Writing
<1>4. CASE backlog' \in {backlog, <<>>}
  BY <1>1, <1>4
<1>5. CASE pc[w] = "close" /\ backlog' = Append(backlog, Entry(w))
  <2>1. Len(backlog') = Len(backlog) + 1 /\ Len(backlog) \in Nat
    BY <1>3, <1>5 DEF TypeInv
  <2>2. /\ backlog'[Len(backlog) + 1] = Entry(w)
        /\ \A i \in 1 .. Len(backlog) : backlog'[i] = backlog[i]
    BY <1>3, <1>5 DEF TypeInv
  <2> QED
    BY <1>1, <1>5, <2>1, <2>2
<1> QED
  BY <1>2, <1>4, <1>5

\* What a step does to the files.
LEMMA Kinds ==
    ASSUME TypeInv, NEW w \in Workers, WorkerStep(w)
    PROVE  /\ Quiet(w) \/ Lost(w) \/ LookUp(w) \/ Create(w) \/ Close(w) \/ Landed(w)
           /\ Close(w) \/ Landed(w) => Commits(w) /\ backlog' = <<>>
<1>1. Ended(w) => Lost(w) \/ Landed(w)
  BY EndedCall DEF Lost, Landed
<1>2. Close(w) \/ Landed(w) => Commits(w) /\ backlog' = <<>>
  BY DEF Close, Landed, Commits, Commit
<1> QED
  BY <1>1, <1>2 DEF WorkerStep, Save, Quiet, Ended

\* Looking a file up adds it to the table if it is not there.
LEMMA LookedUp ==
    ASSUME TypeInv, NEW w \in Workers, LookUp(w)
    PROVE  /\ files' \in [Files -> FileType]
           /\ \A f \in Files :
                 /\ files[f].known \/ f # target[w] => files'[f] = files[f]
                 /\ ~files[f].known /\ f = target[w] =>
                       /\ files'[f].known /\ files'[f].version = 1
                       /\ files'[f].exists = files[f].exists
                       /\ files'[f].primes = files[f].primes
                       /\ files'[f].data = files[f].data
<1> DEFINE t == target[w]
<1>1. files \in [Files -> FileType] /\ t \in Files
  BY DEF TypeInv, TypeOK, FileType, Numbers
<1>2. files' = [files EXCEPT ![t] = IF files[t].known THEN files[t]
                                    ELSE [files[t] EXCEPT !.known = TRUE, !.version = 1]]
  BY DEF LookUp
<1>3. ASSUME NEW r \in FileType
      PROVE  LET q == [r EXCEPT !.known = TRUE, !.version = 1] IN
             q \in FileType /\ q.known /\ q.version = 1 /\ q.exists = r.exists
               /\ q.primes = r.primes /\ q.data = r.data
  BY DEF FileType
<1> HIDE DEF t
<1>4. CASE files[t].known
  BY <1>1, <1>2, <1>4 DEF t
<1>5. CASE ~files[t].known
  <2> DEFINE q == [files[t] EXCEPT !.known = TRUE, !.version = 1]
  <2>1. q \in FileType /\ q.known /\ q.version = 1 /\ q.exists = files[t].exists
               /\ q.primes = files[t].primes /\ q.data = files[t].data
    BY <1>1, <1>3
  <2>2. files' = [files EXCEPT ![t] = q]
    BY <1>2, <1>5
  <2> HIDE DEF q
  <2> QED
    BY <1>1, <1>5, <2>1, <2>2 DEF t
<1> QED
  BY <1>4, <1>5

\* Create makes an empty file of version 0, unless there is one; then it has stored a
\* tensor, or goes on with the file.
LEMMA Created ==
    ASSUME TypeInv, NEW w \in Workers, Create(w)
    PROVE  /\ files' \in [Files -> FileType]
           /\ \A f \in Files :
                 /\ files[f].exists \/ f # target[w] => files'[f] = files[f]
                 /\ ~files[f].exists /\ f = target[w] =>
                       /\ files'[f].exists /\ files'[f].version = 0
                       /\ files'[f].known = files[f].known
                       /\ files'[f].primes = files[f].primes
                       /\ files'[f].data = Empty
           /\ pc'[w] \in {"tensors", "open"}
           /\ pc'[w] = "open" /\ target[w] \in TensorFiles => ~files[target[w]].exists
<1> DEFINE t == target[w]
<1>1. files \in [Files -> FileType] /\ t \in Files /\ pc \in [Workers -> PcTypes]
  BY DEF TypeInv, TypeOK, FileType, Numbers, PcTypes
<1>2. CASE files[t].exists
  <2>1. files' = files /\ pc'[w] \in {"tensors", "open"}
    BY <1>1, <1>2 DEF Create, TensorDone, Goto
  <2>2. pc'[w] = "open" => target[w] \notin TensorFiles
    BY <1>1, <1>2 DEF Create, TensorDone, Goto, Shared
  <2> QED
    BY <1>1, <1>2, <2>1, <2>2
<1>3. CASE ~files[t].exists
  <2> DEFINE q == [files[t] EXCEPT !.exists = TRUE, !.version = 0, !.data = Empty]
  <2>1. files' = [files EXCEPT ![t].exists = TRUE, ![t].version = 0, ![t].data = Empty]
    BY <1>3 DEF Create
  <2>2. files' = [files EXCEPT ![t] = q]
    BY <1>1, <2>1
  <2>3. Empty \in Texts
    BY DEF Empty, Texts
  <2>4. ASSUME NEW r \in FileType
        PROVE  LET p == [r EXCEPT !.exists = TRUE, !.version = 0, !.data = Empty] IN
               p \in FileType /\ p.exists /\ p.version = 0 /\ p.known = r.known
                 /\ p.primes = r.primes /\ p.data = Empty
    BY <2>3 DEF FileType
  <2>5. q \in FileType /\ q.exists /\ q.version = 0 /\ q.known = files[t].known
          /\ q.primes = files[t].primes /\ q.data = Empty
    BY <1>1, <2>4
  <2>6. pc'[w] = "open"
    BY <1>1, <1>3 DEF Create, Goto
  <2> HIDE DEF q
  <2> QED
    BY <1>1, <1>3, <2>2, <2>5, <2>6
<1> QED
  BY <1>2, <1>3

-------------------------------------------------------------------------------
(* Types *)

LEMMA TypeStep ==
    ASSUME TypeInv, [Next]_vars
    PROVE  TypeInv'
<1>1. CASE UNCHANGED vars
  <2>1. UNCHANGED TypeOK
    BY <1>1 DEF vars, worker_vars, bounds, TypeOK, Steps, Texts
  <2> QED
    BY <1>1, <2>1 DEF vars, worker_vars, bounds, TypeInv, WritesItsOwn
<1>2. ASSUME NEW w \in Workers, WorkerStep(w)
      PROVE  TypeInv'
  <2> DEFINE Shape == /\ pc \in [Workers -> PcTypes]
                      /\ model \in [Workers -> [Names -> Contents]]
                      /\ step \in [Workers -> 0 .. Last]
                      /\ todo \in [Workers -> SUBSET Names]
                      /\ target \in [Workers -> Files]
                      /\ WritesItsOwn(w)
             Bounded == crashes \in 0 .. MaxCrashes /\ failures \in 0 .. MaxFailures
             Ghost == committed \in [Workers -> SUBSET Steps]
             Stores == files \in [Files -> FileType]
             Log == backlog \in Seq(EntryType)
  <2>1. Shape /\ Bounded /\ Ghost /\ Stores /\ Log
    BY DEF TypeInv, TypeOK, PcTypes, FileType, Numbers
  <2>2. Last \in Nat /\ Steps = 1 .. Last
    BY CheckpointAssumption DEF Steps
  <2>3. Shape' /\ Bounded' /\ Ghost' /\ Stores' /\ Log'
    <3>1. CASE Quiet(w)
      <4>1. Stores' /\ Log' /\ Ghost'
        BY <2>1, <3>1, QuietSteps
      <4>2. CASE Train(w)
        BY <2>1, <2>2, <4>1, <4>2 DEF Train, Due, Goto, bounds, PcTypes, Writing, WritesItsOwn
      <4>3. CASE Complete(w)
        BY <2>1, <4>1, <4>3 DEF Complete, Goto, bounds, PcTypes, Writing, WritesItsOwn
      <4>9. CASE Restore(w)
        <5>1. PICK s \in 0 .. Last : step' = [step EXCEPT ![w] = s]
          <6> DEFINE S == {s \in Steps : Restorable(w, s)}
          <6>1. PICK s \in IF S = {} THEN {0} ELSE S : step' = [step EXCEPT ![w] = s]
            BY <4>9 DEF Restore
          <6>2. s \in {0} \cup Steps
            <7> HIDE DEF S
            <7>1. S \subseteq Steps
              BY DEF S
            <7> QED
              BY <6>1, <7>1
          <6>3. s \in 0 .. Last
            BY <2>2, <6>2
          <6> HIDE DEF S
          <6> QED
            BY <6>1, <6>3
        <5>2. Goto(w, "train") /\ UNCHANGED <<model, todo, target, bounds>>
          BY <4>9 DEF Restore
        <5> QED
          BY <2>1, <4>1, <5>1, <5>2 DEF Goto, bounds, PcTypes, Writing, WritesItsOwn
      <4>4. CASE Deduplicate(w)
        BY <2>1, <4>1, <4>4 DEF Deduplicate, bounds, WritesItsOwn
      <4>5. CASE NewTensor(w)
        <5>1. \A n \in Names : TensorPath(n, model[w][n]) \in TensorFiles
          BY <2>1 DEF TensorFiles
        <5> QED
          BY <2>1, <4>1, <4>5, <5>1, Paths DEF NewTensor, Goto, bounds, PcTypes, Writing, WritesItsOwn
      <4>6. CASE SaveMeta(w)
        BY <2>1, <4>1, <4>6, Paths DEF SaveMeta, MetaFiles, Goto, bounds, PcTypes, Writing, WritesItsOwn
      <4>7. CASE Open(w)
        BY <2>1, <4>1, <4>7 DEF Open, Goto, bounds, PcTypes, Writing, WritesItsOwn
      <4> QED
        BY <3>1, <4>2, <4>3, <4>4, <4>5, <4>6, <4>7, <4>9 DEF Quiet
    <3>2. CASE LookUp(w)
      <4>1. Stores'
        BY <3>2, LookedUp
      <4> QED
        BY <2>1, <3>2, <4>1 DEF LookUp, Goto, bounds, PcTypes, Writing, WritesItsOwn
    <3>3. CASE Create(w)
      <4>1. Stores' /\ pc'[w] \in {"tensors", "open"}
        BY <3>3, Created
      <4>2. pc' \in [Workers -> PcTypes] /\ todo' \in [Workers -> SUBSET Names]
        BY <2>1, <3>3 DEF Create, TensorDone, Goto, PcTypes
      <4>3. UNCHANGED <<backlog, model, step, target, bounds, committed>> /\ pc[w] = "make"
        BY <3>3 DEF Create
      <4> QED
        BY <2>1, <4>1, <4>2, <4>3 DEF bounds, Writing, WritesItsOwn
    <3>4. CASE Close(w)
      <4>1. /\ Stores' /\ Ghost' /\ step' = step /\ step[w] \in Steps
            /\ pc' \in [Workers -> PcTypes] /\ target' \in [Workers -> Files]
            /\ todo' \in [Workers -> SUBSET Names]
        BY <1>2, <3>4, Kinds, Closed, Continued
      <4>2. Log' /\ UNCHANGED <<model, bounds>>
        <5>1. backlog' = <<>> /\ <<>> \in Seq(EntryType)
          BY <1>2, <3>4, Kinds
        <5> QED
          BY <3>4, <5>1 DEF Close
      <4>3. pc'[w] \in {"tensors", "train"} \/ (pc'[w] = "create" /\ target'[w] = LatestMetaPath(w))
        BY <3>4, Continued
      <4>4. WritesItsOwn(w)'
        BY <4>1, <4>3 DEF WritesItsOwn, Writing
      <4> QED
        BY <2>1, <4>1, <4>2, <4>4 DEF bounds
    <3>5. CASE Lost(w) \/ Landed(w)
      <4>0. Ended(w)
        BY <3>5 DEF Lost, Landed
      <4>1. Log' /\ Stores'
        <5>1. pc[w] = "close" => Entry(w) \in EntryType
          BY Sent DEF Writing
        <5>2. CASE Lost(w)
          <6>1. files' = files
            BY <5>2, FailedCall
          <6> HIDE DEF Log
          <6>2. \A e \in EntryType : Append(backlog, e) \in Seq(EntryType)
            BY <2>1 DEF Log
          <6>3. <<>> \in Seq(EntryType)
            OBVIOUS
          <6> QED
            BY <2>1, <5>1, <5>2, <6>1, <6>2, <6>3, LoggedByEnded DEF Log
        <5>3. CASE Landed(w)
          <6>1. backlog' = <<>> /\ <<>> \in Seq(EntryType) /\ Stores'
            BY <1>2, <5>3, Kinds, Closed
          <6> QED
            BY <6>1
        <5> QED
          BY <3>5, <5>2, <5>3
      <4>2. Ghost'
        BY <2>1, <4>0, EndedCall
      <4>3. CASE Fail(w)
        <5>1. failures' \in 0 .. MaxFailures
          BY <2>1, <4>3, CheckpointAssumption DEF Fail
        <5> QED
          BY <2>1, <4>1, <4>2, <4>3, <5>1, Paths
          DEF Fail, Leave, Goto, PcTypes, Writing, WritesItsOwn
      <4>4. CASE Crash(w)
        <5>1. crashes' \in 0 .. MaxCrashes
          BY <2>1, <4>4, CheckpointAssumption DEF Crash
        <5> QED
          BY <2>1, <2>2, <4>1, <4>2, <4>4, <5>1, Paths
          DEF Crash, Leave, Goto, PcTypes, Writing, WritesItsOwn
      <4> QED
        BY <4>0, <4>3, <4>4 DEF Ended
    <3> QED
      BY <1>2, <3>1, <3>2, <3>3, <3>4, <3>5, Kinds
  <2>4. \A v \in Workers : WritesItsOwn(v)'
    <3>1. ASSUME NEW v \in Workers \ {w} PROVE WritesItsOwn(v)'
      BY <1>2, OthersStay DEF TypeInv, WritesItsOwn
    <3> QED
      BY <2>3, <3>1
  <2>5. \A i \in DOMAIN backlog' : backlog'[i] \in [file : Files, data : Texts]
    <3>1. \A b \in Seq(EntryType) : \A i \in DOMAIN b : b[i] \in EntryType
      OBVIOUS
    <3> QED
      BY <2>3, <3>1 DEF EntryType
  <2> QED
    BY <2>3, <2>4, <2>5 DEF TypeInv, TypeOK, PcTypes, FileType, Numbers
<1> QED
  BY <1>1, <1>2 DEF Next, WorkerStep
-------------------------------------------------------------------------------
(* Nothing is lost *)

\* No step takes a file from the table or the disk, or a version from one that is on both.
LEMMA FilesGrow ==
    ASSUME TypeInv, FilesStay, NEW w \in Workers, WorkerStep(w)
    PROVE  /\ \A f \in Files :
                 /\ files[f].known => files'[f].known
                 /\ files[f].exists => files'[f].exists
                 /\ files[f].exists /\ files[f].version > 0 => files'[f].version > 0
           /\ \A v \in Workers, s \in Steps : MetaSaved(v, s) => MetaSaved(v, s)'
<1>1. files \in [Files -> FileType]
  BY DEF TypeInv, TypeOK, FileType, Numbers
<1>2. ASSUME NEW f \in Files
      PROVE  /\ files[f].known => files'[f].known
             /\ files[f].exists => files'[f].exists
             /\ files[f].exists /\ files[f].version > 0 => files'[f].version > 0
  <2>1. CASE Quiet(w) \/ Lost(w)
    BY <2>1, QuietSteps, FailedCall
  <2>2. CASE LookUp(w)
    BY <1>1, <2>2, LookedUp
  <2>3. CASE Create(w)
    BY <1>1, <2>3, Created
  <2>4. CASE Commits(w)
    <3>1. files[f].version \in Nat
      BY <1>1 DEF FileType
    <3>2. /\ files'[f].known = files[f].known
          /\ files[f].exists => files'[f].exists
          /\ files'[f].version \in {files[f].version, files[f].version + 1}
      BY <2>4, Closed
    <3> QED
      BY <3>1, <3>2
  <2> QED
    BY <2>1, <2>2, <2>3, <2>4, Kinds
<1>3. \A v \in Workers, s \in Steps : MetaPath(v, s) \in Files
  BY Paths
<1> QED
  BY <1>2, <1>3 DEF MetaSaved, Stored

LEMMA FilesStayStep ==
    ASSUME TypeInv, FilesStay, NEW w \in Workers, WorkerStep(w)
    PROVE  FilesStay'
<1>1. ASSUME NEW f \in Files
      PROVE  /\ files'[f].exists => files'[f].known
             /\ ~files'[f].exists => files'[f].primes = {}
  <2>0. /\ files[f].exists => files[f].known
        /\ ~files[f].exists => files[f].primes = {}
    BY DEF FilesStay
  <2>1. CASE Quiet(w) \/ Lost(w)
    BY <2>0, <2>1, QuietSteps, FailedCall
  <2>2. CASE LookUp(w)
    BY <2>0, <2>2, LookedUp
  <2>3. CASE Create(w)
    <3>1. files[target[w]].known
      BY <2>3 DEF Create, FilesStay, Writing
    <3> QED
      BY <2>0, <2>3, <3>1, Created
  <2>4. CASE Commits(w)
    <3>1. files[target[w]].known
      BY <2>4 DEF Commits, FilesStay, Writing
    <3>2. CASE f = target[w]
      BY <2>4, <3>1, <3>2, Closed
    <3>3. CASE f # target[w]
      <4>1. files'[f].exists => files[f].exists \/ \E i \in 1 .. Len(backlog) : backlog[i].file = f
        BY <2>4, <3>3, Closed
      <4>2. /\ files'[f].known = files[f].known /\ files'[f].primes = files[f].primes
            /\ files[f].exists => files'[f].exists
        BY <2>4, <3>3, Closed
      <4> QED
        BY <2>0, <4>1, <4>2 DEF FilesStay
    <3> QED
      BY <3>2, <3>3
  <2> QED
    BY <2>1, <2>2, <2>3, <2>4, Kinds
<1>2. ASSUME NEW v \in Workers
      PROVE  /\ pc'[v] \in Writing \ {"create"} => files'[target'[v]].known
             /\ pc'[v] \in Holding => files'[target'[v]].exists
  <2>0. target[v] \in Files
    BY DEF TypeInv, TypeOK
  <2>1. CASE v # w
    BY <2>0, <2>1, OthersStay, FilesGrow DEF FilesStay
  <2>2. CASE v = w /\ (Quiet(w) \/ Lost(w))
    <3>1. files' = files
      BY <2>2, QuietSteps, FailedCall
    <3>2. pc'[w] \notin Writing \ {"create"} \/ (pc[w] = "open" /\ target'[w] = target[w])
      BY <2>2, QuietSteps, FailedCall DEF Writing
    <3> QED
      BY <2>2, <3>1, <3>2 DEF FilesStay, Writing, Holding
  <2>3. CASE v = w /\ LookUp(w)
    <3>1. pc'[w] = "make" /\ target' = target
      BY <2>3 DEF LookUp, Goto, TypeInv, TypeOK
    <3> QED
      BY <2>0, <2>3, <3>1, LookedUp DEF Holding
  <2>4. CASE v = w /\ Create(w)
    <3>1. target' = target /\ files[target[w]].known
      BY <2>4 DEF Create, FilesStay, Writing
    <3>2. files'[target[w]].exists
      BY <2>0, <2>4, Created
    <3> QED
      BY <2>0, <2>4, <3>1, <3>2, FilesGrow
  <2>5. CASE v = w /\ (Close(w) \/ Landed(w))
    BY <2>5, Continued, EndedCall DEF Landed, Writing, Holding
  <2> QED
    BY <2>1, <2>2, <2>3, <2>4, <2>5, Kinds
<1>3. ASSUME NEW i \in 1 .. Len(backlog')
      PROVE  files'[backlog'[i].file].exists
  <2>0. ASSUME NEW j \in 1 .. Len(backlog)
        PROVE  backlog[j].file \in Files /\ files'[backlog[j].file].exists
    <3>0. backlog[j] \in EntryType
      BY DEF TypeInv
    <3>1. backlog[j].file \in Files
      BY <3>0 DEF EntryType
    <3> QED
      BY <3>1, FilesGrow DEF FilesStay
  <2>1. CASE Quiet(w) \/ LookUp(w) \/ Create(w)
    <3>1. backlog' = backlog
      BY <2>1, QuietSteps DEF LookUp, Create
    <3> QED
      BY <2>0, <3>1
  <2>2. CASE Close(w) \/ Landed(w)
    <3>1. backlog' = <<>>
      BY <2>2, Kinds
    <3> QED
      BY <3>1
  <2>3. CASE Lost(w)
    <3>1. pc[w] = "close" => Entry(w).file = target[w] /\ target[w] \in Files
                               /\ files[target[w]].exists
      BY Sent DEF Writing, Holding, FilesStay, TypeInv, TypeOK
    <3>2. \/ i \in 1 .. Len(backlog) /\ backlog'[i] = backlog[i]
          \/ pc[w] = "close" /\ backlog'[i] = Entry(w)
      BY <2>3, FailedCall
    <3> QED
      BY <2>0, <3>1, <3>2, FilesGrow
  <2> QED
    BY <2>1, <2>2, <2>3, Kinds
<1> QED
  BY <1>1, <1>2, <1>3 DEF FilesStay
-------------------------------------------------------------------------------
(* The pointer *)

LEMMA PointerStep ==
    ASSUME TypeInv, FilesStay, PointerInv, NEW w \in Workers, WorkerStep(w)
    PROVE  PointerInv'
<1> SUFFICES ASSUME NEW v \in Workers
             PROVE  /\ \A s \in files'[LatestMetaPath(v)].data.numbers : MetaSaved(v, s)'
                    /\ \A s \in files'[LatestMetaPath(v)].primes : MetaSaved(v, s)'
                    /\ \A i \in 1 .. Len(backlog') : backlog'[i].file = LatestMetaPath(v) =>
                          \A s \in backlog'[i].data.numbers : MetaSaved(v, s)'
                    /\ pc'[v] \in Writing /\ target'[v] = LatestMetaPath(v)
                          => MetaSaved(v, step[v])'
  BY DEF PointerInv
<1> DEFINE p == LatestMetaPath(v)
           Saved == {s \in Steps : MetaSaved(v, s)}
<1>1. p \in Files
  BY Paths
<1>2. \A s \in Saved : MetaSaved(v, s)'
  BY FilesGrow
<1>3. /\ files[p].data.numbers \subseteq Saved
      /\ files[p].primes \subseteq Saved
      /\ \A i \in 1 .. Len(backlog) : backlog[i].file = p => backlog[i].data.numbers \subseteq Saved
      /\ pc[v] \in Writing /\ target[v] = p => step[v] \in Saved
  BY DEF PointerInv, MetaSaved
\* Only v writes to its pointer.
<1>4. \A u \in Workers : pc[u] \in Writing /\ target[u] = p => u = v
  <2> SUFFICES ASSUME NEW u \in Workers, pc[u] \in Writing, target[u] = p
               PROVE  u = v
    OBVIOUS
  <2>1. target[u] \in TensorFiles \cup {MetaPath(u, step[u]), LatestMetaPath(u)}
          /\ step[u] \in Steps
    BY DEF TypeInv, WritesItsOwn
  <2> QED
    BY <2>1, Paths
<1>5. pc[w] \in Writing /\ target[w] = p => Entry(w).data.numbers \subseteq Saved
  <2> SUFFICES ASSUME pc[w] \in Writing, target[w] = p
               PROVE  Entry(w).data.numbers \subseteq Saved
    OBVIOUS
  <2>1. w = v
    BY <1>4
  <2>2. Entry(w).data.numbers = files[p].primes \cup {step[w]}
    BY <2>1, Sent
  <2> QED
    BY <1>3, <2>1, <2>2
<1> HIDE DEF p, Saved
<1>6. files'[p].data.numbers \subseteq Saved /\ files'[p].primes \subseteq Saved
  <2>1. CASE Quiet(w) \/ Lost(w)
    BY <1>3, <2>1, QuietSteps, FailedCall
  <2>2. CASE LookUp(w)
    BY <1>1, <1>3, <2>2, LookedUp
  <2>3. CASE Create(w)
    BY <1>1, <1>3, <2>3, Created DEF Empty
  <2>4. CASE Commits(w)
    <3>1. CASE target[w] = p
      BY <1>1, <1>5, <2>4, <3>1, Closed DEF Commits, Writing
    <3>2. CASE target[w] # p
      BY <1>1, <1>3, <2>4, <3>2, Closed
    <3> QED
      BY <3>1, <3>2
  <2> QED
    BY <2>1, <2>2, <2>3, <2>4, Kinds
<1>7. ASSUME NEW i \in 1 .. Len(backlog'), backlog'[i].file = p
      PROVE  backlog'[i].data.numbers \subseteq Saved
  <2>1. CASE Quiet(w) \/ LookUp(w) \/ Create(w)
    <3>1. backlog' = backlog
      BY <2>1, QuietSteps DEF LookUp, Create
    <3> QED
      BY <1>3, <1>7, <3>1
  <2>2. CASE Close(w) \/ Landed(w)
    BY <2>2, Kinds
  <2>3. CASE Lost(w)
    <3>1. \/ i \in 1 .. Len(backlog) /\ backlog'[i] = backlog[i]
          \/ pc[w] = "close" /\ backlog'[i] = Entry(w)
      BY <2>3, FailedCall
    <3>2. pc[w] = "close" => Entry(w).file = target[w]
      BY Sent DEF Writing
    <3> QED
      BY <1>3, <1>5, <1>7, <3>1, <3>2 DEF Writing
  <2> QED
    BY <2>1, <2>2, <2>3, Kinds
<1>8. ASSUME pc'[v] \in Writing, target'[v] = p
      PROVE  MetaSaved(v, step[v])'
  <2>0. step[v] \in Saved /\ step'[v] = step[v] => MetaSaved(v, step[v])'
    <3>1. step[v] \in Saved => MetaSaved(v, step[v])
      BY DEF Saved
    <3>2. ASSUME step[v] \in Saved, step'[v] = step[v] PROVE MetaSaved(v, step[v])'
      <4>1. MetaSaved(v, step[v]) /\ step[v] \in Steps
        BY <3>1, <3>2 DEF MetaSaved
      <4>2. /\ files'[MetaPath(v, step[v])].exists
            /\ files'[MetaPath(v, step[v])].known
            /\ files'[MetaPath(v, step[v])].version > 0
        BY <4>1, FilesGrow, Paths DEF MetaSaved, Stored
      <4> QED
        BY <3>2, <4>1, <4>2 DEF MetaSaved, Stored
    <3> QED
      BY <3>2
  <2>1. CASE v # w
    BY <1>3, <1>8, <2>0, <2>1, OthersStay
  <2>2. CASE v = w /\ (Quiet(w) \/ Lost(w))
    BY <1>3, <1>8, <2>0, <2>2, QuietSteps, FailedCall DEF p, Writing
  <2>3. CASE v = w /\ (LookUp(w) \/ Create(w))
    BY <1>3, <1>8, <2>0, <2>3 DEF LookUp, Create, Writing
  \* The metadata were closed: the pointer is next.
  <2>4. CASE v = w /\ (Close(w) \/ Landed(w))
    <3>0. Close(w) /\ Commits(w)
      BY <1>8, <2>4, EndedCall, Kinds DEF Landed, Writing
    <3>1. step' = step /\ step[w] \in Steps /\ target[w] = MetaPath(w, step[w])
      BY <1>8, <2>4, <3>0, Continued DEF Writing
    <3>2. target[w] \in Files /\ files[target[w]].version \in Nat /\ files[target[w]].known
      BY <3>0 DEF Commits, TypeInv, TypeOK, FilesStay, Writing
    <3>3. /\ files'[target[w]].exists /\ files'[target[w]].known
          /\ files'[target[w]].version > 0
      BY <3>0, <3>2, Closed
    <3> QED
      BY <2>4, <3>1, <3>3 DEF MetaSaved, Stored
  <2> QED
    BY <2>1, <2>2, <2>3, <2>4, Kinds
<1> QED
  BY <1>2, <1>6, <1>7, <1>8 DEF p

-------------------------------------------------------------------------------
(* What was reported *)

LEMMA ReportedStep ==
    ASSUME TypeInv, FilesStay, ReportedInv, NEW w \in Workers, WorkerStep(w)
    PROVE  ReportedInv'
<1> SUFFICES ASSUME NEW v \in Workers
             PROVE  /\ committed'[v] \subseteq files'[LatestMetaPath(v)].data.numbers
                    /\ committed'[v] \subseteq files'[LatestMetaPath(v)].primes
                    /\ \A i \in 1 .. Len(backlog') : backlog'[i].file = LatestMetaPath(v) =>
                          committed'[v] \subseteq backlog'[i].data.numbers
  BY DEF ReportedInv
<1> DEFINE p == LatestMetaPath(v)
<1>1. p \in Files
  BY Paths
<1>2. /\ committed[v] \subseteq files[p].data.numbers
      /\ committed[v] \subseteq files[p].primes
      /\ \A i \in 1 .. Len(backlog) : backlog[i].file = p => committed[v] \subseteq backlog[i].data.numbers
      /\ ~files[p].exists => files[p].primes = {}
  BY <1>1 DEF ReportedInv, FilesStay
<1> HIDE DEF p
<1>3. CASE Quiet(w)
  BY <1>2, <1>3, QuietSteps DEF p
<1>4. CASE LookUp(w)
  <2>1. UNCHANGED <<backlog, committed>>
    BY <1>4 DEF LookUp
  <2> QED
    BY <1>1, <1>2, <1>4, <2>1, LookedUp DEF p
\* A pointer that is made now was never closed: nothing was reported.
<1>5. CASE Create(w)
  <2>1. UNCHANGED <<backlog, committed>>
    BY <1>5 DEF Create
  <2>2. files'[p] = files[p] \/ (committed[v] = {} /\ files'[p].primes = files[p].primes)
    BY <1>1, <1>2, <1>5, Created
  <2> QED
    BY <1>2, <2>1, <2>2 DEF p
<1>6. CASE Close(w) \/ Landed(w)
  <2>0. backlog' = <<>> /\ Commits(w)
    BY <1>6, Kinds
  <2>1. CASE target[w] = p
    <3>1. files'[p].primes = Entry(w).data.numbers /\ files'[p].data = Entry(w).data
      BY <1>1, <2>0, <2>1, Closed
    <3>2. files[p].primes \subseteq Entry(w).data.numbers
      BY <2>0, <2>1, Sent DEF Commits, Writing
    <3>3. committed'[v] \subseteq Entry(w).data.numbers
      <4>1. CASE v # w
        BY <1>2, <3>2, <4>1, OthersStay
      <4>2. CASE v = w
        <5>1. step[w] \in Entry(w).data.numbers
          BY <2>0, <2>1, <4>2, Sent DEF Commits, Writing, p
        <5>2. committed'[w] \subseteq committed[w] \cup {step[w]}
          BY <1>6, Continued, EndedCall DEF Landed
        <5> QED
          BY <1>2, <3>2, <4>2, <5>1, <5>2
      <4> QED
        BY <4>1, <4>2
    <3> QED
      BY <2>0, <3>1, <3>3 DEF p
  <2>2. CASE target[w] # p
    <3>1. committed'[v] = committed[v]
      BY <1>6, <2>2, OthersStay, Continued, EndedCall DEF Landed, p
    <3>2. /\ files'[p].primes = files[p].primes
          /\ committed[v] \subseteq files'[p].data.numbers
      BY <1>1, <1>2, <2>0, <2>2, Closed
    <3> QED
      BY <1>2, <2>0, <3>1, <3>2 DEF p
  <2> QED
    BY <2>1, <2>2
<1>7. CASE Lost(w)
  <2>1. UNCHANGED <<files, committed>>
    BY <1>7, FailedCall
  <2>2. ASSUME NEW i \in 1 .. Len(backlog'), backlog'[i].file = p
        PROVE  committed[v] \subseteq backlog'[i].data.numbers
    <3>1. \/ i \in 1 .. Len(backlog) /\ backlog'[i] = backlog[i]
          \/ pc[w] = "close" /\ backlog'[i] = Entry(w)
      BY <1>7, FailedCall
    <3>2. pc[w] = "close" => /\ Entry(w).file = target[w]
                             /\ files[target[w]].primes \subseteq Entry(w).data.numbers
      BY Sent DEF Writing
    <3> QED
      BY <1>2, <2>2, <3>1, <3>2
  <2> QED
    BY <1>2, <2>1, <2>2 DEF p
<1> QED
  BY <1>3, <1>4, <1>5, <1>6, <1>7, Kinds
-------------------------------------------------------------------------------
(* Tensors *)

LEMMA TensorStep ==
    ASSUME TypeInv, FilesStay, TensorInv, NEW w \in Workers, WorkerStep(w)
    PROVE  TensorInv'
<1> DEFINE Fresh(v) == pc[v] \in Holding /\ target[v] \in TensorFiles
<1>0. /\ TensorFiles \subseteq Files
      /\ \A v \in Workers : target[v] \in Files
      /\ \A f \in Files : files[f].exists => files[f].known
      /\ \A v \in Workers : pc[v] \in Holding => files[target[v]].exists
  BY Paths DEF TypeInv, TypeOK, FilesStay
\* A worker comes to hold the file of a tensor only by making it.
<1>1. Fresh(w)' => \/ pc[w] \in Holding /\ target'[w] = target[w] /\ files' = files
                   \/ Create(w) /\ ~files[target[w]].exists /\ target'[w] = target[w]
  <2>1. CASE Quiet(w) \/ Lost(w)
    BY <2>1, QuietSteps, FailedCall DEF Writing, Holding
  <2>2. CASE LookUp(w)
    BY <2>2 DEF LookUp, Goto, TypeInv, TypeOK, Holding
  <2>3. CASE Create(w)
    BY <2>3, Created DEF Create, Holding
  <2>4. CASE Close(w) \/ Landed(w)
    BY <2>4, Continued, EndedCall DEF Landed, Holding
  <2> QED
    BY <2>1, <2>2, <2>3, <2>4, Kinds
<1>2. \A v \in Workers \ {w} : pc'[v] = pc[v] /\ target'[v] = target[v]
  BY OthersStay
<1>3. ASSUME NEW f \in TensorFiles, files'[f].exists
      PROVE  files'[f].version <= 1
  <2>0. files[f].exists => files[f].version <= 1
    BY DEF TensorInv, StoredOnce
  <2>1. CASE Quiet(w) \/ Lost(w)
    BY <1>3, <2>0, <2>1, QuietSteps, FailedCall
  <2>2. CASE LookUp(w)
    BY <1>0, <1>3, <2>0, <2>2, LookedUp
  <2>3. CASE Create(w)
    BY <1>0, <1>3, <2>0, <2>3, Created
  <2>4. CASE Commits(w)
    <3>1. CASE f = target[w]
      <4>1. files[f].version = 0
        BY <2>4, <3>1 DEF Commits, TensorInv, Holding
      <4> QED
        BY <1>0, <2>4, <3>1, <4>1, Closed
    <3>2. CASE f # target[w]
      <4>1. files'[f].version = files[f].version
        BY <1>0, <2>4, <3>2, Closed
      <4>2. files[f].exists \/ \E i \in 1 .. Len(backlog) : backlog[i].file = f
        BY <1>0, <1>3, <2>4, <3>2, Closed
      <4>3. files[f].exists
        BY <4>2 DEF FilesStay
      <4> QED
        BY <2>0, <4>1, <4>3
    <3> QED
      BY <3>1, <3>2
  <2> QED
    BY <2>1, <2>2, <2>3, <2>4, Kinds
<1>4. ASSUME NEW v \in Workers, Fresh(v)'
      PROVE  /\ files'[target'[v]].version = 0
             /\ \A u \in Workers \ {v} : pc'[u] \in Holding => target'[u] # target'[v]
  <2>1. CASE v = w
    <3>1. CASE pc[w] \in Holding /\ target'[w] = target[w] /\ files' = files
      BY <1>2, <1>4, <2>1, <3>1 DEF TensorInv
    <3>2. CASE Create(w) /\ ~files[target[w]].exists /\ target'[w] = target[w]
      BY <1>0, <1>2, <2>1, <3>2, Created
    <3> QED
      BY <1>1, <1>4, <2>1, <3>1, <3>2
  <2>2. CASE v # w
    <3>0. Fresh(v) /\ target'[v] = target[v] /\ files[target[v]].exists
      BY <1>0, <1>2, <1>4, <2>2
    <3>1. files[target[v]].version = 0 /\ ~(pc[w] \in Holding /\ target[w] = target[v])
      BY <2>2, <3>0 DEF TensorInv
    <3>2. files'[target[v]].version = 0
      <4>1. CASE Quiet(w) \/ Lost(w)
        BY <3>1, <4>1, QuietSteps, FailedCall
      <4>2. CASE LookUp(w)
        BY <1>0, <3>0, <3>1, <4>2, LookedUp
      <4>3. CASE Create(w)
        BY <1>0, <3>0, <3>1, <4>3, Created
      <4>4. CASE Commits(w)
        BY <1>0, <3>1, <4>4, Closed DEF Commits, Holding
      <4> QED
        BY <4>1, <4>2, <4>3, <4>4, Kinds
    <3>3. ASSUME NEW u \in Workers \ {v}, pc'[u] \in Holding, target'[u] = target'[v]
          PROVE  FALSE
      <4>1. CASE u = w
        <5>1. Fresh(w)'
          BY <1>4, <3>3, <4>1
        <5> QED
          BY <1>1, <3>0, <3>1, <3>3, <4>1, <5>1
      <4>2. CASE u # w
        BY <1>2, <3>0, <3>3, <4>2 DEF TensorInv
      <4> QED
        BY <4>1, <4>2
    <3> QED
      BY <3>0, <3>2, <3>3
  <2> QED
    BY <2>1, <2>2
<1> QED
  BY <1>3, <1>4 DEF TensorInv, StoredOnce

-------------------------------------------------------------------------------
(* The theorems *)

CheckpointInv == TypeInv /\ FilesStay /\ PointerInv /\ ReportedInv /\ TensorInv

LEMMA CheckpointInit == Init => CheckpointInv
<1> SUFFICES ASSUME Init PROVE CheckpointInv
  OBVIOUS
<1> USE DEF Init
<1>1. \A f \in Files : files[f] = NoFile
  OBVIOUS
<1>2. NoFile \in FileType
  BY DEF NoFile, FileType, Empty, Texts
<1>3. \A w \in Workers : LatestMetaPath(w) \in Files
  BY Paths
<1>4. backlog = <<>> /\ \A w \in Workers : pc[w] = "restore" /\ committed[w] = {}
  OBVIOUS
<1>5. TypeInv
  <2>1. (CHOOSE m \in [Names -> Contents] : TRUE) \in [Names -> Contents]
    <3>1. PICK x \in Contents : TRUE
      BY CheckpointAssumption
    <3>2. [n \in Names |-> x] \in [Names -> Contents]
      OBVIOUS
    <3> QED
      BY <3>2
  <2>2. 0 \in 0 .. Last /\ 0 \in 0 .. MaxCrashes /\ 0 \in 0 .. MaxFailures
    BY CheckpointAssumption
  <2>3. TypeOK
    <3>1. files \in [Files -> FileType]
      BY <1>2
    <3> QED
      BY <1>3, <2>1, <2>2, <3>1 DEF TypeOK, FileType, Numbers
  <2> QED
    BY <1>4, <2>3 DEF TypeInv, WritesItsOwn, Writing
<1>6. FilesStay
  BY <1>1, <1>4 DEF FilesStay, NoFile, Writing, Holding
<1>7. PointerInv
  BY <1>1, <1>3, <1>4 DEF PointerInv, NoFile, Empty, Writing
<1>8. ReportedInv
  BY <1>4 DEF ReportedInv
<1>9. TensorInv
  BY <1>1, <1>4, Paths DEF TensorInv, StoredOnce, NoFile, Holding
<1> QED
  BY <1>5, <1>6, <1>7, <1>8, <1>9 DEF CheckpointInv

LEMMA CheckpointStep == CheckpointInv /\ [Next]_vars => CheckpointInv'
<1> SUFFICES ASSUME CheckpointInv, [Next]_vars PROVE CheckpointInv'
  OBVIOUS
<1>1. TypeInv'
  BY TypeStep DEF CheckpointInv
<1>2. CASE UNCHANGED vars
  BY <1>1, <1>2
  DEF vars, worker_vars, CheckpointInv, FilesStay, PointerInv, MetaSaved, Stored,
      ReportedInv, TensorInv, StoredOnce
<1>3. ASSUME NEW w \in Workers, WorkerStep(w)
      PROVE  CheckpointInv'
  BY <1>1, <1>3, FilesStayStep, PointerStep, ReportedStep, TensorStep DEF CheckpointInv
<1> QED
  BY <1>2, <1>3 DEF Next, WorkerStep

LEMMA CheckpointInvariant == Spec => []CheckpointInv
  BY CheckpointInit, CheckpointStep, PTL DEF Spec

\* Every state of the workers and of the service they save to has its shape.
THEOREM Typing == Spec => []TypeOK
<1>1. CheckpointInv => TypeOK
  BY DEF CheckpointInv, TypeInv
<1> QED
  BY <1>1, CheckpointInvariant, PTL

\* The pointer of a worker, in its file and in the log, names checkpoints whose metadata
\* were closed: SaveCheckpointMeta writes it last, and Close only ever adds to it.
THEOREM PointerIsLast == Spec => []PointerNamesMeta
<1>1. CheckpointInv => PointerNamesMeta
  <2> SUFFICES ASSUME CheckpointInv PROVE PointerNamesMeta
    OBVIOUS
  <2>1. DOMAIN backlog = 1 .. Len(backlog)
    BY DEF CheckpointInv, TypeInv
  <2> QED
    BY <2>1 DEF CheckpointInv, PointerInv, PointerNamesMeta, MetaSaved
<1> QED
  BY <1>1, CheckpointInvariant, PTL

\* Once SaveCheckpoint reported a checkpoint, the pointer of its worker is there and
\* names saved metadata, whichever later call fails or is interrupted: Create leaves
\* the pointer as it is, and Close leaves the numbers it had (server_basics.go:690-695).
THEOREM PointerStays == Spec => []ReportedHasPointer
<1>1. CheckpointInv => ReportedHasPointer
  <2> SUFFICES ASSUME CheckpointInv, NEW w \in Workers, NEW s \in committed[w]
               PROVE  /\ files[LatestMetaPath(w)].exists
                      /\ s \in files[LatestMetaPath(w)].data.numbers /\ MetaSaved(w, s)
    BY DEF ReportedHasPointer, MetaSaved
  <2>1. /\ s \in files[LatestMetaPath(w)].data.numbers
        /\ s \in files[LatestMetaPath(w)].primes
    BY DEF CheckpointInv, ReportedInv
  <2>2. MetaSaved(w, s)
    BY <2>1 DEF CheckpointInv, PointerInv
  <2>3. files[LatestMetaPath(w)].exists
    BY <2>1, Paths DEF CheckpointInv, FilesStay
  <2> QED
    BY <2>1, <2>2, <2>3
<1> QED
  BY <1>1, CheckpointInvariant, PTL

\* A tensor is stored at most once, however many workers race for it.
THEOREM TensorsStoredOnce == Spec => []StoredOnce
<1>1. CheckpointInv => StoredOnce
  BY DEF CheckpointInv, TensorInv
<1> QED
  BY <1>1, CheckpointInvariant, PTL
===============================================================================
