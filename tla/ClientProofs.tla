----------------------------- MODULE ClientProofs -----------------------------
(***************************************************************************)
(* That the handlers of the primary exclude each other on a file and lose  *)
(* no update, whatever clients give up on and however often the server     *)
(* restarts, for any number of clients, files and threads.                 *)
(***************************************************************************)
EXTENDS Client, NumberLemmas, SequenceTheorems, TLAPS

-------------------------------------------------------------------------------
(* Types *)

Objects     == [version : Nat, writer : BOOLEAN]
Descriptors == [file : Files, client : Clients, mode : Modes, registered : BOOLEAN]
LogEntries  == [index : Nat, file : Files, nums : SUBSET Numbers]
DiskFiles   == [exists : BOOLEAN, nums : SUBSET Numbers]
Answers     == [id : Nat, reply : Replies]
Positions   == [step : Steps, stage : {"ready", "call", "wait"}, file : Files, mode : Modes,
                tries : Nat, id : Nat, thread : Threads \cup {NoThread}]

Places == {"idle", "start", "stuck", "done", "entry", "lock", "create", "open", "register",
           "check", "append", "commit", "collect", "patch", "publish", "drop", "finish",
           "stat", "find", "try", "remove", "forget", "version"}
\* A handler that has looked its descriptor up, and one that has found its object.
Looked == Places \ {"idle", "start", "stuck", "done"}
Found  == Looked \ {"entry", "stat", "find"}

StoreTypes ==
    /\ disk \in [Files -> DiskFiles] /\ primes \in [Files -> SUBSET Numbers]
    /\ log \in Seq(LogEntries) /\ wal \in Seq(LogEntries) /\ lastApplied \in Nat

TableTypes ==
    /\ hung \in BOOLEAN
    /\ entries \in Seq(Objects)
    /\ table \in [Files -> Nat] /\ \A f \in Files : table[f] <= Len(entries)
    /\ fds \in Seq(Descriptors) /\ Len(fds) <= MaxOpenFiles
    /\ requests \subseteq Answers

ThreadTypes ==
    /\ pc \in [Threads -> Places] /\ call \in [Threads -> Calls]
    /\ loc \in [Threads -> Locals] /\ reply \in [Threads -> Replies]

\* What a handler refers to was made: its descriptor and its object.
Refers(t) ==
    /\ pc[t] \in Looked /\ call[t].op \in {"Close", "Write"} => call[t].fd + 1 <= Len(fds)
    /\ pc[t] \in Found => loc[t].entry \in 1 .. Len(entries)
    /\ pc[t] = "open" => call[t].op = "Open"
    /\ pc[t] = "drop" => call[t].op = "Close"

ClientTypes ==
    /\ cache \in [Clients -> [Files -> CacheEntries]]
    /\ at \in [Clients -> Positions]
    /\ nextId \in Nat
    /\ acked \in [Files -> SUBSET Numbers] /\ deleted \subseteq Files

\* A client that waits has a thread of its own, and ids in use were given out.
Waits(c) ==
    /\ at[c].stage = "wait" <=> at[c].thread # NoThread
    /\ at[c].stage = "wait" => pc[at[c].thread] # "idle"
    /\ \A d \in Clients : d # c /\ at[c].stage = "wait" => at[d].thread # at[c].thread
    /\ at[c].id < nextId

IdsGiven ==
    /\ \A t \in Threads : call[t].id < nextId
    /\ \A r \in requests : r.id < nextId

TypeInv ==
    /\ StoreTypes /\ TableTypes /\ ThreadTypes /\ ClientTypes /\ IdsGiven
    /\ \A t \in Threads : Refers(t)
    /\ \A c \in Clients : Waits(c)

-------------------------------------------------------------------------------
(* The inductive invariants *)

Deleting == {"stat", "find", "try", "remove", "forget"}

\* The lock of an object is taken while a handler holds it, and by one handler.
LockInv ==
    /\ \A t \in Threads : Holding(t) => Entry(t).writer
    /\ \A s, t \in Threads : s # t /\ Holding(s) /\ Holding(t) => loc[s].entry # loc[t].entry

\* A file nobody deletes keeps its object, so all its handlers have the same one.
ObjectInv ==
    /\ \A c \in Clients : at[c].step = "Delete" => at[c].file \in deleted
    /\ \A t \in Threads :
          /\ call[t].op = "Delete" => call[t].file \in deleted
          /\ pc[t] \in Deleting => call[t].op = "Delete"
          /\ pc[t] \in Found /\ FileOf(t) \notin deleted => loc[t].entry = table[FileOf(t)]

\* The version that was compared under the lock is still that of the object, until the
\* handler makes a new one.
Compared == {"append", "commit", "collect", "patch", "publish", "version"}
VersionInv ==
    \A t \in Threads : pc[t] \in Compared /\ Holding(t) => call[t].version = Entry(t).version

-------------------------------------------------------------------------------
(* Steps of a handler *)

\* A handler moves nobody but itself, and its request stays.
LEMMA OthersStay ==
    ASSUME ThreadTypes, NEW t \in Threads, Serve(t)
    PROVE  /\ call' = call
           /\ \A u \in Threads \ {t} : pc'[u] = pc[u] /\ loc'[u] = loc[u] /\ reply'[u] = reply[u]
<1> USE DEF ThreadTypes, Goto, Return, ReleaseAndReturn
<1>1. CASE Repeated(t) \/ Begin(t) \/ Unregistered(t) \/ getFileEntry(t) \/ AcquireWrite(t)
  BY <1>1 DEF Repeated, Begin, Unregistered, getFileEntry, AcquireWrite
<1>2. CASE CreateFile(t) \/ OpenFile(t) \/ Register(t) \/ TooManyOpenFiles(t)
  BY <1>2 DEF CreateFile, OpenFile, Register, TooManyOpenFiles
<1>3. CASE Reject(t) \/ Prepare(t) \/ AppendLog(t) \/ Commit(t) \/ NoMajority(t)
  BY <1>3 DEF Reject, Prepare, AppendLog, Commit, NoMajority
<1>4. CASE Collect(t) \/ Patch(t) \/ Publish(t) \/ NewVersion(t) \/ DropClient(t) \/ Finish(t)
  BY <1>4 DEF Collect, Patch, Publish, NewVersion, DropClient, Finish
<1>5. CASE AlreadyDeleted(t) \/ Stat(t) \/ Find(t) \/ TryLock(t) \/ Remove(t) \/ Forget(t)
  BY <1>5 DEF AlreadyDeleted, Stat, Find, TryLock, Remove, Forget
<1>6. CASE Lookup(t) \/ ReadVersion(t) \/ Read(t)
  BY <1>6 DEF Lookup, ReadVersion, Read
<1> QED
  BY <1>1, <1>2, <1>3, <1>4, <1>5, <1>6 DEF Serve
ServerTypes(t) == StoreTypes /\ TableTypes /\ ThreadTypes /\ Refers(t)

\* The file of a handler is known once the descriptor is.
LEMMA FileKnown ==
    ASSUME NEW t \in Threads, TableTypes, ThreadTypes, Refers(t), pc[t] \in Looked
    PROVE  FileOf(t) \in Files
<1>1. call[t] \in Calls
  BY DEF ThreadTypes
<1>2. CASE call[t].op \in {"Close", "Write"}
  <2>1. call[t].fd + 1 \in 1 .. Len(fds)
    BY <1>1, <1>2 DEF Refers, Calls, TableTypes
  <2>2. fds[call[t].fd + 1] \in Descriptors
    BY <2>1 DEF TableTypes
  <2> QED
    BY <1>2, <2>2 DEF FileOf, Opened, Descriptors
<1>3. CASE call[t].op \notin {"Close", "Write"}
  BY <1>1, <1>3 DEF FileOf, Calls
<1> QED
  BY <1>2, <1>3

\* Applying a part of a log leaves every file with the numbers of an entry, or as it was.
LEMMA AppliedFiles ==
    ASSUME NEW L \in Seq(LogEntries), NEW from \in Nat \ {0}, NEW to \in 0 .. Len(L), NEW f \in Files
    PROVE  \/ /\ \A i \in from .. to : L[i].file # f
              /\ Applied(L, from, to)[f] = disk[f]
           \/ \E i \in from .. to :
                 /\ L[i].file = f
                 /\ \A j \in from .. to : L[j].file = f => j <= i
                 /\ Applied(L, from, to)[f] = [exists |-> TRUE, nums |-> L[i].nums]
<1> DEFINE P == {i \in from .. to : L[i].file = f}
           k == CHOOSE i \in P : \A j \in P : j <= i
<1>0. to \in Nat
  OBVIOUS
<1>1. Applied(L, from, to)[f] = IF P = {} THEN disk[f]
                                ELSE [exists |-> TRUE, nums |-> L[k].nums]
  BY DEF Applied
<1>2. CASE P = {}
  BY <1>1, <1>2
<1>3. CASE P # {}
  <2>1. P \subseteq Nat /\ \A i \in P : i <= to
    BY <1>0
  <2>2. \E i \in P : \A j \in P : j <= i
    BY <1>0, <1>3, <2>1, GreatestNat
  <2>3. k \in P /\ \A j \in P : j <= k
    BY <2>2
  <2> QED
    BY <1>1, <1>3, <2>3
<1> QED
  BY <1>2, <1>3

LEMMA AppliedTypes ==
    ASSUME StoreTypes, NEW L \in Seq(LogEntries), NEW from \in Nat \ {0}, NEW to \in 0 .. Len(L)
    PROVE  Applied(L, from, to) \in [Files -> DiskFiles]
<1>1. ASSUME NEW f \in Files PROVE Applied(L, from, to)[f] \in DiskFiles
  <2>1. disk[f] \in DiskFiles
    BY DEF StoreTypes
  <2>2. \A i \in from .. to : L[i].nums \in SUBSET Numbers
    <3>1. \A i \in 1 .. Len(L) : L[i] \in LogEntries
      OBVIOUS
    <3>2. \A i \in from .. to : i \in 1 .. Len(L)
      OBVIOUS
    <3> QED
      BY <3>1, <3>2 DEF LogEntries
  <2>3. ASSUME NEW i \in from .. to, Applied(L, from, to)[f] = [exists |-> TRUE, nums |-> L[i].nums]
        PROVE  Applied(L, from, to)[f] \in DiskFiles
    BY <2>2, <2>3 DEF DiskFiles
  <2>4. \/ Applied(L, from, to)[f] = disk[f]
        \/ \E i \in from .. to : Applied(L, from, to)[f] = [exists |-> TRUE, nums |-> L[i].nums]
    BY AppliedFiles
  <2> QED
    BY <2>1, <2>3, <2>4
<1> QED
  BY <1>1 DEF Applied

\* What the log holds, and the files on the disk.
LEMMA StoreStep ==
    ASSUME NEW t \in Threads, ServerTypes(t), Serve(t)
    PROVE  StoreTypes'
<1> USE DEF ServerTypes
<1>0. pc[t] \in Looked => FileOf(t) \in Files
  BY FileKnown
<1>1. loc[t] \in Locals /\ call[t] \in Calls /\ Len(log) \in Nat
  BY DEF ThreadTypes, StoreTypes
<1>2. CASE UNCHANGED store_vars
  BY <1>1, <1>2 DEF StoreTypes, store_vars, log_vars
<1>3. ASSUME NEW f \in Files, NEW d \in DiskFiles, disk' = [disk EXCEPT ![f] = d],
             UNCHANGED <<primes, log, wal, lastApplied>>
      PROVE  StoreTypes'
  BY <1>1, <1>3 DEF StoreTypes
<1>4. [exists |-> FALSE, nums |-> {}] \in DiskFiles /\ [exists |-> TRUE, nums |-> {}] \in DiskFiles
  BY DEF DiskFiles
<1>5. CASE CreateFile(t)
  BY <1>0, <1>2, <1>3, <1>4, <1>5 DEF CreateFile, store_vars, log_vars, Looked, Places
<1>6. CASE TooManyOpenFiles(t)
  BY <1>0, <1>2, <1>3, <1>4, <1>6 DEF TooManyOpenFiles, store_vars, log_vars, Looked, Places
<1>7. CASE Remove(t)
  BY <1>0, <1>2, <1>3, <1>4, <1>7 DEF Remove, store_vars, log_vars, Looked, Places
<1>8. CASE AppendLog(t)
  <2> DEFINE e == [index |-> loc[t].index, file |-> FileOf(t), nums |-> loc[t].nums]
  <2>1. e \in LogEntries
    BY <1>0, <1>1, <1>8 DEF AppendLog, LogEntries, Locals, Looked, Places
  <2>2. /\ log' = Append(log, e) /\ wal' \in {wal, Append(wal, e)}
        /\ UNCHANGED <<disk, primes, lastApplied>>
    BY <1>8 DEF AppendLog
  <2> HIDE DEF e
  <2>3. Append(log, e) \in Seq(LogEntries) /\ Append(wal, e) \in Seq(LogEntries)
    <3>1. log \in Seq(LogEntries) /\ wal \in Seq(LogEntries)
      BY DEF StoreTypes
    <3> QED
      BY <2>1, <3>1
  <2> QED
    BY <2>2, <2>3 DEF StoreTypes
<1>9. CASE Commit(t)
  <2> DEFINE to == IF loc[t].index <= Len(log) THEN loc[t].index ELSE Len(log)
  <2>1. to \in 0 .. Len(log) /\ lastApplied \in Nat /\ log \in Seq(LogEntries)
    BY <1>1 DEF Locals, StoreTypes
  <2>2. UNCHANGED <<primes, log, wal>>
    BY <1>9 DEF Commit, log_vars
  <2>3. CASE to > lastApplied
    <3>1. disk' = Applied(log, lastApplied + 1, to) /\ lastApplied' = to
      BY <1>9, <2>3 DEF Commit
    <3> HIDE DEF to
    <3>2. lastApplied + 1 \in Nat \ {0} /\ lastApplied' \in Nat
      BY <1>1, <2>1, <3>1
    <3>3. Applied(log, lastApplied + 1, to) \in [Files -> DiskFiles]
      BY <2>1, <3>2, AppliedTypes
    <3> QED
      BY <1>1, <2>2, <3>1, <3>2, <3>3 DEF StoreTypes
  <2>4. CASE ~(to > lastApplied)
    BY <1>2, <1>9, <2>2, <2>4 DEF Commit, store_vars, log_vars
  <2> QED
    BY <2>3, <2>4
<1>10. CASE Publish(t)
  <2>1. FileOf(t) \in Files
    BY <1>0, <1>10 DEF Publish, Looked, Places
  <2>2. UNCHANGED <<disk, log, wal, lastApplied>>
    BY <1>10 DEF Publish, log_vars
  <2>3. primes' \in [Files -> SUBSET Numbers]
    BY <1>1, <1>10, <2>1 DEF Publish, StoreTypes, Locals
  <2> QED
    BY <2>2, <2>3 DEF StoreTypes
<1>13. CASE Patch(t)
  <2>1. FileOf(t) \in Files
    BY <1>0, <1>13 DEF Patch, Looked, Places
  <2>2. UNCHANGED <<primes, log, wal, lastApplied>>
    BY <1>13 DEF Patch, log_vars
  <2>3. ASSUME NEW ns \in SUBSET loc[t].unseen,
               disk' = [disk EXCEPT ![FileOf(t)] = [exists |-> TRUE, nums |-> @.nums \cup ns]]
        PROVE  StoreTypes'
    <3>1. [exists |-> TRUE, nums |-> disk[FileOf(t)].nums \cup ns] \in DiskFiles
      BY <1>1, <2>1, <2>3 DEF StoreTypes, DiskFiles, Locals
    <3> QED
      BY <1>3, <2>1, <2>2, <2>3, <3>1
  <2>4. CASE UNCHANGED disk
    BY <2>2, <2>4 DEF StoreTypes
  <2> QED
    BY <1>13, <2>3, <2>4 DEF Patch
<1>11. CASE Forget(t)
  <2>1. FileOf(t) \in Files
    BY <1>0, <1>11 DEF Forget, Looked, Places
  <2> QED
    BY <1>1, <1>11, <2>1 DEF Forget, StoreTypes, log_vars
<1>12. CASE \/ Repeated(t) \/ Begin(t) \/ Unregistered(t) \/ getFileEntry(t) \/ AcquireWrite(t)
            \/ OpenFile(t) \/ Register(t) \/ Reject(t) \/ Prepare(t) \/ NoMajority(t)
            \/ Collect(t) \/ NewVersion(t) \/ DropClient(t) \/ Finish(t)
            \/ AlreadyDeleted(t) \/ Stat(t) \/ Find(t) \/ TryLock(t)
            \/ Lookup(t) \/ ReadVersion(t) \/ Read(t)
  <2>1. UNCHANGED store_vars
    BY <1>12 DEF Repeated, Begin, Unregistered, getFileEntry, AcquireWrite, OpenFile, Register,
      Reject, Prepare, NoMajority, Collect, NewVersion, DropClient, Finish, AlreadyDeleted, Stat,
      Find, TryLock, Lookup, ReadVersion, Read
  <2> QED
    BY <1>2, <2>1
<1> QED
  BY <1>5, <1>6, <1>7, <1>8, <1>9, <1>10, <1>11, <1>12, <1>13 DEF Serve
\* Descriptors are added and never freed; what is opened under one does not change.
LEMMA DescriptorStep ==
    ASSUME NEW t \in Threads, ServerTypes(t), Serve(t)
    PROVE  /\ fds' \in Seq(Descriptors) /\ Len(fds') <= MaxOpenFiles /\ Len(fds) <= Len(fds')
           /\ \A n \in 1 .. Len(fds) : /\ fds'[n].file = fds[n].file
                                       /\ fds'[n].client = fds[n].client
                                       /\ fds'[n].mode = fds[n].mode
<1> USE DEF ServerTypes
<1>0. /\ fds \in Seq(Descriptors) /\ Len(fds) <= MaxOpenFiles /\ Len(fds) \in Nat
      /\ MaxOpenFiles \in Nat
  BY ServiceAssumption DEF TableTypes
<1>1. CASE UNCHANGED fds
  BY <1>0, <1>1
<1> DEFINE Forgotten(n) == fds' = [fds EXCEPT ![n].registered = FALSE]
<1>2. ASSUME NEW n \in 1 .. Len(fds), Forgotten(n)
      PROVE  /\ fds' \in Seq(Descriptors) /\ Len(fds') = Len(fds)
             /\ \A m \in 1 .. Len(fds) : /\ fds'[m].file = fds[m].file
                                         /\ fds'[m].client = fds[m].client
                                         /\ fds'[m].mode = fds[m].mode
  <2> DEFINE d == [fds[n] EXCEPT !.registered = FALSE]
  <2>1. d \in Descriptors /\ d.file = fds[n].file /\ d.client = fds[n].client /\ d.mode = fds[n].mode
    <3>1. fds[n] \in Descriptors
      BY <1>0
    <3> QED
      BY <3>1 DEF Descriptors
  <2>2. fds' = [fds EXCEPT ![n] = d]
    BY <1>2
  <2> HIDE DEF d
  <2>3. fds' \in Seq(Descriptors) /\ Len(fds') = Len(fds)
    BY <1>0, <2>1, <2>2
  <2> QED
    BY <1>0, <2>1, <2>2, <2>3
<1> HIDE DEF Forgotten
<1>3. CASE Register(t)
  <2> DEFINE d == [file |-> FileOf(t), client |-> call[t].client, mode |-> call[t].mode,
                   registered |-> TRUE]
  <2>1. d \in Descriptors
    <3>1. FileOf(t) \in Files /\ call[t] \in Calls
      BY <1>3, FileKnown DEF Register, ThreadTypes, Looked, Places
    <3> QED
      BY <3>1 DEF Descriptors, Calls
  <2>2. fds' = Append(fds, d) /\ ~(Len(fds) >= MaxOpenFiles)
    BY <1>3 DEF Register, Full
  <2> HIDE DEF d
  <2> QED
    BY <1>0, <2>1, <2>2
<1>4. CASE DropClient(t)
  <2>1. Forgotten(call[t].fd + 1)
    BY <1>4 DEF DropClient, Forgotten
  <2>2. call[t].fd + 1 \in 1 .. Len(fds)
    BY <1>0, <1>4 DEF DropClient, Refers, ThreadTypes, Calls, Looked, Places
  <2> QED
    BY <1>0, <1>2, <2>1, <2>2
<1>5. CASE Read(t)
  <2>1. CASE UNCHANGED fds
    BY <1>1, <2>1
  <2>2. ASSUME NEW n \in LastOpened(call[t].client, call[t].file), Forgotten(n)
        PROVE  /\ fds' \in Seq(Descriptors) /\ Len(fds') = Len(fds)
               /\ \A m \in 1 .. Len(fds) : /\ fds'[m].file = fds[m].file
                                           /\ fds'[m].client = fds[m].client
                                           /\ fds'[m].mode = fds[m].mode
    <3>1. n \in 1 .. Len(fds)
      BY <1>0 DEF LastOpened
    <3> QED
      BY <1>2, <2>2, <3>1
  <2> QED
    BY <1>0, <1>5, <2>1, <2>2 DEF Read, Forgotten
<1>6. CASE \/ Repeated(t) \/ Begin(t) \/ Unregistered(t) \/ getFileEntry(t) \/ AcquireWrite(t)
           \/ CreateFile(t) \/ OpenFile(t) \/ TooManyOpenFiles(t) \/ Reject(t) \/ Prepare(t)
           \/ AppendLog(t) \/ Commit(t) \/ NoMajority(t) \/ Collect(t) \/ Patch(t) \/ Publish(t)
           \/ NewVersion(t) \/ Finish(t)
           \/ AlreadyDeleted(t) \/ Stat(t) \/ Find(t) \/ TryLock(t) \/ Remove(t) \/ Forget(t)
           \/ Lookup(t) \/ ReadVersion(t)
  <2>1. UNCHANGED fds
    BY <1>6 DEF Repeated, Begin, Unregistered, getFileEntry, AcquireWrite, CreateFile, OpenFile,
      TooManyOpenFiles, Reject, Prepare, AppendLog, Commit, NoMajority, Collect, Patch, Publish,
      NewVersion, Finish, AlreadyDeleted, Stat, Find, TryLock, Remove, Forget, Lookup, ReadVersion, table_vars
  <2> QED
    BY <1>1, <2>1
<1> QED
  BY <1>3, <1>4, <1>5, <1>6 DEF Serve

-------------------------------------------------------------------------------
(* Objects *)

\* The object k has its lock taken (b) or free, and nothing else happens to objects.
Locked(k, b) ==
    /\ entries' \in Seq(Objects) /\ Len(entries') = Len(entries)
    /\ \A j \in 1 .. Len(entries) :
          /\ entries'[j].version = entries[j].version
          /\ j # k => entries'[j].writer = entries[j].writer
    /\ entries'[k].writer = b

LEMMA LockChanged ==
    ASSUME TableTypes, NEW k \in 1 .. Len(entries), NEW b \in BOOLEAN,
           entries' = [entries EXCEPT ![k].writer = b]
    PROVE  Locked(k, b)
<1> DEFINE o == [entries[k] EXCEPT !.writer = b]
<1>0. entries \in Seq(Objects) /\ Len(entries) \in Nat
  BY DEF TableTypes
<1>1. o \in Objects /\ o.version = entries[k].version /\ o.writer = b
  <2>1. entries[k] \in Objects
    BY <1>0
  <2> QED
    BY <2>1 DEF Objects
<1>2. entries' = [entries EXCEPT ![k] = o]
  OBVIOUS
<1> HIDE DEF o
<1>3. entries' \in Seq(Objects) /\ Len(entries') = Len(entries)
  BY <1>0, <1>1, <1>2
<1> QED
  BY <1>0, <1>1, <1>2, <1>3 DEF Locked

\* The steps that neither change an object nor the table.
Looking(t) == \/ Repeated(t) \/ Begin(t) \/ Unregistered(t) \/ OpenFile(t)
              \/ Prepare(t) \/ Commit(t) \/ Collect(t) \/ Publish(t) \/ DropClient(t)
              \/ AlreadyDeleted(t) \/ Stat(t) \/ Find(t)
              \/ Lookup(t) \/ ReadVersion(t) \/ Read(t)

\* The steps after which the handler returns if there is an error.
Trying(t) == CreateFile(t) \/ AppendLog(t) \/ Patch(t) \/ Remove(t)

Staying(t) == \/ Looking(t)
              \/ Trying(t) /\ pc'[t] # "done"
              \/ (Register(t) \/ TooManyOpenFiles(t)) /\ call[t].op = "Open"
              \/ TryLock(t) /\ Entry(t).writer
              \/ Finish(t) /\ ~call[t].dirty

LEMMA StayingSteps ==
    ASSUME NEW t \in Threads, ServerTypes(t), Staying(t)
    PROVE  /\ UNCHANGED <<entries, table>>
           /\ Holding(t)' => Holding(t) /\ loc'[t].entry = loc[t].entry
           /\ pc'[t] \in Found =>
                 \/ pc[t] \in Found /\ loc'[t].entry = loc[t].entry
                 \/ /\ FileOf(t) \in Files /\ table[FileOf(t)] # 0
                    /\ loc'[t].entry = table[FileOf(t)]
           /\ pc'[t] \in Deleting => pc[t] \in Deleting \/ call[t].op = "Delete"
           /\ pc'[t] \in Compared /\ Holding(t)' =>
                 \/ pc[t] \in Compared
                 \/ pc[t] = "check" /\ call[t].version = Entry(t).version
<1> USE DEF ServerTypes, ThreadTypes, Places, Looked, Found, Deleting, Compared, Goto, Return, Holding
<1>1. CASE Repeated(t) \/ Begin(t) \/ Unregistered(t)
  BY <1>1, OthersStay DEF Repeated, Begin, Unregistered, table_vars
<1>2. CASE OpenFile(t)
  BY <1>2 DEF OpenFile, Refers, table_vars
<1>3. CASE Prepare(t)
  <2>1. loc' = [loc EXCEPT ![t].nums = ToStore(t), ![t].index = Len(log) + 1]
    BY <1>3 DEF Prepare
  <2>2. loc'[t].entry = loc[t].entry
    <3>1. loc \in [Threads -> Locals] /\ loc[t] \in Locals
      OBVIOUS
    <3> QED
      BY <2>1, <3>1 DEF Locals
  <2> QED
    BY <1>3, <2>2 DEF Prepare, Conflict, table_vars
<1>4. CASE Collect(t)
  <2>1. loc'[t].entry = loc[t].entry
    <3>1. loc \in [Threads -> Locals] /\ loc[t] \in Locals
      OBVIOUS
    <3> QED
      BY <1>4, <3>1 DEF Collect, Locals
  <2> QED
    BY <1>4, <2>1 DEF Collect, table_vars
<1>5. CASE Commit(t) \/ Publish(t)
  BY <1>5 DEF Commit, Publish, table_vars
<1>6. CASE AlreadyDeleted(t) \/ Stat(t) \/ DropClient(t)
  BY <1>6 DEF AlreadyDeleted, Stat, DropClient, table_vars
<1>7. CASE Find(t)
  <2>1. loc'[t].entry = table[FileOf(t)] /\ table[FileOf(t)] # 0
    BY <1>7 DEF Find, Locals
  <2>2. FileOf(t) \in Files
    BY <1>7, FileKnown DEF Find
  <2> QED
    BY <1>7, <2>1, <2>2 DEF Find, table_vars
<1>8. CASE Lookup(t)
  <2>1. pc'[t] = "version" => loc'[t].entry = table[FileOf(t)] /\ table[FileOf(t)] # 0
    BY <1>8 DEF Lookup, Locals
  <2>2. FileOf(t) \in Files
    BY <1>8 DEF Lookup, FileOf, Calls
  <2> QED
    BY <1>8, <2>1, <2>2 DEF Lookup, table_vars
<1>9. CASE ReadVersion(t) \/ Read(t)
  BY <1>9 DEF ReadVersion, Read, table_vars
<1>10. CASE Trying(t) /\ pc'[t] # "done"
  BY <1>10 DEF Trying, CreateFile, AppendLog, Patch, Remove, ReleaseAndReturn, table_vars
<1>11. CASE (Register(t) \/ TooManyOpenFiles(t)) /\ call[t].op = "Open"
  BY <1>11 DEF Register, TooManyOpenFiles
<1>12. CASE TryLock(t) /\ Entry(t).writer
  BY <1>12 DEF TryLock
<1>13. CASE Finish(t) /\ ~call[t].dirty
  BY <1>13 DEF Finish
<1> QED
  BY <1>1, <1>2, <1>3, <1>4, <1>5, <1>6, <1>7, <1>8, <1>9, <1>10, <1>11, <1>12, <1>13
  DEF Staying, Looking

\* The steps that take the lock of their object, when it is free.
Acquiring(t) == AcquireWrite(t) \/ (TryLock(t) /\ ~Entry(t).writer)

LEMMA AcquiringSteps ==
    ASSUME NEW t \in Threads, ServerTypes(t), Acquiring(t)
    PROVE  /\ Locked(loc[t].entry, TRUE) /\ ~Entry(t).writer
           /\ UNCHANGED <<loc, table>>
           /\ pc[t] \in {"lock", "try"} /\ pc'[t] \in {"create", "check", "remove"}
           /\ pc'[t] = "remove" => pc[t] = "try"
<1>1. /\ pc[t] \in {"lock", "try"} /\ ~Entry(t).writer /\ UNCHANGED <<loc, table>>
      /\ entries' = [entries EXCEPT ![loc[t].entry].writer = TRUE]
      /\ \/ Goto(t, "create") \/ Goto(t, "check")
         \/ pc[t] = "try" /\ Goto(t, "remove")
  BY DEF Acquiring, AcquireWrite, TryLock
<1>2. loc[t].entry \in 1 .. Len(entries)
  BY <1>1 DEF ServerTypes, Refers, Found, Looked, Places
<1>3. Locked(loc[t].entry, TRUE)
  BY <1>1, <1>2, LockChanged DEF ServerTypes
<1> QED
  BY <1>1, <1>3 DEF Goto, ServerTypes, ThreadTypes

\* The steps that release the lock of their object, early or when they are done.
Releasing(t) == \/ Trying(t) /\ pc'[t] = "done"
                \/ TooManyOpenFiles(t) /\ call[t].op = "Create"
                \/ Finish(t) /\ call[t].dirty
                \/ Reject(t)
                \/ NoMajority(t)
                \/ Forget(t)

LEMMA ReleasingSteps ==
    ASSUME NEW t \in Threads, ServerTypes(t), Releasing(t)
    PROVE  /\ Locked(loc[t].entry, FALSE) /\ pc[t] \in Found /\ Holding(t)
           /\ pc'[t] = "done" /\ loc' = loc
           /\ Forget(t) \/ UNCHANGED table
<1>1. pc[t] \in Found /\ loc' = loc /\ Holding(t)
  BY DEF Releasing, Trying, CreateFile, AppendLog, Patch, Remove, TooManyOpenFiles, Reject,
    NoMajority, Finish, Forget, Found, Looked, Places, Holding
<1>2. \E r : ReleaseAndReturn(t, r)
  <2>1. CASE Trying(t) /\ pc'[t] = "done"
    BY <2>1 DEF Trying, CreateFile, AppendLog, Patch, Remove, Goto, ServerTypes, ThreadTypes
  <2> QED
    BY <2>1 DEF Releasing, TooManyOpenFiles, Reject, NoMajority, Finish, Forget
<1>3. loc[t].entry \in 1 .. Len(entries)
  BY <1>1 DEF ServerTypes, Refers
<1>4. Locked(loc[t].entry, FALSE) /\ pc'[t] = "done"
  BY <1>2, <1>3, LockChanged DEF ReleaseAndReturn, Return, ServerTypes, ThreadTypes
<1>5. Forget(t) \/ UNCHANGED table
  BY DEF Releasing, Trying, CreateFile, AppendLog, Patch, Remove, TooManyOpenFiles, Reject,
    NoMajority, Finish, table_vars
<1> QED
  BY <1>1, <1>4, <1>5
\* getFileEntry finds the object of the table, or makes one for it.
LEMMA ObjectFound ==
    ASSUME NEW t \in Threads, ServerTypes(t), getFileEntry(t)
    PROVE  /\ entries' \in Seq(Objects) /\ Len(entries) <= Len(entries')
           /\ \A k \in 1 .. Len(entries) : entries'[k] = entries[k]
           /\ table' \in [Files -> Nat]
           /\ loc'[t].entry = table'[FileOf(t)] /\ loc'[t].entry \in 1 .. Len(entries')
           /\ \A f \in Files : table[f] # 0 \/ f # FileOf(t) => table'[f] = table[f]
           /\ pc'[t] \in {"open", "lock", "version"} /\ ~Holding(t)'
           /\ pc'[t] = "open" => call[t].op = "Open"
<1> DEFINE f == FileOf(t)
<1>0. /\ entries \in Seq(Objects) /\ Len(entries) \in Nat /\ table \in [Files -> Nat]
      /\ f \in Files /\ table[f] <= Len(entries) /\ loc \in [Threads -> Locals]
  <2>1. pc[t] \in Looked
    BY DEF getFileEntry, Looked, Places
  <2>2. f \in Files
    BY <2>1, FileKnown DEF ServerTypes
  <2> QED
    BY <2>2 DEF ServerTypes, TableTypes, ThreadTypes
<1>1. pc'[t] \in {"open", "lock", "version"} /\ ~Holding(t)' /\ (pc'[t] = "open" => call[t].op = "Open")
  BY DEF getFileEntry, Goto, Holding, ServerTypes, ThreadTypes
<1> HIDE DEF f
<1>2. CASE table[f] # 0 /\ loc' = [loc EXCEPT ![t].entry = table[f]] /\ UNCHANGED <<entries, table>>
  <2>1. loc'[t].entry = table[f]
    BY <1>0, <1>2 DEF Locals
  <2> QED
    BY <1>0, <1>1, <1>2, <2>1 DEF f
<1>3. CASE /\ table[f] = 0
           /\ entries' = Append(entries, [version |-> 1, writer |-> FALSE])
           /\ table' = [table EXCEPT ![f] = Len(entries) + 1]
           /\ loc' = [loc EXCEPT ![t].entry = Len(entries) + 1]
  <2>1. [version |-> 1, writer |-> FALSE] \in Objects
    BY DEF Objects
  <2>2. loc'[t].entry = Len(entries) + 1
    BY <1>0, <1>3 DEF Locals
  <2>3. /\ entries' \in Seq(Objects) /\ Len(entries') = Len(entries) + 1
        /\ \A k \in 1 .. Len(entries) : entries'[k] = entries[k]
    BY <1>0, <1>3, <2>1
  <2> QED
    BY <1>0, <1>1, <1>3, <2>2, <2>3 DEF f
<1> QED
  BY <1>2, <1>3 DEF getFileEntry, f

\* Create ends: the object has version 0, and its lock is free.
LEMMA ObjectReset ==
    ASSUME NEW t \in Threads, ServerTypes(t), Register(t), call[t].op = "Create"
    PROVE  /\ entries' \in Seq(Objects) /\ Len(entries') = Len(entries)
           /\ \A k \in 1 .. Len(entries) : k # loc[t].entry => entries'[k] = entries[k]
           /\ entries'[loc[t].entry] = [version |-> 0, writer |-> FALSE]
           /\ UNCHANGED <<loc, table>> /\ Holding(t) /\ pc'[t] = "done"
<1>1. entries' = [entries EXCEPT ![loc[t].entry] = [version |-> 0, writer |-> FALSE]]
  BY DEF Register
<1>2. loc[t].entry \in 1 .. Len(entries) /\ entries \in Seq(Objects)
  BY DEF Register, ServerTypes, TableTypes, Refers, Found, Looked, Places
<1>3. [version |-> 0, writer |-> FALSE] \in Objects
  BY DEF Objects
<1>4. UNCHANGED <<loc, table>> /\ Holding(t) /\ pc'[t] = "done"
  BY DEF Register, Holding, Return, ServerTypes, ThreadTypes
<1> QED
  BY <1>1, <1>2, <1>3, <1>4

\* Close and Write move the version of their object if they have stored anything.
LEMMA ObjectUpdated ==
    ASSUME NEW t \in Threads, ServerTypes(t), NewVersion(t)
    PROVE  /\ entries' \in Seq(Objects) /\ Len(entries') = Len(entries)
           /\ \A k \in 1 .. Len(entries) :
                 /\ k # loc[t].entry => entries'[k] = entries[k]
                 /\ entries'[k].writer = entries[k].writer
           /\ call[t].dirty => entries'[loc[t].entry].version = Entry(t).version + 1
           /\ ~call[t].dirty => entries' = entries
           /\ UNCHANGED <<loc, table>> /\ pc[t] = "version" /\ pc'[t] \in {"drop", "finish"}
           /\ call[t].dirty => Holding(t)
<1> DEFINE k == loc[t].entry
           v == Entry(t).version + (IF call[t].dirty THEN 1 ELSE 0)
           o == [entries[k] EXCEPT !.version = v]
<1>1. entries' = [entries EXCEPT ![k] = o]
  BY DEF NewVersion
<1>2. k \in 1 .. Len(entries) /\ entries \in Seq(Objects) /\ entries[k] \in Objects
  BY DEF NewVersion, ServerTypes, TableTypes, Refers, Found, Looked, Places
<1>3. v \in Nat
  BY <1>2 DEF Entry, Objects
<1>4. /\ UNCHANGED <<loc, table>> /\ pc[t] = "version" /\ pc'[t] \in {"drop", "finish"}
      /\ call[t].dirty => Holding(t)
  BY DEF NewVersion, Holding, ServerTypes, ThreadTypes
<1>5. /\ call[t].dirty => v = Entry(t).version + 1
      /\ ~call[t].dirty => v = entries[k].version
  BY <1>2 DEF Entry, Objects
<1> HIDE DEF v
<1>6. o \in Objects /\ o.version = v /\ o.writer = entries[k].writer
  BY <1>2, <1>3 DEF Objects
<1>7. ~call[t].dirty => o = entries[k]
  BY <1>2, <1>5 DEF Objects
<1> HIDE DEF o
<1>8. entries' \in Seq(Objects) /\ Len(entries') = Len(entries)
  BY <1>1, <1>2, <1>6
<1>9. ~call[t].dirty => entries' = entries
  BY <1>1, <1>2, <1>7
<1> QED
  BY <1>1, <1>2, <1>4, <1>5, <1>6, <1>8, <1>9

\* These are all the steps of a handler.
LEMMA ServeCases ==
    ASSUME NEW t \in Threads, ServerTypes(t), Serve(t)
    PROVE  \/ Staying(t) \/ Acquiring(t) \/ Releasing(t) \/ getFileEntry(t)
           \/ Register(t) /\ call[t].op = "Create"
           \/ NewVersion(t)
<1>1. CASE Register(t) \/ TooManyOpenFiles(t)
  BY <1>1 DEF Register, TooManyOpenFiles, Staying, Releasing
<1>2. CASE CreateFile(t) \/ AppendLog(t) \/ Patch(t) \/ Remove(t)
  BY <1>2 DEF Trying, Staying, Releasing
<1>3. CASE TryLock(t) \/ Finish(t)
  BY <1>3 DEF TryLock, Finish, Staying, Releasing, Acquiring
<1> QED
  BY <1>1, <1>2, <1>3 DEF Serve, Staying, Looking, Acquiring, Releasing
-------------------------------------------------------------------------------
(* Types are kept *)

LEMMA ReplyTypes ==
    /\ \A st \in Statuses : Reply(st) \in Replies
    /\ \A v \in Nat : Versioned("ok", v) \in Replies
    /\ \A n, v \in Nat : Descriptor(n, v) \in Replies
    /\ \A v \in Nat : Versioned("ok", v).status = "ok"
<1>1. \A st \in Statuses : Reply(st) \in Replies
  BY DEF Reply, Replies
<1>2. \A v \in Nat : Versioned("ok", v) = [status |-> "ok", fd |-> 0, version |-> v]
  BY DEF Versioned, Reply
<1>3. \A n, v \in Nat : Descriptor(n, v) = [status |-> "ok", fd |-> n, version |-> v]
  BY <1>2 DEF Descriptor
<1>4. \A n, v \in Nat : [status |-> "ok", fd |-> n, version |-> v] \in Replies
  BY DEF Replies, Statuses
<1> QED
  BY <1>1, <1>2, <1>3, <1>4

\* The answers of a handler, and those the server keeps.
LEMMA AnswerStep ==
    ASSUME NEW t \in Threads, ServerTypes(t), Serve(t)
    PROVE  /\ requests' \subseteq Answers /\ reply' \in [Threads -> Replies]
           /\ \A q \in requests' : q \in requests \/ q.id = call[t].id
<1> USE DEF ServerTypes
<1>0. /\ requests \subseteq Answers /\ reply \in [Threads -> Replies] /\ Len(fds) \in Nat
      /\ call[t].id \in Nat /\ Reply("ok") \in Replies
      /\ \A st \in {"exists", "notfound", "denied", "conflict", "inuse", "exhausted", "unavailable",
                     "internal"} :
            Reply(st) \in Replies
  BY ReplyTypes DEF TableTypes, ThreadTypes, Calls, Statuses
<1>1. pc[t] \in Found => Entry(t).version \in Nat
  <2> SUFFICES ASSUME pc[t] \in Found PROVE Entry(t).version \in Nat
    OBVIOUS
  <2>1. entries[loc[t].entry] \in Objects
    BY DEF TableTypes, Refers
  <2> QED
    BY <2>1 DEF Entry, Objects
<1>2. ASSUME NEW r \in Replies, Keep(t, r)
      PROVE  requests' \subseteq Answers /\ \A q \in requests' : q \in requests \/ q.id = call[t].id
  BY <1>0, <1>2 DEF Keep, Answers
<1>3. ASSUME NEW r \in Replies, reply' = [reply EXCEPT ![t] = r]
      PROVE  reply' \in [Threads -> Replies]
  BY <1>0, <1>3
<1>4. CASE \/ Begin(t) \/ Unregistered(t) \/ getFileEntry(t) \/ AcquireWrite(t)
           \/ Prepare(t) \/ Commit(t) \/ Collect(t) \/ Publish(t) \/ DropClient(t)
           \/ Stat(t) \/ Find(t)
  <2>1. requests' = requests
    BY <1>4 DEF Begin, Unregistered, getFileEntry, AcquireWrite, Prepare, Commit,
      Collect, Publish, DropClient, Stat, Find, table_vars
  <2>2. reply' = reply \/ reply' = [reply EXCEPT ![t] = Reply("notfound")]
    BY <1>4 DEF Begin, Unregistered, getFileEntry, AcquireWrite, Prepare, Commit,
      Collect, Publish, DropClient, Stat, Find, Goto, Return
  <2> QED
    BY <1>0, <2>1, <2>2
<1>5. CASE Repeated(t)
  <2>1. CachedReply(call[t].id) \in Replies
    BY <1>0, <1>5 DEF Repeated, Cached, CachedReply, Answers
  <2> QED
    BY <1>0, <1>3, <1>5, <2>1 DEF Repeated, Return, table_vars
<1>6. CASE \/ CreateFile(t) \/ OpenFile(t) \/ TooManyOpenFiles(t) \/ Reject(t) \/ NoMajority(t)
           \/ AppendLog(t) \/ Patch(t) \/ Remove(t) \/ TryLock(t) \/ Read(t)
  <2>1. requests' = requests
    BY <1>6 DEF CreateFile, OpenFile, TooManyOpenFiles, Reject, NoMajority, AppendLog, Patch,
      Remove, TryLock, Read, table_vars
  <2>2. \/ reply' = reply
        \/ \E st \in {"ok", "exists", "notfound", "denied", "conflict", "inuse", "exhausted",
                      "unavailable", "internal"} : reply' = [reply EXCEPT ![t] = Reply(st)]
    BY <1>6 DEF CreateFile, OpenFile, TooManyOpenFiles, Reject, NoMajority, AppendLog, Patch,
      Remove, TryLock, Read, ReleaseAndReturn, Return, Goto
  <2> QED
    BY <1>0, <2>1, <2>2
<1>7. CASE Lookup(t)
  BY <1>0, <1>7 DEF Lookup, Return, Goto, table_vars
<1>8. CASE ReadVersion(t)
  <2>1. Versioned("ok", Entry(t).version) \in Replies
    BY <1>1, <1>8, ReplyTypes DEF ReadVersion, Found, Looked, Places
  <2> QED
    BY <1>0, <1>3, <1>8, <2>1 DEF ReadVersion, Return, table_vars
<1>9. CASE Register(t)
  <2> DEFINE v == IF call[t].op = "Create" THEN 0 ELSE Entry(t).version
             r == Descriptor(Len(fds), v)
  <2>1. v \in Nat
    BY <1>1, <1>9 DEF Register, Found, Looked, Places
  <2>2. r \in Replies
    BY <1>0, <2>1, ReplyTypes
  <2>3. Keep(t, r) /\ reply' = [reply EXCEPT ![t] = r]
    BY <1>9 DEF Register, Return
  <2> QED
    BY <1>2, <1>3, <2>2, <2>3
<1>10. CASE Finish(t)
  <2>1. reply[t] \in Replies
    BY <1>0
  <2>2. Keep(t, reply[t]) /\ reply' = [reply EXCEPT ![t] = reply[t]]
    BY <1>10 DEF Finish, ReleaseAndReturn, Return
  <2> QED
    BY <1>2, <1>3, <2>1, <2>2
<1>12. CASE NewVersion(t)
  <2> DEFINE v == Entry(t).version + (IF call[t].dirty THEN 1 ELSE 0)
  <2>1. v \in Nat
    BY <1>1, <1>12 DEF NewVersion, Found, Looked, Places
  <2>2. reply' = [reply EXCEPT ![t] = Versioned("ok", v)] /\ requests' = requests
    BY <1>12 DEF NewVersion
  <2> HIDE DEF v
  <2> QED
    BY <1>0, <1>3, <2>1, <2>2, ReplyTypes
<1>11. CASE AlreadyDeleted(t) \/ Forget(t)
  <2>1. Keep(t, Reply("ok")) /\ reply' = [reply EXCEPT ![t] = Reply("ok")]
    BY <1>11 DEF AlreadyDeleted, Forget, ReleaseAndReturn, Return
  <2> QED
    BY <1>0, <1>2, <1>3, <2>1
<1> QED
  BY <1>4, <1>5, <1>6, <1>7, <1>8, <1>9, <1>10, <1>11, <1>12 DEF Serve

LEMMA TableStep ==
    ASSUME NEW t \in Threads, ServerTypes(t), Serve(t)
    PROVE  /\ TableTypes' /\ Len(entries) <= Len(entries')
<1> USE DEF ServerTypes
<1>0. /\ entries \in Seq(Objects) /\ Len(entries) \in Nat
      /\ table \in [Files -> Nat] /\ \A f \in Files : table[f] <= Len(entries)
  BY DEF TableTypes
<1>1. hung' \in BOOLEAN
  BY DEF TableTypes, Serve, Repeated, Begin, Unregistered, getFileEntry, AcquireWrite, CreateFile,
    OpenFile, Register, TooManyOpenFiles, Reject, Prepare, AppendLog, Commit, NoMajority,
    Collect, Patch, Publish, NewVersion, DropClient, Finish, AlreadyDeleted, Stat, Find, TryLock,
    Remove, Forget, Lookup, ReadVersion, Read
<1>2. fds' \in Seq(Descriptors) /\ Len(fds') <= MaxOpenFiles
  BY DescriptorStep
<1>3. requests' \subseteq Answers
  BY AnswerStep
<1>4. /\ entries' \in Seq(Objects) /\ Len(entries) <= Len(entries')
      /\ table' \in [Files -> Nat] /\ \A f \in Files : table'[f] <= Len(entries')
  <2>1. CASE Staying(t)
    BY <1>0, <2>1, StayingSteps
  <2>2. CASE Acquiring(t)
    <3>1. entries' \in Seq(Objects) /\ Len(entries') = Len(entries) /\ table' = table
      BY <2>2, AcquiringSteps DEF Locked
    <3> QED
      BY <1>0, <3>1
  <2>3. CASE Releasing(t)
    <3>1. entries' \in Seq(Objects) /\ Len(entries') = Len(entries)
      BY <2>3, ReleasingSteps DEF Locked
    <3>2. table' = table \/ table' = [table EXCEPT ![FileOf(t)] = 0]
      BY <2>3, ReleasingSteps DEF Forget
    <3> QED
      BY <1>0, <3>1, <3>2
  <2>4. CASE getFileEntry(t)
    <3>1. /\ entries' \in Seq(Objects) /\ Len(entries) <= Len(entries') /\ Len(entries') \in Nat
          /\ table' \in [Files -> Nat]
      BY <2>4, ObjectFound
    <3>2. ASSUME NEW f \in Files PROVE table'[f] <= Len(entries')
      <4>1. table'[f] = table[f] \/ table'[f] \in 1 .. Len(entries')
        BY <2>4, ObjectFound
      <4> QED
        BY <1>0, <3>1, <4>1
    <3> QED
      BY <3>1, <3>2
  <2>5. CASE Register(t) /\ call[t].op = "Create"
    BY <1>0, <2>5, ObjectReset
  <2>6. CASE NewVersion(t)
    BY <1>0, <2>6, ObjectUpdated
  <2> QED
    BY <2>1, <2>2, <2>3, <2>4, <2>5, <2>6, ServeCases
<1> QED
  BY <1>1, <1>2, <1>3, <1>4 DEF TableTypes
\* Where a handler goes: past its beginning only with a descriptor that it has looked up.
LEMMA PlaceStep ==
    ASSUME NEW t \in Threads, ThreadTypes, Serve(t)
    PROVE  /\ pc' \in [Threads -> Places] /\ pc[t] # "idle" /\ pc'[t] # "idle"
           /\ pc'[t] \in Looked => \/ pc[t] \in Looked
                                   \/ call[t].op \notin {"Close", "Write"}
                                   \/ Known(call[t].fd)
           /\ pc'[t] = "open" => call[t].op = "Open"
           /\ pc'[t] = "drop" => call[t].op = "Close"
<1> USE DEF ThreadTypes, Goto, Return, ReleaseAndReturn, Places, Looked
<1>1. CASE Repeated(t) \/ Begin(t) \/ Unregistered(t)
  BY <1>1 DEF Repeated, Begin, Unregistered, Registered
<1>2. CASE getFileEntry(t) \/ AcquireWrite(t)
  BY <1>2 DEF getFileEntry, AcquireWrite
<1>3. CASE CreateFile(t) \/ OpenFile(t) \/ Register(t) \/ TooManyOpenFiles(t)
  BY <1>3 DEF CreateFile, OpenFile, Register, TooManyOpenFiles
<1>4. CASE Reject(t) \/ Prepare(t) \/ AppendLog(t) \/ Commit(t) \/ NoMajority(t)
  BY <1>4 DEF Reject, Prepare, AppendLog, Commit, NoMajority
<1>5. CASE Collect(t) \/ Patch(t) \/ Publish(t) \/ NewVersion(t) \/ DropClient(t) \/ Finish(t)
  BY <1>5 DEF Collect, Patch, Publish, NewVersion, DropClient, Finish
<1>6. CASE AlreadyDeleted(t) \/ Stat(t) \/ Find(t) \/ TryLock(t) \/ Remove(t) \/ Forget(t)
  BY <1>6 DEF AlreadyDeleted, Stat, Find, TryLock, Remove, Forget
<1>7. CASE Lookup(t) \/ ReadVersion(t) \/ Read(t)
  BY <1>7 DEF Lookup, ReadVersion, Read
<1> QED
  BY <1>1, <1>2, <1>3, <1>4, <1>5, <1>6, <1>7 DEF Serve

\* A handler changes its locals when it finds its object, prepares a log entry or reads.
LEMMA LocalStep ==
    ASSUME NEW t \in Threads, ServerTypes(t), Serve(t)
    PROVE  loc' \in [Threads -> Locals]
<1> USE DEF ServerTypes
<1>0. /\ loc \in [Threads -> Locals] /\ Len(log) \in Nat
      /\ call[t] \in Calls /\ loc[t] \in Locals
  BY DEF ThreadTypes, Refers, StoreTypes
<1>1. CASE loc' = loc
  BY <1>0, <1>1
<1>2. ASSUME NEW n \in Nat, loc' = [loc EXCEPT ![t].entry = n]
      PROVE  loc' \in [Threads -> Locals]
  <2>1. [loc[t] EXCEPT !.entry = n] \in Locals
    BY <1>0 DEF Locals
  <2> QED
    BY <1>0, <1>2, <2>1
<1>3. \A f \in Files : table[f] \in Nat
  BY DEF TableTypes
<1>4. CASE getFileEntry(t)
  <2>1. FileOf(t) \in Files
    BY <1>4, FileKnown DEF getFileEntry, Looked, Places
  <2>2. Len(entries) + 1 \in Nat
    BY DEF TableTypes
  <2>3. \/ loc' = [loc EXCEPT ![t].entry = table[FileOf(t)]]
        \/ loc' = [loc EXCEPT ![t].entry = Len(entries) + 1]
    BY <1>4 DEF getFileEntry
  <2> QED
    BY <1>2, <1>3, <2>1, <2>2, <2>3
<1>5. CASE Find(t)
  <2>1. FileOf(t) \in Files
    BY <1>5, FileKnown DEF Find, Looked, Places
  <2> QED
    BY <1>2, <1>3, <1>5, <2>1 DEF Find
<1>6. CASE Lookup(t)
  <2>1. FileOf(t) \in Files
    BY <1>0, <1>6 DEF Lookup, FileOf, Calls
  <2> QED
    BY <1>1, <1>2, <1>3, <1>6, <2>1 DEF Lookup
<1>7. CASE Prepare(t)
  <2> DEFINE ns == ToStore(t)
             n == Len(log) + 1
  <2>1. ns \in SUBSET Numbers
    <3>1. FileOf(t) \in Files
      BY <1>7, FileKnown DEF Prepare, Looked, Places
    <3> QED
      BY <1>0, <3>1 DEF ToStore, StoreTypes, Calls
  <2>2. n \in Nat
    BY <1>0
  <2>3. loc' = [loc EXCEPT ![t].nums = ns, ![t].index = n]
    BY <1>7 DEF Prepare
  <2> HIDE DEF ns, n
  <2>4. \A l \in Locals : [l EXCEPT !.nums = ns] \in Locals
    BY <2>1 DEF Locals
  <2>5. \A l \in Locals : [l EXCEPT !.index = n] \in Locals
    BY <2>2 DEF Locals
  <2> QED
    BY <1>0, <2>3, <2>4, <2>5
<1>10. CASE Collect(t)
  <2> DEFINE ns == primes[FileOf(t)] \cup call[t].data
             us == call[t].data \ primes[FileOf(t)]
  <2>1. ns \in SUBSET Numbers /\ us \in SUBSET Numbers
    <3>1. FileOf(t) \in Files
      BY <1>10, FileKnown DEF Collect, Looked, Places
    <3> QED
      BY <1>0, <3>1 DEF StoreTypes, Calls
  <2>2. loc' = [loc EXCEPT ![t].nums = ns, ![t].unseen = us]
    BY <1>10 DEF Collect
  <2> HIDE DEF ns, us
  <2>3. \A l \in Locals : [l EXCEPT !.nums = ns] \in Locals
    BY <2>1 DEF Locals
  <2>4. \A l \in Locals : [l EXCEPT !.unseen = us] \in Locals
    BY <2>1 DEF Locals
  <2> QED
    BY <1>0, <2>2, <2>3, <2>4
<1>8. CASE Read(t)
  <2>1. CASE loc' = loc
    BY <1>1, <2>1
  <2>2. ASSUME NEW ns \in SUBSET Numbers, loc' = [loc EXCEPT ![t].nums = ns]
        PROVE  loc' \in [Threads -> Locals]
    <3>1. [loc[t] EXCEPT !.nums = ns] \in Locals
      BY <1>0 DEF Locals
    <3> QED
      BY <1>0, <2>2, <3>1
  <2> QED
    BY <1>8, <2>1, <2>2 DEF Read
<1>9. CASE \/ Repeated(t) \/ Begin(t) \/ Unregistered(t) \/ AcquireWrite(t)
           \/ CreateFile(t) \/ OpenFile(t) \/ Register(t) \/ TooManyOpenFiles(t) \/ Reject(t)
           \/ AppendLog(t) \/ Commit(t) \/ NoMajority(t) \/ Patch(t) \/ Publish(t)
           \/ NewVersion(t) \/ DropClient(t) \/ Finish(t)
           \/ AlreadyDeleted(t) \/ Stat(t) \/ TryLock(t) \/ Remove(t) \/ Forget(t)
           \/ ReadVersion(t)
  <2>1. loc' = loc
    BY <1>9 DEF Repeated, Begin, Unregistered, AcquireWrite, CreateFile, OpenFile, Register,
      TooManyOpenFiles, Reject, AppendLog, Commit, NoMajority, Patch, Publish, NewVersion,
      DropClient, Finish, AlreadyDeleted, Stat, TryLock, Remove, Forget, ReadVersion
  <2> QED
    BY <1>1, <2>1
<1> QED
  BY <1>4, <1>5, <1>6, <1>7, <1>8, <1>9, <1>10 DEF Serve

LEMMA ThreadStep ==
    ASSUME NEW t \in Threads, ServerTypes(t), Serve(t)
    PROVE  ThreadTypes' /\ Refers(t)'
<1> USE DEF ServerTypes
<1>0. /\ Len(fds) \in Nat /\ Len(fds') \in Nat /\ Len(fds) <= Len(fds')
      /\ Len(entries) \in Nat /\ Len(entries') \in Nat /\ Len(entries) <= Len(entries')
  <2>1. TableTypes'
    BY TableStep
  <2>2. fds' \in Seq(Descriptors) /\ entries' \in Seq(Objects)
    BY <2>1 DEF TableTypes
  <2>3. fds \in Seq(Descriptors) /\ entries \in Seq(Objects)
    BY DEF TableTypes
  <2> QED
    BY <2>2, <2>3, DescriptorStep, TableStep
<1>1. call' = call /\ reply' \in [Threads -> Replies] /\ call \in [Threads -> Calls]
  BY OthersStay, AnswerStep DEF ThreadTypes
<1>2. pc' \in [Threads -> Places] /\ (pc'[t] = "open" => call[t].op = "Open")
      /\ (pc'[t] = "drop" => call[t].op = "Close")
  BY PlaceStep
<1>3. loc' \in [Threads -> Locals]
  BY <1>0, LocalStep DEF Locals
<1>4. pc'[t] \in Looked /\ call[t].op \in {"Close", "Write"} => call[t].fd + 1 <= Len(fds')
  BY <1>0, <1>1, PlaceStep DEF Refers, Known, Calls
<1>5. pc'[t] \in Found => loc'[t].entry \in 1 .. Len(entries')
  <2>0. /\ pc[t] \in Found => loc[t].entry \in 1 .. Len(entries)
        /\ \A f \in Files : table[f] \in 0 .. Len(entries)
    BY <1>0 DEF Refers, TableTypes
  <2>1. CASE Staying(t)
    BY <1>0, <2>0, <2>1, StayingSteps
  <2>2. CASE Acquiring(t)
    <3>1. pc[t] \in {"lock", "try"} /\ loc' = loc
      BY <2>2, AcquiringSteps
    <3>2. pc[t] \in Found
      BY <3>1 DEF Found, Looked, Places
    <3> QED
      BY <1>0, <2>0, <3>1, <3>2
  <2>3. CASE Releasing(t)
    BY <2>3, ReleasingSteps DEF Found, Looked
  <2>4. CASE getFileEntry(t)
    BY <2>4, ObjectFound
  <2>5. CASE Register(t) /\ call[t].op = "Create"
    BY <2>5, ObjectReset DEF Found, Looked
  <2>6. CASE NewVersion(t)
    BY <1>0, <2>0, <2>6, ObjectUpdated DEF Found, Looked, Places
  <2> QED
    BY <2>1, <2>2, <2>3, <2>4, <2>5, <2>6, ServeCases
<1> QED
  BY <1>1, <1>2, <1>3, <1>4, <1>5 DEF ThreadTypes, Refers
-------------------------------------------------------------------------------
(* Steps of the client library *)

Caches == [Clients -> [Files -> CacheEntries]]

\* The cache keeps its type when a field of an entry changes.
LEMMA CacheFields ==
    ASSUME NEW c \in Clients, NEW f \in Files, NEW K \in Caches
    PROVE  /\ \A e \in CacheEntries : [K EXCEPT ![c][f] = e] \in Caches
           /\ \A d \in SUBSET Numbers : [K EXCEPT ![c][f].data = d] \in Caches
           /\ \A v \in Nat : [K EXCEPT ![c][f].version = v] \in Caches
           /\ \A v \in Nat : [K EXCEPT ![c][f].fd = v] \in Caches
           /\ \A m \in Modes : [K EXCEPT ![c][f].mode = m] \in Caches
           /\ \A b \in BOOLEAN : [K EXCEPT ![c][f].closed = b] \in Caches
           /\ \A b \in BOOLEAN : [K EXCEPT ![c][f].dirty = b] \in Caches
           /\ \A b \in BOOLEAN : [K EXCEPT ![c][f].valid = b] \in Caches
<1>1. ASSUME NEW e \in CacheEntries PROVE [K EXCEPT ![c][f] = e] \in Caches
  <2>1. [K[c] EXCEPT ![f] = e] \in [Files -> CacheEntries]
    BY DEF Caches
  <2> QED
    BY <2>1 DEF Caches
<1>2. K[c][f] \in CacheEntries
  BY DEF Caches
<1>3. /\ \A d \in SUBSET Numbers : [K[c][f] EXCEPT !.data = d] \in CacheEntries
      /\ \A v \in Nat : [K[c][f] EXCEPT !.version = v] \in CacheEntries
      /\ \A v \in Nat : [K[c][f] EXCEPT !.fd = v] \in CacheEntries
  BY <1>2 DEF CacheEntries
<1>4. /\ \A m \in Modes : [K[c][f] EXCEPT !.mode = m] \in CacheEntries
      /\ \A b \in BOOLEAN : [K[c][f] EXCEPT !.closed = b] \in CacheEntries
      /\ \A b \in BOOLEAN : [K[c][f] EXCEPT !.dirty = b] \in CacheEntries
      /\ \A b \in BOOLEAN : [K[c][f] EXCEPT !.valid = b] \in CacheEntries
  BY <1>2 DEF CacheEntries
<1> HIDE DEF Caches, CacheEntries
<1> QED
  BY <1>1, <1>3, <1>4

LEMMA FreshEntry ==
    ASSUME NEW r \in Replies, NEW m \in Modes, NEW b \in BOOLEAN
    PROVE  Fresh(r, m, b) \in CacheEntries /\ NotCached \in CacheEntries
<1>1. NotCached \in CacheEntries
  BY DEF NotCached, CacheEntries, Modes
<1>2. r.version \in Nat /\ r.fd \in Nat
  BY DEF Replies
<1>3. \A e \in CacheEntries : [e EXCEPT !.there = TRUE] \in CacheEntries
  BY DEF CacheEntries
<1>4. \A e \in CacheEntries : [e EXCEPT !.version = r.version] \in CacheEntries
  BY <1>2 DEF CacheEntries
<1>5. \A e \in CacheEntries : [e EXCEPT !.fd = r.fd] \in CacheEntries
  BY <1>2 DEF CacheEntries
<1>6. \A e \in CacheEntries : [e EXCEPT !.mode = m] \in CacheEntries
  BY DEF CacheEntries
<1>7. \A e \in CacheEntries : [e EXCEPT !.closed = b] \in CacheEntries
  BY DEF CacheEntries
<1> QED
  BY <1>1, <1>3, <1>4, <1>5, <1>6, <1>7 DEF Fresh

\* Where a library call is after it made a request, ended, or will try again.
Moved(c) ==
    /\ at' \in [Clients -> Positions] /\ nextId' \in Nat /\ nextId <= nextId'
    /\ \A d \in Clients \ {c} : at'[d] = at[d]
    /\ at'[c].stage \in {"ready", "call"} /\ at'[c].thread = NoThread /\ at'[c].id < nextId'

LEMMA Asked ==
    ASSUME ClientTypes, NEW c \in Clients, NEW s \in Steps, NEW f \in Files, NEW m \in Modes,
           Ask(c, s, f, m)
    PROVE  /\ Moved(c) /\ at'[c].step = s /\ at'[c].file = f /\ at'[c].mode = m
           /\ at'[c].id = nextId /\ nextId' = nextId + 1 /\ at'[c].stage = "call"
<1> DEFINE a == [step |-> s, stage |-> "call", file |-> f, mode |-> m,
                 tries |-> 0, id |-> nextId, thread |-> NoThread]
           a1 == [Resting EXCEPT !.step = s]
           a2 == [a1 EXCEPT !.stage = "call"]
           a3 == [a2 EXCEPT !.file = f]
           a4 == [a3 EXCEPT !.mode = m]
<1>1. [Resting EXCEPT !.step = s, !.stage = "call", !.file = f, !.mode = m, !.id = nextId] = a
  <2>1. a1 = [step |-> s, stage |-> "ready", file |-> AFile, mode |-> "READ",
              tries |-> 0, id |-> 0, thread |-> NoThread]
    BY DEF Resting
  <2> HIDE DEF a1
  <2>2. a2 = [step |-> s, stage |-> "call", file |-> AFile, mode |-> "READ",
              tries |-> 0, id |-> 0, thread |-> NoThread]
    BY <2>1
  <2> HIDE DEF a2
  <2>3. a3 = [step |-> s, stage |-> "call", file |-> f, mode |-> "READ",
              tries |-> 0, id |-> 0, thread |-> NoThread]
    BY <2>2
  <2> HIDE DEF a3
  <2>4. a4 = [step |-> s, stage |-> "call", file |-> f, mode |-> m,
              tries |-> 0, id |-> 0, thread |-> NoThread]
    BY <2>3
  <2> HIDE DEF a4
  <2>5. [a4 EXCEPT !.id = nextId] = a
    BY <2>4
  <2> QED
    BY <2>5 DEF a1, a2, a3, a4
<1>2. at' = [at EXCEPT ![c] = a] /\ nextId' = nextId + 1
  BY <1>1 DEF Ask
<1>3. a \in Positions
  BY DEF Positions, ClientTypes
<1> QED
  BY <1>2, <1>3 DEF Moved, ClientTypes

LEMMA Ended ==
    ASSUME ClientTypes, NEW c \in Clients, End(c), at[c].id < nextId
    PROVE  Moved(c) /\ at'[c].step = "Create" /\ nextId' = nextId /\ at'[c].stage = "ready"
<1>1. AFile \in Files
  BY ServiceAssumption DEF AFile
<1>2. Resting \in Positions
  BY <1>1 DEF Resting, Positions, Steps, Modes
<1>3. at' = [at EXCEPT ![c] = Resting] /\ nextId' = nextId
  BY DEF End
<1>4. nextId \in Nat /\ at[c].id \in Nat /\ at \in [Clients -> Positions]
  BY DEF ClientTypes, Positions
<1> QED
  BY <1>2, <1>3, <1>4 DEF Moved, Resting

LEMMA Retried ==
    ASSUME ClientTypes, NEW c \in Clients, Retry(c), at[c].id < nextId
    PROVE  /\ Moved(c) /\ nextId' = nextId /\ at'[c].stage = "call"
           /\ at'[c].step = at[c].step /\ at'[c].file = at[c].file
           /\ at'[c].mode = at[c].mode /\ at'[c].id = at[c].id
<1> DEFINE a == [at[c] EXCEPT !.stage = "call", !.tries = @ + 1, !.thread = NoThread]
<1>1. at[c] \in Positions /\ at \in [Clients -> Positions] /\ nextId \in Nat
  BY DEF ClientTypes
<1>2. /\ a \in Positions /\ a.stage = "call" /\ a.thread = NoThread
      /\ a.step = at[c].step /\ a.file = at[c].file /\ a.mode = at[c].mode /\ a.id = at[c].id
  <2> DEFINE p == at[c]
             n == p.tries + 1
             a1 == [p EXCEPT !.stage = "call"]
             a2 == [a1 EXCEPT !.tries = n]
             a3 == [a2 EXCEPT !.thread = NoThread]
  <2>1. p \in Positions /\ n \in Nat
    BY <1>1 DEF Positions
  <2>2. a = a3
    OBVIOUS
  <2> HIDE DEF p, n, a
  <2>3. /\ a1 \in Positions /\ a1.stage = "call"
        /\ a1.step = p.step /\ a1.file = p.file /\ a1.mode = p.mode /\ a1.id = p.id
    BY <2>1 DEF Positions
  <2> HIDE DEF a1
  <2>4. /\ a2 \in Positions /\ a2.stage = "call"
        /\ a2.step = p.step /\ a2.file = p.file /\ a2.mode = p.mode /\ a2.id = p.id
    BY <2>1, <2>3 DEF Positions
  <2> HIDE DEF a2
  <2>5. /\ a3 \in Positions /\ a3.stage = "call" /\ a3.thread = NoThread
        /\ a3.step = p.step /\ a3.file = p.file /\ a3.mode = p.mode /\ a3.id = p.id
    BY <2>4 DEF Positions
  <2> HIDE DEF a3
  <2> QED
    BY <2>2, <2>5 DEF p
<1>3. a \in Positions
  BY <1>2
<1>4. at' = [at EXCEPT ![c] = a] /\ nextId' = nextId
  BY <1>1 DEF Retry
<1> HIDE DEF a
<1> QED
  BY <1>1, <1>2, <1>3, <1>4 DEF Moved

\* What a reply makes of the state of a client: it waits no longer, and never asks
\* for a Delete.
LEMMA HandleStep ==
    ASSUME ClientTypes, ThreadTypes, NEW c \in Clients, NEW r \in Replies, Handle(c, r),
           r.status = "ok" => at[c].thread \in Threads, at[c].id < nextId
    PROVE  cache' \in Caches /\ Moved(c) /\ at'[c].step # "Delete"
<1> DEFINE f == at[c].file
           m == at[c].mode
<1>0. /\ cache \in Caches /\ f \in Files /\ m \in Modes /\ r.version \in Nat /\ r.fd \in Nat
      /\ {"Reopen", "Open"} \subseteq Steps
  BY DEF ClientTypes, Positions, Caches, Replies, Steps
<1>1. CASE Opening(c, r)
  <2>1. Fresh(r, m, at[c].step = "Create") \in CacheEntries
    BY <1>0, FreshEntry
  <2>2. cache' \in Caches
    BY <1>0, <1>1, <2>1, CacheFields DEF Opening
  <2>3. End(c) \/ (Retry(c) /\ at[c].step \in {"Create", "Open"})
    BY <1>1 DEF Opening
  <2> QED
    BY <2>2, <2>3, Ended, Retried
<1>2. CASE Validating(c, r)
  <2>1. cache' \in Caches
    <3>1. cache' = cache \/ cache' = [cache EXCEPT ![c][f].valid = TRUE, ![c][f].mode = m]
      BY <1>2 DEF Validating
    <3> DEFINE K == [cache EXCEPT ![c][f].valid = TRUE]
    <3>2. K \in Caches
      <4> HIDE DEF f, m
      <4> QED
        BY <1>0, CacheFields
    <3>3. cache' = cache \/ cache' = [K EXCEPT ![c][f].mode = m]
      BY <3>1
    <3> HIDE DEF f, m, K
    <3>4. [K EXCEPT ![c][f].mode = m] \in Caches
      BY <1>0, <3>2, CacheFields
    <3> QED
      BY <1>0, <3>3, <3>4
  <2>2. \/ End(c)
        \/ Retry(c) /\ at[c].step = "TestAuth"
        \/ Ask(c, "Reopen", f, m)
        \/ Ask(c, "Open", f, m)
    BY <1>2 DEF Validating
  <2> QED
    BY <1>0, <2>1, <2>2, Ended, Retried, Asked
<1>3. CASE Reopening(c, r)
  <2>1. cache' = cache \/ cache' = [cache EXCEPT ![c][f].fd = r.fd, ![c][f].closed = FALSE]
    BY <1>3 DEF Reopening
  <2>2. End(c)
    BY <1>3 DEF Reopening
  <2> HIDE DEF f
  <2>3. cache' \in Caches
    BY <1>0, <2>1, CacheFields
  <2> QED
    BY <2>2, <2>3, Ended
<1>4. CASE Saving(c, r)
  <2>1. \/ cache' = cache
        \/ cache' = [cache EXCEPT ![c][f].version = r.version, ![c][f].dirty = FALSE,
                                  ![c][f].closed = TRUE, ![c][f].fd = 0]
        \/ cache' = [cache EXCEPT ![c][f].version = r.version, ![c][f].dirty = FALSE]
    BY <1>4 DEF Saving
  <2>2. End(c)
    BY <1>4 DEF Saving
  <2> DEFINE K1 == [cache EXCEPT ![c][f].version = r.version]
             K2 == [K1 EXCEPT ![c][f].dirty = FALSE]
             K3 == [K2 EXCEPT ![c][f].closed = TRUE]
             K4 == [K3 EXCEPT ![c][f].fd = 0]
  <2>3. cache' \in {cache, K2, K4}
    BY <2>1
  <2>4. cache' \in Caches
    <3> HIDE DEF f
    <3>1. K1 \in Caches
      BY <1>0, CacheFields
    <3> HIDE DEF K1
    <3>2. K2 \in Caches
      BY <1>0, <3>1, CacheFields
    <3> HIDE DEF K2
    <3>3. K3 \in Caches
      BY <1>0, <3>2, CacheFields
    <3> HIDE DEF K3
    <3>4. K4 \in Caches
      BY <1>0, <3>3, CacheFields
    <3> HIDE DEF K4
    <3> QED
      BY <1>0, <2>3, <3>2, <3>4
  <2> QED
    BY <2>2, <2>4, Ended
<1>5. CASE Erasing(c, r)
  BY <1>0, <1>5, Ended DEF Erasing
<1>6. CASE Loading(c, r)
  <2>1. \/ cache' = cache
        \/ r.status = "ok" /\ cache' = [cache EXCEPT ![c][f].data = loc[at[c].thread].nums]
    BY <1>6 DEF Loading
  <2>2. End(c)
    BY <1>6 DEF Loading
  <2> DEFINE d == loc[at[c].thread].nums
  <2>3. r.status = "ok" => d \in SUBSET Numbers
    BY DEF ThreadTypes, Locals
  <2> HIDE DEF f, d
  <2>4. r.status = "ok" => [cache EXCEPT ![c][f].data = d] \in Caches
    BY <1>0, <2>3, CacheFields
  <2>5. cache' \in Caches
    BY <1>0, <2>1, <2>4 DEF f, d
  <2> QED
    BY <2>2, <2>5, Ended
<1> QED
  BY <1>1, <1>2, <1>3, <1>4, <1>5, <1>6 DEF Handle

\* A library call moves its client, and says so when it deletes.
LEMMA ApplicationStep ==
    ASSUME ClientTypes, NEW c \in Clients, Application(c), at[c].id < nextId
    PROVE  /\ cache' \in Caches /\ Moved(c) /\ UNCHANGED <<service_vars, acked>>
           /\ deleted \subseteq deleted' /\ deleted' \subseteq Files
           /\ at'[c].step = "Delete" => at'[c].file \in deleted'
<1>1. PICK f \in Files :
        /\ \/ Create(c, f) \/ Open(c, f, "WRITE") \/ Open(c, f, "READ")
           \/ \E m \in Numbers : WriteFile(c, f, {m})
           \/ Close(c, f) \/ Save(c, f) \/ Erase(c, f) \/ Load(c, f)
        /\ deleted' = IF at'[c].step = "Delete" THEN deleted \cup {f} ELSE deleted
  BY DEF Application
<1>2. UNCHANGED <<service_vars, acked>>
  BY DEF Application
<1>3. cache \in Caches /\ "READ" \in Modes /\ "WRITE" \in Modes
      /\ {"Create", "TestAuth", "Open", "Close", "Write", "Delete", "Read"} \subseteq Steps
  BY DEF ClientTypes, Caches, Modes, Steps
<1>4. cache' \in Caches
  <2>1. ASSUME NEW m \in Numbers, WriteFile(c, f, {m}) PROVE cache' \in Caches
    <3> DEFINE d == {m}
               K == [cache EXCEPT ![c][f].data = d]
               K2 == [K EXCEPT ![c][f].dirty = TRUE]
    <3>1. cache' = [K2 EXCEPT ![c][f].valid = FALSE]
      BY <2>1 DEF WriteFile
    <3>2. K \in Caches
      <4>1. d \in SUBSET Numbers
        OBVIOUS
      <4> HIDE DEF d
      <4> QED
        BY <1>3, <4>1, CacheFields
    <3> HIDE DEF K
    <3>3. K2 \in Caches
      BY <3>2, CacheFields
    <3> HIDE DEF K2
    <3> QED
      BY <3>1, <3>3, CacheFields
  <2>2. CASE Erase(c, f)
    <3>1. NotCached \in CacheEntries
      BY DEF NotCached, CacheEntries, Modes
    <3> QED
      BY <1>3, <2>2, <3>1, CacheFields DEF Erase
  <2>3. CASE Create(c, f) \/ Open(c, f, "WRITE") \/ Open(c, f, "READ") \/ Close(c, f) \/ Save(c, f)
             \/ Load(c, f)
    BY <1>3, <2>3 DEF Create, Open, Close, Save, Load
  <2> QED
    BY <1>1, <2>1, <2>2, <2>3
<1>5. \/ End(c)
      \/ \E s \in Steps, m \in Modes : Ask(c, s, f, m)
  BY <1>1, <1>3 DEF Create, Open, WriteFile, Close, Save, Erase, Load
<1>6. Moved(c) /\ (at'[c].step = "Delete" => at'[c].file = f)
  BY <1>5, Asked, Ended
<1> QED
  BY <1>1, <1>2, <1>4, <1>6 DEF ClientTypes

\* What a client sends is a request.
LEMMA RequestTypes ==
    ASSUME ClientTypes, NEW c \in Clients
    PROVE  /\ Request(c) \in Calls /\ Request(c).id = at[c].id
           /\ Request(c).op = "Delete" => at[c].step = "Delete"
           /\ Request(c).file = at[c].file
<1> DEFINE a == at[c]
           e == cache[c][a.file]
           changes == a.step \in {"Close", "Write"}
           op == IF a.step = "Reopen" THEN "Open" ELSE a.step
           fd == IF changes THEN e.fd ELSE 0
           dirty == changes /\ e.dirty
           version == IF changes THEN e.version ELSE 0
           data == IF changes /\ e.dirty THEN e.data ELSE {}
<1>1. Request(c) = [client |-> c, id |-> a.id, op |-> op, file |-> a.file, mode |-> a.mode,
                    fd |-> fd, dirty |-> dirty, version |-> version, data |-> data]
  BY DEF Request
<1>2. a \in Positions
  BY DEF ClientTypes
<1>3. a.id \in Nat /\ a.file \in Files /\ a.mode \in Modes /\ a.step \in Steps
  BY <1>2 DEF Positions
<1>4. e \in CacheEntries
  BY <1>3 DEF ClientTypes
<1>5. op \in Ops /\ (op = "Delete" => a.step = "Delete")
  BY <1>3 DEF Steps, Ops
<1>6. fd \in Nat /\ dirty \in BOOLEAN /\ version \in Nat /\ data \in SUBSET Numbers
  BY <1>4 DEF CacheEntries
<1> HIDE DEF a, e, changes, op, fd, dirty, version, data
<1>7. Request(c) \in Calls
  BY <1>1, <1>3, <1>5, <1>6 DEF Calls
<1> QED
  BY <1>1, <1>5, <1>7 DEF a

LEMMA NothingTypes ==
    NoCall \in Calls /\ NoLocals \in Locals /\ Reply("ok") \in Replies /\ Reply("unavailable") \in Replies
      /\ AFile \in Files /\ NoCall.id = 0 /\ NoCall.op = "TestAuth"
      /\ Resting \in Positions
<1>1. AFile \in Files /\ (CHOOSE c \in Clients : TRUE) \in Clients
  BY ServiceAssumption DEF AFile
<1>2. NoCall \in Calls /\ NoCall.id = 0 /\ NoCall.op = "TestAuth"
  BY <1>1 DEF NoCall, Calls, Ops, Modes
<1>3. NoLocals \in Locals
  BY DEF NoLocals, Locals
<1>4. Reply("ok") \in Replies /\ Reply("unavailable") \in Replies
  BY ReplyTypes DEF Statuses
<1>5. Resting \in Positions
  BY <1>1 DEF Resting, Positions, Steps, Modes
<1> QED
  BY <1>1, <1>2, <1>3, <1>4, <1>5

-------------------------------------------------------------------------------
(* The type invariant is kept *)

ServiceInv == /\ StoreTypes /\ TableTypes /\ ThreadTypes
              /\ \A t \in Threads : Refers(t)

\* The service as it was, or with one thread told to start or to end.
LEMMA QuietTypes ==
    ASSUME ServiceInv, UNCHANGED <<hung, table_vars, store_vars>>,
           ThreadTypes', \A t \in Threads : Refers(t)'
    PROVE  ServiceInv'
<1>1. StoreTypes'
  BY DEF ServiceInv, StoreTypes, store_vars, log_vars
<1>2. TableTypes'
  BY DEF ServiceInv, TableTypes, table_vars
<1> QED
  BY <1>1, <1>2 DEF ServiceInv

LEMMA RefersStays ==
    ASSUME NEW t \in Threads, Refers(t), UNCHANGED <<table_vars, store_vars>>,
           pc'[t] = pc[t], call'[t] = call[t], loc'[t] = loc[t]
    PROVE  Refers(t)'
  BY DEF Refers, table_vars

LEMMA AcceptTypes ==
    ASSUME ServiceInv, NEW t \in Threads, NEW c \in Calls, Accept(t, c)
    PROVE  ServiceInv' /\ pc' \in [Threads -> Places]
<1>1. /\ UNCHANGED <<hung, table_vars, store_vars, loc, reply>>
      /\ pc' = [pc EXCEPT ![t] = "start"] /\ call' = [call EXCEPT ![t] = c]
  BY DEF Accept
<1>2. ThreadTypes'
  BY <1>1 DEF ServiceInv, ThreadTypes, Places
<1>3. ASSUME NEW u \in Threads PROVE Refers(u)'
  <2>1. CASE u = t
    <3>1. pc'[t] = "start"
      BY <1>1 DEF ServiceInv, ThreadTypes
    <3> QED
      BY <2>1, <3>1 DEF Refers, Looked, Found
  <2>2. CASE u # t
    BY <1>1, <2>2, RefersStays DEF ServiceInv, ThreadTypes
  <2> QED
    BY <2>1, <2>2
<1> QED
  BY <1>1, <1>2, <1>3, QuietTypes DEF ThreadTypes

LEMMA LeaveTypes ==
    ASSUME ServiceInv, NEW t \in Threads, Leave(t)
    PROVE  /\ ServiceInv'
           /\ pc' = [pc EXCEPT ![t] = "idle"] /\ call' = [call EXCEPT ![t] = NoCall]
           /\ UNCHANGED <<table_vars, store_vars>>
<1>1. /\ UNCHANGED <<hung, table_vars, store_vars>>
      /\ pc' = [pc EXCEPT ![t] = "idle"] /\ call' = [call EXCEPT ![t] = NoCall]
      /\ loc' = [loc EXCEPT ![t] = NoLocals] /\ reply' = [reply EXCEPT ![t] = Reply("ok")]
  BY DEF Leave
<1>2. ThreadTypes'
  BY <1>1, NothingTypes DEF ServiceInv, ThreadTypes, Places
<1>3. ASSUME NEW u \in Threads PROVE Refers(u)'
  <2>1. CASE u = t
    <3>1. pc'[t] = "idle"
      BY <1>1 DEF ServiceInv, ThreadTypes
    <3> QED
      BY <2>1, <3>1 DEF Refers, Looked, Found
  <2>2. CASE u # t
    BY <1>1, <2>2, RefersStays DEF ServiceInv, ThreadTypes
  <2> QED
    BY <2>1, <2>2
<1> QED
  BY <1>1, <1>2, <1>3, QuietTypes

LEMMA RestartTypes ==
    ASSUME ServiceInv, Restart
    PROVE  ServiceInv' /\ requests' = {} /\ call' = call
             /\ \A t \in Threads : pc[t] # "idle" => pc'[t] # "idle"
<1>0. /\ wal \in Seq(LogEntries) /\ Len(wal) \in Nat /\ UNCHANGED <<wal, call, loc>> /\ log' = wal
      /\ \A i \in 1 .. Len(wal) : wal[i] \in LogEntries
  BY DEF ServiceInv, StoreTypes, Restart
<1>1. StoreTypes'
  <2> DEFINE I == {wal[i].index : i \in DOMAIN wal} \cup {0}
             last == CHOOSE x \in I : \A y \in I : y <= x
  <2>1. I \in SUBSET Nat /\ I # {} /\ IsFiniteSet(I)
    <3> DEFINE J == {wal[i].index : i \in DOMAIN wal}
               g == [i \in DOMAIN wal |-> wal[i].index]
    <3>1. DOMAIN wal = 1 .. Len(wal)
      BY <1>0
    <3>2. J \subseteq Nat
      <4>1. \A i \in 1 .. Len(wal) : wal[i].index \in Nat
        BY <1>0 DEF LogEntries
      <4> QED
        BY <3>1, <4>1
    <3>3. IsFiniteSet(DOMAIN wal)
      BY <1>0, <3>1, FS_Interval
    <3>4. g \in Surjection(DOMAIN wal, J)
      BY DEF Surjection
    <3>5. I = J \cup {0}
      OBVIOUS
    <3> HIDE DEF I, J, g
    <3>6. IsFiniteSet(J)
      BY <3>3, <3>4, FS_Surjection
    <3>7. IsFiniteSet(J \cup {0})
      BY <3>6, FS_AddElement
    <3> QED
      BY <3>2, <3>5, <3>7
  <2>2. last \in I
    <3> HIDE DEF I
    <3>1. \E x \in I : \A y \in I : y <= x
      BY <2>1, GreatestOfFinite
    <3> QED
      BY <3>1
  <2>3. lastApplied' = last
    BY DEF Restart
  <2> HIDE DEF I, last
  <2>4. lastApplied' \in Nat
    BY <2>1, <2>2, <2>3
  <2>5. disk' \in [Files -> DiskFiles]
    <3>1. 1 \in Nat \ {0} /\ Len(wal) \in 0 .. Len(wal) /\ StoreTypes
      BY <1>0 DEF ServiceInv
    <3>2. Applied(wal, 1, Len(wal)) \in [Files -> DiskFiles]
      BY <1>0, <3>1, AppliedTypes
    <3> QED
      BY <3>2 DEF Restart
  <2>6. primes' \in [Files -> SUBSET Numbers]
    BY DEF Restart
  <2> QED
    BY <1>0, <2>4, <2>5, <2>6 DEF StoreTypes
<1>2. TableTypes'
  <2>1. /\ hung' = FALSE /\ entries' = <<>> /\ table' = [f \in Files |-> 0] /\ fds' = <<>>
        /\ requests' = {}
    BY DEF Restart
  <2>2. /\ <<>> \in Seq(Objects) /\ <<>> \in Seq(Descriptors)
        /\ Len(<<>>) = 0 /\ 0 <= MaxOpenFiles
    BY ServiceAssumption
  <2>3. \A f \in Files : table'[f] <= Len(entries')
    BY <2>1, <2>2
  <2> QED
    BY <2>1, <2>2, <2>3 DEF TableTypes
<1>3. /\ pc' = [t \in Threads |-> IF pc[t] = "idle" THEN "idle" ELSE "done"]
      /\ reply' = [t \in Threads |-> IF pc[t] = "idle" THEN reply[t] ELSE Reply("unavailable")]
  BY DEF Restart
<1>4. ThreadTypes'
  BY <1>0, <1>3, NothingTypes DEF ServiceInv, ThreadTypes, Places
<1>5. ASSUME NEW t \in Threads PROVE Refers(t)'
  <2>1. pc'[t] \in {"idle", "done"}
    BY <1>3
  <2> QED
    BY <2>1 DEF Refers, Looked, Found
<1> QED
  BY <1>0, <1>1, <1>2, <1>3, <1>4, <1>5 DEF ServiceInv, Restart

\* The clients, when one of them moved and the others' threads go on.
LEMMA ClientStep ==
    ASSUME TypeInv, NEW c \in Clients, Moved(c), cache' \in Caches,
           acked' \in [Files -> SUBSET Numbers], deleted' \subseteq Files,
           \A d \in Clients \ {c} : at[d].stage = "wait" => pc'[at[d].thread] # "idle"
    PROVE  ClientTypes' /\ \A d \in Clients : Waits(d)'
<1>1. ClientTypes'
  BY DEF Moved, Caches, ClientTypes
<1>2. ASSUME NEW d \in Clients PROVE Waits(d)'
  <2>0. Waits(d) /\ Waits(c) /\ nextId \in Nat /\ nextId' \in Nat /\ nextId <= nextId'
    BY DEF TypeInv, Moved, ClientTypes
  <2>1. at'[c].stage # "wait" /\ at'[c].thread = NoThread /\ at'[c].id < nextId'
    BY DEF Moved
  <2>2. CASE d = c
    BY <2>1, <2>2 DEF Waits
  <2>3. CASE d # c
    <3>1. at'[d] = at[d] /\ at[d].id \in Nat
      BY <2>3 DEF Moved, TypeInv, ClientTypes, Positions
    <3>2. at'[d].id < nextId'
      BY <2>0, <3>1 DEF Waits
    <3>3. \A e \in Clients : e # d /\ at'[d].stage = "wait" => at'[e].thread # at'[d].thread
      <4> SUFFICES ASSUME NEW e \in Clients, e # d, at[d].stage = "wait"
                   PROVE  at'[e].thread # at[d].thread
        BY <3>1
      <4>1. at[d].thread # NoThread /\ at[e].thread # at[d].thread
        BY <2>0 DEF Waits
      <4>2. at'[e] = at[e] \/ e = c
        BY DEF Moved
      <4> QED
        BY <2>1, <4>1, <4>2
    <3> QED
      BY <2>0, <2>3, <3>1, <3>2, <3>3 DEF Waits
  <2> QED
    BY <2>2, <2>3
<1> QED
  BY <1>1, <1>2

\* The clients, when none moved.
LEMMA ClientsStay ==
    ASSUME TypeInv, UNCHANGED <<client_vars, acked, deleted>>,
           \A d \in Clients : at[d].stage = "wait" => pc'[at[d].thread] # "idle"
    PROVE  ClientTypes' /\ \A d \in Clients : Waits(d)'
<1>1. ClientTypes'
  BY DEF TypeInv, ClientTypes, client_vars
<1>2. ASSUME NEW d \in Clients PROVE Waits(d)'
  <2>1. Waits(d)
    BY DEF TypeInv
  <2> QED
    BY <2>1 DEF Waits, client_vars
<1> QED
  BY <1>1, <1>2

\* A thread that a client waits for is a thread, and works.
LEMMA Waiting ==
    ASSUME TypeInv, NEW c \in Clients, at[c].stage = "wait"
    PROVE  at[c].thread \in Threads /\ pc[at[c].thread] # "idle"
<1>1. Waits(c) /\ at[c] \in Positions
  BY DEF TypeInv, ClientTypes
<1> QED
  BY <1>1 DEF Waits, Positions

LEMMA ApplicationTypes ==
    ASSUME TypeInv, NEW c \in Clients, Application(c)
    PROVE  TypeInv'
<1>1. /\ cache' \in Caches /\ Moved(c) /\ UNCHANGED <<service_vars, acked>> /\ deleted' \subseteq Files
  BY ApplicationStep DEF TypeInv, Waits
<1>2. ServiceInv'
  <2>1. UNCHANGED <<hung, table_vars, store_vars, pc, call, loc, reply>>
    BY <1>1 DEF service_vars, thread_vars
  <2>2. ThreadTypes'
    BY <2>1 DEF TypeInv, ThreadTypes
  <2>3. \A t \in Threads : Refers(t)'
    BY <2>1, RefersStays DEF TypeInv
  <2> QED
    BY <2>1, <2>2, <2>3, QuietTypes DEF TypeInv, ServiceInv
<1>3. \A d \in Clients \ {c} : at[d].stage = "wait" => pc'[at[d].thread] # "idle"
  BY <1>1, Waiting DEF service_vars, thread_vars
<1>4. ClientTypes' /\ \A d \in Clients : Waits(d)'
  BY <1>1, <1>3, ClientStep DEF TypeInv, ClientTypes
<1>5. IdsGiven'
  <2>1. call' = call /\ requests' = requests /\ nextId <= nextId' /\ nextId \in Nat /\ nextId' \in Nat
    BY <1>1 DEF Moved, service_vars, thread_vars, table_vars, TypeInv, ClientTypes
  <2>2. /\ \A t \in Threads : call[t].id \in Nat /\ call[t].id < nextId
        /\ \A r \in requests : r.id \in Nat /\ r.id < nextId
    BY DEF TypeInv, IdsGiven, ThreadTypes, TableTypes, Calls, Answers
  <2> QED
    BY <2>1, <2>2 DEF IdsGiven
<1> QED
  BY <1>2, <1>4, <1>5 DEF TypeInv, ServiceInv

LEMMA SendTypes ==
    ASSUME TypeInv, NEW c \in Clients, Send(c)
    PROVE  TypeInv'
<1>1. PICK t \in Threads :
        /\ Accept(t, Request(c))
        /\ at' = [at EXCEPT ![c].stage = "wait", ![c].thread = t]
  BY DEF Send
<1>2. UNCHANGED <<cache, nextId, acked, deleted, requests>> /\ at[c].stage = "call"
  BY <1>1 DEF Send, app_vars, Accept, table_vars
<1>3. Request(c) \in Calls /\ Request(c).id = at[c].id
  BY RequestTypes DEF TypeInv
<1>4. ServiceInv'
  BY <1>1, <1>3, AcceptTypes DEF TypeInv, ServiceInv
<1>5. pc[t] = "idle" /\ pc' = [pc EXCEPT ![t] = "start"] /\ call' = [call EXCEPT ![t] = Request(c)]
  BY <1>1 DEF Accept
<1> DEFINE p == [at[c] EXCEPT !.stage = "wait"]
           a == [p EXCEPT !.thread = t]
<1>6. a \in Positions /\ a.stage = "wait" /\ a.thread = t /\ a.id = at[c].id
  <2>1. at[c] \in Positions
    BY DEF TypeInv, ClientTypes
  <2>2. p \in Positions /\ p.stage = "wait" /\ p.id = at[c].id
    BY <2>1 DEF Positions
  <2> HIDE DEF p
  <2> QED
    BY <2>2 DEF Positions
<1>7. at' = [at EXCEPT ![c] = a]
  BY <1>1
<1> HIDE DEF p, a
<1>8. ClientTypes'
  BY <1>2, <1>6, <1>7 DEF TypeInv, ClientTypes
<1>9. ASSUME NEW d \in Clients PROVE Waits(d)'
  <2>0. Waits(d) /\ Waits(c) /\ t # NoThread /\ at \in [Clients -> Positions] /\ pc \in [Threads -> Places]
    BY ClientAssumption DEF TypeInv, ClientTypes, ThreadTypes
  <2>1. \A e \in Clients : at[e].stage = "wait" => at[e].thread # t /\ at[e].thread \in Threads
    BY <1>5, Waiting
  <2>2. at'[c] = a /\ \A e \in Clients \ {c} : at'[e] = at[e]
    BY <1>7, <2>0
  <2>3. CASE d = c
    <3>1. \A e \in Clients : e # c => at'[e].thread # t
      <4>1. \A e \in Clients : at[e].thread # t
        <5>1. \A e \in Clients : Waits(e)
          BY DEF TypeInv
        <5> QED
          BY <2>0, <2>1, <5>1 DEF Waits
      <4> QED
        BY <2>2, <4>1
    <3>2. pc'[t] = "start"
      BY <1>5, <2>0
    <3> QED
      BY <1>2, <1>6, <2>0, <2>2, <2>3, <3>1, <3>2 DEF Waits
  <2>4. CASE d # c
    <3>1. at'[d] = at[d]
      BY <2>2, <2>4
    <3>2. at[d].stage = "wait" => pc'[at[d].thread] # "idle"
      BY <1>5, <2>0, <2>1 DEF Waits
    <3>3. \A e \in Clients : e # d /\ at[d].stage = "wait" => at'[e].thread # at[d].thread
      BY <1>6, <2>0, <2>1, <2>2 DEF Waits
    <3> QED
      BY <1>2, <2>0, <3>1, <3>2, <3>3 DEF Waits
  <2> QED
    BY <2>3, <2>4
<1>10. IdsGiven'
  <2>1. \A u \in Threads : call'[u] = call[u] \/ call'[u] = Request(c)
    BY <1>5 DEF TypeInv, ThreadTypes
  <2>2. at[c].id < nextId
    BY DEF TypeInv, Waits
  <2> QED
    BY <1>2, <1>3, <2>1, <2>2 DEF TypeInv, IdsGiven
<1> QED
  BY <1>4, <1>8, <1>9, <1>10 DEF TypeInv, ServiceInv

\* Ids when a thread goes back to rest.
LEMMA RestIds ==
    ASSUME TypeInv, NEW t \in Threads, call' = [call EXCEPT ![t] = NoCall] \/ call' = call,
           requests' = requests, nextId <= nextId', nextId' \in Nat
    PROVE  IdsGiven'
<1>1. nextId \in Nat /\ 0 < nextId
  <2>1. PICK c \in Clients : TRUE
    BY ServiceAssumption
  <2>2. at[c].id < nextId /\ at[c].id \in Nat /\ nextId \in Nat
    BY DEF TypeInv, Waits, ClientTypes, Positions
  <2> QED
    BY <2>2
<1>2. \A u \in Threads : call[u].id \in Nat /\ call[u].id < nextId
  BY DEF TypeInv, IdsGiven, ThreadTypes, Calls
<1>3. \A r \in requests : r.id \in Nat /\ r.id < nextId
  BY DEF TypeInv, IdsGiven, TableTypes, Answers
<1>4. \A u \in Threads : call'[u] = call[u] \/ call'[u] = NoCall
  BY DEF TypeInv, ThreadTypes
<1>5. \A u \in Threads : call'[u].id < nextId'
  BY <1>1, <1>2, <1>4, NothingTypes
<1>6. \A r \in requests' : r.id < nextId'
  BY <1>1, <1>3
<1> QED
  BY <1>5, <1>6 DEF IdsGiven

LEMMA ReceiveTypes ==
    ASSUME TypeInv, NEW c \in Clients, Receive(c)
    PROVE  TypeInv'
<1> DEFINE t == at[c].thread
<1>1. /\ at[c].stage = "wait" /\ Leave(t) /\ Handle(c, reply[t]) /\ UNCHANGED deleted
      /\ acked' = IF reply[t].status = "ok" /\ call[t].op \in {"Close", "Write"}
                  THEN [acked EXCEPT ![at[c].file] = @ \cup call[t].data] ELSE acked
  BY DEF Receive
<1>2. t \in Threads
  BY <1>1, Waiting
<1>3. /\ at[c].file \in Files /\ call[t].data \in SUBSET Numbers /\ reply[t] \in Replies
      /\ at[c].id < nextId
  BY <1>2 DEF TypeInv, ClientTypes, Positions, ThreadTypes, Calls, Waits
<1>4. cache' \in Caches /\ Moved(c)
  BY <1>1, <1>2, <1>3, HandleStep DEF TypeInv
<1>5. acked' \in [Files -> SUBSET Numbers] /\ deleted' \subseteq Files
  BY <1>1, <1>3 DEF TypeInv, ClientTypes
<1>6. /\ ServiceInv' /\ requests' = requests
      /\ pc' = [pc EXCEPT ![t] = "idle"] /\ call' = [call EXCEPT ![t] = NoCall]
  BY <1>1, <1>2, LeaveTypes DEF TypeInv, ServiceInv, table_vars
<1>7. \A d \in Clients \ {c} : at[d].stage = "wait" => pc'[at[d].thread] # "idle"
  <2> SUFFICES ASSUME NEW d \in Clients, d # c, at[d].stage = "wait"
               PROVE  pc'[at[d].thread] # "idle"
    OBVIOUS
  <2>1. at[d].thread # t
    BY <1>1 DEF TypeInv, Waits
  <2>2. at[d].thread \in Threads /\ pc[at[d].thread] # "idle"
    BY Waiting
  <2> QED
    BY <1>6, <2>1, <2>2 DEF TypeInv, ThreadTypes
<1>8. ClientTypes' /\ \A d \in Clients : Waits(d)'
  BY <1>4, <1>5, <1>7, ClientStep
<1>9. IdsGiven'
  BY <1>2, <1>4, <1>6, RestIds DEF Moved
<1> QED
  BY <1>6, <1>8, <1>9 DEF TypeInv, ServiceInv

LEMMA TimeOutTypes ==
    ASSUME TypeInv, NEW c \in Clients, TimeOut(c)
    PROVE  TypeInv'
<1>1. /\ at[c].stage = "wait" /\ Handle(c, Reply("unavailable")) /\ UNCHANGED <<service_vars, acked, deleted>>
  BY DEF TimeOut, app_vars
<1>2. at[c].thread \in Threads /\ at[c].id < nextId /\ Reply("unavailable") \in Replies
  BY <1>1, Waiting, NothingTypes DEF TypeInv, Waits
<1>3. cache' \in Caches /\ Moved(c)
  BY <1>1, <1>2, HandleStep DEF TypeInv
<1>4. UNCHANGED <<hung, table_vars, store_vars, pc, call, loc, reply>> /\ requests' = requests
  BY <1>1 DEF service_vars, thread_vars, table_vars
<1>5. ServiceInv'
  <2>1. ThreadTypes'
    BY <1>4 DEF TypeInv, ThreadTypes
  <2>2. \A t \in Threads : Refers(t)'
    BY <1>4, RefersStays DEF TypeInv
  <2> QED
    BY <1>4, <2>1, <2>2, QuietTypes DEF TypeInv, ServiceInv
<1>6. \A d \in Clients \ {c} : at[d].stage = "wait" => pc'[at[d].thread] # "idle"
  BY <1>4, Waiting
<1>7. ClientTypes' /\ \A d \in Clients : Waits(d)'
  BY <1>1, <1>3, <1>6, ClientStep DEF TypeInv, ClientTypes
<1>8. IdsGiven'
  BY <1>2, <1>3, <1>4, RestIds DEF Moved
<1> QED
  BY <1>5, <1>7, <1>8 DEF TypeInv, ServiceInv

LEMMA DropTypes ==
    ASSUME TypeInv, NEW t \in Threads, Drop(t)
    PROVE  TypeInv'
<1>1. /\ \A c \in Clients : at[c].thread # t
      /\ Leave(t) /\ UNCHANGED <<client_vars, acked, deleted>>
  BY DEF Drop, app_vars
<1>2. /\ ServiceInv' /\ requests' = requests
      /\ pc' = [pc EXCEPT ![t] = "idle"] /\ call' = [call EXCEPT ![t] = NoCall]
  BY <1>1, LeaveTypes DEF TypeInv, ServiceInv, table_vars
<1>3. \A d \in Clients : at[d].stage = "wait" => pc'[at[d].thread] # "idle"
  BY <1>1, <1>2, Waiting DEF TypeInv, ThreadTypes
<1>4. ClientTypes' /\ \A d \in Clients : Waits(d)'
  BY <1>1, <1>3, ClientsStay
<1>5. IdsGiven'
  <2>1. nextId' = nextId /\ nextId \in Nat /\ nextId <= nextId
    BY <1>1 DEF TypeInv, ClientTypes, client_vars
  <2> QED
    BY <1>2, <2>1, RestIds
<1> QED
  BY <1>2, <1>4, <1>5 DEF TypeInv, ServiceInv

LEMMA ServerTypesKept ==
    ASSUME TypeInv, NEW t \in Threads, ServerSteps(t)
    PROVE  TypeInv'
<1>1. Serve(t) /\ UNCHANGED <<client_vars, acked, deleted>> /\ ServerTypes(t)
  BY DEF ServerSteps, app_vars, TypeInv, ServerTypes
<1>2. StoreTypes' /\ TableTypes' /\ ThreadTypes' /\ Refers(t)'
  BY <1>1, StoreStep, TableStep, ThreadStep
<1>3. /\ call' = call
      /\ \A u \in Threads \ {t} : pc'[u] = pc[u] /\ loc'[u] = loc[u] /\ reply'[u] = reply[u]
  BY <1>1, OthersStay DEF ServerTypes
<1>4. ASSUME NEW u \in Threads PROVE Refers(u)'
  <2>1. CASE u = t
    BY <1>2, <2>1
  <2>2. CASE u # t
    <3>1. /\ Len(fds) \in Nat /\ Len(fds') \in Nat /\ Len(fds) <= Len(fds')
          /\ Len(entries) \in Nat /\ Len(entries') \in Nat /\ Len(entries) <= Len(entries')
      <4>1. fds' \in Seq(Descriptors) /\ entries' \in Seq(Objects)
        BY <1>2 DEF TableTypes
      <4>2. fds \in Seq(Descriptors) /\ entries \in Seq(Objects)
        BY DEF TypeInv, TableTypes
      <4> QED
        BY <1>1, <4>1, <4>2, DescriptorStep, TableStep
    <3>2. Refers(u) /\ call[u].fd \in Nat
      BY DEF TypeInv, ThreadTypes, Calls
    <3>3. call'[u] = call[u] /\ pc'[u] = pc[u] /\ loc'[u] = loc[u]
      BY <1>3, <2>2
    <3> QED
      BY <3>1, <3>2, <3>3 DEF Refers
  <2> QED
    BY <2>1, <2>2
<1>5. \A d \in Clients : at[d].stage = "wait" => pc'[at[d].thread] # "idle"
  BY <1>1, <1>3, PlaceStep, Waiting DEF ServerTypes
<1>6. ClientTypes' /\ \A d \in Clients : Waits(d)'
  BY <1>1, <1>5, ClientsStay
<1>7. IdsGiven'
  BY <1>1, <1>3, AnswerStep DEF IdsGiven, TypeInv, client_vars
<1> QED
  BY <1>2, <1>4, <1>6, <1>7 DEF TypeInv

LEMMA RestartTypesKept ==
    ASSUME TypeInv, Restart, UNCHANGED <<client_vars, acked, deleted>>
    PROVE  TypeInv'
<1>1. /\ ServiceInv' /\ requests' = {} /\ call' = call
      /\ \A t \in Threads : pc[t] # "idle" => pc'[t] # "idle"
  BY RestartTypes DEF TypeInv, ServiceInv
<1>2. \A d \in Clients : at[d].stage = "wait" => pc'[at[d].thread] # "idle"
  BY <1>1, Waiting
<1>3. ClientTypes' /\ \A d \in Clients : Waits(d)'
  BY <1>2, ClientsStay
<1>4. IdsGiven'
  BY <1>1 DEF IdsGiven, TypeInv, client_vars
<1> QED
  BY <1>1, <1>3, <1>4 DEF TypeInv, ServiceInv

LEMMA TypeInit ==
    ASSUME ClientInit
    PROVE  TypeInv
<1> USE DEF ClientInit, ServiceInit
<1>1. StoreTypes
  BY DEF StoreTypes, DiskFiles, LogEntries
<1>2. TableTypes
  <2>1. /\ hung = FALSE /\ entries = <<>> /\ table = [f \in Files |-> 0] /\ fds = <<>>
        /\ requests = {}
    OBVIOUS
  <2>2. /\ <<>> \in Seq(Objects) /\ <<>> \in Seq(Descriptors)
        /\ Len(<<>>) = 0 /\ 0 <= MaxOpenFiles
    BY ServiceAssumption
  <2>3. \A f \in Files : table[f] <= Len(entries)
    BY <2>1, <2>2
  <2>4. table \in [Files -> Nat] /\ requests \subseteq Answers
    BY <2>1
  <2> QED
    BY <2>1, <2>2, <2>3, <2>4 DEF TableTypes
<1>3. ThreadTypes
  BY NothingTypes DEF ThreadTypes, Places
<1>4. ASSUME NEW t \in Threads PROVE Refers(t)
  BY NothingTypes DEF Refers, Looked, Found
<1>5. ClientTypes
  BY NothingTypes DEF ClientTypes, CacheEntries, NotCached, Modes
<1>6. ASSUME NEW c \in Clients PROVE Waits(c)
  BY DEF Waits, Resting
<1>7. IdsGiven
  BY NothingTypes DEF IdsGiven
<1> QED
  BY <1>1, <1>2, <1>3, <1>4, <1>5, <1>6, <1>7 DEF TypeInv

LEMMA TypeStep ==
    ASSUME TypeInv, [Next]_vars
    PROVE  TypeInv'
<1>1. CASE UNCHANGED vars
  <2>1. UNCHANGED <<service_vars, client_vars, acked, deleted>>
    BY <1>1 DEF vars, app_vars
  <2>2. UNCHANGED <<hung, table_vars, store_vars, pc, call, loc, reply, requests>>
    BY <2>1 DEF service_vars, thread_vars, table_vars
  <2>3. ThreadTypes'
    BY <2>2 DEF TypeInv, ThreadTypes
  <2>4. \A t \in Threads : Refers(t)'
    BY <2>2, RefersStays DEF TypeInv
  <2>5. ServiceInv'
    BY <2>2, <2>3, <2>4, QuietTypes DEF TypeInv, ServiceInv
  <2>6. ClientTypes' /\ \A d \in Clients : Waits(d)'
    BY <2>1, <2>2, ClientsStay, Waiting
  <2>7. IdsGiven'
    BY <2>1, <2>2 DEF TypeInv, IdsGiven, client_vars
  <2> QED
    BY <2>5, <2>6, <2>7 DEF TypeInv, ServiceInv
<1>2. CASE \E c \in Clients : Application(c) \/ Send(c) \/ Receive(c) \/ TimeOut(c)
  BY <1>2, ApplicationTypes, SendTypes, ReceiveTypes, TimeOutTypes
<1>3. CASE \E t \in Threads : ServerSteps(t) \/ Drop(t)
  BY <1>3, ServerTypesKept, DropTypes
<1>4. CASE Restart /\ UNCHANGED <<client_vars, timeouts, app_vars>>
  BY <1>4, RestartTypesKept DEF app_vars
<1> QED
  BY <1>1, <1>2, <1>3, <1>4 DEF Next

LEMMA TypesImplyTypeOK ==
    ASSUME TypeInv
    PROVE  TypeOK
<1>1. hung \in BOOLEAN /\ Len(fds) <= MaxOpenFiles /\ Len(entries) \in Nat
  BY DEF TypeInv, TableTypes
<1>2. \A k \in DOMAIN entries : entries[k] \in [version : Nat, writer : BOOLEAN]
  <2>1. entries \in Seq(Objects)
    BY DEF TypeInv, TableTypes
  <2>2. \A k \in DOMAIN entries : entries[k] \in Objects
    BY <2>1
  <2> QED
    BY <2>2 DEF Objects
<1>3. \A f \in Files : table[f] = 0 \/ table[f] \in DOMAIN entries
  <2>1. \A f \in Files : table[f] \in Nat /\ table[f] <= Len(entries)
    BY DEF TypeInv, TableTypes
  <2>2. DOMAIN entries = 1 .. Len(entries)
    BY DEF TypeInv, TableTypes
  <2> QED
    BY <1>1, <2>1, <2>2
<1>4. \A n \in DOMAIN fds : fds[n] \in [file : Files, client : Clients, mode : Modes,
                                        registered : BOOLEAN]
  <2>1. fds \in Seq(Descriptors)
    BY DEF TypeInv, TableTypes
  <2>2. \A n \in DOMAIN fds : fds[n] \in Descriptors
    BY <2>1
  <2> QED
    BY <2>2 DEF Descriptors
<1>5. \A r \in requests : r.id < nextId /\ r.reply \in Replies
  BY DEF TypeInv, IdsGiven, TableTypes, Answers
<1>6. /\ \A i \in DOMAIN log : log[i] \in [index : Nat, file : Files, nums : SUBSET Numbers]
      /\ \A i \in DOMAIN wal : wal[i] \in [index : Nat, file : Files, nums : SUBSET Numbers]
  <2>1. \A L \in Seq(LogEntries) : \A i \in DOMAIN L : L[i] \in LogEntries
    OBVIOUS
  <2> QED
    BY <2>1 DEF TypeInv, StoreTypes, LogEntries
<1>7. \A c \in Clients : at[c].stage = "wait" => pc[at[c].thread] # "idle"
  BY DEF TypeInv, Waits
<1>8. /\ disk \in [Files -> [exists : BOOLEAN, nums : SUBSET Numbers]]
      /\ primes \in [Files -> SUBSET Numbers]
      /\ call \in [Threads -> Calls] /\ loc \in [Threads -> Locals]
      /\ reply \in [Threads -> Replies]
      /\ cache \in [Clients -> [Files -> CacheEntries]]
  BY DEF TypeInv, StoreTypes, DiskFiles, ThreadTypes, ClientTypes
<1> QED
  BY <1>1, <1>2, <1>3, <1>4, <1>5, <1>6, <1>7, <1>8 DEF TypeOK

\* The variables hold values of their types, and what descriptors and the table
\* refer to was made, whatever handlers and clients do.
THEOREM Typing == Spec => []TypeOK
<1>1. ClientInit => TypeInv
  BY TypeInit
<1>2. TypeInv /\ [Next]_vars => TypeInv'
  BY TypeStep
<1>3. TypeInv => TypeOK
  BY TypesImplyTypeOK
<1> QED
  BY <1>1, <1>2, <1>3, PTL DEF Spec

-------------------------------------------------------------------------------
(* Handlers exclude each other *)

\* A handler that has looked its descriptor up works on the same file to its end.
LEMMA FileKept ==
    ASSUME TypeInv, NEW t \in Threads, Serve(t), NEW u \in Threads,
           pc[u] \in Looked \/ (u = t /\ pc'[t] \in Looked)
    PROVE  FileOf(u)' = FileOf(u)
<1>1. ServerTypes(t) /\ call' = call /\ call[u] \in Calls /\ Refers(u) /\ Len(fds) \in Nat
  BY OthersStay DEF TypeInv, ServerTypes, ThreadTypes, TableTypes
<1>2. CASE call[u].op \in {"Close", "Write"}
  <2>1. call[u].fd + 1 \in 1 .. Len(fds)
    <3>1. call[u].fd \in Nat
      BY <1>1 DEF Calls
    <3>2. DOMAIN fds = 1 .. Len(fds)
      BY DEF TypeInv, TableTypes
    <3>3. call[u].fd + 1 <= Len(fds) \/ Known(call[u].fd)
      BY <1>1, <1>2, PlaceStep DEF Refers, ServerTypes
    <3> QED
      BY <1>1, <3>1, <3>2, <3>3 DEF Known
  <2>2. fds'[call[u].fd + 1].file = fds[call[u].fd + 1].file
    BY <1>1, <2>1, DescriptorStep
  <2> QED
    BY <1>1, <1>2, <2>2 DEF FileOf, Opened
<1>3. CASE call[u].op \notin {"Close", "Write"}
  BY <1>1, <1>3 DEF FileOf
<1> QED
  BY <1>2, <1>3

\* Who holds a lock has found an object.
LEMMA HoldersFound ==
    ASSUME TypeInv, NEW t \in Threads, Holding(t)
    PROVE  pc[t] \in Found /\ loc[t].entry \in 1 .. Len(entries)
<1>1. pc[t] \in Found
  BY DEF Holding, Found, Looked, Places
<1> QED
  BY <1>1 DEF TypeInv, Refers

\* What a step of t leaves of the others.
LEMMA OthersHold ==
    ASSUME TypeInv, NEW t \in Threads, Serve(t), NEW u \in Threads, u # t
    PROVE  /\ pc'[u] = pc[u] /\ loc'[u] = loc[u] /\ call' = call
           /\ Holding(u)' <=> Holding(u)
           /\ Entry(u)' = entries'[loc[u].entry]
<1>1. pc'[u] = pc[u] /\ loc'[u] = loc[u] /\ call' = call
  BY OthersStay DEF TypeInv
<1> QED
  BY <1>1 DEF Holding, Entry

\* A step of a handler keeps what holds of the locks.
LEMMA LockServe ==
    ASSUME TypeInv, LockInv, NEW t \in Threads, Serve(t)
    PROVE  LockInv'
<1> DEFINE k == loc[t].entry
<1>1. ServerTypes(t) /\ TypeInv
  BY DEF TypeInv, ServerTypes
<1>2. ASSUME NEW u \in Threads, u # t, Holding(u)
      PROVE  /\ Entry(u).writer /\ loc[u].entry \in 1 .. Len(entries)
             /\ Holding(t) => loc[u].entry # k
  BY <1>2, HoldersFound DEF LockInv
\* It is enough that the lock of t is taken if it holds one after the step, and that the
\* others' locks are not touched.
<1>3. SUFFICES /\ \A u \in Threads : u # t /\ Holding(u) => entries'[loc[u].entry].writer
               /\ Holding(t)' => /\ entries'[loc'[t].entry].writer
                                 /\ \A u \in Threads : u # t /\ Holding(u) => loc[u].entry # loc'[t].entry
  <2>1. \A u \in Threads : Holding(u)' => Entry(u)'.writer
    <3> SUFFICES ASSUME NEW u \in Threads, Holding(u)' PROVE Entry(u)'.writer
      OBVIOUS
    <3>1. CASE u = t
      BY <1>3, <3>1 DEF Entry
    <3>2. CASE u # t
      BY <1>3, <3>2, OthersHold
    <3> QED
      BY <3>1, <3>2
  <2>2. ASSUME NEW s \in Threads, NEW u \in Threads, s # u, Holding(s)', Holding(u)'
        PROVE  loc'[s].entry # loc'[u].entry
    <3>1. CASE s = t
      BY <1>3, <2>2, <3>1, OthersHold
    <3>2. CASE u = t
      BY <1>3, <2>2, <3>2, OthersHold
    <3>3. CASE s # t /\ u # t
      BY <2>2, <3>3, OthersHold DEF LockInv
    <3> QED
      BY <3>1, <3>2, <3>3
  <2> QED
    BY <2>1, <2>2 DEF LockInv
<1>4. CASE Staying(t)
  <2>1. entries' = entries /\ (Holding(t)' => Holding(t) /\ loc'[t].entry = k)
    BY <1>1, <1>4, StayingSteps
  <2>2. Holding(t) => entries[k].writer
    BY DEF LockInv, Entry
  <2> QED
    BY <1>2, <2>1, <2>2 DEF Entry
<1>5. CASE Acquiring(t)
  <2>1. Locked(k, TRUE) /\ ~Entry(t).writer /\ loc' = loc
    BY <1>1, <1>5, AcquiringSteps
  <2>2. entries'[k].writer /\ \A j \in 1 .. Len(entries) : j # k => entries'[j].writer = entries[j].writer
    BY <2>1 DEF Locked
  <2>3. \A u \in Threads : u # t /\ Holding(u) => loc[u].entry # k
    BY <1>2, <2>1 DEF Entry
  <2> QED
    BY <1>2, <2>1, <2>2, <2>3 DEF Entry
<1>6. CASE Releasing(t)
  <2>1. Locked(k, FALSE) /\ Holding(t) /\ pc'[t] = "done"
    BY <1>1, <1>6, ReleasingSteps
  <2>2. ~Holding(t)'
    BY <2>1 DEF Holding
  <2> QED
    BY <1>2, <2>1, <2>2 DEF Locked, Entry
<1>7. CASE getFileEntry(t)
  <2>1. ~Holding(t)' /\ \A j \in 1 .. Len(entries) : entries'[j] = entries[j]
    BY <1>1, <1>7, ObjectFound
  <2> QED
    BY <1>2, <2>1 DEF Entry
<1>8. CASE Register(t) /\ call[t].op = "Create"
  <2>1. /\ \A j \in 1 .. Len(entries) : j # k => entries'[j] = entries[j]
        /\ Holding(t) /\ pc'[t] = "done"
    BY <1>1, <1>8, ObjectReset
  <2>2. ~Holding(t)'
    BY <2>1 DEF Holding
  <2> QED
    BY <1>2, <2>1, <2>2 DEF Entry
<1>9. CASE NewVersion(t)
  <2>1. /\ \A j \in 1 .. Len(entries) : entries'[j].writer = entries[j].writer
        /\ loc' = loc /\ pc'[t] \in {"drop", "finish"} /\ (call[t].dirty => Holding(t))
    BY <1>1, <1>9, ObjectUpdated
  <2>2. Holding(t)' => Holding(t)
    BY <1>1, <1>9, <2>1, OthersStay DEF Holding, TypeInv
  <2>3. Holding(t) => Entry(t).writer /\ k \in 1 .. Len(entries)
    BY HoldersFound DEF LockInv
  <2> QED
    BY <1>2, <2>1, <2>2, <2>3 DEF Entry
<1> QED
  BY <1>1, <1>4, <1>5, <1>6, <1>7, <1>8, <1>9, ServeCases

\* A step of a handler keeps what holds of the objects.
LEMMA ObjectServe ==
    ASSUME TypeInv, ObjectInv, NEW t \in Threads, Serve(t), UNCHANGED <<at, deleted>>
    PROVE  ObjectInv'
<1> DEFINE k == loc[t].entry
           f == FileOf(t)
<1>1. ServerTypes(t) /\ call' = call /\ pc[t] \in Places
  BY OthersStay DEF TypeInv, ServerTypes, ThreadTypes
<1>2. pc[t] \in Deleting => f \in deleted
  BY DEF ObjectInv, FileOf
\* It is enough that t keeps to its object or to that of the table, and changes the table
\* for a file that had no object or is deleted.
<1>3. SUFFICES /\ pc'[t] \in Deleting => pc[t] \in Deleting \/ call[t].op = "Delete"
               /\ pc'[t] \in Found => \/ pc[t] \in Found /\ loc'[t].entry = k
                                      \/ loc'[t].entry = table'[f]
               /\ \A g \in Files : table'[g] = table[g] \/ g \in deleted \/ (table[g] = 0 /\ pc[t] \notin Found)
  <2>1. \A c \in Clients : at'[c].step = "Delete" => at'[c].file \in deleted'
    BY DEF ObjectInv
  <2>2. ASSUME NEW u \in Threads
        PROVE  /\ call'[u].op = "Delete" => call'[u].file \in deleted'
               /\ pc'[u] \in Deleting => call'[u].op = "Delete"
    <3>1. CASE u = t
      BY <1>1, <1>3, <3>1 DEF ObjectInv
    <3>2. CASE u # t
      BY <1>1, <3>2, OthersHold DEF ObjectInv
    <3> QED
      BY <3>1, <3>2
  <2>3. ASSUME NEW u \in Threads, pc'[u] \in Found, FileOf(u)' \notin deleted'
        PROVE  loc'[u].entry = table'[FileOf(u)']
    <3>1. CASE u # t
      <4>1. pc[u] \in Found /\ pc[u] \in Looked /\ loc'[u] = loc[u]
        BY <2>3, <3>1, OthersHold DEF Found
      <4>2. FileOf(u)' = FileOf(u) /\ FileOf(u) \in Files
        BY <4>1, FileKept, FileKnown DEF TypeInv
      <4>3. loc[u].entry = table[FileOf(u)] /\ loc[u].entry \in 1 .. Len(entries)
        BY <2>3, <4>1, <4>2 DEF ObjectInv, TypeInv, Refers
      <4>4. table[FileOf(u)] # 0 /\ FileOf(u) \notin deleted
        BY <2>3, <4>2, <4>3
      <4> QED
        BY <1>3, <4>1, <4>2, <4>3, <4>4
    <3>2. CASE u = t
      <4>1. f' = f
        BY <2>3, <3>2, FileKept DEF Found
      <4>2. CASE loc'[t].entry = table'[f]
        BY <3>2, <4>1, <4>2
      <4>3. CASE pc[t] \in Found /\ loc'[t].entry = k
        <5>1. f \in Files /\ f \notin deleted
          BY <2>3, <3>2, <4>1, <4>3, FileKnown DEF TypeInv, Found
        <5>2. k = table[f]
          BY <4>3, <5>1 DEF ObjectInv
        <5> QED
          BY <1>3, <3>2, <4>1, <4>3, <5>1, <5>2
      <4> QED
        BY <1>3, <2>3, <3>2, <4>2, <4>3
    <3> QED
      BY <3>1, <3>2
  <2> QED
    BY <2>1, <2>2, <2>3 DEF ObjectInv
<1>4. CASE Staying(t)
  BY <1>1, <1>4, StayingSteps
<1>5. CASE Acquiring(t)
  <2>1. /\ loc' = loc /\ table' = table /\ pc[t] \in {"lock", "try"}
        /\ pc'[t] \in {"create", "check", "remove"} /\ (pc'[t] = "remove" => pc[t] = "try")
    BY <1>1, <1>5, AcquiringSteps
  <2> QED
    BY <2>1 DEF Deleting, Found, Looked, Places
<1>6. CASE Releasing(t)
  <2>1. pc'[t] = "done" /\ (Forget(t) \/ UNCHANGED table)
    BY <1>1, <1>6, ReleasingSteps
  <2>2. Forget(t) => \A g \in Files : g # f => table'[g] = table[g]
    BY DEF Forget, TypeInv, TableTypes
  <2>3. Forget(t) => f \in deleted
    BY <1>2 DEF Forget, Deleting
  <2>4. pc'[t] \notin Deleting /\ pc'[t] \notin Found
    BY <2>1 DEF Deleting, Found, Looked
  <2> QED
    BY <2>1, <2>2, <2>3, <2>4
<1>7. CASE getFileEntry(t)
  <2>1. /\ loc'[t].entry = table'[f] /\ pc'[t] \in {"open", "lock", "version"}
        /\ \A g \in Files : table[g] # 0 \/ g # f => table'[g] = table[g]
    BY <1>1, <1>7, ObjectFound
  <2>2. pc[t] = "entry"
    BY <1>7 DEF getFileEntry
  <2> QED
    BY <2>1, <2>2 DEF Deleting, Found
<1>8. CASE Register(t) /\ call[t].op = "Create"
  <2>1. table' = table /\ pc'[t] = "done"
    BY <1>1, <1>8, ObjectReset
  <2> QED
    BY <2>1 DEF Deleting, Found, Looked
<1>9. CASE NewVersion(t)
  <2>1. table' = table /\ loc' = loc /\ pc[t] = "version" /\ pc'[t] \in {"drop", "finish"}
    BY <1>1, <1>9, ObjectUpdated
  <2> QED
    BY <2>1 DEF Deleting, Found, Looked, Places
<1> QED
  BY <1>1, <1>4, <1>5, <1>6, <1>7, <1>8, <1>9, ServeCases

\* A step of a handler keeps the version that another one has compared.
LEMMA VersionServe ==
    ASSUME TypeInv, LockInv, VersionInv, NEW t \in Threads, Serve(t)
    PROVE  VersionInv'
<1> DEFINE k == loc[t].entry
<1>1. ServerTypes(t) /\ call' = call
  BY OthersStay DEF TypeInv, ServerTypes
<1>2. ASSUME NEW u \in Threads, u # t, pc[u] \in Compared, Holding(u)
      PROVE  /\ call[u].version = entries[loc[u].entry].version /\ loc[u].entry \in 1 .. Len(entries)
             /\ Holding(t) => loc[u].entry # k
  BY <1>2, HoldersFound DEF VersionInv, LockInv, Entry
<1>3. SUFFICES /\ \A u \in Threads : u # t /\ pc[u] \in Compared /\ Holding(u) =>
                     entries'[loc[u].entry].version = entries[loc[u].entry].version
               /\ pc'[t] \in Compared /\ Holding(t)' => call[t].version = entries'[loc'[t].entry].version
  <2> SUFFICES ASSUME NEW u \in Threads, pc'[u] \in Compared, Holding(u)'
               PROVE  call'[u].version = Entry(u)'.version
    BY DEF VersionInv
  <2>1. CASE u = t
    BY <1>1, <1>3, <2>1 DEF Entry
  <2>2. CASE u # t
    BY <1>2, <1>3, <2>2, OthersHold
  <2> QED
    BY <2>1, <2>2
<1>4. CASE Staying(t)
  <2>1. /\ entries' = entries
        /\ pc'[t] \in Compared /\ Holding(t)' =>
              pc[t] \in Compared \/ (pc[t] = "check" /\ call[t].version = Entry(t).version)
        /\ Holding(t)' => Holding(t) /\ loc'[t].entry = k
    BY <1>1, <1>4, StayingSteps
  <2> QED
    BY <2>1 DEF VersionInv, Entry
<1>5. CASE Acquiring(t)
  <2>1. Locked(k, TRUE) /\ pc'[t] \in {"create", "check", "remove"}
    BY <1>1, <1>5, AcquiringSteps
  <2> QED
    BY <1>2, <2>1 DEF Locked, Compared
<1>6. CASE Releasing(t)
  <2>1. Locked(k, FALSE) /\ pc'[t] = "done"
    BY <1>1, <1>6, ReleasingSteps
  <2> QED
    BY <1>2, <2>1 DEF Locked, Compared
<1>7. CASE getFileEntry(t)
  BY <1>1, <1>2, <1>7, ObjectFound DEF Compared
<1>8. CASE Register(t) /\ call[t].op = "Create"
  BY <1>1, <1>2, <1>8, ObjectReset DEF Compared
<1>9. CASE NewVersion(t)
  <2>1. /\ \A j \in 1 .. Len(entries) : j # k => entries'[j] = entries[j]
        /\ pc'[t] \in {"drop", "finish"}
        /\ call[t].dirty => Holding(t)
        /\ ~call[t].dirty => entries' = entries
    BY <1>1, <1>9, ObjectUpdated
  <2>2. pc'[t] \notin Compared
    BY <2>1 DEF Compared
  <2> QED
    BY <1>2, <2>1, <2>2
<1> QED
  BY <1>1, <1>4, <1>5, <1>6, <1>7, <1>8, <1>9, ServeCases

\* Only a Create resets the version of an object, and only an update that had read the
\* last one moves it.
LEMMA VersionMoves ==
    ASSUME TypeInv, VersionInv, NEW t \in Threads, Serve(t),
           NEW k \in DOMAIN entries \cap DOMAIN entries', entries'[k].version # entries[k].version
    PROVE  /\ loc[t].entry = k /\ pc[t] # pc'[t]
           /\ \/ call[t].op = "Create" /\ entries'[k].version = 0
              \/ /\ call[t].version = entries[k].version
                 /\ entries'[k].version = entries[k].version + 1
<1>1. ServerTypes(t) /\ k \in 1 .. Len(entries)
  BY DEF TypeInv, ServerTypes, TableTypes
<1>2. CASE Staying(t)
  BY <1>1, <1>2, StayingSteps
<1>3. CASE Acquiring(t)
  BY <1>1, <1>3, AcquiringSteps DEF Locked
<1>4. CASE Releasing(t)
  BY <1>1, <1>4, ReleasingSteps DEF Locked
<1>5. CASE getFileEntry(t)
  BY <1>1, <1>5, ObjectFound
<1>6. CASE Register(t) /\ call[t].op = "Create"
  <2>1. pc[t] = "register"
    BY <1>6 DEF Register
  <2> QED
    BY <1>1, <1>6, <2>1, ObjectReset
<1>7. CASE NewVersion(t)
  <2>1. /\ pc[t] = "version" /\ pc'[t] \in {"drop", "finish"} /\ loc[t].entry = k
        /\ call[t].dirty /\ Holding(t)
    BY <1>1, <1>7, ObjectUpdated
  <2>2. call[t].version = entries[k].version
    BY <2>1 DEF VersionInv, Entry, Compared
  <2> QED
    BY <1>1, <1>7, <2>1, <2>2, ObjectUpdated DEF Entry
<1> QED
  BY <1>1, <1>2, <1>3, <1>4, <1>5, <1>6, <1>7, ServeCases

HandlerInv == TypeInv /\ LockInv /\ ObjectInv /\ VersionInv

\* The steps that move threads only to rest or to the start of a handler keep what
\* holds of locks, objects and versions.
LEMMA RestingSteps ==
    ASSUME HandlerInv, deleted \subseteq deleted',
           \A t \in Threads :
              \/ /\ pc'[t] = pc[t] /\ call'[t] = call[t] /\ loc'[t] = loc[t]
                 /\ UNCHANGED <<entries, table, fds>>
              \/ /\ pc'[t] \notin Looked
                 /\ call'[t].op = "Delete" => call'[t].file \in deleted',
           \A c \in Clients : at'[c].step = "Delete" => at'[c].file \in deleted'
    PROVE  LockInv' /\ ObjectInv' /\ VersionInv'
<1> USE DEF HandlerInv
<1>1. ASSUME NEW t \in Threads, pc'[t] \in Looked
      PROVE  /\ pc'[t] = pc[t] /\ call'[t] = call[t] /\ loc'[t] = loc[t]
             /\ UNCHANGED <<entries, table, fds>>
             /\ Holding(t)' = Holding(t) /\ Entry(t)' = Entry(t) /\ FileOf(t)' = FileOf(t)
  BY <1>1 DEF Holding, Entry, FileOf, Opened
<1>2. \A t \in Threads : Holding(t)' => pc'[t] \in Looked
  BY DEF Holding, Looked, Places
<1>3. LockInv'
  BY <1>1, <1>2 DEF LockInv
<1>4. ObjectInv'
  <2>1. \A c \in Clients : at'[c].step = "Delete" => at'[c].file \in deleted'
    OBVIOUS
  <2>2. ASSUME NEW t \in Threads
        PROVE  /\ call'[t].op = "Delete" => call'[t].file \in deleted'
               /\ pc'[t] \in Deleting => call'[t].op = "Delete"
               /\ pc'[t] \in Found /\ FileOf(t)' \notin deleted' => loc'[t].entry = table'[FileOf(t)']
    <3>1. call'[t].op = "Delete" => call'[t].file \in deleted'
      BY DEF ObjectInv
    <3>2. pc'[t] \in Deleting => call'[t].op = "Delete"
      <4>1. pc'[t] \in Deleting => pc'[t] \in Looked
        BY DEF Deleting, Looked, Places
      <4> QED
        BY <1>1, <4>1 DEF ObjectInv
    <3>3. pc'[t] \in Found /\ FileOf(t)' \notin deleted' => loc'[t].entry = table'[FileOf(t)']
      BY <1>1 DEF ObjectInv, Found
    <3> QED
      BY <3>1, <3>2, <3>3
  <2> QED
    BY <2>1, <2>2 DEF ObjectInv
<1>5. VersionInv'
  BY <1>1, <1>2 DEF VersionInv
<1> QED
  BY <1>3, <1>4, <1>5

LEMMA HandlerInit ==
    ASSUME ClientInit
    PROVE  HandlerInv
<1>1. TypeInv
  BY TypeInit
<1>2. \A t \in Threads : pc[t] = "idle" /\ call[t].op = "TestAuth"
  BY NothingTypes DEF ClientInit, ServiceInit
<1>3. \A c \in Clients : at[c].step = "Create"
  BY DEF ClientInit, Resting
<1>4. LockInv /\ VersionInv
  BY <1>2 DEF LockInv, VersionInv, Holding
<1>5. ObjectInv
  BY <1>2, <1>3 DEF ObjectInv, Deleting, Found, Looked
<1> QED
  BY <1>1, <1>4, <1>5 DEF HandlerInv

LEMMA HandlerStep ==
    ASSUME HandlerInv, [Next]_vars
    PROVE  HandlerInv'
<1> USE DEF HandlerInv
<1>1. TypeInv'
  BY TypeStep
<1>2. CASE UNCHANGED vars
  BY <1>1, <1>2, RestingSteps DEF vars, service_vars, client_vars, app_vars, thread_vars, table_vars, ObjectInv
<1>3. ASSUME NEW c \in Clients, Application(c) PROVE HandlerInv'
  <2>1. /\ Moved(c) /\ UNCHANGED service_vars /\ deleted \subseteq deleted'
        /\ at'[c].step = "Delete" => at'[c].file \in deleted'
    BY <1>3, ApplicationStep DEF TypeInv, Waits
  <2>2. \A d \in Clients : at'[d].step = "Delete" => at'[d].file \in deleted'
    BY <2>1 DEF Moved, ObjectInv
  <2> QED
    BY <1>1, <2>1, <2>2, RestingSteps DEF service_vars, thread_vars, table_vars
<1>4. ASSUME NEW c \in Clients, Send(c) PROVE HandlerInv'
  <2>1. PICK t \in Threads :
          /\ Accept(t, Request(c))
          /\ at' = [at EXCEPT ![c].stage = "wait", ![c].thread = t]
    BY <1>4 DEF Send
  <2>2. deleted' = deleted
    BY <1>4 DEF Send, app_vars
  <2>3. \A d \in Clients : at'[d].step = at[d].step /\ at'[d].file = at[d].file
    <3>1. at \in [Clients -> Positions] /\ at[c] \in Positions
      BY DEF TypeInv, ClientTypes
    <3> QED
      BY <2>1, <3>1 DEF Positions
  <2>4. /\ pc' = [pc EXCEPT ![t] = "start"] /\ call' = [call EXCEPT ![t] = Request(c)]
        /\ UNCHANGED <<loc, entries, table, fds>>
    BY <2>1 DEF Accept, table_vars
  <2>5. pc'[t] = "start" /\ call'[t] = Request(c)
    BY <2>4 DEF TypeInv, ThreadTypes
  <2>6. Request(c).op = "Delete" => Request(c).file \in deleted
    BY RequestTypes DEF TypeInv, ObjectInv
  <2>7. \A u \in Threads \ {t} : pc'[u] = pc[u] /\ call'[u] = call[u]
    BY <2>4 DEF TypeInv, ThreadTypes
  <2>8. "start" \notin Looked
    BY DEF Looked
  <2>9. \A d \in Clients : at'[d].step = "Delete" => at'[d].file \in deleted'
    BY <2>2, <2>3 DEF ObjectInv
  <2> QED
    BY <1>1, <2>2, <2>4, <2>5, <2>6, <2>7, <2>8, <2>9, RestingSteps
<1>5. ASSUME NEW t \in Threads, Leave(t), deleted' = deleted,
             \A d \in Clients : at'[d].step = "Delete" => at'[d].file \in deleted'
      PROVE  HandlerInv'
  <2>1. /\ pc' = [pc EXCEPT ![t] = "idle"] /\ call' = [call EXCEPT ![t] = NoCall]
        /\ loc' = [loc EXCEPT ![t] = NoLocals] /\ UNCHANGED <<entries, table, fds>>
    BY <1>5 DEF Leave, table_vars
  <2>2. pc'[t] \notin Looked /\ call'[t].op # "Delete"
    BY <2>1, NothingTypes DEF TypeInv, ThreadTypes, Looked
  <2>3. \A u \in Threads \ {t} : pc'[u] = pc[u] /\ call'[u] = call[u] /\ loc'[u] = loc[u]
    BY <2>1 DEF TypeInv, ThreadTypes
  <2> QED
    BY <1>1, <1>5, <2>1, <2>2, <2>3, RestingSteps
<1>6. ASSUME NEW c \in Clients, Receive(c) PROVE HandlerInv'
  <2>1. at[c].stage = "wait" /\ Leave(at[c].thread) /\ Handle(c, reply[at[c].thread]) /\ deleted' = deleted
    BY <1>6 DEF Receive
  <2>2. at[c].thread \in Threads /\ reply[at[c].thread] \in Replies /\ at[c].id < nextId
    BY <2>1, Waiting DEF TypeInv, ThreadTypes, Waits
  <2>3. Moved(c) /\ at'[c].step # "Delete"
    BY <2>1, <2>2, HandleStep DEF TypeInv
  <2>4. \A d \in Clients : at'[d].step = "Delete" => at'[d].file \in deleted'
    BY <2>1, <2>3 DEF Moved, ObjectInv
  <2> QED
    BY <1>5, <2>1, <2>2, <2>4
<1>7. ASSUME NEW c \in Clients, TimeOut(c) PROVE HandlerInv'
  <2>1. Handle(c, Reply("unavailable")) /\ UNCHANGED <<service_vars, deleted>>
    BY <1>7 DEF TimeOut, app_vars
  <2>2. Reply("unavailable") \in Replies /\ at[c].id < nextId /\ at[c].thread \in Threads
    BY <1>7, NothingTypes, Waiting DEF TimeOut, TypeInv, Waits
  <2>3. Moved(c) /\ at'[c].step # "Delete"
    BY <2>1, <2>2, HandleStep DEF TypeInv
  <2>4. \A d \in Clients : at'[d].step = "Delete" => at'[d].file \in deleted'
    BY <2>1, <2>3 DEF Moved, ObjectInv
  <2> QED
    BY <1>1, <2>1, <2>4, RestingSteps DEF service_vars, thread_vars, table_vars
<1>8. ASSUME NEW t \in Threads, ServerSteps(t) PROVE HandlerInv'
  <2>1. Serve(t) /\ UNCHANGED <<at, deleted>>
    BY <1>8 DEF ServerSteps, client_vars, app_vars
  <2> QED
    BY <1>1, <2>1, LockServe, ObjectServe, VersionServe
<1>9. ASSUME NEW t \in Threads, Drop(t) PROVE HandlerInv'
  BY <1>5, <1>9 DEF Drop, client_vars, app_vars, ObjectInv
<1>10. CASE Restart /\ UNCHANGED <<client_vars, timeouts, app_vars>>
  <2>1. /\ \A t \in Threads : pc'[t] \in {"idle", "done"}
        /\ call' = call /\ at' = at /\ deleted' = deleted
    BY <1>10 DEF Restart, client_vars, app_vars
  <2>2. \A t \in Threads : pc'[t] \notin Looked
    BY <2>1 DEF Looked
  <2>3. /\ \A t \in Threads : call'[t].op = "Delete" => call'[t].file \in deleted'
        /\ \A d \in Clients : at'[d].step = "Delete" => at'[d].file \in deleted'
    BY <2>1 DEF ObjectInv
  <2> QED
    BY <1>1, <2>1, <2>2, <2>3, RestingSteps
<1> QED
  BY <1>2, <1>3, <1>4, <1>6, <1>7, <1>8, <1>9, <1>10 DEF Next

\* Two handlers never change the same file at the same time, unless somebody deleted it:
\* they would hold the lock of one object.
THEOREM Exclusion == Spec => []OneWriterPerFile
<1>1. ASSUME HandlerInv PROVE OneWriterPerFile
  <2> SUFFICES ASSUME NEW s \in Threads, NEW t \in Threads, s # t, Holding(s), Holding(t),
                      FileOf(s) = FileOf(t), FileOf(s) \notin deleted
               PROVE  FALSE
    BY DEF OneWriterPerFile
  <2>1. pc[s] \in Found /\ pc[t] \in Found
    BY <1>1, HoldersFound DEF HandlerInv
  <2>2. loc[s].entry = loc[t].entry
    BY <1>1, <2>1 DEF HandlerInv, ObjectInv
  <2> QED
    BY <1>1, <2>2 DEF HandlerInv, LockInv
<1> QED
  BY <1>1, HandlerInit, HandlerStep, PTL DEF Spec

\* The version of an object moves only in an update whose client had read it.
VersionMove ==
    \A k \in DOMAIN entries \cap DOMAIN entries' :
        entries'[k].version # entries[k].version =>
            \E t \in Threads :
                /\ loc[t].entry = k /\ pc[t] # pc'[t]
                /\ \/ call[t].op = "Create" /\ entries'[k].version = 0
                   \/ /\ call[t].version = entries[k].version
                      /\ entries'[k].version = entries[k].version + 1

\* No update is lost to another client, whatever clients give up on and however the
\* handlers interleave.
THEOREM NoLostUpdate == Spec => VersionedUpdates
<1>1. ASSUME HandlerInv, [Next]_vars PROVE [VersionMove]_vars
  <2>1. ASSUME NEW t \in Threads, Serve(t) PROVE VersionMove
    BY <1>1, <2>1, VersionMoves DEF VersionMove, HandlerInv
  <2>2. CASE UNCHANGED entries
    BY <2>2 DEF VersionMove
  <2>3. CASE Restart
    <3>1. DOMAIN entries' = {}
      BY <2>3 DEF Restart
    <3> QED
      BY <3>1 DEF VersionMove
  <2>4. CASE \E c \in Clients : Application(c) \/ Send(c) \/ Receive(c) \/ TimeOut(c)
    BY <2>2, <2>4 DEF Application, Send, Accept, Receive, Leave, TimeOut, service_vars, table_vars
  <2>5. CASE \E t \in Threads : Drop(t)
    BY <2>2, <2>5 DEF Drop, Leave, table_vars
  <2> QED
    BY <1>1, <2>1, <2>3, <2>4, <2>5 DEF Next, ServerSteps
<1>2. [][VersionMove]_vars => VersionedUpdates
  BY PTL DEF VersionedUpdates, VersionMove
<1> QED
  BY <1>1, <1>2, HandlerInit, HandlerStep, PTL DEF Spec
===============================================================================
