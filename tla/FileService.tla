------------------------------ MODULE FileService ------------------------------
(***************************************************************************)
(* The file operations of the primary, as concurrent gRPC handlers:        *)
(* Create, Delete, Open, Close, Read, Write and TestAuth                   *)
(* (server_basics.go).                                                     *)
(*                                                                         *)
(* A handler runs in a thread.  An action is a stretch of a handler that   *)
(* holds s.mu, a wait for a lock, or a step on the disk.  Module Client    *)
(* makes the calls and takes the replies.                                  *)
(*                                                                         *)
(* The data of a file are the numbers in it: the server keeps those and    *)
(* nothing else of what a Close sends it.  The files are output files;     *)
(* input files are only read and leave no trace but a descriptor.          *)
(***************************************************************************)
EXTENDS Integers, Sequences, FiniteSets

CONSTANTS
    Clients,      \* client ids; a client opens a file for itself only
    Files,        \* names of output files
    Numbers,      \* the numbers a file can hold
    Threads,      \* the goroutines that serve calls
    MaxOpenFiles, \* the code's limit on descriptors
    MaxFailures,  \* bound: commits without a majority, and errors of the disk
    MaxRestarts   \* bound: restarts of the server

ASSUME ServiceAssumption ==
    /\ Files # {} /\ Clients # {}
    /\ MaxOpenFiles \in Nat /\ MaxFailures \in Nat /\ MaxRestarts \in Nat

VARIABLES
    hung,         \* a goroutine waits for s.mu while it holds s.mu
    entries,      \* the FileEntry objects ever made
    table,        \* s.table: the object of each file, 0 for none
    disk,         \* the files: whether they exist, the numbers in them
    primes,       \* s.filesPrimes
    fds,          \* s.files: descriptor n is at position n + 1
    requests,     \* s.requests: replies by request id
    log, wal,     \* s.log, and the log on disk
    lastApplied,  \* s.lastApplied
    pc,           \* where a thread is
    call,         \* the request it serves
    loc,          \* its locals: file entry, numbers to store, log index
    reply,        \* what it answers
    failures, restarts

table_vars == <<entries, table, fds, requests>>
log_vars == <<log, wal>>
store_vars == <<disk, primes, log_vars, lastApplied>>
thread_vars == <<pc, call, loc, reply>>
bound_vars == <<failures, restarts>>
service_vars == <<hung, table_vars, store_vars, thread_vars, bound_vars>>

-------------------------------------------------------------------------------
(* Data *)

Ops   == {"Create", "Open", "Close", "Write", "Delete", "TestAuth", "Read"}
Modes == {"READ", "WRITE"}
Statuses == {"ok", "exists", "notfound", "denied", "conflict", "inuse",
             "exhausted", "unavailable", "internal"}

AFile == CHOOSE f \in Files : TRUE

Calls == [client : Clients, id : Nat, op : Ops, file : Files, fd : Nat, mode : Modes,
          dirty : BOOLEAN, version : Nat, data : SUBSET Numbers]
Replies == [status : Statuses, fd : Nat, version : Nat]
Locals  == [entry : Nat, nums : SUBSET Numbers, unseen : SUBSET Numbers, index : Nat]

NoCall   == [client |-> CHOOSE c \in Clients : TRUE, id |-> 0, op |-> "TestAuth",
             file |-> AFile, fd |-> 0, mode |-> "READ", dirty |-> FALSE, version |-> 0,
             data |-> {}]
NoLocals == [entry |-> 0, nums |-> {}, unseen |-> {}, index |-> 0]
Reply(s) == [status |-> s, fd |-> 0, version |-> 0]
Versioned(s, v) == [Reply(s) EXCEPT !.version = v]
Descriptor(n, v) == [Versioned("ok", v) EXCEPT !.fd = n]

Cached(id) == \E r \in requests : r.id = id
CachedReply(id) == (CHOOSE r \in requests : r.id = id).reply

Known(n)   == n + 1 \in DOMAIN fds
Opened(t)  == fds[call[t].fd + 1]
Registered(t) == Known(call[t].fd) /\ Opened(t).client = call[t].client /\ Opened(t).registered

\* The file a handler works on: Close and Write know it from the descriptor.
FileOf(t) == IF call[t].op \in {"Close", "Write"} THEN Opened(t).file ELSE call[t].file

Entry(t) == entries[loc[t].entry]

\* s.mu can be taken.  A critical section is one action, so it is held between
\* actions only by a goroutine that will never release it.
MutexFree == ~hung

\* Threads between AcquireWrite and ReleaseWrite (for Delete: between the two
\* writes of activeWriter).
Holding(t) ==
    \/ pc[t] \in {"check", "append", "commit", "collect", "patch", "publish", "remove",
                 "forget", "create"}
    \/ pc[t] = "register" /\ call[t].op = "Create"
    \/ pc[t] = "version" /\ call[t].op # "TestAuth" /\ call[t].dirty
    \/ pc[t] \in {"drop", "finish"} /\ call[t].dirty

-------------------------------------------------------------------------------
ServiceInit ==
    /\ hung = FALSE
    /\ entries = <<>>
    /\ table = [f \in Files |-> 0]
    /\ disk = [f \in Files |-> [exists |-> FALSE, nums |-> {}]]
    /\ primes = [f \in Files |-> {}]
    /\ fds = <<>>
    /\ requests = {}
    /\ log = <<>> /\ wal = <<>>
    /\ lastApplied = 0
    /\ pc = [t \in Threads |-> "idle"]
    /\ call = [t \in Threads |-> NoCall]
    /\ loc = [t \in Threads |-> NoLocals]
    /\ reply = [t \in Threads |-> Reply("ok")]
    /\ failures = 0
    /\ restarts = 0

\* s.requests keeps r as the answer to the request of t.
Keep(t, r) == requests' = {q \in requests : q.id # call[t].id}
                             \cup {[id |-> call[t].id, reply |-> r]}

\* The thread goes on at l.
Goto(t, l) == pc' = [pc EXCEPT ![t] = l] /\ UNCHANGED <<call, reply>>

\* The handler returns r.
Return(t, r) ==
    /\ pc' = [pc EXCEPT ![t] = "done"]
    /\ reply' = [reply EXCEPT ![t] = r]
    /\ UNCHANGED call

\* An error that the model counts.
Fails == failures < MaxFailures /\ failures' = failures + 1

\* Mutated form: the lock is not released on an early return.
ReturnLocked(t, r) == UNCHANGED entries /\ Return(t, r)

\* The handler returns r and releases the lock of its file entry.
ReleaseAndReturn(t, r) ==
    /\ entries' = [entries EXCEPT ![loc[t].entry].writer = FALSE]
    /\ Return(t, r)

\* A request arrives.
Accept(t, c) ==
    /\ pc[t] = "idle"
    /\ pc' = [pc EXCEPT ![t] = "start"]
    /\ call' = [call EXCEPT ![t] = c]
    /\ UNCHANGED <<hung, table_vars, store_vars, loc, reply, bound_vars>>

\* The goroutine of a request that was answered ends.
Leave(t) ==
    /\ pc[t] = "done"
    /\ pc' = [pc EXCEPT ![t] = "idle"]
    /\ call' = [call EXCEPT ![t] = NoCall]
    /\ loc' = [loc EXCEPT ![t] = NoLocals]
    /\ reply' = [reply EXCEPT ![t] = Reply("ok")]
    /\ UNCHANGED <<hung, table_vars, store_vars, bound_vars>>

-------------------------------------------------------------------------------
(* The beginning of a handler, under s.mu *)

\* A request id that was answered with success is answered the same again.
Repeated(t) ==
    /\ pc[t] = "start" /\ MutexFree
    /\ call[t].op \in {"Create", "Open", "Close", "Write", "Delete"}
    /\ Cached(call[t].id)
    /\ Return(t, CachedReply(call[t].id))
    /\ UNCHANGED <<hung, table_vars, store_vars, loc, bound_vars>>

\* Create, Open and Delete look at nothing else yet; Close and Write look the
\* descriptor up.
Begin(t) ==
    /\ pc[t] = "start" /\ MutexFree
    /\ ~Cached(call[t].id)
    /\ \/ /\ call[t].op \in {"Create", "Open"}
          /\ Goto(t, "entry")
       \/ /\ call[t].op = "Delete"
          /\ Goto(t, "stat")
       \/ /\ call[t].op \in {"Close", "Write"}
          /\ Registered(t)
          /\ Goto(t, "entry")
       \/ /\ call[t].op \in {"Close", "Write"}
          /\ ~Known(call[t].fd)
          /\ Return(t, Reply("notfound"))
    /\ UNCHANGED <<hung, table_vars, store_vars, loc, bound_vars>>

\* A client that is not registered with the descriptor, because it has closed it:
\* the answer needs getFileEntry, which takes s.mu, which this handler holds.
Unregistered(t) ==
    /\ pc[t] = "start" /\ MutexFree
    /\ ~Cached(call[t].id)
    /\ call[t].op \in {"Close", "Write"}
    /\ Known(call[t].fd) /\ ~Registered(t)
    /\ hung' = TRUE
    /\ Goto(t, "stuck")
    /\ UNCHANGED <<table_vars, store_vars, loc, bound_vars>>

\* getFileEntry: a file the table does not know gets a new object, version 1.
getFileEntry(t) ==
    /\ pc[t] = "entry" /\ MutexFree
    /\ LET f == FileOf(t) IN
       \/ /\ table[f] # 0
          /\ loc' = [loc EXCEPT ![t].entry = table[f]]
          /\ UNCHANGED <<entries, table>>
       \/ /\ table[f] = 0
          /\ entries' = Append(entries, [version |-> 1, writer |-> FALSE])
          /\ table' = [table EXCEPT ![f] = Len(entries) + 1]
          /\ loc' = [loc EXCEPT ![t].entry = Len(entries) + 1]
    /\ Goto(t, IF call[t].op = "Open" THEN "open"
               ELSE IF call[t].op = "Create" \/ call[t].dirty THEN "lock"
               ELSE "version")
    /\ UNCHANGED <<hung, fds, requests, store_vars, bound_vars>>

\* Mutated form: the lock is not waited for.
AcquireAtOnce(t) ==
    /\ pc[t] = "lock"
    /\ entries' = [entries EXCEPT ![loc[t].entry].writer = TRUE]
    /\ Goto(t, IF call[t].op = "Create" THEN "create" ELSE "check")
    /\ UNCHANGED <<hung, table, fds, requests, store_vars, loc, bound_vars>>

\* AcquireWrite on the object that was found; output files have no readers.
AcquireWrite(t) ==
    /\ pc[t] = "lock"
    /\ ~Entry(t).writer
    /\ entries' = [entries EXCEPT ![loc[t].entry].writer = TRUE]
    /\ Goto(t, IF call[t].op = "Create" THEN "create" ELSE "check")
    /\ UNCHANGED <<hung, table, fds, requests, store_vars, loc, bound_vars>>

-------------------------------------------------------------------------------
(* Create and Open *)

\* The file is made, unless it exists; on an error the entry stays in the table.
CreateFile(t) ==
    /\ pc[t] = "create"
    /\ \/ /\ disk[FileOf(t)].exists
          /\ ReleaseAndReturn(t, Reply("exists"))
          /\ UNCHANGED <<disk, failures>>
       \/ /\ ~disk[FileOf(t)].exists
          /\ disk' = [disk EXCEPT ![FileOf(t)] = [exists |-> TRUE, nums |-> {}]]
          /\ Goto(t, "register")
          /\ UNCHANGED <<entries, failures>>
       \/ /\ Fails
          /\ ReleaseAndReturn(t, Reply("internal"))
          /\ UNCHANGED disk
    /\ UNCHANGED <<hung, table, fds, requests, primes, log_vars, lastApplied, loc, restarts>>

\* The file is opened, if it exists.
OpenFile(t) ==
    /\ pc[t] = "open"
    /\ \/ /\ disk[FileOf(t)].exists
          /\ Goto(t, "register")
          /\ UNCHANGED failures
       \/ /\ ~disk[FileOf(t)].exists
          /\ Return(t, Reply("notfound"))
          /\ UNCHANGED failures
       \/ /\ Fails
          /\ Return(t, Reply("internal"))
    /\ UNCHANGED <<hung, table_vars, store_vars, loc, restarts>>

\* Mutated form: one descriptor more than the limit.
FullLate == Len(fds) > MaxOpenFiles
Full == Len(fds) >= MaxOpenFiles

\* Under s.mu: a new descriptor, and the reply is kept.  Create resets the version.
Register(t) ==
    LET v == IF call[t].op = "Create" THEN 0 ELSE Entry(t).version
        r == Descriptor(Len(fds), v)
    IN
    /\ pc[t] = "register" /\ MutexFree
    /\ ~Full
    /\ fds' = Append(fds, [file |-> FileOf(t), client |-> call[t].client,
                           mode |-> call[t].mode, registered |-> TRUE])
    /\ Keep(t, r)
    /\ \/ /\ call[t].op = "Create"
          /\ entries' = [entries EXCEPT ![loc[t].entry] =
                           [version |-> 0, writer |-> FALSE]]
       \/ /\ call[t].op = "Open"
          /\ UNCHANGED entries
    /\ Return(t, r)
    /\ UNCHANGED <<hung, table, store_vars, loc, bound_vars>>

\* Descriptors are never freed: after MaxOpenFiles of them there are no more, and
\* Create takes its file away again.
TooManyOpenFiles(t) ==
    /\ pc[t] = "register" /\ MutexFree
    /\ Full
    /\ \/ /\ call[t].op = "Create"
          /\ disk' = [disk EXCEPT ![FileOf(t)] = [exists |-> FALSE, nums |-> {}]]
          /\ ReleaseAndReturn(t, Reply("exhausted"))
       \/ /\ call[t].op = "Open"
          /\ Return(t, Reply("exhausted"))
          /\ UNCHANGED <<disk, entries>>
    /\ UNCHANGED <<hung, table, fds, requests, primes, log_vars, lastApplied, loc, bound_vars>>

-------------------------------------------------------------------------------
(* Close and Write *)

\* Mutated form: the version the client read is not compared.
NoConflict(t) == FALSE
Conflict(t) == call[t].version # Entry(t).version

\* Mutated form: a client whose version is old is no longer registered.
RejectAndForget(t) ==
    /\ pc[t] = "check"
    /\ Opened(t).mode = "WRITE" /\ Conflict(t)
    /\ fds' = [fds EXCEPT ![call[t].fd + 1].registered = FALSE]
    /\ ReleaseAndReturn(t, Reply("conflict"))
    /\ UNCHANGED <<hung, table, requests, store_vars, loc, bound_vars>>

\* Holding the lock: the mode and the version are checked.
Reject(t) ==
    /\ pc[t] = "check"
    /\ \/ /\ Opened(t).mode # "WRITE"
          /\ ReleaseAndReturn(t, Reply("denied"))
       \/ /\ Opened(t).mode = "WRITE" /\ Conflict(t)
          /\ ReleaseAndReturn(t, Reply("conflict"))
    /\ UNCHANGED <<hung, table, fds, requests, store_vars, loc, bound_vars>>

\* Mutated form: Close stores the numbers of this request only.
ToStoreAlone(t) == call[t].data
\* What the log entry holds: Close collects all the numbers of the file, Write
\* takes its data as they are.
ToStore(t) == IF call[t].op = "Close" THEN primes[FileOf(t)] \cup call[t].data
                                      ELSE call[t].data

\* Mutated form: the numbers are added to the live set, not to a copy.
PrepareInPlace(t) ==
    /\ pc[t] = "check" /\ MutexFree
    /\ Opened(t).mode = "WRITE" /\ ~Conflict(t)
    /\ loc' = [loc EXCEPT ![t].nums = ToStore(t), ![t].index = Len(log) + 1]
    /\ primes' = [primes EXCEPT ![FileOf(t)] = ToStore(t)]
    /\ Goto(t, "append")
    /\ UNCHANGED <<hung, table_vars, disk, log_vars, lastApplied, bound_vars>>

\* The data and the index of the log entry, the length of s.log read without s.mu.
Prepare(t) ==
    /\ pc[t] = "check" /\ MutexFree
    /\ Opened(t).mode = "WRITE" /\ ~Conflict(t)
    /\ loc' = [loc EXCEPT ![t].nums = ToStore(t), ![t].index = Len(log) + 1]
    /\ Goto(t, "append")
    /\ UNCHANGED <<hung, table_vars, store_vars, bound_vars>>

\* Under s.mu: the entry joins the log in memory, and on disk; when the disk fails it
\* stays in memory, written or not, and the handler returns.
AppendLog(t) ==
    LET e == [index |-> loc[t].index, file |-> FileOf(t), nums |-> loc[t].nums] IN
    /\ pc[t] = "append" /\ MutexFree
    /\ log' = Append(log, e)
    /\ \/ /\ wal' = Append(wal, e)
          /\ Goto(t, "commit")
          /\ UNCHANGED <<entries, failures>>
       \/ /\ wal' \in {wal, Append(wal, e)}
          /\ Fails
          /\ ReleaseAndReturn(t, Reply("internal"))
    /\ UNCHANGED <<hung, table, fds, requests, disk, primes, lastApplied, loc, restarts>>

\* The disk after the entries from..to of a log were applied in order.
Applied(entriesOf, from, to) ==
    [f \in Files |->
        LET P == {i \in from .. to : entriesOf[i].file = f}
        IN  IF P = {} THEN disk[f]
            ELSE [exists |-> TRUE,
                  nums |-> entriesOf[CHOOSE i \in P : \A j \in P : j <= i].nums]]

\* A majority has the entry (module Replication says when): commit and apply
\* under s.mu, up to the position that the index names.
Commit(t) ==
    /\ pc[t] = "commit" /\ MutexFree
    /\ LET to == IF loc[t].index <= Len(log) THEN loc[t].index ELSE Len(log)
       IN  IF to > lastApplied
           THEN /\ disk' = Applied(log, lastApplied + 1, to)
                /\ lastApplied' = to
           ELSE UNCHANGED <<disk, lastApplied>>
    /\ Goto(t, IF call[t].op = "Write" THEN "collect" ELSE "publish")
    /\ UNCHANGED <<hung, table_vars, primes, log_vars, loc, bound_vars>>

\* No majority within a second: the entry stays in the log.
NoMajority(t) ==
    /\ pc[t] = "commit"
    /\ Fails
    /\ ReleaseAndReturn(t, Reply("unavailable"))
    /\ UNCHANGED <<hung, table, fds, requests, store_vars, loc, restarts>>

\* Write, under s.mu: the numbers the file had not, and those it will have.
Collect(t) ==
    LET f == FileOf(t) IN
    /\ pc[t] = "collect" /\ MutexFree
    /\ loc' = [loc EXCEPT ![t].nums = primes[f] \cup call[t].data,
                          ![t].unseen = call[t].data \ primes[f]]
    /\ Goto(t, "patch")
    /\ UNCHANGED <<hung, table_vars, store_vars, bound_vars>>

\* The new ones are appended to the file, through a temporary one; on an error the
\* handler returns, and part of them may be there.
Patch(t) ==
    LET f == FileOf(t)
        Appended(ns) == disk' = [disk EXCEPT ![f] = [exists |-> TRUE, nums |-> @.nums \cup ns]]
    IN
    /\ pc[t] = "patch"
    /\ \/ /\ Appended(loc[t].unseen)
          /\ Goto(t, "publish")
          /\ UNCHANGED <<entries, failures>>
       \/ /\ \/ UNCHANGED disk
             \/ \E ns \in SUBSET loc[t].unseen : Appended(ns)
          /\ Fails
          /\ ReleaseAndReturn(t, Reply("internal"))
    /\ UNCHANGED <<hung, table, fds, requests, primes, log_vars, lastApplied, loc, restarts>>

\* Under s.mu: the numbers of the file are those the handler has collected.
Publish(t) ==
    /\ pc[t] = "publish" /\ MutexFree
    /\ primes' = [primes EXCEPT ![FileOf(t)] = loc[t].nums]
    /\ Goto(t, "version")
    /\ UNCHANGED <<hung, table_vars, disk, log_vars, lastApplied, loc, bound_vars>>

\* Under the mutex of the entry: a new version if anything was stored.  It is what
\* the handler will answer.
NewVersion(t) ==
    LET v == Entry(t).version + (IF call[t].dirty THEN 1 ELSE 0) IN
    /\ pc[t] = "version" /\ call[t].op \in {"Close", "Write"}
    /\ entries' = [entries EXCEPT ![loc[t].entry].version = v]
    /\ reply' = [reply EXCEPT ![t] = Versioned("ok", v)]
    /\ pc' = [pc EXCEPT ![t] = IF call[t].op = "Close" THEN "drop" ELSE "finish"]
    /\ UNCHANGED <<hung, table, fds, requests, store_vars, call, loc, bound_vars>>

\* Close, under s.mu: the client leaves the descriptor, which stays.
DropClient(t) ==
    /\ pc[t] = "drop" /\ MutexFree
    /\ fds' = [fds EXCEPT ![call[t].fd + 1].registered = FALSE]
    /\ Goto(t, "finish")
    /\ UNCHANGED <<hung, entries, table, requests, store_vars, loc, bound_vars>>

\* Under s.mu: the reply is kept; the lock is released on return.
Finish(t) ==
    /\ pc[t] = "finish" /\ MutexFree
    /\ Keep(t, reply[t])
    /\ \/ call[t].dirty /\ ReleaseAndReturn(t, reply[t])
       \/ ~call[t].dirty /\ Return(t, reply[t]) /\ UNCHANGED entries
    /\ UNCHANGED <<hung, table, fds, store_vars, loc, bound_vars>>

-------------------------------------------------------------------------------
(* Delete *)

\* A file that is not there, or that the table does not know, counts as deleted.
AlreadyDeleted(t) ==
    /\ MutexFree
    /\ \/ pc[t] = "stat" /\ ~disk[FileOf(t)].exists
       \/ pc[t] = "find" /\ table[FileOf(t)] = 0
    /\ Keep(t, Reply("ok"))
    /\ Return(t, Reply("ok"))
    /\ UNCHANGED <<hung, entries, table, fds, store_vars, loc, bound_vars>>

Stat(t) ==
    /\ pc[t] = "stat"
    /\ disk[FileOf(t)].exists
    /\ Goto(t, "find")
    /\ UNCHANGED <<hung, table_vars, store_vars, loc, bound_vars>>

Find(t) ==
    /\ pc[t] = "find" /\ MutexFree
    /\ table[FileOf(t)] # 0
    /\ loc' = [loc EXCEPT ![t].entry = table[FileOf(t)]]
    /\ Goto(t, "try")
    /\ UNCHANGED <<hung, table_vars, store_vars, bound_vars>>

\* The lock is taken if it is free, and not waited for.
TryLock(t) ==
    /\ pc[t] = "try"
    /\ \/ /\ Entry(t).writer
          /\ Return(t, Reply("inuse"))
          /\ UNCHANGED entries
       \/ /\ ~Entry(t).writer
          /\ entries' = [entries EXCEPT ![loc[t].entry].writer = TRUE]
          /\ Goto(t, "remove")
    /\ UNCHANGED <<hung, table, fds, requests, store_vars, loc, bound_vars>>

\* The file is removed, or the disk fails.
Remove(t) ==
    /\ pc[t] = "remove"
    /\ \/ /\ disk' = [disk EXCEPT ![FileOf(t)] = [exists |-> FALSE, nums |-> {}]]
          /\ Goto(t, "forget")
          /\ UNCHANGED <<entries, failures>>
       \/ /\ Fails
          /\ ReleaseAndReturn(t, Reply("internal"))
          /\ UNCHANGED disk
    /\ UNCHANGED <<hung, table, fds, requests, primes, log_vars, lastApplied, loc, restarts>>

\* The table forgets the object; who waits for its lock keeps it.
Forget(t) ==
    /\ pc[t] = "forget" /\ MutexFree
    /\ table' = [table EXCEPT ![FileOf(t)] = 0]
    /\ primes' = [primes EXCEPT ![FileOf(t)] = {}]
    /\ Keep(t, Reply("ok"))
    /\ ReleaseAndReturn(t, Reply("ok"))
    /\ UNCHANGED <<hung, fds, disk, log_vars, lastApplied, loc, bound_vars>>

-------------------------------------------------------------------------------
(* TestAuth and Read *)

\* The object under s.mu, then its version: that it exists says nothing of the file.
Lookup(t) ==
    /\ pc[t] = "start" /\ MutexFree
    /\ call[t].op = "TestAuth"
    /\ \/ /\ table[FileOf(t)] = 0
          /\ Return(t, Reply("notfound"))
          /\ UNCHANGED loc
       \/ /\ table[FileOf(t)] # 0
          /\ loc' = [loc EXCEPT ![t].entry = table[FileOf(t)]]
          /\ Goto(t, "version")
    /\ UNCHANGED <<hung, table_vars, store_vars, bound_vars>>

ReadVersion(t) ==
    /\ pc[t] = "version" /\ call[t].op = "TestAuth"
    /\ Return(t, Versioned("ok", Entry(t).version))
    /\ UNCHANGED <<hung, table_vars, store_vars, loc, bound_vars>>

\* The descriptor the client opened last for the file.
LastOpened(c, f) ==
    {n \in DOMAIN fds : /\ fds[n].client = c /\ fds[n].file = f
                        /\ \A m \in DOMAIN fds : fds[m].client = c /\ fds[m].file = f => m <= n}

\* Only a client that is registered with the descriptor may read, and one whose lease
\* has passed no longer is.  Without a lock of the file: a part of it, or what it was
\* before a Delete, so that any numbers may come.
Read(t) ==
    LET D == LastOpened(call[t].client, call[t].file)
        registered == \E n \in D : fds[n].registered
    IN
    /\ pc[t] = "start" /\ MutexFree
    /\ call[t].op = "Read"
    /\ \/ /\ registered
          /\ \E ns \in SUBSET Numbers : loc' = [loc EXCEPT ![t].nums = ns]
          /\ Return(t, Reply("ok"))
          /\ UNCHANGED fds
       \/ /\ registered
          /\ \E n \in D : fds' = [fds EXCEPT ![n].registered = FALSE]
          /\ Return(t, Reply("denied"))
          /\ UNCHANGED loc
       \/ /\ ~registered
          /\ Return(t, Reply("denied"))
          /\ UNCHANGED <<loc, fds>>
    /\ UNCHANGED <<hung, entries, table, requests, store_vars, bound_vars>>

-------------------------------------------------------------------------------
\* The server stops and starts: memory is lost, the log is replayed.  The numbers
\* of the files are not read back: rebuildAllPrimeSets returns when the role is
\* not yet Primary, and it is not during the replay.
Restart ==
    /\ restarts < MaxRestarts
    /\ restarts' = restarts + 1
    /\ hung' = FALSE
    /\ entries' = <<>> /\ table' = [f \in Files |-> 0]
    /\ fds' = <<>> /\ requests' = {}
    /\ primes' = [f \in Files |-> {}]
    /\ disk' = Applied(wal, 1, Len(wal))
    /\ log' = wal
    /\ lastApplied' = LET I == {wal[i].index : i \in DOMAIN wal} \cup {0}
                      IN  CHOOSE x \in I : \A y \in I : y <= x
    /\ pc' = [t \in Threads |-> IF pc[t] = "idle" THEN "idle" ELSE "done"]
    /\ reply' = [t \in Threads |-> IF pc[t] = "idle" THEN reply[t] ELSE Reply("unavailable")]
    /\ UNCHANGED <<wal, call, loc, failures>>

Serve(t) ==
    \/ Repeated(t) \/ Begin(t) \/ Unregistered(t) \/ getFileEntry(t) \/ AcquireWrite(t)
    \/ CreateFile(t) \/ OpenFile(t) \/ Register(t) \/ TooManyOpenFiles(t)
    \/ Reject(t) \/ Prepare(t) \/ AppendLog(t) \/ Commit(t) \/ NoMajority(t)
    \/ Collect(t) \/ Patch(t) \/ Publish(t) \/ NewVersion(t) \/ DropClient(t) \/ Finish(t)
    \/ AlreadyDeleted(t) \/ Stat(t) \/ Find(t) \/ TryLock(t) \/ Remove(t) \/ Forget(t)
    \/ Lookup(t) \/ ReadVersion(t) \/ Read(t)
===============================================================================
