------------------------------ MODULE Replication ------------------------------
(***************************************************************************)
(* Write-ahead-log replication from one primary to its backups, as the     *)
(* Close and Write handlers (server_basics.go), the AppendEntries and      *)
(* RequestRecovery handlers (server_replication.go) and the start-up       *)
(* recovery (recoverFromLog, RecoverFromLeader) perform it.                *)
(*                                                                         *)
(* The primary is fixed: module Election models how it is chosen.  The     *)
(* checks a request passes before it reaches the log (request cache, open  *)
(* mode, version) are those of module FileService.                         *)
(*                                                                         *)
(* A handler is cut where another goroutine can interleave: it computes    *)
(* its log index without s.mu, appends under s.mu, sends from goroutines,  *)
(* waits for acknowledgements, commits under s.mu, sends again, answers.   *)
(*                                                                         *)
(* The contents of a file are abstracted to the operation that produced    *)
(* them and the form they have on that server's disk.                      *)
(***************************************************************************)
EXTENDS Integers, Sequences, FiniteSets

CONSTANTS
    Leader,       \* the server whose role is Primary
    Followers,    \* the other entries of s.servers
    Files,        \* the output files the clients use
    Handlers,     \* the requests the primary serves at a time
    Kinds,        \* the handlers exercised, a subset of {"Close", "Write"}
    Starting,     \* followers that have yet to do their start-up recovery
    MarkedDead,   \* followers whose Alive flag is FALSE at the primary
    Restartable,  \* the servers that may crash and restart
    Deletes,      \* BOOLEAN: the clients also delete files
    DiskErrors,   \* BOOLEAN: a write may fail (but not apply's, which is not reported)
    MaxOps,       \* bound: number of mutating requests
    MaxCrashes    \* bound: number of crashes

Servers == {Leader} \cup Followers

ASSUME ServersAssumption ==
    /\ IsFiniteSet(Followers)
    /\ Leader \notin Followers
    /\ Starting \subseteq Followers
    /\ MarkedDead \subseteq Followers
    /\ Restartable \subseteq Servers

ASSUME ParametersAssumption ==
    /\ Files # {}
    /\ Kinds \subseteq {"Close", "Write"}
    /\ Kinds # {}
    /\ Deletes \in BOOLEAN
    /\ DiskErrors \in BOOLEAN
    /\ MaxOps \in Nat
    /\ MaxCrashes \in Nat

VARIABLES
    up,           \* [Servers -> BOOLEAN]
    log,          \* s.log, in memory
    wal,          \* the log file on disk
    commitIndex,  \* s.commitIndex
    lastApplied,  \* s.lastApplied
    files,        \* contents of every file on every server's disk
    opened,       \* files some client holds a descriptor of (s.files)
    table,        \* the primary's s.table, by file
    pc,           \* where a handler is
    req,          \* the locals of a handler: its log entry, the commit index it captured
    acks,         \* followers whose acknowledgement a handler has counted
    net,          \* AppendEntries calls that were sent and not processed
    sync,         \* start-up recovery of a follower: due, answered, applying, done
    owed,         \* what a follower still has to write of the recovery image
    issued,       \* mutating requests so far; names the contents they produce
    crashes,      \* crashes so far
    acked         \* ghost: entries and removals whose request was answered with success

disk    == <<wal, files>>
volatile == <<log, commitIndex, lastApplied>>
handler == <<pc, req, acks>>
recovery == <<sync, owed>>
vars == <<up, disk, volatile, opened, table, handler, net, recovery,
          issued, crashes, acked>>

-------------------------------------------------------------------------------
(* Data *)

Entries  == [idx : Nat, op : Nat, file : Files, kind : Kinds]
Removals == [idx : {0}, op : Nat, file : Files, kind : {"Delete"}]
Forms    == {"absent", "empty", "logged", "patched"}
Contents == [op : Nat, form : Forms]
Calls    == [entry : Entries, commit : Nat, round : {1, 2}, to : Followers]
Copies   == [file : Files, has : Contents]

Exists(c) == c.form # "absent"
Logged(e) == [op |-> e.op, form |-> "logged"]

\* Mutated form: of several entries of a file the first wins.
ApplyReversed(disk0, l, from, to) ==
    [f \in Files |->
        LET P == {i \in from .. to : l[i].file = f}
        IN  IF P = {} THEN disk0[f]
                      ELSE Logged(l[CHOOSE i \in P : \A j \in P : i <= j])]

\* The disk after the entries at positions from..to of l were applied in order:
\* a file holds what the last of its entries says.
Apply(disk0, l, from, to) ==
    [f \in Files |->
        LET P == {i \in from .. to : l[i].file = f}
        IN  IF P = {} THEN disk0[f]
                      ELSE Logged(l[CHOOSE i \in P : \A j \in P : j <= i])]

Lesser(a, b)  == IF a <= b THEN a ELSE b
Greater(a, b) == IF a <= b THEN b ELSE a

\* Mutated form: applyCommitted stops one short of the commit index.
AppliedShortOf(l, applied, commit) == Greater(applied, Lesser(commit - 1, Len(l)))

\* How far applyCommitted gets: a position in the log, not an index of an entry.
AppliedUpTo(l, applied, commit) == Greater(applied, Lesser(commit, Len(l)))

\* The index of the next entry of the primary's log.
NextIndex(l) == Len(l) + 1

\* An entry AppendEntries takes for one it has already.
\* Mutated form: off by one.
KnownTooEarly(l, e) == e.idx <= Len(l) + 1
Known(l, e) == e.idx <= Len(l)

\* Mutated form: half of the servers is enough.
Half(kind) == Cardinality(Servers) \div 2

\* Close counts the servers it knows, Write those it believes alive.
Majority(kind) ==
    IF kind = "Close" THEN Cardinality(Servers) \div 2 + 1
                      ELSE Cardinality(Servers \ MarkedDead) \div 2 + 1

\* entry.AcquireWrite: from the beginning of a mutating handler to its return.
Locked(f) == \E h \in Handlers : pc[h] # "idle" /\ req[h].entry.file = f

NoRequest == [entry |-> [idx |-> 0, op |-> 0, file |-> CHOOSE f \in Files : TRUE,
                         kind |-> CHOOSE k \in Kinds : TRUE],
              commit |-> 0]

-------------------------------------------------------------------------------
Init ==
    /\ up = [s \in Servers |-> TRUE]
    /\ log = [s \in Servers |-> <<>>]
    /\ wal = [s \in Servers |-> <<>>]
    /\ commitIndex = [s \in Servers |-> 0]
    /\ lastApplied = [s \in Servers |-> 0]
    /\ files = [s \in Servers |-> [f \in Files |-> [op |-> 0, form |-> "absent"]]]
    /\ opened = {}
    /\ table = {}
    /\ pc = [h \in Handlers |-> "idle"]
    /\ req = [h \in Handlers |-> NoRequest]
    /\ acks = [h \in Handlers |-> {}]
    /\ net = {}
    /\ sync = [s \in Followers |-> IF s \in Starting THEN "due" ELSE "done"]
    /\ owed = [s \in Followers |-> {}]
    /\ issued = 0
    /\ crashes = 0
    /\ acked = {}

-------------------------------------------------------------------------------
(* The operations that leave no trace in the log *)

\* Create: a new empty file on the primary's disk, nowhere else.
Create(f) ==
    /\ up[Leader]
    /\ ~Locked(f)
    /\ ~Exists(files[Leader][f])
    /\ files' = [files EXCEPT ![Leader][f].form = "empty"]
    /\ opened' = opened \cup {f}
    /\ table' = table \cup {f}
    /\ UNCHANGED <<up, wal, volatile, handler, net, recovery, issued, crashes, acked>>

\* Open of an existing output file.
Open(f) ==
    /\ up[Leader]
    /\ Exists(files[Leader][f])
    /\ opened' = opened \cup {f}
    /\ table' = table \cup {f}
    /\ UNCHANGED <<up, disk, volatile, handler, net, recovery, issued, crashes, acked>>

\* Delete: the file goes from the primary's disk and table; a file the table
\* does not know is reported deleted and stays.
Delete(f) ==
    /\ Deletes
    /\ up[Leader]
    /\ issued < MaxOps
    /\ ~Locked(f)
    /\ Exists(files[Leader][f])
    /\ issued' = issued + 1
    /\ acked' = acked \cup {[idx |-> 0, op |-> issued + 1, file |-> f, kind |-> "Delete"]}
    /\ \/ /\ f \in table
          /\ files' = [files EXCEPT ![Leader][f] = [op |-> issued + 1, form |-> "absent"]]
       \/ /\ f \notin table
          /\ UNCHANGED files
    /\ table' = table \ {f}
    /\ UNCHANGED <<up, wal, volatile, opened, handler, net, recovery, crashes>>

-------------------------------------------------------------------------------
(* A mutating request: Close with dirty data, or Write *)

\* AcquireWrite, then the index of the new entry, read without s.mu.
Begin(h, f, k) ==
    /\ up[Leader]
    /\ pc[h] = "idle"
    /\ issued < MaxOps
    /\ f \in opened
    /\ ~Locked(f)
    /\ issued' = issued + 1
    /\ table' = table \cup {f}
    /\ req' = [req EXCEPT ![h] =
                 [entry |-> [idx |-> NextIndex(log[Leader]), op |-> issued + 1,
                             file |-> f, kind |-> k],
                  commit |-> 0]]
    /\ pc' = [pc EXCEPT ![h] = "append"]
    /\ acks' = [acks EXCEPT ![h] = {}]
    /\ UNCHANGED <<up, disk, volatile, opened, net, recovery, crashes, acked>>

\* Under s.mu: the entry joins the log in memory and on disk.  When the disk
\* fails, the request fails and the entry stays in memory.
AppendLocal(h) ==
    /\ up[Leader]
    /\ pc[h] = "append"
    /\ log' = [log EXCEPT ![Leader] = Append(@, req[h].entry)]
    /\ \/ /\ wal' = [wal EXCEPT ![Leader] = Append(@, req[h].entry)]
          /\ pc' = [pc EXCEPT ![h] = "replicate"]
       \/ /\ DiskErrors
          /\ pc' = [pc EXCEPT ![h] = "idle"]
          /\ UNCHANGED wal
    /\ UNCHANGED <<up, files, commitIndex, lastApplied, opened, table, req, acks,
                   net, recovery, issued, crashes, acked>>

\* The first round: one goroutine per peer sends the entry with the commit
\* index the handler captured.
Replicate(h) ==
    /\ up[Leader]
    /\ pc[h] = "replicate"
    /\ req' = [req EXCEPT ![h].commit = commitIndex[Leader]]
    /\ net' = net \cup {[entry |-> req[h].entry, commit |-> commitIndex[Leader],
                         round |-> 1, to |-> s] : s \in Followers}
    /\ pc' = [pc EXCEPT ![h] = "wait"]
    /\ UNCHANGED <<up, disk, volatile, opened, table, acks, recovery, issued,
                   crashes, acked>>

\* A majority is reached: commit under s.mu and apply.
Commit(h) ==
    /\ up[Leader]
    /\ pc[h] = "wait"
    /\ Cardinality(acks[h]) + 1 >= Majority(req[h].entry.kind)
    /\ LET ci == req[h].entry.idx
           la == AppliedUpTo(log[Leader], lastApplied[Leader], ci)
       IN  /\ commitIndex' = [commitIndex EXCEPT ![Leader] = ci]
           /\ lastApplied' = [lastApplied EXCEPT ![Leader] = la]
           /\ files' = [files EXCEPT ![Leader] =
                          Apply(@, log[Leader], lastApplied[Leader] + 1, la)]
    /\ pc' = [pc EXCEPT ![h] = "announce"]
    /\ UNCHANGED <<up, log, wal, opened, table, req, acks, net, recovery, issued,
                   crashes, acked>>

\* Mutated form: the wait has no timeout.
GiveUpNever(h) == FALSE

\* One second without a majority: the request fails, its entry stays logged.
GiveUp(h) ==
    /\ up[Leader]
    /\ pc[h] = "wait"
    /\ Cardinality(acks[h]) + 1 < Majority(req[h].entry.kind)
    /\ pc' = [pc EXCEPT ![h] = "idle"]
    /\ UNCHANGED <<up, disk, volatile, opened, table, req, acks, net, recovery,
                   issued, crashes, acked>>

\* The second round carries the commit index of the primary at that moment.
Announce(h) ==
    /\ up[Leader]
    /\ pc[h] = "announce"
    /\ net' = net \cup {[entry |-> req[h].entry, commit |-> commitIndex[Leader],
                         round |-> 2, to |-> s] : s \in Followers}
    /\ pc' = [pc EXCEPT ![h] = "answer"]
    /\ UNCHANGED <<up, disk, volatile, opened, table, req, acks, recovery, issued,
                   crashes, acked>>

\* The success reply; Write first appends the numbers it had not seen to the
\* file, on the primary only, and reports a failure to do so.
Answer(h) ==
    LET e == req[h].entry IN
    /\ up[Leader]
    /\ pc[h] = "answer"
    /\ \/ /\ e.kind = "Write"
          /\ files' = [files EXCEPT ![Leader][e.file].form = "patched"]
          /\ acked' = acked \cup {e}
       \/ /\ e.kind = "Write"
          /\ DiskErrors
          /\ UNCHANGED <<files, acked>>
       \/ /\ e.kind = "Close"
          /\ acked' = acked \cup {e}
          /\ UNCHANGED files
    /\ pc' = [pc EXCEPT ![h] = "idle"]
    /\ UNCHANGED <<up, wal, volatile, opened, table, req, acks, net, recovery,
                   issued, crashes>>

-------------------------------------------------------------------------------
(* A follower *)

\* AppendEntries: an entry whose index is within the log is taken for a
\* duplicate, a failure to persist is only reported, the answer is always success.
\* The handler may count the acknowledgement, or never see it.
AppendEntries(m) ==
    LET s   == m.to
        e   == m.entry
        ci  == Greater(commitIndex[s], m.commit)
        la  == AppliedUpTo(log'[s], lastApplied[s], ci)
    IN
    /\ m \in net
    /\ up[s]
    /\ net' = net \ {m}
    /\ \/ /\ ~Known(log[s], e)
          /\ log' = [log EXCEPT ![s] = Append(@, e)]
          /\ \/ wal' = [wal EXCEPT ![s] = Append(@, e)]
             \/ DiskErrors /\ UNCHANGED wal
       \/ /\ Known(log[s], e)
          /\ UNCHANGED <<log, wal>>
    /\ commitIndex' = [commitIndex EXCEPT ![s] = ci]
    /\ lastApplied' = [lastApplied EXCEPT ![s] = la]
    /\ files' = [files EXCEPT ![s] = Apply(@, log'[s], lastApplied[s] + 1, la)]
    /\ \/ UNCHANGED acks
       \/ \E h \in Handlers :
             /\ m.round = 1
             /\ pc[h] = "wait"
             /\ req[h].entry = e
             /\ acks' = [acks EXCEPT ![h] = @ \cup {s}]
    /\ UNCHANGED <<up, opened, table, pc, req, recovery, issued, crashes, acked>>

\* RecoverFromLeader, two seconds after the start: RequestRecovery reads, under
\* the primary's s.mu, the files its table knows.
RequestRecovery(s) ==
    /\ up[s] /\ up[Leader]
    /\ sync[s] = "due"
    /\ owed' = [owed EXCEPT ![s] = {[file |-> f, has |-> files[Leader][f]] :
                                      f \in {g \in table : Exists(files[Leader][g])}}]
    /\ sync' = [sync EXCEPT ![s] = "answered"]
    /\ UNCHANGED <<up, disk, volatile, opened, table, handler, net, issued,
                   crashes, acked>>

\* Mutated form: an unreachable primary is waited for.
RecoveryFailsLate(s) ==
    /\ up[s]
    /\ sync[s] = "answered"
    /\ sync' = [sync EXCEPT ![s] = "done"]
    /\ owed' = [owed EXCEPT ![s] = {}]
    /\ UNCHANGED <<up, disk, volatile, opened, table, handler, net, issued,
                   crashes, acked>>

\* The call fails, or its answer is later than five seconds: nothing is retried.
RecoveryFails(s) ==
    /\ up[s]
    /\ sync[s] \in {"due", "answered"}
    /\ sync' = [sync EXCEPT ![s] = "done"]
    /\ owed' = [owed EXCEPT ![s] = {}]
    /\ UNCHANGED <<up, disk, volatile, opened, table, handler, net, issued,
                   crashes, acked>>

\* One critical section of ApplyUpdate.  The first one forgets the log in memory
\* (the log on disk keeps its entries); each writes one file of the image, and the
\* first file that cannot be written ends the recovery.
ApplyUpdate(s) ==
    /\ up[s]
    /\ \/ /\ sync[s] = "answered"
          /\ log' = [log EXCEPT ![s] = <<>>]
          /\ commitIndex' = [commitIndex EXCEPT ![s] = 0]
          /\ lastApplied' = [lastApplied EXCEPT ![s] = 0]
       \/ /\ sync[s] = "applying"
          /\ UNCHANGED volatile
    /\ \/ /\ owed[s] = {}
          /\ sync' = [sync EXCEPT ![s] = "done"]
          /\ UNCHANGED <<files, owed>>
       \/ /\ DiskErrors
          /\ sync' = [sync EXCEPT ![s] = "done"]
          /\ owed' = [owed EXCEPT ![s] = {}]
          /\ UNCHANGED files
       \/ \E c \in owed[s] :
             /\ files' = [files EXCEPT ![s][c.file] = c.has]
             /\ owed' = [owed EXCEPT ![s] = @ \ {c}]
             /\ sync' = [sync EXCEPT ![s] = "applying"]
    /\ UNCHANGED <<up, wal, opened, table, handler, net, issued, crashes, acked>>

-------------------------------------------------------------------------------
(* Crash and restart of a process *)

\* Memory is lost, with the requests being served; the disk survives.
Crash(s) ==
    /\ s \in Restartable
    /\ up[s]
    /\ crashes < MaxCrashes
    /\ crashes' = crashes + 1
    /\ up' = [up EXCEPT ![s] = FALSE]
    /\ log' = [log EXCEPT ![s] = <<>>]
    /\ commitIndex' = [commitIndex EXCEPT ![s] = 0]
    /\ lastApplied' = [lastApplied EXCEPT ![s] = 0]
    /\ \/ /\ s = Leader
          /\ opened' = {}
          /\ table' = {}
          /\ pc' = [h \in Handlers |-> "idle"]
          /\ UNCHANGED recovery
       \/ /\ s \in Followers
          /\ sync' = [sync EXCEPT ![s] = "due"]
          /\ owed' = [owed EXCEPT ![s] = {}]
          /\ UNCHANGED <<opened, table, pc>>
    /\ UNCHANGED <<disk, req, acks, net, issued, acked>>

\* Mutated form: an empty log has no last index.
LastIndexOrNone(l) == IF l = <<>> THEN -1 ELSE l[Len(l)].idx

\* The largest index of a log on disk, 0 for an empty one.
LastIndex(l) ==
    IF l = <<>> THEN 0
    ELSE LET I == {l[i].idx : i \in DOMAIN l} IN CHOOSE x \in I : \A y \in I : y <= x

\* Mutated form: the log in memory is not refilled.
RestartForgetful(s) ==
    /\ ~up[s]
    /\ up' = [up EXCEPT ![s] = TRUE]
    /\ commitIndex' = [commitIndex EXCEPT ![s] = LastIndex(wal[s])]
    /\ lastApplied' = [lastApplied EXCEPT ![s] = LastIndex(wal[s])]
    /\ files' = [files EXCEPT ![s] = Apply(@, wal[s], 1, Len(wal[s]))]
    /\ UNCHANGED <<log, wal, opened, table, handler, net, recovery, issued,
                   crashes, acked>>

\* recoverFromLog: every entry on disk is applied, committed or not.
Restart(s) ==
    /\ ~up[s]
    /\ up' = [up EXCEPT ![s] = TRUE]
    /\ log' = [log EXCEPT ![s] = wal[s]]
    /\ commitIndex' = [commitIndex EXCEPT ![s] = LastIndex(wal[s])]
    /\ lastApplied' = [lastApplied EXCEPT ![s] = LastIndex(wal[s])]
    /\ files' = [files EXCEPT ![s] = Apply(@, wal[s], 1, Len(wal[s]))]
    /\ UNCHANGED <<wal, opened, table, handler, net, recovery, issued, crashes, acked>>

-------------------------------------------------------------------------------
Serve(h) == \/ AppendLocal(h) \/ Replicate(h) \/ Commit(h)
            \/ GiveUp(h) \/ Announce(h) \/ Answer(h)

Next ==
    \/ \E f \in Files : Create(f) \/ Open(f) \/ Delete(f)
    \/ \E h \in Handlers, f \in Files, k \in Kinds : Begin(h, f, k)
    \/ \E h \in Handlers : Serve(h)
    \/ \E m \in net : AppendEntries(m)
    \/ \E s \in Followers : RequestRecovery(s) \/ RecoveryFails(s) \/ ApplyUpdate(s)
    \/ \E s \in Servers : Crash(s) \/ Restart(s)

Spec == Init /\ [][Next]_vars

\* What the runtime owes: a request being served goes on (its wait has a
\* timeout), a recovery that began ends, a crashed process is started again.
\* Nothing is assumed of the network.
Fairness ==
    /\ \A h \in Handlers : WF_vars(Serve(h))
    /\ \A s \in Followers : WF_vars(RecoveryFails(s) \/ ApplyUpdate(s))
    /\ \A s \in Servers : WF_vars(Restart(s))

LiveSpec == Spec /\ Fairness

-------------------------------------------------------------------------------
(* Properties *)

\* The state has the shape the declarations say.
TypeOK ==
    /\ up \in [Servers -> BOOLEAN]
    /\ log \in [Servers -> Seq(Entries)]
    /\ wal \in [Servers -> Seq(Entries)]
    /\ commitIndex \in [Servers -> Nat]
    /\ lastApplied \in [Servers -> Nat]
    /\ files \in [Servers -> [Files -> Contents]]
    /\ opened \subseteq Files
    /\ table \subseteq Files
    /\ pc \in [Handlers -> {"idle", "append", "replicate", "wait", "announce", "answer"}]
    /\ req \in [Handlers -> [entry : Entries, commit : Nat]]
    /\ acks \in [Handlers -> SUBSET Followers]
    /\ net \subseteq Calls
    /\ sync \in [Followers -> {"due", "answered", "applying", "done"}]
    /\ owed \in [Followers -> SUBSET Copies]
    /\ issued \in Nat
    /\ crashes \in Nat
    /\ acked \subseteq Entries \cup Removals

Holds(s, e) == \E i \in 1 .. Len(wal[s]) : wal[s][i] = e

Holders(e) == {s \in Servers : Holds(s, e)}

\* e is on the disks of more than half of the servers.
OnMajority(e) == 2 * Cardinality(Holders(e)) > Cardinality(Servers)

\* A request answered with success is on the disk of a majority of the servers:
\* counting acknowledgements (Close, Write) is counting durable copies.
CommittedOnMajority ==
    \A e \in acked : OnMajority(e)

\* A request answered with success is not undone on the primary: what the file
\* holds is its contents or those of a later request, across crashes of the
\* primary and the replay of its log (Close, Write, applyCommitted, recoverFromLog).
AckedVisible ==
    up[Leader] => \A e \in acked : files[Leader][e.file].op >= e.op

\* When CommittedOnMajority holds: the primary serves one request at a time and
\* believes every server alive, disks do not fail, backups do not restart, and
\* deletions, never logged, are left out (the other runs drop these).
OneAtATime ==
    /\ \A g, h \in Handlers : g = h
    /\ MarkedDead = {}
    /\ DiskErrors = FALSE
    /\ Restartable \subseteq {Leader}
    /\ Deletes = FALSE

\* Why it holds then.

\* e is where its index says in the log of the primary.
OnPrimary(e) == e.idx \in 1 .. Len(wal[Leader]) /\ wal[Leader][e.idx] = e

\* The primary's log is the one on its disk, and positions are indexes.
PrimaryLog ==
    /\ up[Leader] => log[Leader] = wal[Leader]
    /\ \A i \in 1 .. Len(wal[Leader]) : wal[Leader][i].idx = i

\* Entries come from the primary's log; a backup is up, has in memory what it has on
\* disk, and its log is never longer than the index of its last entry.
BackupLogs ==
    /\ \A m \in net : OnPrimary(m.entry)
    /\ \A s \in Followers :
          /\ up[s]
          /\ \A i \in 1 .. Len(wal[s]) : OnPrimary(wal[s][i])
          /\ \A i \in 1 .. Len(log[s]) : Holds(s, log[s][i])
          /\ log[s] # <<>> => Len(log[s]) <= log[s][Len(log[s])].idx

\* The request being served is the last entry of the primary's log, and its
\* acknowledgements are durable.
RequestIsLast ==
    \A h \in Handlers :
        /\ pc[h] # "idle" => up[Leader]
        /\ pc[h] \in {"append", "replicate"} => acks[h] = {}
        /\ pc[h] = "append" => req[h].entry.idx = Len(log[Leader]) + 1
        /\ pc[h] \in {"replicate", "wait", "announce", "answer"}
              => /\ OnPrimary(req[h].entry)
                 /\ req[h].entry.idx = Len(wal[Leader])
        /\ pc[h] = "wait" => \A s \in acks[h] : Holds(s, req[h].entry)
        /\ pc[h] \in {"announce", "answer"} => OnMajority(req[h].entry)

DurabilityInv == /\ TypeOK /\ PrimaryLog /\ BackupLogs /\ RequestIsLast
                 /\ CommittedOnMajority

\* The module implements DurableFiles: what is on the disks of a majority is durable,
\* what the primary's disk holds is shown.
Stored == {e \in {wal[Leader][i] : i \in DOMAIN wal[Leader]} : OnMajority(e)}
Shown  == [f \in Files |-> files[Leader][f].op]

Durable == INSTANCE DurableFiles WITH durable <- Stored, shown <- Shown, answered <- acked

\* A Close or Write answered with success is durable and visible, in that order for
\* everybody: copies on a majority never go away, and neither a commit, a crash of the
\* primary nor the replay of its log shows an older update of a file than before.
ImplementsDurableFiles == Durable!Spec

\* Why it does, under the same assumption as CommittedOnMajority.

\* The primary's log has the requests in the order they came.
LogInOrder ==
    /\ \A i, j \in 1 .. Len(wal[Leader]) : i < j => wal[Leader][i].op < wal[Leader][j].op
    /\ \A i \in 1 .. Len(wal[Leader]) : wal[Leader][i].op \in 1 .. issued
    /\ \A h \in Handlers : pc[h] = "append" =>
            /\ req[h].entry.op \in 1 .. issued
            /\ \A i \in 1 .. Len(wal[Leader]) : wal[Leader][i].op < req[h].entry.op

\* A file shows what an entry of the primary's log says, an applied one while the
\* primary is up, and no older one than any it has applied.
ShownIsLogged ==
    /\ up[Leader] => lastApplied[Leader] <= Len(wal[Leader])
    /\ \A f \in Files :
          \/ Shown[f] = 0
          \/ \E i \in 1 .. Len(wal[Leader]) :
                /\ wal[Leader][i].file = f /\ wal[Leader][i].op = Shown[f]
                /\ up[Leader] => i <= lastApplied[Leader]
    /\ up[Leader] => \A i \in 1 .. lastApplied[Leader] :
                        wal[Leader][i].op <= Shown[wal[Leader][i].file]

VisibilityInv ==
    /\ LogInOrder
    /\ ShownIsLogged
    /\ \A h \in Handlers : pc[h] \in {"announce", "answer"}
                              => lastApplied[Leader] = Len(wal[Leader])
    /\ \A e \in acked : Shown[e.file] >= e.op

\* An index names one entry in the whole cluster: AppendEntries, which compares
\* indexes and nothing else, relies on it to recognise duplicates.
IndexNamesEntry ==
    \A s, t \in Servers : \A i \in DOMAIN wal[s], j \in DOMAIN wal[t] :
        wal[s][i].idx = wal[t][j].idx => wal[s][i] = wal[t][j]

\* A backup's disk has every entry whose append it acknowledged, as far as a
\* handler still waits for acknowledgements (AppendEntries "appends to log persists").
AckedIsPersisted ==
    \A h \in Handlers : pc[h] = "wait" => \A s \in acks[h] : Holds(s, req[h].entry)

\* Every request ends: the wait for a majority cannot block its handler, which
\* holds the write lock of the file.
RequestEnds == \A h \in Handlers : pc[h] # "idle" ~> pc[h] = "idle"

\* A start-up recovery ends, unless the process crashes first.
RecoveryEnds == \A s \in Followers : sync[s] # "done" ~> sync[s] = "done"
===============================================================================
