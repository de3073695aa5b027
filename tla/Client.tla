-------------------------------- MODULE Client --------------------------------
(***************************************************************************)
(* The client library (client_basics.go): a cache of files with their      *)
(* versions and descriptors, and for every library call the requests it    *)
(* makes to the server, their retries and what it does with the replies.   *)
(*                                                                         *)
(* A client makes one library call at a time.  A request the client has    *)
(* given up on goes on at the server.                                      *)
(***************************************************************************)
EXTENDS FileService

CONSTANTS
    MaxTries,     \* attempts at a request (the code: 3)
    Hasty,        \* requests the client may give up on, a subset of Ops
    MaxTimeouts,  \* bound: requests given up on
    Plan,         \* bound: the library calls a client makes, as a sequence of the sets
                  \* it takes the first, the second ... from
    NoThread      \* the thread of a call that waits for none

LibraryCalls == {"Create", "Open", "OpenToRead", "WriteFile", "Close", "Commit", "Delete", "Read"}

ASSUME ClientAssumption ==
    /\ MaxTries \in Nat \ {0} /\ MaxTimeouts \in Nat
    /\ Plan \in [Clients -> Seq(SUBSET LibraryCalls)]
    /\ Hasty \subseteq Ops
    /\ NoThread \notin Threads

VARIABLES
    cache,      \* c.cache
    at,         \* the request a library call is at
    nextId,     \* generateRequestID
    timeouts,
    made,       \* library calls made
    acked,      \* ghost: numbers whose Close or Commit ended well, by file
    deleted     \* ghost: files somebody asked to delete

client_vars == <<cache, at, nextId>>
app_vars == <<made, acked, deleted>>
vars == <<service_vars, client_vars, timeouts, app_vars>>

CacheEntries == [there : BOOLEAN, version : Nat, fd : Nat, mode : Modes, closed : BOOLEAN,
                 dirty : BOOLEAN, valid : BOOLEAN, data : SUBSET Numbers]

NotCached == [there |-> FALSE, version |-> 0, fd |-> 0, mode |-> "READ", closed |-> TRUE,
              dirty |-> FALSE, valid |-> FALSE, data |-> {}]

\* The entry of a file just created or opened; the local copy is empty.
Fresh(r, m, isClosed) == [NotCached EXCEPT !.there = TRUE, !.version = r.version,
                                           !.fd = r.fd, !.mode = m, !.closed = isClosed]

\* What a library call is doing.  Reopen is the Open of a file whose copy is valid.
Steps == {"Create", "TestAuth", "Reopen", "Open", "Close", "Write", "Delete", "Read"}

Resting == [step |-> "Create", stage |-> "ready", file |-> AFile, mode |-> "READ",
            tries |-> 0, id |-> 0, thread |-> NoThread]

ClientInit ==
    /\ ServiceInit
    /\ cache = [c \in Clients |-> [f \in Files |-> NotCached]]
    /\ at = [c \in Clients |-> Resting]
    /\ nextId = 1
    /\ timeouts = 0
    /\ made = [c \in Clients |-> 0]
    /\ acked = [f \in Files |-> {}]
    /\ deleted = {}

Ready(c) == at[c].stage = "ready"

-------------------------------------------------------------------------------
(* Library calls *)

\* The call makes its first request, under a new id.
Ask(c, s, f, m) ==
    /\ at' = [at EXCEPT ![c] = [Resting EXCEPT !.step = s, !.stage = "call", !.file = f,
                                               !.mode = m, !.id = nextId]]
    /\ nextId' = nextId + 1

\* The call ends, well or not: what it returned is not kept.
End(c) ==
    /\ at' = [at EXCEPT ![c] = Resting]
    /\ UNCHANGED nextId

Create(c, f) ==
    /\ Ready(c)
    /\ Ask(c, "Create", f, "READ")
    /\ UNCHANGED cache

\* A file with unsaved data is open still; another one in the cache is asked about.
Open(c, f, m) ==
    /\ Ready(c)
    /\ \/ /\ cache[c][f].there /\ cache[c][f].dirty
          /\ End(c)
       \/ /\ cache[c][f].there /\ ~cache[c][f].dirty
          /\ Ask(c, "TestAuth", f, m)
       \/ /\ ~cache[c][f].there
          /\ Ask(c, "Open", f, m)
    /\ UNCHANGED cache

\* WriteFile changes the local copy only.
WriteFile(c, f, d) ==
    /\ Ready(c)
    /\ cache[c][f].there
    /\ cache[c][f].mode # "READ"
    /\ cache' = [cache EXCEPT ![c][f].data = d, ![c][f].dirty = TRUE, ![c][f].valid = FALSE]
    /\ End(c)

Close(c, f) ==
    /\ Ready(c)
    /\ cache[c][f].there
    /\ Ask(c, "Close", f, "READ")
    /\ UNCHANGED cache

\* Commit saves the local copy and leaves the file open.
Save(c, f) ==
    /\ Ready(c)
    /\ cache[c][f].there /\ ~cache[c][f].closed /\ cache[c][f].dirty
    /\ Ask(c, "Write", f, "READ")
    /\ UNCHANGED cache

Erase(c, f) ==
    /\ Ready(c)
    /\ ~(cache[c][f].there /\ cache[c][f].dirty)
    /\ Ask(c, "Delete", f, "READ")
    /\ cache' = [cache EXCEPT ![c][f] = NotCached]

\* A valid copy is read locally.
Load(c, f) ==
    /\ Ready(c)
    /\ cache[c][f].there
    /\ \/ cache[c][f].valid /\ End(c)
       \/ ~cache[c][f].valid /\ Ask(c, "Read", f, "READ")
    /\ UNCHANGED cache

-------------------------------------------------------------------------------
(* Requests and replies *)

Request(c) ==
    LET a == at[c]
        e == cache[c][a.file]
        changes == a.step \in {"Close", "Write"}
    IN  [client |-> c, id |-> a.id, op |-> IF a.step = "Reopen" THEN "Open" ELSE a.step,
         file |-> a.file, mode |-> a.mode,
         fd |-> IF changes THEN e.fd ELSE 0,
         dirty |-> changes /\ e.dirty,
         version |-> IF changes THEN e.version ELSE 0,
         data |-> IF changes /\ e.dirty THEN e.data ELSE {}]

Send(c) ==
    /\ at[c].stage = "call"
    /\ \E t \in Threads :
          /\ Accept(t, Request(c))
          /\ at' = [at EXCEPT ![c].stage = "wait", ![c].thread = t]
    /\ UNCHANGED <<cache, nextId, timeouts, app_vars>>

\* The next attempt, under the same id.
Retry(c) ==
    /\ at' = [at EXCEPT ![c].stage = "call", ![c].tries = @ + 1, ![c].thread = NoThread]
    /\ UNCHANGED nextId

LastTry(c) == at[c].tries + 1 >= MaxTries

\* Create and Open: every error is retried.
Opening(c, r) ==
    LET f == at[c].file IN
    /\ at[c].step \in {"Create", "Open"}
    /\ \/ /\ r.status = "ok"
          /\ cache' = [cache EXCEPT ![c][f] = Fresh(r, at[c].mode, at[c].step = "Create")]
          /\ End(c)
       \/ /\ r.status # "ok" /\ ~LastTry(c)
          /\ Retry(c)
          /\ UNCHANGED cache
       \/ /\ r.status # "ok" /\ LastTry(c)
          /\ End(c)
          /\ UNCHANGED cache

\* The copy is valid if its version is that of the server; a file that is open for
\* reading is not opened for writing.
Validating(c, r) ==
    LET f == at[c].file
        e == cache[c][f]
    IN
    /\ at[c].step = "TestAuth"
    /\ \/ /\ r.status = "ok" /\ r.version = e.version
          /\ ~e.closed /\ e.mode # at[c].mode /\ e.mode = "READ"
          /\ End(c)
          /\ UNCHANGED cache
       \/ /\ r.status = "ok" /\ r.version = e.version
          /\ e.closed \/ e.mode = at[c].mode \/ e.mode # "READ"
          /\ cache' = [cache EXCEPT ![c][f].valid = TRUE, ![c][f].mode = at[c].mode]
          /\ Ask(c, "Reopen", f, at[c].mode)
       \/ /\ r.status = "ok" /\ r.version # e.version
          /\ Ask(c, "Open", f, at[c].mode)
          /\ UNCHANGED cache
       \/ /\ r.status = "unavailable" /\ ~LastTry(c)
          /\ Retry(c)
          /\ UNCHANGED cache
       \/ /\ r.status # "ok" /\ (r.status # "unavailable" \/ LastTry(c))
          /\ End(c)
          /\ UNCHANGED cache

\* One attempt: the entry keeps its contents and gets the new descriptor.
Reopening(c, r) ==
    LET f == at[c].file IN
    /\ at[c].step = "Reopen"
    /\ End(c)
    /\ \/ /\ r.status = "ok"
          /\ cache' = [cache EXCEPT ![c][f].fd = r.fd, ![c][f].closed = FALSE]
       \/ /\ r.status # "ok"
          /\ UNCHANGED cache

\* One attempt.  When it fails, the data are still unsaved and the descriptor kept.
Saving(c, r) ==
    LET f == at[c].file IN
    /\ at[c].step \in {"Close", "Write"}
    /\ End(c)
    /\ \/ /\ r.status = "ok" /\ at[c].step = "Close"
          /\ cache' = [cache EXCEPT ![c][f].version = r.version, ![c][f].dirty = FALSE,
                                    ![c][f].closed = TRUE, ![c][f].fd = 0]
       \/ /\ r.status = "ok" /\ at[c].step = "Write"
          /\ cache' = [cache EXCEPT ![c][f].version = r.version, ![c][f].dirty = FALSE]
       \/ /\ r.status # "ok"
          /\ UNCHANGED cache

Erasing(c, r) ==
    /\ at[c].step = "Delete"
    /\ End(c)
    /\ UNCHANGED cache

\* What was read replaces the local copy, unsaved data too.
Loading(c, r) ==
    /\ at[c].step = "Read"
    /\ End(c)
    /\ \/ /\ r.status = "ok"
          /\ cache' = [cache EXCEPT ![c][at[c].file].data = loc[at[c].thread].nums]
       \/ /\ r.status # "ok"
          /\ UNCHANGED cache

Handle(c, r) == \/ Opening(c, r) \/ Validating(c, r) \/ Reopening(c, r)
                \/ Saving(c, r) \/ Erasing(c, r) \/ Loading(c, r)

\* The reply arrives.
Receive(c) ==
    LET t == at[c].thread IN
    /\ at[c].stage = "wait"
    /\ Leave(t)
    /\ Handle(c, reply[t])
    /\ acked' = IF reply[t].status = "ok" /\ call[t].op \in {"Close", "Write"}
                THEN [acked EXCEPT ![at[c].file] = @ \cup call[t].data] ELSE acked
    /\ UNCHANGED <<timeouts, made, deleted>>

\* The client gives up; its deadline counts as the server being unavailable.
TimeOut(c) ==
    /\ at[c].stage = "wait"
    /\ pc[at[c].thread] # "done"
    /\ call[at[c].thread].op \in Hasty
    /\ timeouts < MaxTimeouts
    /\ timeouts' = timeouts + 1
    /\ Handle(c, Reply("unavailable"))
    /\ UNCHANGED <<service_vars, app_vars>>

\* A reply nobody waits for.
Drop(t) ==
    /\ \A c \in Clients : at[c].thread # t
    /\ Leave(t)
    /\ UNCHANGED <<client_vars, timeouts, app_vars>>

-------------------------------------------------------------------------------
(* An application that uses the library as it is meant to be used: it writes and
   closes only what it has open. *)

IsOpen(c, f) == cache[c][f].there /\ ~cache[c][f].closed

Application(c) ==
    LET n == made[c] + 1
        May(op) == op \in Plan[c][n]
    IN
    /\ n \in DOMAIN Plan[c]
    /\ made' = [made EXCEPT ![c] = n]
    /\ \E f \in Files :
        /\ \/ May("Create") /\ Create(c, f)
           \/ May("Open") /\ Open(c, f, "WRITE")
           \/ May("OpenToRead") /\ Open(c, f, "READ")
           \/ May("WriteFile") /\ IsOpen(c, f) /\ \E m \in Numbers : WriteFile(c, f, {m})
           \/ May("Close") /\ IsOpen(c, f) /\ Close(c, f)
           \/ May("Commit") /\ Save(c, f)
           \/ May("Delete") /\ Erase(c, f)
           \/ May("Read") /\ IsOpen(c, f) /\ Load(c, f)
        /\ deleted' = IF at'[c].step = "Delete" THEN deleted \cup {f} ELSE deleted
    /\ UNCHANGED <<service_vars, timeouts, acked>>

ServerSteps(t) == Serve(t) /\ UNCHANGED <<client_vars, timeouts, app_vars>>

Next ==
    \/ \E c \in Clients : Application(c) \/ Send(c) \/ Receive(c) \/ TimeOut(c)
    \/ \E t \in Threads : ServerSteps(t) \/ Drop(t)
    \/ Restart /\ UNCHANGED <<client_vars, timeouts, app_vars>>

Spec == ClientInit /\ [][Next]_vars

\* Handlers and the client library go on.
Fairness ==
    /\ \A t \in Threads : WF_vars(ServerSteps(t)) /\ WF_vars(Drop(t))
    /\ \A c \in Clients : WF_vars(Send(c)) /\ WF_vars(Receive(c))

LiveSpec == Spec /\ Fairness

-------------------------------------------------------------------------------
(* What a snapshot tells of the clients (server_snapshots.go) *)

\* The client slots a snapshot captures under s.mu, now.
OpenClients ==
    {[client |-> fds[n].client, file |-> fds[n].file, mode |-> fds[n].mode] :
        n \in {m \in DOMAIN fds : fds[m].registered}}

CheckClientInSnapshot(slots, c, f) ==
    \E o \in slots : o.client = c /\ o.file = f /\ o.mode = "WRITE"

-------------------------------------------------------------------------------
(* Properties *)

\* The variables hold values of their types; descriptors, objects of the table and
\* log indices refer to things that were made.
TypeOK ==
    /\ hung \in BOOLEAN
    /\ \A k \in DOMAIN entries : entries[k] \in [version : Nat, writer : BOOLEAN]
    /\ \A f \in Files : table[f] = 0 \/ table[f] \in DOMAIN entries
    /\ disk \in [Files -> [exists : BOOLEAN, nums : SUBSET Numbers]]
    /\ primes \in [Files -> SUBSET Numbers]
    /\ Len(fds) <= MaxOpenFiles
    /\ \A n \in DOMAIN fds : fds[n] \in [file : Files, client : Clients, mode : Modes,
                                         registered : BOOLEAN]
    /\ \A r \in requests : r.id < nextId /\ r.reply \in Replies
    /\ \A i \in DOMAIN log : log[i] \in [index : Nat, file : Files, nums : SUBSET Numbers]
    /\ \A i \in DOMAIN wal : wal[i] \in [index : Nat, file : Files, nums : SUBSET Numbers]
    /\ call \in [Threads -> Calls] /\ loc \in [Threads -> Locals]
    /\ reply \in [Threads -> Replies]
    /\ cache \in [Clients -> [Files -> CacheEntries]]
    /\ \A c \in Clients : at[c].stage = "wait" => pc[at[c].thread] # "idle"

\* Two handlers never change the same file at the same time: what Create, Close,
\* Write and Delete do between AcquireWrite and ReleaseWrite excludes the others.
\* Only a Delete breaks it, because the table forgets an object others wait for.
OneWriterPerFile ==
    \A s, t \in Threads :
        s # t /\ Holding(s) /\ Holding(t) /\ FileOf(s) = FileOf(t) => FileOf(s) \in deleted

\* No update is lost to another client: the version of an object moves only in a
\* Close or Write whose client had read the version it moves from, or is reset by
\* Create, across every interleaving of handlers and whatever clients give up on.
VersionedUpdates ==
    [][ \A k \in DOMAIN entries \cap DOMAIN entries' :
            entries'[k].version # entries[k].version =>
                \E t \in Threads :
                    /\ loc[t].entry = k /\ pc[t] # pc'[t]
                    /\ \/ call[t].op = "Create" /\ entries'[k].version = 0
                       \/ /\ call[t].version = entries[k].version
                          /\ entries'[k].version = entries[k].version + 1 ]_vars

\* Numbers whose Close was answered "closed" stay in the file while nobody deletes
\* it: later Closes, of whatever client, add to them.
AckedNumbersStay == \A f \in Files \ deleted : acked[f] \subseteq disk[f].nums

\* What the server takes for the numbers of a file was stored.
PrimesAreStored == \A f \in Files \ deleted : primes[f] \subseteq disk[f].nums

\* A snapshot taken at any moment tells of a client that dies then whether it had unsaved
\* data ("If no: the client had already closed cleanly before the snapshot",
\* server_snapshots.go:36): a client with unsaved data is captured as a writer, or the
\* server holds the data, from a Close whose answer the client has not seen.  (In the
\* plans nobody writes again after giving up on a Close: those data would be missed.)
UnsavedIsCaptured ==
    \A c \in Clients, f \in Files \ deleted :
        cache[c][f].dirty /\ ~cache[c][f].closed
            => \/ CheckClientInSnapshot(OpenClients, c, f)
               \/ cache[c][f].data \subseteq disk[f].nums

\* A library call ends, without its deadline, whatever other clients do with the locks of
\* the file, which calls fail and when the server restarts.  The exception is a goroutine
\* that calls getFileEntry while it holds s.mu (server_basics.go:656-657 and 1002-1003).
CallsEnd == \A c \in Clients : at[c].stage # "ready" ~> at[c].stage = "ready" \/ hung
===============================================================================
