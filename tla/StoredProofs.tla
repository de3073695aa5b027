----------------------------- MODULE StoredProofs -----------------------------
(***************************************************************************)
(* That the numbers of a Close that was answered stay in the file, and     *)
(* that a snapshot tells of a client that has data it did not save, for    *)
(* any number of clients and threads, whatever clients give up on and      *)
(* whatever commits fail, as long as there is one file and the server does *)
(* not restart.                                                            *)
(***************************************************************************)
EXTENDS ClientProofs

-------------------------------------------------------------------------------
(* What the guarantee needs *)

\* Entries of several files in the log get in each other's way (rep_shared_index), a restart
\* forgets the numbers of the files (fs_restart), and a Write logs its data only.
Undisturbed ==
    /\ \A f, g \in Files : f = g
    /\ MaxRestarts = 0
    /\ \A c \in Clients : \A i \in DOMAIN Plan[c] : "Commit" \notin Plan[c][i]

-------------------------------------------------------------------------------
(* The inductive invariants *)

\* Which request a handler serves, by the place it is at.
OpsInv ==
    /\ \A t \in Threads :
          /\ call[t].op # "Write"
          /\ pc[t] = "lock" => call[t].op # "Open"
          /\ pc[t] \in {"entry", "lock"} => call[t].op \in {"Create", "Open", "Close"}
          /\ pc[t] \in {"check", "append", "commit", "publish", "drop", "finish"} => call[t].op = "Close"
          /\ pc[t] = "version" => call[t].op \in {"TestAuth", "Close"}
          /\ pc[t] \notin {"collect", "patch"}
          /\ ~call[t].dirty => call[t].data = {}
    /\ \A c \in Clients : at[c].step # "Write"
    /\ restarts = 0

OpOf(step) == IF step = "Reopen" THEN "Open" ELSE step

\* A Close is sent once: nobody has answered its id, and nobody else has it.
IdsInv ==
    /\ \A c \in Clients :
          /\ at[c].stage # "ready" => at[c].id # 0
          /\ \A d \in Clients : d # c /\ at[c].stage # "ready" /\ at[d].stage # "ready" => at[d].id # at[c].id
          /\ \A t \in Threads : at[c].stage # "ready" /\ call[t].id = at[c].id => call[t].op = OpOf(at[c].step)
          /\ at[c].stage = "call" /\ at[c].step = "Close" =>
                /\ \A t \in Threads : call[t].id # at[c].id
                /\ \A r \in requests : r.id # at[c].id
    /\ \A t \in Threads : call[t].op = "Close" =>
          /\ call[t].id # 0
          /\ \A u \in Threads \ {t} : call[u].id # call[t].id
          /\ pc[t] = "start" => \A r \in requests : r.id # call[t].id

\* The handler that changes the file adds to the numbers seen, and its entry is the last
\* of the log.
WriterInv ==
    \A t \in Threads, f \in Files :
        /\ pc[t] \in {"append", "commit", "publish"} => primes[f] \cup call[t].data \subseteq loc[t].nums
        /\ pc[t] = "append" => loc[t].index = Len(log) + 1
        /\ pc[t] = "commit" => /\ loc[t].index = Len(log) /\ lastApplied < Len(log)
                               /\ log[Len(log)].nums = loc[t].nums
        /\ pc[t] = "publish" => disk[f].exists /\ loc[t].nums \subseteq disk[f].nums
        /\ pc[t] = "register" /\ call[t].op = "Create" => primes[f] = {}

\* What was answered was seen, and what was seen is in the file.
SeenInv ==
    /\ lastApplied <= Len(log)
    /\ \A f \in Files :
          /\ primes[f] \subseteq disk[f].nums
          /\ ~disk[f].exists => primes[f] = {}
          /\ acked[f] \subseteq primes[f]
          /\ \A t \in Threads : call[t].op = "Close" =>
                \/ pc[t] \notin {"version", "drop", "finish", "done"}
                \/ pc[t] = "done" /\ reply[t].status # "ok"
                \/ call[t].data \subseteq primes[f]

NumbersInv == OpsInv /\ IdsInv /\ (deleted = {} => WriterInv /\ SeenInv)

-------------------------------------------------------------------------------
(* Where the steps of a handler lead *)

LEMMA Status ==
    /\ \A st \in Statuses : Reply(st).status = st
    /\ {"ok", "exists", "notfound", "denied", "conflict", "inuse", "exhausted", "unavailable",
      "internal"} \subseteq Statuses
  BY DEF Reply, Statuses

\* Which step leads to a place, and which answers a Close with success.
LEMMA Leads ==
    ASSUME TypeInv, ObjectInv, OpsInv, NEW t \in Threads, Serve(t)
    PROVE  /\ pc'[t] # "start"
           /\ pc'[t] = "lock" => call[t].op # "Open"
           /\ pc'[t] \in {"entry", "lock"} => call[t].op \in {"Create", "Open", "Close"}
           /\ pc'[t] \in {"check", "append", "commit", "publish", "drop", "finish"} => call[t].op = "Close"
           /\ pc'[t] = "version" => call[t].op \in {"TestAuth", "Close"}
           /\ pc'[t] \notin {"collect", "patch"}
           /\ pc'[t] = "append" => Prepare(t)
           /\ pc'[t] = "commit" => AppendLog(t)
           /\ pc'[t] = "publish" => Commit(t)
           /\ pc'[t] = "register" /\ call[t].op = "Create" => CreateFile(t) /\ ~disk[FileOf(t)].exists
           /\ pc'[t] = "version" /\ call[t].op = "Close" => Publish(t) \/ ~call[t].dirty
           /\ pc'[t] = "drop" => NewVersion(t)
           /\ pc'[t] = "finish" => DropClient(t)
           /\ pc'[t] = "done" /\ call[t].op = "Close" =>
                 reply'[t].status # "ok" \/ Finish(t) \/ Repeated(t)
<1>0. /\ pc \in [Threads -> Places] /\ reply \in [Threads -> Replies]
      /\ call[t].op # "Write"
      /\ pc[t] = "lock" => call[t].op # "Open"
      /\ pc[t] \in {"entry", "lock"} => call[t].op \in {"Create", "Open", "Close"}
      /\ pc[t] \in {"check", "append", "commit", "publish", "drop", "finish"} => call[t].op = "Close"
      /\ pc[t] = "version" => call[t].op \in {"TestAuth", "Close"}
      /\ pc[t] \notin {"collect", "patch"}
      /\ pc[t] = "open" => call[t].op = "Open"
      /\ pc[t] \in Deleting => call[t].op = "Delete"
  BY DEF OpsInv, TypeInv, ThreadTypes, Refers, ObjectInv
<1> USE Status DEF Goto, Return, ReleaseAndReturn
<1>1. CASE Repeated(t) \/ Begin(t) \/ Unregistered(t)
  BY <1>0, <1>1 DEF Repeated, Begin, Unregistered
<1>2. CASE getFileEntry(t) \/ AcquireWrite(t)
  BY <1>0, <1>2 DEF getFileEntry, AcquireWrite
<1>3. CASE CreateFile(t) \/ OpenFile(t) \/ Register(t) \/ TooManyOpenFiles(t)
  BY <1>0, <1>3 DEF CreateFile, OpenFile, Register, TooManyOpenFiles
<1>4. CASE Reject(t) \/ Prepare(t) \/ AppendLog(t) \/ Commit(t) \/ NoMajority(t)
  BY <1>0, <1>4 DEF Reject, Prepare, AppendLog, Commit, NoMajority
<1>5. CASE Collect(t) \/ Patch(t) \/ Publish(t) \/ NewVersion(t) \/ DropClient(t) \/ Finish(t)
  BY <1>0, <1>5 DEF Collect, Patch, Publish, NewVersion, DropClient, Finish
<1>6. CASE AlreadyDeleted(t) \/ Stat(t) \/ Find(t) \/ TryLock(t) \/ Remove(t) \/ Forget(t)
  BY <1>0, <1>6 DEF AlreadyDeleted, Stat, Find, TryLock, Remove, Forget, Deleting
<1>7. CASE Lookup(t) \/ ReadVersion(t) \/ Read(t)
  BY <1>0, <1>7 DEF Lookup, ReadVersion, Read
<1> QED
  BY <1>1, <1>2, <1>3, <1>4, <1>5, <1>6, <1>7 DEF Serve

\* What a reply makes of a request: the call ends, tries the same again, or goes on to
\* open the file.
LEMMA Answered ==
    ASSUME NEW c \in Clients, NEW r, Handle(c, r)
    PROVE  \/ End(c)
           \/ Retry(c) /\ at[c].step \in {"Create", "Open", "TestAuth"}
           \/ \E s \in {"Reopen", "Open"} : Ask(c, s, at[c].file, at[c].mode)
  BY DEF Handle, Opening, Validating, Reopening, Saving, Erasing, Loading

\* A client moves on with its request: it ended, or it is the same once more, or a new one.
MovesOn(c) ==
    /\ \A d \in Clients \ {c} : at'[d] = at[d]
    /\ nextId \in Nat
    /\ \/ at'[c].stage = "ready" /\ at'[c].step = "Create"
       \/ /\ at'[c].stage = "call" /\ at[c].stage # "ready"
          /\ at'[c].id = at[c].id /\ at'[c].step = at[c].step
          /\ at'[c].step \in {"Create", "Open", "TestAuth"}
       \/ /\ at'[c].stage = "call" /\ at'[c].id = nextId
          /\ at'[c].step \in {"Create", "TestAuth", "Reopen", "Open", "Close", "Delete", "Read"}

LEMMA HandleMoves ==
    ASSUME TypeInv, NEW c \in Clients, NEW r, Handle(c, r), at[c].stage = "wait"
    PROVE  MovesOn(c)
<1>1. /\ ClientTypes /\ at[c].id < nextId /\ nextId \in Nat /\ at[c].file \in Files /\ at[c].mode \in Modes
  BY DEF TypeInv, ClientTypes, Waits, Positions
<1>2. \A s \in {"Reopen", "Open"} : s \in Steps
  BY DEF Steps
<1>3. CASE End(c)
  BY <1>1, <1>3, Ended DEF MovesOn, Moved
<1>4. CASE Retry(c) /\ at[c].step \in {"Create", "Open", "TestAuth"}
  BY <1>1, <1>4, Retried DEF MovesOn, Moved
<1>5. ASSUME NEW s \in {"Reopen", "Open"}, Ask(c, s, at[c].file, at[c].mode)
      PROVE  MovesOn(c)
  BY <1>1, <1>2, <1>5, Asked DEF MovesOn, Moved
<1> QED
  BY <1>3, <1>4, <1>5, Answered

LEMMA ApplicationMoves ==
    ASSUME Undisturbed, TypeInv, NEW c \in Clients, Application(c)
    PROVE  MovesOn(c)
<1>1. /\ ClientTypes /\ at[c].id < nextId /\ nextId \in Nat
  BY DEF TypeInv, ClientTypes, Waits
<1>2. PICK f \in Files :
           \/ Create(c, f) \/ Open(c, f, "WRITE") \/ Open(c, f, "READ")
           \/ \E m \in Numbers : WriteFile(c, f, {m})
           \/ Close(c, f) \/ Erase(c, f) \/ Load(c, f)
  BY DEF Application, Undisturbed
<1> DEFINE Asks == {"Create", "TestAuth", "Open", "Close", "Delete", "Read"}
<1>3. Asks \subseteq Steps /\ "READ" \in Modes /\ "WRITE" \in Modes
  BY DEF Steps, Modes
<1>4. End(c) \/ (\E s \in Asks, m \in Modes : Ask(c, s, f, m))
  BY <1>2, <1>3 DEF Create, Open, WriteFile, Close, Erase, Load
<1>5. CASE End(c)
  BY <1>1, <1>5, Ended DEF MovesOn, Moved
<1>6. ASSUME NEW s \in Asks, NEW m \in Modes, Ask(c, s, f, m)
      PROVE  MovesOn(c)
  BY <1>1, <1>3, <1>6, Asked DEF MovesOn, Moved
<1> QED
  BY <1>4, <1>5, <1>6

-------------------------------------------------------------------------------
(* The steps of the clients *)

\* No handler works: a thread stays as it is or goes to rest.
Rests(t) == pc'[t] = "idle" /\ call'[t] = NoCall
Stays(t) == pc'[t] = pc[t] /\ call'[t] = call[t] /\ loc'[t] = loc[t] /\ reply'[t] = reply[t]
Quiet    == /\ \A t \in Threads : Stays(t) \/ Rests(t)
            /\ UNCHANGED <<store_vars, requests, restarts>>

LEMMA Nothing ==
    NoCall.id = 0 /\ NoCall.op = "TestAuth" /\ NoCall.data = {}
  BY DEF NoCall

\* Who leaves rests.
LEMMA LeaveIsQuiet ==
    ASSUME TypeInv, NEW t \in Threads, Leave(t)
    PROVE  Quiet
  BY DEF TypeInv, ThreadTypes, Leave, Quiet, Rests, Stays, table_vars, bound_vars

LEMMA UnchangedIsQuiet ==
    ASSUME UNCHANGED service_vars
    PROVE  Quiet
  BY DEF service_vars, thread_vars, Quiet, Stays, table_vars, bound_vars

\* Ids in use are below the next one.
LEMMA IdsBelow ==
    ASSUME TypeInv
    PROVE  /\ nextId \in Nat /\ 0 < nextId
           /\ \A c \in Clients : at[c].id \in Nat /\ at[c].id < nextId
           /\ \A t \in Threads : call[t].id \in Nat /\ call[t].id < nextId
           /\ \A r \in requests : r.id \in Nat /\ r.id < nextId
<1>1. nextId \in Nat
  BY DEF TypeInv, ClientTypes
<1>2. \A c \in Clients : at[c].id \in Nat /\ at[c].id < nextId
  BY DEF TypeInv, Waits, ClientTypes, Positions
<1>3. \A t \in Threads : call[t].id \in Nat /\ call[t].id < nextId
  BY DEF TypeInv, IdsGiven, ThreadTypes, Calls
<1>4. \A r \in requests : r.id \in Nat /\ r.id < nextId
  BY DEF TypeInv, IdsGiven, TableTypes, Answers
<1>5. 0 < nextId
  <2>1. PICK c \in Clients : TRUE
    BY ServiceAssumption
  <2> QED
    BY <1>1, <1>2, <2>1
<1> QED
  BY <1>1, <1>2, <1>3, <1>4, <1>5

LEMMA QuietOps ==
    ASSUME OpsInv, Quiet, at' = at \/ \E c \in Clients : MovesOn(c)
    PROVE  OpsInv'
<1>1. ASSUME NEW c \in Clients PROVE at'[c].step # "Write"
  BY DEF OpsInv, MovesOn
<1>2. ASSUME NEW t \in Threads
      PROVE  /\ call'[t].op # "Write"
             /\ pc'[t] = "lock" => call'[t].op # "Open"
             /\ pc'[t] \in {"entry", "lock"} => call'[t].op \in {"Create", "Open", "Close"}
             /\ pc'[t] \in {"check", "append", "commit", "publish", "drop", "finish"} => call'[t].op = "Close"
             /\ pc'[t] = "version" => call'[t].op \in {"TestAuth", "Close"}
             /\ pc'[t] \notin {"collect", "patch"}
             /\ ~call'[t].dirty => call'[t].data = {}
  <2>1. CASE Stays(t)
    BY <2>1 DEF OpsInv, Stays
  <2>2. CASE Rests(t)
    BY <2>2, Nothing DEF Rests
  <2> QED
    BY <2>1, <2>2 DEF Quiet
<1>3. restarts' = 0
  BY DEF Quiet, OpsInv
<1> QED
  BY <1>1, <1>2, <1>3 DEF OpsInv

\* Ids, when a client moves on or none does: a new id is nobody's.
LEMMA QuietIds ==
    ASSUME TypeInv, IdsInv, Quiet, at' = at \/ \E c \in Clients : MovesOn(c)
    PROVE  IdsInv'
<1> DEFINE Old(d) == at'[d] = at[d]
           Again(d) == /\ at'[d].stage # "ready" /\ at[d].stage # "ready" /\ at'[d].id = at[d].id
                       /\ at'[d].step = at[d].step /\ at'[d].step # "Close"
           New(d) == at'[d].stage # "ready" /\ at'[d].id = nextId
           Rest(d) == at'[d].stage = "ready"
<1>1. /\ \A d \in Clients : Old(d) \/ Again(d) \/ New(d) \/ Rest(d)
      /\ \A d, e \in Clients : d # e => Old(d) \/ Old(e)
  BY DEF MovesOn
<1>2. \A t \in Threads : Stays(t) \/ call'[t] = NoCall
  BY DEF Quiet, Rests
<1>3. requests' = requests
  BY DEF Quiet
<1>4. ASSUME NEW d \in Clients
      PROVE  /\ at'[d].stage # "ready" => at'[d].id # 0
             /\ \A e \in Clients : e # d /\ at'[d].stage # "ready" /\ at'[e].stage # "ready"
                                     => at'[e].id # at'[d].id
  <2>1. at'[d].stage # "ready" => at'[d].id # 0
    BY <1>1, IdsBelow DEF IdsInv
  <2>2. ASSUME NEW e \in Clients, e # d, at'[d].stage # "ready", at'[e].stage # "ready"
        PROVE  at'[e].id # at'[d].id
    <3>1. CASE Old(d) /\ Old(e)
      BY <2>2, <3>1 DEF IdsInv
    <3>2. CASE Old(d) /\ Again(e)
      BY <2>2, <3>2 DEF IdsInv
    <3>3. CASE Again(d) /\ Old(e)
      BY <2>2, <3>3 DEF IdsInv
    <3>4. CASE (Old(d) /\ New(e)) \/ (New(d) /\ Old(e))
      BY <3>4, IdsBelow
    <3> QED
      BY <1>1, <2>2, <3>1, <3>2, <3>3, <3>4
  <2> QED
    BY <2>1, <2>2
<1>5. ASSUME NEW d \in Clients, NEW t \in Threads, at'[d].stage # "ready", call'[t].id = at'[d].id
      PROVE  call'[t].op = OpOf(at'[d].step)
  <2>1. call'[t] = call[t]
    BY <1>2, <1>4, <1>5, Nothing DEF Stays
  <2>2. ~New(d)
    BY <1>5, <2>1, IdsBelow
  <2>3. at[d].stage # "ready" /\ at'[d].id = at[d].id /\ at'[d].step = at[d].step
    BY <1>1, <1>5, <2>2
  <2> QED
    BY <1>5, <2>1, <2>3 DEF IdsInv
<1>6. ASSUME NEW d \in Clients, at'[d].stage = "call", at'[d].step = "Close"
      PROVE  /\ \A t \in Threads : call'[t].id # at'[d].id
             /\ \A r \in requests' : r.id # at'[d].id
  <2>1. CASE New(d)
    BY <1>2, <1>3, <2>1, IdsBelow, Nothing DEF Stays
  <2>2. CASE Old(d)
    <3>1. at[d].id # 0
      BY <1>6, <2>2 DEF IdsInv
    <3> QED
      BY <1>2, <1>3, <1>6, <2>2, <3>1, Nothing DEF IdsInv, Stays
  <2> QED
    BY <1>1, <1>6, <2>1, <2>2
<1>7. ASSUME NEW t \in Threads, call'[t].op = "Close"
      PROVE  /\ call'[t].id # 0
             /\ \A u \in Threads \ {t} : call'[u].id # call'[t].id
             /\ pc'[t] = "start" => \A r \in requests' : r.id # call'[t].id
  <2>1. Stays(t)
    BY <1>2, <1>7, Nothing
  <2> QED
    BY <1>2, <1>3, <1>7, <2>1, Nothing DEF IdsInv, Stays
<1> QED
  BY <1>4, <1>5, <1>6, <1>7 DEF IdsInv

\* A request arrives at an idle thread.
Arrives(c, t) ==
    /\ pc[t] = "idle" /\ pc'[t] = "start" /\ call'[t] = Request(c)
    /\ \A u \in Threads \ {t} : Stays(u)
    /\ UNCHANGED <<store_vars, fds, requests, restarts, cache, made, acked, deleted>>
    /\ at[c].stage = "call" /\ at'[c].stage = "wait" /\ at'[c].thread = t
    /\ \A d \in Clients : /\ at'[d].id = at[d].id /\ at'[d].step = at[d].step
                           /\ at'[d].file = at[d].file /\ at'[d].mode = at[d].mode
    /\ \A d \in Clients \ {c} : at'[d] = at[d]

LEMMA SendMoves ==
    ASSUME TypeInv, NEW c \in Clients, Send(c)
    PROVE  \E t \in Threads : Arrives(c, t)
<1>1. PICK t \in Threads :
        /\ Accept(t, Request(c))
        /\ at' = [at EXCEPT ![c].stage = "wait", ![c].thread = t]
  BY DEF Send
<1>2. UNCHANGED <<cache, made, acked, deleted>> /\ at[c].stage = "call"
  BY DEF Send, app_vars
<1>3. /\ pc[t] = "idle" /\ pc'[t] = "start" /\ call'[t] = Request(c)
      /\ \A u \in Threads \ {t} : Stays(u)
      /\ UNCHANGED <<store_vars, fds, requests, restarts>>
  BY <1>1 DEF Accept, TypeInv, ThreadTypes, Stays, table_vars, bound_vars
<1>4. /\ at'[c].stage = "wait" /\ at'[c].thread = t
      /\ \A d \in Clients : /\ at'[d].id = at[d].id /\ at'[d].step = at[d].step
                             /\ at'[d].file = at[d].file /\ at'[d].mode = at[d].mode
      /\ \A d \in Clients \ {c} : at'[d] = at[d]
  <2>1. at \in [Clients -> Positions] /\ at[c] \in Positions
    BY DEF TypeInv, ClientTypes
  <2> QED
    BY <1>1, <2>1 DEF Positions
<1> QED
  BY <1>2, <1>3, <1>4 DEF Arrives

LEMMA Requested ==
    ASSUME NEW c \in Clients
    PROVE  /\ Request(c).id = at[c].id /\ Request(c).op = OpOf(at[c].step)
           /\ ~Request(c).dirty => Request(c).data = {}
           /\ at[c].step # "Write" => Request(c).op # "Write"
           /\ Request(c).op = "Close" => at[c].step = "Close"
  BY DEF Request, OpOf

LEMMA SendNumbers ==
    ASSUME TypeInv, OpsInv, IdsInv, NEW c \in Clients, Send(c)
    PROVE  OpsInv' /\ IdsInv'
<1> USE DEF Arrives
<1>1. PICK t \in Threads : Arrives(c, t)
  BY SendMoves
<1>2. OpsInv'
  <2>1. ASSUME NEW u \in Threads
        PROVE  /\ call'[u].op # "Write"
               /\ pc'[u] = "lock" => call'[u].op # "Open"
               /\ pc'[u] \in {"entry", "lock"} => call'[u].op \in {"Create", "Open", "Close"}
               /\ pc'[u] \in {"check", "append", "commit", "publish", "drop", "finish"} => call'[u].op = "Close"
               /\ pc'[u] = "version" => call'[u].op \in {"TestAuth", "Close"}
               /\ pc'[u] \notin {"collect", "patch"}
               /\ ~call'[u].dirty => call'[u].data = {}
    <3>1. CASE u = t
      BY <1>1, <3>1, Requested DEF OpsInv
    <3>2. CASE u # t
      BY <1>1, <3>2 DEF OpsInv, Stays
    <3> QED
      BY <3>1, <3>2
  <2> QED
    BY <1>1, <2>1 DEF OpsInv
<1>3. \A d \in Clients : at'[d].stage # "ready" => at[d].stage # "ready"
  BY <1>1
<1>4. at[c].step = "Close" => /\ \A u \in Threads : call[u].id # at[c].id
                              /\ \A r \in requests : r.id # at[c].id
  BY <1>1 DEF IdsInv
<1>5. ASSUME NEW d \in Clients
      PROVE  /\ at'[d].stage # "ready" => at'[d].id # 0
             /\ \A e \in Clients : e # d /\ at'[d].stage # "ready" /\ at'[e].stage # "ready"
                                     => at'[e].id # at'[d].id
  BY <1>1, <1>3 DEF IdsInv
<1>6. ASSUME NEW d \in Clients, NEW u \in Threads, at'[d].stage # "ready", call'[u].id = at'[d].id
      PROVE  call'[u].op = OpOf(at'[d].step)
  <2>1. CASE u = t
    <3>1. at[d].id = at[c].id
      BY <1>1, <1>6, <2>1, Requested
    <3>2. d = c
      BY <1>1, <1>3, <1>6, <3>1 DEF IdsInv
    <3> QED
      BY <1>1, <2>1, <3>2, Requested
  <2>2. CASE u # t
    BY <1>1, <1>3, <1>6, <2>2 DEF IdsInv, Stays
  <2> QED
    BY <2>1, <2>2
<1>7. ASSUME NEW d \in Clients, at'[d].stage = "call", at'[d].step = "Close"
      PROVE  /\ \A u \in Threads : call'[u].id # at'[d].id
             /\ \A r \in requests' : r.id # at'[d].id
  <2>1. d # c /\ at'[d] = at[d] /\ at[c].id # at[d].id
    BY <1>1, <1>7 DEF IdsInv
  <2> QED
    BY <1>1, <1>7, <2>1, Requested DEF IdsInv, Stays
<1>8. ASSUME NEW u \in Threads, call'[u].op = "Close"
      PROVE  /\ call'[u].id # 0
             /\ \A v \in Threads \ {u} : call'[v].id # call'[u].id
             /\ pc'[u] = "start" => \A r \in requests' : r.id # call'[u].id
  <2>1. CASE u = t
    <3>1. at[c].step = "Close" /\ call'[u].id = at[c].id
      BY <1>1, <1>8, <2>1, Requested
    <3>2. at[c].id # 0
      BY <1>1 DEF IdsInv
    <3> QED
      BY <1>1, <1>4, <2>1, <3>1, <3>2 DEF Stays
  <2>2. CASE u # t
    <3>1. Stays(u) /\ call[u].op = "Close"
      BY <1>1, <1>8, <2>2 DEF Stays
    <3>2. call[u].id # at[c].id
      <4> SUFFICES ASSUME call[u].id = at[c].id PROVE FALSE
        OBVIOUS
      <4>1. OpOf(at[c].step) = "Close"
        BY <1>1, <3>1 DEF IdsInv
      <4> QED
        BY <1>4, <4>1 DEF OpOf
    <3>3. \A v \in Threads \ {u} : call'[v].id # call'[u].id
      BY <1>1, <3>1, <3>2, Requested DEF IdsInv, Stays
    <3> QED
      BY <1>1, <3>1, <3>3 DEF IdsInv, Stays
  <2> QED
    BY <2>1, <2>2
<1>9. IdsInv'
  BY <1>5, <1>6, <1>7, <1>8 DEF IdsInv
<1> QED
  BY <1>2, <1>9

\* A handler answers only its own request, and does not go back to its beginning.
LEMMA ServeNumbers ==
    ASSUME TypeInv, ObjectInv, OpsInv, IdsInv, NEW t \in Threads, ServerSteps(t)
    PROVE  OpsInv' /\ IdsInv'
<1>1. /\ Serve(t) /\ at' = at /\ ServerTypes(t) /\ ThreadTypes
  BY DEF ServerSteps, client_vars, TypeInv, ServerTypes
<1>2. call' = call /\ \A u \in Threads \ {t} : pc'[u] = pc[u]
  BY <1>1, OthersStay
<1>3. restarts' = restarts
  BY <1>1 DEF bound_vars, Serve, Repeated, Begin, Unregistered, getFileEntry, AcquireWrite, CreateFile,
    OpenFile, Register, TooManyOpenFiles, Reject, Prepare, AppendLog, Commit, NoMajority,
    Collect, Patch, Publish, NewVersion, DropClient, Finish, AlreadyDeleted, Stat, Find, TryLock,
    Remove, Forget, Lookup, ReadVersion, Read
<1>4. /\ pc'[t] # "start"
      /\ pc'[t] = "lock" => call[t].op # "Open"
      /\ pc'[t] \in {"entry", "lock"} => call[t].op \in {"Create", "Open", "Close"}
      /\ pc'[t] \in {"check", "append", "commit", "publish", "drop", "finish"} => call[t].op = "Close"
      /\ pc'[t] = "version" => call[t].op \in {"TestAuth", "Close"}
      /\ pc'[t] \notin {"collect", "patch"}
  BY <1>1, Leads
<1>5. OpsInv'
  <2>1. ASSUME NEW u \in Threads
        PROVE  /\ call'[u].op # "Write"
               /\ pc'[u] = "lock" => call'[u].op # "Open"
               /\ pc'[u] \in {"entry", "lock"} => call'[u].op \in {"Create", "Open", "Close"}
               /\ pc'[u] \in {"check", "append", "commit", "publish", "drop", "finish"} => call'[u].op = "Close"
               /\ pc'[u] = "version" => call'[u].op \in {"TestAuth", "Close"}
               /\ pc'[u] \notin {"collect", "patch"}
               /\ ~call'[u].dirty => call'[u].data = {}
    BY <1>2, <1>4 DEF OpsInv
  <2> QED
    BY <1>1, <1>3, <2>1 DEF OpsInv
<1>6. \A q \in requests' : q \in requests \/ q.id = call[t].id
  BY <1>1, AnswerStep
<1>7. ASSUME NEW d \in Clients, at[d].stage = "call", at[d].step = "Close"
      PROVE  \A r \in requests' : r.id # at[d].id
  BY <1>6, <1>7 DEF IdsInv
<1>8. ASSUME NEW u \in Threads, call[u].op = "Close", pc'[u] = "start"
      PROVE  \A r \in requests' : r.id # call[u].id
  BY <1>2, <1>4, <1>6, <1>8 DEF IdsInv
<1>9. IdsInv'
  BY <1>1, <1>2, <1>7, <1>8 DEF IdsInv
<1> QED
  BY <1>5, <1>9

-------------------------------------------------------------------------------
(* The file, while nobody deletes it *)

\* There is one file, its writer is alone, and nobody deletes.
LEMMA Alone ==
    ASSUME Undisturbed, HandlerInv, deleted = {}, NEW t \in Threads
    PROVE  /\ pc[t] \notin {"remove", "forget"}
           /\ pc[t] \in Looked => \A f \in Files : FileOf(t) = f
           /\ Holding(t) => \A u \in Threads \ {t} : ~Holding(u)
<1>1. ASSUME NEW u \in Threads, pc[u] \in Looked PROVE FileOf(u) \in Files
  BY <1>1, FileKnown DEF HandlerInv, TypeInv
<1>2. pc[t] \notin {"remove", "forget"}
  BY DEF HandlerInv, ObjectInv, Deleting
<1>3. ASSUME NEW u \in Threads, u # t, Holding(t), Holding(u) PROVE FALSE
  <2>1. pc[t] \in Found /\ pc[u] \in Found
    BY <1>3, HoldersFound DEF HandlerInv
  <2>2. FileOf(t) \in Files /\ FileOf(u) \in Files
    BY <1>1, <2>1 DEF Found
  <2>3. FileOf(t) = FileOf(u)
    BY <2>2 DEF Undisturbed
  <2>4. loc[t].entry = loc[u].entry
    BY <2>1, <2>3 DEF HandlerInv, ObjectInv
  <2> QED
    BY <1>3, <2>4 DEF HandlerInv, LockInv
<1> QED
  BY <1>1, <1>2, <1>3 DEF Undisturbed

\* What a step of the writer has to keep; everybody else keeps what holds of the numbers
\* when those seen only grow.
Kept(t, f) ==
    /\ primes[f] \subseteq primes'[f] /\ primes'[f] \subseteq disk'[f].nums
    /\ ~disk'[f].exists => primes'[f] = {}
    /\ lastApplied' <= Len(log')
    /\ pc'[t] \in {"append", "commit", "publish"} => primes'[f] \cup call[t].data \subseteq loc'[t].nums
    /\ pc'[t] = "append" => loc'[t].index = Len(log') + 1
    /\ pc'[t] = "commit" => /\ loc'[t].index = Len(log') /\ lastApplied' < Len(log')
                            /\ log'[Len(log')].nums = loc'[t].nums
    /\ pc'[t] = "publish" => disk'[f].exists /\ loc'[t].nums \subseteq disk'[f].nums
    /\ pc'[t] = "register" /\ call[t].op = "Create" => primes'[f] = {}
    /\ call[t].op = "Close" => \/ pc'[t] \notin {"version", "drop", "finish", "done"}
                               \/ pc'[t] = "done" /\ reply'[t].status # "ok"
                               \/ call[t].data \subseteq primes'[f]

\* A step that leaves the store alone and neither prepares nor answers a Close.
LEMMA KeptAlone ==
    ASSUME OpsInv, SeenInv, NEW t \in Threads, NEW f \in Files, UNCHANGED store_vars,
           pc'[t] \notin {"append", "commit", "publish"},
           pc'[t] = "register" => call[t].op # "Create",
           \/ call[t].op # "Close"
           \/ pc'[t] \notin {"version", "drop", "finish", "done"}
           \/ pc'[t] = "done" /\ reply'[t].status # "ok"
           \/ call[t].data \subseteq primes[f]
    PROVE  Kept(t, f)
  BY DEF Kept, SeenInv, store_vars, log_vars

\* A step of a handler that does not hold the lock.
LEMMA KeptOutside ==
    ASSUME HandlerInv, OpsInv, IdsInv, WriterInv, SeenInv, deleted = {},
           NEW t \in Threads, NEW f \in Files, Serve(t), ~Holding(t)
    PROVE  Kept(t, f) /\ UNCHANGED store_vars
<1>0. /\ pc[t] \notin {"check", "append", "commit", "collect", "patch", "publish", "remove",
                       "forget", "create"}
      /\ pc[t] = "register" => call[t].op # "Create"
      /\ pc[t] \in {"drop", "finish"} => ~call[t].dirty
      /\ pc[t] = "version" => call[t].op = "TestAuth" \/ ~call[t].dirty
  BY DEF Holding
<1>1. UNCHANGED store_vars
  BY <1>0 DEF store_vars, log_vars, Serve, Repeated, Begin, Unregistered, getFileEntry, AcquireWrite,
    CreateFile, OpenFile, Register, TooManyOpenFiles, Reject, Prepare, AppendLog, Commit, NoMajority,
    Collect, Patch, Publish, NewVersion, DropClient, Finish, AlreadyDeleted, Stat, Find, TryLock,
    Remove, Forget, Lookup, ReadVersion, Read
<1>2. /\ ~Prepare(t) /\ ~AppendLog(t) /\ ~Commit(t) /\ ~CreateFile(t) /\ ~Publish(t)
      /\ NewVersion(t) \/ DropClient(t) \/ Finish(t) => ~call[t].dirty
  BY <1>0 DEF Prepare, AppendLog, Commit, CreateFile, Publish, NewVersion, DropClient, Finish
<1>3. call[t].op = "Close" => ~Repeated(t)
  BY DEF IdsInv, Repeated, Cached
<1>4. /\ pc'[t] \notin {"append", "commit", "publish"}
      /\ pc'[t] = "register" => call[t].op # "Create"
      /\ call[t].op = "Close" /\ pc'[t] = "done" => reply'[t].status # "ok" \/ ~call[t].dirty
      /\ call[t].op = "Close" /\ pc'[t] \in {"version", "drop", "finish"} => ~call[t].dirty
  BY <1>2, <1>3, Leads DEF HandlerInv
<1>5. ~call[t].dirty => call[t].data \subseteq primes[f]
  BY DEF OpsInv
<1> QED
  BY <1>1, <1>4, <1>5, KeptAlone

\* A file whose entry is the last that is applied gets its numbers.
LEMMA AppliedLast ==
    ASSUME NEW L \in Seq(LogEntries), NEW from \in Nat \ {0}, NEW to \in 0 .. Len(L), NEW f \in Files,
           to \in from .. to, L[to].file = f
    PROVE  Applied(L, from, to)[f] = [exists |-> TRUE, nums |-> L[to].nums]
<1>1. PICK i \in from .. to : /\ \A j \in from .. to : L[j].file = f => j <= i
                              /\ Applied(L, from, to)[f] = [exists |-> TRUE, nums |-> L[i].nums]
  BY AppliedFiles
<1>2. i = to
  BY <1>1
<1> QED
  BY <1>1, <1>2

\* A step of the writer.
LEMMA KeptInside ==
    ASSUME Undisturbed, HandlerInv, OpsInv, WriterInv, SeenInv, deleted = {},
           NEW t \in Threads, NEW f \in Files, Serve(t), Holding(t)
    PROVE  Kept(t, f)
<1>0. /\ pc[t] \in Looked /\ FileOf(t) = f
      /\ pc \in [Threads -> Places] /\ reply \in [Threads -> Replies]
      /\ loc \in [Threads -> Locals] /\ loc[t] \in Locals
      /\ disk \in [Files -> DiskFiles] /\ primes \in [Files -> SUBSET Numbers]
      /\ log \in Seq(LogEntries) /\ Len(log) \in Nat /\ lastApplied \in Nat
  BY Alone, HoldersFound DEF HandlerInv, TypeInv, ThreadTypes, StoreTypes, Found
<1>1. /\ lastApplied <= Len(log) /\ primes[f] \subseteq disk[f].nums
      /\ ~disk[f].exists => primes[f] = {}
  BY DEF SeenInv
<1> USE Status DEF Goto, Return, ReleaseAndReturn
<1>2. CASE CreateFile(t)
  <2>1. CASE UNCHANGED disk
    BY <1>0, <1>2, <2>1, KeptAlone DEF CreateFile, store_vars, log_vars
  <2>2. CASE disk' # disk
    <3>1. /\ disk' = [disk EXCEPT ![f] = [exists |-> TRUE, nums |-> {}]] /\ pc'[t] = "register"
          /\ UNCHANGED <<primes, log, lastApplied>> /\ ~disk[f].exists
      BY <1>0, <1>2, <2>2 DEF CreateFile, log_vars
    <3>2. primes[f] = {} /\ disk'[f].exists /\ disk'[f].nums = {}
      BY <1>0, <1>1, <3>1
    <3> QED
      BY <1>1, <3>1, <3>2 DEF Kept
  <2> QED
    BY <2>1, <2>2
<1>3. CASE TooManyOpenFiles(t)
  <2>1. /\ disk' = [disk EXCEPT ![f] = [exists |-> FALSE, nums |-> {}]] /\ pc'[t] = "done"
        /\ UNCHANGED <<primes, log, lastApplied>> /\ pc[t] = "register" /\ call[t].op = "Create"
    BY <1>0, <1>3 DEF TooManyOpenFiles, Holding, log_vars
  <2>2. primes[f] = {}
    BY <2>1 DEF WriterInv
  <2> QED
    BY <1>0, <1>1, <2>1, <2>2 DEF Kept
<1>4. CASE Register(t)
  BY <1>0, <1>4, KeptAlone DEF Register
<1>5. CASE Reject(t) \/ NoMajority(t)
  BY <1>0, <1>5, KeptAlone DEF Reject, NoMajority
<1>6. CASE Prepare(t)
  <2>1. call[t].op = "Close"
    BY <1>6 DEF Prepare, OpsInv
  <2>2. /\ loc' = [loc EXCEPT ![t].nums = primes[f] \cup call[t].data, ![t].index = Len(log) + 1]
        /\ pc'[t] = "append" /\ UNCHANGED <<disk, primes, log, lastApplied>>
    BY <1>0, <1>6, <2>1 DEF Prepare, ToStore, store_vars, log_vars
  <2>3. loc'[t].nums = primes[f] \cup call[t].data /\ loc'[t].index = Len(log) + 1
    <3> DEFINE L1 == [loc EXCEPT ![t].nums = primes[f] \cup call[t].data]
               n == Len(log) + 1
    <3>1. loc' = [L1 EXCEPT ![t].index = n]
      BY <2>2
    <3>2. L1 = [loc EXCEPT ![t] = [loc[t] EXCEPT !.nums = primes[f] \cup call[t].data]]
      OBVIOUS
    <3> DEFINE l1 == [loc[t] EXCEPT !.nums = primes[f] \cup call[t].data]
    <3>3. l1.nums = primes[f] \cup call[t].data /\ DOMAIN l1 = {"entry", "nums", "unseen", "index"}
      BY <1>0 DEF Locals
    <3>4. L1[t] = l1 /\ DOMAIN L1 = Threads
      BY <1>0, <3>2
    <3> HIDE DEF L1, l1, n
    <3>5. loc'[t] = [l1 EXCEPT !.index = n]
      BY <3>1, <3>4
    <3> QED
      BY <3>3, <3>5 DEF n
  <2> QED
    BY <1>1, <2>2, <2>3 DEF Kept
<1>7. CASE AppendLog(t)
  <2> DEFINE e == [index |-> loc[t].index, file |-> FileOf(t), nums |-> loc[t].nums]
  <2>1. /\ log' = Append(log, e) /\ pc[t] = "append"
        /\ pc'[t] = "commit" \/ (pc'[t] = "done" /\ reply'[t].status # "ok")
        /\ UNCHANGED <<disk, primes, lastApplied, loc>>
    <3>1. /\ pc[t] = "append" /\ UNCHANGED <<disk, primes, lastApplied, loc>>
          /\ log' = Append(log, e)
      BY <1>7 DEF AppendLog
    <3>2. pc'[t] = "commit" \/ (pc'[t] = "done" /\ reply'[t].status # "ok")
      BY <1>0, <1>7 DEF AppendLog
    <3> QED
      BY <3>1, <3>2
  <2>2. Len(log') = Len(log) + 1 /\ log'[Len(log) + 1] = e
    BY <1>0, <2>1
  <2>3. e.nums = loc[t].nums
    OBVIOUS
  <2> HIDE DEF e
  <2>4. primes[f] \cup call[t].data \subseteq loc[t].nums /\ loc[t].index = Len(log) + 1
    BY <2>1 DEF WriterInv
  <2> QED
    BY <1>0, <1>1, <2>1, <2>2, <2>3, <2>4 DEF Kept
<1>8. CASE Commit(t)
  <2>1. /\ loc[t].index = Len(log) /\ lastApplied < Len(log) /\ log[Len(log)].nums = loc[t].nums
        /\ primes[f] \cup call[t].data \subseteq loc[t].nums
    BY <1>8 DEF Commit, WriterInv
  <2>2. /\ disk' = Applied(log, lastApplied + 1, Len(log)) /\ lastApplied' = Len(log)
        /\ UNCHANGED <<primes, log, loc>> /\ pc'[t] = "publish"
    BY <1>0, <1>8, <2>1 DEF Commit, OpsInv, log_vars
  <2>3. disk'[f] = [exists |-> TRUE, nums |-> loc[t].nums]
    <3>1. /\ lastApplied + 1 \in Nat \ {0} /\ Len(log) \in 0 .. Len(log)
          /\ Len(log) \in lastApplied + 1 .. Len(log)
      BY <1>0, <2>1
    <3>2. log[Len(log)].file = f
      <4>1. log[Len(log)] \in LogEntries
        BY <1>0, <2>1
      <4> QED
        BY <4>1 DEF LogEntries, Undisturbed
    <3>3. Applied(log, lastApplied + 1, Len(log))[f] = [exists |-> TRUE, nums |-> log[Len(log)].nums]
      BY <1>0, <3>1, <3>2, AppliedLast
    <3> QED
      BY <2>1, <2>2, <3>3
  <2>4. disk'[f].exists /\ disk'[f].nums = loc[t].nums
    BY <2>3
  <2> QED
    BY <1>0, <2>1, <2>2, <2>4 DEF Kept
<1>9. CASE Publish(t)
  <2>1. call[t].op = "Close" /\ pc[t] = "publish"
    BY <1>9 DEF Publish, OpsInv
  <2>2. /\ primes' = [primes EXCEPT ![f] = loc[t].nums]
        /\ UNCHANGED <<disk, log, lastApplied>> /\ pc'[t] = "version"
    BY <1>0, <1>9, <2>1 DEF Publish, log_vars
  <2>3. /\ disk[f].exists /\ loc[t].nums \subseteq disk[f].nums
        /\ primes[f] \cup call[t].data \subseteq loc[t].nums
    BY <2>1 DEF WriterInv
  <2>4. primes'[f] = loc[t].nums
    BY <1>0, <2>2
  <2> QED
    BY <1>1, <2>2, <2>3, <2>4 DEF Kept
<1>10. CASE NewVersion(t) \/ DropClient(t) \/ Finish(t)
  <2>1. call[t].op = "Close" => call[t].data \subseteq primes[f]
    BY <1>10 DEF NewVersion, DropClient, Finish, SeenInv
  <2> QED
    BY <1>0, <1>10, <2>1, KeptAlone DEF NewVersion, DropClient, Finish
<1>11. \/ CreateFile(t) \/ TooManyOpenFiles(t) \/ Register(t) \/ Reject(t) \/ NoMajority(t)
       \/ Prepare(t) \/ AppendLog(t) \/ Commit(t) \/ Publish(t)
       \/ NewVersion(t) \/ DropClient(t) \/ Finish(t)
  <2>1. /\ pc[t] \in {"check", "append", "commit", "publish", "create", "register", "version",
                      "drop", "finish"}
        /\ pc[t] = "version" => call[t].op # "TestAuth"
    BY Alone DEF Holding, OpsInv
  <2> QED
    BY <2>1 DEF Serve, Collect, Patch, Repeated, Begin, Unregistered, getFileEntry, AcquireWrite, OpenFile,
      AlreadyDeleted, Stat, Find, TryLock, Remove, Forget, Lookup, ReadVersion, Read
<1> QED
  BY <1>2, <1>3, <1>4, <1>5, <1>6, <1>7, <1>8, <1>9, <1>10, <1>11

LEMMA StoredServe ==
    ASSUME Undisturbed, HandlerInv, OpsInv, IdsInv, WriterInv, SeenInv, deleted = {},
           NEW t \in Threads, ServerSteps(t)
    PROVE  WriterInv' /\ SeenInv'
<1>1. Serve(t) /\ acked' = acked
  BY DEF ServerSteps, app_vars
<1>2. /\ call' = call
      /\ \A u \in Threads \ {t} : pc'[u] = pc[u] /\ loc'[u] = loc[u] /\ reply'[u] = reply[u]
  BY <1>1, OthersStay DEF HandlerInv, TypeInv
<1>3. \A f \in Files : Kept(t, f)
  BY <1>1, KeptOutside, KeptInside
<1>4. ASSUME NEW u \in Threads, u # t
      PROVE  \/ UNCHANGED store_vars
             \/ pc[u] \notin {"append", "commit", "publish"} /\ ~(pc[u] = "register" /\ call[u].op = "Create")
  <2>1. CASE Holding(t)
    <3>1. ~Holding(u)
      BY <1>4, <2>1, Alone
    <3> QED
      BY <3>1 DEF Holding
  <2>2. CASE ~Holding(t)
    BY <1>1, <2>2, KeptOutside, ServiceAssumption
  <2> QED
    BY <2>1, <2>2
<1>5. WriterInv'
  <2> SUFFICES ASSUME NEW u \in Threads, NEW f \in Files
               PROVE  /\ pc'[u] \in {"append", "commit", "publish"} =>
                            primes'[f] \cup call'[u].data \subseteq loc'[u].nums
                      /\ pc'[u] = "append" => loc'[u].index = Len(log') + 1
                      /\ pc'[u] = "commit" => /\ loc'[u].index = Len(log') /\ lastApplied' < Len(log')
                                              /\ log'[Len(log')].nums = loc'[u].nums
                      /\ pc'[u] = "publish" => disk'[f].exists /\ loc'[u].nums \subseteq disk'[f].nums
                      /\ pc'[u] = "register" /\ call'[u].op = "Create" => primes'[f] = {}
    BY DEF WriterInv
  <2>1. CASE u = t
    BY <1>2, <1>3, <2>1 DEF Kept
  <2>2. CASE u # t
    <3>1. pc'[u] = pc[u] /\ loc'[u] = loc[u] /\ call'[u] = call[u]
      BY <1>2, <2>2
    <3>2. CASE UNCHANGED store_vars
      BY <3>1, <3>2 DEF WriterInv, store_vars, log_vars
    <3>3. CASE pc[u] \notin {"append", "commit", "publish"} /\ ~(pc[u] = "register" /\ call[u].op = "Create")
      BY <3>1, <3>3
    <3> QED
      BY <1>4, <2>2, <3>2, <3>3
  <2> QED
    BY <2>1, <2>2
<1>6. SeenInv'
  <2>1. lastApplied' <= Len(log')
    BY <1>3, ServiceAssumption DEF Kept
  <2>2. ASSUME NEW f \in Files
        PROVE  /\ primes'[f] \subseteq disk'[f].nums
               /\ ~disk'[f].exists => primes'[f] = {}
               /\ acked'[f] \subseteq primes'[f]
    BY <1>1, <1>3 DEF Kept, SeenInv
  <2>3. ASSUME NEW f \in Files, NEW u \in Threads, call'[u].op = "Close"
        PROVE  \/ pc'[u] \notin {"version", "drop", "finish", "done"}
               \/ pc'[u] = "done" /\ reply'[u].status # "ok"
               \/ call'[u].data \subseteq primes'[f]
    <3>1. CASE u = t
      BY <1>2, <1>3, <2>3, <3>1 DEF Kept
    <3>2. CASE u # t
      BY <1>2, <1>3, <2>3, <3>2 DEF Kept, SeenInv
    <3> QED
      BY <3>1, <3>2
  <2> QED
    BY <2>1, <2>2, <2>3 DEF SeenInv
<1> QED
  BY <1>5, <1>6

\* When no handler works, the numbers seen and stored stay, and what joins the numbers
\* acknowledged was seen.
LEMMA StoredRests ==
    ASSUME WriterInv, SeenInv, UNCHANGED store_vars,
           \A t \in Threads : Stays(t) \/ pc'[t] \in {"idle", "start"},
           \A f \in Files : acked'[f] \subseteq primes[f]
    PROVE  WriterInv' /\ SeenInv'
<1>1. \A t \in Threads : pc'[t] \notin {"idle", "start"} => Stays(t)
  OBVIOUS
<1>2. WriterInv'
  <2> SUFFICES ASSUME NEW t \in Threads, NEW f \in Files
               PROVE  /\ pc'[t] \in {"append", "commit", "publish"} =>
                            primes'[f] \cup call'[t].data \subseteq loc'[t].nums
                      /\ pc'[t] = "append" => loc'[t].index = Len(log') + 1
                      /\ pc'[t] = "commit" => /\ loc'[t].index = Len(log') /\ lastApplied' < Len(log')
                                              /\ log'[Len(log')].nums = loc'[t].nums
                      /\ pc'[t] = "publish" => disk'[f].exists /\ loc'[t].nums \subseteq disk'[f].nums
                      /\ pc'[t] = "register" /\ call'[t].op = "Create" => primes'[f] = {}
    BY DEF WriterInv
  <2>1. CASE Stays(t)
    BY <2>1 DEF WriterInv, Stays, store_vars, log_vars
  <2>2. CASE pc'[t] \in {"idle", "start"}
    BY <2>2
  <2> QED
    BY <2>1, <2>2
<1>3. SeenInv'
  <2>1. ASSUME NEW t \in Threads, NEW f \in Files, call'[t].op = "Close"
        PROVE  \/ pc'[t] \notin {"version", "drop", "finish", "done"}
               \/ pc'[t] = "done" /\ reply'[t].status # "ok"
               \/ call'[t].data \subseteq primes'[f]
    BY <1>1, <2>1 DEF SeenInv, Stays, store_vars, log_vars
  <2> QED
    BY <2>1 DEF SeenInv, store_vars, log_vars
<1> QED
  BY <1>2, <1>3

\* The numbers of a Close that is answered well were seen.
LEMMA StoredReceive ==
    ASSUME HandlerInv, OpsInv, WriterInv, SeenInv, NEW c \in Clients, Receive(c)
    PROVE  WriterInv' /\ SeenInv'
<1> DEFINE t == at[c].thread
<1>1. /\ Leave(t) /\ at[c].stage = "wait"
      /\ acked' = IF reply[t].status = "ok" /\ call[t].op \in {"Close", "Write"}
                  THEN [acked EXCEPT ![at[c].file] = @ \cup call[t].data] ELSE acked
  BY DEF Receive
<1>2. t \in Threads /\ TypeInv /\ acked \in [Files -> SUBSET Numbers]
  BY <1>1, Waiting DEF HandlerInv, TypeInv, ClientTypes
<1>3. Quiet
  BY <1>1, <1>2, LeaveIsQuiet
<1>4. ASSUME NEW f \in Files PROVE acked'[f] \subseteq primes[f]
  <2>1. acked[f] \subseteq primes[f]
    BY DEF SeenInv
  <2>2. CASE acked' = acked
    BY <2>1, <2>2
  <2>3. CASE reply[t].status = "ok" /\ call[t].op = "Close"
    <3>1. pc[t] = "done"
      BY <1>1 DEF Leave
    <3>2. call[t].data \subseteq primes[f]
      BY <1>2, <2>3, <3>1 DEF SeenInv
    <3>3. acked'[f] \subseteq acked[f] \cup call[t].data
      BY <1>1, <1>2
    <3> QED
      BY <2>1, <3>2, <3>3
  <2>4. call[t].op # "Write"
    BY <1>2 DEF OpsInv
  <2> QED
    BY <1>1, <2>2, <2>3, <2>4
<1> QED
  BY <1>3, <1>4, StoredRests DEF Quiet, Rests

-------------------------------------------------------------------------------
(* The invariant and what it says *)

LEMMA NumbersInit ==
    ASSUME ClientInit
    PROVE  NumbersInv
<1>1. /\ \A t \in Threads : pc[t] = "idle" /\ call[t] = NoCall
      /\ \A c \in Clients : at[c].step = "Create" /\ at[c].stage = "ready"
      /\ restarts = 0
  BY DEF ClientInit, ServiceInit, Resting
<1>2. OpsInv
  BY <1>1, Nothing DEF OpsInv
<1>3. IdsInv
  BY <1>1, Nothing DEF IdsInv
<1>4. WriterInv
  BY <1>1 DEF WriterInv
<1>5. SeenInv
  <2>1. log = <<>> /\ lastApplied = 0
    BY DEF ClientInit, ServiceInit
  <2>2. Len(log) = 0
    BY <2>1
  <2>3. lastApplied <= Len(log)
    BY <2>1, <2>2
  <2>4. \A f \in Files : primes[f] = {} /\ acked[f] = {}
    BY DEF ClientInit, ServiceInit
  <2> QED
    BY <1>1, <2>3, <2>4 DEF SeenInv
<1> QED
  BY <1>2, <1>3, <1>4, <1>5 DEF NumbersInv

LEMMA NumbersStep ==
    ASSUME Undisturbed, HandlerInv, NumbersInv, [Next]_vars
    PROVE  NumbersInv'
<1> USE DEF NumbersInv
<1>0. TypeInv /\ ObjectInv
  BY DEF HandlerInv

\* A step in which no handler works and a client moves on, if any does.
<1>1. ASSUME Quiet, at' = at \/ \E c \in Clients : MovesOn(c), deleted \subseteq deleted',
             deleted = {} => WriterInv' /\ SeenInv'
      PROVE  NumbersInv'
  BY <1>0, <1>1, QuietOps, QuietIds
<1>2. ASSUME Quiet, acked' = acked, deleted = {}
      PROVE  WriterInv' /\ SeenInv'
  <2>1. WriterInv /\ SeenInv
    BY <1>2
  <2>2. \A f \in Files : acked'[f] \subseteq primes[f]
    BY <1>2, <2>1 DEF SeenInv
  <2> QED
    BY <1>2, <2>1, <2>2, StoredRests DEF Quiet, Rests
<1>3. CASE UNCHANGED vars
  <2>1. Quiet /\ at' = at /\ acked' = acked /\ deleted' = deleted
    BY <1>3, UnchangedIsQuiet DEF vars, client_vars, app_vars
  <2> QED
    BY <1>1, <1>2, <2>1
<1>4. ASSUME NEW c \in Clients, Application(c) PROVE NumbersInv'
  <2>1. UNCHANGED <<service_vars, acked>> /\ deleted \subseteq deleted'
    BY <1>0, <1>4, ApplicationStep DEF TypeInv, Waits
  <2>2. Quiet /\ MovesOn(c)
    BY <1>0, <1>4, <2>1, UnchangedIsQuiet, ApplicationMoves
  <2> QED
    BY <1>1, <1>2, <2>1, <2>2
<1>5. ASSUME NEW c \in Clients, TimeOut(c) PROVE NumbersInv'
  <2>1. /\ UNCHANGED <<service_vars, acked, deleted>> /\ at[c].stage = "wait"
        /\ Handle(c, Reply("unavailable"))
    BY <1>5 DEF TimeOut, app_vars
  <2>2. Quiet /\ MovesOn(c)
    BY <1>0, <2>1, UnchangedIsQuiet, HandleMoves
  <2> QED
    BY <1>1, <1>2, <2>1, <2>2
<1>6. ASSUME NEW c \in Clients, Receive(c) PROVE NumbersInv'
  <2>1. /\ Leave(at[c].thread) /\ at[c].stage = "wait" /\ deleted' = deleted
        /\ Handle(c, reply[at[c].thread])
    BY <1>6 DEF Receive
  <2>2. Quiet /\ MovesOn(c)
    BY <1>0, <2>1, LeaveIsQuiet, HandleMoves, Waiting
  <2> QED
    BY <1>1, <1>6, <2>1, <2>2, StoredReceive
<1>7. ASSUME NEW c \in Clients, Send(c) PROVE NumbersInv'
  <2>1. OpsInv' /\ IdsInv'
    BY <1>0, <1>7, SendNumbers
  <2>2. /\ \A t \in Threads : Stays(t) \/ pc'[t] \in {"idle", "start"}
        /\ UNCHANGED <<store_vars, acked, deleted>>
    BY <1>0, <1>7, SendMoves DEF Arrives
  <2>3. deleted = {} => WriterInv' /\ SeenInv'
    BY <2>2, StoredRests DEF SeenInv
  <2> QED
    BY <2>1, <2>2, <2>3
<1>8. ASSUME NEW t \in Threads, ServerSteps(t) PROVE NumbersInv'
  <2>1. deleted' = deleted
    BY <1>8 DEF ServerSteps, app_vars
  <2> QED
    BY <1>0, <1>8, <2>1, ServeNumbers, StoredServe
<1>9. ASSUME NEW t \in Threads, Drop(t) PROVE NumbersInv'
  <2>1. Leave(t) /\ UNCHANGED <<at, acked, deleted>>
    BY <1>9 DEF Drop, client_vars, app_vars
  <2>2. Quiet
    BY <1>0, <2>1, LeaveIsQuiet
  <2> QED
    BY <1>1, <1>2, <2>1, <2>2
<1>10. ~Restart
  BY DEF Restart, OpsInv, Undisturbed
<1> QED
  BY <1>3, <1>4, <1>5, <1>6, <1>7, <1>8, <1>9, <1>10 DEF Next

LEMMA Numbered ==
    ASSUME Undisturbed
    PROVE  Spec => [](HandlerInv /\ NumbersInv)
  BY HandlerInit, HandlerStep, NumbersInit, NumbersStep, PTL DEF Spec

\* What the invariant says of a file nobody deletes.
LEMMA SeenAndStored ==
    ASSUME Undisturbed, HandlerInv, NumbersInv, NEW f \in Files \ deleted
    PROVE  acked[f] \subseteq primes[f] /\ primes[f] \subseteq disk[f].nums
<1>1. deleted = {}
  BY DEF Undisturbed, HandlerInv, TypeInv, ClientTypes
<1> QED
  BY <1>1 DEF NumbersInv, SeenInv

\* What the server takes for the numbers of a file was stored, whatever commits fail.
THEOREM SeenIsStored ==
    ASSUME Undisturbed
    PROVE  Spec => []PrimesAreStored
<1>1. HandlerInv /\ NumbersInv => PrimesAreStored
  BY SeenAndStored DEF PrimesAreStored
<1> QED
  BY <1>1, Numbered, PTL

\* The numbers of a Close that was answered "closed" stay in the file while nobody
\* deletes it, whoever closes it after and whatever clients give up on.
THEOREM AnsweredStays ==
    ASSUME Undisturbed
    PROVE  Spec => []AckedNumbersStay
<1>1. HandlerInv /\ NumbersInv => AckedNumbersStay
  BY SeenAndStored DEF AckedNumbersStay
<1> QED
  BY <1>1, Numbered, PTL

-------------------------------------------------------------------------------
(* What a snapshot tells of a client that dies with unsaved data *)

\* What is asked of the applications: none reads, for a Read that finds the lease over takes the
\* descriptor from the client, and none writes to a file once it may have closed it, for a Close
\* it gave up on may take the descriptor later.
WritesThenCloses ==
    \A c \in Clients : \A i, j \in DOMAIN Plan[c] :
        /\ "Read" \notin Plan[c][i]
        /\ i < j /\ "Close" \in Plan[c][i] => "WriteFile" \notin Plan[c][j]

\* The client may have asked for a Close.
Closing(c) == \E i \in 1 .. made[c] : i \in DOMAIN Plan[c] /\ "Close" \in Plan[c][i]

\* In the table F the descriptor n is one of c, who opened f with mode m and has not closed it.
Has(F, c, f, m, n) ==
    /\ n + 1 \in 1 .. Len(F)
    /\ F[n + 1].client = c /\ F[n + 1].file = f /\ F[n + 1].mode = m
    /\ F[n + 1].registered

\* Who asks, and for what.
CallsInv ==
    /\ made \in [Clients -> Nat]
    /\ \A c \in Clients :
          /\ at[c].step # "Read"
          /\ at[c].stage # "ready" =>
                /\ at[c].step = "Close" => Closing(c)
                /\ at[c].step \in {"TestAuth", "Reopen"} => ~cache[c][at[c].file].dirty
                /\ at[c].step = "Reopen" => cache[c][at[c].file].mode = at[c].mode
                /\ \A t \in Threads : call[t].id = at[c].id =>
                      call[t].client = c /\ call[t].file = at[c].file /\ call[t].mode = at[c].mode
          /\ at[c].stage = "wait" => call[at[c].thread].id = at[c].id
    /\ \A t \in Threads :
          /\ call[t].op # "Read"
          /\ call[t].op = "Close" =>
                /\ Closing(call[t].client)
                /\ pc[t] \in Looked => fds[call[t].fd + 1].client = call[t].client
                /\ \A f \in Files : cache[call[t].client][f].dirty =>
                      call[t].data = cache[call[t].client][f].data

\* The descriptor that is, or may yet be, answered to an Open is the client's.
AnswersInv ==
    \A c \in Clients : ~Closing(c) /\ at[c].stage # "ready" /\ at[c].step \in {"Open", "Reopen"} =>
        /\ \A r \in requests : r.id = at[c].id /\ r.reply.status = "ok" =>
              Has(fds, c, at[c].file, at[c].mode, r.reply.fd)
        /\ \A t \in Threads : call[t].id = at[c].id /\ pc[t] = "done" /\ reply[t].status = "ok" =>
              Has(fds, c, at[c].file, at[c].mode, reply[t].fd)

\* A client that may write holds its descriptor; once it may have closed the file, it holds it
\* or its data were seen.
WritersInv ==
    \A c \in Clients, f \in Files :
        LET e == cache[c][f] IN
        /\ ~e.closed /\ ~Closing(c) /\ (e.dirty \/ e.mode = "WRITE") => Has(fds, c, f, "WRITE", e.fd)
        /\ ~e.closed /\ Closing(c) /\ e.dirty /\ deleted = {} =>
              Has(fds, c, f, "WRITE", e.fd) \/ e.data \subseteq primes[f]

CaptureInv == CallsInv /\ AnswersInv /\ WritersInv

-------------------------------------------------------------------------------
(* Descriptors *)

\* A descriptor is taken from its client by a Close that names it.
LEMMA RegisteredStays ==
    ASSUME NEW t \in Threads, ServerTypes(t), Serve(t), call[t].op # "Read", NEW n \in 1 .. Len(fds)
    PROVE  \/ fds'[n].registered = fds[n].registered
           \/ DropClient(t) /\ n = call[t].fd + 1
<1> USE DEF ServerTypes
<1>0. fds \in Seq(Descriptors) /\ Len(fds) \in Nat
  BY DEF TableTypes
<1>1. CASE Register(t)
  <2> DEFINE d == [file |-> FileOf(t), client |-> call[t].client, mode |-> call[t].mode,
                   registered |-> TRUE]
  <2>1. fds' = Append(fds, d)
    BY <1>1 DEF Register
  <2> HIDE DEF d
  <2> QED
    BY <1>0, <2>1
<1>2. CASE DropClient(t)
  <2> DEFINE k == call[t].fd + 1
             d == [fds[k] EXCEPT !.registered = FALSE]
  <2>1. fds' = [fds EXCEPT ![k] = d]
    BY <1>2 DEF DropClient
  <2> HIDE DEF d
  <2> QED
    BY <1>0, <1>2, <2>1
<1>3. CASE ~Register(t) /\ ~DropClient(t)
  <2>1. fds' = fds
    BY <1>3 DEF Serve, Repeated, Begin, Unregistered, getFileEntry, AcquireWrite, CreateFile,
      OpenFile, TooManyOpenFiles, Reject, Prepare, AppendLog, Commit, NoMajority, Collect, Patch,
      Publish, NewVersion, Finish, AlreadyDeleted, Stat, Find, TryLock, Remove, Forget, Lookup,
      ReadVersion, Read, table_vars
  <2> QED
    BY <2>1
<1> QED
  BY <1>1, <1>2, <1>3

\* A client that has a descriptor keeps it, but for a Close of its own.
LEMMA HasStays ==
    ASSUME TypeInv, CallsInv, NEW t \in Threads, Serve(t),
           NEW c, NEW f, NEW m, NEW n \in Nat, Has(fds, c, f, m, n)
    PROVE  \/ Has(fds', c, f, m, n)
           \/ DropClient(t) /\ call[t].client = c
<1>1. ServerTypes(t) /\ n + 1 \in 1 .. Len(fds)
  BY DEF TypeInv, ServerTypes, Has
<1>2. /\ fds' \in Seq(Descriptors) /\ Len(fds) <= Len(fds') /\ Len(fds) \in Nat /\ Len(fds') \in Nat
      /\ fds'[n + 1].client = c /\ fds'[n + 1].file = f /\ fds'[n + 1].mode = m
  BY <1>1, DescriptorStep DEF Has, ServerTypes, TableTypes
<1>3. CASE fds'[n + 1].registered = fds[n + 1].registered
  BY <1>1, <1>2, <1>3 DEF Has
<1>4. CASE DropClient(t) /\ n + 1 = call[t].fd + 1
  <2>1. fds[call[t].fd + 1].client = call[t].client
    <3>1. pc[t] = "drop" /\ call[t].op = "Close"
      BY <1>4 DEF DropClient, TypeInv, Refers
    <3> QED
      BY <3>1 DEF CallsInv, Looked, Places
  <2> QED
    BY <1>4, <2>1 DEF Has
<1> QED
  BY <1>1, <1>3, <1>4, RegisteredStays DEF CallsInv

\* Before it has asked for a Close it keeps it.
LEMMA HasBefore ==
    ASSUME TypeInv, CallsInv, NEW t \in Threads, Serve(t),
           NEW c, NEW f, NEW m, NEW n \in Nat, Has(fds, c, f, m, n), ~Closing(c)
    PROVE  Has(fds', c, f, m, n)
<1>1. ~(DropClient(t) /\ call[t].client = c)
  BY DEF CallsInv, DropClient, TypeInv, Refers
<1> QED
  BY <1>1, HasStays

\* A handler of Close goes past its beginning with a descriptor of its client.
LEMMA Enters ==
    ASSUME ThreadTypes, NEW t \in Threads, Serve(t), call[t].op = "Close",
           pc[t] \notin Looked, pc'[t] \in Looked
    PROVE  Registered(t) /\ fds' = fds
<1> USE DEF ThreadTypes, Goto, Return, ReleaseAndReturn, Places, Looked
<1>1. pc[t] \in {"idle", "start", "stuck", "done"} /\ pc'[t] \notin {"stuck", "done"}
  OBVIOUS
<1>2. Begin(t)
  BY <1>1 DEF Serve, Repeated, Begin, Unregistered, getFileEntry, AcquireWrite, CreateFile,
    OpenFile, Register, TooManyOpenFiles, Reject, Prepare, AppendLog, Commit, NoMajority,
    Collect, Patch, Publish, NewVersion, DropClient, Finish, AlreadyDeleted, Stat, Find, TryLock,
    Remove, Forget, Lookup, ReadVersion, Read
<1> QED
  BY <1>1, <1>2 DEF Begin, table_vars

LEMMA CallsServe ==
    ASSUME TypeInv, CallsInv, NEW t \in Threads, ServerSteps(t)
    PROVE  CallsInv'
<1>1. /\ Serve(t) /\ UNCHANGED <<at, cache, made>> /\ ServerTypes(t) /\ ThreadTypes
      /\ fds \in Seq(Descriptors) /\ Len(fds) \in Nat
  BY DEF ServerSteps, client_vars, app_vars, TypeInv, ServerTypes, TableTypes
<1>2. call' = call /\ \A u \in Threads \ {t} : pc'[u] = pc[u]
  BY <1>1, OthersStay
<1>3. \A c : Closing(c)' <=> Closing(c)
  BY <1>1 DEF Closing
<1>4. ASSUME NEW u \in Threads, call[u].op = "Close", pc'[u] \in Looked
      PROVE  fds'[call[u].fd + 1].client = call[u].client
  <2>1. call[u].fd \in Nat
    BY <1>1 DEF ThreadTypes, Calls
  <2>2. CASE pc[u] \in Looked
    <3>1. call[u].fd + 1 \in 1 .. Len(fds)
      BY <1>1, <1>4, <2>1, <2>2 DEF TypeInv, Refers
    <3> QED
      BY <1>1, <1>4, <2>2, <3>1, DescriptorStep DEF CallsInv
  <2>3. CASE pc[u] \notin Looked
    <3>1. u = t
      BY <1>2, <1>4, <2>3
    <3> QED
      BY <1>1, <1>4, <2>3, <3>1, Enters DEF Registered, Opened
  <2> QED
    BY <2>2, <2>3
<1>5. ASSUME NEW c \in Clients
      PROVE  /\ at'[c].step # "Read"
             /\ at'[c].stage # "ready" =>
                   /\ at'[c].step = "Close" => Closing(c)'
                   /\ at'[c].step \in {"TestAuth", "Reopen"} => ~cache'[c][at'[c].file].dirty
                   /\ at'[c].step = "Reopen" => cache'[c][at'[c].file].mode = at'[c].mode
                   /\ \A u \in Threads : call'[u].id = at'[c].id =>
                         call'[u].client = c /\ call'[u].file = at'[c].file /\ call'[u].mode = at'[c].mode
             /\ at'[c].stage = "wait" => call'[at'[c].thread].id = at'[c].id
  BY <1>1, <1>2, <1>3 DEF CallsInv
<1>6. ASSUME NEW u \in Threads
      PROVE  /\ call'[u].op # "Read"
             /\ call'[u].op = "Close" =>
                   /\ Closing(call[u].client)'
                   /\ pc'[u] \in Looked => fds'[call'[u].fd + 1].client = call'[u].client
                   /\ \A f \in Files : cache'[call'[u].client][f].dirty =>
                         call'[u].data = cache'[call'[u].client][f].data
  BY <1>1, <1>2, <1>3, <1>4 DEF CallsInv
<1>7. made' \in [Clients -> Nat]
  BY <1>1 DEF CallsInv
<1> QED
  BY <1>2, <1>5, <1>6, <1>7 DEF CallsInv

\* An Open is answered with a new descriptor, or with the answer that was kept.
LEMMA OpenAnswers ==
    ASSUME TypeInv, ObjectInv, OpsInv, NEW t \in Threads, Serve(t), call[t].op = "Open"
    PROVE  /\ requests' = requests \/ Register(t)
           /\ pc'[t] = "done" => reply'[t].status # "ok" \/ Repeated(t) \/ Register(t)
<1>0. /\ pc[t] \notin {"check", "append", "commit", "collect", "patch", "publish", "drop",
                       "finish", "lock", "version"}
      /\ pc[t] \notin {"stat", "find", "try", "remove", "forget"}
      /\ pc \in [Threads -> Places] /\ reply \in [Threads -> Replies]
  BY DEF OpsInv, ObjectInv, Deleting, TypeInv, ThreadTypes
<1>1. /\ ~AlreadyDeleted(t) /\ ~Stat(t) /\ ~Find(t) /\ ~TryLock(t) /\ ~Remove(t) /\ ~Forget(t)
      /\ ~Lookup(t) /\ ~ReadVersion(t) /\ ~Read(t) /\ ~AcquireWrite(t)
      /\ ~Reject(t) /\ ~Prepare(t) /\ ~AppendLog(t) /\ ~Commit(t) /\ ~NoMajority(t)
      /\ ~Collect(t) /\ ~Patch(t) /\ ~Publish(t) /\ ~NewVersion(t) /\ ~DropClient(t) /\ ~Finish(t)
      /\ ~Unregistered(t)
  BY <1>0 DEF AlreadyDeleted, Stat, Find, TryLock, Remove, Forget, Lookup, ReadVersion, Read,
    AcquireWrite, Reject, Prepare, AppendLog, Commit, NoMajority, Collect, Patch,
    Publish, NewVersion, DropClient, Finish, Unregistered
<1>2. CASE Repeated(t) \/ Begin(t) \/ getFileEntry(t) \/ CreateFile(t) \/ OpenFile(t)
           \/ TooManyOpenFiles(t)
  <2>1. requests' = requests
    BY <1>2 DEF Repeated, Begin, getFileEntry, CreateFile, OpenFile, TooManyOpenFiles, table_vars
  <2>2. pc'[t] = "done" => reply'[t].status # "ok" \/ Repeated(t)
    BY <1>0, <1>2, Status DEF Begin, getFileEntry, CreateFile, OpenFile, TooManyOpenFiles,
      Goto, Return, ReleaseAndReturn
  <2> QED
    BY <2>1, <2>2
<1> QED
  BY <1>1, <1>2 DEF Serve

\* The new descriptor is of the file, the client and the mode of the request.
LEMMA Given ==
    ASSUME TypeInv, NEW t \in Threads, Register(t), call[t].op = "Open"
    PROVE  /\ Has(fds', call[t].client, call[t].file, call[t].mode, Len(fds))
           /\ reply'[t].fd = Len(fds)
           /\ \A r \in requests' : r.id = call[t].id => r.reply.fd = Len(fds)
<1> DEFINE v == IF call[t].op = "Create" THEN 0 ELSE Entry(t).version
           r == Descriptor(Len(fds), v)
           d == [file |-> FileOf(t), client |-> call[t].client, mode |-> call[t].mode,
                 registered |-> TRUE]
<1>1. fds \in Seq(Descriptors) /\ Len(fds) \in Nat /\ reply \in [Threads -> Replies]
  BY DEF TypeInv, TableTypes, ThreadTypes
<1>2. fds' = Append(fds, d) /\ Keep(t, r) /\ reply' = [reply EXCEPT ![t] = r] /\ call' = call
  BY DEF Register, Return
<1>3. r.fd = Len(fds)
  BY DEF Descriptor, Versioned, Reply
<1>4. d.file = call[t].file /\ d.client = call[t].client /\ d.mode = call[t].mode /\ d.registered
  BY DEF FileOf
<1> HIDE DEF r, d
<1>5. Len(fds') = Len(fds) + 1 /\ fds'[Len(fds) + 1] = d
  BY <1>1, <1>2
<1>6. Has(fds', call[t].client, call[t].file, call[t].mode, Len(fds))
  BY <1>1, <1>2, <1>4, <1>5 DEF Has
<1>7. \A q \in requests' : q.id = call[t].id => q.reply.fd = Len(fds)
  BY <1>2, <1>3 DEF Keep
<1> QED
  BY <1>1, <1>2, <1>3, <1>6, <1>7

LEMMA AnswersServe ==
    ASSUME TypeInv, ObjectInv, OpsInv, IdsInv, CallsInv, AnswersInv,
           NEW t \in Threads, ServerSteps(t)
    PROVE  AnswersInv'
<1>1. Serve(t) /\ UNCHANGED <<at, made>> /\ ServerTypes(t)
  BY DEF ServerSteps, client_vars, app_vars, TypeInv, ServerTypes
<1>2. /\ call' = call
      /\ \A u \in Threads \ {t} : pc'[u] = pc[u] /\ reply'[u] = reply[u]
      /\ \A q \in requests' : q \in requests \/ q.id = call[t].id
  BY <1>1, OthersStay, AnswerStep DEF ServerTypes
<1>3. \A c : Closing(c)' <=> Closing(c)
  BY <1>1 DEF Closing
<1>4. /\ \A q \in requests : q.reply.fd \in Nat
      /\ \A u \in Threads : reply[u].fd \in Nat
      /\ reply \in [Threads -> Replies]
  BY DEF TypeInv, TableTypes, ThreadTypes, Answers, Replies
<1> SUFFICES ASSUME NEW c \in Clients, ~Closing(c), at[c].stage # "ready",
                    at[c].step \in {"Open", "Reopen"}
             PROVE  /\ \A r \in requests' : r.id = at[c].id /\ r.reply.status = "ok" =>
                          Has(fds', c, at[c].file, at[c].mode, r.reply.fd)
                    /\ \A u \in Threads : call[u].id = at[c].id /\ pc'[u] = "done"
                                            /\ reply'[u].status = "ok" =>
                          Has(fds', c, at[c].file, at[c].mode, reply'[u].fd)
  BY <1>1, <1>2, <1>3 DEF AnswersInv, Has
<1>5. \A n \in Nat : Has(fds, c, at[c].file, at[c].mode, n) => Has(fds', c, at[c].file, at[c].mode, n)
  BY <1>1, HasBefore
<1>6. call[t].id = at[c].id => /\ call[t].op = "Open" /\ call[t].client = c
                               /\ call[t].file = at[c].file /\ call[t].mode = at[c].mode
  BY DEF IdsInv, OpOf, CallsInv
<1>7. call[t].id = at[c].id /\ Register(t) =>
        /\ Has(fds', c, at[c].file, at[c].mode, Len(fds))
        /\ reply'[t].fd = Len(fds)
        /\ \A r \in requests' : r.id = call[t].id => r.reply.fd = Len(fds)
  BY <1>1, <1>2, <1>6, Given DEF Has
<1>8. ASSUME NEW r \in requests', r.id = at[c].id, r.reply.status = "ok"
      PROVE  Has(fds', c, at[c].file, at[c].mode, r.reply.fd)
  <2>1. CASE r \in requests
    BY <1>4, <1>5, <1>8, <2>1 DEF AnswersInv
  <2>2. CASE r \notin requests
    <3>1. r.id = call[t].id /\ requests' # requests
      BY <1>2, <1>8, <2>2
    <3>2. Register(t)
      BY <1>1, <1>6, <1>8, <3>1, OpenAnswers
    <3> QED
      BY <1>7, <1>8, <3>1, <3>2
  <2> QED
    BY <2>1, <2>2
<1>9. ASSUME NEW u \in Threads, call[u].id = at[c].id, pc'[u] = "done", reply'[u].status = "ok"
      PROVE  Has(fds', c, at[c].file, at[c].mode, reply'[u].fd)
  <2>1. CASE u # t
    BY <1>2, <1>4, <1>5, <1>9, <2>1 DEF AnswersInv
  <2>2. CASE u = t /\ Register(t)
    BY <1>7, <1>9, <2>2
  <2>3. CASE u = t /\ Repeated(t)
    <3>1. PICK r \in requests : r.id = call[t].id /\ reply'[t] = r.reply
      BY <1>4, <2>3 DEF Repeated, Cached, CachedReply, Return
    <3> QED
      BY <1>4, <1>5, <1>9, <2>3, <3>1 DEF AnswersInv
  <2> QED
    BY <1>1, <1>6, <1>9, <2>1, <2>2, <2>3, OpenAnswers
<1> QED
  BY <1>8, <1>9

LEMMA WritersServe ==
    ASSUME Undisturbed, HandlerInv, NumbersInv, CaptureInv, NEW t \in Threads, ServerSteps(t)
    PROVE  WritersInv'
<1>1. Serve(t) /\ UNCHANGED <<at, cache, made, deleted>> /\ TypeInv /\ CallsInv
  BY DEF ServerSteps, client_vars, app_vars, HandlerInv, CaptureInv
<1>2. \A c : Closing(c)' <=> Closing(c)
  BY <1>1 DEF Closing
<1> SUFFICES ASSUME NEW c \in Clients, NEW f \in Files, ~cache[c][f].closed
             PROVE  /\ ~Closing(c) /\ (cache[c][f].dirty \/ cache[c][f].mode = "WRITE") =>
                          Has(fds', c, f, "WRITE", cache[c][f].fd)
                    /\ Closing(c) /\ cache[c][f].dirty /\ deleted = {} =>
                          \/ Has(fds', c, f, "WRITE", cache[c][f].fd)
                          \/ cache[c][f].data \subseteq primes'[f]
  BY <1>1, <1>2 DEF WritersInv
<1>3. cache[c][f].fd \in Nat
  BY <1>1 DEF TypeInv, ClientTypes, CacheEntries
<1>4. ASSUME ~Closing(c), cache[c][f].dirty \/ cache[c][f].mode = "WRITE"
      PROVE  Has(fds', c, f, "WRITE", cache[c][f].fd)
  <2>1. Has(fds, c, f, "WRITE", cache[c][f].fd)
    BY <1>4 DEF CaptureInv, WritersInv
  <2> QED
    BY <1>1, <1>3, <1>4, <2>1, HasBefore
<1>5. ASSUME Closing(c), cache[c][f].dirty, deleted = {}
      PROVE  \/ Has(fds', c, f, "WRITE", cache[c][f].fd)
             \/ cache[c][f].data \subseteq primes'[f]
  <2>1. \/ Has(fds, c, f, "WRITE", cache[c][f].fd)
        \/ cache[c][f].data \subseteq primes[f]
    BY <1>5 DEF CaptureInv, WritersInv
  <2>2. OpsInv /\ IdsInv /\ WriterInv /\ SeenInv
    BY <1>5 DEF NumbersInv
  <2>3. primes[f] \subseteq primes'[f]
    BY <1>1, <1>5, <2>2, KeptOutside, KeptInside DEF Kept
  <2>4. CASE DropClient(t) /\ call[t].client = c
    <3>0. pc[t] = "drop" /\ call[t].op = "Close"
      BY <1>1, <2>4 DEF DropClient, TypeInv, Refers
    <3>1. cache[c][f].data = call[t].data
      BY <1>1, <1>5, <2>4, <3>0 DEF CallsInv
    <3>2. call[t].data \subseteq primes[f]
      BY <2>2, <3>0 DEF SeenInv
    <3> QED
      BY <2>3, <3>1, <3>2
  <2> QED
    BY <1>1, <1>3, <2>1, <2>3, <2>4, HasStays
<1> QED
  BY <1>4, <1>5

-------------------------------------------------------------------------------
(* The cache *)

\* What a reply makes of the entry e of the file, which becomes d: it stays, is closed, is what
\* was opened, or awaits to be opened again.  It never has unsaved data that it had not.
Left(c, r, e, d) ==
    \/ d = e
    \/ ~d.dirty /\ d.closed
    \/ /\ r.status = "ok" /\ at[c].step \in {"Open", "Reopen"}
       /\ ~d.dirty /\ d.fd = r.fd /\ d.mode = at[c].mode
    \/ /\ at[c].step = "TestAuth"
       /\ ~d.dirty /\ d.fd = e.fd /\ d.closed = e.closed
       /\ e.closed \/ d.mode = e.mode \/ d.mode = "READ"

\* The other entries of the cache stay.
Others(K, L, c, f) == \A d \in Clients, g \in Files : d # c \/ g # f => L[d][g] = K[d][g]

Fields == {"there", "version", "fd", "mode", "closed", "dirty", "valid", "data"}

\* The cache L is K with v in the field x of the entry of f.
Changed(K, L, c, f, x, v) ==
    /\ L \in Caches /\ Others(K, L, c, f)
    /\ L[c][f][x] = v /\ \A y \in Fields \ {x} : L[c][f][y] = K[c][f][y]

Put(K, c, f, d) == [K EXCEPT ![c][f] = d]

LEMMA PutEntry ==
    ASSUME NEW c \in Clients, NEW f \in Files, NEW K \in Caches, NEW d \in CacheEntries
    PROVE  /\ Put(K, c, f, d) \in Caches /\ Others(K, Put(K, c, f, d), c, f)
           /\ Put(K, c, f, d)[c][f] = d
<1> DEFINE L == [K EXCEPT ![c][f] = d]
<1>1. L \in Caches
  BY CacheFields
<1>2. K \in [Clients -> [Files -> CacheEntries]]
  BY DEF Caches
<1> HIDE DEF CacheEntries
<1>3. Others(K, L, c, f) /\ L[c][f] = d
  BY <1>2 DEF Others
<1> QED
  BY <1>1, <1>3 DEF Put

LEMMA FieldSet ==
    ASSUME NEW e \in CacheEntries
    PROVE  /\ \A v \in Nat, x \in {"version", "fd"} : [e EXCEPT ![x] = v] \in CacheEntries
           /\ \A v \in BOOLEAN, x \in {"closed", "dirty", "valid"} : [e EXCEPT ![x] = v] \in CacheEntries
           /\ \A v \in Modes : [e EXCEPT !["mode"] = v] \in CacheEntries
           /\ \A v \in SUBSET Numbers : [e EXCEPT !["data"] = v] \in CacheEntries
           /\ DOMAIN e = Fields
  BY DEF CacheEntries, Fields

LEMMA FieldChanged ==
    ASSUME NEW c \in Clients, NEW f \in Files, NEW K \in Caches, NEW x \in Fields, NEW v, NEW L,
           L = [K EXCEPT ![c][f] = [K[c][f] EXCEPT ![x] = v]], [K[c][f] EXCEPT ![x] = v] \in CacheEntries
    PROVE  Changed(K, L, c, f, x, v)
<1> DEFINE d == [K[c][f] EXCEPT ![x] = v]
<1>1. DOMAIN K[c][f] = Fields
  BY FieldSet DEF Caches
<1>2. d[x] = v /\ \A y \in Fields \ {x} : d[y] = K[c][f][y]
  BY <1>1
<1>3. d \in CacheEntries /\ L = Put(K, c, f, d)
  BY DEF Put
<1> HIDE DEF d
<1>4. L \in Caches /\ Others(K, L, c, f) /\ L[c][f] = d
  <2>1. /\ Put(K, c, f, d) \in Caches /\ Others(K, Put(K, c, f, d), c, f)
        /\ Put(K, c, f, d)[c][f] = d
    BY <1>3, PutEntry
  <2> QED
    BY <1>3, <2>1
<1> QED
  BY <1>2, <1>4 DEF Changed

LEMMA OthersChain ==
    ASSUME NEW c, NEW f, NEW K, NEW L, NEW M, Others(K, L, c, f), Others(L, M, c, f)
    PROVE  Others(K, M, c, f)
  BY DEF Others

\* Each field by its name.
LEMMA FieldsChanged ==
    ASSUME NEW c \in Clients, NEW f \in Files, NEW K \in Caches, NEW L, NEW v
    PROVE  /\ v \in Nat /\ L = [K EXCEPT ![c][f].version = v] => Changed(K, L, c, f, "version", v)
           /\ v \in Nat /\ L = [K EXCEPT ![c][f].fd = v] => Changed(K, L, c, f, "fd", v)
           /\ v \in Modes /\ L = [K EXCEPT ![c][f].mode = v] => Changed(K, L, c, f, "mode", v)
           /\ v \in BOOLEAN /\ L = [K EXCEPT ![c][f].closed = v] => Changed(K, L, c, f, "closed", v)
           /\ v \in BOOLEAN /\ L = [K EXCEPT ![c][f].dirty = v] => Changed(K, L, c, f, "dirty", v)
           /\ v \in BOOLEAN /\ L = [K EXCEPT ![c][f].valid = v] => Changed(K, L, c, f, "valid", v)
           /\ v \in SUBSET Numbers /\ L = [K EXCEPT ![c][f].data = v] => Changed(K, L, c, f, "data", v)
<1> DEFINE Set(x) == [K EXCEPT ![c][f] = [K[c][f] EXCEPT ![x] = v]]
           Is(x) == [K[c][f] EXCEPT ![x] = v] \in CacheEntries
<1>1. K[c][f] \in CacheEntries
  BY DEF Caches
<1>2. /\ v \in Nat => Is("version") /\ Is("fd")
      /\ v \in Modes => Is("mode")
      /\ v \in BOOLEAN => Is("closed") /\ Is("dirty") /\ Is("valid")
      /\ v \in SUBSET Numbers => Is("data")
  BY <1>1, FieldSet
<1>3. ASSUME NEW x \in Fields, L = Set(x), Is(x) PROVE Changed(K, L, c, f, x, v)
  BY <1>3, FieldChanged
<1>4. {"version", "fd", "mode", "closed", "dirty", "valid", "data"} \subseteq Fields
  BY DEF Fields
<1>5. /\ [K EXCEPT ![c][f].version = v] = Set("version")
      /\ [K EXCEPT ![c][f].fd = v] = Set("fd")
      /\ [K EXCEPT ![c][f].mode = v] = Set("mode")
      /\ [K EXCEPT ![c][f].closed = v] = Set("closed")
      /\ [K EXCEPT ![c][f].dirty = v] = Set("dirty")
      /\ [K EXCEPT ![c][f].valid = v] = Set("valid")
      /\ [K EXCEPT ![c][f].data = v] = Set("data")
  OBVIOUS
<1> HIDE DEF Set, Is
<1> QED
  BY <1>2, <1>3, <1>4, <1>5

\* A copy found valid gets the mode asked for.
Validated(K, c, f, m) == [K EXCEPT ![c][f].valid = TRUE, ![c][f].mode = m]

LEMMA ValidCopy ==
    ASSUME NEW c \in Clients, NEW f \in Files, NEW K \in Caches, NEW m \in Modes
    PROVE  LET L == Validated(K, c, f, m) IN
           /\ Others(K, L, c, f)
           /\ L[c][f].dirty = K[c][f].dirty /\ L[c][f].fd = K[c][f].fd
           /\ L[c][f].closed = K[c][f].closed /\ L[c][f].mode = m
<1> DEFINE M == [K EXCEPT ![c][f].valid = TRUE]
           L == Validated(K, c, f, m)
<1>1. Changed(K, M, c, f, "valid", TRUE)
  BY FieldsChanged
<1>2. L = [M EXCEPT ![c][f].mode = m]
  BY DEF Validated
<1> HIDE DEF M, L
<1>3. M \in Caches
  BY <1>1 DEF Changed
<1>4. Changed(M, L, c, f, "mode", m)
  BY <1>2, <1>3, FieldsChanged
<1> QED
  BY <1>1, <1>4, OthersChain DEF Changed, Fields, L

\* What a reply does to the cache.
LEMMA HandleCache ==
    ASSUME TypeInv, OpsInv, CallsInv, NEW c \in Clients, NEW r \in Replies, Handle(c, r),
           at[c].stage = "wait"
    PROVE  /\ Others(cache, cache', c, at[c].file)
           /\ Left(c, r, cache[c][at[c].file], cache'[c][at[c].file])
<1> DEFINE f == at[c].file
           e == cache[c][f]
           m == at[c].mode
           To(K) == Others(cache, K, c, f) /\ Left(c, r, e, K[c][f])
<1>0. /\ f \in Files /\ m \in Modes /\ cache \in Caches /\ e \in CacheEntries
      /\ at[c].step # "Write" /\ at[c].step # "Read" /\ r.fd \in Nat /\ r.version \in Nat
      /\ at[c].step \in {"TestAuth", "Reopen"} => ~e.dirty
      /\ at[c].step = "Reopen" => e.mode = m
  BY DEF TypeInv, ClientTypes, Positions, Caches, OpsInv, CallsInv, Replies
<1>1. CASE cache' = cache
  BY <1>1 DEF Others, Left
<1> HIDE DEF f, m
<1>2. ASSUME Opening(c, r), r.status = "ok"
      PROVE  To(cache')
  <2> DEFINE b == at[c].step = "Create"
             d == Fresh(r, m, b)
  <2>1. cache' = Put(cache, c, f, d) /\ at[c].step \in {"Create", "Open"}
    BY <1>2 DEF Opening, Put, f, m
  <2>2. ~d.dirty /\ d.closed = b /\ d.mode = m /\ d.fd = r.fd
    BY DEF Fresh, NotCached
  <2>3. d \in CacheEntries
    BY <1>0, FreshEntry
  <2> HIDE DEF d, e
  <2>4. cache'[c][f] = d /\ Others(cache, cache', c, f)
    BY <1>0, <2>1, <2>3, PutEntry
  <2>5. Left(c, r, e, d)
    BY <1>2, <2>1, <2>2 DEF Left, m
  <2> QED
    BY <2>4, <2>5
<1>3. ASSUME Validating(c, r), cache' # cache
      PROVE  To(cache')
  <2>1. /\ cache' = Validated(cache, c, f, m)
        /\ at[c].step = "TestAuth" /\ (e.closed \/ e.mode = m \/ e.mode # "READ")
    BY <1>3 DEF Validating, Validated, f, m
  <2> DEFINE d == cache'[c][f]
  <2>2. /\ Others(cache, cache', c, f)
        /\ d.dirty = e.dirty /\ d.fd = e.fd /\ d.closed = e.closed /\ d.mode = m
    BY <1>0, <2>1, ValidCopy
  <2>3. e.closed \/ m = e.mode \/ m = "READ"
    <3>1. e.mode \in Modes
      BY <1>0 DEF CacheEntries
    <3> QED
      BY <1>0, <2>1, <3>1 DEF Modes
  <2> HIDE DEF d, e
  <2>4. Left(c, r, e, d)
    BY <1>0, <2>1, <2>2, <2>3 DEF Left
  <2> QED
    BY <2>2, <2>4 DEF d
<1>4. ASSUME Reopening(c, r), r.status = "ok"
      PROVE  To(cache')
  <2> DEFINE n == r.fd
             K == [cache EXCEPT ![c][f].fd = n]
             L == [K EXCEPT ![c][f].closed = FALSE]
  <2>1. cache' = L /\ at[c].step = "Reopen"
    BY <1>4 DEF Reopening, f
  <2>2. Changed(cache, K, c, f, "fd", n)
    BY <1>0, FieldsChanged
  <2> HIDE DEF K
  <2>3. Changed(K, L, c, f, "closed", FALSE)
    <3>1. K \in Caches
      BY <2>2 DEF Changed
    <3> QED
      BY <1>0, <3>1, FieldsChanged
  <2> HIDE DEF L
  <2>4. L[c][f].dirty = e.dirty /\ L[c][f].fd = n /\ L[c][f].mode = e.mode
    BY <2>2, <2>3 DEF Changed, Fields
  <2> HIDE DEF e
  <2>5. Left(c, r, e, L[c][f])
    BY <1>0, <1>4, <2>1, <2>4 DEF Left, m
  <2> QED
    BY <2>1, <2>2, <2>3, <2>5, OthersChain DEF Changed
<1>5. ASSUME Saving(c, r), r.status = "ok"
      PROVE  To(cache')
  <2> DEFINE v == r.version
             K == [cache EXCEPT ![c][f].version = v]
             L == [K EXCEPT ![c][f].dirty = FALSE]
             M == [L EXCEPT ![c][f].closed = TRUE]
             N == [M EXCEPT ![c][f].fd = 0]
  <2>1. cache' = N
    BY <1>0, <1>5 DEF Saving, f
  <2>2. Changed(cache, K, c, f, "version", v)
    BY <1>0, FieldsChanged
  <2> HIDE DEF K
  <2>3. Changed(K, L, c, f, "dirty", FALSE)
    <3>1. K \in Caches
      BY <2>2 DEF Changed
    <3> QED
      BY <1>0, <3>1, FieldsChanged
  <2> HIDE DEF L
  <2>4. Changed(L, M, c, f, "closed", TRUE)
    <3>1. L \in Caches
      BY <2>3 DEF Changed
    <3> QED
      BY <1>0, <3>1, FieldsChanged
  <2> HIDE DEF M
  <2>5. Changed(M, N, c, f, "fd", 0)
    <3>1. M \in Caches
      BY <2>4 DEF Changed
    <3> QED
      BY <1>0, <3>1, FieldsChanged
  <2> HIDE DEF N
  <2>6. ~N[c][f].dirty /\ N[c][f].closed
    BY <2>3, <2>4, <2>5 DEF Changed, Fields
  <2>7. Left(c, r, e, N[c][f])
    BY <2>6 DEF Left
  <2>8. Others(cache, N, c, f)
    BY <2>2, <2>3, <2>4, <2>5, OthersChain DEF Changed
  <2> QED
    BY <2>1, <2>7, <2>8
<1>6. \/ cache' = cache
      \/ Opening(c, r) /\ r.status = "ok"
      \/ Validating(c, r)
      \/ Reopening(c, r) /\ r.status = "ok"
      \/ Saving(c, r) /\ r.status = "ok"
  BY <1>0 DEF Handle, Opening, Reopening, Saving, Erasing, Loading
<1> QED
  BY <1>1, <1>2, <1>3, <1>4, <1>5, <1>6 DEF f

\* A writer still has its descriptor, whatever became of its entry.
LEMMA WritersRest ==
    ASSUME WritersInv, UNCHANGED <<fds, primes>>, deleted \subseteq deleted',
           \A d \in Clients : Closing(d) => Closing(d)',
           \A d \in Clients, g \in Files :
              \/ cache'[d][g] = cache[d][g]
              \/ cache'[d][g].closed
              \/ Has(fds, d, g, "WRITE", cache'[d][g].fd)
              \/ ~cache'[d][g].dirty /\ (cache'[d][g].mode # "WRITE" \/ Closing(d)')
    PROVE  WritersInv'
<1> SUFFICES ASSUME NEW c \in Clients, NEW f \in Files, ~cache'[c][f].closed
             PROVE  /\ ~Closing(c)' /\ (cache'[c][f].dirty \/ cache'[c][f].mode = "WRITE") =>
                          Has(fds', c, f, "WRITE", cache'[c][f].fd)
                    /\ Closing(c)' /\ cache'[c][f].dirty /\ deleted' = {} =>
                          \/ Has(fds', c, f, "WRITE", cache'[c][f].fd)
                          \/ cache'[c][f].data \subseteq primes'[f]
  BY DEF WritersInv
<1>1. CASE cache'[c][f] = cache[c][f]
  <2>1. /\ ~Closing(c) /\ (cache[c][f].dirty \/ cache[c][f].mode = "WRITE") =>
              Has(fds, c, f, "WRITE", cache[c][f].fd)
        /\ Closing(c) /\ cache[c][f].dirty /\ deleted = {} =>
              \/ Has(fds, c, f, "WRITE", cache[c][f].fd)
              \/ cache[c][f].data \subseteq primes[f]
    BY <1>1 DEF WritersInv
  <2>2. fds' = fds /\ primes' = primes /\ (deleted' = {} => deleted = {}) /\ (Closing(c) => Closing(c)')
    OBVIOUS
  <2> HIDE DEF Closing
  <2> QED
    BY <1>1, <2>1, <2>2
<1>2. CASE Has(fds, c, f, "WRITE", cache'[c][f].fd)
  BY <1>2
<1>3. CASE ~cache'[c][f].dirty /\ (cache'[c][f].mode # "WRITE" \/ Closing(c)')
  BY <1>3
<1> QED
  BY <1>1, <1>2, <1>3

\* After a reply.
LEMMA HandleWriters ==
    ASSUME TypeInv, OpsInv, CallsInv, WritersInv, NEW c \in Clients, NEW r \in Replies, Handle(c, r),
           at[c].stage = "wait", UNCHANGED <<fds, primes, made, deleted>>,
           r.status = "ok" /\ ~Closing(c) /\ at[c].step \in {"Open", "Reopen"} =>
              Has(fds, c, at[c].file, at[c].mode, r.fd)
    PROVE  WritersInv'
<1> DEFINE f == at[c].file
<1>1. Others(cache, cache', c, f) /\ Left(c, r, cache[c][f], cache'[c][f])
  BY HandleCache
<1>2. \A d : Closing(d)' <=> Closing(d)
  BY DEF Closing
<1>3. f \in Files
  BY DEF TypeInv, ClientTypes, Positions
<1> DEFINE e == cache[c][f]
           d == cache'[c][f]
<1>4. \/ d = e
      \/ d.closed
      \/ Has(fds, c, f, "WRITE", d.fd)
      \/ ~d.dirty /\ (d.mode # "WRITE" \/ Closing(c)')
  <2>1. CASE at[c].step = "TestAuth" /\ ~d.dirty /\ d.fd = e.fd /\ d.closed = e.closed
             /\ (e.closed \/ d.mode = e.mode \/ d.mode = "READ")
    <3>1. ~e.closed /\ ~Closing(c) /\ e.mode = "WRITE" => Has(fds, c, f, "WRITE", e.fd)
      BY <1>3 DEF WritersInv
    <3> QED
      BY <1>2, <2>1, <3>1
  <2>2. CASE r.status = "ok" /\ at[c].step \in {"Open", "Reopen"}
             /\ ~d.dirty /\ d.fd = r.fd /\ d.mode = at[c].mode
    BY <1>2, <2>2
  <2> QED
    BY <1>1, <2>1, <2>2 DEF Left
<1> HIDE DEF f
<1>5. \A b \in Clients, g \in Files :
          \/ cache'[b][g] = cache[b][g]
          \/ cache'[b][g].closed
          \/ Has(fds, b, g, "WRITE", cache'[b][g].fd)
          \/ ~cache'[b][g].dirty /\ (cache'[b][g].mode # "WRITE" \/ Closing(b)')
  BY <1>1, <1>4 DEF Others
<1> QED
  BY <1>2, <1>5, WritersRest

-------------------------------------------------------------------------------
(* The requests of the clients *)

\* What a client asks for next, when no handler works: the same, or something new.
Asks(c) ==
    /\ \A d \in Clients \ {c} : at'[d] = at[d]
    /\ \/ at'[c].stage = "ready" /\ at'[c].step = "Create"
       \/ /\ at'[c].stage = "call" /\ at'[c].step # "Read"
          /\ at'[c].step = "Close" => Closing(c)'
          /\ at'[c].step \in {"TestAuth", "Reopen"} => ~cache'[c][at'[c].file].dirty
          /\ at'[c].step = "Reopen" => cache'[c][at'[c].file].mode = at'[c].mode
          /\ \/ at'[c].id = nextId
             \/ /\ at[c].stage # "ready" /\ at'[c].id = at[c].id /\ at'[c].step = at[c].step
                /\ at'[c].file = at[c].file /\ at'[c].mode = at[c].mode

LEMMA HandleAsks ==
    ASSUME TypeInv, CallsInv, NEW c \in Clients, NEW r, Handle(c, r), at[c].stage = "wait"
    PROVE  Asks(c)
<1> DEFINE f == at[c].file
           m == at[c].mode
<1>1. /\ ClientTypes /\ at[c].id < nextId /\ nextId \in Nat /\ f \in Files /\ m \in Modes
      /\ cache \in Caches
  BY DEF TypeInv, ClientTypes, Waits, Positions, Caches
<1>2. at[c].step \in {"TestAuth", "Reopen"} => ~cache[c][f].dirty
  BY DEF CallsInv
<1> HIDE DEF f, m
<1>3. CASE End(c)
  BY <1>1, <1>3, Ended DEF Asks, Moved
<1>4. CASE Retry(c) /\ cache' = cache /\ at[c].step \in {"Create", "Open", "TestAuth"}
  <2>1. /\ Moved(c) /\ at'[c].stage = "call" /\ at'[c].step = at[c].step /\ at'[c].file = f
        /\ at'[c].mode = at[c].mode /\ at'[c].id = at[c].id
    BY <1>1, <1>4, Retried DEF f
  <2> QED
    BY <1>2, <1>4, <2>1 DEF Asks, Moved, f
<1>5. CASE Ask(c, "Open", f, m)
  <2>1. Moved(c) /\ at'[c].step = "Open" /\ at'[c].id = nextId /\ at'[c].stage = "call"
    BY <1>1, <1>5, Asked DEF Steps
  <2> QED
    BY <2>1 DEF Asks, Moved
<1>6. CASE /\ Ask(c, "Reopen", f, m) /\ at[c].step = "TestAuth"
           /\ cache' = Validated(cache, c, f, m)
  <2>1. /\ Moved(c) /\ at'[c].step = "Reopen" /\ at'[c].id = nextId /\ at'[c].stage = "call"
        /\ at'[c].file = f /\ at'[c].mode = m
    BY <1>1, <1>6, Asked DEF Steps
  <2>2. ~cache'[c][f].dirty /\ cache'[c][f].mode = m
    BY <1>1, <1>2, <1>6, ValidCopy
  <2> QED
    BY <2>1, <2>2 DEF Asks, Moved
<1> QED
  BY <1>3, <1>4, <1>5, <1>6 DEF Handle, Opening, Validating, Reopening, Saving, Erasing, Loading,
    Validated, f, m

\* Every application asks as it may.
LEMMA ApplicationAsks ==
    ASSUME WritesThenCloses, Undisturbed, TypeInv, CallsInv, NEW c \in Clients, Application(c)
    PROVE  /\ Asks(c) /\ made' \in [Clients -> Nat]
           /\ \A d \in Clients : Closing(d) => Closing(d)'
           /\ \E f \in Files :
                 /\ Others(cache, cache', c, f)
                 /\ \/ cache'[c][f] = cache[c][f]
                    \/ cache'[c][f].closed /\ ~cache'[c][f].dirty
                    \/ /\ ~Closing(c) /\ ~cache[c][f].closed /\ cache[c][f].mode = "WRITE"
                       /\ cache'[c][f].fd = cache[c][f].fd
<1> DEFINE n == made[c] + 1
<1>1. /\ ClientTypes /\ at[c].id < nextId /\ nextId \in Nat /\ cache \in Caches
      /\ made \in [Clients -> Nat] /\ n \in Nat /\ n \in DOMAIN Plan[c] /\ made' = [made EXCEPT ![c] = n]
  BY DEF TypeInv, ClientTypes, Waits, Caches, CallsInv, Application
<1>2. made' \in [Clients -> Nat] /\ made'[c] = n /\ \A d \in Clients : made[d] <= made'[d]
  BY <1>1
<1>3. \A d \in Clients : Closing(d) => Closing(d)'
  BY <1>1, <1>2 DEF Closing
<1>4. "Close" \in Plan[c][n] => Closing(c)'
  BY <1>1, <1>2 DEF Closing
<1>5. "WriteFile" \in Plan[c][n] => ~Closing(c)
  BY <1>1 DEF Closing, WritesThenCloses
<1>6. "Read" \notin Plan[c][n] /\ "Commit" \notin Plan[c][n]
  BY <1>1 DEF WritesThenCloses, Undisturbed
<1>7. PICK f \in Files :
           \/ Create(c, f) \/ Open(c, f, "WRITE") \/ Open(c, f, "READ")
           \/ "WriteFile" \in Plan[c][n] /\ IsOpen(c, f) /\ \E m \in Numbers : WriteFile(c, f, {m})
           \/ "Close" \in Plan[c][n] /\ Close(c, f)
           \/ Erase(c, f)
  BY <1>6 DEF Application
<1> HIDE DEF n
<1> USE DEF Steps, Modes
<1>8. ASSUME \/ Create(c, f) \/ Open(c, f, "WRITE") \/ Open(c, f, "READ")
             \/ "Close" \in Plan[c][n] /\ Close(c, f)
      PROVE  Asks(c) /\ cache' = cache
  <2>1. cache' = cache
    BY <1>8 DEF Create, Open, Close
  <2>2. \/ End(c)
        \/ \E m \in Modes : \/ Ask(c, "Create", f, m) \/ Ask(c, "Open", f, m)
                            \/ Ask(c, "TestAuth", f, m) /\ ~cache[c][f].dirty
                            \/ Ask(c, "Close", f, m) /\ "Close" \in Plan[c][n]
    BY <1>8 DEF Create, Open, Close
  <2>3. ASSUME End(c) PROVE Asks(c)
    <3>1. Moved(c) /\ at'[c].step = "Create" /\ at'[c].stage = "ready"
      BY <1>1, <2>3, Ended
    <3> QED
      BY <3>1 DEF Asks, Moved
  <2>4. ASSUME NEW m \in Modes, NEW s \in {"Create", "Open", "TestAuth", "Close"}, Ask(c, s, f, m),
               s = "TestAuth" => ~cache[c][f].dirty, s = "Close" => "Close" \in Plan[c][n]
        PROVE  Asks(c)
    <3>1. /\ Moved(c) /\ at'[c].step = s /\ at'[c].file = f /\ at'[c].id = nextId
          /\ at'[c].stage = "call"
      BY <1>1, <2>4, Asked
    <3> QED
      BY <1>4, <2>1, <2>4, <3>1 DEF Asks, Moved
  <2> QED
    BY <2>1, <2>2, <2>3, <2>4
<1>9. ASSUME NEW m \in Numbers, WriteFile(c, f, {m}), IsOpen(c, f), "WriteFile" \in Plan[c][n]
      PROVE  /\ Asks(c) /\ Others(cache, cache', c, f)
             /\ ~Closing(c) /\ ~cache[c][f].closed /\ cache[c][f].mode = "WRITE"
             /\ cache'[c][f].fd = cache[c][f].fd
  <2>1. Asks(c)
    BY <1>1, <1>9, Ended DEF WriteFile, Asks, Moved
  <2> DEFINE D == {m}
             K == [cache EXCEPT ![c][f].data = D]
             L == [K EXCEPT ![c][f].dirty = TRUE]
             M == [L EXCEPT ![c][f].valid = FALSE]
  <2>2. cache' = M
    BY <1>9 DEF WriteFile
  <2>3. Changed(cache, K, c, f, "data", D)
    BY <1>1, FieldsChanged
  <2> HIDE DEF K, D
  <2>4. Changed(K, L, c, f, "dirty", TRUE)
    <3>1. K \in Caches
      BY <2>3 DEF Changed
    <3> QED
      BY <3>1, FieldsChanged
  <2> HIDE DEF L
  <2>5. Changed(L, M, c, f, "valid", FALSE)
    <3>1. L \in Caches
      BY <2>4 DEF Changed
    <3> QED
      BY <3>1, FieldsChanged
  <2> HIDE DEF M
  <2>6. M[c][f].fd = cache[c][f].fd
    BY <2>3, <2>4, <2>5 DEF Changed, Fields
  <2>7. Others(cache, M, c, f)
    BY <2>3, <2>4, <2>5, OthersChain DEF Changed
  <2>8. ~cache[c][f].closed /\ cache[c][f].mode # "READ" /\ cache[c][f].mode \in Modes
    BY <1>1, <1>9 DEF WriteFile, IsOpen, Caches, CacheEntries
  <2> QED
    BY <1>5, <1>9, <2>1, <2>2, <2>6, <2>7, <2>8
<1>10. ASSUME Erase(c, f)
       PROVE  /\ Asks(c) /\ Others(cache, cache', c, f)
              /\ cache'[c][f].closed /\ ~cache'[c][f].dirty
  <2>1. /\ Ask(c, "Delete", f, "READ") /\ cache' = Put(cache, c, f, NotCached)
    BY <1>10 DEF Erase, Put
  <2>2. Moved(c) /\ at'[c].step = "Delete" /\ at'[c].id = nextId /\ at'[c].stage = "call"
    BY <1>1, <2>1, Asked
  <2>3. NotCached \in CacheEntries /\ NotCached.closed /\ ~NotCached.dirty
    BY DEF NotCached, CacheEntries
  <2>4. cache'[c][f] = NotCached /\ Others(cache, cache', c, f)
    BY <1>1, <2>1, <2>3, PutEntry
  <2> QED
    BY <2>2, <2>3, <2>4 DEF Asks, Moved
<1>11. cache' = cache => Others(cache, cache', c, f) /\ cache'[c][f] = cache[c][f]
  BY DEF Others
<1>12. /\ Asks(c) /\ Others(cache, cache', c, f)
       /\ \/ cache'[c][f] = cache[c][f]
          \/ cache'[c][f].closed /\ ~cache'[c][f].dirty
          \/ /\ ~Closing(c) /\ ~cache[c][f].closed /\ cache[c][f].mode = "WRITE"
             /\ cache'[c][f].fd = cache[c][f].fd
  BY <1>7, <1>8, <1>9, <1>10, <1>11
<1> QED
  BY <1>2, <1>3, <1>12

\* No handler works and c, if any client, goes on: what the others have stays, and so does
\* what c has not saved once it may have asked for a Close.
Turns(c) ==
    /\ Quiet /\ fds' = fds /\ made' \in [Clients -> Nat]
    /\ Asks(c) \/ UNCHANGED <<at, cache>>
    /\ \A d \in Clients \ {c}, g \in Files : cache'[d][g] = cache[d][g]
    /\ \A g \in Files : cache'[c][g].dirty => cache'[c][g] = cache[c][g] \/ ~Closing(c)
    /\ \A d \in Clients : Closing(d) => Closing(d)'
    /\ \A d \in Clients : at'[d].stage = "wait" => at'[d] = at[d] /\ Stays(at[d].thread)

\* The answers to a request of c are those that were there, and a new request has none.
LEMMA OldRequests ==
    ASSUME TypeInv, IdsInv, NEW c \in Clients, Turns(c), NEW d \in Clients, at'[d].stage # "ready"
    PROVE  /\ at'[d].id # 0
           /\ \A t \in Threads : call'[t].id = at'[d].id => Stays(t) /\ call[t].id = at'[d].id
           /\ \/ /\ at[d].stage # "ready" /\ at'[d].id = at[d].id /\ at'[d].step = at[d].step
                 /\ at'[d].file = at[d].file /\ at'[d].mode = at[d].mode
              \/ /\ \A t \in Threads : call'[t].id # at'[d].id
                 /\ \A r \in requests' : r.id # at'[d].id
<1>1. \/ /\ at[d].stage # "ready" /\ at'[d].id = at[d].id /\ at'[d].step = at[d].step
         /\ at'[d].file = at[d].file /\ at'[d].mode = at[d].mode
      \/ at'[d].id = nextId
  BY DEF Turns, Asks
<1>2. at'[d].id # 0
  BY <1>1, IdsBelow DEF IdsInv
<1>3. \A t \in Threads : (Stays(t) /\ call'[t] = call[t]) \/ call'[t].id = 0
  BY Nothing DEF Turns, Quiet, Stays, Rests
<1>4. requests' = requests
  BY DEF Turns, Quiet
<1>5. at'[d].id = nextId => /\ \A t \in Threads : call'[t].id # at'[d].id
                            /\ \A r \in requests' : r.id # at'[d].id
  BY <1>2, <1>3, <1>4, IdsBelow
<1> QED
  BY <1>1, <1>2, <1>3, <1>5

LEMMA CallsRest ==
    ASSUME TypeInv, IdsInv, CallsInv, NEW c \in Clients, Turns(c)
    PROVE  CallsInv'
<1>1. ASSUME NEW d \in Clients, at'[d].stage # "ready"
      PROVE  /\ at'[d].step = "Close" => Closing(d)'
             /\ at'[d].step \in {"TestAuth", "Reopen"} => ~cache'[d][at'[d].file].dirty
             /\ at'[d].step = "Reopen" => cache'[d][at'[d].file].mode = at'[d].mode
             /\ at'[d].step # "Read"
  <2>1. CASE d = c /\ Asks(c)
    BY <1>1, <2>1 DEF Asks
  <2>2. CASE d # c \/ UNCHANGED <<at, cache>>
    <3>1. at'[d] = at[d] /\ at[d].file \in Files /\ (Closing(d) => Closing(d)')
      BY <2>2 DEF Turns, Asks, TypeInv, ClientTypes, Positions
    <3>2. cache'[d][at[d].file] = cache[d][at[d].file]
      BY <2>2, <3>1 DEF Turns
    <3> QED
      BY <1>1, <3>1, <3>2 DEF CallsInv
  <2> QED
    BY <2>1, <2>2 DEF Turns
<1>2. ASSUME NEW d \in Clients, at'[d].stage # "ready", NEW t \in Threads, call'[t].id = at'[d].id
      PROVE  call'[t].client = d /\ call'[t].file = at'[d].file /\ call'[t].mode = at'[d].mode
  <2>1. /\ call'[t] = call[t] /\ at[d].stage # "ready" /\ at'[d].id = at[d].id
        /\ at'[d].file = at[d].file /\ at'[d].mode = at[d].mode
    BY <1>2, OldRequests DEF Stays
  <2> QED
    BY <1>2, <2>1 DEF CallsInv
<1>3. ASSUME NEW d \in Clients, at'[d].stage = "wait"
      PROVE  call'[at'[d].thread].id = at'[d].id
  BY <1>3 DEF Turns, Stays, CallsInv
<1>4. ASSUME NEW d \in Clients, at'[d].stage = "ready"
      PROVE  at'[d].step # "Read"
  BY <1>4 DEF Turns, Asks, CallsInv
<1>5. ASSUME NEW t \in Threads
      PROVE  /\ call'[t].op # "Read"
             /\ call'[t].op = "Close" =>
                   /\ Closing(call[t].client)' /\ call'[t].client = call[t].client
                   /\ pc'[t] \in Looked => fds'[call'[t].fd + 1].client = call'[t].client
                   /\ \A f \in Files : cache'[call'[t].client][f].dirty =>
                         call'[t].data = cache'[call'[t].client][f].data
  <2>1. CASE Rests(t)
    BY <2>1, Nothing DEF Rests
  <2>2. CASE Stays(t)
    <3>1. call'[t] = call[t] /\ pc'[t] = pc[t] /\ call[t].op # "Read"
      BY <2>2 DEF Stays, CallsInv
    <3>2. ASSUME call[t].op = "Close"
          PROVE  /\ Closing(call[t].client)'
                 /\ pc[t] \in Looked => fds'[call[t].fd + 1].client = call[t].client
                 /\ \A f \in Files : cache'[call[t].client][f].dirty =>
                         call[t].data = cache'[call[t].client][f].data
      <4>1. call[t].client \in Clients /\ Closing(call[t].client)
        BY <3>2 DEF TypeInv, ThreadTypes, Calls, CallsInv
      <4>2. \A f \in Files : cache'[call[t].client][f].dirty =>
                cache'[call[t].client][f] = cache[call[t].client][f]
        BY <4>1 DEF Turns
      <4>3. \A d \in Clients : Closing(d) => Closing(d)'
        BY DEF Turns
      <4>4. Closing(call[t].client)' /\ fds' = fds
        BY <3>1, <4>1, <4>3 DEF Turns, Closing
      <4> QED
        BY <3>2, <4>1, <4>2, <4>4 DEF CallsInv
    <3> QED
      BY <3>1, <3>2
  <2> QED
    BY <2>1, <2>2 DEF Turns, Quiet
<1>6. made' \in [Clients -> Nat]
  BY DEF Turns
<1> HIDE DEF Closing
<1> QED
  BY <1>1, <1>2, <1>3, <1>4, <1>5, <1>6 DEF CallsInv

LEMMA AnswersRest ==
    ASSUME TypeInv, IdsInv, AnswersInv, NEW c \in Clients, Turns(c)
    PROVE  AnswersInv'
<1> SUFFICES ASSUME NEW d \in Clients, ~Closing(d)', at'[d].stage # "ready",
                    at'[d].step \in {"Open", "Reopen"}
             PROVE  /\ \A r \in requests' : r.id = at'[d].id /\ r.reply.status = "ok" =>
                          Has(fds', d, at'[d].file, at'[d].mode, r.reply.fd)
                    /\ \A t \in Threads : call'[t].id = at'[d].id /\ pc'[t] = "done" /\ reply'[t].status = "ok" =>
                          Has(fds', d, at'[d].file, at'[d].mode, reply'[t].fd)
  BY DEF AnswersInv
<1>1. ~Closing(d) /\ fds' = fds /\ requests' = requests
  BY DEF Turns, Quiet
<1>2. CASE /\ at[d].stage # "ready" /\ at'[d].id = at[d].id /\ at'[d].step = at[d].step
           /\ at'[d].file = at[d].file /\ at'[d].mode = at[d].mode
  <2>1. \A t \in Threads : call'[t].id = at[d].id => Stays(t)
    BY <1>2, OldRequests
  <2> QED
    BY <1>1, <1>2, <2>1 DEF AnswersInv, Stays
<1>3. CASE /\ \A t \in Threads : call'[t].id # at'[d].id
           /\ \A r \in requests' : r.id # at'[d].id
  BY <1>3
<1> QED
  BY <1>2, <1>3, OldRequests

\* A request is its client's, and carries what the client has not saved.
LEMMA SendCapture ==
    ASSUME Undisturbed, TypeInv, OpsInv, IdsInv, CaptureInv, NEW c \in Clients, Send(c)
    PROVE  CaptureInv'
<1> USE DEF CaptureInv
<1>1. PICK t \in Threads : Arrives(c, t)
  BY SendMoves
<1>2. /\ \A d : Closing(d)' <=> Closing(d)
      /\ UNCHANGED <<cache, made, fds, primes, requests, deleted>>
  BY <1>1 DEF Arrives, Closing, store_vars, log_vars
<1>3. ASSUME NEW d \in Clients
      PROVE  /\ at'[d].id = at[d].id /\ at'[d].step = at[d].step /\ at'[d].file = at[d].file
             /\ at'[d].mode = at[d].mode /\ (at'[d].stage # "ready" => at[d].stage # "ready")
  BY <1>1 DEF Arrives
<1> DEFINE q == Request(c)
<1>4. /\ q.client = c /\ q.id = at[c].id /\ q.file = at[c].file /\ q.mode = at[c].mode
      /\ q.op = OpOf(at[c].step) /\ (q.op = "Close" => at[c].step = "Close") /\ q.op # "Read"
      /\ q.op = "Close" /\ cache[c][at[c].file].dirty => q.data = cache[c][at[c].file].data
  BY DEF Request, OpOf, CallsInv
<1> HIDE DEF q
<1>5. /\ call'[t] = q /\ pc'[t] = "start" /\ at[c].stage = "call" /\ at'[c].thread = t
      /\ \A u \in Threads \ {t} : Stays(u)
  BY <1>1 DEF Arrives, q
<1>6. ASSUME NEW d \in Clients
      PROVE  /\ at'[d].step # "Read"
             /\ at'[d].stage # "ready" =>
                   /\ at'[d].step = "Close" => Closing(d)'
                   /\ at'[d].step \in {"TestAuth", "Reopen"} => ~cache'[d][at'[d].file].dirty
                   /\ at'[d].step = "Reopen" => cache'[d][at'[d].file].mode = at'[d].mode
  BY <1>2, <1>3 DEF CallsInv
<1>7. ASSUME NEW d \in Clients, at'[d].stage # "ready", NEW u \in Threads, call'[u].id = at'[d].id
      PROVE  call'[u].client = d /\ call'[u].file = at'[d].file /\ call'[u].mode = at'[d].mode
  <2>1. CASE u = t
    <3>1. d = c
      BY <1>3, <1>4, <1>5, <1>7, <2>1 DEF IdsInv
    <3> QED
      BY <1>3, <1>4, <1>5, <2>1, <3>1
  <2>2. CASE u # t
    <3>1. call'[u] = call[u] /\ call[u].id = at[d].id /\ at[d].stage # "ready"
      BY <1>3, <1>5, <1>7, <2>2 DEF Stays
    <3> QED
      BY <1>3, <3>1 DEF CallsInv
  <2> QED
    BY <2>1, <2>2
<1>8. ASSUME NEW d \in Clients, at'[d].stage = "wait"
      PROVE  call'[at'[d].thread].id = at'[d].id
  <2>1. CASE d = c
    BY <1>3, <1>4, <1>5, <2>1
  <2>2. CASE d # c
    <3>1. at'[d] = at[d] /\ pc[t] = "idle"
      BY <1>1, <2>2 DEF Arrives
    <3>2. at[d].thread \in Threads /\ at[d].thread # t
      BY <1>8, <3>1, Waiting
    <3> QED
      BY <1>5, <1>8, <3>1, <3>2 DEF Stays, CallsInv
  <2> QED
    BY <2>1, <2>2
<1>9. ASSUME NEW u \in Threads
      PROVE  /\ call'[u].op # "Read"
             /\ call'[u].op = "Close" =>
                   /\ Closing(call'[u].client)
                   /\ pc'[u] \in Looked => fds'[call'[u].fd + 1].client = call'[u].client
                   /\ \A f \in Files : cache'[call'[u].client][f].dirty =>
                         call'[u].data = cache'[call'[u].client][f].data
  <2>1. CASE u = t
    <3>1. ASSUME q.op = "Close"
          PROVE  Closing(c) /\ \A f \in Files : cache[c][f].dirty => q.data = cache[c][f].data
      <4>1. Closing(c)
        BY <1>4, <1>5, <3>1 DEF CallsInv
      <4>2. \A f \in Files : f = at[c].file
        BY DEF Undisturbed, TypeInv, ClientTypes, Positions
      <4> QED
        BY <1>4, <3>1, <4>1, <4>2
    <3> QED
      BY <1>2, <1>4, <1>5, <2>1, <3>1 DEF Looked
  <2>2. CASE u # t
    BY <1>2, <1>5, <2>2 DEF Stays, CallsInv
  <2> QED
    BY <2>1, <2>2
<1>10. CallsInv'
  <2>1. made' \in [Clients -> Nat]
    BY <1>2 DEF CallsInv
  <2>2. \A u \in Threads : call'[u].op = "Close" => Closing(call[u].client)'
    BY <1>2, <1>9 DEF Closing
  <2> HIDE DEF Closing
  <2> QED
    BY <1>6, <1>7, <1>8, <1>9, <2>1, <2>2 DEF CallsInv
<1>11. AnswersInv'
  <2> SUFFICES ASSUME NEW d \in Clients, ~Closing(d), at'[d].stage # "ready",
                      at'[d].step \in {"Open", "Reopen"}
               PROVE  /\ \A r \in requests' : r.id = at'[d].id /\ r.reply.status = "ok" =>
                            Has(fds', d, at'[d].file, at'[d].mode, r.reply.fd)
                      /\ \A u \in Threads : call'[u].id = at'[d].id /\ pc'[u] = "done"
                                              /\ reply'[u].status = "ok" =>
                            Has(fds', d, at'[d].file, at'[d].mode, reply'[u].fd)
    BY <1>2 DEF AnswersInv
  <2>1. \A r \in requests' : r.id = at'[d].id /\ r.reply.status = "ok" =>
            Has(fds', d, at'[d].file, at'[d].mode, r.reply.fd)
    BY <1>2, <1>3 DEF AnswersInv
  <2>2. ASSUME NEW u \in Threads, call'[u].id = at'[d].id, pc'[u] = "done", reply'[u].status = "ok"
        PROVE  Has(fds', d, at'[d].file, at'[d].mode, reply'[u].fd)
    <3>1. Stays(u)
      BY <1>5, <2>2
    <3> QED
      BY <1>2, <1>3, <2>2, <3>1 DEF AnswersInv, Stays
  <2> QED
    BY <2>1, <2>2
<1>12. WritersInv'
  <2>1. cache' = cache /\ UNCHANGED <<fds, primes>> /\ deleted \subseteq deleted'
    BY <1>2
  <2> QED
    BY <1>2, <2>1, WritersRest
<1> QED
  BY <1>10, <1>11, <1>12

LEMMA TurnsCapture ==
    ASSUME TypeInv, IdsInv, CaptureInv, NEW c \in Clients, Turns(c), WritersInv'
    PROVE  CaptureInv'
  BY CallsRest, AnswersRest DEF CaptureInv

\* Who leaves leaves the others alone.
LEMMA LeaveAlone ==
    ASSUME TypeInv, NEW t \in Threads, Leave(t)
    PROVE  /\ UNCHANGED <<fds, primes>> /\ Quiet
           /\ \A u \in Threads \ {t} : Stays(u)
           /\ \A c \in Clients, d \in Clients : c # d /\ at[c].stage = "wait" /\ at[d].stage = "wait"
                 /\ at[c].thread = t => Stays(at[d].thread)
<1>1. UNCHANGED <<fds, primes>> /\ \A u \in Threads \ {t} : Stays(u)
  BY DEF TypeInv, ThreadTypes, Leave, Stays, table_vars, store_vars, log_vars
<1>2. Quiet
  BY LeaveIsQuiet
<1>3. ASSUME NEW c \in Clients, NEW d \in Clients, c # d, at[c].stage = "wait", at[d].stage = "wait",
             at[c].thread = t
      PROVE  Stays(at[d].thread)
  <2>1. at[d].thread \in Threads /\ at[d].thread # t
    BY <1>3, Waiting DEF TypeInv, Waits
  <2> QED
    BY <1>1, <2>1
<1> QED
  BY <1>1, <1>2, <1>3

LEMMA HandleTurns ==
    ASSUME TypeInv, OpsInv, CallsInv, NEW c \in Clients, NEW r \in Replies, Handle(c, r),
           at[c].stage = "wait", Quiet, UNCHANGED <<fds, made>>,
           \A d \in Clients \ {c} : at[d].stage = "wait" => Stays(at[d].thread)
    PROVE  Turns(c)
<1> DEFINE f == at[c].file
<1>1. Others(cache, cache', c, f) /\ Left(c, r, cache[c][f], cache'[c][f])
  BY HandleCache
<1>2. Asks(c)
  BY HandleAsks
<1>3. \A d \in Clients : Closing(d) => Closing(d)'
  BY DEF Closing
<1>4. made' \in [Clients -> Nat]
  BY DEF CallsInv
<1> HIDE DEF f
<1>5. \A d \in Clients \ {c}, g \in Files : cache'[d][g] = cache[d][g]
  BY <1>1 DEF Others
<1>6. \A g \in Files : cache'[c][g].dirty => cache'[c][g] = cache[c][g]
  <2>1. \A g \in Files : g # f => cache'[c][g] = cache[c][g]
    BY <1>1 DEF Others
  <2>2. cache'[c][f].dirty => cache'[c][f] = cache[c][f]
    BY <1>1 DEF Left
  <2> QED
    BY <2>1, <2>2
<1>7. \A d \in Clients : at'[d].stage = "wait" => at'[d] = at[d] /\ Stays(at[d].thread)
  BY <1>2 DEF Asks
<1> QED
  BY <1>2, <1>3, <1>4, <1>5, <1>6, <1>7 DEF Turns

LEMMA CaptureInit ==
    ASSUME ClientInit
    PROVE  CaptureInv
<1>1. /\ \A t \in Threads : pc[t] = "idle" /\ call[t] = NoCall
      /\ \A c \in Clients : at[c].step = "Create" /\ at[c].stage = "ready"
      /\ \A c \in Clients, f \in Files : cache[c][f].closed
      /\ made = [c \in Clients |-> 0]
  BY DEF ClientInit, ServiceInit, Resting, NotCached
<1>2. made \in [Clients -> Nat]
  BY <1>1
<1>3. CallsInv
  BY <1>1, <1>2, Nothing DEF CallsInv
<1>4. AnswersInv
  BY <1>1 DEF AnswersInv
<1>5. WritersInv
  BY <1>1 DEF WritersInv
<1> QED
  BY <1>3, <1>4, <1>5 DEF CaptureInv

LEMMA ApplicationCapture ==
    ASSUME Undisturbed, WritesThenCloses, TypeInv, OpsInv, IdsInv, CaptureInv,
           NEW c \in Clients, Application(c)
    PROVE  CaptureInv'
<1>0. CallsInv /\ WritersInv
  BY DEF CaptureInv
<1>1. UNCHANGED service_vars /\ deleted \subseteq deleted'
  BY ApplicationStep DEF TypeInv, Waits
<1>2. /\ Asks(c) /\ made' \in [Clients -> Nat]
      /\ \A d \in Clients : Closing(d) => Closing(d)'
  BY <1>0, ApplicationAsks
<1>3. PICK f \in Files :
         /\ Others(cache, cache', c, f)
         /\ \/ cache'[c][f] = cache[c][f]
            \/ cache'[c][f].closed /\ ~cache'[c][f].dirty
            \/ /\ ~Closing(c) /\ ~cache[c][f].closed /\ cache[c][f].mode = "WRITE"
               /\ cache'[c][f].fd = cache[c][f].fd
  BY <1>0, ApplicationAsks
<1>4. Quiet /\ UNCHANGED <<fds, primes>> /\ \A t : Stays(t)
  BY <1>1, UnchangedIsQuiet DEF service_vars, table_vars, store_vars, log_vars, thread_vars, Stays
<1>5. \A d \in Clients, g \in Files : d # c \/ g # f => cache'[d][g] = cache[d][g]
  BY <1>3 DEF Others
<1>6. ~Closing(c) /\ ~cache[c][f].closed /\ cache[c][f].mode = "WRITE"
         => Has(fds, c, f, "WRITE", cache[c][f].fd)
  BY <1>0 DEF WritersInv
<1>7. \A d \in Clients : at'[d].stage = "wait" => at'[d] = at[d]
  BY <1>2 DEF Asks
<1>8. Turns(c)
  BY <1>2, <1>3, <1>4, <1>5, <1>7 DEF Turns
<1>9. WritersInv'
  <2>1. \A d \in Clients, g \in Files :
              \/ cache'[d][g] = cache[d][g]
              \/ cache'[d][g].closed
              \/ Has(fds, d, g, "WRITE", cache'[d][g].fd)
    BY <1>3, <1>5, <1>6
  <2> QED
    BY <1>0, <1>1, <1>2, <1>4, <2>1, WritersRest
<1> QED
  BY <1>8, <1>9, TurnsCapture

LEMMA ReplyCapture ==
    ASSUME TypeInv, OpsInv, IdsInv, CaptureInv, NEW c \in Clients, NEW r \in Replies, Handle(c, r),
           at[c].stage = "wait", Quiet, UNCHANGED <<fds, primes, made, deleted>>,
           \A d \in Clients \ {c} : at[d].stage = "wait" => Stays(at[d].thread),
           r.status = "ok" => pc[at[c].thread] = "done" /\ r = reply[at[c].thread]
    PROVE  CaptureInv'
<1>0. CallsInv /\ AnswersInv /\ WritersInv /\ at[c].thread \in Threads
  BY Waiting DEF CaptureInv
<1>1. Turns(c)
  BY <1>0, HandleTurns
<1>2. r.status = "ok" /\ ~Closing(c) /\ at[c].step \in {"Open", "Reopen"} =>
          Has(fds, c, at[c].file, at[c].mode, r.fd)
  <2>1. call[at[c].thread].id = at[c].id
    BY <1>0 DEF CallsInv
  <2> QED
    BY <1>0, <2>1 DEF AnswersInv
<1>3. WritersInv'
  BY <1>0, <1>2, HandleWriters
<1> QED
  BY <1>1, <1>3, TurnsCapture

LEMMA CaptureStep ==
    ASSUME Undisturbed, WritesThenCloses, HandlerInv, NumbersInv, CaptureInv, [Next]_vars
    PROVE  CaptureInv'
<1>0. TypeInv /\ ObjectInv /\ OpsInv /\ IdsInv /\ CallsInv /\ AnswersInv /\ WritersInv
  BY DEF HandlerInv, NumbersInv, CaptureInv
<1>1. ASSUME Quiet, UNCHANGED <<at, cache, made, fds, primes, deleted>>,
             \A d \in Clients : at[d].stage = "wait" => Stays(at[d].thread)
      PROVE  CaptureInv'
  <2>1. PICK c \in Clients : TRUE
    BY ServiceAssumption
  <2>2. \A d \in Clients : Closing(d) => Closing(d)'
    BY <1>1 DEF Closing
  <2>3. made' \in [Clients -> Nat]
    BY <1>0, <1>1 DEF CallsInv
  <2>4. Turns(c)
    BY <1>1, <2>2, <2>3 DEF Turns
  <2>5. WritersInv'
    BY <1>0, <1>1, <2>2, WritersRest
  <2> QED
    BY <1>0, <2>4, <2>5, TurnsCapture
<1>2. CASE UNCHANGED vars
  <2>1. Quiet /\ UNCHANGED <<at, cache, made, fds, primes, deleted>> /\ \A t : Stays(t)
    BY <1>2, UnchangedIsQuiet DEF vars, client_vars, app_vars, service_vars, table_vars, store_vars, log_vars,
      thread_vars, Stays
  <2> QED
    BY <1>1, <2>1
<1>3. ASSUME NEW c \in Clients, Application(c) PROVE CaptureInv'
  BY <1>0, <1>3, ApplicationCapture
<1>4. ASSUME NEW c \in Clients, Send(c) PROVE CaptureInv'
  BY <1>0, <1>4, SendCapture
<1>5. ASSUME NEW c \in Clients, Receive(c) PROVE CaptureInv'
  <2> DEFINE t == at[c].thread
  <2>1. /\ Leave(t) /\ at[c].stage = "wait" /\ UNCHANGED <<made, deleted>>
        /\ Handle(c, reply[t]) /\ pc[t] = "done"
    BY <1>5 DEF Receive, Leave
  <2>2. t \in Threads /\ reply[t] \in Replies
    BY <1>0, <2>1, Waiting DEF TypeInv, ThreadTypes
  <2>3. /\ UNCHANGED <<fds, primes>> /\ Quiet
        /\ \A d \in Clients \ {c} : at[d].stage = "wait" => Stays(at[d].thread)
    BY <1>0, <2>1, <2>2, LeaveAlone
  <2> QED
    BY <1>0, <2>1, <2>2, <2>3, ReplyCapture
<1>6. ASSUME NEW c \in Clients, TimeOut(c) PROVE CaptureInv'
  <2>1. /\ UNCHANGED <<service_vars, made, deleted>> /\ at[c].stage = "wait"
        /\ Handle(c, Reply("unavailable"))
    BY <1>6 DEF TimeOut, app_vars
  <2>2. Reply("unavailable") \in Replies /\ Reply("unavailable").status # "ok"
    BY DEF Reply, Replies, Statuses
  <2>3. Quiet /\ UNCHANGED <<fds, primes>> /\ \A t : Stays(t)
    BY <2>1, UnchangedIsQuiet DEF service_vars, table_vars, store_vars, log_vars, thread_vars, Stays
  <2> QED
    BY <1>0, <2>1, <2>2, <2>3, ReplyCapture
<1>7. ASSUME NEW t \in Threads, ServerSteps(t) PROVE CaptureInv'
  BY <1>0, <1>7, CallsServe, AnswersServe, WritersServe DEF CaptureInv
<1>8. ASSUME NEW t \in Threads, Drop(t) PROVE CaptureInv'
  <2>1. Leave(t) /\ UNCHANGED <<at, cache, made, deleted>> /\ \A d \in Clients : at[d].thread # t
    BY <1>8 DEF Drop, client_vars, app_vars
  <2>2. UNCHANGED <<fds, primes>> /\ Quiet /\ \A u \in Threads \ {t} : Stays(u)
    BY <1>0, <2>1, LeaveAlone
  <2>3. \A d \in Clients : at[d].stage = "wait" => Stays(at[d].thread)
    BY <1>0, <2>1, <2>2, Waiting
  <2> QED
    BY <1>1, <2>1, <2>2, <2>3
<1>9. ~Restart
  BY <1>0 DEF Restart, OpsInv, Undisturbed
<1> QED
  BY <1>2, <1>3, <1>4, <1>5, <1>6, <1>7, <1>8, <1>9 DEF Next

LEMMA Captured ==
    ASSUME Undisturbed, WritesThenCloses
    PROVE  Spec => [](HandlerInv /\ NumbersInv /\ CaptureInv)
  BY HandlerInit, HandlerStep, NumbersInit, NumbersStep, CaptureInit, CaptureStep, PTL DEF Spec

\* A snapshot tells of a client that dies whether it had unsaved data: it is captured as a
\* writer of the file, or the server holds its data already.
THEOREM SnapshotTells ==
    ASSUME Undisturbed, WritesThenCloses
    PROVE  Spec => []UnsavedIsCaptured
<1>1. ASSUME HandlerInv, NumbersInv, CaptureInv PROVE UnsavedIsCaptured
  <2> SUFFICES ASSUME NEW c \in Clients, NEW f \in Files \ deleted,
                      cache[c][f].dirty, ~cache[c][f].closed
               PROVE  \/ CheckClientInSnapshot(OpenClients, c, f)
                      \/ cache[c][f].data \subseteq disk[f].nums
    BY DEF UnsavedIsCaptured
  <2>1. deleted = {} /\ primes[f] \subseteq disk[f].nums
    BY <1>1, SeenAndStored DEF Undisturbed, HandlerInv, TypeInv, ClientTypes
  <2>2. Has(fds, c, f, "WRITE", cache[c][f].fd) \/ cache[c][f].data \subseteq primes[f]
    BY <1>1, <2>1 DEF CaptureInv, WritersInv
  <2>3. ASSUME Has(fds, c, f, "WRITE", cache[c][f].fd)
        PROVE  CheckClientInSnapshot(OpenClients, c, f)
    <3> DEFINE n == cache[c][f].fd + 1
               o == [client |-> fds[n].client, file |-> fds[n].file, mode |-> fds[n].mode]
    <3>1. n \in DOMAIN fds /\ fds[n].registered
      BY <1>1, <2>3 DEF Has, HandlerInv, TypeInv, TableTypes
    <3>2. o \in OpenClients
      BY <3>1 DEF OpenClients
    <3>3. o.client = c /\ o.file = f /\ o.mode = "WRITE"
      BY <2>3 DEF Has
    <3> HIDE DEF o
    <3> QED
      BY <3>2, <3>3 DEF CheckClientInSnapshot
  <2> QED
    BY <2>1, <2>2, <2>3
<1> QED
  BY <1>1, Captured, PTL
===============================================================================
