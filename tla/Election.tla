------------------------------- MODULE Election -------------------------------
(***************************************************************************)
(* How the servers choose the primary: StartHeartbeat, sendHeartbeat,      *)
(* SendHeartbeat, MonitorPrimary and electPrimary (server_replication.go)  *)
(* and the first election of StartServer (connection.go).                  *)
(*                                                                         *)
(* Clocks are abstracted to one bit, fresh: an accepted heartbeat is less  *)
(* than five seconds old.  It runs out when the server followed has        *)
(* stopped sending, and MaxSpurious times when it has not.                 *)
(***************************************************************************)
EXTENDS Integers, FiniteSets

CONSTANTS
    Ids,          \* the server ids; the code compares them as strings
    MaxFaults,    \* bound: crashes, and heartbeats given up on though the peer is up
    MaxSpurious   \* bound: timeouts although the leader is sending

ASSUME IdsAssumption == Ids \subseteq Nat /\ Ids # {} /\ IsFiniteSet(Ids)

ASSUME BoundsAssumption == MaxFaults \in Nat /\ MaxSpurious \in Nat

VARIABLES
    up,         \* [Ids -> BOOLEAN]
    role,       \* s.role
    primaryID,  \* s.primaryID
    alive,      \* the Alive flags of s.servers
    fresh,      \* time.Since(s.lastHeartbeat) <= PrimaryFailedTimeout
    round,      \* peers the heartbeat round of a server has yet to reach
    call,       \* the call it is in: none, waiting for a peer, answered
    net,        \* heartbeats sent and not processed, as <<from, to>>
    faults, spurious

view == <<role, primaryID, alive, fresh>>
beat == <<round, call, net>>
bounds == <<faults, spurious>>
vars == <<up, view, beat, bounds>>

Lowest(S) == CHOOSE x \in S : \A y \in S : x <= y

\* Mutated form: the highest id wins.
HighestAlive(flags) ==
    CHOOSE x \in {t \in Ids : flags[t]} : \A y \in {t \in Ids : flags[t]} : y <= x

\* Mutated form: the position of the lowest id, not the id.
FirstPosition(flags) == 0

\* The lowest id among the servers believed alive.
electPrimary(flags) == Lowest({t \in Ids : flags[t]})

Idle == [state |-> "none", peer |-> Lowest(Ids)]

Calls == [state : {"none", "waiting", "accepted", "rejected"}, peer : Ids]

\* StartServer elects from a configuration that lists every server alive.
Configured == [t \in Ids |-> TRUE]
FirstRole(s) == IF s = electPrimary(Configured) THEN "Primary" ELSE "Backup"

Init ==
    /\ up = [s \in Ids |-> TRUE]
    /\ role = [s \in Ids |-> FirstRole(s)]
    /\ primaryID = [s \in Ids |-> electPrimary(Configured)]
    /\ alive = [s \in Ids |-> Configured]
    /\ fresh = [s \in Ids |-> FALSE]
    /\ round = [s \in Ids |-> {}]
    /\ call = [s \in Ids |-> Idle]
    /\ net = {}
    /\ faults = 0 /\ spurious = 0

-------------------------------------------------------------------------------
(* The heartbeat loop of a server *)

\* Whether this server leads is read once, at the start of a round.
StartHeartbeat(s) ==
    /\ up[s]
    /\ round[s] = {}
    /\ call[s].state = "none"
    /\ primaryID[s] = s
    /\ round' = [round EXCEPT ![s] = Ids \ {s}]
    /\ UNCHANGED <<up, view, call, net, bounds>>

\* The peers are called one after the other, in any order.
Send(s) ==
    /\ up[s]
    /\ call[s].state = "none"
    /\ \E t \in round[s] :
          /\ round' = [round EXCEPT ![s] = @ \ {t}]
          /\ call' = [call EXCEPT ![s] = [state |-> "waiting", peer |-> t]]
          /\ net' = net \cup {<<s, t>>}
    /\ UNCHANGED <<up, view, bounds>>

\* sendHeartbeat returns an error: the peer is or went down, or the call took too
\* long (the peer may process it all the same, later).
SendFails(s) ==
    /\ up[s]
    /\ call[s].state = "waiting"
    /\ \/ /\ ~up[call[s].peer] \/ <<s, call[s].peer>> \notin net
          /\ net' = net \ {<<s, call[s].peer>>}
          /\ UNCHANGED faults
       \/ /\ up[call[s].peer] /\ <<s, call[s].peer>> \in net
          /\ faults < MaxFaults
          /\ faults' = faults + 1
          /\ UNCHANGED net
    /\ call' = [call EXCEPT ![s] = Idle]
    /\ UNCHANGED <<up, view, round, spurious>>

\* A follower accepts a heartbeat of its leader or of a server with a lower id.
\* Mutated form: whoever sends a heartbeat is followed.
AcceptsAny(s, from) == TRUE
Accepts(s, from) == from <= primaryID[s]

\* SendHeartbeat, the handler: the sender is alive in any case; an accepted
\* sender is followed.  The role is not touched.
SendHeartbeat(from, s) ==
    /\ <<from, s>> \in net
    /\ up[s]
    /\ net' = net \ {<<from, s>>}
    /\ alive' = [alive EXCEPT ![s][from] = TRUE]
    /\ \/ /\ Accepts(s, from)
          /\ primaryID' = [primaryID EXCEPT ![s] = from]
          /\ fresh' = [fresh EXCEPT ![s] = TRUE]
       \/ /\ ~Accepts(s, from)
          /\ UNCHANGED <<primaryID, fresh>>
    /\ \/ /\ call[from] = [state |-> "waiting", peer |-> s]
          /\ call' = [call EXCEPT ![from].state =
                        IF Accepts(s, from) THEN "accepted" ELSE "rejected"]
       \/ /\ call[from] # [state |-> "waiting", peer |-> s]
          /\ UNCHANGED call
    /\ UNCHANGED <<up, role, round, bounds>>

\* The answer: a leader that was rejected steps down, keeping its primaryID.
Answered(s) ==
    /\ up[s]
    /\ \/ /\ call[s].state = "accepted"
          /\ UNCHANGED role
       \/ /\ call[s].state = "rejected"
          /\ role' = [role EXCEPT ![s] = "Backup"]
    /\ call' = [call EXCEPT ![s] = Idle]
    /\ UNCHANGED <<up, primaryID, alive, fresh, round, net, bounds>>

-------------------------------------------------------------------------------
(* The monitor of a server *)

Sending(t) == up[t] /\ primaryID[t] = t

\* Five seconds without an accepted heartbeat.
Expire(s) ==
    /\ up[s]
    /\ fresh[s]
    /\ \/ /\ ~Sending(primaryID[s])
          /\ UNCHANGED spurious
       \/ /\ Sending(primaryID[s])
          /\ spurious < MaxSpurious
          /\ spurious' = spurious + 1
    /\ fresh' = [fresh EXCEPT ![s] = FALSE]
    /\ UNCHANGED <<up, role, primaryID, alive, beat, faults>>

\* Mutated form: the silent leader stays a candidate.
StillAlive(flags, old) == flags
\* The silent leader is out of the next election.
Without(flags, old) == [flags EXCEPT ![old] = FALSE]

\* The leader is silent: it is marked dead and a new one elected.  The age of
\* the last heartbeat stays, so the monitor may do it again to the new leader.
MonitorPrimary(s) ==
    /\ up[s]
    /\ primaryID[s] # s
    /\ ~fresh[s]
    /\ LET flags == Without(alive[s], primaryID[s])
           next  == electPrimary(flags)
       IN  /\ alive' = [alive EXCEPT ![s] = flags]
           /\ primaryID' = [primaryID EXCEPT ![s] = next]
           /\ role' = [role EXCEPT ![s] = IF next = s THEN "Primary" ELSE "Backup"]
    /\ UNCHANGED <<up, fresh, beat, bounds>>

-------------------------------------------------------------------------------
Crash(s) ==
    /\ up[s]
    /\ faults < MaxFaults
    /\ faults' = faults + 1
    /\ up' = [up EXCEPT ![s] = FALSE]
    /\ round' = [round EXCEPT ![s] = {}]
    /\ call' = [call EXCEPT ![s] = Idle]
    /\ net' = {m \in net : m[2] # s}
    /\ UNCHANGED <<view, spurious>>

\* A server that starts again knows nothing of what happened meanwhile.
Restart(s) ==
    /\ ~up[s]
    /\ up' = [up EXCEPT ![s] = TRUE]
    /\ role' = [role EXCEPT ![s] = FirstRole(s)]
    /\ primaryID' = [primaryID EXCEPT ![s] = electPrimary(Configured)]
    /\ alive' = [alive EXCEPT ![s] = Configured]
    /\ fresh' = [fresh EXCEPT ![s] = FALSE]
    /\ UNCHANGED <<beat, bounds>>

Next ==
    \/ \E s \in Ids : \/ StartHeartbeat(s) \/ Send(s) \/ SendFails(s) \/ Answered(s)
                      \/ Expire(s) \/ MonitorPrimary(s) \/ Crash(s) \/ Restart(s)
    \/ \E s, t \in Ids : SendHeartbeat(s, t)

Spec == Init /\ [][Next]_vars

\* The loops of a running server go on, a call to a peer ends, and a heartbeat
\* that is not lost is processed.  Nobody promises to restart a server.
Fairness ==
    /\ \A s \in Ids : /\ WF_vars(StartHeartbeat(s)) /\ WF_vars(Send(s))
                      /\ WF_vars(SendFails(s)) /\ WF_vars(Answered(s))
                      /\ WF_vars(Expire(s)) /\ WF_vars(MonitorPrimary(s))
    /\ \A s, t \in Ids : WF_vars(SendHeartbeat(s, t))

LiveSpec == Spec /\ Fairness

-------------------------------------------------------------------------------
(* Properties *)

TypeOK ==
    /\ up \in [Ids -> BOOLEAN]
    /\ role \in [Ids -> {"Primary", "Backup"}]
    /\ primaryID \in [Ids -> Ids]
    /\ alive \in [Ids -> [Ids -> BOOLEAN]]
    /\ fresh \in [Ids -> BOOLEAN]
    /\ round \in [Ids -> SUBSET Ids]
    /\ call \in [Ids -> Calls]
    /\ net \subseteq Ids \X Ids
    /\ faults \in Nat /\ spurious \in Nat

\* A server believes itself alive, so an election always has a candidate, and
\* follows no server with a higher id than its own: MonitorPrimary never elects
\* one and SendHeartbeat rejects one.
FollowsNoHigher == \A s \in Ids : alive[s][s] /\ primaryID[s] <= s

\* The leader a server follows only changes to a higher id when the monitor has
\* marked the old one dead; no heartbeat does it ("reject weaker leader").
LeaderOnlyRisesByTimeout ==
    [][\A s \in Ids : up[s] /\ up'[s] /\ primaryID'[s] > primaryID[s]
                        => ~fresh[s] /\ ~alive'[s][primaryID[s]]]_vars

UpIds == {s \in Ids : up[s]}

\* In the end the running servers follow the one of them with the lowest id.
LowestLeads ==
    <>[](UpIds # {} => \A s \in UpIds : primaryID[s] = Lowest(UpIds))

\* In the end some running server has the role Primary (README: backups "elect a
\* new leader (smallest-ID wins) and resume serving").
SomePrimary == <>[](UpIds # {} => \E s \in UpIds : role[s] = "Primary")
===============================================================================
