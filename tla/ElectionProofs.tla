---------------------------- MODULE ElectionProofs ----------------------------
(***************************************************************************)
(* Theorems about Election, for every finite set of server ids and every   *)
(* number of faults (crashes, losses) and early timeouts.                  *)
(***************************************************************************)
EXTENDS Election, NumberLemmas, TLAPS

\* The lowest of a nonempty set of ids is in it and below the others.
LEMMA LowestIsLeast ==
    ASSUME NEW S \in SUBSET Ids, S # {}
    PROVE  Lowest(S) \in S /\ \A y \in S : Lowest(S) <= y
<1>1. \E x \in S : \A y \in S : x <= y
  BY IdsAssumption, LeastNat
<1> QED
  BY <1>1 DEF Lowest

\* An election in which some server is believed alive elects one of them, and none
\* above it.
LEMMA Elected ==
    ASSUME NEW flags \in [Ids -> BOOLEAN], NEW s \in Ids, flags[s]
    PROVE  /\ electPrimary(flags) \in Ids
           /\ flags[electPrimary(flags)]
           /\ electPrimary(flags) <= s
<1> DEFINE S == {t \in Ids : flags[t]}
<1>1. S \in SUBSET Ids /\ s \in S
  OBVIOUS
<1>2. Lowest(S) \in S /\ Lowest(S) <= s
  <2> HIDE DEF S
  <2> QED
    BY <1>1, LowestIsLeast
<1> QED
  BY <1>2 DEF electPrimary

\* The election of a server that starts.
LEMMA FirstElection ==
    /\ Configured \in [Ids -> BOOLEAN]
    /\ electPrimary(Configured) \in Ids
    /\ \A s \in Ids : Configured[s] /\ electPrimary(Configured) <= s
<1>1. Configured \in [Ids -> BOOLEAN] /\ \A s \in Ids : Configured[s]
  BY DEF Configured
<1>2. \A s \in Ids : electPrimary(Configured) \in Ids /\ electPrimary(Configured) <= s
  <2> HIDE DEF Configured
  <2> QED
    BY <1>1, Elected
<1> QED
  BY <1>1, <1>2, IdsAssumption

ElectionInv == TypeOK /\ FollowsNoHigher

LEMMA ElectionInit == Init => ElectionInv
<1>1. Lowest(Ids) \in Ids
  BY LowestIsLeast, IdsAssumption
<1> QED
  BY <1>1, FirstElection
  DEF Init, ElectionInv, TypeOK, FollowsNoHigher, FirstRole, Idle, Calls

\* A round of the monitor, the only step that can raise the leader of a server.
LEMMA MonitorStep ==
    ASSUME ElectionInv, NEW s \in Ids, MonitorPrimary(s)
    PROVE  /\ ElectionInv'
           /\ ~alive'[s][primaryID[s]]
           /\ \A t \in Ids \ {s} : primaryID'[t] = primaryID[t]
<1> DEFINE flags == Without(alive[s], primaryID[s])
           next  == electPrimary(flags)
<1>1. /\ alive' = [alive EXCEPT ![s] = flags]
      /\ primaryID' = [primaryID EXCEPT ![s] = next]
      /\ role' = [role EXCEPT ![s] = IF next = s THEN "Primary" ELSE "Backup"]
      /\ primaryID[s] # s
      /\ UNCHANGED <<up, fresh, round, call, net, faults, spurious>>
  BY DEF MonitorPrimary, beat, bounds
<1>2. /\ flags \in [Ids -> BOOLEAN] /\ flags[s] /\ ~flags[primaryID[s]]
      /\ primaryID[s] \in Ids
  BY <1>1 DEF Without, ElectionInv, TypeOK, FollowsNoHigher
<1>3. next \in Ids /\ next <= s
  <2> HIDE DEF flags
  <2> QED
    BY <1>2, Elected
<1> HIDE DEF flags, next
<1>4. TypeOK'
  BY <1>1, <1>2, <1>3 DEF ElectionInv, TypeOK
<1>5. FollowsNoHigher'
  BY <1>1, <1>2, <1>3 DEF ElectionInv, TypeOK, FollowsNoHigher
<1> QED
  BY <1>1, <1>2, <1>4, <1>5 DEF ElectionInv, TypeOK

LEMMA HeartbeatStep ==
    ASSUME ElectionInv, NEW from \in Ids, NEW s \in Ids, SendHeartbeat(from, s)
    PROVE  /\ ElectionInv'
           /\ \A t \in Ids : primaryID'[t] <= primaryID[t]
<1>1. /\ alive' = [alive EXCEPT ![s][from] = TRUE]
      /\ \/ primaryID' = primaryID
         \/ from <= primaryID[s] /\ primaryID' = [primaryID EXCEPT ![s] = from]
      /\ fresh' = fresh \/ fresh' = [fresh EXCEPT ![s] = TRUE]
      /\ net' \subseteq net
      /\ \/ call' = call
         \/ \E x \in {"accepted", "rejected"} : call' = [call EXCEPT ![from].state = x]
      /\ UNCHANGED <<up, role, round, faults, spurious>>
  BY DEF SendHeartbeat, bounds, Accepts
<1>2. /\ alive' \in [Ids -> [Ids -> BOOLEAN]]
      /\ \A t \in Ids : alive'[t][t]
  BY <1>1 DEF ElectionInv, TypeOK, FollowsNoHigher
<1>3. /\ primaryID' \in [Ids -> Ids]
      /\ \A t \in Ids : primaryID'[t] <= primaryID[t]
  <2>1. primaryID \in [Ids -> Ids] /\ \A x \in Ids : x <= x
    BY IdsAssumption DEF ElectionInv, TypeOK
  <2> QED
    BY <1>1, <2>1
<1>4. call' \in [Ids -> Calls]
  <2>1. call[from] \in Calls /\ call \in [Ids -> Calls]
    BY DEF ElectionInv, TypeOK
  <2>2. \A x \in {"accepted", "rejected"} : [call[from] EXCEPT !.state = x] \in Calls
    BY <2>1 DEF Calls
  <2> QED
    BY <1>1, <2>1, <2>2
<1>5. fresh' \in [Ids -> BOOLEAN]
  BY <1>1 DEF ElectionInv, TypeOK
<1>6. TypeOK'
  BY <1>1, <1>2, <1>3, <1>4, <1>5 DEF ElectionInv, TypeOK
<1>7. FollowsNoHigher'
  <2>1. \A t \in Ids : /\ primaryID[t] \in Nat /\ primaryID'[t] \in Nat /\ t \in Nat
                       /\ primaryID[t] <= t
    BY <1>3, IdsAssumption DEF ElectionInv, TypeOK, FollowsNoHigher
  <2> QED
    BY <1>2, <1>3, <2>1 DEF FollowsNoHigher
<1> QED
  BY <1>3, <1>6, <1>7 DEF ElectionInv

\* The steps that leave the leader of every running server alone.
LEMMA OtherSteps ==
    ASSUME ElectionInv, NEW s \in Ids,
           \/ StartHeartbeat(s) \/ Send(s) \/ SendFails(s) \/ Answered(s)
           \/ Expire(s) \/ Crash(s)
    PROVE  ElectionInv' /\ primaryID' = primaryID
<1> USE DEF ElectionInv
<1>1. primaryID' = primaryID /\ alive' = alive
  BY DEF StartHeartbeat, Send, SendFails, Answered, Expire, Crash, view
<1>2. FollowsNoHigher'
  BY <1>1 DEF FollowsNoHigher
<1>3. Idle \in Calls
  BY LowestIsLeast, IdsAssumption DEF Idle, Calls
<1>4. CASE StartHeartbeat(s)
  BY <1>1, <1>2, <1>4 DEF StartHeartbeat, TypeOK, view, bounds
<1>5. CASE Send(s)
  <2>1. PICK t \in round[s] : /\ round' = [round EXCEPT ![s] = @ \ {t}]
                              /\ call' = [call EXCEPT ![s] = [state |-> "waiting", peer |-> t]]
                              /\ net' = net \cup {<<s, t>>}
    BY <1>5 DEF Send
  <2>2. t \in Ids
    BY DEF TypeOK
  <2>3. call' \in [Ids -> Calls]
    BY <2>1, <2>2 DEF TypeOK, Calls
  <2>4. net' \subseteq Ids \X Ids /\ round' \in [Ids -> SUBSET Ids]
    BY <2>1, <2>2 DEF TypeOK
  <2> QED
    BY <1>1, <1>2, <1>5, <2>3, <2>4 DEF Send, TypeOK, view, bounds
<1>6. CASE SendFails(s)
  <2>1. faults' \in Nat /\ net' \subseteq Ids \X Ids /\ call' \in [Ids -> Calls]
    BY <1>3, <1>6 DEF SendFails, TypeOK
  <2> QED
    BY <1>1, <1>2, <1>6, <2>1 DEF SendFails, TypeOK, view
<1>7. CASE Answered(s)
  <2>1. role' \in [Ids -> {"Primary", "Backup"}] /\ call' \in [Ids -> Calls]
    BY <1>3, <1>7 DEF Answered, TypeOK
  <2> QED
    BY <1>1, <1>2, <1>7, <2>1 DEF Answered, TypeOK, bounds
<1>8. CASE Expire(s)
  BY <1>1, <1>2, <1>8 DEF Expire, TypeOK, beat
<1>9. CASE Crash(s)
  <2>1. net' \subseteq Ids \X Ids /\ call' \in [Ids -> Calls] /\ round' \in [Ids -> SUBSET Ids]
    BY <1>3, <1>9 DEF Crash, TypeOK
  <2> QED
    BY <1>1, <1>2, <1>9, <2>1 DEF Crash, TypeOK, view
<1> QED
  BY <1>1, <1>4, <1>5, <1>6, <1>7, <1>8, <1>9

LEMMA RestartStep ==
    ASSUME ElectionInv, NEW s \in Ids, Restart(s)
    PROVE  /\ ElectionInv'
           /\ ~up[s]
           /\ \A t \in Ids \ {s} : primaryID'[t] = primaryID[t]
<1>1. FirstRole(s) \in {"Primary", "Backup"}
  BY DEF FirstRole
<1> QED
  BY <1>1, FirstElection DEF Restart, ElectionInv, TypeOK, FollowsNoHigher, beat, bounds

\* The types and the bound on the leader hold in every reachable state.
THEOREM ElectionInvariant == Spec => []ElectionInv
<1>1. ElectionInv /\ [Next]_vars => ElectionInv'
  <2> SUFFICES ASSUME ElectionInv, [Next]_vars PROVE ElectionInv'
    OBVIOUS
  <2>1. CASE Next
    BY <2>1, MonitorStep, HeartbeatStep, OtherSteps, RestartStep DEF Next
  <2>2. CASE UNCHANGED vars
    BY <2>2 DEF vars, view, beat, bounds, ElectionInv, TypeOK, FollowsNoHigher
  <2> QED
    BY <2>1, <2>2
<1> QED
  BY <1>1, ElectionInit, PTL DEF Spec

\* The variables hold values of their types; in particular a leader is a server.
THEOREM Typing == Spec => []TypeOK
<1>1. ElectionInv => TypeOK
  BY DEF ElectionInv
<1> QED
  BY <1>1, ElectionInvariant, PTL

\* No server ever follows one with a higher id.
THEOREM NoHigherLeader == Spec => []FollowsNoHigher
<1>1. ElectionInv => FollowsNoHigher
  BY DEF ElectionInv
<1> QED
  BY <1>1, ElectionInvariant, PTL

\* A running server takes a leader with a higher id only from its monitor, after the
\* lower one was silent and is marked dead.
THEOREM RisesByTimeout == Spec => LeaderOnlyRisesByTimeout
<1> DEFINE Rises == \A s \in Ids : up[s] /\ up'[s] /\ primaryID'[s] > primaryID[s]
                                    => ~fresh[s] /\ ~alive'[s][primaryID[s]]
<1>1. ElectionInv /\ [Next]_vars => [Rises]_vars
  <2> SUFFICES ASSUME ElectionInv, Next, NEW t \in Ids, up[t], up'[t],
                      primaryID'[t] > primaryID[t]
               PROVE  ~fresh[t] /\ ~alive'[t][primaryID[t]]
    BY DEF vars
  <2>1. primaryID[t] \in Nat
    BY IdsAssumption DEF ElectionInv, TypeOK
  <2>2. primaryID'[t] # primaryID[t]
    BY <2>1
  <2>3. ASSUME NEW s \in Ids, MonitorPrimary(s)
        PROVE  ~fresh[t] /\ ~alive'[t][primaryID[t]]
    <3>1. s = t
      BY <2>2, <2>3, MonitorStep
    <3> QED
      BY <2>3, <3>1, MonitorStep DEF MonitorPrimary
  <2>4. ASSUME NEW s \in Ids, NEW from \in Ids, SendHeartbeat(from, s) PROVE FALSE
    <3>1. primaryID'[t] <= primaryID[t] /\ ElectionInv'
      BY <2>4, HeartbeatStep
    <3>2. primaryID'[t] \in Nat
      BY <3>1, IdsAssumption DEF ElectionInv, TypeOK
    <3> QED
      BY <2>1, <3>1, <3>2
  <2>5. ASSUME NEW s \in Ids, Restart(s) PROVE FALSE
    BY <2>2, <2>5, RestartStep
  <2> QED
    BY <2>2, <2>3, <2>4, <2>5, OtherSteps DEF Next
<1>2. Spec => [][Next]_vars
  BY PTL DEF Spec
<1> QED
  BY <1>1, <1>2, ElectionInvariant, PTL DEF LeaderOnlyRisesByTimeout
===============================================================================
