--------------------------- MODULE ReplicationProofs ---------------------------
(***************************************************************************)
(* Theorems about Replication, for every set of backups, files and         *)
(* requests.                                                               *)
(***************************************************************************)
EXTENDS Replication, NumberLemmas, FunctionTheorems, TLAPS

-------------------------------------------------------------------------------
(* Types *)

\* Applying part of a log to a disk gives a disk.
LEMMA ApplyType ==
    ASSUME NEW d \in [Files -> Contents], NEW l \in Seq(Entries),
           NEW from \in Nat, NEW to \in Nat, from >= 1, to <= Len(l) \/ to < from
    PROVE  Apply(d, l, from, to) \in [Files -> Contents]
<1>1. SUFFICES ASSUME NEW f \in Files
               PROVE  Apply(d, l, from, to)[f] \in Contents
  BY DEF Apply
<1> DEFINE P == {i \in from .. to : l[i].file = f}
           m == CHOOSE i \in P : \A j \in P : j <= i
<1>2. CASE P = {}
  BY <1>2 DEF Apply
<1>3. CASE P # {}
  <2>1. P \in SUBSET Nat /\ (\A i \in P : i <= to) /\ to <= Len(l)
    BY <1>3
  <2>2. \E i \in P : \A j \in P : j <= i
    BY <1>3, <2>1, GreatestNat
  <2>3. m \in P
    BY <2>2
  <2>4. Apply(d, l, from, to)[f] = Logged(l[m])
    BY <1>3 DEF Apply
  <2>5. l[m] \in Entries
    BY <2>1, <2>3
  <2> QED
    BY <2>4, <2>5 DEF Logged, Contents, Forms, Entries
<1> QED
  BY <1>2, <1>3

\* How far a log is applied is a number, beyond the log only if it was already.
LEMMA AppliedType ==
    ASSUME NEW l \in Seq(Entries), NEW applied \in Nat, NEW commit \in Nat
    PROVE  /\ AppliedUpTo(l, applied, commit) \in Nat
           /\ \/ AppliedUpTo(l, applied, commit) <= Len(l)
              \/ AppliedUpTo(l, applied, commit) < applied + 1
<1>1. Len(l) \in Nat
  OBVIOUS
<1> QED
  BY <1>1 DEF AppliedUpTo, Greater, Lesser

\* The greatest index of a log is a number.
LEMMA LastIndexType ==
    ASSUME NEW l \in Seq(Entries)
    PROVE  LastIndex(l) \in Nat
<1> DEFINE I == {l[i].idx : i \in DOMAIN l}
           x == CHOOSE y \in I : \A z \in I : z <= y
<1>1. CASE l = <<>>
  BY <1>1 DEF LastIndex
<1>2. CASE l # <<>>
  <2>1. I \in SUBSET Nat /\ I # {}
    <3>1. \A i \in DOMAIN l : l[i].idx \in Nat
      <4>1. \A i \in DOMAIN l : l[i] \in Entries
        OBVIOUS
      <4> QED
        BY <4>1 DEF Entries
    <3>2. l[1].idx \in I
      BY <1>2
    <3> QED
      BY <3>1, <3>2
  <2>2. IsFiniteSet(DOMAIN l)
    <3>1. DOMAIN l = 1 .. Len(l) /\ Len(l) \in Int
      OBVIOUS
    <3> QED
      BY <3>1, FS_Interval
  <2>3. IsFiniteSet(I)
    <3> DEFINE g == [i \in DOMAIN l |-> l[i].idx]
    <3>1. g \in Surjection(DOMAIN l, I)
      BY DEF Surjection
    <3> HIDE DEF g, I
    <3> QED
      BY <2>2, <3>1, FS_Surjection
  <2>4. \E y \in I : \A z \in I : z <= y
    <3> HIDE DEF I
    <3> QED
      BY <2>1, <2>3, GreatestOfFinite
  <2>5. x \in I
    BY <2>4
  <2> QED
    BY <1>2, <2>1, <2>5 DEF LastIndex
<1> QED
  BY <1>1, <1>2

\* Updating one log or one file keeps the types.
LEMMA LogUpdate ==
    ASSUME NEW logs \in [Servers -> Seq(Entries)], NEW s \in Servers, NEW e \in Entries
    PROVE  [logs EXCEPT ![s] = Append(@, e)] \in [Servers -> Seq(Entries)]
<1>1. Append(logs[s], e) \in Seq(Entries)
  OBVIOUS
<1> QED
  BY <1>1

LEMMA FileUpdate ==
    ASSUME NEW disks \in [Servers -> [Files -> Contents]], NEW s \in Servers,
           NEW f \in Files, NEW c \in Contents
    PROVE  [disks EXCEPT ![s][f] = c] \in [Servers -> [Files -> Contents]]
<1>1. [disks[s] EXCEPT ![f] = c] \in [Files -> Contents]
  OBVIOUS
<1> QED
  BY <1>1

LEMMA FormUpdate ==
    ASSUME NEW disks \in [Servers -> [Files -> Contents]], NEW s \in Servers,
           NEW f \in Files, NEW form \in Forms
    PROVE  [disks EXCEPT ![s][f].form = form] \in [Servers -> [Files -> Contents]]
<1>1. [disks[s][f] EXCEPT !.form = form] \in Contents
  BY DEF Contents
<1>2. [disks[s] EXCEPT ![f].form = form] \in [Files -> Contents]
  BY <1>1
<1> QED
  BY <1>2

\* Every variable keeps its type.
THEOREM Typing == Spec => []TypeOK
<1>1. Init => TypeOK
  BY ServersAssumption, ParametersAssumption
  DEF Init, TypeOK, Servers, NoRequest, Entries, Contents, Forms
<1>2. TypeOK /\ [Next]_vars => TypeOK'
  <2> SUFFICES ASSUME TypeOK, [Next]_vars PROVE TypeOK'
    OBVIOUS
  <2> USE ServersAssumption, ParametersAssumption
  <2>1. ASSUME NEW f \in Files, Create(f) PROVE TypeOK'
    <3>1. files' \in [Servers -> [Files -> Contents]]
      <4>1. files' = [files EXCEPT ![Leader][f].form = "empty"]
        BY <2>1 DEF Create
      <4>2. files \in [Servers -> [Files -> Contents]] /\ Leader \in Servers
        BY DEF TypeOK, Servers
      <4>3. [files EXCEPT ![Leader][f].form = "empty"] \in [Servers -> [Files -> Contents]]
        BY <4>2, FormUpdate DEF Forms
      <4> QED
        BY <4>1, <4>3
    <3> QED
      BY <2>1, <3>1 DEF Create, TypeOK, volatile, handler, recovery
  <2>2. ASSUME NEW f \in Files, Open(f) PROVE TypeOK'
    BY <2>2 DEF Open, TypeOK, disk, volatile, handler, recovery
  <2>3. ASSUME NEW f \in Files, Delete(f) PROVE TypeOK'
    <3>1. files' \in [Servers -> [Files -> Contents]]
      <4>1. \/ files' = files
            \/ files' = [files EXCEPT ![Leader][f] = [op |-> issued + 1, form |-> "absent"]]
        BY <2>3 DEF Delete
      <4>2. /\ files \in [Servers -> [Files -> Contents]] /\ Leader \in Servers
            /\ [op |-> issued + 1, form |-> "absent"] \in Contents
        BY DEF TypeOK, Servers, Contents, Forms
      <4>3. [files EXCEPT ![Leader][f] = [op |-> issued + 1, form |-> "absent"]]
              \in [Servers -> [Files -> Contents]]
        BY <4>2, FileUpdate
      <4> QED
        BY <4>1, <4>2, <4>3
    <3>2. issued' \in Nat /\ acked' \subseteq Entries \cup Removals
      BY <2>3 DEF Delete, TypeOK, Removals
    <3> QED
      BY <2>3, <3>1, <3>2 DEF Delete, TypeOK, volatile, handler, recovery
  <2>4. ASSUME NEW h \in Handlers, NEW f \in Files, NEW k \in Kinds, Begin(h, f, k)
        PROVE  TypeOK'
    <3>1. NextIndex(log[Leader]) \in Nat
      BY DEF NextIndex, TypeOK, Servers
    <3>2. req' \in [Handlers -> [entry : Entries, commit : Nat]] /\ issued' \in Nat
      BY <2>4, <3>1 DEF Begin, TypeOK, Entries
    <3>3. /\ pc' \in [Handlers -> {"idle", "append", "replicate", "wait", "announce", "answer"}]
          /\ acks' \in [Handlers -> SUBSET Followers]
      BY <2>4 DEF Begin, TypeOK
    <3> QED
      BY <2>4, <3>2, <3>3 DEF Begin, TypeOK, disk, volatile, recovery
  <2>5. ASSUME NEW h \in Handlers, AppendLocal(h) PROVE TypeOK'
    <3>1. req[h].entry \in Entries /\ Leader \in Servers
      BY DEF TypeOK, Servers
    <3>2. log' \in [Servers -> Seq(Entries)] /\ wal' \in [Servers -> Seq(Entries)]
      <4>1. /\ log' = [log EXCEPT ![Leader] = Append(@, req[h].entry)]
            /\ wal' = wal \/ wal' = [wal EXCEPT ![Leader] = Append(@, req[h].entry)]
        BY <2>5 DEF AppendLocal
      <4>2. /\ [log EXCEPT ![Leader] = Append(@, req[h].entry)] \in [Servers -> Seq(Entries)]
            /\ [wal EXCEPT ![Leader] = Append(@, req[h].entry)] \in [Servers -> Seq(Entries)]
        BY <3>1, LogUpdate DEF TypeOK
      <4> QED
        BY <4>1, <4>2 DEF TypeOK
    <3>3. pc' \in [Handlers -> {"idle", "append", "replicate", "wait", "announce", "answer"}]
      BY <2>5 DEF AppendLocal, TypeOK
    <3> QED
      BY <2>5, <3>2, <3>3 DEF AppendLocal, TypeOK, recovery
  <2>6. ASSUME NEW h \in Handlers, Replicate(h) PROVE TypeOK'
    <3>1. net' \subseteq Calls
      BY <2>6 DEF Replicate, TypeOK, Servers, Calls
    <3>2. req' \in [Handlers -> [entry : Entries, commit : Nat]]
      BY <2>6 DEF Replicate, TypeOK, Servers
    <3> QED
      BY <2>6, <3>1, <3>2 DEF Replicate, TypeOK, disk, volatile, recovery
  <2>7. ASSUME NEW h \in Handlers, Commit(h) PROVE TypeOK'
    <3> DEFINE la == AppliedUpTo(log[Leader], lastApplied[Leader], req[h].entry.idx)
    <3>1. /\ log[Leader] \in Seq(Entries) /\ lastApplied[Leader] \in Nat
          /\ req[h].entry.idx \in Nat /\ files[Leader] \in [Files -> Contents]
      BY DEF TypeOK, Servers, Entries
    <3>2. /\ la \in Nat
          /\ la <= Len(log[Leader]) \/ la < lastApplied[Leader] + 1
      BY <3>1, AppliedType
    <3>3. Apply(files[Leader], log[Leader], lastApplied[Leader] + 1, la)
            \in [Files -> Contents]
      <4> HIDE DEF la
      <4> QED
        BY <3>1, <3>2, ApplyType
    <3> QED
      BY <2>7, <3>1, <3>2, <3>3 DEF Commit, TypeOK, Servers, recovery
  <2>8. ASSUME NEW h \in Handlers, GiveUp(h) PROVE TypeOK'
    BY <2>8 DEF GiveUp, TypeOK, disk, volatile, recovery
  <2>9. ASSUME NEW h \in Handlers, Announce(h) PROVE TypeOK'
    <3>1. net' \subseteq Calls
      BY <2>9 DEF Announce, TypeOK, Servers, Calls
    <3> QED
      BY <2>9, <3>1 DEF Announce, TypeOK, disk, volatile, recovery
  <2>10. ASSUME NEW h \in Handlers, Answer(h) PROVE TypeOK'
    <3>1. req[h].entry \in Entries /\ req[h].entry.file \in Files
      BY DEF TypeOK, Entries
    <3>2. files' \in [Servers -> [Files -> Contents]]
      <4>1. \/ files' = files
            \/ files' = [files EXCEPT ![Leader][req[h].entry.file].form = "patched"]
        BY <2>10 DEF Answer
      <4>2. files \in [Servers -> [Files -> Contents]] /\ Leader \in Servers
        BY DEF TypeOK, Servers
      <4>3. [files EXCEPT ![Leader][req[h].entry.file].form = "patched"]
              \in [Servers -> [Files -> Contents]]
        BY <3>1, <4>2, FormUpdate DEF Forms
      <4> QED
        BY <4>1, <4>2, <4>3
    <3>3. /\ pc' \in [Handlers -> {"idle", "append", "replicate", "wait", "announce", "answer"}]
          /\ acked' \subseteq Entries \cup Removals
      BY <2>10, <3>1 DEF Answer, TypeOK
    <3> QED
      BY <2>10, <3>1, <3>2, <3>3 DEF Answer, TypeOK, volatile, recovery
  <2>11. ASSUME NEW m \in net, AppendEntries(m) PROVE TypeOK'
    <3> DEFINE s  == m.to
               ci == Greater(commitIndex[s], m.commit)
               la == AppliedUpTo(log'[s], lastApplied[s], ci)
    <3>1. /\ m.entry \in Entries /\ m.commit \in Nat /\ s \in Followers /\ s \in Servers
          /\ log[s] \in Seq(Entries) /\ wal[s] \in Seq(Entries)
          /\ commitIndex[s] \in Nat /\ lastApplied[s] \in Nat
          /\ files[s] \in [Files -> Contents]
      BY DEF TypeOK, Servers, Calls
    <3>2. /\ log' \in [Servers -> Seq(Entries)]
          /\ wal' \in [Servers -> Seq(Entries)]
      <4>1. /\ log' = log \/ log' = [log EXCEPT ![s] = Append(@, m.entry)]
            /\ wal' = wal \/ wal' = [wal EXCEPT ![s] = Append(@, m.entry)]
        BY <2>11 DEF AppendEntries
      <4>2. /\ [log EXCEPT ![s] = Append(@, m.entry)] \in [Servers -> Seq(Entries)]
            /\ [wal EXCEPT ![s] = Append(@, m.entry)] \in [Servers -> Seq(Entries)]
        BY <3>1, LogUpdate DEF TypeOK
      <4> QED
        BY <4>1, <4>2 DEF TypeOK
    <3>3. log'[s] \in Seq(Entries) /\ ci \in Nat
      BY <3>1, <3>2 DEF Greater
    <3>4. la \in Nat /\ (la <= Len(log'[s]) \/ la < lastApplied[s] + 1)
      <4> HIDE DEF ci
      <4> QED
        BY <3>1, <3>3, AppliedType
    <3>5. Apply(files[s], log'[s], lastApplied[s] + 1, la) \in [Files -> Contents]
      <4>1. lastApplied[s] + 1 \in Nat /\ lastApplied[s] + 1 >= 1
        BY <3>1
      <4> HIDE DEF la, ci
      <4> QED
        BY <3>1, <3>3, <3>4, <4>1, ApplyType
    <3>6. /\ commitIndex' = [commitIndex EXCEPT ![s] = ci]
          /\ lastApplied' = [lastApplied EXCEPT ![s] = la]
          /\ files' = [files EXCEPT ![s] = Apply(@, log'[s], lastApplied[s] + 1, la)]
      BY <2>11 DEF AppendEntries
    <3>7. acks' \in [Handlers -> SUBSET Followers]
      <4>1. \/ acks' = acks
            \/ \E h \in Handlers : acks' = [acks EXCEPT ![h] = @ \cup {s}]
        BY <2>11 DEF AppendEntries
      <4>2. acks \in [Handlers -> SUBSET Followers]
        BY DEF TypeOK
      <4> QED
        BY <3>1, <4>1, <4>2
    <3>8. net' \subseteq Calls
      BY <2>11 DEF AppendEntries, TypeOK
    <3>9. /\ commitIndex' \in [Servers -> Nat] /\ lastApplied' \in [Servers -> Nat]
          /\ files' \in [Servers -> [Files -> Contents]]
      <4> HIDE DEF la, ci
      <4> QED
        BY <3>1, <3>3, <3>4, <3>5, <3>6 DEF TypeOK
    <3> QED
      BY <2>11, <3>2, <3>7, <3>8, <3>9 DEF AppendEntries, TypeOK, recovery
  <2>12. ASSUME NEW s \in Followers, RequestRecovery(s) PROVE TypeOK'
    BY <2>12 DEF RequestRecovery, TypeOK, Servers, Copies, disk, volatile, handler
  <2>13. ASSUME NEW s \in Followers, RecoveryFails(s) PROVE TypeOK'
    BY <2>13 DEF RecoveryFails, TypeOK, disk, volatile, handler
  <2>14. ASSUME NEW s \in Followers, ApplyUpdate(s) PROVE TypeOK'
    <3>1. files' \in [Servers -> [Files -> Contents]] /\ owed' \in [Followers -> SUBSET Copies]
      <4>1. CASE UNCHANGED <<files, owed>>
        BY <4>1 DEF TypeOK
      <4>2. ASSUME NEW c \in owed[s], files' = [files EXCEPT ![s][c.file] = c.has],
                   owed' = [owed EXCEPT ![s] = @ \ {c}]
            PROVE  /\ files' \in [Servers -> [Files -> Contents]]
                   /\ owed' \in [Followers -> SUBSET Copies]
        <5>1. c.file \in Files /\ c.has \in Contents /\ s \in Servers
          BY DEF TypeOK, Copies, Servers
        <5> QED
          BY <4>2, <5>1 DEF TypeOK
      <4>3. CASE UNCHANGED files /\ owed' = [owed EXCEPT ![s] = {}]
        BY <4>3 DEF TypeOK
      <4> QED
        BY <2>14, <4>1, <4>2, <4>3 DEF ApplyUpdate
    <3>2. /\ log' \in [Servers -> Seq(Entries)]
          /\ commitIndex' \in [Servers -> Nat] /\ lastApplied' \in [Servers -> Nat]
      <4>1. /\ log' = log \/ log' = [log EXCEPT ![s] = <<>>]
            /\ commitIndex' = commitIndex \/ commitIndex' = [commitIndex EXCEPT ![s] = 0]
            /\ lastApplied' = lastApplied \/ lastApplied' = [lastApplied EXCEPT ![s] = 0]
        BY <2>14 DEF ApplyUpdate, volatile
      <4>2. [log EXCEPT ![s] = <<>>] \in [Servers -> Seq(Entries)]
        <5>1. <<>> \in Seq(Entries)
          OBVIOUS
        <5> QED
          BY <5>1 DEF TypeOK
      <4>3. log' \in [Servers -> Seq(Entries)]
        BY <4>1, <4>2 DEF TypeOK
      <4>4. commitIndex' \in [Servers -> Nat] /\ lastApplied' \in [Servers -> Nat]
        <5>1. commitIndex \in [Servers -> Nat] /\ lastApplied \in [Servers -> Nat]
          BY DEF TypeOK
        <5>2. \A g \in [Servers -> Nat] : [g EXCEPT ![s] = 0] \in [Servers -> Nat]
          OBVIOUS
        <5> QED
          BY <4>1, <5>1, <5>2
      <4> QED
        BY <4>3, <4>4
    <3>3. sync' \in [Followers -> {"due", "answered", "applying", "done"}]
      BY <2>14 DEF ApplyUpdate, TypeOK
    <3> QED
      BY <2>14, <3>1, <3>2, <3>3 DEF ApplyUpdate, TypeOK, handler
  <2>15. ASSUME NEW s \in Servers, Crash(s) PROVE TypeOK'
    <3>1. /\ log' \in [Servers -> Seq(Entries)] /\ up' \in [Servers -> BOOLEAN]
          /\ commitIndex' \in [Servers -> Nat] /\ lastApplied' \in [Servers -> Nat]
      <4>1. /\ log' = [log EXCEPT ![s] = <<>>] /\ up' = [up EXCEPT ![s] = FALSE]
            /\ commitIndex' = [commitIndex EXCEPT ![s] = 0]
            /\ lastApplied' = [lastApplied EXCEPT ![s] = 0]
        BY <2>15 DEF Crash
      <4> QED
        BY <4>1 DEF TypeOK
    <3>2. /\ pc' \in [Handlers -> {"idle", "append", "replicate", "wait", "announce", "answer"}]
          /\ opened' \subseteq Files /\ table' \subseteq Files
          /\ sync' \in [Followers -> {"due", "answered", "applying", "done"}]
          /\ owed' \in [Followers -> SUBSET Copies]
      <4>1. CASE /\ opened' = {} /\ table' = {} /\ pc' = [h \in Handlers |-> "idle"]
                 /\ UNCHANGED recovery
        BY <4>1 DEF TypeOK, recovery
      <4>2. CASE /\ s \in Followers /\ sync' = [sync EXCEPT ![s] = "due"]
                 /\ owed' = [owed EXCEPT ![s] = {}]
                 /\ UNCHANGED <<opened, table, pc>>
        BY <4>2 DEF TypeOK
      <4> QED
        BY <2>15, <4>1, <4>2 DEF Crash
    <3>3. crashes' \in Nat
      BY <2>15 DEF Crash, TypeOK
    <3>4. UNCHANGED <<wal, files, req, acks, net, issued, acked>>
      BY <2>15 DEF Crash, disk
    <3> QED
      BY <3>1, <3>2, <3>3, <3>4 DEF TypeOK
  <2>16. ASSUME NEW s \in Servers, Restart(s) PROVE TypeOK'
    <3>1. wal[s] \in Seq(Entries) /\ Len(wal[s]) \in Nat /\ files[s] \in [Files -> Contents]
      BY DEF TypeOK
    <3>2. Apply(files[s], wal[s], 1, Len(wal[s])) \in [Files -> Contents]
      BY <3>1, ApplyType
    <3>3. LastIndex(wal[s]) \in Nat
      BY <3>1, LastIndexType
    <3> QED
      BY <2>16, <3>1, <3>2, <3>3 DEF Restart, TypeOK, handler, recovery
  <2>17. CASE UNCHANGED vars
    BY <2>17 DEF vars, TypeOK, disk, volatile, handler, recovery
  <2> QED
    BY <2>1, <2>2, <2>3, <2>4, <2>5, <2>6, <2>7, <2>8, <2>9, <2>10, <2>11, <2>12,
       <2>13, <2>14, <2>15, <2>16, <2>17 DEF Next, Serve
<1> QED
  BY <1>1, <1>2, PTL DEF Spec

-------------------------------------------------------------------------------
(* Durability *)

\* A log on disk changes only at its end.
WalGrows == \A s \in Servers : \/ wal'[s] = wal[s]
                               \/ \E e \in Entries : wal'[s] = Append(wal[s], e)

\* What is on a disk stays there, at its place.
LEMMA Kept ==
    ASSUME TypeOK, WalGrows
    PROVE  /\ \A e : OnPrimary(e) => OnPrimary(e)'
           /\ \A e, s : s \in Servers /\ Holds(s, e) => Holds(s, e)'
           /\ \A e : OnMajority(e) => OnMajority(e)'
<1>1. ASSUME NEW s \in Servers
      PROVE  /\ Len(wal[s]) \in Nat /\ Len(wal[s]) <= Len(wal'[s]) /\ Len(wal'[s]) \in Nat
             /\ \A i \in 1 .. Len(wal[s]) : wal'[s][i] = wal[s][i]
  <2>1. wal[s] \in Seq(Entries)
    BY DEF TypeOK
  <2>2. CASE wal'[s] = wal[s]
    BY <2>1, <2>2
  <2>3. ASSUME NEW e \in Entries, wal'[s] = Append(wal[s], e)
        PROVE  /\ Len(wal[s]) \in Nat /\ Len(wal[s]) <= Len(wal'[s]) /\ Len(wal'[s]) \in Nat
               /\ \A i \in 1 .. Len(wal[s]) : wal'[s][i] = wal[s][i]
    BY <2>1, <2>3
  <2> QED
    BY <2>2, <2>3 DEF WalGrows
<1>2. \A e : OnPrimary(e) => OnPrimary(e)'
  <2>1. Leader \in Servers
    BY DEF Servers
  <2> QED
    BY <1>1, <2>1 DEF OnPrimary
<1>3. \A e, s : s \in Servers /\ Holds(s, e) => Holds(s, e)'
  <2> SUFFICES ASSUME NEW e, NEW s \in Servers, Holds(s, e) PROVE Holds(s, e)'
    OBVIOUS
  <2>1. PICK i \in 1 .. Len(wal[s]) : wal[s][i] = e
    BY DEF Holds
  <2>2. i \in 1 .. Len(wal'[s]) /\ wal'[s][i] = e
    BY <1>1, <2>1
  <2> QED
    BY <2>2 DEF Holds
<1>4. ASSUME NEW e, OnMajority(e) PROVE OnMajority(e)'
  <2>1. Holders(e) \subseteq Holders(e)' /\ Holders(e)' \subseteq Servers
    BY <1>3 DEF Holders, Servers
  <2>2. IsFiniteSet(Servers)
    BY ServersAssumption, FS_AddElement, FS_Singleton, FS_Union DEF Servers
  <2>3. IsFiniteSet(Holders(e)')
    BY <2>1, <2>2, FS_Subset
  <2>4. /\ Cardinality(Holders(e)) <= Cardinality(Holders(e)')
        /\ Cardinality(Holders(e)) \in Nat /\ Cardinality(Holders(e)') \in Nat
        /\ Cardinality(Servers) \in Nat
    BY <2>1, <2>2, <2>3, FS_Subset, FS_CardinalityType
  <2>5. 2 * Cardinality(Holders(e)) > Cardinality(Servers)
    BY <1>4 DEF OnMajority
  <2>6. 2 * Cardinality(Holders(e)') > Cardinality(Servers)
    BY <2>4, <2>5
  <2> QED
    BY <2>6 DEF OnMajority, Servers
<1> QED
  BY <1>2, <1>3, <1>4

\* The primary's copy and the acknowledged copies make a majority.
LEMMA MajorityReached ==
    ASSUME OneAtATime, NEW e, NEW A \in SUBSET Followers, NEW k,
           Cardinality(A) + 1 >= Majority(k),
           Holds(Leader, e), \A s \in A : Holds(s, e)
    PROVE  OnMajority(e)
<1>1. IsFiniteSet(Servers) /\ IsFiniteSet(A) /\ Leader \notin A
  BY ServersAssumption, FS_Subset, FS_Singleton, FS_Union DEF Servers
<1>2. IsFiniteSet(A \cup {Leader}) /\ Cardinality(A \cup {Leader}) = Cardinality(A) + 1
  BY <1>1, FS_AddElement
<1>3. A \cup {Leader} \subseteq Holders(e) /\ Holders(e) \subseteq Servers
  BY DEF Holders, Servers
<1>4. IsFiniteSet(Holders(e))
  BY <1>1, <1>3, FS_Subset
<1>5. /\ Cardinality(A \cup {Leader}) <= Cardinality(Holders(e))
      /\ Cardinality(A) \in Nat /\ Cardinality(Holders(e)) \in Nat
      /\ Cardinality(Servers) \in Nat
  BY <1>1, <1>2, <1>3, <1>4, FS_Subset, FS_CardinalityType
<1>6. Majority(k) = Cardinality(Servers) \div 2 + 1
  <2>1. Servers \ MarkedDead = Servers
    BY DEF OneAtATime
  <2> QED
    BY <2>1 DEF Majority
<1>7. Cardinality(Holders(e)) >= Cardinality(Servers) \div 2 + 1
  BY <1>2, <1>5, <1>6
<1>8. 2 * Cardinality(Holders(e)) > Cardinality(Servers)
  BY <1>5, <1>7
<1> QED
  BY <1>8 DEF OnMajority

\* Every step only grows the logs on disk.
LEMMA StepGrowsWal ==
    ASSUME TypeOK, [Next]_vars
    PROVE  WalGrows
<1>1. ASSUME NEW h \in Handlers, AppendLocal(h) PROVE WalGrows
  <2>1. req[h].entry \in Entries
    BY DEF TypeOK
  <2> QED
    BY <1>1, <2>1 DEF AppendLocal, WalGrows, TypeOK
<1>2. ASSUME NEW m \in net, AppendEntries(m) PROVE WalGrows
  <2>1. m.entry \in Entries
    BY DEF TypeOK, Calls
  <2>2. wal' = wal \/ wal' = [wal EXCEPT ![m.to] = Append(@, m.entry)]
    BY <1>2 DEF AppendEntries
  <2> QED
    BY <2>1, <2>2 DEF WalGrows, TypeOK
<1>3. CASE UNCHANGED wal
  BY <1>3 DEF WalGrows
<1> QED
  BY <1>1, <1>2, <1>3 DEF Next, vars, disk, Serve, Create, Open, Delete, Begin, Replicate,
     Commit, GiveUp, Announce, Answer, RequestRecovery, RecoveryFails, ApplyUpdate,
     Crash, Restart

\* A backup never answers an append of the latest entry without holding it: were its
\* log too long to take the entry, its last entry would be that one already.
LEMMA LatestIsHeld ==
    ASSUME TypeOK, BackupLogs, NEW s \in Followers, NEW e \in Entries, OnPrimary(e),
           e.idx = Len(wal[Leader]), Known(log[s], e)
    PROVE  Holds(s, e)
<1>1. log[s] \in Seq(Entries) /\ Len(log[s]) \in Nat
  BY DEF TypeOK, Servers
<1>2. e.idx >= 1 /\ e.idx <= Len(log[s]) /\ log[s] # <<>>
  BY <1>1 DEF OnPrimary, Known, Entries
<1> DEFINE x == log[s][Len(log[s])]
<1>3. x.idx >= Len(log[s]) /\ Holds(s, x)
  BY <1>1, <1>2 DEF BackupLogs
<1>4. OnPrimary(x)
  BY <1>3 DEF BackupLogs, Holds
<1>5. x.idx = e.idx
  BY <1>1, <1>2, <1>3, <1>4 DEF OnPrimary, Entries
<1>6. x = e
  BY <1>4, <1>5 DEF OnPrimary
<1> QED
  BY <1>3, <1>6

\* The four parts of the invariant, one step later.  Steps that touch neither the
\* logs nor the calls nor the requests:
LEMMA DurabilityStutter ==
    ASSUME DurabilityInv, TypeOK', UNCHANGED <<up, log, wal, net, pc, req, acks, acked>>
    PROVE  DurabilityInv'
<1>1. /\ \A e : OnPrimary(e)' <=> OnPrimary(e)
      /\ \A e, s : Holds(s, e)' <=> Holds(s, e)
      /\ \A e : OnMajority(e)' <=> OnMajority(e)
  BY DEF OnPrimary, Holds, OnMajority, Holders
<1>2. PrimaryLog'
  BY DEF DurabilityInv, PrimaryLog
<1>3. BackupLogs'
  BY <1>1 DEF DurabilityInv, BackupLogs
<1>4. RequestIsLast'
  BY <1>1 DEF DurabilityInv, RequestIsLast
<1>5. CommittedOnMajority'
  BY <1>1 DEF DurabilityInv, CommittedOnMajority
<1> QED
  BY <1>2, <1>3, <1>4, <1>5 DEF DurabilityInv

\* Steps of the request being served that leave the logs alone.
LEMMA DurabilityServe ==
    ASSUME OneAtATime, DurabilityInv, TypeOK', NEW h \in Handlers,
           \/ \E f \in Files, k \in Kinds : Begin(h, f, k)
           \/ Replicate(h) \/ Commit(h) \/ GiveUp(h) \/ Announce(h) \/ Answer(h)
    PROVE  DurabilityInv'
<1> USE DEF DurabilityInv
<1>0. \A g \in Handlers : g = h
  BY DEF OneAtATime
<1>1. UNCHANGED <<up, log, wal>>
  BY DEF Begin, Replicate, Commit, GiveUp, Announce, Answer, disk, volatile
<1>2. /\ \A e : OnPrimary(e)' <=> OnPrimary(e)
      /\ \A e, s : Holds(s, e)' <=> Holds(s, e)
      /\ \A e : OnMajority(e)' <=> OnMajority(e)
  BY <1>1 DEF OnPrimary, Holds, OnMajority, Holders
<1>3. PrimaryLog'
  BY <1>1 DEF PrimaryLog
<1>4. ASSUME \A m \in net' \ net : OnPrimary(m.entry) PROVE BackupLogs'
  BY <1>1, <1>2, <1>4 DEF BackupLogs
<1>5. ASSUME NEW f \in Files, NEW k \in Kinds, Begin(h, f, k) PROVE DurabilityInv'
  <2>1. RequestIsLast'
    BY <1>0, <1>1, <1>5 DEF Begin, RequestIsLast, NextIndex, TypeOK
  <2>2. net' = net /\ acked' = acked
    BY <1>5 DEF Begin
  <2> QED
    BY <1>2, <1>3, <1>4, <2>1, <2>2 DEF CommittedOnMajority
<1>6. CASE Replicate(h)
  <2>1. OnPrimary(req[h].entry)
    BY <1>6 DEF Replicate, RequestIsLast
  <2>2. BackupLogs'
    <3>1. \A m \in net' \ net : m.entry = req[h].entry
      BY <1>6 DEF Replicate
    <3> QED
      BY <1>4, <2>1, <3>1
  <2>3. req'[h].entry = req[h].entry
    BY <1>6 DEF Replicate, TypeOK
  <2>4. RequestIsLast'
    BY <1>0, <1>1, <1>2, <1>6, <2>3 DEF Replicate, RequestIsLast, TypeOK
  <2> QED
    BY <1>2, <1>3, <1>6, <2>2, <2>4 DEF CommittedOnMajority, Replicate
<1>7. CASE Commit(h)
  <2>1. OnMajority(req[h].entry)
    <3>1. /\ acks[h] \in SUBSET Followers /\ \A s \in acks[h] : Holds(s, req[h].entry)
          /\ OnPrimary(req[h].entry)
      BY <1>7 DEF Commit, RequestIsLast, TypeOK
    <3>2. Holds(Leader, req[h].entry)
      BY <3>1 DEF OnPrimary, Holds
    <3> QED
      BY <1>7, <3>1, <3>2, MajorityReached DEF Commit
  <2>2. RequestIsLast'
    BY <1>0, <1>1, <1>2, <1>7, <2>1 DEF Commit, RequestIsLast, TypeOK
  <2>3. net' = net /\ acked' = acked
    BY <1>7 DEF Commit
  <2> QED
    BY <1>2, <1>3, <1>4, <2>2, <2>3 DEF CommittedOnMajority
<1>8. CASE GiveUp(h)
  <2>1. RequestIsLast'
    BY <1>0, <1>1, <1>8 DEF GiveUp, RequestIsLast, TypeOK
  <2>2. net' = net /\ acked' = acked
    BY <1>8 DEF GiveUp
  <2> QED
    BY <1>2, <1>3, <1>4, <2>1, <2>2 DEF CommittedOnMajority
<1>9. CASE Announce(h)
  <2>1. OnPrimary(req[h].entry)
    BY <1>9 DEF Announce, RequestIsLast
  <2>2. BackupLogs'
    <3>1. \A m \in net' \ net : m.entry = req[h].entry
      BY <1>9 DEF Announce
    <3> QED
      BY <1>4, <2>1, <3>1
  <2>3. RequestIsLast'
    BY <1>0, <1>1, <1>2, <1>9 DEF Announce, RequestIsLast, TypeOK
  <2> QED
    BY <1>2, <1>3, <1>9, <2>2, <2>3 DEF CommittedOnMajority, Announce
<1>10. CASE Answer(h)
  <2>1. OnMajority(req[h].entry)
    BY <1>10 DEF Answer, RequestIsLast
  <2>2. RequestIsLast'
    BY <1>0, <1>1, <1>2, <1>10 DEF Answer, RequestIsLast, TypeOK
  <2>3. net' = net /\ acked' \in {acked, acked \cup {req[h].entry}}
    BY <1>10 DEF Answer
  <2>4. CommittedOnMajority'
    BY <1>2, <2>1, <2>3 DEF CommittedOnMajority
  <2> QED
    BY <1>3, <1>4, <2>2, <2>3, <2>4
<1> QED
  BY <1>5, <1>6, <1>7, <1>8, <1>9, <1>10

\* The primary appends the entry of its request.
LEMMA DurabilityAppendLocal ==
    ASSUME OneAtATime, DurabilityInv, TypeOK', WalGrows, NEW h \in Handlers, AppendLocal(h)
    PROVE  DurabilityInv'
<1> USE DEF DurabilityInv
<1> DEFINE e == req[h].entry
<1>1. /\ \A x : OnPrimary(x) => OnPrimary(x)'
      /\ \A x, s : s \in Servers /\ Holds(s, x) => Holds(s, x)'
      /\ \A x : OnMajority(x) => OnMajority(x)'
  BY Kept
<1>2. /\ log' = [log EXCEPT ![Leader] = Append(@, e)]
      /\ wal' = [wal EXCEPT ![Leader] = Append(@, e)]
      /\ pc' = [pc EXCEPT ![h] = "replicate"]
      /\ UNCHANGED <<up, req, acks, net, acked>>
  BY DEF AppendLocal, OneAtATime
<1>3. /\ up[Leader] /\ log[Leader] = wal[Leader] /\ wal[Leader] \in Seq(Entries)
      /\ e \in Entries /\ e.idx = Len(wal[Leader]) + 1 /\ Leader \in Servers
      /\ acks[h] = {}
  BY DEF AppendLocal, RequestIsLast, PrimaryLog, TypeOK, Servers
<1>4. /\ wal'[Leader] = Append(wal[Leader], e) /\ log'[Leader] = wal'[Leader]
      /\ Len(wal'[Leader]) = Len(wal[Leader]) + 1
  BY <1>2, <1>3 DEF TypeOK
<1>5. PrimaryLog'
  <2>1. \A i \in 1 .. Len(wal'[Leader]) : wal'[Leader][i].idx = i
    BY <1>3, <1>4 DEF PrimaryLog
  <2> QED
    BY <1>4, <2>1 DEF PrimaryLog
<1>6. OnPrimary(e)'
  <2>1. wal'[Leader][Len(wal[Leader]) + 1] = e
    BY <1>3, <1>4
  <2>2. e.idx \in 1 .. Len(wal'[Leader])
    BY <1>3, <1>4
  <2>3. e' = e
    BY <1>2
  <2> QED
    BY <1>3, <2>1, <2>2, <2>3 DEF OnPrimary
<1>7. BackupLogs'
  <2>1. ASSUME NEW s \in Followers
        PROVE  s \in Servers /\ wal'[s] = wal[s] /\ log'[s] = log[s]
    BY <1>2, ServersAssumption DEF TypeOK, Servers
  <2> QED
    BY <1>1, <1>2, <2>1 DEF BackupLogs
<1>8. RequestIsLast'
  <2>1. \A g \in Handlers : g = h
    BY DEF OneAtATime
  <2>2. pc'[h] = "replicate" /\ req'[h].entry = e /\ acks'[h] = {} /\ up'[Leader]
    BY <1>2, <1>3 DEF TypeOK
  <2>3. OnPrimary(req[h].entry)' /\ (req'[h].entry).idx = Len(wal'[Leader])
    BY <1>3, <1>4, <1>6, <1>2
  <2> QED
    BY <2>1, <2>2, <2>3 DEF RequestIsLast
<1>9. CommittedOnMajority'
  BY <1>1, <1>2 DEF CommittedOnMajority
<1> QED
  BY <1>5, <1>7, <1>8, <1>9

\* A backup processes an append.
LEMMA DurabilityAppendEntries ==
    ASSUME OneAtATime, DurabilityInv, TypeOK', WalGrows, NEW m \in net, AppendEntries(m)
    PROVE  DurabilityInv'
<1> USE DEF DurabilityInv
<1> DEFINE e == m.entry
           s == m.to
<1>1. /\ \A x : OnPrimary(x) => OnPrimary(x)'
      /\ \A x, t : t \in Servers /\ Holds(t, x) => Holds(t, x)'
      /\ \A x : OnMajority(x) => OnMajority(x)'
  BY Kept
<1>2. /\ e \in Entries /\ s \in Followers /\ s \in Servers /\ s # Leader
      /\ OnPrimary(e) /\ log[s] \in Seq(Entries) /\ wal[s] \in Seq(Entries)
  <2>1. e \in Entries /\ s \in Followers
    BY DEF TypeOK, Calls
  <2>2. s \in Servers /\ s # Leader
    BY <2>1, ServersAssumption DEF Servers
  <2>3. log[s] \in Seq(Entries) /\ wal[s] \in Seq(Entries)
    BY <2>2 DEF TypeOK
  <2>4. OnPrimary(e)
    BY DEF BackupLogs
  <2> QED
    BY <2>1, <2>2, <2>3, <2>4
<1>3. /\ \/ /\ ~Known(log[s], e)
            /\ log' = [log EXCEPT ![s] = Append(@, e)]
            /\ wal' = [wal EXCEPT ![s] = Append(@, e)]
         \/ /\ Known(log[s], e)
            /\ UNCHANGED <<log, wal>>
      /\ \/ acks' = acks
         \/ \E h \in Handlers : /\ pc[h] = "wait" /\ req[h].entry = e
                                /\ acks' = [acks EXCEPT ![h] = @ \cup {s}]
      /\ net' \subseteq net
      /\ UNCHANGED <<up, pc, req, acked>>
  BY DEF AppendEntries, OneAtATime
<1>4. wal'[Leader] = wal[Leader] /\ log'[Leader] = log[Leader]
  BY <1>2, <1>3 DEF TypeOK, Servers
<1>5. PrimaryLog'
  BY <1>3, <1>4 DEF PrimaryLog
<1>6. BackupLogs'
  <2>1. \A c \in net' : OnPrimary(c.entry)'
    BY <1>1, <1>3 DEF BackupLogs
  <2>2. ASSUME NEW t \in Followers, wal'[t] = wal[t], log'[t] = log[t]
        PROVE  /\ \A i \in 1 .. Len(wal'[t]) : OnPrimary(wal[t][i])'
               /\ \A i \in 1 .. Len(log'[t]) : Holds(t, log[t][i])'
               /\ log'[t] # <<>> => Len(log'[t]) <= log'[t][Len(log'[t])].idx
    <3>1. /\ \A i \in 1 .. Len(wal[t]) : OnPrimary(wal[t][i])
          /\ \A i \in 1 .. Len(log[t]) : Holds(t, log[t][i])
          /\ log[t] # <<>> => Len(log[t]) <= log[t][Len(log[t])].idx
          /\ t \in Servers
      BY DEF BackupLogs, Servers
    <3>2. \A i \in 1 .. Len(wal'[t]) : OnPrimary(wal[t][i])'
      BY <1>1, <2>2, <3>1
    <3>3. \A i \in 1 .. Len(log'[t]) : Holds(t, log[t][i])'
      BY <1>1, <2>2, <3>1
    <3> QED
      BY <2>2, <3>1, <3>2, <3>3
  <2>3. ASSUME ~Known(log[s], e), log' = [log EXCEPT ![s] = Append(@, e)],
               wal' = [wal EXCEPT ![s] = Append(@, e)]
        PROVE  /\ \A i \in 1 .. Len(wal'[s]) : OnPrimary(wal[s][i])'
               /\ \A i \in 1 .. Len(log'[s]) : Holds(s, log[s][i])'
               /\ log'[s] # <<>> => Len(log'[s]) <= log'[s][Len(log'[s])].idx
    <3>1. wal'[s] = Append(wal[s], e) /\ log'[s] = Append(log[s], e)
      BY <1>2, <2>3 DEF TypeOK
    <3>2. OnPrimary(e)'
      BY <1>1, <1>2
    <3>3. \A i \in 1 .. Len(wal'[s]) : OnPrimary(wal[s][i])'
      <4>1. \A i \in 1 .. Len(wal[s]) : OnPrimary(wal[s][i])
        BY <1>2 DEF BackupLogs
      <4>2. \A i \in 1 .. Len(wal'[s]) : (i \in 1 .. Len(wal[s]) /\ wal'[s][i] = wal[s][i])
                                         \/ wal'[s][i] = e
        BY <1>2, <3>1
      <4> QED
        BY <1>1, <3>2, <4>1, <4>2
    <3>4. \A i \in 1 .. Len(log'[s]) : Holds(s, log[s][i])'
      <4>1. \A i \in 1 .. Len(log[s]) : Holds(s, log[s][i])
        BY <1>2 DEF BackupLogs
      <4>2. \A i \in 1 .. Len(log'[s]) : (i \in 1 .. Len(log[s]) /\ log'[s][i] = log[s][i])
                                         \/ log'[s][i] = e
        BY <1>2, <3>1
      <4>3. Holds(s, e)'
        <5>1. Len(wal'[s]) \in 1 .. Len(wal'[s]) /\ wal'[s][Len(wal'[s])] = e
          BY <1>2, <3>1
        <5> QED
          BY <5>1 DEF Holds
      <4> QED
        BY <1>1, <1>2, <4>1, <4>2, <4>3
    <3>5. Len(log'[s]) <= log'[s][Len(log'[s])].idx
      <4>1. e.idx > Len(log[s])
        BY <1>2, <2>3 DEF Known, Entries
      <4> QED
        BY <1>2, <3>1, <4>1 DEF Entries
    <3> QED
      BY <3>3, <3>4, <3>5
  <2>4. ASSUME NEW t \in Followers
        PROVE  /\ \A i \in 1 .. Len(wal'[t]) : OnPrimary(wal[t][i])'
               /\ \A i \in 1 .. Len(log'[t]) : Holds(t, log[t][i])'
               /\ log'[t] # <<>> => Len(log'[t]) <= log'[t][Len(log'[t])].idx
    <3>1. t # s \/ UNCHANGED <<log, wal>> => wal'[t] = wal[t] /\ log'[t] = log[t]
      BY <1>3 DEF TypeOK, Servers
    <3> QED
      BY <1>3, <2>2, <2>3, <3>1
  <2> QED
    BY <1>3, <2>1, <2>4 DEF BackupLogs
<1>7. RequestIsLast'
  <2>1. ASSUME NEW h \in Handlers, pc[h] = "wait", req[h].entry = e
        PROVE  Holds(s, e)'
    <3>1. CASE Known(log[s], e)
      <4>1. e.idx = Len(wal[Leader])
        BY <2>1 DEF RequestIsLast
      <4>2. Holds(s, e)
        BY <1>2, <3>1, <4>1, LatestIsHeld
      <4> QED
        BY <1>1, <1>2, <4>2
    <3>2. CASE ~Known(log[s], e)
      <4>1. wal'[s] = Append(wal[s], e)
        BY <1>2, <1>3, <3>2 DEF TypeOK
      <4>2. Len(wal'[s]) \in 1 .. Len(wal'[s]) /\ wal'[s][Len(wal'[s])] = e
        BY <1>2, <4>1
      <4> QED
        BY <4>2 DEF Holds
    <3> QED
      BY <3>1, <3>2
  <2>2. ASSUME NEW h \in Handlers, pc[h] = "wait", NEW t \in acks'[h]
        PROVE  Holds(t, req[h].entry)'
    <3>1. t \in acks[h] \/ (t = s /\ req[h].entry = e)
      <4>1. acks \in [Handlers -> SUBSET Followers]
        BY DEF TypeOK
      <4> QED
        BY <1>3, <2>2, <4>1
    <3>2. CASE t \in acks[h]
      <4>1. Holds(t, req[h].entry) /\ t \in Servers
        BY <2>2, <3>2 DEF RequestIsLast, TypeOK, Servers
      <4>2. Holds(t, req[h].entry)'
        BY <1>1, <1>3, <4>1
      <4> QED
        BY <4>2
    <3> QED
      BY <1>3, <2>1, <2>2, <3>1, <3>2
  <2>3. ASSUME NEW h \in Handlers, pc[h] # "wait" PROVE acks'[h] = acks[h]
    BY <1>3, <2>3 DEF TypeOK
  <2>4. \A h \in Handlers : /\ OnPrimary(req[h].entry) => OnPrimary(req[h].entry)'
                            /\ OnMajority(req[h].entry) => OnMajority(req[h].entry)'
    BY <1>1, <1>3
  <2> QED
    BY <1>3, <1>4, <2>2, <2>3, <2>4 DEF RequestIsLast
<1>8. CommittedOnMajority'
  BY <1>1, <1>3 DEF CommittedOnMajority
<1> QED
  BY <1>5, <1>6, <1>7, <1>8

\* A full sync empties the log of a backup in memory.
LEMMA DurabilityApplyUpdate ==
    ASSUME DurabilityInv, TypeOK', NEW s \in Followers, ApplyUpdate(s)
    PROVE  DurabilityInv'
<1> USE DEF DurabilityInv
<1>1. /\ log' = log \/ log' = [log EXCEPT ![s] = <<>>]
      /\ UNCHANGED <<up, wal, net, pc, req, acks, acked>>
  BY DEF ApplyUpdate, handler, volatile
<1>2. /\ \A e : OnPrimary(e)' <=> OnPrimary(e)
      /\ \A e, t : Holds(t, e)' <=> Holds(t, e)
      /\ \A e : OnMajority(e)' <=> OnMajority(e)
  BY <1>1 DEF OnPrimary, Holds, OnMajority, Holders
<1>3. log'[Leader] = log[Leader] /\ \A t \in Followers : log'[t] = log[t] \/ log'[t] = <<>>
  BY <1>1, ServersAssumption DEF TypeOK, Servers
<1>4. PrimaryLog'
  BY <1>1, <1>3 DEF PrimaryLog
<1>5. BackupLogs'
  BY <1>1, <1>2, <1>3 DEF BackupLogs
<1>6. RequestIsLast'
  BY <1>1, <1>2, <1>3 DEF RequestIsLast
<1>7. CommittedOnMajority'
  BY <1>1, <1>2 DEF CommittedOnMajority
<1> QED
  BY <1>4, <1>5, <1>6, <1>7

\* The primary crashes, or starts again from its disk.
LEMMA DurabilityCrash ==
    ASSUME OneAtATime, DurabilityInv, TypeOK', Crash(Leader)
    PROVE  DurabilityInv'
<1> USE DEF DurabilityInv
<1>1. /\ up' = [up EXCEPT ![Leader] = FALSE] /\ log' = [log EXCEPT ![Leader] = <<>>]
      /\ pc' = [h \in Handlers |-> "idle"]
      /\ UNCHANGED <<wal, net, req, acks, acked>>
  BY ServersAssumption DEF Crash, disk
<1>2. /\ \A e : OnPrimary(e)' <=> OnPrimary(e)
      /\ \A e, t : Holds(t, e)' <=> Holds(t, e)
      /\ \A e : OnMajority(e)' <=> OnMajority(e)
  BY <1>1 DEF OnPrimary, Holds, OnMajority, Holders
<1>3. ~up'[Leader] /\ \A t \in Followers : log'[t] = log[t] /\ up'[t] = up[t]
  BY <1>1, ServersAssumption DEF TypeOK, Servers
<1>4. PrimaryLog'
  BY <1>1, <1>3 DEF PrimaryLog
<1>5. BackupLogs'
  BY <1>1, <1>2, <1>3 DEF BackupLogs
<1>6. RequestIsLast'
  BY <1>1 DEF RequestIsLast
<1>7. CommittedOnMajority'
  BY <1>1, <1>2 DEF CommittedOnMajority
<1> QED
  BY <1>4, <1>5, <1>6, <1>7

LEMMA DurabilityRestart ==
    ASSUME OneAtATime, DurabilityInv, TypeOK', Restart(Leader)
    PROVE  DurabilityInv'
<1> USE DEF DurabilityInv
<1>1. /\ log' = [log EXCEPT ![Leader] = wal[Leader]] /\ ~up[Leader]
      /\ up' = [up EXCEPT ![Leader] = TRUE]
      /\ UNCHANGED <<wal, net, pc, req, acks, acked>>
  BY DEF Restart, handler
<1>2. /\ \A e : OnPrimary(e)' <=> OnPrimary(e)
      /\ \A e, t : Holds(t, e)' <=> Holds(t, e)
      /\ \A e : OnMajority(e)' <=> OnMajority(e)
  BY <1>1 DEF OnPrimary, Holds, OnMajority, Holders
<1>3. /\ log'[Leader] = wal'[Leader]
      /\ \A t \in Followers : log'[t] = log[t] /\ up'[t] = up[t]
  BY <1>1, ServersAssumption DEF TypeOK, Servers
<1>4. PrimaryLog'
  BY <1>1, <1>3 DEF PrimaryLog
<1>5. BackupLogs'
  BY <1>1, <1>2, <1>3 DEF BackupLogs
<1>6. RequestIsLast'
  BY <1>1 DEF RequestIsLast
<1>7. CommittedOnMajority'
  BY <1>1, <1>2 DEF CommittedOnMajority
<1> QED
  BY <1>4, <1>5, <1>6, <1>7

\* The strengthened invariant holds in every reachable state.
THEOREM DurabilityInvariant ==
    ASSUME OneAtATime
    PROVE  Spec => []DurabilityInv
<1>1. Init /\ TypeOK => DurabilityInv
  BY DEF Init, DurabilityInv, PrimaryLog, BackupLogs, RequestIsLast, CommittedOnMajority, Servers
<1>2. DurabilityInv /\ TypeOK' /\ [Next]_vars => DurabilityInv'
  <2> SUFFICES ASSUME DurabilityInv, TypeOK', [Next]_vars PROVE DurabilityInv'
    OBVIOUS
  <2>1. TypeOK /\ WalGrows
    BY StepGrowsWal DEF DurabilityInv
  <2>2. ASSUME NEW f \in Files, Create(f) \/ Open(f) \/ Delete(f) PROVE DurabilityInv'
    BY <2>2, DurabilityStutter
    DEF OneAtATime, Create, Open, Delete, disk, volatile, handler, recovery
  <2>3. ASSUME NEW h \in Handlers, NEW f \in Files, NEW k \in Kinds, Begin(h, f, k)
        PROVE  DurabilityInv'
    BY <2>3, DurabilityServe
  <2>4. ASSUME NEW h \in Handlers, Serve(h) PROVE DurabilityInv'
    BY <2>1, <2>4, DurabilityServe, DurabilityAppendLocal DEF Serve
  <2>5. ASSUME NEW m \in net, AppendEntries(m) PROVE DurabilityInv'
    BY <2>1, <2>5, DurabilityAppendEntries
  <2>6. ASSUME NEW s \in Followers, RequestRecovery(s) \/ RecoveryFails(s)
        PROVE  DurabilityInv'
    BY <2>6, DurabilityStutter DEF RequestRecovery, RecoveryFails, disk, volatile, handler
  <2>7. ASSUME NEW s \in Followers, ApplyUpdate(s) PROVE DurabilityInv'
    BY <2>7, DurabilityApplyUpdate
  <2>8. ASSUME NEW s \in Servers, Crash(s) PROVE DurabilityInv'
    <3>1. s = Leader
      BY <2>8 DEF Crash, OneAtATime
    <3> QED
      BY <2>8, <3>1, DurabilityCrash
  <2>9. ASSUME NEW s \in Servers, Restart(s) PROVE DurabilityInv'
    <3>1. s = Leader
      BY <2>9 DEF Restart, DurabilityInv, BackupLogs, Servers
    <3> QED
      BY <2>9, <3>1, DurabilityRestart
  <2>10. CASE UNCHANGED vars
    BY <2>10, DurabilityStutter DEF vars, disk, volatile, handler
  <2> QED
    BY <2>2, <2>3, <2>4, <2>5, <2>6, <2>7, <2>8, <2>9, <2>10 DEF Next
<1> QED
  BY <1>1, <1>2, Typing, PTL DEF Spec

\* While the primary serves one request at a time and the backups do not restart,
\* every request answered with success is on the disk of a majority.
THEOREM Durability ==
    ASSUME OneAtATime
    PROVE  Spec => []CommittedOnMajority
<1>1. DurabilityInv => CommittedOnMajority
  BY DEF DurabilityInv
<1> QED
  BY <1>1, DurabilityInvariant, PTL

\* Under the same assumption an index names one entry in the whole cluster: every
\* entry of every log on disk is the one the primary's log has at that index.
THEOREM IndexUnique ==
    ASSUME OneAtATime
    PROVE  Spec => []IndexNamesEntry
<1>1. DurabilityInv => IndexNamesEntry
  <2> SUFFICES ASSUME DurabilityInv PROVE IndexNamesEntry
    OBVIOUS
  <2>1. \A s \in Servers : \A i \in DOMAIN wal[s] : OnPrimary(wal[s][i])
    <3>1. ASSUME NEW s \in Servers PROVE DOMAIN wal[s] = 1 .. Len(wal[s])
      BY DEF DurabilityInv, TypeOK
    <3>2. \A i \in DOMAIN wal[Leader] : OnPrimary(wal[Leader][i])
      BY <3>1 DEF DurabilityInv, PrimaryLog, OnPrimary, Servers
    <3> QED
      BY <3>1, <3>2 DEF DurabilityInv, BackupLogs, Servers
  <2> QED
    BY <2>1 DEF IndexNamesEntry, OnPrimary
<1> QED
  BY <1>1, DurabilityInvariant, PTL
===============================================================================
