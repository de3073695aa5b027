---------------------------- MODULE RefinementProofs ----------------------------
(***************************************************************************)
(* Replication implements DurableFiles, for every set of backups, files    *)
(* and requests, as long as the primary serves one request at a time       *)
(* (OneAtATime): what it answers is visible at the primary, and stays.     *)
(***************************************************************************)
EXTENDS ReplicationProofs

-------------------------------------------------------------------------------
(* Lemmas *)

\* c is what file f shows after a part of a log: what it showed, or its last entry.
ShowsLast(c, old, l, from, to, f) ==
    \/ (\A i \in from .. to : l[i].file # f) /\ c = old
    \/ \E m \in from .. to :
          /\ l[m].file = f /\ c.op = l[m].op
          /\ \A j \in from .. to : l[j].file = f => j <= m

\* Applying a part of a log does that.
LEMMA ApplyShows ==
    ASSUME NEW d, NEW l, NEW from \in Nat, NEW to \in Nat, NEW f \in Files
    PROVE  ShowsLast(Apply(d, l, from, to)[f], d[f], l, from, to, f)
<1> DEFINE P == {i \in from .. to : l[i].file = f}
           m == CHOOSE i \in P : \A j \in P : j <= i
<1>1. CASE P = {}
  BY <1>1 DEF Apply, ShowsLast
<1>2. CASE P # {}
  <2>1. P \in SUBSET Nat /\ \A i \in P : i <= to
    OBVIOUS
  <2>2. \E i \in P : \A j \in P : j <= i
    BY <1>2, <2>1, GreatestNat
  <2>3. m \in P /\ \A j \in P : j <= m
    BY <2>2
  <2>4. Apply(d, l, from, to)[f] = Logged(l[m])
    BY <1>2 DEF Apply
  <2> QED
    BY <2>3, <2>4 DEF Logged, ShowsLast
<1> QED
  BY <1>1, <1>2

\* The greatest index of a log whose positions are its indexes is its length.
LEMMA LastIndexIsLen ==
    ASSUME NEW l \in Seq(Entries), \A i \in 1 .. Len(l) : l[i].idx = i
    PROVE  LastIndex(l) = Len(l)
<1>1. Len(l) \in Nat /\ DOMAIN l = 1 .. Len(l)
  OBVIOUS
<1>2. CASE l = <<>>
  BY <1>2 DEF LastIndex
<1>3. CASE l # <<>>
  <2> DEFINE I == {l[i].idx : i \in DOMAIN l}
             last == CHOOSE x \in I : \A y \in I : y <= x
  <2>1. Len(l) >= 1
    BY <1>1, <1>3
  <2>2. I = 1 .. Len(l)
    BY <1>1
  <2>3. Len(l) \in I /\ \A y \in I : y \in Int /\ y <= Len(l)
    BY <1>1, <2>1, <2>2
  <2>4. \A x \in I : (\A y \in I : y <= x) => x = Len(l)
    <3> HIDE DEF I
    <3> QED
      BY <1>1, <2>3
  <2>5. last \in I /\ \A y \in I : y <= last
    <3> HIDE DEF I
    <3> QED
      BY <2>3
  <2>6. last = Len(l)
    BY <2>4, <2>5
  <2> QED
    BY <1>3, <2>6 DEF LastIndex
<1> QED
  BY <1>2, <1>3

\* Applying a part of the primary's log that begins with an entry it has not applied,
\* or with the first, shows no file at an earlier update, and every applied one.
LEMMA ApplyAdvances ==
    ASSUME DurabilityInv, VisibilityInv,
           NEW from \in Nat, NEW to \in Nat, from >= 1, to <= Len(wal[Leader]),
           up[Leader] => from = lastApplied[Leader] + 1,
           ~up[Leader] => from = 1 /\ to = Len(wal[Leader]),
           NEW f \in Files, NEW new,
           new = Apply(files[Leader], wal[Leader], from, to)[f].op
    PROVE  /\ Shown[f] <= new
           /\ \/ new = Shown[f] /\ ~\E i \in from .. to : wal[Leader][i].file = f
              \/ \E i \in from .. to : wal[Leader][i].file = f /\ wal[Leader][i].op = new
           /\ \A i \in from .. to : wal[Leader][i].file = f => wal[Leader][i].op <= new
<1> DEFINE L == wal[Leader]
<1>1. /\ Leader \in Servers /\ L \in Seq(Entries) /\ Len(L) \in Nat
      /\ Shown[f] = files[Leader][f].op /\ Shown[f] \in Nat
      /\ lastApplied[Leader] \in Nat
  BY DEF DurabilityInv, TypeOK, Servers, Shown, Contents
<1>2. \A i \in 1 .. Len(L) : L[i].op \in Nat
  <2>1. \A i \in 1 .. Len(L) : L[i] \in Entries
    BY <1>1
  <2> QED
    BY <2>1 DEF Entries
<1>3. CASE (\A i \in from .. to : L[i].file # f) /\ new = Shown[f]
  BY <1>1, <1>3
<1>4. ASSUME NEW m \in from .. to, L[m].file = f, new = L[m].op,
             \A j \in from .. to : L[j].file = f => j <= m
      PROVE  /\ Shown[f] <= new
             /\ \A i \in from .. to : L[i].file = f => L[i].op <= new
  <2>1. m \in 1 .. Len(L)
    BY <1>1
  <2>2. \A i \in 1 .. Len(L) : i <= m => L[i].op <= L[m].op
    BY <1>1, <1>2, <2>1 DEF VisibilityInv, LogInOrder
  <2>3. \A i \in from .. to : L[i].file = f => L[i].op <= new
    BY <1>1, <1>4, <2>2
  <2>4. Shown[f] <= new
    <3>1. CASE Shown[f] = 0
      BY <1>2, <1>4, <2>1, <3>1
    <3>2. ASSUME NEW i \in 1 .. Len(L), L[i].file = f, L[i].op = Shown[f],
                 up[Leader] => i <= lastApplied[Leader]
          PROVE  Shown[f] <= new
      <4>1. CASE up[Leader]
        BY <1>1, <1>4, <2>1, <2>2, <3>2, <4>1
      <4>2. CASE ~up[Leader]
        BY <1>1, <2>3, <3>2, <4>2
      <4> QED
        BY <4>1, <4>2
    <3> QED
      BY <3>1, <3>2 DEF VisibilityInv, ShownIsLogged
  <2> QED
    BY <2>3, <2>4
<1>5. \/ (\A i \in from .. to : L[i].file # f) /\ new = Shown[f]
      \/ \E m \in from .. to : /\ L[m].file = f /\ new = L[m].op
                               /\ \A j \in from .. to : L[j].file = f => j <= m
  <2>1. ShowsLast(Apply(files[Leader], L, from, to)[f], files[Leader][f], L, from, to, f)
    BY ApplyShows
  <2> QED
    BY <1>1, <2>1 DEF ShowsLast
<1> QED
  BY <1>3, <1>4, <1>5
-------------------------------------------------------------------------------
(* A step preserves VisibilityInv and is a step of DurableFiles *)

\* The state DurableFiles sees, in terms of this one.
LEMMA Seen ==
    ASSUME DurabilityInv, VisibilityInv
    PROVE  /\ Leader \in Servers
           /\ wal[Leader] \in Seq(Entries) /\ Len(wal[Leader]) \in Nat
           /\ \A i \in 1 .. Len(wal[Leader]) : wal[Leader][i] \in Entries
           /\ \A e : e \in Stored <=> Holds(Leader, e) /\ OnMajority(e)
           /\ \A e \in Stored : e \in Entries /\ e.op \in 1 .. issued
           /\ Shown \in [Files -> 0 .. issued]
           /\ issued \in Nat /\ lastApplied[Leader] \in Nat
<1>1. /\ Leader \in Servers /\ issued \in Nat /\ lastApplied[Leader] \in Nat
      /\ wal[Leader] \in Seq(Entries)
  BY DEF DurabilityInv, TypeOK, Servers
<1>2. Len(wal[Leader]) \in Nat /\ DOMAIN wal[Leader] = 1 .. Len(wal[Leader])
  BY <1>1
<1>3. \A i \in 1 .. Len(wal[Leader]) : wal[Leader][i] \in Entries
  BY <1>1, <1>2
<1>4. \A e : e \in Stored <=> Holds(Leader, e) /\ OnMajority(e)
  BY <1>2 DEF Stored, Holds
<1>5. \A e \in Stored : e \in Entries /\ e.op \in 1 .. issued
  BY <1>3, <1>4 DEF Holds, VisibilityInv, LogInOrder
<1>6. ASSUME NEW f \in Files PROVE Shown[f] \in 0 .. issued
  BY <1>1, <1>6 DEF VisibilityInv, ShownIsLogged, LogInOrder
<1>7. Shown \in [Files -> 0 .. issued]
  BY <1>6 DEF Shown
<1> QED
  BY <1>1, <1>2, <1>3, <1>4, <1>5, <1>7

\* A step that leaves the primary's log and files alone.
LEMMA VisibilityKept ==
    ASSUME VisibilityInv,
           wal'[Leader] = wal[Leader], up'[Leader] = up[Leader], Shown' = Shown,
           lastApplied'[Leader] = lastApplied[Leader], issued' = issued, acked' = acked,
           \A h \in Handlers : pc'[h] = "append"
                                  => pc[h] = "append" /\ req'[h].entry = req[h].entry,
           \A h \in Handlers : pc'[h] \in {"announce", "answer"}
                                  => pc[h] \in {"announce", "answer"}
    PROVE  VisibilityInv'
<1>1. LogInOrder'
  BY DEF VisibilityInv, LogInOrder
<1>2. ShownIsLogged'
  BY DEF VisibilityInv, ShownIsLogged
<1> QED
  BY <1>1, <1>2 DEF VisibilityInv

\* A step that may add to the logs, and leaves all else that is seen alone.
LEMMA StoreStep ==
    ASSUME DurabilityInv, DurabilityInv', VisibilityInv, VisibilityInv', WalGrows,
           issued' = issued, Shown' = Shown, acked' = acked
    PROVE  Durable!Store
<1>1. TypeOK
  BY DEF DurabilityInv
<1>2. /\ \A e : Holds(Leader, e) => Holds(Leader, e)'
      /\ \A e : OnMajority(e) => OnMajority(e)'
  BY <1>1, Kept, Seen
<1>3. \A e : e \in Stored <=> Holds(Leader, e) /\ OnMajority(e)
  BY Seen
<1>4. /\ \A e : e \in Stored' <=> Holds(Leader, e)' /\ OnMajority(e)'
      /\ \A e \in Stored' : e \in Entries /\ e.op \in 1 .. issued'
  <2>1. (DurabilityInv /\ VisibilityInv)' =>
           /\ (\A e : e \in Stored <=> Holds(Leader, e) /\ OnMajority(e))'
           /\ (\A e \in Stored : e \in Entries /\ e.op \in 1 .. issued)'
    BY Seen, PTL
  <2> QED
    BY <2>1
<1>5. Stored \subseteq Stored'
  BY <1>2, <1>3, <1>4
<1> QED
  BY <1>4, <1>5 DEF Durable!Store

\* What the primary applies when it applies all of its log: after a commit, and when
\* it starts again.
LEMMA ApplyAll ==
    ASSUME DurabilityInv, DurabilityInv', VisibilityInv,
           NEW from \in Nat, from >= 1,
           up[Leader] => from = lastApplied[Leader] + 1,
           ~up[Leader] => from = 1,
           wal' = wal, issued' = issued, acked' = acked, up'[Leader],
           lastApplied'[Leader] = Len(wal[Leader]),
           files'[Leader] = Apply(files[Leader], wal[Leader], from, Len(wal[Leader])),
           \A h \in Handlers : pc'[h] # "append"
    PROVE  VisibilityInv' /\ Durable!Show
<1> DEFINE L == wal[Leader]
<1>1. /\ L \in Seq(Entries) /\ Len(L) \in Nat /\ lastApplied[Leader] \in Nat
      /\ \A i \in 1 .. Len(L) : L[i] \in Entries
      /\ Shown \in [Files -> 0 .. issued] /\ issued \in Nat
  BY Seen
<1>2. \A i \in 1 .. Len(L) : L[i].file \in Files /\ L[i].op \in Nat
  BY <1>1 DEF Entries
<1>3. ASSUME NEW f \in Files
      PROVE  /\ Shown[f] <= Shown'[f] /\ Shown[f] \in Nat /\ Shown'[f] \in Nat
             /\ \/ Shown'[f] = Shown[f]
                \/ \E i \in from .. Len(L) : L[i].file = f /\ L[i].op = Shown'[f]
             /\ \A i \in from .. Len(L) : L[i].file = f => L[i].op <= Shown'[f]
  <2>1. Shown'[f] = Apply(files[Leader], L, from, Len(L))[f].op
    BY DEF Shown
  <2>2. /\ Shown[f] <= Shown'[f]
        /\ \/ Shown'[f] = Shown[f]
           \/ \E i \in from .. Len(L) : L[i].file = f /\ L[i].op = Shown'[f]
        /\ \A i \in from .. Len(L) : L[i].file = f => L[i].op <= Shown'[f]
    <3>1. Len(L) \in Nat /\ Len(L) <= Len(L)
      BY <1>1
    <3> HIDE DEF L
    <3> QED
      BY <2>1, <3>1, ApplyAdvances DEF L
  <2>3. Shown[f] \in Nat
    BY <1>1
  <2> QED
    BY <1>2, <2>2, <2>3
<1>4. LogInOrder'
  BY DEF VisibilityInv, LogInOrder
<1>5. ShownIsLogged'
  <2>1. lastApplied'[Leader] <= Len(wal'[Leader])
    BY <1>1
  <2>2. ASSUME NEW f \in Files
        PROVE  \/ Shown'[f] = 0
               \/ \E i \in 1 .. Len(wal'[Leader]) :
                     /\ wal'[Leader][i].file = f /\ wal'[Leader][i].op = Shown'[f]
                     /\ up'[Leader] => i <= lastApplied'[Leader]
    <3>1. CASE Shown'[f] = Shown[f]
      <4>1. \/ Shown[f] = 0
            \/ \E i \in 1 .. Len(L) : L[i].file = f /\ L[i].op = Shown[f]
        BY DEF VisibilityInv, ShownIsLogged
      <4> QED
        BY <1>1, <3>1, <4>1
    <3>2. CASE \E i \in from .. Len(L) : L[i].file = f /\ L[i].op = Shown'[f]
      BY <1>1, <3>2
    <3> QED
      BY <1>3, <3>1, <3>2
  <2>3. ASSUME NEW i \in 1 .. lastApplied'[Leader]
        PROVE  wal'[Leader][i].op <= Shown'[wal'[Leader][i].file]
    <3>1. i \in 1 .. Len(L)
      BY <1>1
    <3>2. CASE i >= from
      BY <1>1, <1>2, <1>3, <3>1, <3>2
    <3>3. CASE i < from
      <4>0. up[Leader] /\ i \in 1 .. lastApplied[Leader]
        BY <1>1, <3>1, <3>3
      <4>1. L[i].op <= Shown[L[i].file]
        BY <4>0 DEF VisibilityInv, ShownIsLogged
      <4>2. L[i].file \in Files /\ L[i].op \in Nat
        BY <1>2, <3>1
      <4>3. /\ Shown[L[i].file] <= Shown'[L[i].file]
            /\ Shown[L[i].file] \in Nat /\ Shown'[L[i].file] \in Nat
        BY <1>3, <4>2
      <4> QED
        BY <4>1, <4>2, <4>3
    <3> QED
      BY <1>1, <3>1, <3>2, <3>3
  <2> QED
    BY <2>1, <2>2, <2>3 DEF ShownIsLogged
<1>6. VisibilityInv'
  <2>1. ASSUME NEW e \in acked' PROVE Shown'[e.file] >= e.op
    <3>1. e.file \in Files /\ e.op \in Nat /\ Shown[e.file] >= e.op
      BY DEF DurabilityInv, TypeOK, VisibilityInv, Entries, Removals
    <3> QED
      BY <1>3, <3>1
  <2> QED
    BY <1>4, <1>5, <2>1 DEF VisibilityInv
<1>7. Durable!Show
  <2>1. Shown' \in [Files -> 0 .. issued']
    <3>1. (DurabilityInv /\ VisibilityInv)' => (Shown \in [Files -> 0 .. issued])'
      BY Seen, PTL
    <3> QED
      BY <1>6, <3>1
  <2>2. Stored' = Stored
    BY DEF Stored, OnMajority, Holders, Holds
  <2> QED
    BY <1>3, <2>1, <2>2 DEF Durable!Show
<1> QED
  BY <1>6, <1>7

\* A step that leaves the primary's log, files and requests alone stores, or does nothing.
LEMMA VisibilityAlone ==
    ASSUME DurabilityInv, DurabilityInv', VisibilityInv, WalGrows,
           wal'[Leader] = wal[Leader], up'[Leader] = up[Leader], Shown' = Shown,
           lastApplied'[Leader] = lastApplied[Leader],
           UNCHANGED <<pc, req, issued, acked>>
    PROVE  VisibilityInv' /\ Durable!Next
<1>1. VisibilityInv'
  BY VisibilityKept
<1> QED
  BY <1>1, StoreStep DEF Durable!Next

\* A request begins: DurableFiles sees a request.
LEMMA VisibilityBegin ==
    ASSUME OneAtATime, DurabilityInv, VisibilityInv,
           NEW h \in Handlers, NEW f \in Files, NEW k \in Kinds, Begin(h, f, k)
    PROVE  VisibilityInv' /\ Durable!Next
<1>1. /\ issued' = issued + 1 /\ UNCHANGED <<up, wal, files, lastApplied, acked>>
      /\ pc' = [pc EXCEPT ![h] = "append"]
      /\ req'[h].entry.op = issued + 1
      /\ \A g \in Handlers : g = h
  BY DEF Begin, disk, volatile, OneAtATime, DurabilityInv, TypeOK
<1>2. pc'[h] = "append" /\ issued \in Nat
  BY <1>1 DEF DurabilityInv, TypeOK
<1>3. LogInOrder'
  <2>1. \A i \in 1 .. Len(wal[Leader]) : wal[Leader][i].op \in 1 .. issued
    BY DEF VisibilityInv, LogInOrder
  <2> QED
    BY <1>1, <1>2, <2>1 DEF VisibilityInv, LogInOrder
<1>4. Shown' = Shown
  BY <1>1 DEF Shown
<1>5. ShownIsLogged'
  BY <1>1, <1>4 DEF VisibilityInv, ShownIsLogged
<1>6. VisibilityInv'
  BY <1>1, <1>2, <1>3, <1>4, <1>5 DEF VisibilityInv
<1>7. Durable!Request
  BY <1>1, <1>4 DEF Durable!Request, Stored, OnMajority, Holders, Holds
<1> QED
  BY <1>6, <1>7 DEF Durable!Next

\* Its entry joins the primary's log.
LEMMA VisibilityAppendLocal ==
    ASSUME OneAtATime, DurabilityInv, DurabilityInv', VisibilityInv, WalGrows,
           NEW h \in Handlers, AppendLocal(h)
    PROVE  VisibilityInv' /\ Durable!Next
<1> DEFINE L == wal[Leader]
           e == req[h].entry
<1>1. /\ wal' = [wal EXCEPT ![Leader] = Append(@, e)]
      /\ pc' = [pc EXCEPT ![h] = "replicate"] /\ pc[h] = "append"
      /\ UNCHANGED <<up, files, lastApplied, req, issued, acked>>
      /\ \A g \in Handlers : g = h
  BY DEF AppendLocal, OneAtATime
<1>2. /\ Leader \in Servers /\ L \in Seq(Entries) /\ Len(L) \in Nat /\ issued \in Nat
      /\ lastApplied[Leader] \in Nat /\ up[Leader]
      /\ \A i \in 1 .. Len(L) : L[i] \in Entries
  BY Seen DEF AppendLocal
<1>3. e \in Entries /\ pc'[h] = "replicate"
  BY <1>1 DEF DurabilityInv, TypeOK
<1>4. /\ wal'[Leader] = Append(L, e) /\ Len(wal'[Leader]) = Len(L) + 1
      /\ wal'[Leader][Len(L) + 1] = e
      /\ \A i \in 1 .. Len(L) : wal'[Leader][i] = L[i]
  <2>1. wal'[Leader] = Append(L, e)
    BY <1>1, <1>2 DEF DurabilityInv, TypeOK
  <2> QED
    BY <1>2, <1>3, <2>1
<1>5. LogInOrder'
  <2>1. /\ \A i \in 1 .. Len(L) : L[i].op < e.op /\ L[i].op \in 1 .. issued
        /\ e.op \in 1 .. issued
        /\ \A i, j \in 1 .. Len(L) : i < j => L[i].op < L[j].op
    BY <1>1 DEF VisibilityInv, LogInOrder
  <2>2. ASSUME NEW i \in 1 .. Len(L) + 1
        PROVE  \/ i \in 1 .. Len(L) /\ wal'[Leader][i] = L[i]
               \/ i = Len(L) + 1 /\ wal'[Leader][i] = e
    BY <1>2, <1>4
  <2>3. \A i, j \in 1 .. Len(L) + 1 : i < j => wal'[Leader][i].op < wal'[Leader][j].op
    <3>1. ASSUME NEW i \in 1 .. Len(L) + 1, NEW j \in 1 .. Len(L) + 1, i < j
          PROVE  wal'[Leader][i].op < wal'[Leader][j].op
      <4>1. i \in 1 .. Len(L) /\ wal'[Leader][i] = L[i]
        BY <1>2, <2>2, <3>1
      <4>2. CASE j \in 1 .. Len(L) /\ wal'[Leader][j] = L[j]
        BY <2>1, <3>1, <4>1, <4>2
      <4>3. CASE wal'[Leader][j] = e
        BY <2>1, <4>1, <4>3
      <4> QED
        BY <2>2, <4>2, <4>3
    <3> QED
      BY <3>1
  <2>4. \A i \in 1 .. Len(L) + 1 : wal'[Leader][i].op \in 1 .. issued
    BY <2>1, <2>2
  <2> QED
    BY <1>1, <1>3, <1>4, <2>3, <2>4 DEF LogInOrder
<1>6. Shown' = Shown
  BY <1>1 DEF Shown
<1>7. ShownIsLogged'
  <2>1. lastApplied[Leader] <= Len(L)
    BY <1>2 DEF VisibilityInv, ShownIsLogged
  <2>2. ASSUME NEW f \in Files
        PROVE  \/ Shown[f] = 0
               \/ \E i \in 1 .. Len(wal'[Leader]) :
                     /\ wal'[Leader][i].file = f /\ wal'[Leader][i].op = Shown[f]
                     /\ up[Leader] => i <= lastApplied[Leader]
    <3>1. \/ Shown[f] = 0
          \/ \E i \in 1 .. Len(L) :
                /\ L[i].file = f /\ L[i].op = Shown[f]
                /\ up[Leader] => i <= lastApplied[Leader]
      BY DEF VisibilityInv, ShownIsLogged
    <3>2. \A i \in 1 .. Len(L) : i \in 1 .. Len(wal'[Leader])
      BY <1>2, <1>4
    <3> QED
      BY <1>4, <3>1, <3>2
  <2>3. \A i \in 1 .. lastApplied[Leader] :
           wal'[Leader][i].op <= Shown[wal'[Leader][i].file]
    <3>1. \A i \in 1 .. lastApplied[Leader] :
             i \in 1 .. Len(L) /\ L[i].op <= Shown[L[i].file]
      BY <1>2, <2>1 DEF VisibilityInv, ShownIsLogged
    <3> QED
      BY <1>4, <3>1
  <2>4. lastApplied[Leader] <= Len(wal'[Leader])
    BY <1>2, <1>4, <2>1
  <2>5. up'[Leader] = up[Leader] /\ lastApplied'[Leader] = lastApplied[Leader]
    BY <1>1
  <2>6. \A f \in Files : Shown'[f] = Shown[f]
    BY <1>6
  <2>7. \A f \in Files :
           \/ Shown'[f] = 0
           \/ \E i \in 1 .. Len(wal'[Leader]) :
                 /\ wal'[Leader][i].file = f /\ wal'[Leader][i].op = Shown'[f]
                 /\ up'[Leader] => i <= lastApplied'[Leader]
    BY <2>2, <2>5, <2>6
  <2>8. \A i \in 1 .. lastApplied'[Leader] :
           wal'[Leader][i].op <= Shown'[wal'[Leader][i].file]
    BY <1>6, <2>3, <2>5
  <2> QED
    BY <2>4, <2>5, <2>7, <2>8 DEF ShownIsLogged
<1>8. VisibilityInv'
  BY <1>1, <1>3, <1>5, <1>6, <1>7 DEF VisibilityInv
<1>9. Durable!Store
  BY <1>1, <1>6, <1>8, StoreStep
<1> QED
  BY <1>8, <1>9 DEF Durable!Next

\* It is committed: the primary applies all of its log.
LEMMA VisibilityCommit ==
    ASSUME OneAtATime, DurabilityInv, DurabilityInv', VisibilityInv,
           NEW h \in Handlers, Commit(h)
    PROVE  VisibilityInv' /\ Durable!Next
<1> DEFINE n == Len(wal[Leader])
<1>1. /\ n \in Nat /\ lastApplied[Leader] \in Nat /\ Leader \in Servers
      /\ lastApplied[Leader] <= n /\ up[Leader] /\ log[Leader] = wal[Leader]
      /\ req[h].entry.idx = n
  BY Seen DEF Commit, VisibilityInv, ShownIsLogged, DurabilityInv, PrimaryLog, RequestIsLast
<1>2. AppliedUpTo(log[Leader], lastApplied[Leader], req[h].entry.idx) = n
  BY <1>1 DEF AppliedUpTo, Greater, Lesser
<1>3. /\ lastApplied' = [lastApplied EXCEPT ![Leader] = n]
      /\ files' = [files EXCEPT ![Leader] =
                     Apply(@, wal[Leader], lastApplied[Leader] + 1, n)]
      /\ pc' = [pc EXCEPT ![h] = "announce"]
      /\ UNCHANGED <<up, wal, issued, acked>>
  BY <1>1, <1>2 DEF Commit
<1>4. /\ lastApplied'[Leader] = n
      /\ files'[Leader] = Apply(files[Leader], wal[Leader], lastApplied[Leader] + 1, n)
      /\ pc'[h] = "announce"
  BY <1>1, <1>3 DEF DurabilityInv, TypeOK
<1>5. \A g \in Handlers : pc'[g] # "append"
  BY <1>4 DEF OneAtATime
<1>6. lastApplied[Leader] + 1 \in Nat /\ lastApplied[Leader] + 1 >= 1 /\ up'[Leader]
  BY <1>1, <1>3
<1>7. VisibilityInv' /\ Durable!Show
  BY <1>1, <1>3, <1>4, <1>5, <1>6, ApplyAll
<1> QED
  BY <1>7 DEF Durable!Next

\* It is sent, given up or announced: nothing is seen of that.
LEMMA VisibilityOnTheWay ==
    ASSUME OneAtATime, DurabilityInv, DurabilityInv', VisibilityInv, WalGrows,
           NEW h \in Handlers, Replicate(h) \/ GiveUp(h) \/ Announce(h)
    PROVE  VisibilityInv' /\ Durable!Next
<1>1. /\ UNCHANGED <<up, wal, files, lastApplied, issued, acked>>
      /\ \/ pc' = [pc EXCEPT ![h] = "wait"]
         \/ pc' = [pc EXCEPT ![h] = "idle"]
         \/ pc' = [pc EXCEPT ![h] = "answer"] /\ pc[h] = "announce"
      /\ \A g \in Handlers : g = h
  BY DEF Replicate, GiveUp, Announce, disk, volatile, OneAtATime
<1>2. /\ pc'[h] # "append"
      /\ pc'[h] \in {"announce", "answer"} => pc[h] \in {"announce", "answer"}
  BY <1>1 DEF DurabilityInv, TypeOK
<1>3. Shown' = Shown
  BY <1>1 DEF Shown
<1>4. VisibilityInv'
  BY <1>1, <1>2, <1>3, VisibilityKept
<1> QED
  BY <1>1, <1>3, <1>4, StoreStep DEF Durable!Next

\* The form of a file does not tell which update it shows.
LEMMA FormShown ==
    ASSUME NEW disks \in [Servers -> [Files -> Contents]], NEW s \in Servers,
           NEW f \in Files, NEW form \in Forms, NEW g \in Files
    PROVE  [disks EXCEPT ![s][f].form = form][s][g].op = disks[s][g].op
<1>1. [disks[s][f] EXCEPT !.form = form].op = disks[s][f].op
  BY DEF Contents
<1>2. [disks[s] EXCEPT ![f].form = form][g].op = disks[s][g].op
  BY <1>1
<1> QED
  BY <1>2

\* It is answered: what is reported is durable and visible.
LEMMA VisibilityAnswer ==
    ASSUME OneAtATime, DurabilityInv, VisibilityInv, NEW h \in Handlers, Answer(h)
    PROVE  VisibilityInv' /\ Durable!Next
<1> DEFINE e == req[h].entry
<1>1. /\ pc[h] = "answer" /\ pc' = [pc EXCEPT ![h] = "idle"]
      /\ acked' = acked \cup {e} /\ up[Leader]
      /\ files' = files \/ files' = [files EXCEPT ![Leader][e.file].form = "patched"]
      /\ UNCHANGED <<up, wal, lastApplied, req, issued>>
      /\ \A g \in Handlers : g = h
  BY DEF Answer, volatile, OneAtATime
<1>2. pc'[h] = "idle" /\ e.file \in Files /\ e \in Entries /\ Leader \in Servers
  BY <1>1 DEF DurabilityInv, TypeOK, Entries, Servers
<1>3. Shown' = Shown
  <2>1. ASSUME NEW g \in Files PROVE files'[Leader][g].op = files[Leader][g].op
    <3>1. "patched" \in Forms /\ files \in [Servers -> [Files -> Contents]]
      BY DEF DurabilityInv, TypeOK, Forms
    <3>2. [files EXCEPT ![Leader][e.file].form = "patched"][Leader][g].op = files[Leader][g].op
      BY <1>2, <3>1, FormShown
    <3> QED
      BY <1>1, <3>2
  <2> QED
    BY <2>1 DEF Shown
<1>4. OnPrimary(e) /\ OnMajority(e) /\ e.idx = Len(wal[Leader])
  BY <1>1 DEF DurabilityInv, RequestIsLast
<1>5. Shown[e.file] >= e.op
  <2>1. lastApplied[Leader] = Len(wal[Leader]) /\ e.idx \in 1 .. lastApplied[Leader]
    BY <1>1, <1>4 DEF VisibilityInv, OnPrimary
  <2>2. wal[Leader][e.idx] = e /\ e.op <= Shown[e.file]
    BY <1>1, <1>4, <2>1 DEF VisibilityInv, ShownIsLogged, OnPrimary
  <2>3. e.op \in Nat /\ Shown[e.file] \in Nat
    BY <1>2, Seen DEF Entries
  <2> QED
    BY <2>2, <2>3
<1>6. VisibilityInv'
  <2>1. LogInOrder'
    BY <1>1, <1>2 DEF VisibilityInv, LogInOrder
  <2>2. ShownIsLogged'
    BY <1>1, <1>3 DEF VisibilityInv, ShownIsLogged
  <2>3. \A x \in acked' : Shown'[x.file] >= x.op
    BY <1>1, <1>3, <1>5 DEF VisibilityInv
  <2> QED
    BY <1>1, <1>2, <2>1, <2>2, <2>3 DEF VisibilityInv
<1>7. Durable!Reply
  <2>1. e \in Stored
    BY <1>4, Seen DEF OnPrimary, Holds
  <2>2. Stored' = Stored
    BY <1>1 DEF Stored, OnMajority, Holders, Holds
  <2> QED
    BY <1>1, <1>3, <1>5, <2>1, <2>2 DEF Durable!Reply
<1> QED
  BY <1>6, <1>7 DEF Durable!Next

\* The primary crashes: what its disk shows stays.
LEMMA VisibilityCrash ==
    ASSUME DurabilityInv, DurabilityInv', VisibilityInv, WalGrows, Crash(Leader)
    PROVE  VisibilityInv' /\ Durable!Next
<1>1. /\ up' = [up EXCEPT ![Leader] = FALSE] /\ pc' = [h \in Handlers |-> "idle"]
      /\ UNCHANGED <<wal, files, issued, acked>>
  BY ServersAssumption DEF Crash, disk
<1>2. ~up'[Leader]
  BY <1>1 DEF DurabilityInv, TypeOK, Servers
<1>3. Shown' = Shown
  BY <1>1 DEF Shown
<1>4. LogInOrder'
  BY <1>1 DEF VisibilityInv, LogInOrder
<1>5. ShownIsLogged'
  BY <1>1, <1>2, <1>3 DEF VisibilityInv, ShownIsLogged
<1>6. VisibilityInv'
  BY <1>1, <1>3, <1>4, <1>5 DEF VisibilityInv
<1> QED
  BY <1>1, <1>3, <1>6, StoreStep DEF Durable!Next

\* It starts again: it applies all of its log, committed or not.
LEMMA VisibilityRestart ==
    ASSUME DurabilityInv, DurabilityInv', VisibilityInv, Restart(Leader)
    PROVE  VisibilityInv' /\ Durable!Next
<1> DEFINE n == Len(wal[Leader])
<1>1. /\ ~up[Leader] /\ up' = [up EXCEPT ![Leader] = TRUE]
      /\ lastApplied' = [lastApplied EXCEPT ![Leader] = LastIndex(wal[Leader])]
      /\ files' = [files EXCEPT ![Leader] = Apply(@, wal[Leader], 1, n)]
      /\ UNCHANGED <<wal, pc, issued, acked>>
  BY DEF Restart, handler
<1>2. LastIndex(wal[Leader]) = n /\ Leader \in Servers
  BY Seen, LastIndexIsLen DEF DurabilityInv, PrimaryLog
<1>3. /\ up'[Leader] /\ lastApplied'[Leader] = n
      /\ files'[Leader] = Apply(files[Leader], wal[Leader], 1, n)
  BY <1>1, <1>2 DEF DurabilityInv, TypeOK
<1>4. \A h \in Handlers : pc'[h] # "append"
  BY <1>1 DEF DurabilityInv, RequestIsLast
<1>5. VisibilityInv' /\ Durable!Show
  BY <1>1, <1>3, <1>4, ApplyAll
<1> QED
  BY <1>5 DEF Durable!Next

\* A step of Replication preserves VisibilityInv and is a step of DurableFiles.
LEMMA VisibilityStep ==
    ASSUME OneAtATime, DurabilityInv, DurabilityInv', VisibilityInv, [Next]_vars
    PROVE  VisibilityInv' /\ Durable!Next
<1>1. TypeOK /\ WalGrows /\ Leader \in Servers /\ Leader \notin Followers
  BY StepGrowsWal, ServersAssumption DEF DurabilityInv, Servers
<1>2. ASSUME NEW f \in Files, Create(f) \/ Open(f) \/ Delete(f)
      PROVE  VisibilityInv' /\ Durable!Next
  <2>1. /\ files' = files \/ files' = [files EXCEPT ![Leader][f].form = "empty"]
        /\ UNCHANGED <<up, wal, lastApplied, pc, req, issued, acked>>
    BY <1>2 DEF Create, Open, Delete, OneAtATime, disk, volatile, handler
  <2>2. Shown' = Shown
    <3>1. ASSUME NEW g \in Files PROVE files'[Leader][g].op = files[Leader][g].op
      <4>1. "empty" \in Forms /\ files \in [Servers -> [Files -> Contents]]
        BY <1>1 DEF TypeOK, Forms
      <4>2. [files EXCEPT ![Leader][f].form = "empty"][Leader][g].op = files[Leader][g].op
        BY <1>1, <4>1, FormShown
      <4> QED
        BY <2>1, <4>2
    <3> QED
      BY <3>1 DEF Shown
  <2> QED
    BY <1>1, <2>1, <2>2, VisibilityAlone
<1>3. ASSUME NEW h \in Handlers, NEW f \in Files, NEW k \in Kinds, Begin(h, f, k)
      PROVE  VisibilityInv' /\ Durable!Next
  BY <1>3, VisibilityBegin
<1>4. ASSUME NEW h \in Handlers, Serve(h)
      PROVE  VisibilityInv' /\ Durable!Next
  BY <1>1, <1>4, VisibilityAppendLocal, VisibilityCommit, VisibilityOnTheWay,
     VisibilityAnswer DEF Serve
<1>5. ASSUME NEW m \in net, AppendEntries(m)
      PROVE  VisibilityInv' /\ Durable!Next
  <2>1. m.to # Leader /\ m.to \in Servers
    BY <1>1 DEF TypeOK, Calls, Servers
  <2>2. /\ wal' = wal \/ wal' = [wal EXCEPT ![m.to] = Append(@, m.entry)]
        /\ \E d : files' = [files EXCEPT ![m.to] = d]
        /\ \E la : lastApplied' = [lastApplied EXCEPT ![m.to] = la]
        /\ UNCHANGED <<up, pc, req, issued, acked>>
    BY <1>5 DEF AppendEntries
  <2>3. /\ wal'[Leader] = wal[Leader] /\ files'[Leader] = files[Leader]
        /\ lastApplied'[Leader] = lastApplied[Leader]
    BY <1>1, <2>1, <2>2 DEF TypeOK
  <2>4. Shown' = Shown
    BY <2>3 DEF Shown
  <2> QED
    BY <1>1, <2>2, <2>3, <2>4, VisibilityAlone
<1>6. ASSUME NEW s \in Followers, RequestRecovery(s) \/ RecoveryFails(s)
      PROVE  VisibilityInv' /\ Durable!Next
  <2>1. UNCHANGED <<up, wal, files, lastApplied, pc, req, issued, acked>>
    BY <1>6 DEF RequestRecovery, RecoveryFails, disk, volatile, handler
  <2> QED
    BY <1>1, <2>1, VisibilityAlone DEF Shown
<1>7. ASSUME NEW s \in Followers, ApplyUpdate(s)
      PROVE  VisibilityInv' /\ Durable!Next
  <2>1. s # Leader /\ s \in Servers
    BY <1>1 DEF Servers
  <2>2. /\ files' = files \/ \E c \in owed[s] : files' = [files EXCEPT ![s][c.file] = c.has]
        /\ lastApplied' = lastApplied \/ lastApplied' = [lastApplied EXCEPT ![s] = 0]
        /\ UNCHANGED <<up, wal, pc, req, issued, acked>>
    BY <1>7 DEF ApplyUpdate, volatile, handler
  <2>3. files'[Leader] = files[Leader] /\ lastApplied'[Leader] = lastApplied[Leader]
    BY <1>1, <2>1, <2>2 DEF TypeOK
  <2> QED
    BY <1>1, <2>2, <2>3, VisibilityAlone DEF Shown
<1>8. ASSUME NEW s \in Servers, Crash(s) \/ Restart(s)
      PROVE  VisibilityInv' /\ Durable!Next
  <2>1. s = Leader
    BY <1>8 DEF Crash, Restart, OneAtATime, DurabilityInv, BackupLogs, Servers
  <2> QED
    BY <1>1, <1>8, <2>1, VisibilityCrash, VisibilityRestart
<1>9. CASE UNCHANGED vars
  <2>1. UNCHANGED <<up, wal, files, lastApplied, pc, req, issued, acked>>
    BY <1>9 DEF vars, disk, volatile, handler
  <2> QED
    BY <1>1, <2>1, VisibilityAlone DEF Shown
<1> QED
  BY <1>2, <1>3, <1>4, <1>5, <1>6, <1>7, <1>8, <1>9 DEF Next

-------------------------------------------------------------------------------
(* The theorems *)

\* The strengthened invariant holds in every reachable state: the primary's log has
\* the requests in order, and its files show all it has applied.
THEOREM VisibilityInvariant ==
    ASSUME OneAtATime
    PROVE  Spec => []VisibilityInv
<1>1. Init => VisibilityInv
  BY ServersAssumption
  DEF Init, VisibilityInv, LogInOrder, ShownIsLogged, Shown, Servers
<1>2. DurabilityInv /\ DurabilityInv' /\ VisibilityInv /\ [Next]_vars => VisibilityInv'
  BY VisibilityStep
<1> QED
  BY <1>1, <1>2, DurabilityInvariant, PTL DEF Spec

\* While the primary serves one request at a time, a request answered with success
\* is not undone on its disk, whenever it crashes.
THEOREM Visibility ==
    ASSUME OneAtATime
    PROVE  Spec => []AckedVisible
<1>1. DurabilityInv /\ VisibilityInv => AckedVisible
  <2>1. TypeOK => \A e \in acked : e.file \in Files
    BY DEF TypeOK, Entries, Removals
  <2> QED
    BY <2>1 DEF DurabilityInv, VisibilityInv, AckedVisible, Shown
<1> QED
  BY <1>1, DurabilityInvariant, VisibilityInvariant, PTL

\* Under the same assumption an acknowledgement a handler counts is an entry on that
\* backup's disk, full syncs and duplicates included.
THEOREM Acknowledged ==
    ASSUME OneAtATime
    PROVE  Spec => []AckedIsPersisted
<1>1. DurabilityInv => AckedIsPersisted
  BY DEF DurabilityInv, RequestIsLast, AckedIsPersisted
<1> QED
  BY <1>1, DurabilityInvariant, PTL

\* Replication implements DurableFiles.
THEOREM Refinement ==
    ASSUME OneAtATime
    PROVE  Spec => ImplementsDurableFiles
<1>1. Init => Durable!Init
  BY ServersAssumption DEF Init, Durable!Init, Stored, Shown, Servers
<1>2. DurabilityInv /\ DurabilityInv' /\ VisibilityInv /\ [Next]_vars
         => [Durable!Next]_(Durable!abstract_vars)
  BY VisibilityStep
<1> QED
  BY <1>1, <1>2, DurabilityInvariant, VisibilityInvariant, PTL
  DEF Spec, ImplementsDurableFiles, Durable!Spec

===============================================================================
