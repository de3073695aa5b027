------------------------------- MODULE MCClient -------------------------------
(* Small instances of Client: two clients, one file. *)
EXTENDS Client, TLC

CONSTANTS c1, c2, f1, t1, t2, n1, n2

TwoClients == {c1, c2}
OneFile    == {f1}
OneNumber  == {n1}
TwoNumbers == {n1, n2}
TwoThreads == {t1, t2}

Impatient == {"Create", "Open", "Close"}
Patient   == {}

\* What a client does to save a file that it makes, and a file that is there.
Make  == <<{"Create"}, {"Open"}, {"WriteFile"}, {"Close"}>>
Add   == <<{"Open"}, {"WriteFile"}, {"WriteFile", "Close"}, {"Close"}>>

MakeAndAdd == c1 :> Make @@ c2 :> Add

\* Two clients that may both save, of which either may read, delete or commit instead.
Mixed == c1 :> <<{"Create"}, {"Open", "OpenToRead"}, {"WriteFile", "Read"}, {"Commit", "Close"}>>
      @@ c2 :> <<{"Open"}, {"WriteFile", "Delete"}, {"Close"}>>

Symmetric == Permutations(TwoThreads)
===============================================================================
