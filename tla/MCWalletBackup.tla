--------------------------- MODULE MCWalletBackup ---------------------------
(* WalletBackup with a phone that saves twice and a tablet that saves      *)
(* once, so that copies of equal, lower and higher numbers meet.           *)
EXTENDS WalletBackup

CONSTANTS phone, tablet

Saves == [d \in Devices |-> IF d = phone THEN 2 ELSE 1]
PhoneMayRestart == [d \in Devices |-> IF d = phone THEN 1 ELSE 0]
NoRestart == [d \in Devices |-> 0]

\* Bound: a device starts again while it is the only one that has stored anything or is at the door,
\* and from then on no device saves a second copy and only pushes are asked for.  The device's own late
\* answers and the stale edge from before the forget run on, and the other device may come after it.
RestartsAlone(d) ==
  /\ \A c \in written : c.by = d
  /\ \A s \in Slots : req[s] # None => req[s].d = d
  /\ \A e \in Devices \ {d} : told[e] = "nothing"
Again == \E d \in Devices : life[d] > 0
FewRestarts ==
  /\ \A d \in Devices : life'[d] # life[d] => RestartsAlone(d)
  /\ Again => /\ latest' = latest
              /\ \A s \in Slots : req[s] = None /\ req'[s] # None => req'[s].op = "push"
RestartSpec == Init /\ [][Next /\ FewRestarts]_vars /\ Fairness
=============================================================================
