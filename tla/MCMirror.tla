------------------------------ MODULE MCMirror ------------------------------
(* Small instances of Mirror for TLC. *)
EXTENDS Mirror

BackupOnly == [k \in Keys |-> "backup"]
PlainOnly  == [k \in Keys |-> "plain"]
\* The cycle sorts the names: "backup:" comes before "name:".
BackupThenPlain == [k \in Keys |-> IF k = 1 THEN "backup" ELSE "plain"]

\* Bounds: a third request comes only where the first two have left a name that rule 4 blocks, to change
\* the name that waits behind it (or to free the one in front); one fault, a lost call or a death.
ThirdMeetsBlock == sent < 2 \/ sent' = sent \/ \E k \in Keys : Blocked(k)
OneFault == fails + deaths < 2
BlockedSpec == Init /\ [][Next /\ ThirdMeetsBlock /\ OneFault']_vars /\ Fairness
=============================================================================
