---------------------------- MODULE MirrorRules ----------------------------
(***************************************************************************)
(* The rules by which the two doors of the LIJ registry decide which copy  *)
(* of a record is the newer one (src/lij-worker/src/mirror.js), together   *)
(* with the guards the receiving door applies before it believes the other *)
(* (the /mirror/put and /mirror/delete routes of the worker, pull and      *)
(* deleteLocal of the box).  Pure operators, no state.                     *)
(*                                                                         *)
(* A stored value is a record [by, rank, c]: who wrote the bytes, the      *)
(* number its record rule looks at (the signed ts of an lsp: record, the   *)
(* version of a backup: copy) and the clock its door stamped on it.  The   *)
(* bytes themselves are abstracted away.  A tombstone is only its clock.   *)
(***************************************************************************)
EXTENDS Naturals

CONSTANT None      \* "no such key": neither a clock nor a record

\* Rule 4 of mirror.js looks at lsp: and backup: keys only; every other key is "plain".
RecordKinds == {"plain", "lsp", "backup"}

Stamped == [by : Nat, rank : Nat, c : Nat]

\* A door's answer for one key: a value, a tombstone, or nothing.
Side == [kind : {"v", "t"}, c : Nat] \union {None}

(***************************************************************************)
(* Reconciler.state: v and t are the listed clocks of the value and of the *)
(* tombstone (None when not listed); a value wins a tie.                   *)
(***************************************************************************)
SideState_LaterClock(v, t) ==                     \* mutant: the value listed under the tombstone's clock
  IF v # None /\ (t = None \/ v >= t) THEN [kind |-> "v", c |-> IF t = None THEN v ELSE t]
  ELSE IF t # None THEN [kind |-> "t", c |-> t]
  ELSE None
SideState(v, t) ==
  IF v # None /\ (t = None \/ v >= t) THEN [kind |-> "v", c |-> v]
  ELSE IF t # None THEN [kind |-> "t", c |-> t]
  ELSE None

\* The loop's comparison: r is what the worker listed, l what the box holds, r # l.
RemoteWins_BoxIsTruth(r, l) == l = None          \* mutant: "the source of truth" taken literally
RemoteWins_TieIsOurs(r, l) == l = None \/ (r # None /\ r.c > l.c)   \* mutant: the box wins every tie
RemoteWins(r, l) ==
  \/ l = None
  \/ /\ r # None
     /\ \/ r.c > l.c
        \/ r.c = l.c /\ r.kind = "v" /\ l.kind = "t"

\* The side that is copied to the other door.
Winner(r, l) == IF r = l \/ RemoteWins(r, l) THEN r ELSE l

\* What cycle() calls for a name whose sides differ: pull or deleteLocal, push or deleteRemote.
Way_KindIgnored(r, l) ==                          \* mutant: the box's tombstones and values alike
  IF RemoteWins(r, l) THEN IF r.kind = "v" THEN "pull" ELSE "drop" ELSE "bury"
Way_PullsTombs(r, l) ==                           \* mutant: the worker's tombstones and values alike
  IF RemoteWins(r, l) THEN "pull" ELSE IF l.kind = "v" THEN "push" ELSE "bury"
Way(r, l) ==
  IF RemoteWins(r, l)
  THEN IF r.kind = "v" THEN "pull" ELSE "drop"
  ELSE IF l.kind = "v" THEN "push" ELSE "bury"

RecordAllows(kind, incoming, stored) ==
  \/ kind = "plain"
  \/ stored = None
  \/ incoming.rank >= stored.rank

Newer(c, stored) == stored = None \/ stored.c < c
TombOlder(c, tomb) == tomb = None \/ tomb < c

\* POST /mirror/put: the three refusals that come before the write.
MirrorPutAllows_NoClock(kind, incoming, stored, tomb) ==    \* mutant: trust the listing's comparison
  TombOlder(incoming.c, tomb) /\ RecordAllows(kind, incoming, stored)
MirrorPutAllows(kind, incoming, stored, tomb) ==
  /\ Newer(incoming.c, stored)
  /\ TombOlder(incoming.c, tomb)
  /\ RecordAllows(kind, incoming, stored)

\* Reconciler.pull: two refusals; the box's own tombstone is not looked at.
PullAllows(kind, incoming, stored) ==
  /\ Newer(incoming.c, stored)
  /\ RecordAllows(kind, incoming, stored)

\* POST /mirror/delete and Reconciler.deleteLocal share their two refusals.
DeleteAllows_OnlyIfHeld(c, stored, tomb) ==       \* mutant: no tombstone for what was never here
  stored # None /\ stored.c < c /\ TombOlder(c, tomb)
DeleteAllows(c, stored, tomb) == Newer(c, stored) /\ TombOlder(c, tomb)

=============================================================================
