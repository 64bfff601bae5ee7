---------------------------- MODULE WalletBackup ----------------------------
(***************************************************************************)
(* The wallet's cloud copy at one door (index.js: /backup/challenge,       *)
(* /backup, /backup/fetch, /backup/meta, /backup/forget).  One wallet,     *)
(* used on one or several devices: each saves copies with rising numbers,  *)
(* and after a forget may start again at 1; it asks for a challenge, signs *)
(* it over the copy and sends it.  The door's handler is a sequence of     *)
(* store operations, and a device that stops waiting may try again while   *)
(* its first handler still runs.                                           *)
(*                                                                         *)
(* Covered: single-use challenges and their expiry, the number and         *)
(*   fingerprint rules, the repeat answer, forget, reads through KV's edge *)
(*   cache, lost answers, handlers killed half way.                        *)
(* Not covered: other wallets (every key here carries the wallet's own     *)
(*   pubkey), the signature itself (a request whose signature does not     *)
(*   verify ends as one whose challenge is gone), rate and size limits,    *)
(*   the other door (module Mirror).                                       *)
(***************************************************************************)
EXTENDS Naturals

CONSTANTS
  Devices,     \* devices that hold this wallet
  Nonces,      \* challenges that may be around at once
  Slots,       \* requests the door may be handling at once, numbered
  MaxVersion,  \* bound, per device: the highest number it gives a copy
  MaxLives,    \* bound, per device: how often it starts again after a forget
  MaxFaults,   \* bound: timeouts, expiries and deaths
  CacheLags,   \* may a read come from KV's edge cache (cacheTtl: 30)?
  None

Copies == [version : Nat, by : Devices, life : Nat]      \* by and life stand for the fingerprint

ASSUME BoundsAssumption ==
  /\ {MaxVersion, MaxLives} \subseteq [Devices -> Nat] /\ MaxFaults \in Nat
  /\ Slots \subseteq Nat /\ Nonces \subseteq Nat
ASSUME CacheAssumption == CacheLags \in BOOLEAN
ASSUME NoneAssumption == None \notin Copies /\ None \notin Nonces

VARIABLES
  stored,   \* backup:<pubkey>
  edge,     \* what an edge that has not refreshed still answers
  open,     \* the nonces of bkpchal:<pubkey>:<nonce>
  req,      \* per slot: the request being handled, or None
  latest,   \* per device: the number of its newest copy
  life,     \* per device: how often it has started again
  held,     \* per device: the nonce it was given, or None
  told,     \* per device: what it knows of its newest copy
  faults,   \* timeouts, expiries and deaths so far
  written   \* history: the copies the door has stored

device == <<latest, life, held, told>>
vars == <<stored, edge, open, req, device, faults, written>>

Ops == {"push", "forget", "read"}
Requests == [op : Ops, d : Devices, nonce : Nonces, copy : Copies, awaited : BOOLEAN,
             stage : {"auth", "look", "put", "drop", "delete", "get"}]

TypeOK ==
  /\ {stored, edge} \subseteq Copies \union {None}
  /\ open \subseteq Nonces
  /\ req \in [Slots -> Requests \union {None}]
  /\ {latest, life} \subseteq [Devices -> Nat]
  /\ held \in [Devices -> Nonces \union {None}]
  /\ told \in [Devices -> {"nothing", "ok", "conflict"}]
  /\ faults \in 0..MaxFaults
  /\ written \subseteq Copies

Init ==
  /\ stored = None /\ edge = None /\ open = {}
  /\ req = [s \in Slots |-> None]
  /\ latest = [d \in Devices |-> 1]
  /\ life = [d \in Devices |-> 0]
  /\ held = [d \in Devices |-> None]
  /\ told = [d \in Devices |-> "nothing"]
  /\ faults = 0 /\ written = {}

Newest(d) == [version |-> latest[d], by |-> d, life |-> life[d]]
Awaiting(d) == \E s \in Slots : req[s] # None /\ req[s].d = d /\ req[s].awaited
InUse(n) == n \in open \/ (\E d \in Devices : held[d] = n) \/ (\E s \in Slots : req[s] # None /\ req[s].nonce = n)
Fault == faults < MaxFaults /\ faults' = faults + 1

-----------------------------------------------------------------------------
(* The devices.                                                            *)

\* The wallet's state changed: there is a newer copy, and nothing is known of it.
Save(d) ==
  /\ latest[d] < MaxVersion[d]
  /\ latest' = [latest EXCEPT ![d] = @ + 1]
  /\ told' = [told EXCEPT ![d] = "nothing"]
  /\ UNCHANGED <<stored, edge, open, req, life, held, faults, written>>

\* GET /backup/challenge: a fresh random nonce under a key of its own.
IsFresh(n) == ~InUse(n) /\ \A m \in Nonces : InUse(m) \/ n <= m
Opened_OneKey(n) == {n}          \* mutant: one challenge key per pubkey, as before 0.14.0 (K4)
Opened(n) == open \union {n}
Challenge(d) ==
  /\ held[d] = None /\ ~Awaiting(d)
  /\ \E n \in Nonces :
       /\ IsFresh(n)
       /\ open' = Opened(n)
       /\ held' = [held EXCEPT ![d] = n]
  /\ UNCHANGED <<stored, edge, req, latest, life, told, faults, written>>

Send(d, op, s) ==
  /\ held[d] # None /\ ~Awaiting(d)
  /\ req[s] = None /\ \A z \in Slots : req[z] = None => s <= z
  /\ req' = [req EXCEPT ![s] = [op |-> op, d |-> d, nonce |-> held[d], copy |-> Newest(d),
                                awaited |-> TRUE, stage |-> "auth"]]
  /\ UNCHANGED <<stored, edge, open, device, faults, written>>

Push(d) == told[d] = "nothing" /\ \E s \in Slots : Send(d, "push", s)
Forget(d) == \E s \in Slots : Send(d, "forget", s)
Read(d) == \E s \in Slots : Send(d, "read", s)

\* The app was put away, the line went dead: the answer will not be heard, the handler runs on.
StopsWaiting(s) ==
  /\ req[s] # None /\ req[s].awaited /\ Fault
  /\ req' = [req EXCEPT ![s].awaited = FALSE]
  /\ UNCHANGED <<stored, edge, open, device, written>>

-----------------------------------------------------------------------------
(* The door.                                                               *)

At(s, op, stage) == req[s] # None /\ req[s].op = op /\ req[s].stage = stage
GoesTo(s, stage) == req' = [req EXCEPT ![s].stage = stage]

\* The request ends; a device that still waits hears the outcome and lets its nonce go.
Answer_TakesRetry(s, outcome) ==          \* mutant: a 401 taken for a verdict on the copy
  LET d == req[s].d IN
  /\ req' = [req EXCEPT ![s] = None]
  /\ held' = IF req[s].awaited THEN [held EXCEPT ![d] = None] ELSE held
  /\ told' = IF req[s].awaited THEN [told EXCEPT ![d] = outcome] ELSE told
  /\ UNCHANGED <<latest, life>>
Answer(s, outcome) ==
  LET d == req[s].d IN
  /\ req' = [req EXCEPT ![s] = None]
  /\ held' = IF req[s].awaited THEN [held EXCEPT ![d] = None] ELSE held
  /\ told' = IF req[s].awaited /\ req[s].op = "push" /\ req[s].copy = Newest(d) /\ outcome # "retry"
             THEN [told EXCEPT ![d] = outcome] ELSE told
  /\ UNCHANGED <<latest, life>>

\* verifyBackupAuth: the challenge must be open when it is read.
Auth(s) ==
  /\ req[s] # None /\ req[s].stage = "auth"
  /\ IF req[s].nonce \notin open THEN Answer(s, "retry")        \* 401
     ELSE GoesTo(s, IF req[s].op = "push" THEN "look" ELSE "drop") /\ UNCHANGED device
  /\ UNCHANGED <<stored, edge, open, faults, written>>

\* A read of backup:<pubkey> may come from the edge.
Readable == {stored} \union (IF CacheLags THEN {edge} ELSE {})

IsRepeat_NumberOnly(prev, copy) == prev # None /\ prev.version = copy.version   \* mutant: no fingerprint
IsRepeat_Never(prev, copy) == FALSE                                              \* mutant: as before 0.10.0
IsRepeat(prev, copy) == prev = copy
IsStale(prev, copy) == prev # None /\ prev.version >= copy.version

Look(s) ==
  /\ At(s, "push", "look")
  /\ \E prev \in Readable :
       \/ IsRepeat(prev, req[s].copy) /\ GoesTo(s, "drop") /\ UNCHANGED device
       \/ /\ ~IsRepeat(prev, req[s].copy) /\ IsStale(prev, req[s].copy)
          /\ Answer(s, "conflict")                              \* 409, the challenge stays
       \/ /\ ~IsRepeat(prev, req[s].copy) /\ ~IsStale(prev, req[s].copy)
          /\ GoesTo(s, "put") /\ UNCHANGED device
  /\ UNCHANGED <<stored, edge, open, faults, written>>

Put(s) ==
  /\ At(s, "push", "put")
  /\ stored' = req[s].copy
  /\ written' = written \union {req[s].copy}
  /\ GoesTo(s, "drop")
  /\ UNCHANGED <<edge, open, device, faults>>

\* The challenge is deleted: after the work for a push, before it for the others.
Drop(s) ==
  /\ req[s] # None /\ req[s].stage = "drop"
  /\ open' = open \ {req[s].nonce}
  /\ IF req[s].op = "push" THEN Answer(s, "ok")
     ELSE GoesTo(s, IF req[s].op = "forget" THEN "delete" ELSE "get") /\ UNCHANGED device
  /\ UNCHANGED <<stored, edge, faults, written>>

\* A wallet that hears its copy is forgotten may start again at number 1, with new bytes.
StartsAgain(s) ==
  LET d == req[s].d IN
  /\ req[s].awaited /\ life[d] < MaxLives[d]
  /\ life' = [life EXCEPT ![d] = @ + 1]
  /\ latest' = [latest EXCEPT ![d] = 1]
  /\ told' = [told EXCEPT ![d] = "nothing"]
  /\ held' = [held EXCEPT ![d] = None]
  /\ req' = [req EXCEPT ![s] = None]

Delete(s) ==
  /\ At(s, "forget", "delete")
  /\ stored' = None
  /\ Answer(s, "ok") \/ StartsAgain(s)
  /\ UNCHANGED <<edge, open, faults, written>>

\* /backup/fetch and /backup/meta answer what they read.
Get(s) ==
  /\ At(s, "read", "get")
  /\ Answer(s, "ok")
  /\ UNCHANGED <<stored, edge, open, faults, written>>

Handle(s) == Auth(s) \/ Look(s) \/ Put(s) \/ Drop(s) \/ Delete(s) \/ Get(s)

\* The isolate is evicted, a store call throws: the device, if it waits, hears an error.
Dies(s) ==
  /\ req[s] # None /\ Fault
  /\ Answer(s, "retry")
  /\ UNCHANGED <<stored, edge, open, written>>

\* 120 s pass: in the midst of a device's use of the challenge that is a fault, else it is certain.
Unused(n) == (\A d \in Devices : held[d] # n) /\ (\A s \in Slots : req[s] # None => req[s].nonce # n)
Expires(n) ==
  /\ n \in open
  /\ Fault \/ (Unused(n) /\ UNCHANGED faults)
  /\ open' = open \ {n}
  /\ UNCHANGED <<stored, edge, req, device, written>>

EdgeRefreshes ==
  /\ CacheLags /\ edge # stored
  /\ edge' = stored
  /\ UNCHANGED <<stored, open, req, device, faults, written>>

Next ==
  \/ \E d \in Devices : Save(d) \/ Challenge(d) \/ Push(d) \/ Forget(d) \/ Read(d)
  \/ \E s \in Slots : Handle(s) \/ StopsWaiting(s) \/ Dies(s)
  \/ \E n \in Nonces : Expires(n)
  \/ EdgeRefreshes

Spec == Init /\ [][Next]_vars

(* Handlers run to their end; unused challenges expire; a wallet with an   *)
(* unsaved copy asks again, and uses a challenge for it in the end however *)
(* often it reads or forgets (external: the wallet's engine).              *)
Fairness ==
  /\ \A s \in Slots : WF_vars(Handle(s))
  /\ \A n \in Nonces : WF_vars(Unused(n) /\ Expires(n))
  /\ \A d \in Devices : WF_vars(Challenge(d)) /\ SF_vars(Push(d))
FairSpec == Spec /\ Fairness

-----------------------------------------------------------------------------
(* Properties.                                                             *)

(* A wallet that was told OK about a copy had that very copy stored, be it *)
(* by a handler whose first answer was lost: the repeat answer never       *)
(* vouches for another device's copy of the same number (index.js:891).    *)
OkWasWritten == \A d \in Devices : told[d] = "ok" => Newest(d) \in written

(* "the phone's retry after a lost OK is then an OK, never a false         *)
(* conflict" (index.js:875): a 409 means that the door had a different     *)
(* copy with at least this number, another device's or one of the wallet's *)
(* own from before a forget; never that it had this very copy, whatever    *)
(* answers were lost and whatever reads were stale.                        *)
ConflictIsReal ==
  \A d \in Devices : told[d] = "conflict" =>
     \E c \in written : /\ c.version >= latest[d]
                       /\ (c.by # d \/ c.life < life[d])

(* Every wallet is told about its newest copy in the end, whatever the     *)
(* other devices, lost answers, dead handlers and stale reads do.          *)
EveryoneHears == \A d \in Devices : <>[](told[d] # "nothing")

(* "an older copy can never replace a newer one"                           *)
(* (lijox-backup-standard-r1.md:85).                                       *)
NewestStays ==
  [][stored # None /\ stored' # None => stored'.version >= stored.version]_vars
=============================================================================
