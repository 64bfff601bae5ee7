------------------------- MODULE WalletBackupProofs -------------------------
(***************************************************************************)
(* Theorems about WalletBackup: what a wallet is told of its newest copy   *)
(* is true, for any number of devices, requests, copies and faults, and    *)
(* with reads from a stale edge cache.                                     *)
(***************************************************************************)
EXTENDS WalletBackup, TLAPS

Stages == {"auth", "look", "put", "drop", "delete", "get"}

(* The door stores nothing it does not remember having stored, and an edge *)
(* answers nothing else.                                                   *)
StoredWasWritten == {stored, edge} \subseteq written \union {None}

(* No copy is later than its device's newest: from an earlier life, or of  *)
(* this one and not numbered higher.                                       *)
NotLater(c) == c.life < life[c.by] \/ (c.life = life[c.by] /\ c.version <= latest[c.by])
NumbersRise == \A c \in written : NotLater(c)

(* A request carries its own device's copy, and a push that is only left   *)
(* to drop its challenge has its copy stored.                              *)
RequestsAreSound ==
  \A s \in Slots : req[s] # None =>
    /\ req[s].copy.by = req[s].d
    /\ NotLater(req[s].copy)
    /\ req[s].op = "push" /\ req[s].stage = "drop" => req[s].copy \in written

IInv ==
  /\ TypeOK
  /\ StoredWasWritten
  /\ NumbersRise
  /\ RequestsAreSound
  /\ OkWasWritten
  /\ ConflictIsReal

-----------------------------------------------------------------------------
LEMMA ReqType == ASSUME TypeOK, NEW s \in Slots, req[s] # None PROVE req[s] \in Requests
  BY DEF TypeOK

(* The two ways a handler's step leaves the requests well typed.           *)
LEMMA GoesToType ==
  ASSUME TypeOK, NEW s \in Slots, req[s] # None, NEW st \in Stages, GoesTo(s, st)
  PROVE  req' \in [Slots -> Requests \union {None}]
<1>1. req[s] \in Requests
  BY ReqType
<1>2. [req[s] EXCEPT !.stage = st] \in Requests
  BY <1>1 DEF Requests, Stages, Ops
<1> QED BY <1>2 DEF TypeOK, GoesTo

LEMMA AnswerType ==
  ASSUME TypeOK, NEW s \in Slots, req[s] # None, NEW o \in {"ok", "conflict", "retry"}, Answer(s, o)
  PROVE  /\ req' \in [Slots -> Requests \union {None}]
         /\ held' \in [Devices -> Nonces \union {None}]
         /\ told' \in [Devices -> {"nothing", "ok", "conflict"}]
         /\ latest' \in [Devices -> Nat] /\ life' \in [Devices -> Nat]
<1>1. req[s].d \in Devices
  BY ReqType DEF Requests
<1> QED BY <1>1 DEF TypeOK, Answer

LEMMA NewestType == ASSUME TypeOK, NEW d \in Devices PROVE Newest(d) \in Copies
  BY DEF TypeOK, Newest, Copies

-----------------------------------------------------------------------------
(* Every variable keeps its type.                                          *)
LEMMA TypeInit == Init => TypeOK
  BY BoundsAssumption DEF Init, TypeOK

LEMMA TypeNext == TypeOK /\ [Next]_vars => TypeOK'
<1> SUFFICES ASSUME TypeOK, [Next]_vars PROVE TypeOK'
  OBVIOUS
<1> USE BoundsAssumption
<1>1. ASSUME NEW d \in Devices, Save(d) PROVE TypeOK'
  BY <1>1 DEF Save, TypeOK
<1>2. ASSUME NEW d \in Devices, Challenge(d) PROVE TypeOK'
  BY <1>2 DEF Challenge, Opened, TypeOK
<1>3. ASSUME NEW d \in Devices, NEW op \in Ops, NEW s \in Slots, Send(d, op, s) PROVE TypeOK'
  <2>1. [op |-> op, d |-> d, nonce |-> held[d], copy |-> Newest(d), awaited |-> TRUE, stage |-> "auth"] \in Requests
    BY <1>3, NewestType DEF Send, TypeOK, Requests
  <2> QED BY <1>3, <2>1 DEF Send, TypeOK, device
<1>4. ASSUME NEW s \in Slots, StopsWaiting(s) PROVE TypeOK'
  <2>1. [req[s] EXCEPT !.awaited = FALSE] \in Requests
    BY <1>4, ReqType DEF StopsWaiting, Requests
  <2> QED BY <1>4, <2>1 DEF StopsWaiting, Fault, TypeOK, device
<1>5. ASSUME NEW s \in Slots, Auth(s) PROVE TypeOK'
  <2>1. CASE Answer(s, "retry")
    BY <1>5, <2>1, AnswerType DEF Auth, TypeOK
  <2>2. CASE /\ GoesTo(s, IF req[s].op = "push" THEN "look" ELSE "drop")
             /\ UNCHANGED device
    <3>1. req' \in [Slots -> Requests \union {None}]
      BY <1>5, <2>2, GoesToType DEF Auth, Stages
    <3> QED BY <1>5, <2>2, <3>1 DEF Auth, TypeOK, device
  <2> QED BY <1>5, <2>1, <2>2 DEF Auth
<1>6. ASSUME NEW s \in Slots, Look(s) PROVE TypeOK'
  <2>1. CASE Answer(s, "conflict")
    BY <1>6, <2>1, AnswerType DEF Look, At, TypeOK
  <2>2. ASSUME NEW st \in Stages, GoesTo(s, st), UNCHANGED device PROVE TypeOK'
    <3>1. req' \in [Slots -> Requests \union {None}]
      BY <1>6, <2>2, GoesToType DEF Look, At
    <3> QED BY <1>6, <2>2, <3>1 DEF Look, TypeOK, device
  <2> QED BY <1>6, <2>1, <2>2 DEF Look, Stages
<1>7. ASSUME NEW s \in Slots, Put(s) PROVE TypeOK'
  <2>1. req' \in [Slots -> Requests \union {None}]
    BY <1>7, GoesToType DEF Put, At, Stages
  <2>2. req[s].copy \in Copies
    BY <1>7, ReqType DEF Put, At, Requests
  <2> QED BY <1>7, <2>1, <2>2 DEF Put, TypeOK, device
<1>8. ASSUME NEW s \in Slots, Drop(s) PROVE TypeOK'
  <2>1. CASE Answer(s, "ok")
    BY <1>8, <2>1, AnswerType DEF Drop, TypeOK
  <2>2. CASE /\ GoesTo(s, IF req[s].op = "forget" THEN "delete" ELSE "get")
             /\ UNCHANGED device
    <3>1. req' \in [Slots -> Requests \union {None}]
      BY <1>8, <2>2, GoesToType DEF Drop, Stages
    <3> QED BY <1>8, <2>2, <3>1 DEF Drop, TypeOK, device
  <2> QED BY <1>8, <2>1, <2>2 DEF Drop
<1>9. ASSUME NEW s \in Slots, Delete(s) \/ Get(s) PROVE TypeOK'
  <2>1. CASE Answer(s, "ok")
    BY <1>9, <2>1, AnswerType DEF Delete, Get, At, TypeOK
  <2>2. CASE Delete(s) /\ StartsAgain(s)
    <3>1. req[s].d \in Devices
      BY <2>2, ReqType DEF Delete, At, Requests
    <3> QED BY <2>2, <3>1 DEF Delete, StartsAgain, TypeOK
  <2> QED BY <1>9, <2>1, <2>2 DEF Delete, Get
<1>10. ASSUME NEW s \in Slots, Dies(s) PROVE TypeOK'
  <2>1. faults' \in 0..MaxFaults
    BY <1>10 DEF Dies, Fault, TypeOK
  <2>2. req[s] # None /\ Answer(s, "retry") /\ UNCHANGED <<stored, edge, open, written>>
    BY <1>10 DEF Dies
  <2> QED BY <2>1, <2>2, AnswerType DEF TypeOK
<1>11. ASSUME NEW n \in Nonces, Expires(n) PROVE TypeOK'
  BY <1>11 DEF Expires, Fault, TypeOK, device
<1>12. CASE EdgeRefreshes
  BY <1>12 DEF EdgeRefreshes, TypeOK, device
<1>13. CASE UNCHANGED vars
  BY <1>13 DEF vars, device, TypeOK
<1> QED BY <1>1, <1>2, <1>3, <1>4, <1>5, <1>6, <1>7, <1>8, <1>9, <1>10, <1>11, <1>12, <1>13
        DEF Next, Handle, Push, Forget, Read, Ops

(* Every variable keeps its type, and a request is always at a stage of    *)
(* some handler.                                                           *)
THEOREM TypeCorrect == Spec => []TypeOK
<1>1. Init => TypeOK
  BY TypeInit
<1>2. TypeOK /\ [Next]_vars => TypeOK'
  BY TypeNext
<1> QED BY <1>1, <1>2, PTL DEF Spec

-----------------------------------------------------------------------------
(* The told wallet.                                                        *)

Honest == OkWasWritten /\ ConflictIsReal /\ RequestsAreSound

LEMMA HonestInit == Init => IInv
<1> SUFFICES ASSUME Init PROVE IInv
  OBVIOUS
<1>1. TypeOK
  BY TypeInit
<1> QED BY <1>1 DEF Init, IInv, StoredWasWritten, NumbersRise, RequestsAreSound, OkWasWritten, ConflictIsReal, NotLater

(* A handler's step to its next stage tells nobody anything.               *)
LEMMA GoesToHonest ==
  ASSUME IInv, NEW s \in Slots, req[s] # None, NEW st \in Stages, GoesTo(s, st), UNCHANGED device,
         written \subseteq written',
         req[s].op = "push" /\ st = "drop" => req[s].copy \in written'
  PROVE  Honest'
<1>1. OkWasWritten' /\ ConflictIsReal'
  BY DEF IInv, OkWasWritten, ConflictIsReal, Newest, device
<1>2. req[s] \in Requests /\ req'[s] = [req[s] EXCEPT !.stage = st] /\ \A z \in Slots \ {s} : req'[z] = req[z]
  BY ReqType DEF IInv, TypeOK, GoesTo
<1>3. req'[s].copy = req[s].copy /\ req'[s].d = req[s].d /\ req'[s].op = req[s].op /\ req'[s].stage = st
  BY <1>2 DEF Requests
<1>4. latest' = latest /\ life' = life
  BY DEF device
<1>5. ASSUME NEW z \in Slots, (req[z] # None)'
      PROVE  (/\ req[z].copy.by = req[z].d
              /\ NotLater(req[z].copy)
              /\ req[z].op = "push" /\ req[z].stage = "drop" => req[z].copy \in written)'
  <2>1. CASE z = s
    BY <1>2, <1>3, <1>4, <2>1 DEF IInv, RequestsAreSound, NotLater
  <2>2. CASE z # s
    BY <1>2, <1>4, <1>5, <2>2 DEF IInv, RequestsAreSound, NotLater
  <2> QED BY <2>1, <2>2
<1>6. RequestsAreSound'
  BY <1>5 DEF RequestsAreSound
<1> QED BY <1>1, <1>6 DEF Honest

(* An answer is honest if what it says of a newest copy is true.           *)
LEMMA AnswerHonest ==
  ASSUME IInv, NEW s \in Slots, req[s] # None, NEW o \in {"ok", "conflict", "retry"}, Answer(s, o),
         UNCHANGED written,
         o = "ok" /\ req[s].op = "push" => req[s].copy \in written,
         o = "conflict" => \E c \in written :
                              /\ c.version >= req[s].copy.version
                              /\ req[s].copy = Newest(req[s].d) =>
                                    \/ c.by # req[s].d
                                    \/ c.life < life[req[s].d]
  PROVE  Honest'
<1> DEFINE d0 == req[s].d
<1>1. req[s] \in Requests /\ d0 \in Devices
  BY ReqType DEF IInv, Requests
<1>2. latest' = latest /\ life' = life /\ \A d \in Devices : Newest(d)' = Newest(d)
  BY DEF Answer, Newest
<1>3. \A d \in Devices : told'[d] = told[d] \/ (d = d0 /\ told'[d] = o /\ o # "retry" /\ req[s].op = "push" /\ req[s].copy = Newest(d))
  BY <1>1 DEF IInv, TypeOK, Answer
<1>4. OkWasWritten'
  BY <1>2, <1>3 DEF IInv, OkWasWritten
<1>5. ASSUME NEW d \in Devices, told'[d] = "conflict"
      PROVE  \E c \in written' : c.version >= latest'[d] /\ (c.by # d \/ c.life < life'[d])
  <2>1. CASE told[d] = "conflict"
    BY <1>2, <2>1 DEF IInv, ConflictIsReal
  <2>2. CASE told[d] # "conflict"
    <3>1. d = d0 /\ o = "conflict" /\ req[s].copy = Newest(d)
      BY <1>3, <1>5, <2>2
    <3>2. req[s].copy.version = latest[d]
      BY <3>1 DEF Newest
    <3> QED BY <1>2, <3>1, <3>2
  <2> QED BY <2>1, <2>2
<1>6. RequestsAreSound'
  <2>1. \A z \in Slots : req'[z] = None \/ req'[z] = req[z]
    BY DEF IInv, TypeOK, Answer
  <2> QED BY <1>2, <2>1 DEF IInv, RequestsAreSound, NotLater
<1> QED BY <1>4, <1>5, <1>6 DEF Honest, ConflictIsReal

(* A device that has a newer copy, or starts again, has been told nothing  *)
(* of it yet, and no copy of before is later than it.                      *)
LEMMA RenewedHonest ==
  ASSUME IInv, TypeOK', NEW d \in Devices, UNCHANGED written,
         told'[d] = "nothing",
         life'[d] = life[d] + 1 \/ (life'[d] = life[d] /\ latest'[d] = latest[d] + 1),
         \A e \in Devices \ {d} : latest'[e] = latest[e] /\ life'[e] = life[e] /\ told'[e] = told[e],
         \A s \in Slots : req'[s] \in {None, req[s]}
  PROVE  Honest' /\ NumbersRise'
<1>1. \A e \in Devices : /\ {latest[e], life[e], latest'[e], life'[e]} \subseteq Nat
                         /\ e # d => Newest(e)' = Newest(e)
  BY DEF IInv, TypeOK, Newest
<1>2. OkWasWritten' /\ ConflictIsReal'
  BY <1>1 DEF IInv, OkWasWritten, ConflictIsReal
<1>3. ASSUME NEW c \in Copies, NotLater(c) PROVE NotLater(c)'
  BY <1>1, <1>3 DEF NotLater, Copies
<1>4. NumbersRise'
  BY <1>3 DEF IInv, TypeOK, NumbersRise
<1>5. ASSUME NEW s \in Slots, (req[s] # None)'
      PROVE  (/\ req[s].copy.by = req[s].d
              /\ NotLater(req[s].copy)
              /\ req[s].op = "push" /\ req[s].stage = "drop" => req[s].copy \in written)'
  <2>1. req'[s] = req[s] /\ req[s] # None /\ req[s].copy \in Copies
    BY <1>5, ReqType DEF IInv, Requests
  <2>2. NotLater(req[s].copy) /\ req[s].copy.by = req[s].d
    BY <2>1 DEF IInv, RequestsAreSound
  <2>3. ASSUME NEW c \in Copies, NotLater(c), c = req[s].copy PROVE NotLater(req[s].copy)'
    BY <1>3, <2>1, <2>3 DEF NotLater
  <2> QED BY <2>1, <2>2, <2>3 DEF IInv, RequestsAreSound
<1>6. RequestsAreSound'
  BY <1>5 DEF RequestsAreSound
<1> QED BY <1>2, <1>4, <1>6 DEF Honest

LEMMA HonestNext == IInv /\ [Next]_vars => IInv'
<1> SUFFICES ASSUME IInv, TypeOK', [Next]_vars PROVE Honest' /\ StoredWasWritten' /\ NumbersRise'
  BY TypeNext DEF IInv, Honest
<1> USE DEF IInv
<1>1. ASSUME NEW d \in Devices, Save(d) PROVE Honest' /\ StoredWasWritten' /\ NumbersRise'
  <2>1. /\ latest'[d] = latest[d] + 1 /\ life' = life /\ told'[d] = "nothing" /\ latest[d] \in Nat
        /\ \A e \in Devices \ {d} : latest'[e] = latest[e] /\ told'[e] = told[e]
        /\ UNCHANGED <<stored, edge, req, written>>
    BY <1>1 DEF Save, TypeOK
  <2>2. Honest' /\ NumbersRise'
    BY <2>1, RenewedHonest
  <2> QED BY <2>1, <2>2 DEF StoredWasWritten
<1>2. CASE UNCHANGED <<stored, edge, req, latest, life, told, written>>
  BY <1>2 DEF Honest, StoredWasWritten, NumbersRise, RequestsAreSound, OkWasWritten, ConflictIsReal, Newest, NotLater
<1>3. ASSUME NEW d \in Devices, NEW op \in Ops, NEW s \in Slots, Send(d, op, s)
      PROVE  Honest' /\ StoredWasWritten' /\ NumbersRise'
  <2>1. UNCHANGED <<stored, edge, latest, life, told, written>>
    BY <1>3 DEF Send, device
  <2>2. /\ req'[s] = [op |-> op, d |-> d, nonce |-> held[d], copy |-> Newest(d), awaited |-> TRUE, stage |-> "auth"]
        /\ \A z \in Slots \ {s} : req'[z] = req[z]
    BY <1>3 DEF Send, TypeOK
  <2>3. RequestsAreSound'
    BY <2>1, <2>2 DEF RequestsAreSound, Newest, TypeOK, NotLater
  <2> QED BY <2>1, <2>3 DEF Honest, StoredWasWritten, NumbersRise, OkWasWritten, ConflictIsReal, Newest, NotLater
<1>4. ASSUME NEW s \in Slots, StopsWaiting(s) PROVE Honest' /\ StoredWasWritten' /\ NumbersRise'
  <2>1. UNCHANGED <<stored, edge, latest, life, told, written>>
    BY <1>4 DEF StopsWaiting, device
  <2>2. req[s] \in Requests /\ req'[s] = [req[s] EXCEPT !.awaited = FALSE] /\ \A z \in Slots \ {s} : req'[z] = req[z]
    BY <1>4, ReqType DEF StopsWaiting, TypeOK
  <2>3. req'[s].copy = req[s].copy /\ req'[s].d = req[s].d /\ req'[s].op = req[s].op /\ req'[s].stage = req[s].stage
    BY <2>2 DEF Requests
  <2>4. RequestsAreSound'
    BY <1>4, <2>1, <2>2, <2>3 DEF RequestsAreSound, StopsWaiting, NotLater
  <2> QED BY <2>1, <2>4 DEF Honest, StoredWasWritten, NumbersRise, OkWasWritten, ConflictIsReal, Newest, NotLater
<1>5. ASSUME NEW s \in Slots, Auth(s) PROVE Honest' /\ StoredWasWritten' /\ NumbersRise'
  <2>1. req[s] # None /\ UNCHANGED <<stored, edge, written>>
    BY <1>5 DEF Auth
  <2>2. CASE Answer(s, "retry")
    BY <2>1, <2>2, AnswerHonest DEF StoredWasWritten, NumbersRise, Answer, NotLater
  <2>3. CASE GoesTo(s, IF req[s].op = "push" THEN "look" ELSE "drop") /\ UNCHANGED device
    <3>1. Honest'
      BY <2>1, <2>3, GoesToHonest DEF Stages
    <3> QED BY <2>1, <2>3, <3>1 DEF StoredWasWritten, NumbersRise, device, NotLater
  <2> QED BY <1>5, <2>2, <2>3 DEF Auth
<1>6. ASSUME NEW s \in Slots, Look(s) PROVE Honest' /\ StoredWasWritten' /\ NumbersRise'
  <2>1. req[s] # None /\ req[s].op = "push" /\ UNCHANGED <<stored, edge, written>>
    BY <1>6 DEF Look, At
  <2>2. PICK prev \in Readable :
          \/ IsRepeat(prev, req[s].copy) /\ GoesTo(s, "drop") /\ UNCHANGED device
          \/ /\ ~IsRepeat(prev, req[s].copy) /\ IsStale(prev, req[s].copy)
             /\ Answer(s, "conflict")
          \/ GoesTo(s, "put") /\ UNCHANGED device
    BY <1>6 DEF Look
  <2>3. prev \in written \union {None}
    BY DEF Readable, StoredWasWritten
  <2>4. req[s] \in Requests /\ req[s].copy \in Copies /\ req[s].d \in Devices
    BY <2>1, ReqType DEF Requests
  <2>5. CASE IsRepeat(prev, req[s].copy) /\ GoesTo(s, "drop") /\ UNCHANGED device
    <3>1. req[s].copy \in written
      BY <2>3, <2>4, <2>5, NoneAssumption DEF IsRepeat
    <3>2. Honest'
      BY <2>1, <2>5, <3>1, GoesToHonest DEF Stages
    <3> QED BY <2>1, <2>5, <3>2 DEF StoredWasWritten, NumbersRise, device, NotLater
  <2>6. CASE ~IsRepeat(prev, req[s].copy) /\ IsStale(prev, req[s].copy) /\ Answer(s, "conflict")
    <3>1. prev \in written /\ prev \in Copies /\ prev.version >= req[s].copy.version /\ prev # req[s].copy
      BY <2>3, <2>6 DEF IsStale, IsRepeat, TypeOK
    <3>2. ASSUME req[s].copy = Newest(req[s].d), prev.by = req[s].d, ~(prev.life < life[prev.by]) PROVE FALSE
      <4>1. prev.life = life[prev.by] /\ prev.version <= latest[prev.by]
        BY <3>1, <3>2 DEF NumbersRise, NotLater
      <4>2. req[s].copy.by = prev.by /\ req[s].copy.life = prev.life /\ latest[prev.by] = req[s].copy.version
        BY <3>2, <4>1 DEF Newest
      <4>3. prev.version = req[s].copy.version
        BY <2>4, <3>1, <4>1, <4>2 DEF Copies
      <4> QED BY <2>4, <3>1, <4>2, <4>3 DEF Copies
    <3>3. Honest'
      BY <2>1, <2>6, <3>1, <3>2, AnswerHonest
    <3> QED BY <2>1, <2>6, <3>3 DEF StoredWasWritten, NumbersRise, Answer, NotLater
  <2>7. CASE GoesTo(s, "put") /\ UNCHANGED device
    <3>1. Honest'
      BY <2>1, <2>7, GoesToHonest DEF Stages
    <3> QED BY <2>1, <2>7, <3>1 DEF StoredWasWritten, NumbersRise, device, NotLater
  <2> QED BY <2>2, <2>5, <2>6, <2>7
<1>7. ASSUME NEW s \in Slots, Put(s) PROVE Honest' /\ StoredWasWritten' /\ NumbersRise'
  <2>1. /\ req[s] # None /\ GoesTo(s, "drop") /\ UNCHANGED device /\ edge' = edge
        /\ stored' = req[s].copy /\ written' = written \union {req[s].copy}
    BY <1>7 DEF Put, At
  <2>2. Honest'
    BY <2>1, GoesToHonest DEF Stages
  <2>3. NotLater(req[s].copy)
    BY <2>1 DEF RequestsAreSound
  <2> QED BY <2>1, <2>2, <2>3 DEF StoredWasWritten, NumbersRise, device, NotLater
<1>8. ASSUME NEW s \in Slots, Drop(s) PROVE Honest' /\ StoredWasWritten' /\ NumbersRise'
  <2>1. req[s] # None /\ req[s].stage = "drop" /\ UNCHANGED <<stored, edge, written>>
    BY <1>8 DEF Drop
  <2>2. CASE req[s].op = "push" /\ Answer(s, "ok")
    <3>1. req[s].copy \in written
      BY <2>1, <2>2 DEF RequestsAreSound, NotLater
    <3>2. Honest'
      BY <2>1, <2>2, <3>1, AnswerHonest
    <3> QED BY <2>1, <2>2, <3>2 DEF StoredWasWritten, NumbersRise, Answer, NotLater
  <2>3. CASE GoesTo(s, IF req[s].op = "forget" THEN "delete" ELSE "get") /\ UNCHANGED device
    <3>1. Honest'
      BY <2>1, <2>3, GoesToHonest DEF Stages
    <3> QED BY <2>1, <2>3, <3>1 DEF StoredWasWritten, NumbersRise, device, NotLater
  <2> QED BY <1>8, <2>2, <2>3 DEF Drop
<1>9. ASSUME NEW s \in Slots, Delete(s) \/ Get(s) PROVE Honest' /\ StoredWasWritten' /\ NumbersRise'
  <2>1. /\ req[s] # None /\ req[s].op # "push"
        /\ UNCHANGED <<edge, written>> /\ stored' \in {stored, None}
        /\ Answer(s, "ok") \/ StartsAgain(s)
    BY <1>9 DEF Delete, Get, At
  <2>2. CASE Answer(s, "ok")
    <3>1. Honest'
      BY <2>1, <2>2, AnswerHonest
    <3> QED BY <2>1, <2>2, <3>1 DEF StoredWasWritten, NumbersRise, NotLater, Answer
  <2>3. CASE StartsAgain(s)
    <3> DEFINE d == req[s].d
    <3>1. d \in Devices
      BY <2>1, ReqType DEF Requests
    <3>2. /\ life'[d] = life[d] + 1 /\ told'[d] = "nothing"
          /\ \A e \in Devices \ {d} : latest'[e] = latest[e] /\ life'[e] = life[e] /\ told'[e] = told[e]
          /\ \A z \in Slots : req'[z] \in {None, req[z]}
      BY <2>3, <3>1 DEF StartsAgain, TypeOK
    <3>3. Honest' /\ NumbersRise'
      BY <2>1, <3>1, <3>2, RenewedHonest
    <3> QED BY <2>1, <3>3 DEF StoredWasWritten
  <2> QED BY <2>1, <2>2, <2>3
<1>10. ASSUME NEW s \in Slots, Dies(s) PROVE Honest' /\ StoredWasWritten' /\ NumbersRise'
  <2>1. req[s] # None /\ Answer(s, "retry") /\ UNCHANGED <<stored, edge, written>>
    BY <1>10 DEF Dies
  <2>2. Honest'
    BY <2>1, AnswerHonest
  <2> QED BY <2>1, <2>2 DEF StoredWasWritten, NumbersRise, Answer, NotLater
<1>11. CASE EdgeRefreshes
  <2>1. UNCHANGED <<stored, req, latest, life, told, written>> /\ edge' = stored
    BY <1>11 DEF EdgeRefreshes, device
  <2> QED BY <2>1 DEF Honest, StoredWasWritten, NumbersRise, RequestsAreSound, OkWasWritten, ConflictIsReal, Newest, NotLater
<1>12. ASSUME \/ \E d \in Devices : Challenge(d)
              \/ \E n \in Nonces : Expires(n)
              \/ UNCHANGED vars
       PROVE  UNCHANGED <<stored, edge, req, latest, life, told, written>>
  BY <1>12 DEF Challenge, Expires, device, vars
<1> QED BY <1>1, <1>2, <1>3, <1>4, <1>5, <1>6, <1>7, <1>8, <1>9, <1>10, <1>11, <1>12
        DEF Next, Handle, Push, Forget, Read, Ops

(* An OK about a wallet's newest copy means that this copy was stored.     *)
THEOREM OkIsTrue == Spec => []OkWasWritten
<1>1. Init => IInv
  BY HonestInit
<1>2. IInv /\ [Next]_vars => IInv'
  BY HonestNext
<1>3. IInv => OkWasWritten
  BY DEF IInv
<1> QED BY <1>1, <1>2, <1>3, PTL DEF Spec

(* A conflict about a wallet's newest copy means that the door had stored  *)
(* a different copy of at least its number: another device's, or one of    *)
(* its own from before a forget.  It is never this very copy.              *)
THEOREM ConflictIsTrue == Spec => []ConflictIsReal
<1>1. Init => IInv
  BY HonestInit
<1>2. IInv /\ [Next]_vars => IInv'
  BY HonestNext
<1>3. IInv => ConflictIsReal
  BY DEF IInv
<1> QED BY <1>1, <1>2, <1>3, PTL DEF Spec
=============================================================================
