----------------------------- MODULE ScbBackup -----------------------------
(***************************************************************************)
(* An LSP's own channel backup at one door (index.js: PUT and GET          *)
(* /lsp-backup): the current generation and the one before it, each kept   *)
(* as bytes and meta under two keys.  A PUT reads two keys and writes up   *)
(* to four, one after the other; handlers interleave at every store call   *)
(* and may be killed.  Pushes are signed with a ts; any signed push may    *)
(* arrive at any time and again.                                           *)
(*                                                                         *)
(* Covered: rotation, the repeat answer, the refusal of older pushes,      *)
(*   restores of either generation, overlapping handlers, kills.           *)
(* Not covered: the 600 s window (any signed push may arrive at any time   *)
(*   is more), sizes, other LSPs (they share no key).                      *)
(***************************************************************************)
EXTENDS Naturals

CONSTANTS
  Copies,    \* channel backups, each with a hash of its own
  Stamps,    \* the ts of the LSP's pushes
  Pushes,    \* PUT handlers that may run at once
  Restores,  \* GET handlers that may run at once
  MaxKills,  \* bound: handlers killed
  NoCopy

Generations == {"cur", "prev"}
Metas == [sha256 : Copies, ts : Stamps]
PushStages == {"cur", "curMeta", "put prev", "put prevMeta", "put cur", "put curMeta"}
PutCalls == [copy : Copies, ts : Stamps, stage : PushStages, cur : Copies \union {NoCopy},
             meta : Metas \union {NoCopy}, alone : BOOLEAN]
GetCalls == [gen : Generations, copy : Copies, calm : BOOLEAN]

ASSUME ScbAssumption ==
  /\ Stamps \subseteq Nat /\ MaxKills \in Nat
  /\ NoCopy \notin Copies \union Metas \union PutCalls

VARIABLES
  signs,   \* the copy that the LSP's push of a ts carries, or NoCopy: it signs none; never changes
  scb,     \* lspscb:<pubkey> ("cur") and lspscb:<pubkey>:prev: a copy or NoCopy
  scbmeta, \* lspscbmeta:<pubkey> and :prev: [sha256, ts] or NoCopy
  push,    \* per PUT: what it carries, has read, and does next; or NoCopy
  restore, \* per GET: the generation, the bytes read, whether no push ran beside it; or NoCopy
  kills,
  stored,  \* history: the copies ever put as current
  told,    \* history: the copies the LSP was told are stored
  latest,  \* history: [sha256, ts] of the latest push that ran to its end, or NoCopy
  torn     \* history: the generations a killed or overlapped push may have left half written

scbVars == <<signs, scb, scbmeta, push, restore, kills, stored, told, latest, torn>>

ScbTypeOK ==
  /\ signs \in [Stamps -> Copies \union {NoCopy}]
  /\ scb \in [Generations -> Copies \union {NoCopy}]
  /\ scbmeta \in [Generations -> Metas \union {NoCopy}]
  /\ push \in [Pushes -> PutCalls \union {NoCopy}]
  /\ restore \in [Restores -> GetCalls \union {NoCopy}]
  /\ kills \in 0..MaxKills
  /\ stored \subseteq Copies /\ told \subseteq Copies
  /\ latest \in Metas \union {NoCopy} /\ torn \subseteq Generations

ScbInit ==
  /\ signs \in [Stamps -> Copies \union {NoCopy}]
  /\ scb = [g \in Generations |-> NoCopy] /\ scbmeta = [g \in Generations |-> NoCopy]
  /\ push = [s \in Pushes |-> NoCopy] /\ restore = [r \in Restores |-> NoCopy]
  /\ kills = 0 /\ stored = {} /\ told = {} /\ latest = NoCopy /\ torn = {}

PushAt(s, stage) == push[s] # NoCopy /\ push[s].stage = stage
PushGoes(s, stage) == push' = [push EXCEPT ![s].stage = stage]
PushEnds(s) == push' = [push EXCEPT ![s] = NoCopy]
KeepsStore == UNCHANGED <<signs, scb, scbmeta, restore, kills, stored, latest, torn>>

-----------------------------------------------------------------------------
(* PUT /lsp-backup.                                                        *)

\* The signature, over pubkey, ts and hash, is checked before anything is read.
PushArrives(s, ts) ==
  /\ push[s] = NoCopy /\ signs[ts] # NoCopy
  /\ LET others == {z \in Pushes : push[z] # NoCopy} IN
     push' = [z \in Pushes |->
       IF z = s THEN [copy |-> signs[ts], ts |-> ts, stage |-> "cur", cur |-> NoCopy,
                      meta |-> NoCopy, alone |-> others = {}]
       ELSE IF z \in others THEN [push[z] EXCEPT !.alone = FALSE] ELSE NoCopy]
  /\ restore' = [r \in Restores |->
       IF restore[r] = NoCopy THEN NoCopy ELSE [restore[r] EXCEPT !.calm = FALSE]]
  /\ UNCHANGED <<signs, scb, scbmeta, kills, stored, told, latest, torn>>

PushReadsCur(s) ==
  /\ PushAt(s, "cur")
  /\ push' = [push EXCEPT ![s].cur = scb["cur"], ![s].stage = "curMeta"]
  /\ KeepsStore /\ UNCHANGED told

IsStoredCopy_Never(meta, copy) == FALSE            \* mutant: no repeat answer, as before 0.14.0
IsStoredCopy(meta, copy) == meta # NoCopy /\ meta.sha256 = copy
IsOlderPush(meta, ts) == meta # NoCopy /\ ts <= meta.ts

PushReadsMeta(s) ==
  /\ PushAt(s, "curMeta")
  /\ LET meta == scbmeta["cur"] IN
     \/ /\ IsStoredCopy(meta, push[s].copy)
        /\ told' = told \union {push[s].copy} /\ PushEnds(s)
     \/ /\ ~IsStoredCopy(meta, push[s].copy) /\ IsOlderPush(meta, push[s].ts)
        /\ PushEnds(s) /\ UNCHANGED told
     \/ /\ ~IsStoredCopy(meta, push[s].copy) /\ ~IsOlderPush(meta, push[s].ts)
        /\ push' = [push EXCEPT ![s].meta = meta, ![s].stage = "put prev"]
        /\ UNCHANGED told
  /\ KeepsStore

\* What there is of the current generation becomes the previous one, bytes first.
PutPrev(s) ==
  /\ PushAt(s, "put prev")
  /\ scb' = IF push[s].cur = NoCopy THEN scb ELSE [scb EXCEPT !["prev"] = push[s].cur]
  /\ PushGoes(s, "put prevMeta")
  /\ UNCHANGED <<signs, scbmeta, restore, kills, stored, told, latest, torn>>

PutPrevMeta_MetaFirst(s) ==                       \* mutant: the new meta goes before its bytes
  /\ PushAt(s, "put prevMeta")
  /\ scbmeta' = [prev |-> IF push[s].meta = NoCopy THEN scbmeta["prev"] ELSE push[s].meta,
                 cur |-> [sha256 |-> push[s].copy, ts |-> push[s].ts]]
  /\ PushGoes(s, "put cur")
  /\ UNCHANGED <<signs, scb, restore, kills, stored, told, latest, torn>>
PutPrevMeta_Once(s) ==                            \* mutant: a meta that is there stays
  /\ PushAt(s, "put prevMeta")
  /\ scbmeta' = IF scbmeta["prev"] # NoCopy \/ push[s].meta = NoCopy THEN scbmeta
                ELSE [scbmeta EXCEPT !["prev"] = push[s].meta]
  /\ PushGoes(s, "put cur")
  /\ UNCHANGED <<signs, scb, restore, kills, stored, told, latest, torn>>
PutPrevMeta(s) ==
  /\ PushAt(s, "put prevMeta")
  /\ scbmeta' = IF push[s].meta = NoCopy THEN scbmeta ELSE [scbmeta EXCEPT !["prev"] = push[s].meta]
  /\ PushGoes(s, "put cur")
  /\ UNCHANGED <<signs, scb, restore, kills, stored, told, latest, torn>>

PutCur(s) ==
  /\ PushAt(s, "put cur")
  /\ scb' = [scb EXCEPT !["cur"] = push[s].copy]
  /\ stored' = stored \union {push[s].copy}
  /\ PushGoes(s, "put curMeta")
  /\ UNCHANGED <<signs, scbmeta, restore, kills, told, latest, torn>>

\* The last put, and the OK.
PutCurMeta(s) ==
  /\ PushAt(s, "put curMeta")
  /\ LET meta == [sha256 |-> push[s].copy, ts |-> push[s].ts] IN
       scbmeta' = [scbmeta EXCEPT !["cur"] = meta] /\ latest' = meta
  /\ told' = told \union {push[s].copy}
  /\ torn' = IF ~push[s].alone THEN Generations ELSE IF "cur" \in torn THEN {"prev"} ELSE {}
  /\ PushEnds(s)
  /\ UNCHANGED <<signs, scb, restore, kills, stored>>

\* The isolate is evicted, or a put throws: the puts made stay.
HalfWritten(s) ==
  IF ~push[s].alone THEN Generations
  ELSE {g \in Generations :
          \/ g = "prev" /\ push[s].stage = "put prevMeta"
          \/ g = "prev" /\ push[s].stage \in {"put cur", "put curMeta"} /\ "cur" \in torn
          \/ g = "cur" /\ push[s].stage = "put curMeta"}
PushKilled(s) ==
  /\ push[s] # NoCopy /\ kills < MaxKills
  /\ kills' = kills + 1
  /\ torn' = torn \union HalfWritten(s)
  /\ PushEnds(s)
  /\ UNCHANGED <<signs, scb, scbmeta, restore, stored, told, latest>>

-----------------------------------------------------------------------------
(* GET /lsp-backup, ?gen=prev: the bytes, then their meta.                 *)

RestoreReadsBytes(r, gen) ==
  /\ restore[r] = NoCopy /\ scb[gen] # NoCopy
  /\ restore' = [restore EXCEPT ![r] = [gen |-> gen, copy |-> scb[gen],
                                        calm |-> \A s \in Pushes : push[s] = NoCopy]]
  /\ UNCHANGED <<signs, scb, scbmeta, push, kills, stored, told, latest, torn>>

RestoreReadsMeta(r) ==
  /\ restore[r] # NoCopy
  /\ restore' = [restore EXCEPT ![r] = NoCopy]
  /\ UNCHANGED <<signs, scb, scbmeta, push, kills, stored, told, latest, torn>>

ScbNext ==
  \/ \E s \in Pushes : \/ \E ts \in Stamps : PushArrives(s, ts)
                       \/ PushReadsCur(s) \/ PushReadsMeta(s)
                       \/ PutPrev(s) \/ PutPrevMeta(s) \/ PutCur(s) \/ PutCurMeta(s)
                       \/ PushKilled(s)
  \/ \E r \in Restores : (\E gen \in Generations : RestoreReadsBytes(r, gen)) \/ RestoreReadsMeta(r)

ScbSpec == ScbInit /\ [][ScbNext]_scbVars

-----------------------------------------------------------------------------
(* Properties.                                                             *)

(* An LSP told that its copy is stored, at once or as a repeat, had the    *)
(* bytes of that copy put as the current generation, whatever was killed   *)
(* or overlapped (index.js:802-811: the bytes go before their meta, and    *)
(* the repeat answer trusts the meta).                                     *)
ScbOkWasStored == told \subseteq stored

(* A push that runs to its end alone leaves the copy of the one that ended *)
(* before it, bytes and meta, as the previous generation, and it carries   *)
(* another copy and a later ts (index.js:387-388, 803-806) - provided that *)
(* no push was cut off between the bytes and the meta of the current       *)
(* generation since: see RetryKeepsGeneration.                             *)
ScbKeepsGeneration ==
  [][\A s \in Pushes :
       PutCurMeta(s) /\ push[s].alone /\ "cur" \notin torn /\ latest # NoCopy =>
         /\ scb["prev"] = latest.sha256 /\ scbmeta["prev"] = latest
         /\ push[s].copy # latest.sha256 /\ push[s].ts > latest.ts]_scbVars

(* "the same copy again is an OK, never a rotation (a replay used to cost  *)
(* the real previous generation)" (index.js:800-801): a push that runs to  *)
(* its end alone, after another one did, leaves as the previous generation *)
(* another copy than its own.                                              *)
RetryKeepsGeneration ==
  [][\A s \in Pushes :
       PutCurMeta(s) /\ push[s].alone /\ latest # NoCopy => scb["prev"] # push[s].copy]_scbVars

(* A restore that no push ran beside answers bytes with their own hash,    *)
(* unless a killed or overlapped push left that generation half written    *)
(* (index.js:816-825).                                                     *)
ScbRestoreFits ==
  [][\A r \in Restores :
       RestoreReadsMeta(r) /\ restore[r].calm /\ restore[r].gen \notin torn =>
         scbmeta[restore[r].gen] # NoCopy /\ scbmeta[restore[r].gen].sha256 = restore[r].copy]_scbVars
=============================================================================
