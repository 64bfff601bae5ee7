----------------------------- MODULE FileStore -----------------------------
(***************************************************************************)
(* The box's store (node/store.js): one key, kept in two files, the value  *)
(* and a sidecar with its clock and expiry.  Every await of put, delete,   *)
(* entry and entries is a step; calls of one Node process interleave at    *)
(* them.  The box may crash at any step: its calls are gone, its files     *)
(* stay as they are.                                                       *)
(*                                                                         *)
(* Covered: put, delete, get, listing and sweep on a durable key (lsp:,    *)
(*   name:, ...) or an expiring one (tomb:, lspgone:, bkpchal:, ...),      *)
(*   expiry, removal by whoever reads, crashes.                            *)
(* Not covered: the writing of temporary files (their random tag makes     *)
(*   them a call's own; rename puts a whole file in place), other keys     *)
(*   (they share nothing), paging and key encoding.                        *)
(***************************************************************************)
EXTENDS Naturals, Sequences

CONSTANTS
  Calls,       \* calls that may run at once
  MaxWrites,   \* bound: puts and deletes
  MaxTime,     \* bound: seconds
  MaxCrashes,  \* bound
  TTLs,        \* the expirationTtl of this key's prefix: 0 for a durable key
  None

Stages == {"value", "meta"}
WriteCalls == [op : {"put", "delete"}, id : Nat, stage : Stages]
ReadCalls == [op : {"read", "clean"}, seen : Nat, after : SUBSET Nat, stage : Stages]
Answers == [value : Nat \union {None}, c : Nat \union {None}, after : SUBSET Nat, begun : SUBSET Nat]
Expiries == (Nat \ {0}) \union {None}
Sidecars == [c : Nat, exp : Expiries]

ASSUME StoreAssumption ==
  /\ {MaxWrites, MaxTime, MaxCrashes} \subseteq Nat /\ TTLs \subseteq Nat
  /\ None \notin Nat \union WriteCalls \union ReadCalls \union Answers \union Sidecars

VARIABLES
  ttl,      \* which of TTLs this key has; never changes
  v,        \* the .v file: the number of the put that wrote it, or None
  m,        \* the .m file: [c, exp], or None
  now,      \* Date.now() in seconds
  call,     \* per call: what it does and where it is, or None
  writes,   \* history: per put or delete, what was over when it began, and how it goes
  result,   \* history: the answer the latest step gave to a read, or None
  crashes

vars == <<ttl, v, m, now, call, writes, result, crashes>>

Writes == [kind : {"put", "delete"}, exp : Expiries, after : SUBSET Nat, goes : {"on", "done", "dead"}]

TypeOK ==
  /\ ttl \in TTLs
  /\ v \in Nat \union {None}
  /\ m \in Sidecars \union {None}
  /\ now \in 0..MaxTime /\ crashes \in 0..MaxCrashes
  /\ call \in [Calls -> WriteCalls \union ReadCalls \union {None}]
  /\ writes \in Seq(Writes)
  /\ result \in Answers \union {None}

Init ==
  /\ ttl \in TTLs
  /\ v = None /\ m = None /\ now = 0
  /\ call = [p \in Calls |-> None]
  /\ writes = <<>> /\ result = None /\ crashes = 0

At(p, op, stage) == call[p] # None /\ call[p].op = op /\ call[p].stage = stage
Goes(p, stage) == call' = [call EXCEPT ![p].stage = stage]
Silent == result' = None
Stops(p) == call' = [call EXCEPT ![p] = None]
Over == {n \in DOMAIN writes : writes[n].goes # "on"}

-----------------------------------------------------------------------------
(* put and delete.                                                         *)

\* put: the expiry is reckoned when it begins.
ExpOf_Zero == IF ttl = 0 THEN 0 ELSE now + ttl          \* mutant: no expiry written as 0
ExpOf == IF ttl = 0 THEN None ELSE now + ttl

Begins(p, op, exp) ==
  /\ call[p] = None /\ Len(writes) < MaxWrites
  /\ writes' = Append(writes, [kind |-> op, exp |-> exp, after |-> Over, goes |-> "on"])
  /\ call' = [call EXCEPT ![p] = [op |-> op, id |-> Len(writes) + 1, stage |-> "value"]]
  /\ Silent /\ UNCHANGED <<ttl, v, m, now, crashes>>

Put(p) == Begins(p, "put", ExpOf)
Delete(p) == Begins(p, "delete", None)

Ends(p) == writes' = [writes EXCEPT ![call[p].id].goes = "done"]

\* rename(p.v + tag, p.v)
PutValue(p) ==
  /\ At(p, "put", "value")
  /\ v' = call[p].id
  /\ Goes(p, "meta")
  /\ Silent /\ UNCHANGED <<ttl, m, now, writes, crashes>>

\* rename(p.m + tag, p.m): the last thing put does.
Sidecar_KeepsOld(n) == IF m # None THEN m ELSE [c |-> n, exp |-> writes[n].exp]  \* mutant: written only once
Sidecar(n) == [c |-> n, exp |-> writes[n].exp]
PutMeta(p) ==
  /\ At(p, "put", "meta")
  /\ m' = Sidecar(call[p].id)
  /\ Ends(p) /\ Stops(p)
  /\ Silent /\ UNCHANGED <<ttl, v, now, crashes>>

\* removeFiles: the value, then the sidecar; a file that is not there is no error.
DeleteValue(p) ==
  /\ At(p, "delete", "value")
  /\ v' = None
  /\ Goes(p, "meta")
  /\ Silent /\ UNCHANGED <<ttl, m, now, writes, crashes>>

DeleteMeta(p) ==
  /\ At(p, "delete", "meta")
  /\ m' = None
  /\ Ends(p) /\ Stops(p)
  /\ Silent /\ UNCHANGED <<ttl, v, now, crashes>>

-----------------------------------------------------------------------------
(* entry (get, getWithMetadata) and entries (list, counts, the sweep): the *)
(* value or its name first, the sidecar next, and an expired entry's files *)
(* are removed.                                                            *)

Answer(value, c, after) ==
  result' = [value |-> value, c |-> c, after |-> after, begun |-> DOMAIN writes]

ReadValue(p) ==
  /\ call[p] = None
  /\ IF v = None THEN Answer(None, None, Over) /\ UNCHANGED call
     ELSE /\ call' = [call EXCEPT ![p] =
                        [op |-> "read", seen |-> v, after |-> Over, stage |-> "meta"]]
          /\ Silent
  /\ UNCHANGED <<ttl, v, m, now, writes, crashes>>

Expired_NullIsZero(meta) == IF meta.exp = None THEN TRUE ELSE meta.exp <= now  \* mutant: "meta.exp &&" dropped
Expired(meta) == meta.exp # None /\ meta.exp <= now

\* readMeta answers {null, null} for a sidecar that is not there.
ReadMeta(p) ==
  /\ At(p, "read", "meta")
  /\ LET meta == IF m = None THEN [c |-> None, exp |-> None] ELSE m IN
     IF Expired(meta)
     THEN call' = [call EXCEPT ![p].op = "clean", ![p].stage = "value"] /\ Silent
     ELSE Answer(call[p].seen, meta.c, call[p].after) /\ Stops(p)
  /\ UNCHANGED <<ttl, v, m, now, writes, crashes>>

CleanValue(p) ==
  /\ At(p, "clean", "value")
  /\ v' = None
  /\ Goes(p, "meta")
  /\ Silent /\ UNCHANGED <<ttl, m, now, writes, crashes>>

CleanMeta(p) ==
  /\ At(p, "clean", "meta")
  /\ m' = None
  /\ Answer(None, None, call[p].after) /\ Stops(p)
  /\ UNCHANGED <<ttl, v, now, writes, crashes>>

-----------------------------------------------------------------------------
\* Nothing on a durable key looks at the time.
Tick ==
  /\ now < MaxTime /\ ttl # 0
  /\ now' = now + 1
  /\ Silent /\ UNCHANGED <<ttl, v, m, call, writes, crashes>>

\* The box goes down: what ran is gone and never ends, the files are as they are.
Crash ==
  /\ crashes < MaxCrashes
  /\ crashes' = crashes + 1
  /\ call' = [p \in Calls |-> None]
  /\ writes' = [n \in DOMAIN writes |-> IF writes[n].goes = "on" THEN [writes[n] EXCEPT !.goes = "dead"]
                                        ELSE writes[n]]
  /\ Silent /\ UNCHANGED <<ttl, v, m, now>>

Step(p) ==
  \/ PutValue(p) \/ PutMeta(p) \/ DeleteValue(p) \/ DeleteMeta(p)
  \/ ReadMeta(p) \/ CleanValue(p) \/ CleanMeta(p)

Next ==
  \/ \E p \in Calls : Put(p) \/ Delete(p) \/ ReadValue(p) \/ Step(p)
  \/ Tick
  \/ Crash

Spec == Init /\ [][Next]_vars

-----------------------------------------------------------------------------
(* Properties.                                                             *)

Precedes(j, k) == j \in writes[k].after          \* j was over when k began
Done(k) == writes[k].goes = "done"
Apart(n) == \A k \in result.begun \ {n} : Precedes(k, n) \/ Precedes(n, k)

(* A read answers a value that no write which both followed it and ended   *)
(* before the read has replaced; and of a durable key it finds nothing     *)
(* only if each finished put was met or followed by a delete.              *)
(* store.js:87-99 over any interleaving of calls and crashes.              *)
ReadIsRegular ==
  result # None =>
    /\ result.value # None => ~\E k \in result.after : Done(k) /\ Precedes(result.value, k)
    /\ result.value = None /\ ttl = 0 =>
         \A n \in result.after :
            Done(n) /\ writes[n].kind = "put" =>
              \E k \in result.begun : writes[k].kind = "delete" /\ ~Precedes(k, n)

(* A durable key's value comes with its own clock if its put ended well    *)
(* before the read and no write overlapped the put or the read             *)
(* (store.js:95-97, 73-74).                                                *)
DurablePairFits ==
  /\ result # None /\ ttl = 0
  /\ result.begun \subseteq result.after
  /\ result.value \in result.after /\ Done(result.value) /\ Apart(result.value)
  => result.c = result.value

(* The two files are one place (module Register): a put or delete takes     *)
(* effect when its value file changes, a read answers what it found when   *)
(* it read the value file, and only a key that expires is ever found empty *)
(* undeleted; crashes and other calls in between change nothing about it   *)
(* (store.js:68-99).                                                       *)
DoingOf(c) ==
  IF c = None THEN [op |-> "free"]
  ELSE IF c.op \in {"put", "delete"} THEN [op |-> c.op, id |-> c.id, effect |-> IF c.stage = "meta" THEN "past" ELSE "ahead"]
  ELSE [op |-> "read", got |-> c.seen]
R == INSTANCE Register WITH
  Values <- 1..MaxWrites, durable <- ttl = 0, val <- v,
  doing <- [p \in Calls |-> DoingOf(call[p])],
  answer <- IF result = None THEN None ELSE [value |-> result.value]
StoreIsRegister == R!RegSpec

(* Only an expired entry is removed by those who read (store.js:11-12).    *)
OnlyExpiredIsRemoved ==
  [][\A p \in Calls : CleanValue(p) /\ v # None => writes[v].exp # None /\ writes[v].exp <= now]_vars
=============================================================================
