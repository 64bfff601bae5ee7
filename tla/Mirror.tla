------------------------------- MODULE Mirror -------------------------------
(***************************************************************************)
(* The two doors of the LIJ registry and the loop that keeps them level.   *)
(*                                                                         *)
(* "worker" is the Cloudflare door (src/index.js over KV), "box" the same  *)
(* code under Node over a file store.  Wallets and LSPs send requests to   *)
(* either; every write is stamped with the request's clock and every       *)
(* delete leaves a tombstone (src/mirror.js, clockedStore).  The box runs  *)
(* the Reconciler (node/reconcile.js): it lists both sides, and for each   *)
(* key that differs pulls, pushes or deletes.                              *)
(*                                                                         *)
(* Covered: client requests as check-then-act handlers at both doors, with *)
(*   the clock read when the request starts; an isolate or the box dying   *)
(*   between two store operations, the box also between the two renames of *)
(*   a put; every await of the cycle as a step of its own; lost and failed *)
(*   calls whose handler runs on at the worker, and may die there; the     *)
(*   worker's eventually consistent listing; MAX_OPS; keys written before  *)
(*   clocks existed.                                                       *)
(* Not covered here: expiry of values and tombstones, signatures and their *)
(*   windows, what a reader sees between the two files of a put (module    *)
(*   FileStore), the page boundaries of the worker's listing (KV's lag     *)
(*   subsumes them).                                                       *)
(***************************************************************************)
EXTENDS MirrorRules, FiniteSets

CONSTANTS
  Keys,        \* numbers, in the order the cycle visits the names
  Kind,        \* the record rule of each key
  Slots,       \* numbers of the requests that may be open at once
  Ranks,       \* ts / version numbers clients sign
  Legacy,      \* keys the worker holds from before 0.17.0: no clock
  MaxClock,    \* bound: the doors' clocks
  MaxReqs,     \* bound: client requests ever
  MaxOps,      \* MAX_OPS of reconcile.js
  MaxFails,    \* bound: cycles that end in an error
  MaxDeaths,   \* bound: handlers killed half way, tombstones' puts that fail
  KvLags,      \* may the worker's listing lag behind its values?
  Ties         \* may two requests for one key carry the same clock?

Doors == {"box", "worker"}

ASSUME KeysAssumption == Keys \subseteq Nat /\ Kind \in [Keys -> RecordKinds] /\ Legacy \subseteq Keys
ASSUME RanksAssumption == Ranks \subseteq Nat /\ Ranks # {} /\ Slots \subseteq Nat
ASSUME BoundsAssumption == {MaxClock, MaxReqs, MaxOps, MaxFails, MaxDeaths} \subseteq Nat /\ MaxOps > 0
ASSUME SwitchAssumption == {KvLags, Ties} \subseteq BOOLEAN
ASSUME NoneAssumption == /\ None \notin Nat
                         /\ None \notin [kind : {"v", "t"}, c : Nat]
                         /\ None \notin Stamped
                         /\ None \notin [k : Keys, op : {"put", "del"}, val : Stamped,
                                        stage : {"check", "write", "delete", "bury"}]

VARIABLES
  value,    \* per door and key: the stored value or None
  tomb,     \* per door and key: the clock of tomb:<key> or None
  index,    \* per key: what the worker's KV listing shows of value and tomb
  clock,    \* per door: Date.now()
  req,      \* per slot: the open client request or None
  pc,       \* where the box's cycle stands
  rlist,    \* per key: the worker's side as listed, {kind, c} or None
  llist,    \* per key: the box's listed clocks, [v, t]
  todo,     \* names the cycle has not looked at yet
  cur,      \* the name the cycle is at
  hand,     \* the value pull or push carries, or None
  ops,      \* dispatches this cycle has left
  calls,    \* mirror handlers at the worker; the cycle awaits calls[fails]
  asked,    \* history: every write and delete a client has sent
  sent,     \* how many that is
  fails,    \* cycles that ended in an error
  deaths,   \* handlers killed so far
  calm,     \* history: no client request and no late call since the cycle began
  fresh     \* history: the worker's listing was current when the cycle read it

stores  == <<value, tomb, index>>
clients == <<clock, req, asked, sent>>
cycle   == <<pc, rlist, llist, todo, cur, hand, ops>>
world   == <<fails, deaths, calm, fresh>>
vars    == <<stores, clients, cycle, calls, world>>

CallSlots == 0..MaxFails
ListedClocks == [v : Nat \union {None}, t : Nat \union {None}]
Requests == [d : Doors, k : Keys, op : {"put"}, val : Stamped, stage : {"check", "write"}]
            \union [d : Doors, k : Keys, op : {"del"}, val : Stamped, stage : {"check", "delete", "bury"}]
Calls    == [k : Keys, op : {"put"}, val : Stamped, stage : {"check", "write"}]
            \union [k : Keys, op : {"del"}, val : Stamped, stage : {"check", "delete", "bury"}]
Asked    == [k : Keys, op : {"put", "del"}, val : Stamped]
Steps    == {"idle", "listed", "values", "tombs", "scan", "pull", "pullcheck", "pullwrite",
             "push", "wait", "drop", "dropdelete", "dropbury"}

ClockOf(v) == IF v = None THEN None ELSE v.c
Actual(d, k) == [v |-> ClockOf(value[d][k]), t |-> tomb[d][k]]
SideOf(l) == SideState(l.v, l.t)
WorkerListing == IF KvLags THEN index ELSE [k \in Keys |-> Actual("worker", k)]

NoSide == [k \in Keys |-> None]
NoClocks == [v |-> None, t |-> None]
ClientsRest == \A s \in Slots : req[s] = None
CallsOver == \A f \in CallSlots : calls[f] = None

LegacyValue == [by |-> 0, rank |-> CHOOSE r \in Ranks : TRUE, c |-> 0]

Init ==
  /\ value = [d \in Doors |-> [k \in Keys |->
                IF d = "worker" /\ k \in Legacy THEN LegacyValue ELSE None]]
  /\ tomb = [d \in Doors |-> [k \in Keys |-> None]]
  /\ index = [k \in Keys |-> Actual("worker", k)]
  /\ clock = [d \in Doors |-> 1]
  /\ req = [s \in Slots |-> None]
  /\ pc = "idle" /\ rlist = NoSide /\ llist = [k \in Keys |-> NoClocks]
  /\ todo = {} /\ cur \in Keys /\ hand = None /\ ops = 0
  /\ calls = [f \in CallSlots |-> None]
  /\ asked = {[k |-> k, op |-> "put", val |-> LegacyValue] : k \in Legacy}
  /\ sent = 0 /\ fails = 0 /\ deaths = 0 /\ calm = FALSE /\ fresh = FALSE

SetValue(d, k, v) == value' = [value EXCEPT ![d][k] = v]
SetTomb(d, k, c)  == tomb' = [tomb EXCEPT ![d][k] = c]

-----------------------------------------------------------------------------
(* A put at the box renames the value's file and then its sidecar's.  Cut  *)
(* between the two, the value is there under the clock of the one before,  *)
(* or under none: 0.                                                       *)

CutValue(v, old) == [v EXCEPT !.c = IF old = None THEN 0 ELSE old.c]
CutTomb(old) == IF old = None THEN 0 ELSE old

\* The puts under way at the box: of its requests, and of its cycle.
BoxPuts ==
  {req[s] : s \in {z \in Slots : req[z] # None /\ req[z].d = "box" /\ req[z].stage \in {"write", "bury"}}}
LoopPuts ==
  {p \in [k : {cur}, op : {"put", "del"}, val : {hand}] :
     pc = IF p.op = "put" THEN "pullwrite" ELSE "dropbury"}

\* At most one of the puts is between its renames.
CutsOne(puts) ==
  \/ UNCHANGED <<value, tomb>>
  \/ \E p \in puts :
       IF p.op = "put"
       THEN SetValue("box", p.k, CutValue(p.val, value["box"][p.k])) /\ UNCHANGED tomb
       ELSE SetTomb("box", p.k, CutTomb(tomb["box"][p.k])) /\ UNCHANGED value

-----------------------------------------------------------------------------
(* Client requests.  One handler runs fetch() of index.js at door d.       *)

(***************************************************************************)
(* What the door's own route lets through, once it has read the record: a  *)
(* registration may repeat its ts, a copy may not repeat its version; an   *)
(* LSP departs with a newer ts; a name is released if it is there, and a   *)
(* wallet may forget what is not.                                          *)
(***************************************************************************)
AdmitsRegister(rank, stored) == stored = None \/ rank >= stored.rank
AdmitsPush(rank, stored) == stored = None \/ rank > stored.rank
AdmitsUnregister(rank, stored) == stored # None /\ rank > stored.rank

RouteAdmits(r, stored) ==
  LET kind == Kind[r.k] IN
  IF r.op = "put"
  THEN /\ kind = "lsp" => AdmitsRegister(r.val.rank, stored)
       /\ kind = "backup" => AdmitsPush(r.val.rank, stored)
  ELSE /\ kind = "lsp" => AdmitsUnregister(r.val.rank, stored)
       /\ kind = "plain" => stored # None

\* The clock is read here, before the handler awaits anything (clockedStore(rawKv, Date.now())).
Begin(s, d, k, op, rank, c) ==
  /\ req[s] = None
  /\ \A z \in Slots : req[z] = None => s <= z      \* slots are alike: take the first free one
  /\ sent < MaxReqs
  /\ c >= clock[d]
  /\ ~Ties => \A a \in asked : a.k = k => a.val.c # c
  /\ LET v == [by |-> sent + 1, rank |-> rank, c |-> c] IN
     /\ req' = [req EXCEPT ![s] = [d |-> d, k |-> k, op |-> op, val |-> v, stage |-> "check"]]
     /\ asked' = asked \union {[k |-> k, op |-> op, val |-> v]}
  /\ sent' = sent + 1
  /\ clock' = [clock EXCEPT ![d] = c]
  /\ calm' = FALSE
  /\ UNCHANGED <<stores, cycle, calls, fails, deaths, fresh>>

\* The route reads the record; a refusal ends the request.
Check(s) ==
  /\ req[s] # None /\ req[s].stage = "check"
  /\ req' = [req EXCEPT ![s] =
       IF ~RouteAdmits(req[s], value[req[s].d][req[s].k]) THEN None
       ELSE [req[s] EXCEPT !.stage = IF req[s].op = "put" THEN "write" ELSE "delete"]]
  /\ UNCHANGED <<stores, clock, asked, sent, cycle, calls, world>>

Write(s) ==
  /\ req[s] # None /\ req[s].stage = "write"
  /\ SetValue(req[s].d, req[s].k, req[s].val)
  /\ req' = [req EXCEPT ![s] = None]
  /\ UNCHANGED <<tomb, index, clock, asked, sent, cycle, calls, world>>

Delete(s) ==
  /\ req[s] # None /\ req[s].stage = "delete"
  /\ SetValue(req[s].d, req[s].k, None)
  /\ req' = [req EXCEPT ![s].stage = "bury"]
  /\ UNCHANGED <<tomb, index, clock, asked, sent, cycle, calls, world>>

\* clockedStore.delete leaves the tombstone after the delete.
Bury(s) ==
  /\ req[s] # None /\ req[s].stage = "bury"
  /\ SetTomb(req[s].d, req[s].k, req[s].val.c)
  /\ req' = [req EXCEPT ![s] = None]
  /\ UNCHANGED <<value, index, clock, asked, sent, cycle, calls, world>>

\* The isolate is evicted, the client's connection is cut, or a store call throws (the
\* tombstone's put is even allowed to fail): the rest of the handler does not run.
ClientDies(s) ==
  /\ req[s] # None /\ deaths < MaxDeaths
  /\ CutsOne({req[s]} \cap BoxPuts)
  /\ req' = [req EXCEPT ![s] = None]
  /\ deaths' = deaths + 1
  /\ UNCHANGED <<index, clock, asked, sent, cycle, calls, fails, calm, fresh>>

IndexCatchesUp(k) ==
  /\ KvLags /\ index[k] # Actual("worker", k)
  /\ index' = [index EXCEPT ![k] = Actual("worker", k)]
  /\ UNCHANGED <<value, tomb, clients, cycle, calls, world>>

-----------------------------------------------------------------------------
(* The box's cycle.  Every await of reconcile.js is a step of its own.     *)

Differs(k) == rlist[k] # SideOf(llist[k])
Left == {k \in todo : Differs(k)}

\* tick -> cycle -> listRemote: GET /mirror/keys.
StartCycle ==
  /\ pc = "idle"
  /\ pc' = "listed"
  /\ rlist' = [k \in Keys |-> SideOf(WorkerListing[k])]
  /\ calm' = (ClientsRest /\ CallsOver)
  /\ fresh' = (WorkerListing = [k \in Keys |-> Actual("worker", k)])
  /\ UNCHANGED <<stores, clients, llist, todo, cur, hand, ops, calls, fails, deaths>>

\* listLocal walks one directory per prefix in no particular order: the tombstones are read
\* before or after the values, and a request may run in between.
ListLocal(first, second) ==
  /\ pc \in {"listed", second}
  /\ llist' = [k \in Keys |-> IF first = "values"
                              THEN [llist[k] EXCEPT !.v = Actual("box", k).v]
                              ELSE [llist[k] EXCEPT !.t = Actual("box", k).t]]
  /\ IF pc = "listed"
     THEN pc' = first /\ UNCHANGED <<todo, ops>>
     ELSE pc' = "scan" /\ todo' = Keys /\ ops' = MaxOps
  /\ UNCHANGED <<stores, clients, rlist, cur, hand, calls, world>>

ListValues == ListLocal("values", "tombs")
ListTombs  == ListLocal("tombs", "values")

\* The least name that differs, if MAX_OPS allows one more.
Dispatch(k) ==
  LET way == Way(rlist[k], SideOf(llist[k]))
      burial == [k |-> k, op |-> "del", stage |-> "check",      \* POST /mirror/delete
                 val |-> [by |-> 0, rank |-> 0, c |-> SideOf(llist[k]).c]]
  IN
  /\ pc = "scan" /\ ops > 0
  /\ k \in Left /\ \A j \in Left : k <= j
  /\ ops' = ops - 1 /\ cur' = k /\ todo' = {j \in todo : j > k}
  /\ IF way = "bury"
     THEN pc' = "wait" /\ calls' = [calls EXCEPT ![fails] = burial]
     ELSE pc' = way /\ UNCHANGED calls
  /\ UNCHANGED <<stores, clients, rlist, llist, hand, world>>

\* Nothing left to move, or MAX_OPS reached (n.left names wait for the next cycle).
EndCycle ==
  /\ pc = "scan" /\ (Left = {} \/ ops = 0)
  /\ pc' = "idle" /\ todo' = {}
  /\ UNCHANGED <<stores, clients, rlist, llist, cur, hand, ops, calls, world>>

Continue == pc' = "scan" /\ hand' = None

\* pull: GET /mirror/get answers the bytes and their clock, or 404.
PullGet ==
  LET v == value["worker"][cur] IN
  /\ pc = "pull"
  /\ IF v = None THEN Continue
     ELSE /\ pc' = "pullcheck"
          /\ hand' = [v EXCEPT !.c = IF v.c > 0 THEN v.c ELSE rlist[cur].c]
  /\ UNCHANGED <<stores, clients, rlist, llist, todo, cur, ops, calls, world>>

PullCheck ==
  /\ pc = "pullcheck"
  /\ IF PullAllows(Kind[cur], hand, value["box"][cur])
     THEN pc' = "pullwrite" /\ UNCHANGED hand
     ELSE Continue
  /\ UNCHANGED <<stores, clients, rlist, llist, todo, cur, ops, calls, world>>

PullWrite ==
  /\ pc = "pullwrite"
  /\ SetValue("box", cur, hand)
  /\ Continue
  /\ UNCHANGED <<tomb, index, clients, rlist, llist, todo, cur, ops, calls, world>>

\* push reads the value again but sends it under the clock that was listed.
PushRead ==
  LET v == value["box"][cur] IN
  /\ pc = "push"
  /\ IF v = None THEN Continue /\ UNCHANGED calls
     ELSE /\ pc' = "wait"
          /\ calls' = [calls EXCEPT ![fails] =
               [k |-> cur, op |-> "put", val |-> [v EXCEPT !.c = llist[cur].v], stage |-> "check"]]
          /\ UNCHANGED hand
  /\ UNCHANGED <<stores, clients, rlist, llist, todo, cur, ops, world>>

\* The answer of the call in flight: its handler has ended.
Answer ==
  /\ pc = "wait" /\ calls[fails] = None
  /\ Continue
  /\ UNCHANGED <<stores, clients, rlist, llist, todo, cur, ops, calls, world>>

\* deleteLocal: read, delete, leave the same tombstone.
DropCheck ==
  /\ pc = "drop"
  /\ pc' = IF DeleteAllows(rlist[cur].c, value["box"][cur], tomb["box"][cur])
           THEN "dropdelete" ELSE "scan"
  /\ UNCHANGED <<stores, clients, rlist, llist, todo, cur, hand, ops, calls, world>>

DropDelete ==
  /\ pc = "dropdelete"
  /\ SetValue("box", cur, None)
  /\ pc' = "dropbury"
  /\ UNCHANGED <<tomb, index, clients, rlist, llist, todo, cur, hand, ops, calls, world>>

DropBury ==
  /\ pc = "dropbury"
  /\ SetTomb("box", cur, rlist[cur].c)
  /\ pc' = "scan"
  /\ UNCHANGED <<value, index, clients, rlist, llist, todo, cur, hand, ops, calls, world>>

\* tick's catch: the rest of the cycle is dropped and the next tick starts afresh.  A call in
\* flight never arrived, or its answer is lost and its handler runs on at the worker.
Abandon ==
  /\ fails < MaxFails
  /\ fails' = fails + 1
  /\ pc' = "idle" /\ todo' = {} /\ hand' = None /\ calm' = FALSE
  /\ \/ UNCHANGED calls
     \/ /\ calls[fails] # None /\ calls[fails].stage = "check"
        /\ calls' = [calls EXCEPT ![fails] = None]
  /\ UNCHANGED <<index, clock, asked, sent, rlist, llist, cur, ops, fresh>>

\* A call or a file operation of the cycle fails.
CycleFails == pc # "idle" /\ Abandon /\ CutsOne(LoopPuts) /\ UNCHANGED <<req, deaths>>

\* The box stops between any two steps: its cycle and its open requests are gone.
BoxRestarts ==
  /\ deaths < MaxDeaths /\ deaths' = deaths + 1
  /\ Abandon /\ CutsOne(BoxPuts \union LoopPuts)
  /\ req' = [s \in Slots |-> IF req[s] # None /\ req[s].d = "box" THEN None ELSE req[s]]

-----------------------------------------------------------------------------
(* The worker's /mirror/put and /mirror/delete handlers, run from the raw  *)
(* store: they stamp the clock they are handed.                            *)

CallAllowed(c) ==
  LET stored == value["worker"][c.k]
      buried == tomb["worker"][c.k]
  IN IF c.op = "put" THEN MirrorPutAllows(Kind[c.k], c.val, stored, buried)
     ELSE DeleteAllows(c.val.c, stored, buried)

AfterCheck(c) ==
  IF c.op = "put" THEN "write"
  ELSE IF value["worker"][c.k] # None THEN "delete" ELSE "bury"

CallCheck(f) ==
  /\ calls[f] # None /\ calls[f].stage = "check" /\ calls[f].val.c > 0
  /\ calls' = [calls EXCEPT ![f] = IF CallAllowed(calls[f])
                                   THEN [calls[f] EXCEPT !.stage = AfterCheck(calls[f])]
                                   ELSE None]
  /\ UNCHANGED <<stores, clients, cycle, world>>

\* 'bad clock', 400: the box's call throws, and with it the whole cycle.
CallBadClock(f) ==
  /\ calls[f] # None /\ calls[f].stage = "check" /\ calls[f].val.c = 0
  /\ calls' = [calls EXCEPT ![f] = None]
  /\ IF pc = "wait" /\ f = fails
     THEN pc' = "idle" /\ todo' = {} /\ UNCHANGED hand
     ELSE UNCHANGED <<pc, todo, hand>>
  /\ UNCHANGED <<stores, clients, rlist, llist, cur, ops, world>>

CallWrite(f) ==
  /\ calls[f] # None /\ calls[f].stage = "write"
  /\ SetValue("worker", calls[f].k, calls[f].val)
  /\ calls' = [calls EXCEPT ![f] = None]
  /\ UNCHANGED <<tomb, index, clients, cycle, world>>

CallDelete(f) ==
  /\ calls[f] # None /\ calls[f].stage = "delete"
  /\ SetValue("worker", calls[f].k, None)
  /\ calls' = [calls EXCEPT ![f].stage = "bury"]
  /\ UNCHANGED <<tomb, index, clients, cycle, world>>

CallBury(f) ==
  /\ calls[f] # None /\ calls[f].stage = "bury"
  /\ SetTomb("worker", calls[f].k, calls[f].val.c)
  /\ calls' = [calls EXCEPT ![f] = None]
  /\ UNCHANGED <<value, index, clients, cycle, world>>

\* The put of the tombstone fails, and the handler answers all the same; or the isolate is evicted
\* at work on a call the box has given up on.
CallDies(f) ==
  /\ calls[f] # None /\ deaths < MaxDeaths
  /\ calls[f].stage = "bury" \/ pc # "wait" \/ f # fails
  /\ calls' = [calls EXCEPT ![f] = None]
  /\ deaths' = deaths + 1 /\ calm' = FALSE
  /\ UNCHANGED <<stores, clients, cycle, fails, fresh>>

-----------------------------------------------------------------------------
\* The numbers that rule 4 looks at: a plain key has none, and a forget says no version.
RanksOf(k, op) ==
  IF Kind[k] = "lsp" \/ (Kind[k] = "backup" /\ op = "put") THEN Ranks ELSE {LegacyValue.rank}

Begins ==
  \E s \in Slots, d \in Doors, k \in Keys, op \in {"put", "del"}, c \in 1..MaxClock :
    \E rank \in RanksOf(k, op) : Begin(s, d, k, op, rank, c)

Serve(s) == Check(s) \/ Write(s) \/ Delete(s) \/ Bury(s)

Drive ==
  \/ StartCycle \/ ListValues \/ ListTombs \/ (\E k \in Keys : Dispatch(k)) \/ EndCycle
  \/ PullGet \/ PullCheck \/ PullWrite \/ PushRead \/ Answer
  \/ DropCheck \/ DropDelete \/ DropBury

Handle(f) == CallCheck(f) \/ CallBadClock(f) \/ CallWrite(f) \/ CallDelete(f) \/ CallBury(f)

Next ==
  \/ Begins
  \/ \E s \in Slots : Serve(s) \/ ClientDies(s)
  \/ \E k \in Keys : IndexCatchesUp(k)
  \/ Drive
  \/ CycleFails \/ BoxRestarts
  \/ \E f \in CallSlots : Handle(f) \/ CallDies(f)

Spec == Init /\ [][Next]_vars

\* The timer ticks for ever and every await of the box comes back; a handler that is not
\* killed runs to its end; KV's listing catches up.  Clients and failures promise nothing.
Fairness ==
  /\ WF_vars(Drive)
  /\ \A s \in Slots : WF_vars(Serve(s))
  /\ \A f \in CallSlots : WF_vars(Handle(f))
  /\ \A k \in Keys : WF_vars(IndexCatchesUp(k))

FairSpec == Spec /\ Fairness

-----------------------------------------------------------------------------
(* Properties.                                                             *)

\* Every variable keeps the shape the code gives it; in particular the cycle only reads a listing,
\* a value in hand or an open call where the step it stands at has one.
TypeOK ==
  /\ value \in [Doors -> [Keys -> Stamped \union {None}]]
  /\ tomb \in [Doors -> [Keys -> Nat \union {None}]]
  /\ index \in [Keys -> ListedClocks]
  /\ clock \in [Doors -> Nat]
  /\ req \in [Slots -> Requests \union {None}]
  /\ pc \in Steps
  /\ rlist \in [Keys -> Side] /\ llist \in [Keys -> ListedClocks]
  /\ todo \subseteq Keys /\ cur \in Keys /\ hand \in Stamped \union {None} /\ ops \in 0..MaxOps
  /\ calls \in [CallSlots -> Calls \union {None}]
  /\ asked \subseteq Asked /\ sent \in 0..MaxReqs
  /\ fails \in 0..MaxFails /\ deaths \in 0..MaxDeaths /\ {calm, fresh} \subseteq BOOLEAN
  /\ pc \in {"pullcheck", "pullwrite"} => hand # None
  /\ pc = "pull" => rlist[cur] # None /\ rlist[cur].kind = "v"
  /\ pc \in {"drop", "dropdelete", "dropbury"} => rlist[cur] # None /\ rlist[cur].kind = "t"
  /\ pc = "push" => llist[cur].v # None
  /\ \A f \in CallSlots : f > fails => calls[f] = None

\* A client sent an op for k under clock c; a client sent the bytes of v for k; v mixes the two.
ClockAsked(k, op, c) == \E a \in asked : a.k = k /\ a.op = op /\ a.val.c = c
BytesAsked(k, v) == \E a \in asked : a.k = k /\ a.op = "put" /\ a.val.by = v.by /\ a.val.rank = v.rank
ValueAsked(k, v) == BytesAsked(k, v) /\ ClockAsked(k, "put", v.c)

\* At the box a put may have been cut: there is no clock then.
ClockKept(d, k, op, c) == ClockAsked(k, op, c) \/ (d = "box" /\ c = 0)
ListingKept(d, k, l) ==
  /\ l.v # None => ClockKept(d, k, "put", l.v)
  /\ l.t # None => ClockKept(d, k, "del", l.t)

StoresAuthentic ==
  \A d \in Doors, k \in Keys :
    /\ value[d][k] # None => BytesAsked(k, value[d][k]) /\ ClockKept(d, k, "put", value[d][k].c)
    /\ tomb[d][k] # None => ClockKept(d, k, "del", tomb[d][k])
ListingsAuthentic ==
  \A k \in Keys :
    /\ ListingKept("worker", k, index[k])
    /\ ListingKept("box", k, llist[k])
    /\ rlist[k] # None => ClockAsked(k, IF rlist[k].kind = "v" THEN "put" ELSE "del", rlist[k].c)
RequestsAuthentic ==
  \A s \in Slots : req[s] # None => [k |-> req[s].k, op |-> req[s].op, val |-> req[s].val] \in asked
PullAuthentic == pc \in {"pullcheck", "pullwrite"} => ValueAsked(cur, hand)
CallsAuthentic ==
  \A f \in CallSlots : calls[f] # None =>
    /\ calls[f].op = "put" => BytesAsked(calls[f].k, calls[f].val)
    /\ ClockKept(IF calls[f].stage = "check" THEN "box" ELSE "worker", calls[f].k, calls[f].op, calls[f].val.c)

\* What a door holds under a key, a client sent for that key: the bytes of one of its writes, under
\* the clock of one of its writes; a tombstone carries the clock of one of its deletes.  The same is
\* true of all that is on its way: listings, open requests, the value a pull carries, a late call.
\* However often the mirror copies, lists, retries and crosses calls, it invents nothing and mixes
\* no keys; and a record that a cut put left without a clock never comes past the worker's check.
Authentic ==
  /\ StoresAuthentic
  /\ ListingsAuthentic
  /\ RequestsAuthentic
  /\ PullAuthentic
  /\ CallsAuthentic

\* A record that is at a door stays there, in some version, until a client asks for its deletion:
\* no lost call, failed cycle, lagging listing or race makes the mirror drop it.
Dropped(d, k) == value[d][k] # None /\ value'[d][k] = None
DeleteAsked(k) == \E a \in asked : a.k = k /\ a.op = "del"
NothingDroppedUnasked == [][\A d \in Doors, k \in Keys : Dropped(d, k) => DeleteAsked(k)]_vars

\* One side of a key as Reconciler.state would list it now.
SideNow(d, k) == SideOf(Actual(d, k))
Level(k) == SideNow("box", k) = SideNow("worker", k)

\* The one way two doors may rest apart: the newer clock has the lower ts or version, and rule 4
\* of mirror.js refuses it at the other door.
Blocked(k) ==
  LET b == value["box"][k]
      w == value["worker"][k]
  IN /\ Kind[k] # "plain" /\ b # None /\ w # None
     /\ b.c # w.c /\ (b.c > w.c <=> b.rank < w.rank) /\ b.rank # w.rank

\* The cycle has moved everything it listed.
CycleOver == pc = "scan" /\ Left = {}

\* A cycle that ran undisturbed - no client, no late handler, a current listing, no error - leaves
\* each key at both doors as the newer of the two sides was at its start, unless rule 4 holds it back.
QuietCycleLevels ==
  CycleOver /\ calm /\ fresh =>
    \A k \in Keys :
      \/ \A d \in Doors : SideNow(d, k) = Winner(rlist[k], SideOf(llist[k]))
      \/ Blocked(k)

\* A put at the box and a delete at the worker carry one clock: each side wins at its own door, and
\* /mirror/put refuses the push in every cycle.
SameInstant(k) ==
  LET b == SideNow("box", k)
      w == SideNow("worker", k)
  IN b # None /\ w # None /\ b.kind = "v" /\ w.kind = "t" /\ b.c = w.c

\* The same cycle where two requests may carry one clock: nothing but rule 4 and that one tie is left
\* apart.  The tie the other way round, and ties of a delete with a delete, are settled.
QuietCycleSettles ==
  CycleOver /\ calm /\ fresh =>
    \A k \in Keys :
      \/ \A d \in Doors : SideNow(d, k) = Winner(rlist[k], SideOf(llist[k]))
      \/ Blocked(k) \/ SameInstant(k)

\* With the clients at rest the mirror never takes a door back - to a value with an older clock or a
\* lower ts or version, to an older tombstone, or to nothing for want of a later delete - however
\* stale the worker's listing is ("so a stale listing ... can never roll a record back").
RollsBack(d, k) ==
  LET old == value[d][k]
      new == value'[d][k]
  IN \/ /\ old # None /\ new # None
        /\ new.c < old.c \/ (Kind[k] # "plain" /\ new.rank < old.rank)
     \/ Dropped(d, k) /\ ~(\E a \in asked : a.k = k /\ a.op = "del" /\ a.val.c > old.c)
     \/ tomb[d][k] # None /\ tomb'[d][k] # None /\ tomb'[d][k] < tomb[d][k]
StaleListingRollsNothingBack == [][calm => \A d \in Doors, k \in Keys : ~RollsBack(d, k)]_vars

\* The box has a record or a tombstone without a clock and the worker has nothing: the worker refuses
\* the call with a 400, and that is the end of the cycle, every time.
Poisoned(k) ==
  LET b == SideNow("box", k)
  IN b # None /\ b.c = 0 /\ SideNow("worker", k) = None

\* No cycle gets as far as k: one that is poisoned comes first, or MAX_OPS that are blocked do.
OutOfReach(k) ==
  \/ \E j \in Keys : j <= k /\ Poisoned(j)
  \/ Cardinality({j \in Keys : j < k /\ Blocked(j)}) >= MaxOps

\* Once clients stop sending, each key becomes level at the two doors and stays so - through failed
\* cycles, lost answers, late handlers, cut puts, a lagging listing and more names than one cycle may
\* move - unless rule 4 holds it back or no cycle gets as far as the key.
Converges == <>[](\A k \in Keys : Level(k) \/ Blocked(k) \/ OutOfReach(k))

-----------------------------------------------------------------------------
(* What the documentation says and the code does not keep.                 *)

\* reconcile.js:15: "A cycle moves at most MAX_OPS keys (the rest next cycle)": what rule 4 does not
\* hold back is moved in the end.
RestNextCycle == <>[](\A k \in Keys : Level(k) \/ Blocked(k))

\* reconcile.js:10-12: the receiving side keeps its own guards - a newer clock, no newer tombstone, the
\* record rules of mirror.js:14-15 -, "this loop in its pull": what a pull writes they let through, as
\* the box's store is when it writes.
PullKeepsGuards ==
  [][pc = "pullwrite" /\ pc' = "scan"
       => MirrorPutAllows(Kind[cur], hand, value["box"][cur], tomb["box"][cur])]_vars

=============================================================================
