-------------------------- MODULE MirrorCycleProofs --------------------------
(***************************************************************************)
(* What one undisturbed cycle of Mirror does, for every set of keys and    *)
(* every bound: it rolls nothing back, however stale its listing, and with *)
(* a current listing it settles every key.  The two invariants say what    *)
(* the box and the worker's handler know between two awaits.               *)
(***************************************************************************)
EXTENDS MirrorProofs

USE DEF Doors

\* The cycle is at the name cur.
Moving ==
  pc \in {"pull", "pullcheck", "pullwrite", "push", "wait", "drop", "dropdelete", "dropbury"}

-----------------------------------------------------------------------------
(* What the guards leave true.                                             *)

\* With no client about, a guard that let the cycle or its one call pass still holds when the store
\* is touched.
CallStands(c) ==
  /\ c.stage = "write" =>
       MirrorPutAllows(Kind[c.k], c.val, value["worker"][c.k], tomb["worker"][c.k])
  /\ c.stage = "delete" => DeleteAllows(c.val.c, value["worker"][c.k], tomb["worker"][c.k])
  /\ c.stage = "bury" => TombOlder(c.val.c, tomb["worker"][c.k])

GuardsStand ==
  calm =>
    /\ ClientsRest
    /\ \A f \in CallSlots : calls[f] # None =>
         pc = "wait" /\ f = fails /\ calls[f].k = cur /\ CallStands(calls[f])
    /\ pc = "pullwrite" => PullAllows(Kind[cur], hand, value["box"][cur])
    /\ pc = "dropdelete" => DeleteAllows(rlist[cur].c, value["box"][cur], tomb["box"][cur])
    /\ pc = "dropbury" => TombOlder(rlist[cur].c, tomb["box"][cur])

LEMMA GuardsInit == Init => GuardsStand
BY DEF Init, GuardsStand

LEMMA GuardsServe ==
  ASSUME TypeOK, GuardsStand, calm, NEW s \in Slots, Serve(s) \/ ClientDies(s)
  PROVE  FALSE
BY DEF GuardsStand, ClientsRest, Serve, Check, Write, Delete, Bury, ClientDies

LEMMA GuardsListing ==
  ASSUME TypeOK, GuardsStand,
         StartCycle \/ ListValues \/ ListTombs \/ EndCycle \/ (\E k \in Keys : IndexCatchesUp(k))
  PROVE  GuardsStand'
<1>1. UNCHANGED <<value, tomb, req, calls, fails>>
  BY DEF StartCycle, ListValues, ListTombs, ListLocal, EndCycle, IndexCatchesUp,
         stores, clients, cycle, world
<1>2. CASE StartCycle
  BY <1>1, <1>2 DEF StartCycle, GuardsStand, ClientsRest, CallsOver
<1>3. CASE ListValues \/ ListTombs \/ EndCycle
  BY <1>1, <1>3 DEF ListValues, ListTombs, ListLocal, EndCycle, GuardsStand, ClientsRest, world
<1>4. CASE \E k \in Keys : IndexCatchesUp(k)
  BY <1>1, <1>4 DEF IndexCatchesUp, GuardsStand, ClientsRest, CallStands, cycle, world
<1>. QED  BY <1>2, <1>3, <1>4

LEMMA GuardsDispatch ==
  ASSUME TypeOK, GuardsStand, NEW k \in Keys, Dispatch(k)
  PROVE  GuardsStand'
<1>. DEFINE l == SideOf(llist[k])
            way == Way(rlist[k], l)
            burial == [k |-> k, op |-> "del", stage |-> "check",
                       val |-> [by |-> 0, rank |-> 0, c |-> l.c]]
<1>1. way \in {"pull", "drop", "push", "bury"}
  BY DEF Way
<1>2. calm => \A f \in CallSlots : calls[f] = None
  BY DEF GuardsStand, Dispatch
<1>3. fails \in CallSlots
  BY DEF TypeOK, CallSlots
<1>4. calm => \A f \in CallSlots : calls'[f] # None =>
                 pc' = "wait" /\ f = fails /\ calls'[f].k = k /\ calls'[f].stage = "check"
  <2>1. CASE way = "bury"
    <3>1. pc' = "wait" /\ calls' = [calls EXCEPT ![fails] = burial]
      BY <2>1 DEF Dispatch
    <3>2. burial.k = k /\ burial.stage = "check"
      OBVIOUS
    <3>. HIDE DEF burial
    <3>. QED  BY <1>2, <1>3, <3>1, <3>2 DEF TypeOK
  <2>2. CASE way # "bury"
    BY <1>2, <2>2 DEF Dispatch
  <2>. QED  BY <2>1, <2>2
<1>5. pc' \in {"pull", "drop", "push", "wait"} /\ cur' = k /\ UNCHANGED <<req, fails, calm>>
  BY <1>1 DEF Dispatch, clients, world
<1>. QED
  BY <1>4, <1>5 DEF GuardsStand, ClientsRest, CallStands

LEMMA GuardsMove ==
  ASSUME TypeOK, GuardsStand,
         PullGet \/ PullCheck \/ PullWrite \/ PushRead \/ Answer \/ DropCheck \/ DropDelete \/ DropBury
  PROVE  GuardsStand'
<1>. USE DEF stores, clients, world, Continue
<1>1. UNCHANGED <<cur, rlist, req, fails, calm>>
  BY DEF PullGet, PullCheck, PullWrite, PushRead, Answer, DropCheck, DropDelete, DropBury
<1>2. calm => \A f \in CallSlots : calls[f] = None
  BY DEF GuardsStand, PullGet, PullCheck, PullWrite, PushRead, Answer, DropCheck, DropDelete, DropBury
<1>3. CASE PullGet \/ PullCheck \/ PullWrite \/ Answer
  BY <1>1, <1>2, <1>3 DEF PullGet, PullCheck, PullWrite, Answer, GuardsStand, ClientsRest
<1>4. CASE PushRead
  <2>1. fails \in CallSlots
    BY DEF TypeOK, CallSlots
  <2>2. calm => \A f \in CallSlots : calls'[f] # None =>
                   pc' = "wait" /\ f = fails /\ calls'[f].k = cur /\ calls'[f].stage = "check"
    BY <1>2, <1>4, <2>1 DEF PushRead, TypeOK
  <2>3. pc' \in {"scan", "wait"}
    BY <1>4 DEF PushRead
  <2>. QED
    BY <1>1, <2>2, <2>3 DEF GuardsStand, ClientsRest, CallStands
<1>5. CASE DropCheck
  BY <1>1, <1>2, <1>5 DEF DropCheck, GuardsStand, ClientsRest
<1>6. CASE DropDelete
  BY <1>1, <1>2, <1>6 DEF DropDelete, GuardsStand, ClientsRest, DeleteAllows
<1>7. CASE DropBury
  BY <1>1, <1>2, <1>7 DEF DropBury, GuardsStand, ClientsRest
<1>. QED  BY <1>3, <1>4, <1>5, <1>6, <1>7

LEMMA GuardsHandle ==
  ASSUME TypeOK, GuardsStand, NEW f \in CallSlots, Handle(f)
  PROVE  GuardsStand'
<1>. USE DEF stores, clients, cycle, world
<1>0. SUFFICES ASSUME calm' PROVE GuardsStand'
  BY DEF GuardsStand
<1>1. calm /\ calls[f] # None /\ UNCHANGED <<req, cur, rlist, fails>>
  BY <1>0 DEF Handle, CallCheck, CallBadClock, CallWrite, CallDelete, CallBury
<1>2. /\ pc = "wait" /\ f = fails /\ calls[f].k = cur /\ CallStands(calls[f])
      /\ \A g \in CallSlots : g # f => calls[g] = None
  BY <1>1 DEF GuardsStand
<1>3. calls[f] \in Calls
  BY <1>1 DEF TypeOK
<1>4. /\ pc' \in {"wait", "idle"}
      /\ \A g \in CallSlots : g # f => calls'[g] = None
  BY <1>2 DEF Handle, CallCheck, CallBadClock, CallWrite, CallDelete, CallBury, TypeOK
<1>5. calls'[f] # None => pc' = "wait" /\ calls'[f].k = cur /\ CallStands(calls[f])'
  <2>1. CASE CallCheck(f)
    BY <1>2, <1>3, <2>1 DEF CallCheck, CallAllowed, AfterCheck, CallStands, Calls, TypeOK, DeleteAllows
  <2>2. CASE CallBadClock(f) \/ CallWrite(f) \/ CallBury(f)
    BY <2>2 DEF CallBadClock, CallWrite, CallBury, TypeOK
  <2>3. CASE CallDelete(f)
    BY <1>2, <1>3, <2>3 DEF CallDelete, CallStands, Calls, TypeOK, DeleteAllows
  <2>. QED  BY <2>1, <2>2, <2>3 DEF Handle
<1>. QED
  BY <1>1, <1>2, <1>4, <1>5 DEF GuardsStand, ClientsRest

LEMMA GuardsStep == TypeOK /\ GuardsStand /\ [Next]_vars => GuardsStand'
<1>. SUFFICES ASSUME TypeOK, GuardsStand, [Next]_vars PROVE GuardsStand'
  OBVIOUS
<1>1. CASE Begins \/ CycleFails \/ BoxRestarts
  BY <1>1 DEF Begins, Begin, CycleFails, BoxRestarts, Abandon, GuardsStand
<1>2. ASSUME NEW s \in Slots, Serve(s) \/ ClientDies(s) PROVE GuardsStand'
  <2>1. ~calm /\ calm' = calm
    BY <1>2, GuardsServe DEF Serve, Check, Write, Delete, Bury, ClientDies, world
  <2>. QED  BY <2>1 DEF GuardsStand
<1>3. CASE \E k \in Keys : IndexCatchesUp(k)
  BY <1>3, GuardsListing
<1>4. CASE Drive
  BY <1>4, GuardsListing, GuardsDispatch, GuardsMove DEF Drive
<1>5. CASE \E f \in CallSlots : Handle(f) \/ CallDies(f)
  BY <1>5, GuardsHandle DEF CallDies, GuardsStand
<1>6. CASE UNCHANGED vars
  BY <1>6 DEF vars, stores, clients, cycle, world, GuardsStand, ClientsRest, CallStands
<1>. QED  BY <1>1, <1>2, <1>3, <1>4, <1>5, <1>6 DEF Next

\* Between a guard of the mirror and the write it guards nothing comes, unless a client does or an
\* older call is still at work.
THEOREM GuardsAlwaysStand == Spec => []GuardsStand
<1>1. Init => TypeOK /\ GuardsStand
  BY TypeInit, GuardsInit
<1>2. TypeOK /\ GuardsStand /\ [Next]_vars => TypeOK' /\ GuardsStand'
  BY TypeStep, GuardsStep
<1>. QED  BY <1>1, <1>2, PTL DEF Spec

-----------------------------------------------------------------------------
(* No stale listing rolls a record back.                                   *)

\* A put of the cycle that is cut takes the box's copy no further back than the whole put would.
LEMMA CutRollsNothing ==
  ASSUME TypeOK, GuardsStand, calm, CycleFails \/ BoxRestarts, NEW d \in Doors, NEW k \in Keys
  PROVE  ~RollsBack(d, k)
<1>1. PICK puts \in SUBSET (BoxPuts \union LoopPuts) : CutsOne(puts)
  BY CutIsOpen
<1>2. BoxPuts = {}
  BY DEF BoxPuts, GuardsStand, ClientsRest
<1>3. CASE d = "worker"
  <2>1. UNCHANGED <<value["worker"], tomb["worker"]>>
    BY <1>1, CutLeaves
  <2>. QED  BY <1>3, <2>1 DEF RollsBack, Dropped, TypeOK, Stamped
<1>4. CASE d = "box" /\ value'["box"][k] = value["box"][k]
  <2>1. tomb'["box"][k] = tomb["box"][k] \/ tomb["box"][k] = None
    BY <1>1, CutLeaves
  <2>. QED  BY <1>4, <2>1 DEF RollsBack, Dropped, TypeOK, Stamped
<1>5. CASE d = "box" /\ value'["box"][k] # value["box"][k]
  <2>1. PICK p \in puts :
          /\ p.op = "put" /\ p.k = k /\ value'["box"][k] # None
          /\ value'["box"][k].by = p.val.by /\ value'["box"][k].rank = p.val.rank
          /\ value'["box"][k].c = IF value["box"][k] = None THEN 0 ELSE value["box"][k].c
    BY <1>1, <1>5, CutLeaves
  <2>2. pc = "pullwrite" /\ cur = k /\ p.val = hand
    BY <1>2, <2>1 DEF LoopPuts
  <2>3. PullAllows(Kind[k], hand, value["box"][k]) /\ hand \in Stamped
    BY <2>2, NoneAssumption DEF GuardsStand, TypeOK
  <2>4. tomb'["box"][k] = tomb["box"][k] \/ tomb["box"][k] = None
    BY <1>1, CutLeaves
  <2>. QED
    BY <1>5, <2>1, <2>2, <2>3, <2>4 DEF RollsBack, Dropped, TypeOK, Stamped, PullAllows, RecordAllows
<1>. QED  BY <1>3, <1>4, <1>5

LEMMA RollStep ==
  ASSUME TypeOK, Authentic, GuardsStand, [Next]_vars, calm, NEW d \in Doors, NEW k \in Keys
  PROVE  ~RollsBack(d, k)
<1>. USE DEF RollsBack, Dropped
<1>1. CASE UNCHANGED <<value, tomb>>
  BY <1>1 DEF TypeOK, Stamped
<1>2. ASSUME NEW s \in Slots, Serve(s) \/ ClientDies(s) PROVE FALSE
  BY <1>2, GuardsServe
<1>3. CASE PullWrite
  <2>1. hand \in Stamped /\ PullAllows(Kind[cur], hand, value["box"][cur]) /\ tomb' = tomb
    BY <1>3, NoneAssumption DEF PullWrite, GuardsStand, TypeOK
  <2>2. value' = [value EXCEPT !["box"][cur] = hand]
    BY <1>3 DEF PullWrite, SetValue
  <2>3. hand # None /\ cur \in Keys
    BY <2>1, NoneAssumption DEF TypeOK
  <2>. QED
    BY <2>1, <2>2, <2>3 DEF TypeOK, Stamped, PullAllows, Newer, RecordAllows
<1>4. CASE DropDelete
  <2>1. /\ DeleteAllows(rlist[cur].c, value["box"][cur], tomb["box"][cur])
        /\ ClockAsked(cur, "del", rlist[cur].c)
        /\ rlist[cur].c \in Nat /\ tomb' = tomb
    BY <1>4 DEF DropDelete, GuardsStand, TypeOK, Authentic, ListingsAuthentic, Side
  <2>2. value' = [value EXCEPT !["box"][cur] = None]
    BY <1>4 DEF DropDelete, SetValue
  <2>. QED
    BY <2>1, <2>2 DEF TypeOK, Stamped, DeleteAllows, Newer, ClockAsked
<1>5. CASE DropBury
  <2>1. TombOlder(rlist[cur].c, tomb["box"][cur]) /\ rlist[cur].c \in Nat /\ value' = value
    BY <1>5 DEF DropBury, GuardsStand, TypeOK, Side
  <2>2. tomb' = [tomb EXCEPT !["box"][cur] = rlist[cur].c]
    BY <1>5 DEF DropBury, SetTomb
  <2>. QED
    BY <2>1, <2>2 DEF TypeOK, Stamped, TombOlder
<1>6. ASSUME NEW f \in CallSlots, CallWrite(f) \/ CallDelete(f) \/ CallBury(f)
      PROVE  ~RollsBack(d, k)
  <2>. DEFINE c == calls[f]
  <2>1. c \in Calls /\ CallStands(c) /\ c.k \in Keys /\ c.val \in Stamped /\ c.val.c \in Nat
    BY <1>6 DEF CallWrite, CallDelete, CallBury, TypeOK, GuardsStand, Calls, Stamped
  <2>2. CASE CallWrite(f)
    <3>1. value' = [value EXCEPT !["worker"][c.k] = c.val] /\ tomb' = tomb
      BY <2>2 DEF CallWrite, SetValue
    <3>2. MirrorPutAllows(Kind[c.k], c.val, value["worker"][c.k], tomb["worker"][c.k])
      BY <2>1, <2>2 DEF CallWrite, CallStands
    <3>3. c.val # None
      BY <2>1, NoneAssumption
    <3>. QED
      BY <2>1, <3>1, <3>2, <3>3 DEF TypeOK, Stamped, MirrorPutAllows, Newer, RecordAllows
  <2>3. CASE CallDelete(f)
    <3>1. value' = [value EXCEPT !["worker"][c.k] = None] /\ tomb' = tomb
      BY <2>3 DEF CallDelete, SetValue
    <3>2. DeleteAllows(c.val.c, value["worker"][c.k], tomb["worker"][c.k])
      BY <2>1, <2>3 DEF CallDelete, CallStands
    <3>3. ClockAsked(c.k, "del", c.val.c)
      BY <2>1, <2>3 DEF CallDelete, Authentic, CallsAuthentic, ClockKept, Calls
    <3>. QED
      BY <2>1, <3>1, <3>2, <3>3 DEF TypeOK, Stamped, DeleteAllows, Newer, ClockAsked
  <2>4. CASE CallBury(f)
    <3>1. tomb' = [tomb EXCEPT !["worker"][c.k] = c.val.c] /\ value' = value
      BY <2>4 DEF CallBury, SetTomb
    <3>2. TombOlder(c.val.c, tomb["worker"][c.k])
      BY <2>1, <2>4 DEF CallBury, CallStands
    <3>. QED
      BY <2>1, <3>1, <3>2 DEF TypeOK, Stamped, TombOlder
  <2>. QED  BY <1>6, <2>2, <2>3, <2>4
<1>7. CASE Begins \/ (\E j \in Keys : IndexCatchesUp(j)) \/ UNCHANGED vars
  <2>1. UNCHANGED <<value, tomb>>
    BY <1>7 DEF Begins, Begin, IndexCatchesUp, stores, vars
  <2>. QED  BY <1>1, <2>1
<1>8. CASE Drive
  <2>1. UNCHANGED <<value, tomb>> \/ PullWrite \/ DropDelete \/ DropBury
    BY <1>8 DEF Drive, StartCycle, ListValues, ListTombs, ListLocal, Dispatch, EndCycle, PullGet,
                PullCheck, PushRead, Answer, DropCheck, stores
  <2>. QED  BY <1>1, <1>3, <1>4, <1>5, <2>1
<1>9. ASSUME NEW f \in CallSlots, Handle(f) \/ CallDies(f) PROVE ~RollsBack(d, k)
  <2>1. UNCHANGED <<value, tomb>> \/ CallWrite(f) \/ CallDelete(f) \/ CallBury(f)
    BY <1>9 DEF Handle, CallCheck, CallBadClock, CallDies, stores
  <2>. QED  BY <1>1, <1>6, <2>1
<1>. QED  BY <1>2, <1>7, <1>8, <1>9, CutRollsNothing DEF Next

\* While the clients rest and no older call is at work, no step of the mirror takes a door back to an
\* older value, a lower ts or version or an older tombstone, or drops a record without a later delete:
\* not even when the worker's listing is out of date.
THEOREM NothingRollsBack == Spec => StaleListingRollsNothingBack
<1>1. TypeOK /\ Authentic /\ GuardsStand /\ [Next]_vars
        => [calm => \A d \in Doors, k \in Keys : ~RollsBack(d, k)]_vars
  BY RollStep
<1>. QED
  BY <1>1, TypeCorrect, AllIsAuthentic, GuardsAlwaysStand, PTL DEF Spec, StaleListingRollsNothingBack

-----------------------------------------------------------------------------
(* What each way of copying does to a key nobody else touches.             *)

\* What a side says of the value v and the tombstone t it was made from.
Shows(s, v, t) ==
  /\ s \in Side
  /\ s = None <=> v = None /\ t = None
  /\ s # None /\ s.kind = "v" => v # None /\ s.c = v.c /\ (t = None \/ t <= v.c)
  /\ s # None /\ s.kind = "t" => t # None /\ s.c = t /\ (v = None \/ v.c < t)

LEMMA SideShows ==
  ASSUME NEW v \in Stamped \union {None}, NEW t \in Nat \union {None}
  PROVE  Shows(SideState(ClockOf(v), t), v, t)
<1>1. ClockOf(v) \in Nat \union {None} /\ (v = None <=> ClockOf(v) = None) /\ (v # None => ClockOf(v) = v.c)
  BY NoneAssumption DEF ClockOf, Stamped
<1>. QED  BY <1>1, NoneAssumption DEF Shows, SideState, Side

\* A value no tombstone outdates is listed, and so is a tombstone without a value.
LEMMA SideMade ==
  ASSUME NEW c \in Nat, NEW t \in Nat \union {None}
  PROVE  /\ t = None \/ t <= c => SideState(c, t) = [kind |-> "v", c |-> c]
         /\ SideState(None, c) = [kind |-> "t", c |-> c]
BY NoneAssumption DEF SideState

\* The way taken says which side wins, and by how much.
LEMMA WayParts ==
  ASSUME NEW r \in Side, NEW l \in Side, r # l
  PROVE  /\ Way(r, l) = "pull" =>
              /\ r # None /\ r.kind = "v" /\ Winner(r, l) = r
              /\ l = None \/ l.c < r.c \/ (l.c = r.c /\ l.kind = "t")
         /\ Way(r, l) = "drop" =>
              /\ r # None /\ r.kind = "t" /\ Winner(r, l) = r
              /\ l = None \/ l.c < r.c
         /\ Way(r, l) = "push" =>
              /\ l # None /\ l.kind = "v" /\ Winner(r, l) = l
              /\ r = None \/ r.c < l.c \/ (r.c = l.c /\ r.kind = "t")
         /\ Way(r, l) = "bury" =>
              /\ l # None /\ l.kind = "t" /\ Winner(r, l) = l
              /\ r = None \/ r.c < l.c
BY DEF Way, RemoteWins, Winner, Side

\* A deletion that is copied to a door is later than what that door holds.
LEMMA DeleteTakes ==
  ASSUME NEW v \in Stamped \union {None}, NEW t \in Nat \union {None}, NEW s, Shows(s, v, t),
         NEW w \in Side, w # None, w.kind = "t", s = None \/ s.c < w.c
  PROVE  DeleteAllows(w.c, v, t) /\ SideState(None, w.c) = w
<1>1. w.c \in Nat /\ w = [kind |-> "t", c |-> w.c]
  BY DEF Side
<1>2. SideState(None, w.c) = w
  BY <1>1, SideMade
<1>3. CASE s = None
  BY <1>2, <1>3 DEF Shows, DeleteAllows, Newer, TombOlder
<1>4. CASE s # None /\ s.kind = "v"
  BY <1>1, <1>2, <1>4 DEF Shows, DeleteAllows, Newer, TombOlder, Stamped
<1>5. CASE s # None /\ s.kind = "t"
  BY <1>1, <1>2, <1>5 DEF Shows, DeleteAllows, Newer, TombOlder, Stamped
<1>. QED  BY <1>3, <1>4, <1>5 DEF Shows, Side

-----------------------------------------------------------------------------
(* How far an undisturbed cycle has come.                                  *)

\* Both doors hold under k what the cycle listed.
Untouched(k) == rlist[k] = SideNow("worker", k) /\ llist[k] = Actual("box", k)

\* The cycle is through with k.
Settled(k) ==
  \/ \A d \in Doors : SideNow(d, k) = Winner(rlist[k], SideOf(llist[k]))
  \/ Blocked(k) \/ SameInstant(k)

\* The sides of cur differ and w is the way to level them.
Pending(w) == rlist[cur] # SideOf(llist[cur]) /\ Way(rlist[cur], SideOf(llist[cur])) = w

CallPending(c) ==
  IF c = None THEN Settled(cur)
  ELSE IF c.op = "put" THEN Untouched(cur) /\ Pending("push") /\ c.val = value["box"][cur]
  ELSE /\ Pending("bury") /\ c.val.c = SideOf(llist[cur]).c
       /\ IF c.stage = "bury"
          THEN llist[cur] = Actual("box", cur) /\ value["worker"][cur] = None
          ELSE Untouched(cur)

AtCur ==
  /\ pc = "pull" => Untouched(cur) /\ Pending("pull")
  /\ pc \in {"pullcheck", "pullwrite"} =>
       Untouched(cur) /\ Pending("pull") /\ hand = value["worker"][cur]
  /\ pc = "push" => Untouched(cur) /\ Pending("push")
  /\ pc = "wait" => CallPending(calls[fails])
  /\ pc \in {"drop", "dropdelete"} => Untouched(cur) /\ Pending("drop")
  /\ pc = "dropbury" =>
       Pending("drop") /\ rlist[cur] = SideNow("worker", cur) /\ value["box"][cur] = None

Scanned ==
  \A k \in Keys : IF k \in todo THEN Untouched(k) ELSE (Moving /\ k = cur) \/ Settled(k)

ListsFit ==
  /\ pc \in {"listed", "values", "tombs"} => \A k \in Keys : rlist[k] = SideNow("worker", k)
  /\ pc = "values" => \A k \in Keys : llist[k].v = Actual("box", k).v
  /\ pc = "tombs" => \A k \in Keys : llist[k].t = Actual("box", k).t

\* What the cycle has not reached is as it was listed, what it has passed is settled, and in between
\* is the one name it is moving.
Levelling ==
  calm /\ fresh =>
    /\ ListsFit
    /\ pc = "scan" \/ Moving => Scanned
    /\ Moving => cur \notin todo /\ AtCur

\* The two sides of a key, while it is untouched.
LEMMA UntouchedShows ==
  ASSUME TypeOK, NEW k \in Keys
  PROVE  /\ \A d \in Doors : Shows(SideNow(d, k), value[d][k], tomb[d][k])
         /\ Untouched(k) =>
              /\ SideOf(llist[k]) = SideNow("box", k)
              /\ Shows(rlist[k], value["worker"][k], tomb["worker"][k])
              /\ Shows(SideOf(llist[k]), value["box"][k], tomb["box"][k])
<1>1. \A d \in Doors : Shows(SideNow(d, k), value[d][k], tomb[d][k])
  BY SideShows DEF SideNow, SideOf, Actual, TypeOK
<1>2. Untouched(k) => SideOf(llist[k]) = SideNow("box", k)
  BY DEF Untouched, SideNow
<1>. QED  BY <1>1, <1>2 DEF Untouched

\* A value that is pulled is newer than the box's, and with it the box shows the worker's side.
LEMMA PullTakes ==
  ASSUME TypeOK, Untouched(cur), Pending("pull")
  PROVE  LET w == value["worker"][cur]
             b == value["box"][cur]
             r == rlist[cur]
         IN /\ w # None /\ r.c = w.c /\ Newer(w.c, b)
            /\ SideState(w.c, tomb["box"][cur]) = r
            /\ Winner(r, SideOf(llist[cur])) = r
<1>. DEFINE w == value["worker"][cur]
            b == value["box"][cur]
            wt == tomb["worker"][cur]
            bt == tomb["box"][cur]
            r == rlist[cur]
            l == SideOf(llist[cur])
<1>0. /\ Shows(r, w, wt) /\ Shows(l, b, bt) /\ r # l /\ Way(r, l) = "pull"
      /\ w \in Stamped \union {None} /\ b \in Stamped \union {None}
      /\ wt \in Nat \union {None} /\ bt \in Nat \union {None}
  BY UntouchedShows DEF TypeOK, Pending
<1>. HIDE DEF w, b, wt, bt, r, l
<1>1. r \in Side /\ l \in Side
  BY <1>0 DEF Shows
<1>2. /\ r # None /\ r.kind = "v" /\ Winner(r, l) = r
      /\ l = None \/ l.c < r.c \/ (l.c = r.c /\ l.kind = "t")
  BY <1>0, <1>1, WayParts
<1>3. w # None /\ r.c = w.c /\ w.c \in Nat /\ r = [kind |-> "v", c |-> w.c]
  BY <1>0, <1>1, <1>2 DEF Shows, Stamped, Side
<1>4. Newer(w.c, b) /\ (bt = None \/ bt <= w.c)
  <2>1. CASE l = None
    BY <1>0, <2>1 DEF Newer, Shows
  <2>2. CASE l # None /\ l.kind = "v"
    BY <1>0, <1>2, <1>3, <2>2 DEF Newer, Shows, Stamped
  <2>3. CASE l # None /\ l.kind = "t"
    BY <1>0, <1>2, <1>3, <2>3 DEF Newer, Shows, Stamped
  <2>. QED  BY <1>1, <2>1, <2>2, <2>3 DEF Side
<1>5. SideState(w.c, bt) = [kind |-> "v", c |-> w.c]
  BY <1>3, <1>4, <1>0, SideMade
<1>. QED  BY <1>0, <1>2, <1>3, <1>4, <1>5 DEF w, b, wt, bt, r, l

\* A value that is pushed is newer than the worker's, and newer than the worker's tombstone unless the
\* two carry one clock.
LEMMA PushTakes ==
  ASSUME TypeOK, Untouched(cur), Pending("push")
  PROVE  LET w == value["worker"][cur]
             b == value["box"][cur]
             wt == tomb["worker"][cur]
             r == rlist[cur]
             l == SideOf(llist[cur])
         IN /\ b # None /\ l # None /\ l.kind = "v" /\ l.c = b.c /\ Newer(b.c, w)
            /\ TombOlder(b.c, wt) \/ (r # None /\ r.kind = "t" /\ r.c = b.c)
            /\ TombOlder(b.c, wt) => SideState(b.c, wt) = l
            /\ Winner(r, l) = l
<1>. DEFINE w == value["worker"][cur]
            b == value["box"][cur]
            wt == tomb["worker"][cur]
            bt == tomb["box"][cur]
            r == rlist[cur]
            l == SideOf(llist[cur])
<1>0. /\ Shows(r, w, wt) /\ Shows(l, b, bt) /\ r # l /\ Way(r, l) = "push"
      /\ w \in Stamped \union {None} /\ b \in Stamped \union {None}
      /\ wt \in Nat \union {None} /\ bt \in Nat \union {None}
  BY UntouchedShows DEF TypeOK, Pending
<1>. HIDE DEF w, b, wt, bt, r, l
<1>1. r \in Side /\ l \in Side
  BY <1>0 DEF Shows
<1>2. /\ l # None /\ l.kind = "v" /\ Winner(r, l) = l
      /\ r = None \/ r.c < l.c \/ (r.c = l.c /\ r.kind = "t")
  BY <1>0, <1>1, WayParts
<1>3. b # None /\ l.c = b.c /\ b.c \in Nat /\ l = [kind |-> "v", c |-> b.c]
  BY <1>0, <1>1, <1>2 DEF Shows, Stamped, Side
<1>4. Newer(b.c, w) /\ (TombOlder(b.c, wt) \/ (r # None /\ r.kind = "t" /\ r.c = b.c))
  <2>1. CASE r = None
    BY <1>0, <2>1 DEF Newer, TombOlder, Shows
  <2>2. CASE r # None /\ r.kind = "v"
    BY <1>0, <1>2, <1>3, <2>2 DEF Newer, TombOlder, Shows, Stamped
  <2>3. CASE r # None /\ r.kind = "t"
    BY <1>0, <1>2, <1>3, <2>3 DEF Newer, TombOlder, Shows, Stamped
  <2>. QED  BY <1>1, <2>1, <2>2, <2>3 DEF Side
<1>5. TombOlder(b.c, wt) => SideState(b.c, wt) = [kind |-> "v", c |-> b.c]
  <2>1. b.c \in Nat /\ wt \in Nat \union {None}
    BY <1>0, <1>3
  <2>2. TombOlder(b.c, wt) => wt = None \/ wt <= b.c
    BY <2>1 DEF TombOlder
  <2>. QED  BY <2>1, <2>2, SideMade
<1>6. TombOlder(b.c, wt) => SideState(b.c, wt) = l
  BY <1>3, <1>5, Zenon
<1>. QED  BY <1>2, <1>3, <1>4, <1>6 DEF w, b, wt, r, l

\* A step that leaves the doors and the listings of k alone leaves k as it is.
LEMMA SameKey ==
  ASSUME NEW k \in Keys, rlist'[k] = rlist[k], llist'[k] = llist[k],
         \A d \in Doors : value'[d][k] = value[d][k] /\ tomb'[d][k] = tomb[d][k]
  PROVE  (Untouched(k)' <=> Untouched(k)) /\ (Settled(k)' <=> Settled(k))
<1>1. \A d \in Doors : Actual(d, k)' = Actual(d, k) /\ SideNow(d, k)' = SideNow(d, k)
  BY DEF Actual, ClockOf, SideNow, SideOf
<1>. QED
  BY <1>1 DEF Untouched, Settled, Blocked, SameInstant, SideOf

\* A step at cur leaves the other names as they are.
LEMMA Elsewhere ==
  ASSUME TypeOK, Levelling, calm, fresh, Moving, UNCHANGED <<rlist, llist, todo, cur>>,
         \A d \in Doors : \A k \in Keys : k # cur => value'[d][k] = value[d][k] /\ tomb'[d][k] = tomb[d][k]
  PROVE  /\ cur \notin todo'
         /\ \A k \in Keys : k # cur => IF k \in todo' THEN Untouched(k)' ELSE Settled(k)'
<1>1. \A k \in Keys : k # cur =>
        (Untouched(k)' <=> Untouched(k)) /\ (Settled(k)' <=> Settled(k))
  BY SameKey
<1>. QED
  BY <1>1 DEF Levelling, Scanned

LEMMA LevellingInit == Init => Levelling
BY DEF Init, Levelling

LEMMA LevellingListing ==
  ASSUME TypeOK, Levelling, StartCycle \/ ListValues \/ ListTombs \/ EndCycle
  PROVE  Levelling'
<1>. USE DEF stores, clients, world
<1>0. SUFFICES ASSUME calm', fresh' PROVE Levelling'
  BY DEF Levelling
<1>1. \A d \in Doors, k \in Keys : Actual(d, k)' = Actual(d, k) /\ SideNow(d, k)' = SideNow(d, k)
  BY DEF StartCycle, ListValues, ListTombs, ListLocal, EndCycle, Actual, ClockOf, SideNow, SideOf
<1>2. CASE StartCycle
  <2>1. \A k \in Keys : rlist'[k] = SideOf(Actual("worker", k))
    BY <1>0, <1>2 DEF StartCycle
  <2>2. \A k \in Keys : rlist'[k] = SideNow("worker", k)'
    BY <1>1, <2>1 DEF SideNow
  <2>. QED  BY <1>2, <2>2 DEF StartCycle, Levelling, ListsFit, Moving
<1>3. ASSUME NEW first \in {"values", "tombs"}, NEW second \in {"values", "tombs"}, first # second,
             ListLocal(first, second)
      PROVE  Levelling'
  <2>1. calm /\ fresh
    BY <1>0, <1>3 DEF ListLocal
  <2>2. \A k \in Keys : rlist'[k] = SideNow("worker", k)'
    BY <1>1, <1>3, <2>1 DEF ListLocal, Levelling, ListsFit
  <2>3. \A k \in Keys : /\ Actual("box", k) \in ListedClocks
                        /\ llist[k] \in ListedClocks /\ llist'[k] \in ListedClocks
    BY <1>3, ActualShape DEF ListLocal, TypeOK, ListedClocks
  <2>4. \A k \in Keys : IF first = "values" THEN /\ llist'[k].v = Actual("box", k).v
                                                 /\ llist'[k].t = llist[k].t
                                            ELSE /\ llist'[k].t = Actual("box", k).t
                                                 /\ llist'[k].v = llist[k].v
    BY <1>3, <2>3 DEF ListLocal, ListedClocks
  <2>5. CASE pc = "listed"
    BY <1>1, <1>3, <2>2, <2>4, <2>5 DEF ListLocal, Levelling, ListsFit, Moving
  <2>6. CASE pc # "listed"
    <3>1. \A k \in Keys : llist'[k].v = Actual("box", k).v /\ llist'[k].t = Actual("box", k).t
      BY <1>3, <2>1, <2>4, <2>6 DEF ListLocal, Levelling, ListsFit
    <3>2. \A k \in Keys : llist'[k] = Actual("box", k)
      BY <2>3, <3>1 DEF ListedClocks
    <3>3. \A k \in Keys : Untouched(k)'
      BY <1>1, <2>2, <3>2 DEF Untouched
    <3>4. pc' = "scan" /\ todo' = Keys
      BY <1>3, <2>6 DEF ListLocal
    <3>. QED  BY <3>3, <3>4 DEF Levelling, ListsFit, Scanned, Moving
  <2>. QED  BY <2>5, <2>6
<1>4. CASE EndCycle
  BY <1>4 DEF EndCycle, Levelling, ListsFit, Moving
<1>. QED  BY <1>2, <1>3, <1>4 DEF ListValues, ListTombs

LEMMA LevellingDispatch ==
  ASSUME TypeOK, GuardsStand, Levelling, NEW k \in Keys, Dispatch(k)
  PROVE  Levelling'
<1>. DEFINE r == rlist[k]
            l == SideOf(llist[k])
            way == Way(r, l)
            burial == [k |-> k, op |-> "del", stage |-> "check",
                       val |-> [by |-> 0, rank |-> 0, c |-> l.c]]
<1>. USE DEF stores, clients, world
<1>0. SUFFICES ASSUME calm', fresh' PROVE Levelling'
  BY DEF Levelling
<1>1. calm /\ fresh /\ Scanned /\ pc = "scan" /\ UNCHANGED <<value, tomb, rlist, llist, fails, hand>>
  BY <1>0 DEF Dispatch, Levelling
<1>2. k \in todo /\ r # l /\ cur' = k /\ k \notin todo' /\ todo' \subseteq todo
  BY KeysAssumption DEF Dispatch, Left, Differs
<1>3. \A j \in Keys : (Untouched(j)' <=> Untouched(j)) /\ (Settled(j)' <=> Settled(j))
  BY <1>1, SameKey
<1>4. \A j \in Keys : j \in todo /\ j < k => Settled(j)
  <2>1. SUFFICES ASSUME NEW j \in Keys, j \in todo, j < k PROVE Settled(j)
    OBVIOUS
  <2>2. ~(k <= j)
    BY <2>1, KeysAssumption
  <2>3. rlist[j] = SideOf(llist[j])
    BY <2>1, <2>2 DEF Dispatch, Left, Differs
  <2>4. rlist[j] = SideNow("worker", j) /\ SideOf(llist[j]) = SideNow("box", j)
    BY <1>1, <2>1, UntouchedShows DEF Scanned, Untouched
  <2>. QED  BY <2>3, <2>4 DEF Settled, Winner
<1>5. \A j \in Keys : IF j \in todo' THEN Untouched(j) ELSE j = k \/ Settled(j)
  <2>1. SUFFICES ASSUME NEW j \in Keys, j \notin todo', j # k PROVE Settled(j)
    BY <1>1, <1>2 DEF Scanned
  <2>2. CASE j \in todo
    BY <1>4, <2>1, <2>2, KeysAssumption DEF Dispatch
  <2>3. CASE j \notin todo
    BY <1>1, <2>3 DEF Scanned, Moving
  <2>. QED  BY <2>2, <2>3
<1>6. PICK w \in {"pull", "drop", "push", "bury"} : way = w
  BY DEF Way
<1>7. Untouched(k)' /\ Pending(w)'
  BY <1>1, <1>2, <1>3, <1>6 DEF Scanned, Pending, SideOf
<1>8. Moving' /\ ListsFit' /\ AtCur'
  <2>1. CASE w = "bury"
    <3>1. pc' = "wait" /\ calls' = [calls EXCEPT ![fails] = burial]
      BY <1>6, <2>1 DEF Dispatch
    <3>2. burial.op = "del" /\ burial.stage = "check" /\ burial.val.c = l.c /\ burial # None
      <4>1. r \in Side /\ l \in Side
        BY SideStateShape DEF TypeOK, SideOf, ListedClocks
      <4>2. l.c \in Nat
        BY <1>2, <1>6, <2>1, <4>1, WayFits DEF Side
      <4>. QED  BY <4>2, NoneAssumption DEF Stamped
    <3>3. calls'[fails] = burial
      BY <3>1 DEF TypeOK, CallSlots
    <3>. HIDE DEF burial
    <3>4. CallPending(calls[fails])'
      BY <1>1, <1>2, <1>7, <2>1, <3>2, <3>3 DEF CallPending, SideOf
    <3>5. Moving' /\ ListsFit'
      BY <3>1 DEF Moving, ListsFit
    <3>6. AtCur'
      BY <3>1, <3>4 DEF AtCur
    <3>. QED  BY <3>5, <3>6
  <2>2. CASE w # "bury"
    <3>1. pc' = w
      BY <1>6, <2>2 DEF Dispatch
    <3>. QED  BY <1>2, <1>6, <1>7, <2>2, <3>1 DEF Moving, ListsFit, AtCur
  <2>. QED  BY <2>1, <2>2
<1>9. Scanned'
  BY <1>2, <1>3, <1>5, <1>8 DEF Scanned
<1>. QED  BY <1>2, <1>8, <1>9 DEF Levelling

\* A step that ends the work on cur, with the other names left alone.
LEMMA CurDone ==
  ASSUME pc' = "scan", \A k \in Keys : k # cur => IF k \in todo' THEN Untouched(k)' ELSE Settled(k)',
         cur' = cur, cur \notin todo', \A k \in Keys : k = cur => Settled(k)'
  PROVE  Levelling'
BY DEF Levelling, ListsFit, Scanned, Moving

\* A step that leaves cur in work, with the other names left alone.
LEMMA CurGoesOn ==
  ASSUME Moving', \A k \in Keys : k # cur => IF k \in todo' THEN Untouched(k)' ELSE Settled(k)',
         cur' = cur, cur \notin todo', AtCur'
  PROVE  Levelling'
BY DEF Levelling, ListsFit, Scanned, Moving

LEMMA LevellingPull ==
  ASSUME TypeOK, GuardsStand, Levelling, PullGet \/ PullCheck \/ PullWrite
  PROVE  Levelling'
<1>. USE DEF stores, clients, world, Continue
<1>. DEFINE w == value["worker"][cur]
            b == value["box"][cur]
            r == rlist[cur]
            l == SideOf(llist[cur])
<1>0. SUFFICES ASSUME calm', fresh' PROVE Levelling'
  BY DEF Levelling
<1>1. /\ calm /\ fresh /\ Moving /\ AtCur /\ cur \in Keys
      /\ UNCHANGED <<tomb, rlist, llist, todo, cur>>
  BY <1>0 DEF PullGet, PullCheck, PullWrite, Levelling, Moving, TypeOK
<1>2. Untouched(cur) /\ Pending("pull")
  BY <1>1 DEF AtCur, PullGet, PullCheck, PullWrite
<1>3. /\ w # None /\ r.c = w.c /\ Newer(w.c, b) /\ w \in Stamped
      /\ SideState(w.c, tomb["box"][cur]) = r /\ Winner(r, l) = r
  BY <1>1, <1>2, PullTakes DEF TypeOK
<1>4. ASSUME value' = value
      PROVE  /\ cur \notin todo'
             /\ \A k \in Keys : k # cur => IF k \in todo' THEN Untouched(k)' ELSE Settled(k)'
             /\ Untouched(cur)' /\ Pending("pull")'
             /\ Settled(cur) => \A k \in Keys : k = cur => Settled(k)'
  <2>1. \A k \in Keys : (Untouched(k)' <=> Untouched(k)) /\ (Settled(k)' <=> Settled(k))
    BY <1>1, <1>4, SameKey
  <2>2. Untouched(cur)' /\ Pending("pull")'
    BY <1>1, <1>2, <1>4 DEF Untouched, Pending, Actual, ClockOf, SideNow, SideOf
  <2>. QED  BY <1>1, <1>4, <2>1, <2>2, Elsewhere
<1>5. CASE PullGet
  <2>1. pc' = "pullcheck" /\ value' = value /\ hand' = [w EXCEPT !.c = IF w.c > 0 THEN w.c ELSE r.c]
    BY <1>3, <1>5 DEF PullGet
  <2>2. hand' = w
    BY <1>3, <2>1 DEF Stamped
  <2>3. AtCur'
    BY <1>1, <1>4, <2>1, <2>2 DEF AtCur
  <2>. QED  BY <1>1, <1>4, <2>1, <2>3, CurGoesOn DEF Moving
<1>6. CASE PullCheck
  <2>1. hand = w /\ value' = value
    BY <1>1, <1>6 DEF AtCur, PullCheck
  <2>2. CASE PullAllows(Kind[cur], hand, b)
    <3>1. pc' = "pullwrite" /\ hand' = hand
      BY <1>6, <2>2 DEF PullCheck
    <3>2. AtCur'
      BY <1>1, <1>4, <2>1, <3>1 DEF AtCur
    <3>. QED  BY <1>1, <1>4, <2>1, <3>1, <3>2, CurGoesOn DEF Moving
  <2>3. CASE ~PullAllows(Kind[cur], hand, b)
    <3>1. pc' = "scan"
      BY <1>6, <2>3 DEF PullCheck
    <3>2. Blocked(cur)
      <4>1. ~RecordAllows(Kind[cur], w, b)
        BY <1>3, <2>1, <2>3 DEF PullAllows
      <4>2. b \in Stamped /\ b.c < w.c /\ w.rank < b.rank /\ Kind[cur] # "plain" /\ b # None
        BY <1>1, <1>3, <4>1 DEF RecordAllows, Newer, TypeOK, Stamped
      <4>. QED  BY <1>3, <4>2 DEF Blocked, Stamped
    <3>. QED  BY <1>1, <1>4, <2>1, <3>1, <3>2, CurDone DEF Settled
  <2>. QED  BY <2>2, <2>3
<1>7. CASE PullWrite
  <2>1. hand = w /\ pc' = "scan" /\ value' = [value EXCEPT !["box"][cur] = w]
    BY <1>1, <1>7 DEF AtCur, PullWrite, SetValue
  <2>2. /\ \A d \in Doors, k \in Keys : k # cur => value'[d][k] = value[d][k]
        /\ value'["box"][cur] = w /\ value'["worker"][cur] = w
    BY <1>1, <2>1 DEF TypeOK
  <2>3. /\ cur \notin todo'
        /\ \A k \in Keys : k # cur => IF k \in todo' THEN Untouched(k)' ELSE Settled(k)'
    BY <1>1, <2>2, Elsewhere
  <2>4. SideNow("box", cur)' = r /\ SideNow("worker", cur)' = r
    BY <1>1, <1>2, <1>3, <2>2 DEF SideNow, SideOf, Actual, ClockOf, Untouched
  <2>5. Settled(cur)'
    BY <1>1, <1>3, <2>4 DEF Settled, SideOf
  <2>. QED  BY <1>1, <2>1, <2>3, <2>5, CurDone
<1>. QED  BY <1>5, <1>6, <1>7

LEMMA LevellingDrop ==
  ASSUME TypeOK, GuardsStand, Levelling, DropCheck \/ DropDelete \/ DropBury
  PROVE  Levelling'
<1>. USE DEF stores, clients, world
<1>. DEFINE r == rlist[cur]
            l == SideOf(llist[cur])
<1>0. SUFFICES ASSUME calm', fresh' PROVE Levelling'
  BY DEF Levelling
<1>1. /\ calm /\ fresh /\ Moving /\ AtCur /\ cur \in Keys /\ UNCHANGED <<rlist, llist, todo, cur>>
      /\ \A d \in Doors, k \in Keys : k # cur => value'[d][k] = value[d][k] /\ tomb'[d][k] = tomb[d][k]
      /\ value'["worker"][cur] = value["worker"][cur] /\ tomb'["worker"][cur] = tomb["worker"][cur]
  <2>1. calm /\ fresh /\ Moving /\ AtCur /\ cur \in Keys /\ UNCHANGED <<rlist, llist, todo, cur>>
    BY <1>0 DEF DropCheck, DropDelete, DropBury, Levelling, Moving, TypeOK
  <2>2. CASE DropCheck
    BY <2>1, <2>2 DEF DropCheck
  <2>3. CASE DropDelete
    BY <2>1, <2>3 DEF DropDelete, SetValue, TypeOK
  <2>4. CASE DropBury
    BY <2>1, <2>4 DEF DropBury, SetTomb, TypeOK
  <2>. QED  BY <2>2, <2>3, <2>4
<1>2. /\ cur \notin todo'
      /\ \A k \in Keys : k # cur => IF k \in todo' THEN Untouched(k)' ELSE Settled(k)'
  BY <1>1, Elsewhere
<1>3. Pending("drop")' /\ Pending("drop") /\ r = SideNow("worker", cur)
  BY <1>1 DEF AtCur, DropCheck, DropDelete, DropBury, Pending, SideOf, Untouched
<1>4. r = SideNow("worker", cur)'
  BY <1>1, <1>3 DEF SideNow, SideOf, Actual, ClockOf
<1>5. r \in Side /\ l \in Side /\ r # l
  BY <1>1, <1>3, SideStateShape DEF Pending, TypeOK, SideOf, ListedClocks
<1>6. r # None /\ r.kind = "t" /\ Winner(r, l) = r /\ (l = None \/ l.c < r.c) /\ r.c \in Nat
  BY <1>3, <1>5, WayParts DEF Pending, Side
<1>7. CASE DropCheck
  <2>1. Untouched(cur)
    BY <1>1, <1>7 DEF AtCur, DropCheck
  <2>2. DeleteAllows(r.c, value["box"][cur], tomb["box"][cur])
    <3>1. Shows(l, value["box"][cur], tomb["box"][cur])
      BY <1>1, <2>1, UntouchedShows
    <3>2. value["box"][cur] \in Stamped \union {None} /\ tomb["box"][cur] \in Nat \union {None}
      BY <1>1 DEF TypeOK
    <3>. QED  BY <1>5, <1>6, <3>1, <3>2, DeleteTakes
  <2>3. pc' = "dropdelete" /\ value' = value /\ tomb' = tomb
    BY <1>7, <2>2 DEF DropCheck
  <2>4. Untouched(cur)'
    BY <1>1, <2>1, <2>3 DEF Untouched, SideNow, SideOf, Actual, ClockOf
  <2>5. AtCur'
    BY <1>3, <2>3, <2>4 DEF AtCur
  <2>. QED  BY <1>1, <1>2, <2>3, <2>5, CurGoesOn DEF Moving
<1>8. CASE DropDelete
  <2>1. pc' = "dropbury" /\ value'["box"][cur] = None
    BY <1>1, <1>8 DEF DropDelete, SetValue, TypeOK
  <2>2. AtCur'
    BY <1>1, <1>3, <1>4, <2>1 DEF AtCur
  <2>. QED  BY <1>1, <1>2, <2>1, <2>2, CurGoesOn DEF Moving
<1>9. CASE DropBury
  <2>1. pc' = "scan" /\ value'["box"][cur] = None /\ tomb'["box"][cur] = r.c
    BY <1>1, <1>9 DEF DropBury, SetTomb, TypeOK, AtCur
  <2>2. SideState(None, r.c) = r
    BY <1>5, <1>6, SideMade DEF Side
  <2>3. SideNow("box", cur)' = r
    BY <1>1, <2>1, <2>2 DEF SideNow, SideOf, Actual, ClockOf
  <2>4. Settled(cur)'
    BY <1>1, <1>4, <1>6, <2>3 DEF Settled, SideOf
  <2>. QED  BY <1>1, <1>2, <2>1, <2>4, CurDone
<1>. QED  BY <1>7, <1>8, <1>9

LEMMA LevellingPush ==
  ASSUME TypeOK, GuardsStand, Levelling, PushRead \/ Answer
  PROVE  Levelling'
<1>. USE DEF stores, clients, world, Continue
<1>0. SUFFICES ASSUME calm', fresh' PROVE Levelling'
  BY DEF Levelling
<1>1. /\ calm /\ fresh /\ Moving /\ AtCur /\ cur \in Keys
      /\ UNCHANGED <<value, tomb, rlist, llist, todo, cur, fails>>
  BY <1>0 DEF PushRead, Answer, Levelling, Moving, TypeOK
<1>2. /\ cur \notin todo'
      /\ \A k \in Keys : k # cur => IF k \in todo' THEN Untouched(k)' ELSE Settled(k)'
  BY <1>1, Elsewhere
<1>3. (Untouched(cur)' <=> Untouched(cur)) /\ (\A k \in Keys : Settled(k)' <=> Settled(k))
  <2>1. \A k \in Keys : (Untouched(k)' <=> Untouched(k)) /\ (Settled(k)' <=> Settled(k))
    BY <1>1, SameKey
  <2>. QED  BY <1>1, <2>1 DEF Untouched, Actual, ClockOf, SideNow, SideOf
<1>4. CASE PushRead
  <2>. DEFINE b == value["box"][cur]
              call == [k |-> cur, op |-> "put", val |-> [b EXCEPT !.c = llist[cur].v], stage |-> "check"]
  <2>1. Untouched(cur) /\ Pending("push") /\ Pending("push")'
    BY <1>1, <1>4 DEF AtCur, PushRead, Pending, SideOf
  <2>2. b # None
    BY <2>1, PushTakes
  <2>3. pc' = "wait" /\ calls' = [calls EXCEPT ![fails] = call]
    BY <1>4, <2>2 DEF PushRead
  <2>4. calls'[fails'] = call
    BY <1>1, <2>3 DEF TypeOK, CallSlots
  <2>5. call.val = b /\ call.op = "put" /\ call # None
    <3>1. b \in Stamped
      BY <1>1, <2>2 DEF TypeOK
    <3>2. llist[cur].v = b.c
      BY <2>1, <2>2 DEF Untouched, Actual, ClockOf
    <3>3. call.val = b
      BY <3>1, <3>2 DEF Stamped
    <3>. QED  BY <1>1, <3>1, <3>3, NoneAssumption
  <2>. HIDE DEF call
  <2>6. CallPending(calls[fails])'
    BY <1>1, <1>3, <2>1, <2>4, <2>5 DEF CallPending
  <2>7. AtCur'
    BY <2>3, <2>6 DEF AtCur
  <2>. QED  BY <1>1, <1>2, <2>3, <2>7, CurGoesOn DEF Moving
<1>5. CASE Answer
  <2>1. pc' = "scan" /\ Settled(cur)
    BY <1>1, <1>5 DEF Answer, AtCur, CallPending
  <2>. QED  BY <1>1, <1>2, <1>3, <2>1, CurDone
<1>. QED  BY <1>4, <1>5

\* The call in flight may write over what the worker holds, or rule 4 or one clock keeps it out.
LEMMA PutLands ==
  ASSUME TypeOK, Untouched(cur), Pending("push"), NEW c, c = value["box"][cur]
  PROVE  \/ TombOlder(c.c, tomb["worker"][cur]) /\ Newer(c.c, value["worker"][cur])
              /\ (~RecordAllows(Kind[cur], c, value["worker"][cur]) => Blocked(cur))
         \/ SameInstant(cur)
<1>. DEFINE w == value["worker"][cur]
<1>0. cur \in Keys /\ w \in Stamped \union {None} /\ c \in Stamped \union {None}
  BY DEF TypeOK
<1>1. c # None /\ Newer(c.c, w) /\ SideOf(llist[cur]) # None /\ SideOf(llist[cur]).kind = "v"
  BY PushTakes
<1>2. CASE ~TombOlder(c.c, tomb["worker"][cur])
  <2>1. rlist[cur] # None /\ rlist[cur].kind = "t" /\ rlist[cur].c = SideOf(llist[cur]).c
    BY <1>2, PushTakes
  <2>2. rlist[cur] = SideNow("worker", cur) /\ SideOf(llist[cur]) = SideNow("box", cur)
    BY <1>0, UntouchedShows DEF Untouched
  <2>. QED  BY <1>1, <2>1, <2>2 DEF SameInstant
<1>3. ASSUME ~RecordAllows(Kind[cur], c, w) PROVE Blocked(cur)
  BY <1>0, <1>1, <1>3 DEF RecordAllows, Newer, Blocked, Stamped
<1>. QED  BY <1>1, <1>2, <1>3

LEMMA LevellingHandle ==
  ASSUME TypeOK, GuardsStand, Levelling, NEW f \in CallSlots, Handle(f)
  PROVE  Levelling'
<1>. USE DEF stores, clients, cycle, world
<1>. DEFINE c == calls[f]
            r == rlist[cur]
            l == SideOf(llist[cur])
<1>0. SUFFICES ASSUME calm', fresh' PROVE Levelling'
  BY DEF Levelling
<1>1. calm /\ fresh /\ c # None /\ UNCHANGED <<rlist, llist, cur, fails>>
  BY <1>0 DEF Handle, CallCheck, CallBadClock, CallWrite, CallDelete, CallBury
<1>2. f = fails /\ pc = "wait" /\ c.k = cur /\ CallStands(c) /\ c \in Calls /\ cur \in Keys
  BY <1>1 DEF GuardsStand, TypeOK
<1>3. Moving /\ AtCur /\ CallPending(c)
  BY <1>1, <1>2 DEF Levelling, Moving, AtCur
<1>4. CASE CallBadClock(f)
  BY <1>2, <1>4 DEF CallBadClock, Levelling, ListsFit, Moving
<1>5. CASE ~CallBadClock(f)
  <2>1. /\ pc' = "wait" /\ todo' = todo
        /\ \A d \in Doors, k \in Keys : k # cur => value'[d][k] = value[d][k] /\ tomb'[d][k] = tomb[d][k]
        /\ value'["box"][cur] = value["box"][cur] /\ tomb'["box"][cur] = tomb["box"][cur]
    <3>1. CASE CallCheck(f)
      BY <1>2, <3>1 DEF CallCheck
    <3>2. CASE CallWrite(f) \/ CallDelete(f)
      BY <1>2, <3>2 DEF CallWrite, CallDelete, SetValue, TypeOK
    <3>3. CASE CallBury(f)
      BY <1>2, <3>3 DEF CallBury, SetTomb, TypeOK
    <3>. QED  BY <1>5, <3>1, <3>2, <3>3 DEF Handle
  <2>2. /\ cur \notin todo'
        /\ \A k \in Keys : k # cur => IF k \in todo' THEN Untouched(k)' ELSE Settled(k)'
    BY <1>1, <1>3, <2>1, Elsewhere
  <2>3. /\ \A w : Pending(w)' <=> Pending(w)
        /\ Actual("box", cur)' = Actual("box", cur) /\ SideNow("box", cur)' = SideNow("box", cur)
    BY <1>1, <2>1 DEF Pending, SideOf, SideNow, Actual, ClockOf
  <2>4. SUFFICES CallPending(calls[fails])'
    BY <1>1, <2>1, <2>2, CurGoesOn DEF Moving, AtCur
  <2>6. CASE CallCheck(f)
    <3>1. UNCHANGED <<value, tomb>>
      BY <2>6 DEF CallCheck
    <3>2. (Untouched(cur)' <=> Untouched(cur)) /\ (Settled(cur)' <=> Settled(cur))
      <4>1. \A k \in Keys : k = cur => (Untouched(k)' <=> Untouched(k)) /\ (Settled(k)' <=> Settled(k))
        BY <1>1, <3>1, SameKey
      <4>2. SideNow("worker", cur)' = SideNow("worker", cur)
        BY <1>1, <3>1 DEF SideNow, SideOf, Actual, ClockOf
      <4>3. Settled(cur)' <=> Settled(cur)
        BY <1>1, <2>3, <3>1, <4>2 DEF Settled, Blocked, SameInstant, SideOf
      <4>. QED  BY <1>1, <2>3, <4>2, <4>3 DEF Untouched
    <3>3. /\ c.stage = "check"
          /\ calls'[fails'] = IF CallAllowed(c) THEN [c EXCEPT !.stage = AfterCheck(c)] ELSE None
      BY <1>1, <1>2, <2>6 DEF CallCheck, TypeOK
    <3>4. CASE c.op = "put"
      <4>1. Untouched(cur) /\ Pending("push") /\ c.val = value["box"][cur]
        BY <1>1, <1>3, <3>4 DEF CallPending
      <4>2. CASE CallAllowed(c)
        <5>1. calls'[fails'].op = "put" /\ calls'[fails'].val = c.val /\ calls'[fails'] # None
          BY <1>2, <3>3, <3>4, <4>2, NoneAssumption DEF Calls, AfterCheck
        <5>. QED  BY <2>3, <3>1, <3>2, <4>1, <5>1, <1>1 DEF CallPending
      <4>3. CASE ~CallAllowed(c)
        <5>1. Settled(cur)
          BY <1>2, <3>4, <4>1, <4>3, PutLands DEF CallAllowed, MirrorPutAllows, Settled
        <5>. QED  BY <3>2, <3>3, <4>3, <5>1 DEF CallPending
      <4>. QED  BY <4>2, <4>3
    <3>5. CASE c.op = "del"
      <4>1. Untouched(cur) /\ Pending("bury") /\ c.val.c = l.c
        BY <1>1, <1>3, <3>3, <3>5 DEF CallPending
      <4>2. CallAllowed(c)
        <5>1. l \in Side /\ r \in Side /\ r # l
          BY <1>2, <4>1, SideStateShape DEF Pending, TypeOK, SideOf, ListedClocks
        <5>2. l # None /\ l.kind = "t" /\ (r = None \/ r.c < l.c)
          BY <4>1, <5>1, WayParts DEF Pending
        <5>3. Shows(r, value["worker"][cur], tomb["worker"][cur])
          BY <1>2, <4>1, UntouchedShows
        <5>4. value["worker"][cur] \in Stamped \union {None} /\ tomb["worker"][cur] \in Nat \union {None}
          BY <1>2 DEF TypeOK
        <5>5. DeleteAllows(l.c, value["worker"][cur], tomb["worker"][cur])
          BY <5>1, <5>2, <5>3, <5>4, DeleteTakes
        <5>. QED  BY <1>2, <3>5, <4>1, <5>5 DEF CallAllowed
      <4>3. /\ calls'[fails'] # None /\ calls'[fails'].op = "del" /\ calls'[fails'].val = c.val
            /\ calls'[fails'].stage = "bury" => value["worker"][cur] = None
        BY <1>2, <3>3, <3>5, <4>2, NoneAssumption DEF Calls, AfterCheck
      <4>. QED
        BY <1>1, <2>3, <3>1, <3>2, <4>1, <4>3 DEF CallPending, Untouched, SideOf
    <3>. QED  BY <1>2, <3>4, <3>5 DEF Calls
  <2>7. CASE CallWrite(f)
    <3>1. c.stage = "write" /\ c.op = "put" /\ value'["worker"][cur] = c.val
          /\ calls'[fails'] = None /\ tomb' = tomb
      BY <1>1, <1>2, <2>7 DEF CallWrite, SetValue, TypeOK, Calls
    <3>2. Untouched(cur) /\ Pending("push") /\ c.val = value["box"][cur]
      BY <1>1, <1>3, <3>1 DEF CallPending
    <3>3. TombOlder(c.val.c, tomb["worker"][cur])
      BY <1>2, <3>1 DEF CallStands, MirrorPutAllows
    <3>4. c.val # None /\ SideState(c.val.c, tomb["worker"][cur]) = l /\ Winner(r, l) = l
      BY <3>2, <3>3, PushTakes
    <3>5. SideNow("worker", cur)' = l
      BY <1>1, <3>1, <3>4 DEF SideNow, SideOf, Actual, ClockOf
    <3>6. SideNow("box", cur)' = l
      BY <2>3, <3>2 DEF Untouched, SideNow
    <3>7. Settled(cur)'
      BY <1>1, <3>4, <3>5, <3>6 DEF Settled, SideOf
    <3>. QED  BY <3>1, <3>7 DEF CallPending
  <2>8. CASE CallDelete(f)
    <3>1. /\ c.stage = "delete" /\ c.op = "del" /\ value'["worker"][cur] = None
          /\ calls'[fails'] = [c EXCEPT !.stage = "bury"]
      BY <1>1, <1>2, <2>8 DEF CallDelete, SetValue, TypeOK, Calls
    <3>2. Untouched(cur) /\ Pending("bury") /\ c.val.c = l.c
      BY <1>1, <1>3, <3>1 DEF CallPending
    <3>3. calls'[fails'] # None /\ calls'[fails'].op = "del" /\ calls'[fails'].val = c.val
          /\ calls'[fails'].stage = "bury"
      BY <1>2, <3>1, NoneAssumption DEF Calls
    <3>. QED
      BY <1>1, <2>3, <3>1, <3>2, <3>3 DEF CallPending, Untouched, SideOf
  <2>9. CASE CallBury(f)
    <3>1. /\ c.stage = "bury" /\ c.op = "del" /\ tomb'["worker"][cur] = c.val.c /\ value' = value
          /\ calls'[fails'] = None
      BY <1>1, <1>2, <2>9 DEF CallBury, SetTomb, TypeOK, Calls
    <3>2. /\ Pending("bury") /\ c.val.c = l.c
          /\ llist[cur] = Actual("box", cur) /\ value["worker"][cur] = None
      BY <1>1, <1>3, <3>1 DEF CallPending
    <3>3. l \in Side /\ r \in Side /\ r # l
      BY <1>2, <3>2, SideStateShape DEF Pending, TypeOK, SideOf, ListedClocks
    <3>4. l # None /\ l.kind = "t" /\ Winner(r, l) = l
      BY <3>2, <3>3, WayParts DEF Pending
    <3>5. SideState(None, l.c) = l
      BY <3>3, <3>4, SideMade DEF Side
    <3>6. SideNow("worker", cur)' = l
      BY <3>1, <3>2, <3>5, <1>1 DEF SideNow, SideOf, Actual, ClockOf
    <3>7. SideNow("box", cur)' = l
      BY <2>3, <3>2 DEF SideNow
    <3>8. Settled(cur)'
      BY <1>1, <3>4, <3>6, <3>7 DEF Settled, SideOf
    <3>. QED  BY <3>1, <3>8 DEF CallPending
  <2>. QED  BY <1>5, <2>6, <2>7, <2>8, <2>9 DEF Handle
<1>. QED  BY <1>4, <1>5

LEMMA LevellingStep == TypeOK /\ GuardsStand /\ Levelling /\ [Next]_vars => Levelling'
<1>. SUFFICES ASSUME TypeOK, GuardsStand, Levelling, [Next]_vars PROVE Levelling'
  OBVIOUS
<1>1. CASE Begins \/ CycleFails \/ BoxRestarts
  BY <1>1 DEF Begins, Begin, CycleFails, BoxRestarts, Abandon, Levelling
<1>2. ASSUME NEW s \in Slots, Serve(s) \/ ClientDies(s) PROVE Levelling'
  <2>1. ~calm /\ calm' = calm
    BY <1>2, GuardsServe DEF Serve, Check, Write, Delete, Bury, ClientDies, world
  <2>. QED  BY <2>1 DEF Levelling
<1>3. CASE (\E k \in Keys : IndexCatchesUp(k)) \/ UNCHANGED vars
  <2>1. UNCHANGED <<value, tomb, rlist, llist, todo, cur, pc, hand, calls, fails, calm, fresh>>
    BY <1>3 DEF IndexCatchesUp, vars, stores, clients, cycle, world
  <2>2. \A k \in Keys : (Untouched(k)' <=> Untouched(k)) /\ (Settled(k)' <=> Settled(k))
    BY <2>1, SameKey
  <2>3. \A d \in Doors, k \in Keys : Actual(d, k)' = Actual(d, k) /\ SideNow(d, k)' = SideNow(d, k)
    BY <2>1 DEF Actual, ClockOf, SideNow, SideOf
  <2>4. cur \in Keys
    BY DEF TypeOK
  <2>5. Moving' <=> Moving
    BY <2>1 DEF Moving
  <2>6. Scanned' <=> Scanned
    BY <2>1, <2>2, <2>5 DEF Scanned
  <2>7. ListsFit' <=> ListsFit
    BY <2>1, <2>3 DEF ListsFit
  <2>8. AtCur' <=> AtCur
    <3>1. Untouched(cur)' <=> Untouched(cur)
      BY <2>1, <2>3, <2>4 DEF Untouched
    <3>2. Settled(cur)' <=> Settled(cur)
      BY <2>1, <2>3, <2>4 DEF Settled, Blocked, SameInstant, SideOf
    <3>3. \A w : Pending(w)' <=> Pending(w)
      BY <2>1 DEF Pending, SideOf
    <3>4. CallPending(calls[fails])' <=> CallPending(calls[fails])
      BY <2>1, <2>3, <2>4, <3>1, <3>2, <3>3 DEF CallPending, SideOf
    <3>. QED  BY <2>1, <2>3, <2>4, <3>1, <3>3, <3>4 DEF AtCur
  <2>. QED  BY <2>1, <2>5, <2>6, <2>7, <2>8 DEF Levelling
<1>4. CASE Drive
  BY <1>4, LevellingListing, LevellingDispatch, LevellingPull, LevellingPush, LevellingDrop DEF Drive
<1>5. CASE \E f \in CallSlots : Handle(f) \/ CallDies(f)
  BY <1>5, LevellingHandle DEF CallDies, Levelling
<1>. QED  BY <1>1, <1>2, <1>3, <1>4, <1>5 DEF Next

\* The cycle knows where it stands: while it runs undisturbed from a current listing, all it has passed
\* is settled and all it has not reached is as listed.
THEOREM LevellingHolds == Spec => []Levelling
<1>1. Init => TypeOK /\ GuardsStand /\ Levelling
  BY TypeInit, GuardsInit, LevellingInit
<1>2. TypeOK /\ GuardsStand /\ Levelling /\ [Next]_vars => TypeOK' /\ GuardsStand' /\ Levelling'
  BY TypeStep, GuardsStep, LevellingStep
<1>. QED  BY <1>1, <1>2, PTL DEF Spec

LEMMA LevellingSettles == TypeOK /\ Levelling => QuietCycleSettles
<1>. SUFFICES ASSUME TypeOK, Levelling, CycleOver, calm, fresh, NEW k \in Keys
              PROVE  Settled(k)
  BY DEF QuietCycleSettles, Settled
<1>1. pc = "scan" /\ Left = {} /\ Scanned
  BY DEF CycleOver, Levelling
<1>2. CASE k \in todo
  <2>1. Untouched(k) /\ rlist[k] = SideOf(llist[k])
    BY <1>1, <1>2 DEF Scanned, Left, Differs
  <2>2. rlist[k] = SideNow("worker", k) /\ SideOf(llist[k]) = SideNow("box", k)
    BY <2>1, UntouchedShows DEF Untouched
  <2>. QED  BY <2>1, <2>2 DEF Settled, Winner
<1>3. CASE k \notin todo
  BY <1>1, <1>3 DEF Scanned, Moving
<1>. QED  BY <1>2, <1>3

\* Whatever the doors held, a cycle that runs undisturbed from a current listing to its end leaves each
\* name, at both doors, as the newer of the two sides was - but for what rule 4 of mirror.js holds back
\* and a put and a delete of the same millisecond.
THEOREM QuietCyclesSettle == Spec => []QuietCycleSettles
<1>1. TypeOK /\ Levelling => QuietCycleSettles
  BY LevellingSettles
<1>. QED  BY <1>1, TypeCorrect, LevellingHolds, PTL DEF Spec

-----------------------------------------------------------------------------
(* Without equal clocks, only rule 4 is left.                              *)

\* Two requests for one key carry different clocks, and a delete has one.
ClocksDiffer ==
  /\ \A a, b \in asked : a.k = b.k /\ a.val.c = b.val.c => a = b
  /\ \A a \in asked : a.op = "del" => a.val.c # 0

LEMMA ClocksInit == Init => ClocksDiffer
BY DEF Init, ClocksDiffer

LEMMA ClocksStep ==
  ASSUME ~Ties, TypeOK, ClocksDiffer, [Next]_vars
  PROVE  ClocksDiffer'
<1>1. CASE Begins
  <2>1. PICK s \in Slots, d \in Doors, k \in Keys, op \in {"put", "del"}, c \in 1..MaxClock :
          \E rank \in RanksOf(k, op) : Begin(s, d, k, op, rank, c)
    BY <1>1 DEF Begins
  <2>2. PICK rank \in RanksOf(k, op) : Begin(s, d, k, op, rank, c)
    BY <2>1
  <2>. DEFINE new == [k |-> k, op |-> op, val |-> [by |-> sent + 1, rank |-> rank, c |-> c]]
  <2>3. asked' = asked \union {new} /\ \A a \in asked : a.k = k => a.val.c # c
    BY <2>2 DEF Begin
  <2>4. new.k = k /\ new.val.c = c /\ c # 0
    BY BoundsAssumption
  <2>. HIDE DEF new
  <2>. QED  BY <2>3, <2>4 DEF ClocksDiffer
<1>2. CASE ~Begins
  <2>1. asked' = asked
    BY <1>2 DEF Next, Serve, Check, Write, Delete, Bury, ClientDies, IndexCatchesUp, Drive, StartCycle,
                ListValues, ListTombs, ListLocal, Dispatch, EndCycle, PullGet, PullCheck, PullWrite,
                PushRead, Answer, DropCheck, DropDelete, DropBury, CycleFails, BoxRestarts, Abandon,
                Handle, CallCheck, CallBadClock, CallWrite, CallDelete, CallBury, CallDies, clients, vars
  <2>. QED  BY <2>1 DEF ClocksDiffer
<1>. QED  BY <1>1, <1>2

LEMMA NoSameInstant ==
  ASSUME TypeOK, Authentic, ClocksDiffer, NEW k \in Keys
  PROVE  ~SameInstant(k)
<1>. SUFFICES ASSUME SameInstant(k) PROVE FALSE
  OBVIOUS
<1>1. /\ Shows(SideNow("box", k), value["box"][k], tomb["box"][k])
      /\ Shows(SideNow("worker", k), value["worker"][k], tomb["worker"][k])
  BY UntouchedShows
<1>2. value["box"][k] # None /\ tomb["worker"][k] # None /\ tomb["worker"][k] = value["box"][k].c
  BY <1>1 DEF SameInstant, Shows
<1>3. ClockKept("box", k, "put", value["box"][k].c) /\ ClockAsked(k, "del", value["box"][k].c)
  BY <1>2 DEF Authentic, StoresAuthentic, ClockKept
<1>. QED  BY <1>3 DEF ClockKept, ClockAsked, ClocksDiffer

\* If no two requests for one name carry the same clock, an undisturbed cycle leaves both doors level at
\* the newer side, name by name, unless rule 4 holds one back.
THEOREM QuietCyclesLevel ==
  ASSUME ~Ties
  PROVE  Spec => []QuietCycleLevels
<1>1. Init => ClocksDiffer
  BY ClocksInit
<1>2. TypeOK /\ ClocksDiffer /\ [Next]_vars => ClocksDiffer'
  BY ClocksStep
<1>3. TypeOK /\ Authentic /\ ClocksDiffer /\ QuietCycleSettles => QuietCycleLevels
  BY NoSameInstant DEF QuietCycleSettles, QuietCycleLevels
<1>. QED
  BY <1>1, <1>2, <1>3, TypeCorrect, AllIsAuthentic, QuietCyclesSettle, PTL DEF Spec

=============================================================================
