---------------------------- MODULE MirrorProofs ----------------------------
(***************************************************************************)
(* Theorems about Mirror, for every set of keys, every number of requests, *)
(* clocks, failures and deaths, checked by TLAPS.                          *)
(***************************************************************************)
EXTENDS Mirror, TLAPS

USE DEF Doors

-----------------------------------------------------------------------------
(* What the rules of mirror.js return.                                     *)

\* A side is a value, a tombstone or nothing; it is a value only where one is listed, and its clock
\* is the clock listed for what it is.
LEMMA SideStateShape ==
  ASSUME NEW v \in Nat \union {None}, NEW t \in Nat \union {None}
  PROVE  /\ SideState(v, t) \in Side
         /\ SideState(v, t) # None =>
              IF SideState(v, t).kind = "v" THEN v # None /\ SideState(v, t).c = v
              ELSE t # None /\ SideState(v, t).c = t
BY NoneAssumption DEF SideState, Side

\* For two sides that differ, the loop copies the one that exists, in the way that fits its kind.
LEMMA WayFits ==
  ASSUME NEW r \in Side, NEW l \in Side, r # l
  PROVE  /\ Way(r, l) \in {"pull", "drop", "push", "bury"}
         /\ Way(r, l) = "pull" => r # None /\ r.kind = "v"
         /\ Way(r, l) = "drop" => r # None /\ r.kind = "t"
         /\ Way(r, l) = "push" => l # None /\ l.kind = "v"
         /\ Way(r, l) = "bury" => l # None /\ l.kind = "t"
BY DEF Way, RemoteWins, Side

\* What a door holds is listed under its own clocks.
LEMMA ActualShape ==
  ASSUME TypeOK, NEW d \in Doors, NEW k \in Keys
  PROVE  Actual(d, k) \in ListedClocks
BY DEF TypeOK, Actual, ClockOf, ListedClocks, Stamped

LEMMA WorkerListingShape ==
  ASSUME TypeOK
  PROVE  WorkerListing \in [Keys -> ListedClocks]
BY ActualShape DEF TypeOK, WorkerListing

LEMMA LegacyValueShape == LegacyValue \in Stamped /\ LegacyValue # None
<1>1. (CHOOSE r \in Ranks : TRUE) \in Ranks
  <2>1. \E r \in Ranks : TRUE  BY RanksAssumption
  <2>. QED  BY <2>1
<1>2. LegacyValue \in Stamped
  BY <1>1, RanksAssumption DEF LegacyValue, Stamped
<1>. QED  BY <1>2, NoneAssumption

-----------------------------------------------------------------------------
(* Type correctness.                                                       *)

LEMMA TypeInit == Init => TypeOK
<1>. SUFFICES ASSUME Init PROVE TypeOK
  OBVIOUS
<1>1. value \in [Doors -> [Keys -> Stamped \union {None}]]
  BY LegacyValueShape DEF Init
<1>2. tomb \in [Doors -> [Keys -> Nat \union {None}]]
  BY DEF Init
<1>3. index \in [Keys -> ListedClocks]
  BY <1>1, <1>2 DEF Init, Actual, ClockOf, ListedClocks, Stamped
<1>4. asked \subseteq Asked
  BY LegacyValueShape, KeysAssumption DEF Init, Asked
<1>5. /\ clock \in [Doors -> Nat] /\ req \in [Slots -> Requests \union {None}]
      /\ pc \in Steps /\ todo \subseteq Keys /\ cur \in Keys /\ hand \in Stamped \union {None}
      /\ calls \in [CallSlots -> Calls \union {None}]
      /\ pc = "idle" /\ \A f \in CallSlots : calls[f] = None
  BY DEF Init, Steps
<1>6. rlist \in [Keys -> Side] /\ llist \in [Keys -> ListedClocks]
  BY DEF Init, NoSide, NoClocks, Side, ListedClocks
<1>7. ops \in 0..MaxOps /\ sent \in 0..MaxReqs /\ fails \in 0..MaxFails /\ deaths \in 0..MaxDeaths
  BY BoundsAssumption DEF Init
<1>8. {calm, fresh} \subseteq BOOLEAN
  BY DEF Init
<1>. QED
  BY <1>1, <1>2, <1>3, <1>4, <1>5, <1>6, <1>7, <1>8 DEF TypeOK

LEMMA TypeBegin ==
  ASSUME TypeOK, NEW s \in Slots, NEW d \in Doors, NEW k \in Keys, NEW op \in {"put", "del"},
         NEW rank \in Nat, NEW c \in Nat, Begin(s, d, k, op, rank, c)
  PROVE  TypeOK'
<1>. DEFINE v == [by |-> sent + 1, rank |-> rank, c |-> c]
<1>1. v \in Stamped
  BY BoundsAssumption DEF TypeOK, Stamped
<1>2. asked' \subseteq Asked
  BY <1>1 DEF TypeOK, Begin, Asked
<1>3. req' \in [Slots -> Requests \union {None}]
  BY <1>1 DEF TypeOK, Begin, Requests
<1>4. clock' \in [Doors -> Nat] /\ sent' \in 0..MaxReqs
  BY BoundsAssumption DEF TypeOK, Begin
<1>5. {calm', fresh'} \subseteq BOOLEAN
  BY DEF TypeOK, Begin
<1>. QED
  BY <1>2, <1>3, <1>4, <1>5 DEF TypeOK, Begin, stores, cycle

\* A put that can be cut is a request's or the pull's: it has a key, and a value to write.
LEMMA CutFits ==
  ASSUME TypeOK, NEW p \in BoxPuts \union LoopPuts
  PROVE  p.k \in Keys /\ p.op \in {"put", "del"} /\ (p.op = "put" => p.val \in Stamped)
<1>1. CASE p \in BoxPuts
  <2>1. PICK s \in Slots : p = req[s] /\ req[s] # None
    BY <1>1 DEF BoxPuts
  <2>2. p \in Requests
    BY <2>1 DEF TypeOK
  <2>. QED  BY <2>2 DEF Requests
<1>2. CASE p \in LoopPuts
  BY <1>2 DEF LoopPuts, TypeOK
<1>. QED  BY <1>1, <1>2

\* A cut put leaves its bytes, or a tombstone, at the box, under the clock before it or none; all else
\* stays.
LEMMA CutLeaves ==
  ASSUME TypeOK, NEW puts \in SUBSET (BoxPuts \union LoopPuts), CutsOne(puts)
  PROVE  /\ value' \in [Doors -> [Keys -> Stamped \union {None}]]
         /\ tomb' \in [Doors -> [Keys -> Nat \union {None}]]
         /\ UNCHANGED <<value["worker"], tomb["worker"]>>
         /\ \A k \in Keys : value'["box"][k] = value["box"][k]
              \/ \E p \in puts : /\ p.op = "put" /\ p.k = k /\ value'["box"][k] # None
                               /\ value'["box"][k].by = p.val.by /\ value'["box"][k].rank = p.val.rank
                               /\ value'["box"][k].c = IF value["box"][k] = None THEN 0 ELSE value["box"][k].c
         /\ \A k \in Keys : tomb'["box"][k] = tomb["box"][k] \/ (tomb["box"][k] = None /\ tomb'["box"][k] = 0)
<1>1. CASE UNCHANGED <<value, tomb>>
  BY <1>1 DEF TypeOK
<1>2. ASSUME NEW p \in puts, p.op = "put", SetValue("box", p.k, CutValue(p.val, value["box"][p.k])), UNCHANGED tomb
      PROVE  /\ value' \in [Doors -> [Keys -> Stamped \union {None}]]
             /\ value'["worker"] = value["worker"]
             /\ \A k \in Keys \ {p.k} : value'["box"][k] = value["box"][k]
             /\ value'["box"][p.k] # None
             /\ value'["box"][p.k].by = p.val.by /\ value'["box"][p.k].rank = p.val.rank
             /\ value'["box"][p.k].c = IF value["box"][p.k] = None THEN 0 ELSE value["box"][p.k].c
  <2>1. p.k \in Keys /\ p.val \in Stamped
    BY <1>2, CutFits
  <2>. DEFINE new == CutValue(p.val, value["box"][p.k])
  <2>2. /\ new \in Stamped /\ new.by = p.val.by /\ new.rank = p.val.rank
        /\ new.c = IF value["box"][p.k] = None THEN 0 ELSE value["box"][p.k].c
    BY <2>1 DEF CutValue, TypeOK, Stamped
  <2>4. new # None
    BY <2>2, NoneAssumption
  <2>. HIDE DEF new
  <2>3. value' = [value EXCEPT !["box"][p.k] = new]
    BY <1>2 DEF SetValue, new
  <2>. QED  BY <2>1, <2>2, <2>3, <2>4 DEF TypeOK
<1>3. ASSUME NEW p \in puts, p.op # "put", SetTomb("box", p.k, CutTomb(tomb["box"][p.k])), UNCHANGED value
      PROVE  /\ tomb' \in [Doors -> [Keys -> Nat \union {None}]]
             /\ tomb'["worker"] = tomb["worker"]
             /\ \A k \in Keys : tomb'["box"][k] = tomb["box"][k] \/ (tomb["box"][k] = None /\ tomb'["box"][k] = 0)
  <2>1. p.k \in Keys
    BY CutFits
  <2>. QED  BY <1>3, <2>1 DEF SetTomb, CutTomb, TypeOK
<1>4. CASE \E p \in puts : p.op = "put" /\ SetValue("box", p.k, CutValue(p.val, value["box"][p.k])) /\ UNCHANGED tomb
  <2>1. PICK p \in puts : p.op = "put" /\ SetValue("box", p.k, CutValue(p.val, value["box"][p.k])) /\ UNCHANGED tomb
    BY <1>4
  <2>. QED  BY <2>1, <1>2 DEF TypeOK
<1>5. CASE \E p \in puts : p.op # "put" /\ SetTomb("box", p.k, CutTomb(tomb["box"][p.k])) /\ UNCHANGED value
  <2>1. PICK p \in puts : p.op # "put" /\ SetTomb("box", p.k, CutTomb(tomb["box"][p.k])) /\ UNCHANGED value
    BY <1>5
  <2>. QED  BY <2>1, <1>3 DEF TypeOK
<1>. QED  BY <1>1, <1>4, <1>5 DEF CutsOne

\* What of the stores a failure may leave half done.
LEMMA CutIsOpen ==
  ASSUME (\E s \in Slots : ClientDies(s)) \/ CycleFails \/ BoxRestarts
  PROVE  \E puts \in SUBSET (BoxPuts \union LoopPuts) : CutsOne(puts)
<1>1. ASSUME NEW s \in Slots, ClientDies(s) PROVE \E puts \in SUBSET (BoxPuts \union LoopPuts) : CutsOne(puts)
  <2>1. {req[s]} \cap BoxPuts \in SUBSET (BoxPuts \union LoopPuts)
    OBVIOUS
  <2>. QED  BY <1>1, <2>1 DEF ClientDies
<1>. QED  BY <1>1 DEF CycleFails, BoxRestarts

LEMMA TypeServe ==
  ASSUME TypeOK, NEW s \in Slots, Serve(s) \/ ClientDies(s)
  PROVE  TypeOK'
<1>. USE DEF TypeOK, stores, cycle, world, SetValue, SetTomb
<1>1. CASE Check(s)
  BY <1>1 DEF Check, Requests
<1>2. CASE Write(s)
  BY <1>2 DEF Write, Requests
<1>3. CASE Delete(s)
  BY <1>3 DEF Delete, Requests
<1>4. CASE Bury(s)
  BY <1>4 DEF Bury, Requests, Stamped
<1>5. CASE ClientDies(s)
  <2>1. value' \in [Doors -> [Keys -> Stamped \union {None}]] /\ tomb' \in [Doors -> [Keys -> Nat \union {None}]]
    BY <1>5, CutIsOpen, CutLeaves
  <2>2. req' \in [Slots -> Requests \union {None}] /\ deaths' \in 0..MaxDeaths
    BY <1>5, BoundsAssumption DEF ClientDies
  <2>. QED  BY <1>5, <2>1, <2>2 DEF ClientDies
<1>. QED  BY <1>1, <1>2, <1>3, <1>4, <1>5 DEF Serve

LEMMA TypeIndex ==
  ASSUME TypeOK, NEW k \in Keys, IndexCatchesUp(k)
  PROVE  TypeOK'
<1>1. Actual("worker", k) \in ListedClocks
  BY ActualShape
<1>. QED
  BY <1>1 DEF TypeOK, IndexCatchesUp, clients, cycle, world

\* The steps of the box that read or move nothing but the cycle's own variables.
LEMMA TypeListing ==
  ASSUME TypeOK, StartCycle \/ ListValues \/ ListTombs \/ EndCycle
  PROVE  TypeOK'
<1>. USE DEF TypeOK, stores, clients, world
<1>1. CASE StartCycle
  <2>0. WorkerListing \in [Keys -> ListedClocks]
    BY WorkerListingShape
  <2>1. \A k \in Keys : SideOf(WorkerListing[k]) \in Side
    BY <2>0, SideStateShape DEF SideOf, ListedClocks
  <2>2. rlist' \in [Keys -> Side] /\ pc' = "listed"
    BY <1>1, <2>1 DEF StartCycle
  <2>3. {calm', fresh'} \subseteq BOOLEAN
    BY <1>1 DEF StartCycle
  <2>. QED  BY <1>1, <2>2, <2>3 DEF StartCycle, Steps
<1>2. ASSUME NEW first \in {"values", "tombs"}, NEW second \in {"values", "tombs"},
             ListLocal(first, second)
      PROVE  TypeOK'
  <2>1. \A k \in Keys : Actual("box", k) \in ListedClocks
    BY ActualShape
  <2>2. llist' \in [Keys -> ListedClocks]
    BY <1>2, <2>1 DEF ListLocal, ListedClocks
  <2>3. pc' \in {"values", "tombs", "scan"} /\ todo' \subseteq Keys /\ ops' \in 0..MaxOps
    BY <1>2, BoundsAssumption DEF ListLocal
  <2>. QED  BY <1>2, <2>2, <2>3 DEF ListLocal, Steps
<1>3. CASE EndCycle
  BY <1>3 DEF EndCycle, Steps
<1>. QED  BY <1>1, <1>2, <1>3 DEF ListValues, ListTombs

LEMMA TypeDispatch ==
  ASSUME TypeOK, NEW k \in Keys, Dispatch(k)
  PROVE  TypeOK'
<1>. DEFINE r == rlist[k]
            l == SideOf(llist[k])
            burial == [k |-> k, op |-> "del", stage |-> "check",
                       val |-> [by |-> 0, rank |-> 0, c |-> l.c]]
<1>1. llist[k].v \in Nat \union {None} /\ llist[k].t \in Nat \union {None}
  BY DEF TypeOK, ListedClocks
<1>2. r \in Side /\ l \in Side /\ r # l
  BY <1>1, SideStateShape DEF TypeOK, Dispatch, Left, Differs, SideOf
<1>3. l # None /\ l.kind = "v" => llist[k].v # None
  BY <1>1, SideStateShape DEF SideOf
<1>4. ops' \in 0..MaxOps /\ cur' = k /\ todo' \subseteq Keys
  BY BoundsAssumption DEF TypeOK, Dispatch
<1>5. CASE Way(r, l) = "bury"
  <2>1. l.c \in Nat
    BY <1>2, <1>5, WayFits DEF Side
  <2>2. burial \in Calls
    BY <2>1 DEF Calls, Stamped
  <2>3. fails \in CallSlots /\ calls' = [calls EXCEPT ![fails] = burial] /\ pc' = "wait"
    BY <1>5 DEF Dispatch, TypeOK, CallSlots
  <2>. QED
    BY <2>2, <2>3, <1>4 DEF TypeOK, Dispatch, stores, clients, world, Steps, CallSlots
<1>6. CASE Way(r, l) # "bury"
  <2>1. pc' = Way(r, l) /\ calls' = calls
    BY <1>6 DEF Dispatch
  <2>2. pc' \in {"pull", "drop", "push"}
    BY <2>1, <1>6, <1>2, WayFits
  <2>3. /\ pc' = "pull" => r # None /\ r.kind = "v"
        /\ pc' = "drop" => r # None /\ r.kind = "t"
        /\ pc' = "push" => llist[k].v # None
    BY <2>1, <1>2, <1>3, WayFits
  <2>. QED
    BY <2>1, <2>2, <2>3, <1>4 DEF TypeOK, Dispatch, stores, clients, world, Steps
<1>. QED  BY <1>5, <1>6

LEMMA TypeMove ==
  ASSUME TypeOK,
         PullGet \/ PullCheck \/ PullWrite \/ PushRead \/ Answer \/ DropCheck \/ DropDelete \/ DropBury
  PROVE  TypeOK'
<1>. USE DEF TypeOK, stores, clients, world, Steps, SetValue, SetTomb, Continue
<1>1. CASE PullGet
  <2>1. CASE value["worker"][cur] = None
    BY <1>1, <2>1 DEF PullGet
  <2>2. CASE value["worker"][cur] # None
    <3>1. hand' \in Stamped /\ pc' = "pullcheck"
      BY <1>1, <2>2 DEF PullGet, Stamped, Side
    <3>. QED  BY <1>1, <3>1, NoneAssumption DEF PullGet
  <2>. QED  BY <2>1, <2>2
<1>2. CASE PullCheck
  BY <1>2 DEF PullCheck
<1>3. CASE PullWrite
  BY <1>3 DEF PullWrite
<1>4. CASE PushRead
  <2>1. CASE value["box"][cur] = None
    BY <1>4, <2>1 DEF PushRead
  <2>2. CASE value["box"][cur] # None
    <3>. DEFINE call == [k |-> cur, op |-> "put", stage |-> "check",
                         val |-> [value["box"][cur] EXCEPT !.c = llist[cur].v]]
    <3>0. value["box"][cur] \in Stamped /\ llist[cur].v \in Nat
      BY <1>4, <2>2 DEF PushRead, ListedClocks
    <3>1. call \in Calls
      BY <3>0 DEF Calls, Stamped
    <3>2. fails \in CallSlots /\ calls' = [calls EXCEPT ![fails] = call] /\ pc' = "wait"
      BY <1>4, <2>2 DEF PushRead, CallSlots
    <3>. QED  BY <1>4, <2>2, <3>1, <3>2 DEF PushRead, CallSlots
  <2>. QED  BY <2>1, <2>2
<1>5. CASE Answer
  BY <1>5 DEF Answer
<1>6. CASE DropCheck
  BY <1>6 DEF DropCheck
<1>7. CASE DropDelete
  BY <1>7 DEF DropDelete
<1>8. CASE DropBury
  BY <1>8 DEF DropBury, Side
<1>. QED  BY <1>1, <1>2, <1>3, <1>4, <1>5, <1>6, <1>7, <1>8

LEMMA TypeFail ==
  ASSUME TypeOK, CycleFails \/ BoxRestarts
  PROVE  TypeOK'
<1>1. Abandon
  BY DEF CycleFails, BoxRestarts
<1>. fails \in CallSlots /\ fails' = fails + 1 /\ fails' \in 0..MaxFails
  BY <1>1, BoundsAssumption DEF Abandon, TypeOK, CallSlots
<1>2. /\ calls' \in [CallSlots -> Calls \union {None}]
      /\ \A f \in CallSlots : f > fails' => calls'[f] = None
  <2>1. CASE calls' = calls
    BY <2>1 DEF TypeOK, CallSlots
  <2>2. CASE calls' = [calls EXCEPT ![fails] = None]
    BY <2>2 DEF TypeOK, CallSlots
  <2>. QED  BY <2>1, <2>2, <1>1 DEF Abandon
<1>3. req' \in [Slots -> Requests \union {None}] /\ deaths' \in 0..MaxDeaths
  BY BoundsAssumption DEF CycleFails, BoxRestarts, TypeOK
<1>4. value' \in [Doors -> [Keys -> Stamped \union {None}]] /\ tomb' \in [Doors -> [Keys -> Nat \union {None}]]
  BY CutIsOpen, CutLeaves
<1>. QED
  BY <1>1, <1>2, <1>3, <1>4 DEF Abandon, TypeOK, Steps

LEMMA TypeHandle ==
  ASSUME TypeOK, NEW f \in CallSlots, Handle(f) \/ CallDies(f)
  PROVE  TypeOK'
<1>. USE DEF TypeOK, stores, clients, cycle, world, SetValue, SetTomb, CallSlots
<1>1. CASE CallCheck(f)
  <2>1. calls[f] \in Calls /\ [calls[f] EXCEPT !.stage = AfterCheck(calls[f])] \in Calls
    BY <1>1 DEF CallCheck, AfterCheck, Calls
  <2>2. calls' \in [CallSlots -> Calls \union {None}] /\ calls[f] # None
    BY <1>1, <2>1 DEF CallCheck
  <2>. QED  BY <1>1, <2>2 DEF CallCheck
<1>2. CASE CallBadClock(f)
  BY <1>2 DEF CallBadClock, Steps
<1>3. CASE CallWrite(f)
  BY <1>3 DEF CallWrite, Calls
<1>4. CASE CallDelete(f)
  BY <1>4 DEF CallDelete, Calls
<1>5. CASE CallBury(f)
  BY <1>5 DEF CallBury, Calls, Stamped
<1>6. CASE CallDies(f)
  <2>1. calls' \in [CallSlots -> Calls \union {None}] /\ deaths' \in 0..MaxDeaths
    BY <1>6, BoundsAssumption DEF CallDies
  <2>. QED  BY <1>6, <2>1 DEF CallDies
<1>. QED  BY <1>1, <1>2, <1>3, <1>4, <1>5, <1>6 DEF Handle

\* Every client's request, every await of the cycle, every handler and every failure keeps the
\* registry's variables in shape.
LEMMA TypeStep == TypeOK /\ [Next]_vars => TypeOK'
<1>. SUFFICES ASSUME TypeOK, [Next]_vars PROVE TypeOK'
  OBVIOUS
<1>1. CASE Begins
  <2>1. LegacyValue.rank \in Nat
    BY LegacyValueShape DEF Stamped
  <2>2. PICK s \in Slots, d \in Doors, k \in Keys, op \in {"put", "del"}, c \in 1..MaxClock :
          \E rank \in RanksOf(k, op) : Begin(s, d, k, op, rank, c)
    BY <1>1 DEF Begins
  <2>3. PICK rank \in Nat : Begin(s, d, k, op, rank, c)
    BY <2>1, <2>2, RanksAssumption DEF RanksOf
  <2>4. c \in Nat
    BY BoundsAssumption
  <2>. QED  BY <2>3, <2>4, TypeBegin
<1>2. CASE \E s \in Slots : Serve(s) \/ ClientDies(s)
  BY <1>2, TypeServe
<1>3. CASE \E k \in Keys : IndexCatchesUp(k)
  BY <1>3, TypeIndex
<1>4. CASE Drive
  BY <1>4, TypeListing, TypeDispatch, TypeMove DEF Drive
<1>5. CASE CycleFails \/ BoxRestarts
  BY <1>5, TypeFail
<1>6. CASE \E f \in CallSlots : Handle(f) \/ CallDies(f)
  BY <1>6, TypeHandle
<1>7. CASE UNCHANGED vars
  BY <1>7 DEF TypeOK, vars, stores, clients, cycle, world
<1>. QED  BY <1>1, <1>2, <1>3, <1>4, <1>5, <1>6, <1>7 DEF Next

\* Every variable of the two doors, their requests, the cycle and the worker's handlers keeps its
\* shape, whatever the keys, bounds and failures.
THEOREM TypeCorrect == Spec => []TypeOK
<1>. QED  BY TypeInit, TypeStep, PTL DEF Spec

-----------------------------------------------------------------------------
(* Everything in the registry was sent by a client.                        *)

LEMMA AuthenticInit == Init => Authentic
<1>. SUFFICES ASSUME Init PROVE Authentic
  OBVIOUS
<1>1. \A d \in Doors, k \in Keys : value[d][k] # None =>
         value[d][k] = LegacyValue /\ [k |-> k, op |-> "put", val |-> LegacyValue] \in asked
  BY DEF Init
<1>2. StoresAuthentic
  BY <1>1 DEF Init, StoresAuthentic, ValueAsked, BytesAsked, ClockKept, ClockAsked
<1>3. \A k \in Keys : ListingKept("worker", k, index[k])
  BY <1>2 DEF Init, StoresAuthentic, ListingKept, ClockKept, Actual, ClockOf, ValueAsked
<1>4. \A k \in Keys : ListingKept("box", k, llist[k]) /\ rlist[k] = None
  BY DEF Init, NoSide, NoClocks, ListingKept, ClockKept
<1>5. RequestsAuthentic /\ PullAuthentic /\ CallsAuthentic
  BY DEF Init, RequestsAuthentic, PullAuthentic, CallsAuthentic
<1>. QED
  BY <1>2, <1>3, <1>4, <1>5 DEF Authentic, ListingsAuthentic

LEMMA AuthenticBegin ==
  ASSUME TypeOK, Authentic, NEW s \in Slots, NEW d \in Doors, NEW k \in Keys,
         NEW op \in {"put", "del"}, NEW rank \in Nat, NEW c \in Nat, Begin(s, d, k, op, rank, c)
  PROVE  Authentic'
<1>. USE DEF Begin, stores, cycle
<1>1. asked \subseteq asked'
  OBVIOUS
<1>2. StoresAuthentic'
  BY <1>1 DEF Authentic, StoresAuthentic, ValueAsked, BytesAsked, ClockKept, ClockAsked
<1>3. ListingsAuthentic'
  BY <1>1 DEF Authentic, ListingsAuthentic, ListingKept, ClockKept, ClockAsked
<1>4. RequestsAuthentic'
  BY <1>1 DEF Authentic, RequestsAuthentic, TypeOK
<1>5. PullAuthentic'
  BY <1>1 DEF Authentic, PullAuthentic, ValueAsked, BytesAsked, ClockKept, ClockAsked
<1>6. CallsAuthentic'
  BY <1>1 DEF Authentic, CallsAuthentic, ValueAsked, BytesAsked, ClockKept, ClockAsked
<1>. QED  BY <1>2, <1>3, <1>4, <1>5, <1>6 DEF Authentic

\* What a cut put leaves is a client's: its bytes, and the clock that was there or none.
LEMMA CutAuthentic ==
  ASSUME TypeOK, Authentic, NEW puts \in SUBSET (BoxPuts \union LoopPuts), CutsOne(puts), UNCHANGED asked
  PROVE  StoresAuthentic'
<1>1. ASSUME NEW p \in puts, p.op = "put" PROVE BytesAsked(p.k, p.val)
  <2>1. CASE p \in BoxPuts
    BY <1>1, <2>1 DEF BoxPuts, Authentic, RequestsAuthentic, BytesAsked
  <2>2. CASE p \in LoopPuts
    BY <1>1, <2>2 DEF LoopPuts, Authentic, PullAuthentic, ValueAsked
  <2>. QED  BY <2>1, <2>2
<1>2. ASSUME NEW k \in Keys, value'["box"][k] # None
      PROVE  BytesAsked(k, value'["box"][k]) /\ ClockKept("box", k, "put", value'["box"][k].c)
  <2>1. CASE value'["box"][k] = value["box"][k]
    BY <1>2, <2>1 DEF Authentic, StoresAuthentic
  <2>2. CASE value'["box"][k] # value["box"][k]
    <3>1. PICK p \in puts :
            /\ p.op = "put" /\ p.k = k
            /\ value'["box"][k].by = p.val.by /\ value'["box"][k].rank = p.val.rank
            /\ value'["box"][k].c = IF value["box"][k] = None THEN 0 ELSE value["box"][k].c
      BY <2>2, CutLeaves
    <3>2. BytesAsked(k, value'["box"][k])
      BY <3>1, <1>1 DEF BytesAsked
    <3>3. ClockKept("box", k, "put", value'["box"][k].c)
      BY <3>1 DEF ClockKept, Authentic, StoresAuthentic
    <3>. QED  BY <3>2, <3>3
  <2>. QED  BY <2>1, <2>2
<1>3. ASSUME NEW k \in Keys, tomb'["box"][k] # None PROVE ClockKept("box", k, "del", tomb'["box"][k])
  BY <1>3, CutLeaves DEF ClockKept, Authentic, StoresAuthentic
<1>4. UNCHANGED <<value["worker"], tomb["worker"]>>
  BY CutLeaves
<1>. QED
  BY <1>2, <1>3, <1>4 DEF Authentic, StoresAuthentic, BytesAsked, ClockKept, ClockAsked

LEMMA AuthenticServe ==
  ASSUME TypeOK, Authentic, NEW s \in Slots, Serve(s) \/ ClientDies(s)
  PROVE  Authentic'
<1>. USE DEF stores, cycle, world
<1>1. asked' = asked /\ UNCHANGED <<index, cycle, calls>>
  BY DEF Serve, Check, Write, Delete, Bury, ClientDies
<1>2. ListingsAuthentic' /\ PullAuthentic' /\ CallsAuthentic'
  BY <1>1 DEF Authentic, ListingsAuthentic, ListingKept, ClockKept, PullAuthentic, CallsAuthentic,
              ValueAsked, BytesAsked, ClockKept, ClockAsked
<1>3. RequestsAuthentic'
  BY <1>1 DEF Authentic, RequestsAuthentic, TypeOK, Serve, Check, Write, Delete, Bury, ClientDies,
              Requests
<1>4. StoresAuthentic'
  <2>1. CASE Write(s)
    <3>1. req[s].op = "put" /\ req[s].d \in Doors /\ req[s].k \in Keys
      BY <2>1 DEF Write, TypeOK, Requests
    <3>2. ValueAsked(req[s].k, req[s].val)
      BY <2>1, <3>1 DEF Write, Authentic, RequestsAuthentic, ValueAsked, BytesAsked, ClockKept, ClockAsked
    <3>. QED
      BY <2>1, <1>1, <3>1, <3>2 DEF Write, SetValue, Authentic, StoresAuthentic, TypeOK,
                                    ValueAsked, BytesAsked, ClockKept, ClockAsked
  <2>2. CASE Delete(s)
    <3>1. UNCHANGED tomb
      BY <2>2 DEF Delete
    <3>2. ASSUME NEW d \in Doors, NEW k \in Keys, value'[d][k] # None
          PROVE  value'[d][k] = value[d][k]
      BY <2>2, <3>2 DEF Delete, SetValue, TypeOK
    <3>. QED
      BY <1>1, <3>1, <3>2 DEF Authentic, StoresAuthentic, BytesAsked, ClockKept, ClockAsked
  <2>3. CASE Bury(s)
    <3>1. req[s].op = "del" /\ req[s].d \in Doors /\ req[s].k \in Keys
      BY <2>3 DEF Bury, TypeOK, Requests
    <3>2. ClockAsked(req[s].k, "del", req[s].val.c)
      BY <2>3, <3>1 DEF Bury, Authentic, RequestsAuthentic, ClockAsked
    <3>. QED
      BY <2>3, <1>1, <3>1, <3>2 DEF Bury, SetTomb, Authentic, StoresAuthentic, TypeOK,
                                    ValueAsked, BytesAsked, ClockKept, ClockAsked
  <2>4. CASE Check(s)
    BY <2>4, <1>1 DEF Check, Authentic, StoresAuthentic, ValueAsked, BytesAsked, ClockKept, ClockAsked
  <2>5. CASE ClientDies(s)
    BY <2>5, <1>1, CutIsOpen, CutAuthentic
  <2>. QED  BY <2>1, <2>2, <2>3, <2>4, <2>5 DEF Serve
<1>. QED  BY <1>2, <1>3, <1>4 DEF Authentic

\* A listing of what a door holds now is as authentic as the door.
LEMMA ActualAuthentic ==
  ASSUME Authentic, NEW d \in Doors, NEW k \in Keys
  PROVE  ListingKept(d, k, Actual(d, k))
BY DEF Authentic, StoresAuthentic, ListingKept, ClockKept, Actual, ClockOf, ValueAsked

LEMMA WorkerListingAuthentic ==
  ASSUME Authentic, NEW k \in Keys
  PROVE  ListingKept("worker", k, WorkerListing[k])
BY ActualAuthentic DEF WorkerListing, Authentic, ListingsAuthentic

LEMMA AuthenticListing ==
  ASSUME TypeOK, Authentic,
         StartCycle \/ ListValues \/ ListTombs \/ EndCycle \/ (\E k \in Keys : IndexCatchesUp(k))
  PROVE  Authentic'
<1>1. UNCHANGED <<value, tomb, req, asked, calls, hand>>
  BY DEF StartCycle, ListValues, ListTombs, ListLocal, EndCycle, IndexCatchesUp,
         stores, clients, cycle
<1>2. StoresAuthentic' /\ RequestsAuthentic' /\ CallsAuthentic'
  BY <1>1 DEF Authentic, StoresAuthentic, RequestsAuthentic, CallsAuthentic,
              ValueAsked, BytesAsked, ClockKept, ClockAsked
<1>3. PullAuthentic'
  BY <1>1 DEF Authentic, PullAuthentic, ValueAsked, BytesAsked, ClockKept, ClockAsked,
              StartCycle, ListValues, ListTombs, ListLocal, EndCycle, IndexCatchesUp, cycle
<1>4. ListingsAuthentic'
  <2>1. CASE StartCycle
    <3>1. \A k \in Keys : rlist'[k] # None =>
             ClockAsked(k, IF rlist'[k].kind = "v" THEN "put" ELSE "del", rlist'[k].c)
      <4>1. SUFFICES ASSUME NEW k \in Keys, rlist'[k] # None
                     PROVE  ClockAsked(k, IF rlist'[k].kind = "v" THEN "put" ELSE "del", rlist'[k].c)
        OBVIOUS
      <4>2. rlist'[k] = SideOf(WorkerListing[k])
        BY <2>1 DEF StartCycle
      <4>3. WorkerListing[k] \in ListedClocks /\ ListingKept("worker", k, WorkerListing[k])
        BY WorkerListingShape, WorkerListingAuthentic
      <4>. QED
        BY <4>1, <4>2, <4>3, SideStateShape DEF SideOf, ListedClocks, ListingKept, ClockKept
    <3>. QED
      BY <2>1, <1>1, <3>1 DEF StartCycle, stores, Authentic, ListingsAuthentic, ListingKept, ClockKept, ClockAsked
  <2>2. ASSUME NEW first \in {"values", "tombs"}, NEW second \in {"values", "tombs"},
               ListLocal(first, second)
        PROVE  ListingsAuthentic'
    <3>1. \A k \in Keys : ListingKept("box", k, llist'[k])
      BY <2>2, ActualAuthentic
         DEF ListLocal, Authentic, ListingsAuthentic, ListingKept, ClockKept, TypeOK, ListedClocks
    <3>. QED
      BY <2>2, <1>1, <3>1 DEF ListLocal, stores, Authentic, ListingsAuthentic, ListingKept, ClockKept, ClockAsked
  <2>3. CASE EndCycle
    BY <2>3, <1>1 DEF EndCycle, stores, Authentic, ListingsAuthentic, ListingKept, ClockKept, ClockAsked
  <2>4. ASSUME NEW k \in Keys, IndexCatchesUp(k)
        PROVE  ListingsAuthentic'
    <3>1. \A j \in Keys : ListingKept("worker", j, index'[j])
      BY <2>4, ActualAuthentic DEF IndexCatchesUp, Authentic, ListingsAuthentic, TypeOK
    <3>. QED
      BY <2>4, <1>1, <3>1
         DEF IndexCatchesUp, cycle, Authentic, ListingsAuthentic, ListingKept, ClockKept, ClockAsked
  <2>. QED  BY <2>1, <2>2, <2>3, <2>4 DEF ListValues, ListTombs
<1>. QED  BY <1>2, <1>3, <1>4 DEF Authentic

LEMMA AuthenticDispatch ==
  ASSUME TypeOK, Authentic, NEW k \in Keys, Dispatch(k)
  PROVE  Authentic'
<1>. DEFINE r == rlist[k]
            l == SideOf(llist[k])
            burial == [k |-> k, op |-> "del", stage |-> "check",
                       val |-> [by |-> 0, rank |-> 0, c |-> l.c]]
<1>. USE DEF stores, clients, world
<1>1. llist[k].v \in Nat \union {None} /\ llist[k].t \in Nat \union {None}
  BY DEF TypeOK, ListedClocks
<1>2. r \in Side /\ l \in Side /\ r # l
  BY <1>1, SideStateShape DEF TypeOK, Dispatch, Left, Differs, SideOf
<1>3. StoresAuthentic' /\ ListingsAuthentic' /\ RequestsAuthentic'
  BY DEF Dispatch, Authentic, StoresAuthentic, ListingsAuthentic, ListingKept, ClockKept, RequestsAuthentic,
         ValueAsked, BytesAsked, ClockKept, ClockAsked
<1>4. PullAuthentic'
  BY <1>2, WayFits DEF Dispatch, PullAuthentic
<1>5. CallsAuthentic'
  <2>1. CASE Way(r, l) = "bury"
    <3>0. l # None /\ l.kind = "t"
      BY <1>2, <2>1, WayFits
    <3>1. llist[k].t # None /\ l.c = llist[k].t
      BY <1>1, <3>0, SideStateShape DEF SideOf
    <3>2. calls' = [calls EXCEPT ![fails] = burial]
      BY <2>1 DEF Dispatch
    <3>3. ClockKept("box", k, "del", llist[k].t)
      BY <3>1 DEF Authentic, ListingsAuthentic, ListingKept
    <3>4. burial.k = k /\ burial.op = "del" /\ burial.stage = "check" /\ burial.val.c = llist[k].t
      BY <3>1
    <3>. HIDE DEF burial
    <3>. QED
      BY <3>2, <3>3, <3>4
         DEF Dispatch, Authentic, CallsAuthentic, TypeOK, ValueAsked, BytesAsked, ClockKept, ClockAsked
  <2>2. CASE Way(r, l) # "bury"
    BY <2>2 DEF Dispatch, Authentic, CallsAuthentic, ValueAsked, BytesAsked, ClockKept, ClockAsked
  <2>. QED  BY <2>1, <2>2
<1>. QED  BY <1>3, <1>4, <1>5 DEF Authentic

LEMMA AuthenticMove ==
  ASSUME TypeOK, Authentic,
         PullGet \/ PullCheck \/ PullWrite \/ PushRead \/ Answer \/ DropCheck \/ DropDelete \/ DropBury
  PROVE  Authentic'
<1>. USE DEF stores, clients, world, Continue
<1>1. UNCHANGED <<index, llist, rlist, req, asked, cur>>
  BY DEF PullGet, PullCheck, PullWrite, PushRead, Answer, DropCheck, DropDelete, DropBury
<1>2. ListingsAuthentic' /\ RequestsAuthentic'
  BY <1>1 DEF Authentic, ListingsAuthentic, ListingKept, ClockKept, RequestsAuthentic, ClockAsked
<1>3. CASE PullGet
  <2>1. UNCHANGED <<value, tomb, calls>>
    BY <1>3 DEF PullGet
  <2>2. ASSUME value["worker"][cur] # None PROVE ValueAsked(cur, hand')
    <3>1. ValueAsked(cur, value["worker"][cur])
      BY <2>2 DEF Authentic, StoresAuthentic, TypeOK, ValueAsked, ClockKept
    <3>2. ClockAsked(cur, "put", rlist[cur].c)
      BY <1>3 DEF PullGet, TypeOK, Authentic, ListingsAuthentic
    <3>3. value["worker"][cur] \in Stamped
      BY <2>2 DEF TypeOK
    <3>4. /\ hand'.by = value["worker"][cur].by /\ hand'.rank = value["worker"][cur].rank
          /\ hand'.c \in {value["worker"][cur].c, rlist[cur].c}
      BY <1>3, <2>2, <3>3 DEF PullGet, Stamped
    <3>. QED
      BY <3>1, <3>2, <3>4 DEF ValueAsked, BytesAsked, ClockKept, ClockAsked
  <2>3. PullAuthentic'
    BY <1>1, <1>3, <2>2 DEF PullGet, PullAuthentic, ValueAsked, BytesAsked, ClockKept, ClockAsked
  <2>. QED
    BY <1>1, <1>2, <2>1, <2>3
       DEF Authentic, StoresAuthentic, CallsAuthentic, ValueAsked, BytesAsked, ClockKept, ClockAsked
<1>4. CASE PullCheck
  BY <1>1, <1>2, <1>4
     DEF PullCheck, Authentic, StoresAuthentic, PullAuthentic, CallsAuthentic,
         ValueAsked, BytesAsked, ClockKept, ClockAsked
<1>5. CASE PullWrite
  <2>1. StoresAuthentic'
    BY <1>1, <1>5 DEF PullWrite, SetValue, Authentic, StoresAuthentic, PullAuthentic, TypeOK,
                      ValueAsked, BytesAsked, ClockKept, ClockAsked
  <2>2. PullAuthentic' /\ CallsAuthentic'
    BY <1>1, <1>5 DEF PullWrite, Authentic, PullAuthentic, CallsAuthentic,
                      ValueAsked, BytesAsked, ClockKept, ClockAsked
  <2>. QED  BY <1>2, <2>1, <2>2 DEF Authentic
<1>6. CASE PushRead
  <2>1. StoresAuthentic' /\ PullAuthentic'
    BY <1>1, <1>6 DEF PushRead, Authentic, StoresAuthentic, PullAuthentic,
                      ValueAsked, BytesAsked, ClockKept, ClockAsked
  <2>2. CASE value["box"][cur] = None
    BY <1>1, <1>2, <1>6, <2>1, <2>2
       DEF PushRead, Authentic, CallsAuthentic, ValueAsked, BytesAsked, ClockKept, ClockAsked
  <2>3. CASE value["box"][cur] # None
    <3>. DEFINE call == [k |-> cur, op |-> "put", stage |-> "check",
                         val |-> [value["box"][cur] EXCEPT !.c = llist[cur].v]]
    <3>1. calls' = [calls EXCEPT ![fails] = call]
      BY <1>6, <2>3 DEF PushRead
    <3>2. BytesAsked(cur, value["box"][cur]) /\ ClockKept("box", cur, "put", llist[cur].v)
      BY <1>6, <2>3 DEF PushRead, TypeOK, Authentic, StoresAuthentic, ListingsAuthentic, ListingKept
    <3>3. value["box"][cur] \in Stamped
      BY <2>3 DEF TypeOK
    <3>4. /\ call.k = cur /\ call.op = "put" /\ call.stage = "check" /\ call.val.c = llist[cur].v
          /\ BytesAsked(cur, call.val)
      BY <3>2, <3>3 DEF BytesAsked, Stamped
    <3>. HIDE DEF call
    <3>5. CallsAuthentic'
      BY <1>1, <3>1, <3>2, <3>4 DEF Authentic, CallsAuthentic, TypeOK, BytesAsked, ClockKept, ClockAsked
    <3>. QED  BY <1>2, <2>1, <3>5 DEF Authentic
  <2>. QED  BY <2>2, <2>3
<1>7. CASE Answer \/ DropCheck
  BY <1>1, <1>2, <1>7
     DEF Answer, DropCheck, Authentic, StoresAuthentic, PullAuthentic, CallsAuthentic,
         ValueAsked, BytesAsked, ClockKept, ClockAsked
<1>8. CASE DropDelete \/ DropBury
  <2>1. StoresAuthentic'
    <3>1. pc = "dropbury" => ClockAsked(cur, "del", rlist[cur].c)
      BY DEF TypeOK, Authentic, ListingsAuthentic
    <3>2. CASE DropDelete
      BY <1>1, <3>2 DEF DropDelete, SetValue, Authentic, StoresAuthentic, TypeOK, ValueAsked, BytesAsked, ClockKept, ClockAsked
    <3>3. CASE DropBury
      <4>1. \A d \in Doors, k \in Keys : tomb'[d][k] = tomb[d][k] \/ (k = cur /\ tomb'[d][k] = rlist[cur].c)
        BY <3>3 DEF DropBury, SetTomb, TypeOK
      <4>2. ClockAsked(cur, "del", rlist[cur].c) /\ value' = value
        BY <3>1, <3>3 DEF DropBury
      <4>. QED
        BY <1>1, <4>1, <4>2 DEF Authentic, StoresAuthentic, ValueAsked, BytesAsked, ClockKept, ClockAsked
    <3>. QED  BY <1>8, <3>2, <3>3
  <2>2. PullAuthentic' /\ CallsAuthentic'
    BY <1>1, <1>8 DEF DropDelete, DropBury, Authentic, PullAuthentic, CallsAuthentic,
                      ValueAsked, BytesAsked, ClockKept, ClockAsked
  <2>. QED  BY <1>2, <2>1, <2>2 DEF Authentic
<1>. QED  BY <1>3, <1>4, <1>5, <1>6, <1>7, <1>8

LEMMA AuthenticFail ==
  ASSUME TypeOK, Authentic, CycleFails \/ BoxRestarts
  PROVE  Authentic'
<1>. USE DEF CycleFails, BoxRestarts, Abandon
<1>1. StoresAuthentic' /\ ListingsAuthentic'
  <2>1. StoresAuthentic'
    BY CutIsOpen, CutAuthentic
  <2>2. ListingsAuthentic'
    BY DEF Authentic, ListingsAuthentic, ListingKept, ClockKept, ClockAsked
  <2>. QED  BY <2>1, <2>2
<1>2. RequestsAuthentic' /\ PullAuthentic'
  BY DEF Authentic, RequestsAuthentic, PullAuthentic
<1>3. calls' = calls \/ calls' = [calls EXCEPT ![fails] = None]
  OBVIOUS
<1>4. CallsAuthentic'
  BY <1>3 DEF Authentic, CallsAuthentic, TypeOK, ValueAsked, BytesAsked, ClockKept, ClockAsked
<1>. QED  BY <1>1, <1>2, <1>4 DEF Authentic

LEMMA AuthenticHandle ==
  ASSUME TypeOK, Authentic, NEW f \in CallSlots, Handle(f) \/ CallDies(f)
  PROVE  Authentic'
<1>. USE DEF stores, clients, cycle, world
<1>1. UNCHANGED <<index, llist, rlist, req, asked, cur, hand>>
  BY DEF Handle, CallCheck, CallBadClock, CallWrite, CallDelete, CallBury, CallDies
<1>2. ListingsAuthentic' /\ RequestsAuthentic'
  BY <1>1 DEF Authentic, ListingsAuthentic, ListingKept, ClockKept, RequestsAuthentic, ClockAsked
<1>3. PullAuthentic'
  BY <1>1 DEF Handle, CallCheck, CallBadClock, CallWrite, CallDelete, CallBury, CallDies,
              Authentic, PullAuthentic, ValueAsked, BytesAsked, ClockKept, ClockAsked
<1>4. calls[f] \in Calls
  BY DEF Handle, CallCheck, CallBadClock, CallWrite, CallDelete, CallBury, CallDies, TypeOK
<1>5. ASSUME NEW g \in CallSlots, calls'[g] # None
      PROVE  /\ calls[g] # None /\ calls'[g].k = calls[g].k /\ calls'[g].op = calls[g].op /\ calls'[g].val = calls[g].val
             /\ calls'[g].stage = calls[g].stage \/ calls[g].stage # "check" \/ calls[g].val.c # 0
  <2>1. CASE g # f
    BY <1>4, <1>5, <2>1 DEF Handle, CallCheck, CallBadClock, CallWrite, CallDelete, CallBury, CallDies, TypeOK
  <2>2. CASE g = f
    <3>1. CallCheck(f) \/ CallDelete(f)
      BY <1>4, <1>5, <2>2 DEF Handle, CallBadClock, CallWrite, CallBury, CallDies, TypeOK
    <3>2. calls[f].val \in Stamped
      BY <1>4 DEF Calls
    <3>. QED  BY <1>4, <1>5, <2>2, <3>1, <3>2 DEF CallCheck, CallDelete, TypeOK, Calls, Stamped
  <2>. QED  BY <2>1, <2>2
<1>6. CallsAuthentic'
  <2>1. SUFFICES ASSUME NEW g \in CallSlots, calls'[g] # None
                 PROVE  /\ calls'[g].op = "put" => BytesAsked(calls'[g].k, calls'[g].val)
                        /\ ClockKept(IF calls'[g].stage = "check" THEN "box" ELSE "worker", calls'[g].k, calls'[g].op, calls'[g].val.c)
    BY <1>1 DEF CallsAuthentic, BytesAsked, ClockKept, ClockAsked
  <2>2. /\ calls[g].op = "put" => BytesAsked(calls[g].k, calls[g].val)
        /\ ClockKept(IF calls[g].stage = "check" THEN "box" ELSE "worker", calls[g].k, calls[g].op, calls[g].val.c)
    BY <1>5, <2>1 DEF Authentic, CallsAuthentic
  <2>. QED  BY <1>5, <2>1, <2>2 DEF ClockKept
<1>7. StoresAuthentic'
  <2>1. CASE CallCheck(f) \/ CallBadClock(f) \/ CallDies(f)
    BY <1>1, <2>1 DEF CallCheck, CallBadClock, CallDies, Authentic, StoresAuthentic,
                      ValueAsked, BytesAsked, ClockKept, ClockAsked
  <2>2. CASE CallWrite(f)
    <3>1. calls[f].op = "put" /\ calls[f].k \in Keys
      BY <1>4, <2>2 DEF CallWrite, Calls
    <3>2. ValueAsked(calls[f].k, calls[f].val)
      BY <2>2, <3>1 DEF CallWrite, Authentic, CallsAuthentic, ValueAsked, ClockKept
    <3>. QED
      BY <1>1, <2>2, <3>1, <3>2 DEF CallWrite, SetValue, Authentic, StoresAuthentic, TypeOK,
                                    ValueAsked, BytesAsked, ClockKept, ClockAsked
  <2>3. CASE CallDelete(f)
    BY <1>1, <1>4, <2>3 DEF CallDelete, SetValue, Calls, Authentic, StoresAuthentic, TypeOK,
                            ValueAsked, BytesAsked, ClockKept, ClockAsked
  <2>4. CASE CallBury(f)
    <3>1. calls[f].op = "del" /\ calls[f].k \in Keys
      BY <1>4, <2>4 DEF CallBury, Calls
    <3>2. ClockAsked(calls[f].k, "del", calls[f].val.c)
      BY <2>4, <3>1 DEF CallBury, Authentic, CallsAuthentic, ClockKept
    <3>. QED
      BY <1>1, <2>4, <3>1, <3>2 DEF CallBury, SetTomb, Authentic, StoresAuthentic, TypeOK,
                                    ValueAsked, BytesAsked, ClockKept, ClockAsked
  <2>. QED  BY <2>1, <2>2, <2>3, <2>4 DEF Handle
<1>. QED  BY <1>2, <1>3, <1>6, <1>7 DEF Authentic

LEMMA AuthenticStep == TypeOK /\ Authentic /\ [Next]_vars => Authentic'
<1>. SUFFICES ASSUME TypeOK, Authentic, [Next]_vars PROVE Authentic'
  OBVIOUS
<1>1. CASE Begins
  <2>1. LegacyValue.rank \in Nat
    BY LegacyValueShape DEF Stamped
  <2>2. PICK s \in Slots, d \in Doors, k \in Keys, op \in {"put", "del"}, c \in 1..MaxClock :
          \E rank \in RanksOf(k, op) : Begin(s, d, k, op, rank, c)
    BY <1>1 DEF Begins
  <2>3. PICK rank \in Nat : Begin(s, d, k, op, rank, c)
    BY <2>1, <2>2, RanksAssumption DEF RanksOf
  <2>4. c \in Nat
    BY BoundsAssumption
  <2>. QED  BY <2>3, <2>4, AuthenticBegin
<1>2. CASE \E s \in Slots : Serve(s) \/ ClientDies(s)
  BY <1>2, AuthenticServe
<1>3. CASE \E k \in Keys : IndexCatchesUp(k)
  BY <1>3, AuthenticListing
<1>4. CASE Drive
  BY <1>4, AuthenticListing, AuthenticDispatch, AuthenticMove DEF Drive
<1>5. CASE CycleFails \/ BoxRestarts
  BY <1>5, AuthenticFail
<1>6. CASE \E f \in CallSlots : Handle(f) \/ CallDies(f)
  BY <1>6, AuthenticHandle
<1>7. CASE UNCHANGED vars
  BY <1>7 DEF vars, stores, clients, cycle, world, Authentic, StoresAuthentic, ListingsAuthentic,
              ListingKept, ClockKept, RequestsAuthentic, PullAuthentic, CallsAuthentic,
              ValueAsked, BytesAsked, ClockKept, ClockAsked
<1>. QED  BY <1>1, <1>2, <1>3, <1>4, <1>5, <1>6, <1>7 DEF Next

\* Neither door ever holds, lists, pulls or is handed bytes, a clock or a deletion that no client
\* sent for that very key.
THEOREM AllIsAuthentic == Spec => []Authentic
<1>1. Init => TypeOK /\ Authentic
  BY TypeInit, AuthenticInit
<1>2. TypeOK /\ Authentic /\ [Next]_vars => TypeOK' /\ Authentic'
  BY TypeStep, AuthenticStep
<1>. QED  BY <1>1, <1>2, PTL DEF Spec

-----------------------------------------------------------------------------
(* Only a client's delete takes a record from a door.                      *)

LEMMA DropStep ==
  ASSUME TypeOK, Authentic, [Next]_vars, NEW d \in Doors, NEW k \in Keys, Dropped(d, k)
  PROVE  DeleteAsked(k)
<1>. USE DEF Dropped
<1>1. value' # value
  OBVIOUS
<1>2. CASE \E s \in Slots : Serve(s)
  <2>1. PICK s \in Slots : Serve(s)
    BY <1>2
  <2>2. req[s] \in Requests /\ (Write(s) \/ Delete(s))
    BY <1>1, <2>1 DEF Serve, Check, Write, Delete, Bury, stores, TypeOK
  <2>3. req[s].val # None
    BY <2>2, NoneAssumption DEF Requests
  <2>4. Delete(s) /\ req[s].k = k
    BY <2>2, <2>3 DEF Write, Delete, SetValue, TypeOK, Requests
  <2>5. req[s].op = "del"
    BY <2>2, <2>4 DEF Delete, Requests
  <2>. QED
    BY <2>4, <2>5 DEF Delete, DeleteAsked, Authentic, RequestsAuthentic
<1>3. CASE Drive
  <2>1. PullWrite \/ DropDelete
    BY <1>1, <1>3 DEF Drive, StartCycle, ListValues, ListTombs, ListLocal, Dispatch, EndCycle, PullGet,
                      PullCheck, PushRead, Answer, DropCheck, DropBury, stores
  <2>2. CASE PullWrite
    BY <2>2 DEF PullWrite, SetValue, TypeOK
  <2>3. CASE DropDelete
    <3>1. cur = k
      BY <2>3 DEF DropDelete, SetValue, TypeOK
    <3>. QED
      BY <2>3, <3>1 DEF DropDelete, TypeOK, Authentic, ListingsAuthentic, ClockAsked, DeleteAsked
  <2>. QED  BY <2>1, <2>2, <2>3
<1>4. CASE \E f \in CallSlots : Handle(f) \/ CallDies(f)
  <2>1. PICK f \in CallSlots : Handle(f) \/ CallDies(f)
    BY <1>4
  <2>2. calls[f] \in Calls /\ (CallWrite(f) \/ CallDelete(f))
    BY <1>1, <2>1 DEF Handle, CallCheck, CallBadClock, CallWrite, CallDelete, CallBury, CallDies, stores, TypeOK
  <2>3. calls[f].val # None
    BY <2>2, NoneAssumption DEF Calls
  <2>4. CallDelete(f) /\ calls[f].k = k
    BY <2>2, <2>3 DEF CallWrite, CallDelete, SetValue, TypeOK, Calls
  <2>5. calls[f].op = "del"
    BY <2>2, <2>4 DEF CallDelete, Calls
  <2>. QED
    BY <2>4, <2>5 DEF CallDelete, DeleteAsked, ClockKept, ClockAsked, Authentic, CallsAuthentic
<1>5. CASE Begins \/ (\E j \in Keys : IndexCatchesUp(j)) \/ UNCHANGED vars
  BY <1>1, <1>5 DEF Begins, Begin, IndexCatchesUp, stores, vars
<1>6. CASE (\E s \in Slots : ClientDies(s)) \/ CycleFails \/ BoxRestarts
  <2>1. PICK puts \in SUBSET (BoxPuts \union LoopPuts) : CutsOne(puts)
    BY <1>6, CutIsOpen
  <2>. QED  BY <2>1, CutLeaves
<1>. QED  BY <1>2, <1>3, <1>4, <1>5, <1>6 DEF Next

\* No loss, failure, lag or race makes either door lose a record for which no client ever sent a
\* delete.
THEOREM NothingIsDroppedUnasked == Spec => NothingDroppedUnasked
<1>1. TypeOK /\ Authentic /\ [Next]_vars
        => [\A d \in Doors, k \in Keys : Dropped(d, k) => DeleteAsked(k)]_vars
  BY DropStep
<1>. QED
  BY <1>1, TypeCorrect, AllIsAuthentic, PTL DEF Spec, NothingDroppedUnasked

=============================================================================
