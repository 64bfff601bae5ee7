-------------------------- MODULE FileStoreProofs --------------------------
(***************************************************************************)
(* Theorems about FileStore, for any number of calls, writes and crashes:  *)
(* a key is a regular register although it lives in two files.             *)
(***************************************************************************)
EXTENDS FileStore, SequenceTheorems, TLAPS

Writing(p) == call[p] # None /\ call[p].op \in {"put", "delete"}
Reading(p) == call[p] # None /\ call[p].op \in {"read", "clean"}

(* A call that writes is the only one at its write, which goes on; what a  *)
(* write came after was over.                                              *)
CallsFit ==
  /\ \A p \in Calls : Writing(p) =>
        /\ call[p].id \in DOMAIN writes
        /\ writes[call[p].id].goes = "on" /\ writes[call[p].id].kind = call[p].op
  /\ \A p, q \in Calls : Writing(p) /\ Writing(q) /\ call[p].id = call[q].id => p = q
  /\ \A k \in DOMAIN writes : writes[k].after \subseteq Over

(* Past its first file, a write has replaced whatever it came after.       *)
Replaced(k) == Done(k) \/ \E p \in Calls : Writing(p) /\ call[p].id = k /\ call[p].stage = "meta"
NothingReplacedIsThere ==
  v # None => v \in DOMAIN writes /\ \A k \in DOMAIN writes : Replaced(k) => ~Precedes(v, k)

(* What a reader has seen no write had replaced by then.                   *)
SeenWasThere ==
  \A p \in Calls : Reading(p) =>
     /\ call[p].seen \in DOMAIN writes /\ call[p].after \subseteq Over
     /\ \A k \in call[p].after : Done(k) => ~Precedes(call[p].seen, k)

(* On a durable key nothing expires, so only a delete takes a value away.  *)
DurableStays ==
  ttl = 0 =>
    /\ \A n \in DOMAIN writes : writes[n].exp = None
    /\ m # None => m.exp = None
    /\ \A p \in Calls : call[p] # None => call[p].op # "clean"
    /\ v = None => \A n \in DOMAIN writes : Replaced(n) /\ writes[n].kind = "put" =>
         \E k \in DOMAIN writes : writes[k].kind = "delete" /\ ~Precedes(k, n)

IInv ==
  /\ TypeOK
  /\ CallsFit
  /\ NothingReplacedIsThere
  /\ SeenWasThere
  /\ DurableStays
  /\ ReadIsRegular

-----------------------------------------------------------------------------
LEMMA WriteCallType == ASSUME TypeOK, NEW p \in Calls, Writing(p) PROVE call[p] \in WriteCalls
  BY DEF TypeOK, Writing, WriteCalls, ReadCalls

LEMMA ReadCallType == ASSUME TypeOK, NEW p \in Calls, Reading(p) PROVE call[p] \in ReadCalls
  BY DEF TypeOK, Reading, WriteCalls, ReadCalls

LEMMA CallsAreNotNone == \A x \in WriteCalls \union ReadCalls : x # None
  BY StoreAssumption

LEMMA AnswersAreNotNone == \A x \in Answers \union Sidecars : x # None
  BY StoreAssumption

LEMMA WritesDomain ==
  ASSUME TypeOK
  PROVE  DOMAIN writes = 1..Len(writes) /\ Len(writes) \in Nat /\ \A n \in DOMAIN writes : n \in Nat /\ writes[n] \in Writes
  BY DEF TypeOK

(* Each kind of step on the calls and the writes, typed.                   *)
LEMMA GoesType ==
  ASSUME TypeOK, NEW p \in Calls, call[p] # None, NEW st \in Stages, Goes(p, st)
  PROVE  call' \in [Calls -> WriteCalls \union ReadCalls \union {None}]
<1>1. call[p] \in WriteCalls => [call[p] EXCEPT !.stage = st] \in WriteCalls
  BY DEF WriteCalls
<1>2. call[p] \in ReadCalls => [call[p] EXCEPT !.stage = st] \in ReadCalls
  BY DEF ReadCalls
<1> QED BY <1>1, <1>2 DEF TypeOK, Goes

LEMMA EndsType ==
  ASSUME TypeOK, CallsFit, NEW p \in Calls, Writing(p), Ends(p)
  PROVE  /\ writes' \in Seq(Writes) /\ Len(writes') = Len(writes) /\ DOMAIN writes' = DOMAIN writes
         /\ writes'[call[p].id] = [writes[call[p].id] EXCEPT !.goes = "done"]
         /\ \A n \in DOMAIN writes \ {call[p].id} : writes'[n] = writes[n]
<1>1. call[p].id \in DOMAIN writes
  BY DEF CallsFit
<1>2. [writes[call[p].id] EXCEPT !.goes = "done"] \in Writes
  BY <1>1, WritesDomain DEF Writes
<1> QED BY <1>1, <1>2, WritesDomain DEF TypeOK, Ends

LEMMA BeginsType ==
  ASSUME TypeOK, NEW p \in Calls, NEW op \in {"put", "delete"}, NEW exp \in Expiries, Begins(p, op, exp)
  PROVE  /\ writes' \in Seq(Writes) /\ Len(writes') = Len(writes) + 1
         /\ DOMAIN writes' = DOMAIN writes \union {Len(writes) + 1}
         /\ writes'[Len(writes) + 1] = [kind |-> op, exp |-> exp, after |-> Over, goes |-> "on"]
         /\ \A n \in DOMAIN writes : writes'[n] = writes[n]
         /\ call' \in [Calls -> WriteCalls \union ReadCalls \union {None}]
         /\ call'[p] = [op |-> op, id |-> Len(writes) + 1, stage |-> "value"]
         /\ \A q \in Calls \ {p} : call'[q] = call[q]
<1>1. Over \subseteq Nat
  BY WritesDomain DEF Over
<1>2. [kind |-> op, exp |-> exp, after |-> Over, goes |-> "on"] \in Writes
  BY <1>1 DEF Writes
<1>3. [op |-> op, id |-> Len(writes) + 1, stage |-> "value"] \in WriteCalls
  BY WritesDomain DEF WriteCalls, Stages
<1>4. /\ writes' \in Seq(Writes) /\ Len(writes') = Len(writes) + 1
      /\ writes'[Len(writes) + 1] = [kind |-> op, exp |-> exp, after |-> Over, goes |-> "on"]
      /\ \A n \in 1..Len(writes) : writes'[n] = writes[n]
  BY <1>2, AppendProperties DEF TypeOK, Begins
<1>5. DOMAIN writes' = 1..(Len(writes) + 1)
  BY <1>4
<1>6. DOMAIN writes' = DOMAIN writes \union {Len(writes) + 1}
  BY <1>5, WritesDomain
<1> QED BY <1>3, <1>4, <1>6, WritesDomain DEF TypeOK, Begins

LEMMA AnswerType ==
  ASSUME TypeOK, NEW x \in Nat \union {None}, NEW c \in Nat \union {None}, NEW a \in SUBSET Nat, Answer(x, c, a)
  PROVE  result' \in Answers
  BY WritesDomain DEF Answer, Answers

-----------------------------------------------------------------------------
LEMMA TypeInit == Init => TypeOK
  BY StoreAssumption DEF Init, TypeOK

LEMMA TypeNext == TypeOK /\ CallsFit /\ [Next]_vars => TypeOK'
<1> SUFFICES ASSUME TypeOK, CallsFit, [Next]_vars PROVE TypeOK'
  OBVIOUS
<1> USE StoreAssumption
<1>1. ASSUME NEW p \in Calls, Put(p) \/ Delete(p) PROVE TypeOK'
  <2>1. ExpOf \in Expiries
    BY DEF ExpOf, Expiries, TypeOK
  <2>2. PICK op \in {"put", "delete"}, exp \in Expiries : Begins(p, op, exp)
    BY <1>1, <2>1 DEF Put, Delete, Expiries
  <2> QED BY <2>2, BeginsType DEF Begins, Silent, TypeOK
<1>2. ASSUME NEW p \in Calls, PutValue(p) \/ DeleteValue(p) \/ CleanValue(p) PROVE TypeOK'
  <2>1. call' \in [Calls -> WriteCalls \union ReadCalls \union {None}]
    BY <1>2, GoesType DEF PutValue, DeleteValue, CleanValue, At, Stages
  <2>2. PutValue(p) => call[p].id \in Nat
    BY WriteCallType DEF PutValue, At, Writing, WriteCalls
  <2> QED BY <1>2, <2>1, <2>2 DEF PutValue, DeleteValue, CleanValue, Silent, TypeOK
<1>3. ASSUME NEW p \in Calls, PutMeta(p) \/ DeleteMeta(p) PROVE TypeOK'
  <2>1. Writing(p) /\ Ends(p) /\ Stops(p)
    BY <1>3 DEF PutMeta, DeleteMeta, At, Writing
  <2>2. writes' \in Seq(Writes)
    BY <2>1, EndsType
  <2>3. Sidecar(call[p].id) \in Sidecars
    BY <2>1, WritesDomain DEF CallsFit, Sidecar, Sidecars, Writes
  <2> QED BY <1>3, <2>1, <2>2, <2>3 DEF PutMeta, DeleteMeta, Stops, Silent, TypeOK
<1>4. ASSUME NEW p \in Calls, ReadValue(p) PROVE TypeOK'
  <2>1. Over \in SUBSET Nat
    BY WritesDomain DEF Over
  <2>2. CASE v = None
    BY <1>4, <2>1, <2>2, AnswerType DEF ReadValue, TypeOK
  <2>3. CASE v # None
    <3>1. [op |-> "read", seen |-> v, after |-> Over, stage |-> "meta"] \in ReadCalls
      BY <2>1, <2>3 DEF ReadCalls, Stages, TypeOK
    <3> QED BY <1>4, <2>3, <3>1 DEF ReadValue, Silent, TypeOK
  <2> QED BY <2>2, <2>3
<1>5. ASSUME NEW p \in Calls, ReadMeta(p) PROVE TypeOK'
  <2>1. call[p] \in ReadCalls
    BY <1>5, ReadCallType DEF ReadMeta, At, Reading
  <2>2. CASE call' = [call EXCEPT ![p].op = "clean", ![p].stage = "value"] /\ Silent
    <3>1. [call[p] EXCEPT !.op = "clean", !.stage = "value"] \in ReadCalls
      BY <2>1 DEF ReadCalls, Stages
    <3> QED BY <1>5, <2>2, <3>1 DEF ReadMeta, Silent, TypeOK
  <2>3. ASSUME NEW c \in Nat \union {None}, Answer(call[p].seen, c, call[p].after), Stops(p) PROVE TypeOK'
    <3>1. result' \in Answers
      BY <2>1, <2>3, AnswerType DEF ReadCalls
    <3> QED BY <1>5, <2>3, <3>1 DEF ReadMeta, Stops, TypeOK
  <2>4. (IF m = None THEN [c |-> None, exp |-> None] ELSE m).c \in Nat \union {None}
    BY DEF TypeOK, Sidecars
  <2> QED BY <1>5, <2>2, <2>3, <2>4 DEF ReadMeta
<1>6. ASSUME NEW p \in Calls, CleanMeta(p) PROVE TypeOK'
  <2>1. call[p] \in ReadCalls
    BY <1>6, ReadCallType DEF CleanMeta, At, Reading
  <2>2. result' \in Answers
    BY <1>6, <2>1, AnswerType DEF CleanMeta, ReadCalls
  <2> QED BY <1>6, <2>2 DEF CleanMeta, Stops, TypeOK
<1>7. CASE Tick
  BY <1>7 DEF Tick, Silent, TypeOK
<1>8. CASE Crash
  <2>1. \A n \in DOMAIN writes : (IF writes[n].goes = "on" THEN [writes[n] EXCEPT !.goes = "dead"] ELSE writes[n]) \in Writes
    BY WritesDomain DEF Writes
  <2>2. writes' \in Seq(Writes)
    BY <1>8, <2>1, WritesDomain, SeqDef DEF Crash
  <2> QED BY <1>8, <2>2 DEF Crash, Silent, TypeOK
<1>9. CASE UNCHANGED vars
  BY <1>9 DEF vars, TypeOK
<1> QED BY <1>1, <1>2, <1>3, <1>4, <1>5, <1>6, <1>7, <1>8, <1>9 DEF Next, Step

-----------------------------------------------------------------------------
Kept == CallsFit /\ NothingReplacedIsThere /\ SeenWasThere /\ DurableStays /\ ReadIsRegular

LEMMA KeptInit == Init => IInv
<1> SUFFICES ASSUME Init PROVE IInv
  OBVIOUS
<1>1. TypeOK
  BY TypeInit
<1>2. DOMAIN writes = {}
  BY DEF Init
<1> QED BY <1>1, <1>2 DEF Init, IInv, CallsFit, NothingReplacedIsThere, SeenWasThere, DurableStays,
              ReadIsRegular, Writing, Reading, Replaced

(* A put or delete begins.                                                 *)
LEMMA KeptBegins ==
  ASSUME IInv, NEW p \in Calls, NEW op \in {"put", "delete"}, NEW exp \in Expiries, Begins(p, op, exp),
         ttl = 0 => exp = None
  PROVE  Kept'
<1> USE DEF IInv
<1> DEFINE new == Len(writes) + 1
<1>1. /\ DOMAIN writes' = DOMAIN writes \union {new} /\ new \notin DOMAIN writes
      /\ writes'[new] = [kind |-> op, exp |-> exp, after |-> Over, goes |-> "on"]
      /\ \A n \in DOMAIN writes : writes'[n] = writes[n]
      /\ call[p] = None /\ call'[p] = [op |-> op, id |-> new, stage |-> "value"]
      /\ \A q \in Calls \ {p} : call'[q] = call[q]
      /\ UNCHANGED <<ttl, v, m>> /\ result' = None
  <2>1. Len(writes) + 1 \notin DOMAIN writes
    BY WritesDomain
  <2> QED BY <2>1, BeginsType DEF Begins, Silent
<1>2. Over' = Over /\ Over \subseteq DOMAIN writes
  BY <1>1 DEF Over
<1>3. /\ \A q \in Calls \ {p} : Writing(q)' = Writing(q) /\ Reading(q)' = Reading(q)
      /\ Writing(p)' /\ ~Reading(p)' /\ ~Writing(p) /\ ~Reading(p)
  <2>1. call'[p] \in WriteCalls
    BY <1>1, WritesDomain DEF WriteCalls, Stages
  <2>2. call'[p] # None
    BY <2>1, CallsAreNotNone
  <2> QED BY <1>1, <2>2 DEF Writing, Reading
<1>4. CallsFit'
  BY <1>1, <1>2, <1>3 DEF CallsFit
<1>5. \A k \in DOMAIN writes' : Replaced(k)' => k \in DOMAIN writes /\ Replaced(k)
  BY <1>1, <1>3 DEF Replaced, Done, CallsFit
<1>6. \A j, k : k \in DOMAIN writes => Precedes(j, k)' = Precedes(j, k)
  BY <1>1 DEF Precedes
<1>7. NothingReplacedIsThere'
  BY <1>1, <1>5, <1>6 DEF NothingReplacedIsThere
<1>8. SeenWasThere'
  BY <1>1, <1>2, <1>3, <1>6 DEF SeenWasThere, Done
<1>9. DurableStays'
  BY <1>1, <1>5, <1>6 DEF DurableStays
<1> QED BY <1>1, <1>4, <1>7, <1>8, <1>9 DEF Kept, ReadIsRegular

(* A write puts or removes its first file, and goes on to the second.      *)
LEMMA KeptValue ==
  ASSUME IInv, NEW p \in Calls, PutValue(p) \/ DeleteValue(p)
  PROVE  Kept'
<1> USE DEF IInv
<1> DEFINE id == call[p].id
<1>1. /\ Writing(p) /\ call[p].stage = "value" /\ Goes(p, "meta") /\ result' = None /\ UNCHANGED <<ttl, m, writes>>
      /\ call[p].op = "put" => v' = id
      /\ call[p].op = "delete" => v' = None
  BY DEF PutValue, DeleteValue, At, Writing, Silent
<1>2. call[p] \in WriteCalls
  BY <1>1, WriteCallType
<1>3. /\ call'[p] = [call[p] EXCEPT !.stage = "meta"]
      /\ call'[p].op = call[p].op /\ call'[p].id = id /\ call'[p].stage = "meta"
      /\ \A q \in Calls \ {p} : call'[q] = call[q]
  BY <1>1, <1>2 DEF Goes, TypeOK, WriteCalls
<1>4. call'[p] # None /\ call[p] # None
  <2>1. call'[p] \in WriteCalls
    BY <1>2, <1>3 DEF WriteCalls, Stages
  <2> QED BY <1>2, <2>1, CallsAreNotNone
<1>5. \A q \in Calls : Writing(q)' = Writing(q) /\ Reading(q)' = Reading(q)
  BY <1>3, <1>4 DEF Writing, Reading
<1>6. id \in DOMAIN writes /\ writes[id].goes = "on" /\ writes[id].kind = call[p].op
  BY <1>1 DEF CallsFit
<1>7. \A k \in DOMAIN writes : ~Precedes(id, k)
  BY <1>6 DEF CallsFit, Over, Precedes
<1>8. CallsFit'
  <2>1. \A q \in Calls : call'[q].id = call[q].id /\ call'[q].op = call[q].op
    BY <1>3
  <2>2. Over' = Over
    BY <1>1 DEF Over
  <2> QED BY <1>1, <1>5, <2>1, <2>2 DEF CallsFit
<1>9. \A k : Replaced(k)' => Replaced(k) \/ k = id
  BY <1>1, <1>3, <1>5 DEF Replaced, Done
<1>10. NothingReplacedIsThere'
  BY <1>1, <1>6, <1>7 DEF NothingReplacedIsThere, Precedes, Writing
<1>11. SeenWasThere'
  BY <1>1, <1>3, <1>5 DEF SeenWasThere, Over, Done, Precedes, Reading, Writing
<1>12. DurableStays'
  <2>1. \A j, k : Precedes(j, k)' = Precedes(j, k)
    BY <1>1 DEF Precedes
  <2>2. \A q \in Calls : call'[q] # None => call[q] # None /\ call'[q].op = call[q].op
    BY <1>3, <1>4
  <2>3. ASSUME ttl = 0, v' = None, NEW n \in DOMAIN writes, Replaced(n)', writes[n].kind = "put"
        PROVE  \E k \in DOMAIN writes : writes[k].kind = "delete" /\ ~Precedes(k, n)
    <3>1. CASE call[p].op = "delete"
      BY <1>6, <1>7, <3>1
    <3>2. CASE call[p].op = "put"
      <4>1. v' = id /\ id # None
        BY <1>1, <1>2, <3>2, StoreAssumption DEF WriteCalls
      <4> QED BY <2>3, <4>1
    <3> QED BY <1>1, <3>1, <3>2 DEF Writing
  <2> QED BY <1>1, <2>1, <2>2, <2>3 DEF DurableStays
<1> QED BY <1>1, <1>8, <1>10, <1>11, <1>12 DEF Kept, ReadIsRegular

(* A write puts or removes its second file and ends.                       *)
LEMMA KeptMeta ==
  ASSUME IInv, NEW p \in Calls, PutMeta(p) \/ DeleteMeta(p)
  PROVE  Kept'
<1> USE DEF IInv
<1> DEFINE id == call[p].id
<1>1. /\ Writing(p) /\ call[p].stage = "meta" /\ Ends(p) /\ Stops(p) /\ result' = None /\ UNCHANGED <<ttl, v>>
      /\ m' = None \/ m' = Sidecar(id)
  BY DEF PutMeta, DeleteMeta, At, Writing, Silent
<1>2. /\ DOMAIN writes' = DOMAIN writes /\ id \in DOMAIN writes
      /\ writes'[id] = [writes[id] EXCEPT !.goes = "done"]
      /\ \A n \in DOMAIN writes \ {id} : writes'[n] = writes[n]
  BY <1>1, EndsType DEF CallsFit
<1>3. writes[id] \in Writes
  BY <1>2, WritesDomain
<1>4. \A n \in DOMAIN writes : writes'[n].after = writes[n].after /\ writes'[n].kind = writes[n].kind /\ writes'[n].exp = writes[n].exp
  BY <1>2, <1>3 DEF Writes
<1>5. /\ \A n \in DOMAIN writes : Done(n)' = (Done(n) \/ n = id)
      /\ Over' = Over \union {id}
  BY <1>2, <1>3 DEF Done, Over, Writes
<1>6. /\ call'[p] = None /\ \A q \in Calls \ {p} : call'[q] = call[q]
      /\ ~Writing(p)' /\ ~Reading(p)'
      /\ \A q \in Calls \ {p} : Writing(q)' = Writing(q) /\ Reading(q)' = Reading(q)
  BY <1>1 DEF Stops, TypeOK, Writing, Reading
<1>7. \A j, k : k \in DOMAIN writes => Precedes(j, k)' = Precedes(j, k)
  BY <1>4 DEF Precedes
<1>8. CallsFit'
  BY <1>1, <1>2, <1>4, <1>5, <1>6 DEF CallsFit
<1>9. \A k \in DOMAIN writes : Replaced(k)' => Replaced(k)
  BY <1>1, <1>5, <1>6 DEF Replaced
<1>10. NothingReplacedIsThere'
  BY <1>1, <1>2, <1>7, <1>9 DEF NothingReplacedIsThere
<1>11. id \notin Over /\ Over \subseteq DOMAIN writes
  BY <1>1 DEF CallsFit, Over
<1>12. SeenWasThere'
  <2> SUFFICES ASSUME NEW q \in Calls, Reading(q)'
               PROVE  /\ call'[q].seen \in DOMAIN writes' /\ call'[q].after \subseteq Over'
                      /\ \A k \in call'[q].after : Done(k)' => call'[q].seen \notin writes'[k].after
    BY DEF SeenWasThere, Precedes
  <2>1. q # p /\ Reading(q) /\ call'[q] = call[q]
    BY <1>6
  <2>2. /\ call[q].seen \in DOMAIN writes /\ call[q].after \subseteq Over
        /\ \A k \in call[q].after : Done(k) => ~Precedes(call[q].seen, k)
    BY <2>1 DEF SeenWasThere
  <2>3. \A k \in call[q].after : k \in DOMAIN writes /\ k # id
    BY <1>11, <2>2
  <2> QED BY <1>2, <1>4, <1>5, <2>1, <2>2, <2>3 DEF Precedes
<1>13. (ttl = 0 /\ m' # None) => m'.exp = None
  BY <1>1, <1>2 DEF DurableStays, Sidecar
<1>14. DurableStays'
  BY <1>1, <1>2, <1>4, <1>6, <1>7, <1>9, <1>13 DEF DurableStays
<1> QED BY <1>1, <1>8, <1>10, <1>12, <1>14 DEF Kept, ReadIsRegular

(* Steps of readers change no write; the files only ever go.               *)
LEMMA KeptRead ==
  ASSUME IInv, NEW p \in Calls, ReadValue(p) \/ ReadMeta(p) \/ CleanValue(p) \/ CleanMeta(p)
  PROVE  Kept'
<1> USE DEF IInv
<1>1. UNCHANGED <<ttl, writes>> /\ Over' = Over /\ Over \subseteq DOMAIN writes
  BY DEF ReadValue, ReadMeta, CleanValue, CleanMeta, Over
<1>2. \A j, k : Precedes(j, k)' = Precedes(j, k) /\ Done(k)' = Done(k)
  BY <1>1 DEF Precedes, Done
<1>3. /\ ~Writing(p) /\ ~Writing(p)'
      /\ \A q \in Calls \ {p} : call'[q] = call[q]
  <2>1. CASE ReadValue(p)
    BY <2>1 DEF ReadValue, Writing, TypeOK
  <2>2. CASE ReadMeta(p) \/ CleanValue(p) \/ CleanMeta(p)
    <3>1. call[p] \in ReadCalls /\ call[p] # None
      BY <2>2, ReadCallType DEF ReadMeta, CleanValue, CleanMeta, At, Reading
    <3>2. /\ call'[p] = None \/ call'[p].op \in {"read", "clean"}
          /\ \A q \in Calls \ {p} : call'[q] = call[q]
      BY <2>2, <3>1 DEF ReadMeta, CleanValue, CleanMeta, Goes, Stops, At, TypeOK, ReadCalls
    <3> QED BY <3>1, <3>2 DEF Writing, ReadCalls
  <2> QED BY <2>1, <2>2
<1>4. \A q \in Calls : Writing(q)' = Writing(q) /\ (Writing(q) => call'[q] = call[q])
  BY <1>3 DEF Writing
<1>5. CallsFit'
  BY <1>1, <1>4 DEF CallsFit
<1>6. \A k : Replaced(k)' = Replaced(k)
  BY <1>2, <1>4 DEF Replaced
<1>7. v' = v \/ v' = None
  BY DEF ReadValue, ReadMeta, CleanValue, CleanMeta
<1>8. NothingReplacedIsThere'
  BY <1>1, <1>2, <1>6, <1>7 DEF NothingReplacedIsThere
<1>9. Reading(p)' => /\ call'[p].seen \in DOMAIN writes /\ call'[p].after \subseteq Over
                     /\ \A k \in call'[p].after : Done(k) => ~Precedes(call'[p].seen, k)
  <2>1. CASE ReadValue(p)
    <3>1. CASE v = None
      BY <2>1, <3>1 DEF ReadValue, Reading
    <3>2. CASE v # None
      <4>1. call'[p] = [op |-> "read", seen |-> v, after |-> Over, stage |-> "meta"]
        BY <2>1, <3>2 DEF ReadValue, TypeOK
      <4> QED BY <1>1, <3>2, <4>1 DEF NothingReplacedIsThere, Replaced
    <3> QED BY <3>1, <3>2
  <2>2. CASE ReadMeta(p) \/ CleanValue(p) \/ CleanMeta(p)
    <3>1. call[p] \in ReadCalls /\ Reading(p)
      BY <2>2, ReadCallType DEF ReadMeta, CleanValue, CleanMeta, At, Reading
    <3>2. call'[p] = None \/ (call'[p].seen = call[p].seen /\ call'[p].after = call[p].after)
      BY <2>2, <3>1 DEF ReadMeta, CleanValue, CleanMeta, Goes, Stops, TypeOK, ReadCalls
    <3> QED BY <3>1, <3>2 DEF SeenWasThere, Reading
  <2> QED BY <2>1, <2>2
<1>10. SeenWasThere'
  BY <1>1, <1>2, <1>3, <1>9 DEF SeenWasThere, Reading
<1>11. ttl = 0 => ~CleanValue(p) /\ ~CleanMeta(p)
  BY DEF DurableStays, CleanValue, CleanMeta, At
<1>12. (ttl = 0 /\ call'[p] # None) => call'[p].op # "clean"
  <2>1. CASE ReadValue(p)
    BY <2>1 DEF ReadValue, TypeOK
  <2>2. CASE ReadMeta(p) /\ ttl = 0
    BY <2>2 DEF ReadMeta, Expired, DurableStays, Stops, TypeOK
  <2> QED BY <1>11, <2>1, <2>2
<1>13. ttl = 0 => v' = v /\ m' = m
  BY <1>11 DEF ReadValue, ReadMeta
<1>14. DurableStays'
  BY <1>1, <1>2, <1>3, <1>6, <1>12, <1>13 DEF DurableStays
<1>15. ReadIsRegular'
  <2>1. CASE result' = None
    BY <2>1 DEF ReadIsRegular
  <2>2. CASE v = None /\ Answer(None, None, Over)
    <3>1. result' = [value |-> None, c |-> None, after |-> Over, begun |-> DOMAIN writes]
      BY <2>2 DEF Answer
    <3> QED BY <1>1, <1>2, <2>2, <3>1 DEF ReadIsRegular, DurableStays, Replaced
  <2>3. ASSUME NEW c, Answer(call[p].seen, c, call[p].after), Reading(p) PROVE ReadIsRegular'
    <3>1. result' = [value |-> call[p].seen, c |-> c, after |-> call[p].after, begun |-> DOMAIN writes]
      BY <2>3 DEF Answer
    <3>2. call[p].seen # None
      BY <2>3, ReadCallType, StoreAssumption DEF ReadCalls
    <3> QED BY <1>1, <1>2, <2>3, <3>1, <3>2 DEF ReadIsRegular, SeenWasThere
  <2>4. CASE CleanMeta(p)
    <3>1. result' = [value |-> None, c |-> None, after |-> call[p].after, begun |-> DOMAIN writes]
      BY <2>4 DEF CleanMeta, Answer
    <3> QED BY <1>1, <1>11, <2>4, <3>1 DEF ReadIsRegular
  <2>5. CASE ReadValue(p)
    BY <2>1, <2>2, <2>5 DEF ReadValue, Silent
  <2>6. CASE ReadMeta(p)
    BY <2>1, <2>3, <2>6 DEF ReadMeta, At, Reading, Silent
  <2>7. CASE CleanValue(p)
    BY <2>1, <2>7 DEF CleanValue, Silent
  <2> QED BY <2>4, <2>5, <2>6, <2>7
<1> QED BY <1>5, <1>8, <1>10, <1>14, <1>15 DEF Kept

(* A crash ends every call; what had not ended never will.                 *)
LEMMA KeptCrash == ASSUME IInv, Crash PROVE Kept'
<1> USE DEF IInv
<1>1. /\ DOMAIN writes' = DOMAIN writes /\ UNCHANGED <<ttl, v, m>> /\ result' = None
      /\ \A p \in Calls : call'[p] = None
      /\ \A n \in DOMAIN writes : writes'[n] = IF writes[n].goes = "on" THEN [writes[n] EXCEPT !.goes = "dead"] ELSE writes[n]
  BY DEF Crash, Silent
<1>2. \A n \in DOMAIN writes : /\ writes'[n].after = writes[n].after /\ writes'[n].kind = writes[n].kind
                               /\ writes'[n].exp = writes[n].exp
                               /\ Done(n)' = Done(n) /\ writes'[n].goes # "on"
  BY <1>1, WritesDomain DEF Writes, Done
<1>3. \A p \in Calls : ~Writing(p)' /\ ~Reading(p)'
  BY <1>1 DEF Writing, Reading
<1>4. Over' = DOMAIN writes
  BY <1>1, <1>2 DEF Over
<1>5. CallsFit'
  BY <1>1, <1>2, <1>3, <1>4 DEF CallsFit, Over
<1>6. \A k \in DOMAIN writes : Replaced(k)' => Replaced(k)
  BY <1>2, <1>3 DEF Replaced
<1>7. NothingReplacedIsThere'
  BY <1>1, <1>2, <1>6 DEF NothingReplacedIsThere, Precedes
<1>8. SeenWasThere'
  BY <1>3 DEF SeenWasThere
<1>9. DurableStays'
  BY <1>1, <1>2, <1>6 DEF DurableStays, Precedes
<1> QED BY <1>1, <1>5, <1>7, <1>8, <1>9 DEF Kept, ReadIsRegular

LEMMA KeptNext == IInv /\ [Next]_vars => IInv'
<1> SUFFICES ASSUME IInv, [Next]_vars PROVE Kept'
  BY TypeNext DEF IInv, Kept
<1>1. ASSUME NEW p \in Calls, Put(p) \/ Delete(p) PROVE Kept'
  <2>1. ExpOf \in Expiries /\ (ttl = 0 => ExpOf = None)
    BY StoreAssumption DEF ExpOf, Expiries, IInv, TypeOK
  <2>2. PICK op \in {"put", "delete"}, exp \in Expiries : Begins(p, op, exp) /\ (ttl = 0 => exp = None)
    BY <1>1, <2>1 DEF Put, Delete, Expiries
  <2> QED BY <2>2, KeptBegins
<1>2. CASE Tick \/ UNCHANGED vars
  BY <1>2 DEF Tick, Silent, vars, IInv, Kept, CallsFit, NothingReplacedIsThere, SeenWasThere, DurableStays,
              ReadIsRegular, Writing, Reading, Replaced, Precedes, Done, Over
<1> QED BY <1>1, <1>2, KeptValue, KeptMeta, KeptRead, KeptCrash DEF Next, Step

(* Every variable keeps its type.                                          *)
THEOREM TypeCorrect == Spec => []TypeOK
<1>1. Init => IInv
  BY KeptInit
<1>2. IInv /\ [Next]_vars => IInv'
  BY KeptNext
<1>3. IInv => TypeOK
  BY DEF IInv
<1> QED BY <1>1, <1>2, <1>3, PTL DEF Spec

(* Every read is regular: it answers nothing that was replaced before it   *)
(* began, and misses nothing durable that was stored before it began.      *)
THEOREM EveryReadIsRegular == Spec => []ReadIsRegular
<1>1. Init => IInv
  BY KeptInit
<1>2. IInv /\ [Next]_vars => IInv'
  BY KeptNext
<1>3. IInv => ReadIsRegular
  BY DEF IInv
<1> QED BY <1>1, <1>2, <1>3, PTL DEF Spec
-----------------------------------------------------------------------------
(* The steps of the register that the steps of the store are.              *)

RegDoing == [p \in Calls |-> DoingOf(call[p])]
RegAnswer == IF result = None THEN None ELSE [value |-> result.value]

LEMMA RegisterStarts ==
  ASSUME IInv, NEW p \in Calls, NEW op \in {"put", "delete"}, NEW exp \in Expiries, Begins(p, op, exp)
  PROVE  R!Starts(p)
<1> DEFINE new == [op |-> op, id |-> Len(writes) + 1, stage |-> "value"]
<1>1. /\ call[p] = None /\ Len(writes) + 1 \in 1..MaxWrites
      /\ call' = [call EXCEPT ![p] = new]
      /\ result' = None /\ UNCHANGED <<ttl, v>>
  BY StoreAssumption, WritesDomain DEF Begins, Silent, IInv
<1>2. new # None
  <2>1. new \in WriteCalls
    BY WritesDomain DEF WriteCalls, Stages, IInv
  <2> QED BY <2>1, CallsAreNotNone
<1>3. DoingOf(new) = [op |-> op, id |-> Len(writes) + 1, effect |-> "ahead"]
  BY <1>2 DEF DoingOf
<1>4. RegDoing' = [RegDoing EXCEPT ![p] = [op |-> op, id |-> Len(writes) + 1, effect |-> "ahead"]]
  BY <1>1, <1>3 DEF RegDoing, IInv, TypeOK
<1>5. RegDoing[p].op = "free"
  BY <1>1 DEF RegDoing, DoingOf
<1> QED BY <1>1, <1>4, <1>5 DEF R!Starts, R!Now, R!NoAnswer, RegDoing

LEMMA RegisterTakesEffect ==
  ASSUME IInv, NEW p \in Calls, PutValue(p) \/ DeleteValue(p)
  PROVE  R!TakesEffect(p)
<1>1. /\ call[p] # None /\ call[p].op \in {"put", "delete"} /\ call[p].stage = "value"
      /\ v' = IF call[p].op = "put" THEN call[p].id ELSE None
      /\ call' = [call EXCEPT ![p].stage = "meta"]
      /\ result' = None /\ UNCHANGED ttl
  BY DEF PutValue, DeleteValue, At, Goes, Silent
<1>2. call[p] \in WriteCalls
  BY <1>1, WriteCallType DEF Writing, IInv
<1>3. [call[p] EXCEPT !.stage = "meta"] \in WriteCalls
  BY <1>2 DEF WriteCalls, Stages
<1>4. [call[p] EXCEPT !.stage = "meta"] # None
  BY <1>3, CallsAreNotNone
<1>5. RegDoing[p] = [op |-> call[p].op, id |-> call[p].id, effect |-> "ahead"]
  BY <1>1 DEF RegDoing, DoingOf
<1>6. DoingOf([call[p] EXCEPT !.stage = "meta"]) = [RegDoing[p] EXCEPT !.effect = "past"]
  <2> DEFINE new == [call[p] EXCEPT !.stage = "meta"]
  <2>0. new # None /\ new.op = call[p].op /\ new.id = call[p].id /\ new.stage = "meta"
    BY <1>2, <1>4 DEF WriteCalls
  <2> HIDE DEF new
  <2>1. DoingOf(new) = [op |-> call[p].op, id |-> call[p].id, effect |-> "past"]
    BY <1>1, <2>0 DEF DoingOf
  <2>2. [RegDoing[p] EXCEPT !.effect = "past"] = [op |-> call[p].op, id |-> call[p].id, effect |-> "past"]
    BY <1>5
  <2> QED BY <2>1, <2>2 DEF new
<1>7. RegDoing' = [RegDoing EXCEPT ![p] = [RegDoing[p] EXCEPT !.effect = "past"]]
  BY <1>1, <1>6 DEF RegDoing, IInv, TypeOK
<1> QED BY <1>1, <1>5, <1>7 DEF R!TakesEffect, R!Now, R!NoAnswer, RegDoing

LEMMA RegisterIsDone ==
  ASSUME IInv, NEW p \in Calls, PutMeta(p) \/ DeleteMeta(p)
  PROVE  R!IsDone(p)
<1>1. /\ call[p] # None /\ call[p].op \in {"put", "delete"} /\ call[p].stage = "meta"
      /\ call' = [call EXCEPT ![p] = None]
      /\ result' = None /\ UNCHANGED <<ttl, v>>
  BY DEF PutMeta, DeleteMeta, At, Stops, Silent
<1>2. RegDoing[p] = [op |-> call[p].op, id |-> call[p].id, effect |-> "past"]
  BY <1>1 DEF RegDoing, DoingOf
<1>3. RegDoing' = [RegDoing EXCEPT ![p] = R!Free]
  BY <1>1 DEF RegDoing, DoingOf, R!Free, IInv, TypeOK
<1> QED BY <1>1, <1>2, <1>3 DEF R!IsDone, R!Now, R!NoAnswer, RegDoing

LEMMA RegisterLooks ==
  ASSUME IInv, NEW p \in Calls, ReadValue(p)
  PROVE  R!Looks(p) \/ R!FindsNothing(p)
<1>1. call[p] = None /\ RegDoing[p].op = "free" /\ UNCHANGED <<ttl, v>>
  BY DEF ReadValue, RegDoing, DoingOf
<1>2. CASE v = None
  <2>1. UNCHANGED call /\ result' = [value |-> None, c |-> None, after |-> Over, begun |-> DOMAIN writes]
    BY <1>2 DEF ReadValue, Answer
  <2>2. result' # None
    <3>1. result' \in Answers
      BY <1>2, WritesDomain, AnswerType DEF ReadValue, Over, IInv
    <3> QED BY <3>1, AnswersAreNotNone
  <2>3. RegAnswer' = [value |-> None] /\ RegDoing' = RegDoing
    BY <2>1, <2>2 DEF RegAnswer, RegDoing
  <2> QED BY <1>1, <1>2, <2>3 DEF R!FindsNothing, RegDoing, RegAnswer
<1>3. CASE v # None
  <2> DEFINE new == [op |-> "read", seen |-> v, after |-> Over, stage |-> "meta"]
  <2>1. call' = [call EXCEPT ![p] = new] /\ result' = None
    BY <1>3 DEF ReadValue, Silent
  <2>2. new # None
    <3>1. new \in ReadCalls
      BY <1>3, WritesDomain DEF ReadCalls, Stages, Over, IInv, TypeOK
    <3> QED BY <3>1, CallsAreNotNone
  <2>3. DoingOf(new) = [op |-> "read", got |-> v]
    BY <2>2 DEF DoingOf
  <2>4. RegDoing' = [RegDoing EXCEPT ![p] = [op |-> "read", got |-> v]]
    BY <2>1, <2>3 DEF RegDoing, IInv, TypeOK
  <2> QED BY <1>1, <1>3, <2>1, <2>4 DEF R!Looks, R!Now, R!NoAnswer, RegDoing
<1> QED BY <1>2, <1>3

LEMMA RegisterAnswers ==
  ASSUME IInv, NEW p \in Calls, ReadMeta(p) \/ CleanMeta(p)
  PROVE  R!Answers(p) \/ R!Passes
<1>1. Reading(p) /\ call[p] \in ReadCalls /\ UNCHANGED <<ttl, v>>
  BY ReadCallType DEF ReadMeta, CleanMeta, At, Reading, IInv
<1>2. RegDoing[p] = [op |-> "read", got |-> call[p].seen]
  BY <1>1 DEF RegDoing, DoingOf, Reading
<1>3. ASSUME Stops(p) PROVE RegDoing' = [RegDoing EXCEPT ![p] = R!Free]
  BY <1>3 DEF Stops, RegDoing, DoingOf, R!Free, IInv, TypeOK
<1>4. ASSUME NEW x \in Nat \union {None}, NEW c \in Nat \union {None}, Answer(x, c, call[p].after)
      PROVE  RegAnswer' = [value |-> x]
  <2>1. result' # None
    BY <1>1, <1>4, AnswerType, AnswersAreNotNone DEF ReadCalls, IInv
  <2> QED BY <1>4, <2>1 DEF Answer, RegAnswer
<1>5. CASE ReadMeta(p) /\ call' = [call EXCEPT ![p].op = "clean", ![p].stage = "value"] /\ Silent
  <2> DEFINE new == [call[p] EXCEPT !.op = "clean", !.stage = "value"]
  <2>1. new \in ReadCalls
    BY <1>1 DEF ReadCalls, Stages
  <2>2. call' = [call EXCEPT ![p] = new] /\ new # None
    BY <1>5, <2>1, CallsAreNotNone DEF IInv, TypeOK
  <2>3. DoingOf(new) = RegDoing[p]
    BY <1>1, <1>2, <2>2 DEF DoingOf, ReadCalls
  <2>4. RegDoing' = RegDoing
    BY <2>2, <2>3 DEF RegDoing, IInv, TypeOK
  <2> QED BY <1>1, <1>5, <2>4 DEF R!Passes, R!NoAnswer, RegDoing, Silent
<1>6. ASSUME NEW c \in Nat \union {None}, Answer(call[p].seen, c, call[p].after), Stops(p) PROVE R!Answers(p)
  <2>1. RegAnswer' = [value |-> call[p].seen]
    BY <1>1, <1>4, <1>6 DEF ReadCalls
  <2> QED BY <1>1, <1>2, <1>3, <1>6, <2>1 DEF R!Answers, R!Now, RegDoing, RegAnswer
<1>7. CASE CleanMeta(p)
  <2>1. ttl # 0
    BY <1>1, <1>7 DEF CleanMeta, At, IInv, DurableStays
  <2>2. RegAnswer' = [value |-> None]
    BY <1>4, <1>7 DEF CleanMeta
  <2> QED BY <1>1, <1>2, <1>3, <1>7, <2>1, <2>2 DEF CleanMeta, R!Answers, R!Now, RegDoing, RegAnswer
<1>8. CASE ReadMeta(p)
  <2>1. (IF m = None THEN [c |-> None, exp |-> None] ELSE m).c \in Nat \union {None}
    BY DEF IInv, TypeOK, Sidecars
  <2> QED BY <1>5, <1>6, <1>8, <2>1 DEF ReadMeta
<1> QED BY <1>7, <1>8

LEMMA RegisterExpires ==
  ASSUME IInv, NEW p \in Calls, CleanValue(p)
  PROVE  R!Expires
<1> DEFINE new == [call[p] EXCEPT !.stage = "meta"]
<1>1. /\ call[p] # None /\ call[p].op = "clean" /\ v' = None /\ UNCHANGED ttl /\ result' = None
      /\ call[p] \in ReadCalls /\ call' = [call EXCEPT ![p] = new] /\ ttl # 0
  BY ReadCallType DEF CleanValue, At, Reading, Goes, Silent, IInv, DurableStays, TypeOK
<1>2. new \in ReadCalls
  BY <1>1 DEF ReadCalls, Stages
<1>3. new # None /\ DoingOf(new) = RegDoing[p]
  BY <1>1, <1>2, CallsAreNotNone DEF DoingOf, RegDoing, ReadCalls
<1>4. RegDoing' = RegDoing
  BY <1>1, <1>3 DEF RegDoing, IInv, TypeOK
<1> QED BY <1>1, <1>4 DEF R!Expires, R!NoAnswer, RegDoing

(* The two files are one place: the store implements the register, for any *)
(* number of calls, writes and crashes.                                    *)
THEOREM StoreImplementsRegister == Spec => StoreIsRegister
<1>1. Init => IInv
  BY KeptInit
<1>2. IInv /\ [Next]_vars => IInv'
  BY KeptNext
<1>3. Init => R!RegInit
  BY DEF Init, R!RegInit, R!Free, DoingOf
<1>4. IInv /\ [Next]_vars => [R!RegNext]_(R!regVars)
  <2> SUFFICES ASSUME IInv, Next PROVE R!RegNext
    BY DEF vars, R!regVars
  <2>1. ASSUME NEW p \in Calls, Put(p) \/ Delete(p) PROVE R!Starts(p)
    <3>1. ExpOf \in Expiries /\ None \in Expiries
      BY StoreAssumption DEF ExpOf, Expiries, IInv, TypeOK
    <3> QED BY <2>1, <3>1, RegisterStarts DEF Put, Delete
  <2>2. ASSUME NEW p \in Calls, ReadValue(p) \/ Step(p) PROVE R!RegNext
    BY <2>2, RegisterTakesEffect, RegisterIsDone, RegisterLooks, RegisterAnswers, RegisterExpires
       DEF Step, R!RegNext
  <2>3. CASE Tick \/ Crash
    <3>1. Tick => R!Passes
      BY DEF Tick, Silent, R!Passes, R!NoAnswer
    <3>2. Crash => R!GoesDown
      BY DEF Crash, Silent, R!GoesDown, R!NoAnswer, R!Free, DoingOf
    <3> QED BY <2>3, <3>1, <3>2 DEF R!RegNext
  <2> QED BY <2>1, <2>2, <2>3 DEF Next, R!RegNext
<1> QED BY <1>1, <1>2, <1>3, <1>4, PTL DEF Spec, StoreIsRegister, R!RegSpec

-----------------------------------------------------------------------------
(* Bytes and clock.  The value that is there, if its put is done and every *)
(* other write came wholly before or after it, has its own sidecar: one    *)
(* that came before is over, and one that came after would have replaced   *)
(* the value first.                                                        *)
Alone(n) == \A k \in DOMAIN writes \ {n} : Precedes(k, n) \/ Precedes(n, k)
PairStays == ttl = 0 => \A n \in DOMAIN writes : v = n /\ Done(n) /\ Alone(n) => m = Sidecar(n)

(* A reader that no write runs beside has seen what is still there.        *)
SeenStays == ttl = 0 => \A p \in Calls : Reading(p) /\ DOMAIN writes \subseteq call[p].after => v = call[p].seen

PutIsThere == v # None => writes[v].kind = "put"

PairKept == PairStays /\ PutIsThere /\ SeenStays /\ DurablePairFits
PairInv == IInv /\ PairKept

LEMMA PairInit == Init => PairInv
<1> SUFFICES ASSUME Init PROVE PairKept
  BY KeptInit DEF PairInv
<1>1. DOMAIN writes = {}
  BY DEF Init
<1> QED BY <1>1 DEF Init, PairKept, PairStays, PutIsThere, SeenStays, DurablePairFits, Reading

LEMMA PairBegins ==
  ASSUME PairInv, NEW p \in Calls, NEW op \in {"put", "delete"}, NEW exp \in Expiries, Begins(p, op, exp)
  PROVE  PairKept'
<1> USE DEF PairInv, PairKept, IInv
<1> DEFINE new == Len(writes) + 1
<1>1. /\ DOMAIN writes' = DOMAIN writes \union {new} /\ new \notin DOMAIN writes
      /\ writes'[new] = [kind |-> op, exp |-> exp, after |-> Over, goes |-> "on"]
      /\ \A n \in DOMAIN writes : writes'[n] = writes[n]
      /\ call'[p] = [op |-> op, id |-> new, stage |-> "value"]
      /\ \A q \in Calls \ {p} : call'[q] = call[q]
      /\ UNCHANGED <<ttl, v, m>> /\ result' = None
  <2>1. new \notin DOMAIN writes
    BY WritesDomain
  <2> QED BY <2>1, BeginsType DEF Begins, Silent
<1>2. writes'[new].goes # "done"
  BY <1>1
<1>3. \A n \in DOMAIN writes : /\ Done(n)' = Done(n) /\ Sidecar(n)' = Sidecar(n)
                               /\ Alone(n)' => Alone(n)
  BY <1>1 DEF Done, Sidecar, Alone, Precedes
<1>4. PairStays'
  BY <1>1, <1>2, <1>3 DEF PairStays, Done
<1>5. \A q \in Calls : Reading(q)' => Reading(q) /\ call'[q] = call[q] /\ new \notin call'[q].after
  <2> SUFFICES ASSUME NEW q \in Calls, Reading(q)'
               PROVE  Reading(q) /\ call'[q] = call[q] /\ new \notin call'[q].after
    OBVIOUS
  <2>1. q # p
    BY <1>1 DEF Reading
  <2>2. call'[q] = call[q] /\ Reading(q)
    BY <1>1, <2>1 DEF Reading
  <2>3. call[q].after \subseteq DOMAIN writes
    BY <2>2 DEF SeenWasThere, Over
  <2> QED BY <1>1, <2>2, <2>3
<1>6. SeenStays'
  BY <1>1, <1>5 DEF SeenStays
<1>7. PutIsThere'
  BY <1>1 DEF PutIsThere, NothingReplacedIsThere
<1> QED BY <1>1, <1>4, <1>6, <1>7 DEF DurablePairFits

LEMMA PairValue ==
  ASSUME PairInv, NEW p \in Calls, PutValue(p) \/ DeleteValue(p)
  PROVE  PairKept'
<1> USE DEF PairInv, PairKept, IInv
<1> DEFINE id == call[p].id
<1>1. /\ Writing(p) /\ UNCHANGED <<ttl, m, writes>> /\ result' = None
      /\ v' = id \/ v' = None
      /\ call' = [call EXCEPT ![p].stage = "meta"]
  BY DEF PutValue, DeleteValue, At, Writing, Silent, Goes
<1>2. id \in DOMAIN writes /\ ~Done(id) /\ id \notin Over
  BY <1>1 DEF CallsFit, Done, Over
<1>3. None \notin DOMAIN writes
  BY WritesDomain, StoreAssumption
<1>4. PairStays'
  BY <1>1, <1>2, <1>3 DEF PairStays, Done
<1>5. call[p] \in WriteCalls
  BY <1>1, WriteCallType
<1>6. \A q \in Calls : Reading(q)' => Reading(q) /\ call'[q].after = call[q].after
  <2>1. call'[p] = [call[p] EXCEPT !.stage = "meta"] /\ call'[p].op = call[p].op
    BY <1>1, <1>5 DEF TypeOK, WriteCalls
  <2>2. \A q \in Calls \ {p} : call'[q] = call[q]
    BY <1>1 DEF TypeOK
  <2> QED BY <1>1, <2>1, <2>2 DEF Reading, Writing
<1>7. SeenStays'
  BY <1>1, <1>2, <1>6 DEF SeenStays, SeenWasThere
<1>8. PutIsThere'
  BY <1>1 DEF PutIsThere, PutValue, DeleteValue, At, CallsFit
<1> QED BY <1>1, <1>4, <1>7, <1>8 DEF DurablePairFits

LEMMA PairMeta ==
  ASSUME PairInv, NEW p \in Calls, PutMeta(p) \/ DeleteMeta(p)
  PROVE  PairKept'
<1> USE DEF PairInv, PairKept, IInv
<1> DEFINE id == call[p].id
<1>1. /\ Writing(p) /\ call[p].stage = "meta" /\ Ends(p) /\ Stops(p) /\ result' = None /\ UNCHANGED <<ttl, v>>
      /\ \/ m' = Sidecar(id) /\ writes[id].kind = "put"
         \/ m' = None /\ writes[id].kind = "delete"
  BY DEF PutMeta, DeleteMeta, At, Writing, Silent, CallsFit
<1>2. /\ DOMAIN writes' = DOMAIN writes /\ id \in DOMAIN writes
      /\ writes'[id] = [writes[id] EXCEPT !.goes = "done"]
      /\ \A n \in DOMAIN writes \ {id} : writes'[n] = writes[n]
  BY <1>1, EndsType DEF CallsFit
<1>3. writes[id] \in Writes
  BY <1>2, WritesDomain
<1>4. /\ \A n \in DOMAIN writes : writes'[n].after = writes[n].after /\ writes'[n].exp = writes[n].exp
      /\ \A n \in DOMAIN writes \ {id} : Done(n)' = Done(n)
  BY <1>2, <1>3 DEF Writes, Done
<1>5. \A n \in DOMAIN writes : Sidecar(n)' = Sidecar(n) /\ Alone(n)' = Alone(n)
  BY <1>2, <1>4 DEF Sidecar, Alone, Precedes
<1>6. Replaced(id) /\ id \notin Over
  BY <1>1 DEF Replaced, CallsFit, Over
<1>7. PairStays'
  <2> SUFFICES ASSUME ttl = 0, NEW n \in DOMAIN writes, v = n, Done(n)', Alone(n) PROVE m' = Sidecar(n)
    BY <1>1, <1>2, <1>5 DEF PairStays
  <2>0. v # None
    BY WritesDomain, StoreAssumption
  <2>1. CASE n = id
    BY <1>1, <2>0, <2>1 DEF PutIsThere
  <2>2. CASE n # id
    <3>1. Precedes(id, n) \/ Precedes(n, id)
      BY <1>2, <2>2 DEF Alone
    <3>2. ~Precedes(n, id)
      BY <1>2, <1>6, <2>0 DEF NothingReplacedIsThere
    <3>3. ~Precedes(id, n)
      BY <1>6 DEF CallsFit, Precedes
    <3> QED BY <3>1, <3>2, <3>3
  <2> QED BY <2>1, <2>2
<1>8. /\ call'[p] = None /\ \A q \in Calls \ {p} : call'[q] = call[q]
  BY <1>1 DEF Stops, TypeOK
<1>9. SeenStays'
  BY <1>1, <1>2, <1>8 DEF SeenStays, Reading
<1>10. PutIsThere'
  <2>1. writes'[id].kind = writes[id].kind
    BY <1>2, <1>3 DEF Writes
  <2> QED BY <1>1, <1>2, <2>1 DEF PutIsThere, NothingReplacedIsThere
<1> QED BY <1>1, <1>7, <1>9, <1>10 DEF DurablePairFits

LEMMA PairRead ==
  ASSUME PairInv, NEW p \in Calls, ReadValue(p) \/ ReadMeta(p) \/ CleanValue(p) \/ CleanMeta(p)
  PROVE  PairKept'
<1> USE DEF PairInv, PairKept, IInv
<1>1. UNCHANGED <<ttl, writes>> /\ (v' = v \/ v' = None) /\ (ttl = 0 => UNCHANGED <<v, m>>)
  BY DEF ReadValue, ReadMeta, CleanValue, CleanMeta, At, DurableStays
<1>2. \A n : Sidecar(n)' = Sidecar(n) /\ Alone(n)' = Alone(n) /\ Done(n)' = Done(n)
  BY <1>1 DEF Sidecar, Alone, Done, Precedes
<1>3. PairStays' /\ PutIsThere'
  BY <1>1, <1>2 DEF PairStays, PutIsThere
<1>4. SeenStays'
  <2> SUFFICES ASSUME ttl = 0, NEW q \in Calls, Reading(q)', DOMAIN writes \subseteq call'[q].after
               PROVE  v = call'[q].seen
    BY <1>1 DEF SeenStays
  <2>1. CASE ReadValue(p)
    <3>1. CASE q = p /\ v # None
      BY <2>1, <3>1 DEF ReadValue, TypeOK
    <3>2. CASE q # p \/ v = None
      <4>1. call'[q] = call[q] /\ Reading(q)
        BY <2>1, <3>2 DEF ReadValue, Reading, TypeOK
      <4> QED BY <4>1 DEF SeenStays
    <3> QED BY <3>1, <3>2
  <2>2. CASE ReadMeta(p)
    <3>1. call'[q] = call[q] /\ Reading(q)
      BY <2>2 DEF ReadMeta, Expired, DurableStays, Stops, Reading, TypeOK
    <3> QED BY <3>1 DEF SeenStays
  <2>3. CASE CleanValue(p) \/ CleanMeta(p)
    BY <2>3 DEF CleanValue, CleanMeta, At, DurableStays
  <2> QED BY <2>1, <2>2, <2>3
<1>5. DurablePairFits'
  <2> SUFFICES ASSUME result' # None, ttl = 0, result'.begun \subseteq result'.after, result'.value \in result'.after,
                      Done(result'.value), \A k \in result'.begun \ {result'.value} :
                                              Precedes(k, result'.value) \/ Precedes(result'.value, k)
               PROVE  result'.c = result'.value
    BY <1>1, <1>2 DEF DurablePairFits, Apart, Precedes
  <2>1. CASE ReadMeta(p)
    <3>1. result' = [value |-> call[p].seen, c |-> (IF m = None THEN [c |-> None, exp |-> None] ELSE m).c,
                     after |-> call[p].after, begun |-> DOMAIN writes]
      BY <2>1 DEF ReadMeta, Answer, Expired, DurableStays, Silent
    <3>2. Reading(p) /\ v = call[p].seen
      BY <2>1, <3>1 DEF ReadMeta, At, Reading, SeenStays
    <3>3. v \in DOMAIN writes /\ Alone(v)
      BY <3>1, <3>2 DEF SeenWasThere, Alone
    <3>4. m = Sidecar(v)
      BY <3>1, <3>2, <3>3 DEF PairStays
    <3>5. m # None /\ m.c = v
      <4>1. m \in Sidecars
        BY <3>3, <3>4, WritesDomain DEF Sidecar, Sidecars, Writes
      <4>2. m # None
        BY <4>1, AnswersAreNotNone
      <4> QED BY <3>4, <4>2 DEF Sidecar
    <3> QED BY <3>1, <3>2, <3>5
  <2>2. CASE ReadValue(p)
    <3>1. result' = [value |-> None, c |-> None, after |-> Over, begun |-> DOMAIN writes]
      BY <2>2 DEF ReadValue, Answer, Silent
    <3> QED BY <3>1, WritesDomain, StoreAssumption DEF Over
  <2>3. CASE CleanValue(p) \/ CleanMeta(p)
    BY <2>3 DEF CleanValue, CleanMeta, At, DurableStays
  <2> QED BY <2>1, <2>2, <2>3
<1> QED BY <1>3, <1>4, <1>5

LEMMA PairCrash == ASSUME PairInv, Crash PROVE PairKept'
<1> USE DEF PairInv, PairKept, IInv
<1>1. /\ DOMAIN writes' = DOMAIN writes /\ UNCHANGED <<ttl, v, m>> /\ result' = None
      /\ \A p \in Calls : call'[p] = None
      /\ \A n \in DOMAIN writes : writes'[n] = IF writes[n].goes = "on" THEN [writes[n] EXCEPT !.goes = "dead"] ELSE writes[n]
  BY DEF Crash, Silent
<1>2. \A n \in DOMAIN writes : /\ writes'[n].after = writes[n].after /\ writes'[n].kind = writes[n].kind
                               /\ writes'[n].exp = writes[n].exp /\ Done(n)' = Done(n)
  BY <1>1, WritesDomain DEF Writes, Done
<1>3. \A n \in DOMAIN writes : Sidecar(n)' = Sidecar(n) /\ Alone(n)' = Alone(n)
  BY <1>1, <1>2 DEF Sidecar, Alone, Precedes
<1>4. PairStays'
  BY <1>1, <1>2, <1>3 DEF PairStays
<1>5. PutIsThere'
  BY <1>1, <1>2 DEF PutIsThere, NothingReplacedIsThere
<1> QED BY <1>1, <1>4, <1>5 DEF SeenStays, DurablePairFits, Reading

LEMMA PairNext == PairInv /\ [Next]_vars => PairInv'
<1> SUFFICES ASSUME PairInv, [Next]_vars PROVE PairKept'
  BY KeptNext DEF PairInv
<1>1. ASSUME NEW p \in Calls, Put(p) \/ Delete(p) PROVE PairKept'
  <2>1. ExpOf \in Expiries /\ None \in Expiries
    BY StoreAssumption DEF ExpOf, Expiries, PairInv, IInv, TypeOK
  <2> QED BY <1>1, <2>1, PairBegins DEF Put, Delete
<1>2. CASE Tick \/ UNCHANGED vars
  BY <1>2 DEF Tick, Silent, vars, PairInv, PairKept, PairStays, PutIsThere, SeenStays, DurablePairFits,
              Sidecar, Alone, Done, Precedes, Reading, Apart
<1>3. ASSUME NEW p \in Calls, ReadValue(p) \/ Step(p) PROVE PairKept'
  BY <1>3, PairValue, PairMeta, PairRead DEF Step
<1> QED BY <1>1, <1>2, <1>3, PairCrash DEF Next

(* An undisturbed value of a durable key comes with its own clock.         *)
THEOREM DurablePairsFit == Spec => []DurablePairFits
<1>1. Init => PairInv
  BY PairInit
<1>2. PairInv /\ [Next]_vars => PairInv'
  BY PairNext
<1>3. PairInv => DurablePairFits
  BY DEF PairInv, PairKept
<1> QED BY <1>1, <1>2, <1>3, PTL DEF Spec
=============================================================================
