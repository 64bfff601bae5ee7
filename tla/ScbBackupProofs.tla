-------------------------- MODULE ScbBackupProofs --------------------------
(***************************************************************************)
(* Theorems about ScbBackup, for any number of copies, pushes, restores    *)
(* and kills: an OK is true, a push that runs alone rotates the            *)
(* generations as it should, and a calm restore answers bytes and meta     *)
(* that belong together.                                                   *)
(***************************************************************************)
EXTENDS ScbBackup, TLAPS

Writing(s) == push[s] # NoCopy /\ push[s].stage \in {"put prevMeta", "put cur", "put curMeta"}
Alone(s) == push[s] # NoCopy /\ push[s].alone
Fits(g) ==
  \/ scb[g] = NoCopy /\ scbmeta[g] = NoCopy
  \/ scb[g] # NoCopy /\ scbmeta[g] # NoCopy /\ scbmeta[g].sha256 = scb[g]

(* What the repeat answer trusts: the current meta, and the meta about to  *)
(* be put, are of a copy whose bytes went before.                          *)
StoredFirst ==
  /\ told \subseteq stored
  /\ scbmeta["cur"] # NoCopy => scbmeta["cur"].sha256 \in stored
  /\ \A s \in Pushes : PushAt(s, "put curMeta") => push[s].copy \in stored

(* A push that has run alone so far is the only one, and what it has read  *)
(* is what is there.                                                       *)
AloneKnows ==
  \A s \in Pushes : Alone(s) =>
    /\ \A z \in Pushes \ {s} : push[z] = NoCopy
    /\ push[s].stage \in {"curMeta", "put prev", "put prevMeta", "put cur"} => push[s].cur = scb["cur"]
    /\ push[s].stage \in {"put prev", "put prevMeta", "put cur", "put curMeta"} => push[s].meta = scbmeta["cur"]

(* Whoever writes carries another copy and a later ts than the meta it     *)
(* read.                                                                   *)
WritesNews ==
  \A s \in Pushes : Writing(s) \/ PushAt(s, "put prev") =>
    ~IsStoredCopy(push[s].meta, push[s].copy) /\ ~IsOlderPush(push[s].meta, push[s].ts)

(* Bytes come first: while there are no current ones there is nothing.     *)
BytesFirst ==
  scb["cur"] = NoCopy =>
    /\ scbmeta["cur"] = NoCopy /\ scb["prev"] = NoCopy /\ scbmeta["prev"] = NoCopy
    /\ \A s \in Pushes : push[s] # NoCopy =>
         push[s].cur = NoCopy /\ push[s].meta = NoCopy /\ push[s].stage # "put curMeta"

MetaIsLatest == scbmeta["cur"] = latest

(* The previous generation is the latest one there was, whole.             *)
Rotated == Fits("prev") /\ (latest # NoCopy => scbmeta["prev"] = latest /\ scb["prev"] = latest.sha256)

(* Between pushes a generation fits unless it may be torn; a push that     *)
(* writes alone keeps the current one until the previous one is whole.     *)
GenerationsFit ==
  /\ (\A s \in Pushes : ~Writing(s)) => \A g \in Generations \ torn : Fits(g)
  /\ \A s \in Pushes : Alone(s) =>
       /\ push[s].stage \in {"put prevMeta", "put cur"} /\ "cur" \notin torn => Fits("cur")
       /\ push[s].stage = "put prevMeta" /\ push[s].cur # NoCopy => scb["prev"] = push[s].cur
       /\ push[s].stage \in {"put cur", "put curMeta"} /\ "cur" \notin torn => Rotated
       /\ push[s].stage = "put curMeta" => scb["cur"] = push[s].copy

(* Beside a calm restore nothing is pushed: the bytes it read are there.   *)
CalmRestores ==
  \A r \in Restores : restore[r] # NoCopy /\ restore[r].calm =>
    (\A s \in Pushes : push[s] = NoCopy) /\ scb[restore[r].gen] = restore[r].copy

ScbIInv ==
  /\ ScbTypeOK /\ StoredFirst /\ AloneKnows /\ WritesNews /\ BytesFirst
  /\ MetaIsLatest /\ GenerationsFit /\ CalmRestores
-----------------------------------------------------------------------------
(* What a handler's step does to the handlers.                             *)

Others(s) == \A z \in Pushes \ {s} : push'[z] = push[z]
Moves(s, stage) ==
  /\ Others(s) /\ push'[s] \in PutCalls /\ push'[s] # NoCopy /\ push'[s].stage = stage
  /\ push'[s].copy = push[s].copy /\ push'[s].ts = push[s].ts /\ push'[s].alone = push[s].alone

LEMMA GoesMoves ==
  ASSUME ScbTypeOK, NEW s \in Pushes, push[s] # NoCopy, NEW stage \in PushStages, PushGoes(s, stage)
  PROVE  /\ push' \in [Pushes -> PutCalls \union {NoCopy}] /\ Moves(s, stage)
         /\ push'[s].cur = push[s].cur /\ push'[s].meta = push[s].meta
<1>1. push[s] \in PutCalls
  BY DEF ScbTypeOK
<1>2. push'[s] = [push[s] EXCEPT !.stage = stage] /\ Others(s)
  BY DEF PushGoes, ScbTypeOK, Others
<1>3. push'[s] \in PutCalls /\ push'[s].cur = push[s].cur /\ push'[s].meta = push[s].meta
  BY <1>1, <1>2 DEF PutCalls
<1>4. push'[s].copy = push[s].copy /\ push'[s].ts = push[s].ts /\ push'[s].alone = push[s].alone /\ push'[s].stage = stage
  BY <1>1, <1>2 DEF PutCalls
<1>5. push' \in [Pushes -> PutCalls \union {NoCopy}]
  BY <1>3, <1>2 DEF PushGoes, ScbTypeOK
<1> QED BY <1>2, <1>3, <1>4, <1>5, ScbAssumption DEF Moves

LEMMA EndsEnds ==
  ASSUME ScbTypeOK, NEW s \in Pushes, PushEnds(s)
  PROVE  push' \in [Pushes -> PutCalls \union {NoCopy}] /\ Others(s) /\ push'[s] = NoCopy
  BY DEF PushEnds, ScbTypeOK, Others

LEMMA ReadsCurMoves ==
  ASSUME ScbTypeOK, NEW s \in Pushes, PushReadsCur(s)
  PROVE  /\ push' \in [Pushes -> PutCalls \union {NoCopy}] /\ Moves(s, "curMeta")
         /\ push'[s].cur = scb["cur"] /\ push'[s].meta = push[s].meta
<1>1. push[s] \in PutCalls /\ scb["cur"] \in Copies \union {NoCopy}
  BY DEF ScbTypeOK, PushReadsCur, PushAt, Generations
<1>2. push'[s] = [push[s] EXCEPT !.cur = scb["cur"], !.stage = "curMeta"] /\ Others(s)
  BY DEF PushReadsCur, ScbTypeOK, Others
<1>3. push'[s] \in PutCalls /\ push'[s].cur = scb["cur"] /\ push'[s].meta = push[s].meta
  BY <1>1, <1>2 DEF PutCalls, PushStages
<1>4. push'[s].copy = push[s].copy /\ push'[s].ts = push[s].ts /\ push'[s].alone = push[s].alone /\ push'[s].stage = "curMeta"
  BY <1>1, <1>2 DEF PutCalls
<1>5. push' \in [Pushes -> PutCalls \union {NoCopy}]
  BY <1>3, <1>2 DEF PushReadsCur, ScbTypeOK
<1> QED BY <1>2, <1>3, <1>4, <1>5, ScbAssumption DEF Moves

LEMMA ReadsMetaMoves ==
  ASSUME ScbTypeOK, NEW s \in Pushes, push[s] # NoCopy, NEW x \in Metas \union {NoCopy},
         push' = [push EXCEPT ![s].meta = x, ![s].stage = "put prev"]
  PROVE  /\ push' \in [Pushes -> PutCalls \union {NoCopy}] /\ Moves(s, "put prev")
         /\ push'[s].cur = push[s].cur /\ push'[s].meta = x
<1>1. push[s] \in PutCalls
  BY DEF ScbTypeOK
<1>2. push'[s] = [push[s] EXCEPT !.meta = x, !.stage = "put prev"] /\ Others(s)
  BY DEF ScbTypeOK, Others
<1>3. push'[s] \in PutCalls /\ push'[s].cur = push[s].cur /\ push'[s].meta = x
  <2>1. "put prev" \in PushStages
    BY DEF PushStages
  <2>2. [push[s] EXCEPT !.meta = x, !.stage = "put prev"] \in PutCalls
    BY <1>1, <2>1 DEF PutCalls
  <2> QED BY <1>1, <1>2, <2>2 DEF PutCalls
<1>4. push'[s].copy = push[s].copy /\ push'[s].ts = push[s].ts /\ push'[s].alone = push[s].alone /\ push'[s].stage = "put prev"
  BY <1>1, <1>2 DEF PutCalls
<1>5. push' \in [Pushes -> PutCalls \union {NoCopy}]
  BY <1>3, <1>2 DEF ScbTypeOK
<1> QED BY <1>2, <1>3, <1>4, <1>5, ScbAssumption DEF Moves

(* A push that arrives is alone if no other runs; those that run are not   *)
(* any more.                                                               *)
LEMMA ArrivesMoves ==
  ASSUME ScbTypeOK, NEW s \in Pushes, NEW ts \in Stamps, PushArrives(s, ts)
  PROVE  /\ push[s] = NoCopy /\ push' \in [Pushes -> PutCalls \union {NoCopy}]
         /\ push'[s].stage = "cur" /\ push'[s].cur = NoCopy /\ push'[s].meta = NoCopy
         /\ push'[s].alone <=> \A z \in Pushes : push[z] = NoCopy
         /\ \A z \in Pushes \ {s} :
              \/ push[z] = NoCopy /\ push'[z] = NoCopy
              \/ /\ push[z] # NoCopy /\ push'[z] # NoCopy /\ ~push'[z].alone
                 /\ push'[z].copy = push[z].copy /\ push'[z].ts = push[z].ts /\ push'[z].stage = push[z].stage
                 /\ push'[z].cur = push[z].cur /\ push'[z].meta = push[z].meta
<1> DEFINE others == {z \in Pushes : push[z] # NoCopy}
<1> DEFINE new == [copy |-> signs[ts], ts |-> ts, stage |-> "cur", cur |-> NoCopy,
                   meta |-> NoCopy, alone |-> others = {}]
<1>1. /\ push[s] = NoCopy
      /\ push' = [z \in Pushes |-> IF z = s THEN new
                                   ELSE IF z \in others THEN [push[z] EXCEPT !.alone = FALSE] ELSE NoCopy]
  BY DEF PushArrives
<1>2. signs[ts] \in Copies
  BY DEF PushArrives, ScbTypeOK
<1>3. (others = {}) \in BOOLEAN /\ (others = {} <=> \A z \in Pushes : push[z] = NoCopy)
  OBVIOUS
<1> HIDE DEF others
<1>4. new \in PutCalls
  BY <1>2, <1>3 DEF PutCalls, PushStages
<1>5. ASSUME NEW z \in Pushes \ {s}, push[z] # NoCopy
      PROVE  /\ push'[z] = [push[z] EXCEPT !.alone = FALSE] /\ push'[z] \in PutCalls /\ ~push'[z].alone
             /\ push'[z].copy = push[z].copy /\ push'[z].ts = push[z].ts /\ push'[z].stage = push[z].stage
             /\ push'[z].cur = push[z].cur /\ push'[z].meta = push[z].meta
  <2>1. push[z] \in PutCalls
    BY <1>5 DEF ScbTypeOK
  <2>2. push'[z] = [push[z] EXCEPT !.alone = FALSE]
    BY <1>1, <1>5 DEF others
  <2> QED BY <2>1, <2>2 DEF PutCalls
<1>6. \A z \in Pushes \ {s} : push[z] = NoCopy => push'[z] = NoCopy
  BY <1>1 DEF others
<1>7. push'[s] = new
  BY <1>1
<1>8. push' \in [Pushes -> PutCalls \union {NoCopy}]
  BY <1>1, <1>4, <1>5, <1>6, <1>7
<1> QED BY <1>1, <1>3, <1>5, <1>6, <1>7, <1>8, ScbAssumption
-----------------------------------------------------------------------------
(* The types.                                                              *)

LEMMA ScbTypeNext == ScbTypeOK /\ [ScbNext]_scbVars => ScbTypeOK'
<1> SUFFICES ASSUME ScbTypeOK, [ScbNext]_scbVars PROVE ScbTypeOK'
  OBVIOUS
<1> USE ScbAssumption
<1>1. ASSUME NEW s \in Pushes, NEW ts \in Stamps, PushArrives(s, ts) PROVE ScbTypeOK'
  <2>1. restore' \in [Restores -> GetCalls \union {NoCopy}]
    <3>1. \A r \in Restores : restore[r] # NoCopy => [restore[r] EXCEPT !.calm = FALSE] \in GetCalls
      BY DEF ScbTypeOK, GetCalls
    <3> QED BY <1>1, <3>1 DEF PushArrives
  <2>2. push' \in [Pushes -> PutCalls \union {NoCopy}]
    BY <1>1, ArrivesMoves
  <2> QED BY <1>1, <2>1, <2>2 DEF PushArrives, ScbTypeOK
<1>2. ASSUME NEW s \in Pushes, PushReadsCur(s) PROVE ScbTypeOK'
  BY <1>2, ReadsCurMoves DEF PushReadsCur, KeepsStore, ScbTypeOK
<1>3. ASSUME NEW s \in Pushes, PushReadsMeta(s) PROVE ScbTypeOK'
  <2>1. push[s] \in PutCalls /\ scbmeta["cur"] \in Metas \union {NoCopy} /\ push[s] # NoCopy
    BY <1>3 DEF ScbTypeOK, PushReadsMeta, PushAt, Generations
  <2>2. push' \in [Pushes -> PutCalls \union {NoCopy}]
    BY <1>3, <2>1, ReadsMetaMoves, EndsEnds DEF PushReadsMeta
  <2>3. told' \subseteq Copies
    BY <1>3, <2>1 DEF PushReadsMeta, ScbTypeOK, PutCalls
  <2> QED BY <1>3, <2>2, <2>3 DEF PushReadsMeta, KeepsStore, ScbTypeOK
<1>4. ASSUME NEW s \in Pushes, PutPrev(s) \/ PutPrevMeta(s) \/ PutCur(s) \/ PutCurMeta(s) PROVE ScbTypeOK'
  <2>1. push[s] # NoCopy /\ push[s] \in PutCalls
    BY <1>4 DEF PutPrev, PutPrevMeta, PutCur, PutCurMeta, PushAt, ScbTypeOK
  <2>2. push' \in [Pushes -> PutCalls \union {NoCopy}]
    BY <1>4, <2>1, GoesMoves, EndsEnds DEF PutPrev, PutPrevMeta, PutCur, PutCurMeta, PushStages
  <2>3. push[s].copy \in Copies /\ push[s].ts \in Stamps /\ push[s].cur \in Copies \union {NoCopy} /\ push[s].meta \in Metas \union {NoCopy}
    BY <2>1 DEF PutCalls
  <2>4. [sha256 |-> push[s].copy, ts |-> push[s].ts] \in Metas
    BY <2>3 DEF Metas
  <2>5. scb' \in [Generations -> Copies \union {NoCopy}] /\ stored' \subseteq Copies /\ told' \subseteq Copies
    BY <1>4, <2>3 DEF PutPrev, PutPrevMeta, PutCur, PutCurMeta, ScbTypeOK
  <2>6. scbmeta' \in [Generations -> Metas \union {NoCopy}] /\ latest' \in Metas \union {NoCopy} /\ torn' \subseteq Generations
    <3>1. "prev" \in Generations /\ "cur" \in Generations
      BY DEF Generations
    <3>2. CASE PutPrevMeta(s)
      BY <2>3, <3>1, <3>2 DEF PutPrevMeta, ScbTypeOK
    <3>3. CASE PutCurMeta(s)
      <4>1. scbmeta' = [scbmeta EXCEPT !["cur"] = [sha256 |-> push[s].copy, ts |-> push[s].ts]] /\ latest' \in Metas
        BY <2>4, <3>3 DEF PutCurMeta
      <4>2. torn' \subseteq Generations
        BY <3>1, <3>3 DEF PutCurMeta
      <4> QED BY <2>4, <4>1, <4>2 DEF ScbTypeOK
    <3>4. CASE PutPrev(s) \/ PutCur(s)
      BY <3>4 DEF PutPrev, PutCur, ScbTypeOK
    <3> QED BY <1>4, <3>2, <3>3, <3>4
  <2> QED BY <1>4, <2>2, <2>5, <2>6 DEF PutPrev, PutPrevMeta, PutCur, PutCurMeta, ScbTypeOK
<1>5. ASSUME NEW s \in Pushes, PushKilled(s) PROVE ScbTypeOK'
  <2>1. HalfWritten(s) \subseteq Generations
    BY DEF HalfWritten
  <2> QED BY <1>5, <2>1, EndsEnds DEF PushKilled, ScbTypeOK
<1>6. ASSUME NEW r \in Restores, NEW gen \in Generations, RestoreReadsBytes(r, gen) PROVE ScbTypeOK'
  <2> DEFINE got == [gen |-> gen, copy |-> scb[gen], calm |-> \A s \in Pushes : push[s] = NoCopy]
  <2>1. got \in GetCalls
    BY <1>6 DEF RestoreReadsBytes, ScbTypeOK, GetCalls
  <2> QED BY <1>6, <2>1 DEF RestoreReadsBytes, ScbTypeOK
<1>7. ASSUME NEW r \in Restores, RestoreReadsMeta(r) PROVE ScbTypeOK'
  BY <1>7 DEF RestoreReadsMeta, ScbTypeOK
<1>8. CASE UNCHANGED scbVars
  BY <1>8 DEF scbVars, ScbTypeOK
<1> QED BY <1>1, <1>2, <1>3, <1>4, <1>5, <1>6, <1>7, <1>8 DEF ScbNext

-----------------------------------------------------------------------------
(* Each step keeps the invariant.                                          *)

CopiesHold ==
  StoredFirst /\ AloneKnows /\ WritesNews /\ BytesFirst /\ MetaIsLatest /\ GenerationsFit /\ CalmRestores

LEMMA InitKept == ScbInit => ScbIInv
<1> SUFFICES ASSUME ScbInit PROVE ScbIInv
  OBVIOUS
<1>1. ScbTypeOK
  BY ScbAssumption DEF ScbInit, ScbTypeOK
<1>2. StoredFirst /\ AloneKnows /\ WritesNews /\ BytesFirst /\ MetaIsLatest /\ CalmRestores
  BY DEF ScbInit, StoredFirst, AloneKnows, WritesNews, BytesFirst, MetaIsLatest, CalmRestores, Alone, Writing, PushAt, Generations
<1>3. GenerationsFit
  BY DEF ScbInit, GenerationsFit, Fits, Alone
<1> QED BY <1>1, <1>2, <1>3 DEF ScbIInv

LEMMA KeptArrives ==
  ASSUME ScbIInv, NEW s \in Pushes, NEW ts \in Stamps, PushArrives(s, ts)
  PROVE  CopiesHold'
<1>0. UNCHANGED <<scb, scbmeta, stored, told, latest, torn>>
  BY DEF PushArrives
<1>1. /\ push[s] = NoCopy
      /\ push'[s].stage = "cur" /\ push'[s].cur = NoCopy /\ push'[s].meta = NoCopy
      /\ push'[s].alone <=> \A z \in Pushes : push[z] = NoCopy
      /\ \A z \in Pushes \ {s} :
           \/ push[z] = NoCopy /\ push'[z] = NoCopy
           \/ /\ push[z] # NoCopy /\ push'[z] # NoCopy /\ ~push'[z].alone
              /\ push'[z].copy = push[z].copy /\ push'[z].ts = push[z].ts /\ push'[z].stage = push[z].stage
              /\ push'[z].cur = push[z].cur /\ push'[z].meta = push[z].meta
  BY ArrivesMoves DEF ScbIInv
<1>2. StoredFirst'
  BY <1>0, <1>1 DEF ScbIInv, StoredFirst, PushAt
<1>3. AloneKnows'
  BY <1>0, <1>1 DEF AloneKnows, Alone
<1>4. WritesNews'
  BY <1>0, <1>1 DEF ScbIInv, WritesNews, Writing, PushAt, IsStoredCopy, IsOlderPush
<1>5. BytesFirst'
  BY <1>0, <1>1 DEF ScbIInv, BytesFirst
<1>6. GenerationsFit'
  <2>1. (\A z \in Pushes : ~Writing(z))' => \A z \in Pushes : ~Writing(z)
    BY <1>1 DEF Writing
  <2>2. \A z \in Pushes : Alone(z)' => z = s
    BY <1>1 DEF Alone
  <2> QED BY <1>0, <1>1, <2>1, <2>2 DEF ScbIInv, GenerationsFit, Fits, Rotated
<1>7. CalmRestores'
  <2>1. \A r \in Restores : restore[r] # NoCopy => restore[r] \in GetCalls
    BY DEF ScbIInv, ScbTypeOK
  <2>2. \A r \in Restores : restore'[r] # NoCopy => ~restore'[r].calm
    BY <2>1 DEF PushArrives, GetCalls
  <2> QED BY <2>2 DEF CalmRestores
<1> QED BY <1>0, <1>2, <1>3, <1>4, <1>5, <1>6, <1>7 DEF ScbIInv, CopiesHold, MetaIsLatest

LEMMA KeptReadsCur ==
  ASSUME ScbIInv, NEW s \in Pushes, PushReadsCur(s)
  PROVE  CopiesHold'
<1>0. UNCHANGED <<scb, scbmeta, restore, stored, told, latest, torn>> /\ PushAt(s, "cur")
  BY DEF PushReadsCur, KeepsStore
<1>1. Moves(s, "curMeta") /\ push'[s].cur = scb["cur"] /\ push'[s].meta = push[s].meta
  BY ReadsCurMoves DEF ScbIInv
<1>2. StoredFirst'
  BY <1>0, <1>1 DEF ScbIInv, StoredFirst, PushAt, Moves, Others
<1>3. AloneKnows'
  BY <1>0, <1>1 DEF ScbIInv, AloneKnows, Alone, PushAt, Moves, Others
<1>4. WritesNews'
  BY <1>0, <1>1 DEF ScbIInv, WritesNews, Writing, PushAt, Moves, Others, IsStoredCopy, IsOlderPush
<1>5. BytesFirst'
  BY <1>0, <1>1 DEF ScbIInv, BytesFirst, PushAt, Moves, Others
<1>6. GenerationsFit'
  BY <1>0, <1>1 DEF ScbIInv, GenerationsFit, Fits, Rotated, Writing, Alone, PushAt, Moves, Others
<1>7. CalmRestores'
  BY <1>0, <1>1 DEF ScbIInv, CalmRestores, PushAt
<1> QED BY <1>0, <1>2, <1>3, <1>4, <1>5, <1>6, <1>7 DEF ScbIInv, CopiesHold, MetaIsLatest

(* A push that ends having written nothing.                                *)
LEMMA KeptEnds ==
  ASSUME ScbIInv, NEW s \in Pushes, push[s] # NoCopy, ~Writing(s), PushEnds(s),
         UNCHANGED <<scb, scbmeta, restore, stored, latest>>,
         told' \subseteq stored, torn' = torn \/ torn' = Generations
  PROVE  CopiesHold'
<1>1. Others(s) /\ push'[s] = NoCopy
  BY EndsEnds DEF ScbIInv
<1>2. StoredFirst'
  BY <1>1 DEF ScbIInv, StoredFirst, PushAt, Others
<1>3. AloneKnows'
  BY <1>1 DEF ScbIInv, AloneKnows, Alone, Others
<1>4. WritesNews'
  BY <1>1 DEF ScbIInv, WritesNews, Writing, PushAt, Others, IsStoredCopy, IsOlderPush
<1>5. BytesFirst'
  BY <1>1 DEF ScbIInv, BytesFirst, Others
<1>6. GenerationsFit'
  <2>1. (\A z \in Pushes : ~Writing(z))' => \A z \in Pushes : ~Writing(z)
    BY <1>1 DEF Writing, Others
  <2>2. ASSUME NEW z \in Pushes, Alone(z)' PROVE z # s /\ Alone(z) /\ push'[z] = push[z] /\ FALSE
    BY <1>1, <2>2 DEF ScbIInv, AloneKnows, Alone, Others
  <2> QED BY <2>1, <2>2 DEF ScbIInv, GenerationsFit, Fits
<1>7. CalmRestores'
  BY DEF ScbIInv, CalmRestores
<1> QED BY <1>2, <1>3, <1>4, <1>5, <1>6, <1>7 DEF ScbIInv, CopiesHold, MetaIsLatest

LEMMA KeptReadsMeta ==
  ASSUME ScbIInv, NEW s \in Pushes, PushReadsMeta(s)
  PROVE  CopiesHold'
<1> DEFINE meta == scbmeta["cur"]
<1>0. /\ UNCHANGED <<scb, scbmeta, restore, stored, latest, torn>>
      /\ PushAt(s, "curMeta") /\ push[s] # NoCopy /\ ~Writing(s)
  BY DEF PushReadsMeta, KeepsStore, PushAt, Writing
<1>1. CASE IsStoredCopy(meta, push[s].copy) \/ IsOlderPush(meta, push[s].ts)
  <2>1. PushEnds(s)
    BY <1>1 DEF PushReadsMeta
  <2>2. told' \subseteq stored
    BY <1>1 DEF PushReadsMeta, IsStoredCopy, ScbIInv, StoredFirst
  <2> QED BY <1>0, <2>1, <2>2, KeptEnds
<1>2. CASE ~IsStoredCopy(meta, push[s].copy) /\ ~IsOlderPush(meta, push[s].ts)
  <2>0. told' = told /\ push' = [push EXCEPT ![s].meta = meta, ![s].stage = "put prev"]
    BY <1>2 DEF PushReadsMeta
  <2>1. Moves(s, "put prev") /\ push'[s].cur = push[s].cur /\ push'[s].meta = meta
    <3>1. meta \in Metas \union {NoCopy}
      BY DEF ScbIInv, ScbTypeOK, Generations
    <3> QED BY <1>0, <2>0, <3>1, ReadsMetaMoves DEF ScbIInv
  <2>2. StoredFirst'
    <3>1. UNCHANGED <<scbmeta, stored, told>>
      BY <1>0, <2>0
    <3> QED BY <2>1, <3>1 DEF ScbIInv, StoredFirst, PushAt, Moves, Others
  <2>3. AloneKnows'
    BY <1>0, <2>1 DEF ScbIInv, AloneKnows, Alone, PushAt, Moves, Others
  <2>4. WritesNews'
    BY <1>0, <1>2, <2>1 DEF ScbIInv, WritesNews, Writing, PushAt, Moves, Others, IsStoredCopy, IsOlderPush
  <2>5. BytesFirst'
    BY <1>0, <2>1 DEF ScbIInv, BytesFirst, PushAt, Moves, Others
  <2>6. GenerationsFit'
    BY <1>0, <2>1 DEF ScbIInv, GenerationsFit, Fits, Rotated, Writing, Alone, PushAt, Moves, Others
  <2>7. CalmRestores'
    BY <1>0 DEF ScbIInv, CalmRestores
  <2> QED BY <1>0, <2>2, <2>3, <2>4, <2>5, <2>6, <2>7 DEF ScbIInv, CopiesHold, MetaIsLatest
<1> QED BY <1>1, <1>2

LEMMA KeptPutPrev ==
  ASSUME ScbIInv, NEW s \in Pushes, PutPrev(s)
  PROVE  CopiesHold'
<1>0. UNCHANGED <<scbmeta, restore, stored, told, latest, torn>> /\ PushAt(s, "put prev")
  BY DEF PutPrev
<1>1. Moves(s, "put prevMeta") /\ push'[s].cur = push[s].cur /\ push'[s].meta = push[s].meta
  BY GoesMoves DEF ScbIInv, PutPrev, PushStages, PushAt
<1>2. /\ scb'["cur"] = scb["cur"]
      /\ scb'["prev"] = IF push[s].cur = NoCopy THEN scb["prev"] ELSE push[s].cur
  BY DEF PutPrev, ScbIInv, ScbTypeOK, Generations
<1>3. StoredFirst'
  BY <1>0, <1>1 DEF ScbIInv, StoredFirst, PushAt, Moves, Others
<1>4. AloneKnows'
  BY <1>0, <1>1, <1>2 DEF ScbIInv, AloneKnows, Alone, PushAt, Moves, Others
<1>5. WritesNews'
  BY <1>0, <1>1 DEF ScbIInv, WritesNews, Writing, PushAt, Moves, Others, IsStoredCopy, IsOlderPush
<1>6. BytesFirst'
  BY <1>0, <1>1, <1>2 DEF ScbIInv, BytesFirst, PushAt, Moves, Others
<1>7. GenerationsFit'
  <2>1. Writing(s)'
    BY <1>1 DEF Writing, Moves
  <2>2. ASSUME NEW z \in Pushes, Alone(z)'
        PROVE  z = s /\ Alone(s) /\ \A y \in Pushes \ {s} : push[y] = NoCopy
    BY <1>0, <1>1, <2>2 DEF ScbIInv, AloneKnows, Alone, PushAt, Moves, Others
  <2>3. ASSUME Alone(s)', "cur" \notin torn PROVE Fits("cur")'
    <3>1. \A z \in Pushes : ~Writing(z)
      BY <1>0, <2>2, <2>3 DEF Writing, PushAt
    <3>2. Fits("cur")
      BY <2>3, <3>1 DEF ScbIInv, GenerationsFit, Generations
    <3> QED BY <1>0, <1>2, <3>2 DEF Fits
  <2> QED BY <1>0, <1>1, <1>2, <2>1, <2>2, <2>3 DEF GenerationsFit, Moves
<1>8. CalmRestores'
  BY <1>0 DEF ScbIInv, CalmRestores, PushAt
<1> QED BY <1>0, <1>3, <1>4, <1>5, <1>6, <1>7, <1>8 DEF ScbIInv, CopiesHold, MetaIsLatest

(* The previous generation becomes whole here.                             *)
LEMMA KeptPutPrevMeta ==
  ASSUME ScbIInv, NEW s \in Pushes, PutPrevMeta(s)
  PROVE  CopiesHold'
<1>0. UNCHANGED <<scb, restore, stored, told, latest, torn>> /\ PushAt(s, "put prevMeta")
  BY DEF PutPrevMeta
<1>1. Moves(s, "put cur") /\ push'[s].cur = push[s].cur /\ push'[s].meta = push[s].meta
  BY GoesMoves DEF ScbIInv, PutPrevMeta, PushStages, PushAt
<1>2. /\ scbmeta'["cur"] = scbmeta["cur"]
      /\ scbmeta'["prev"] = IF push[s].meta = NoCopy THEN scbmeta["prev"] ELSE push[s].meta
  BY DEF PutPrevMeta, ScbIInv, ScbTypeOK, Generations
<1>3. StoredFirst'
  BY <1>0, <1>1, <1>2 DEF ScbIInv, StoredFirst, PushAt, Moves, Others
<1>4. AloneKnows'
  BY <1>0, <1>1, <1>2 DEF ScbIInv, AloneKnows, Alone, PushAt, Moves, Others
<1>5. WritesNews'
  BY <1>0, <1>1 DEF ScbIInv, WritesNews, Writing, PushAt, Moves, Others, IsStoredCopy, IsOlderPush
<1>6. BytesFirst'
  BY <1>0, <1>1, <1>2 DEF ScbIInv, BytesFirst, PushAt, Moves, Others
<1>7. GenerationsFit'
  <2>1. Writing(s)'
    BY <1>1 DEF Writing, Moves
  <2>2. ASSUME NEW z \in Pushes, Alone(z)' PROVE z = s /\ Alone(s)
    BY <1>0, <1>1, <2>2 DEF ScbIInv, AloneKnows, Alone, PushAt, Moves, Others
  <2>3. ASSUME Alone(s)', "cur" \notin torn PROVE Fits("cur")' /\ Rotated'
    <3>1. Fits("cur") /\ (push[s].cur # NoCopy => scb["prev"] = push[s].cur)
      BY <1>0, <2>2, <2>3 DEF ScbIInv, GenerationsFit, PushAt
    <3>2. push[s].cur = scb["cur"] /\ push[s].meta = scbmeta["cur"] /\ scbmeta["cur"] = latest
      BY <1>0, <2>2, <2>3 DEF ScbIInv, AloneKnows, PushAt, MetaIsLatest
    <3>3. CASE scb["cur"] = NoCopy
      BY <1>0, <1>2, <3>1, <3>2, <3>3 DEF ScbIInv, BytesFirst, Fits, Rotated
    <3>4. CASE scb["cur"] # NoCopy
      BY <1>0, <1>2, <3>1, <3>2, <3>4 DEF Fits, Rotated
    <3> QED BY <3>3, <3>4
  <2> QED BY <1>0, <1>1, <2>1, <2>2, <2>3 DEF GenerationsFit, Moves
<1>8. CalmRestores'
  BY <1>0 DEF ScbIInv, CalmRestores, PushAt
<1> QED BY <1>0, <1>2, <1>3, <1>4, <1>5, <1>6, <1>7, <1>8 DEF ScbIInv, CopiesHold, MetaIsLatest

LEMMA KeptPutCur ==
  ASSUME ScbIInv, NEW s \in Pushes, PutCur(s)
  PROVE  CopiesHold'
<1>0. UNCHANGED <<scbmeta, restore, told, latest, torn>> /\ PushAt(s, "put cur")
  BY DEF PutCur
<1>1. Moves(s, "put curMeta") /\ push'[s].cur = push[s].cur /\ push'[s].meta = push[s].meta
  BY GoesMoves DEF ScbIInv, PutCur, PushStages, PushAt
<1>2. scb'["cur"] = push[s].copy /\ scb'["prev"] = scb["prev"] /\ stored' = stored \union {push[s].copy}
  BY DEF PutCur, ScbIInv, ScbTypeOK, Generations
<1>3. StoredFirst'
  BY <1>0, <1>1, <1>2 DEF ScbIInv, StoredFirst, PushAt, Moves, Others
<1>4. AloneKnows'
  BY <1>0, <1>1, <1>2 DEF ScbIInv, AloneKnows, Alone, PushAt, Moves, Others
<1>5. WritesNews'
  BY <1>0, <1>1 DEF ScbIInv, WritesNews, Writing, PushAt, Moves, Others, IsStoredCopy, IsOlderPush
<1>6. BytesFirst'
  <2>1. push[s].copy # NoCopy
    BY <1>0, ScbAssumption DEF ScbIInv, ScbTypeOK, PushAt, PutCalls
  <2> QED BY <1>2, <2>1 DEF BytesFirst
<1>7. GenerationsFit'
  <2>1. Writing(s)'
    BY <1>1 DEF Writing, Moves
  <2>2. ASSUME NEW z \in Pushes, Alone(z)' PROVE z = s /\ Alone(s)
    BY <1>0, <1>1, <2>2 DEF ScbIInv, AloneKnows, Alone, PushAt, Moves, Others
  <2>3. ASSUME Alone(s)', "cur" \notin torn PROVE Rotated'
    <3>1. Rotated
      BY <1>0, <2>2, <2>3 DEF ScbIInv, GenerationsFit, PushAt
    <3> QED BY <1>0, <1>2, <3>1 DEF Rotated, Fits
  <2> QED BY <1>0, <1>1, <1>2, <2>1, <2>2, <2>3 DEF GenerationsFit, Moves
<1>8. CalmRestores'
  BY <1>0 DEF ScbIInv, CalmRestores, PushAt
<1> QED BY <1>0, <1>3, <1>4, <1>5, <1>6, <1>7, <1>8 DEF ScbIInv, CopiesHold, MetaIsLatest

(* A push that ends, or is killed, after it has written: what it leaves    *)
(* must fit but for what may be torn.                                      *)
LEMMA KeptWriterEnds ==
  ASSUME ScbIInv, NEW s \in Pushes, Writing(s), PushEnds(s),
         UNCHANGED <<scb, restore, stored>>, told' \subseteq stored,
         scbmeta'["cur"] = scbmeta["cur"] \/ (push[s].copy \in stored /\ scbmeta'["cur"].sha256 = push[s].copy),
         MetaIsLatest', BytesFirst',
         ~push[s].alone => torn' = Generations,
         push[s].alone => (\A g \in Generations \ torn' : Fits(g)')
  PROVE  CopiesHold'
<1>1. Others(s) /\ push'[s] = NoCopy /\ push[s] # NoCopy
  BY EndsEnds DEF ScbIInv, Writing
<1>2. StoredFirst'
  BY <1>1 DEF ScbIInv, StoredFirst, PushAt, Others
<1>3. \A z \in Pushes : ~Alone(z)'
  BY <1>1 DEF ScbIInv, AloneKnows, Alone, Others
<1>4. AloneKnows'
  BY <1>3 DEF AloneKnows
<1>5. WritesNews'
  BY <1>1 DEF ScbIInv, WritesNews, Writing, PushAt, Others, IsStoredCopy, IsOlderPush
<1>6. GenerationsFit'
  BY <1>3 DEF GenerationsFit
<1>7. CalmRestores'
  BY <1>1 DEF ScbIInv, CalmRestores
<1> QED BY <1>2, <1>4, <1>5, <1>6, <1>7 DEF CopiesHold

LEMMA KeptPutCurMeta ==
  ASSUME ScbIInv, NEW s \in Pushes, PutCurMeta(s)
  PROVE  CopiesHold'
<1> DEFINE meta == [sha256 |-> push[s].copy, ts |-> push[s].ts]
<1>0. /\ UNCHANGED <<scb, restore, stored>> /\ PushAt(s, "put curMeta") /\ PushEnds(s) /\ Writing(s)
      /\ torn' = IF ~push[s].alone THEN Generations ELSE IF "cur" \in torn THEN {"prev"} ELSE {}
  BY DEF PutCurMeta, PushAt, Writing
<1>1. push[s] \in PutCalls /\ push[s].copy \in Copies /\ push[s].ts \in Stamps
  BY <1>0 DEF ScbIInv, ScbTypeOK, PushAt, PutCalls
<1>2. scbmeta'["cur"] = meta /\ scbmeta'["prev"] = scbmeta["prev"] /\ latest' = meta
  BY DEF PutCurMeta, ScbIInv, ScbTypeOK, Generations
<1>3. meta # NoCopy /\ meta.sha256 = push[s].copy /\ push[s].copy # NoCopy
  BY <1>1, ScbAssumption DEF Metas
<1>4. push[s].copy \in stored
  BY <1>0 DEF ScbIInv, StoredFirst
<1>5. told' \subseteq stored
  BY <1>4 DEF PutCurMeta, ScbIInv, StoredFirst
<1>6. BytesFirst'
  <2>1. scb["cur"] # NoCopy
    BY <1>0 DEF ScbIInv, BytesFirst, PushAt
  <2> QED BY <1>0, <2>1 DEF BytesFirst
<1>7. ~push[s].alone => torn' = Generations
  BY <1>0
<1>8. ASSUME push[s].alone PROVE \A g \in Generations \ torn' : Fits(g)'
  <2>1. Alone(s)
    BY <1>0, <1>8 DEF Alone, PushAt
  <2>2. scb["cur"] = push[s].copy /\ ("cur" \notin torn => Fits("prev"))
    BY <1>0, <2>1 DEF ScbIInv, GenerationsFit, PushAt, Rotated
  <2>3. Fits("cur")'
    BY <1>0, <1>2, <1>3, <2>2 DEF Fits
  <2>4. "cur" \notin torn => Fits("prev")'
    BY <1>0, <1>2, <2>2 DEF Fits
  <2> QED BY <1>0, <1>8, <2>3, <2>4 DEF Generations
<1> HIDE DEF meta
<1>9. MetaIsLatest'
  BY <1>2 DEF MetaIsLatest
<1>10. scbmeta'["cur"].sha256 = push[s].copy
  BY <1>2, <1>3
<1> QED BY <1>0, <1>4, <1>5, <1>6, <1>7, <1>8, <1>9, <1>10, KeptWriterEnds

LEMMA KeptKilled ==
  ASSUME ScbIInv, NEW s \in Pushes, PushKilled(s)
  PROVE  CopiesHold'
<1>0. /\ UNCHANGED <<scb, scbmeta, restore, stored, told, latest>> /\ push[s] # NoCopy /\ PushEnds(s)
      /\ torn' = torn \union HalfWritten(s) /\ told \subseteq stored /\ torn \subseteq Generations
  BY DEF PushKilled, ScbIInv, StoredFirst, ScbTypeOK
<1>1. ~push[s].alone => torn' = Generations
  BY <1>0 DEF HalfWritten
<1>2. CASE ~Writing(s)
  <2>1. torn' = torn \/ torn' = Generations
    BY <1>0, <1>2 DEF HalfWritten, Writing
  <2> QED BY <1>0, <1>2, <2>1, KeptEnds
<1>3. CASE Writing(s)
  <2>1. MetaIsLatest'
    BY <1>0 DEF ScbIInv, MetaIsLatest
  <2>2. BytesFirst'
    <3>1. Others(s) /\ push'[s] = NoCopy
      BY <1>0, EndsEnds DEF ScbIInv
    <3> QED BY <1>0, <3>1 DEF ScbIInv, BytesFirst, Others
  <2>3. ASSUME push[s].alone PROVE \A g \in Generations \ torn' : Fits(g)'
    <3>1. Alone(s)
      BY <1>0, <2>3 DEF Alone
    <3>2. /\ push[s].stage \in {"put prevMeta", "put cur"} /\ "cur" \notin torn => Fits("cur")
          /\ push[s].stage \in {"put cur", "put curMeta"} /\ "cur" \notin torn => Fits("prev")
      BY <3>1 DEF ScbIInv, GenerationsFit, Rotated
    <3>3. ASSUME NEW g \in Generations \ torn' PROVE Fits(g)
      <4>1. g \notin torn /\ g \notin HalfWritten(s)
        BY <1>0, <3>3
      <4>2. push[s].stage \in {"put prevMeta", "put cur", "put curMeta"}
        BY <1>3 DEF Writing
      <4>3. CASE g = "cur"
        BY <2>3, <3>2, <4>1, <4>2, <4>3 DEF HalfWritten, Generations
      <4>4. CASE g = "prev"
        BY <2>3, <3>2, <4>1, <4>2, <4>4 DEF HalfWritten, Generations
      <4> QED BY <4>3, <4>4 DEF Generations
    <3> QED BY <1>0, <3>3 DEF Fits
  <2> QED BY <1>0, <1>1, <1>3, <2>1, <2>2, <2>3, KeptWriterEnds
<1> QED BY <1>2, <1>3

LEMMA KeptRestores ==
  ASSUME ScbIInv, NEW r \in Restores,
         RestoreReadsMeta(r) \/ \E gen \in Generations : RestoreReadsBytes(r, gen)
  PROVE  CopiesHold'
<1>0. UNCHANGED <<scb, scbmeta, push, stored, told, latest, torn>>
  BY DEF RestoreReadsBytes, RestoreReadsMeta
<1>1. CalmRestores'
  <2>1. CASE RestoreReadsMeta(r)
    BY <2>1 DEF RestoreReadsMeta, ScbIInv, ScbTypeOK, CalmRestores
  <2>2. ASSUME NEW gen \in Generations, RestoreReadsBytes(r, gen) PROVE CalmRestores'
    <3>1. \A z \in Restores \ {r} : restore'[z] = restore[z]
      BY <2>2 DEF RestoreReadsBytes, ScbIInv, ScbTypeOK
    <3>2. /\ restore'[r].gen = gen /\ restore'[r].copy = scb[gen]
          /\ restore'[r].calm <=> \A s \in Pushes : push[s] = NoCopy
      BY <2>2 DEF RestoreReadsBytes, ScbIInv, ScbTypeOK
    <3> QED BY <1>0, <3>1, <3>2 DEF ScbIInv, CalmRestores
  <2> QED BY <2>1, <2>2
<1>2. StoredFirst' /\ AloneKnows' /\ WritesNews' /\ BytesFirst' /\ MetaIsLatest'
  BY <1>0 DEF ScbIInv, StoredFirst, AloneKnows, WritesNews, BytesFirst, MetaIsLatest, Alone, Writing, PushAt
<1>3. GenerationsFit'
  BY <1>0 DEF ScbIInv, GenerationsFit, Fits, Rotated, Alone, Writing
<1> QED BY <1>1, <1>2, <1>3 DEF CopiesHold

LEMMA ScbIInvNext == ScbIInv /\ [ScbNext]_scbVars => ScbIInv'
<1> SUFFICES ASSUME ScbIInv, [ScbNext]_scbVars PROVE CopiesHold'
  BY ScbTypeNext DEF ScbIInv, CopiesHold
<1>1. CASE UNCHANGED scbVars
  <2>1. StoredFirst' /\ AloneKnows' /\ WritesNews' /\ BytesFirst' /\ MetaIsLatest' /\ CalmRestores'
    BY <1>1 DEF scbVars, ScbIInv, StoredFirst, AloneKnows, WritesNews, BytesFirst, MetaIsLatest, CalmRestores, Alone, Writing, PushAt
  <2>2. GenerationsFit'
    BY <1>1 DEF scbVars, ScbIInv, GenerationsFit, Fits, Rotated, Alone, Writing
  <2> QED BY <2>1, <2>2 DEF CopiesHold
<1> QED BY <1>1, KeptArrives, KeptReadsCur, KeptReadsMeta, KeptPutPrev, KeptPutPrevMeta, KeptPutCur,
           KeptPutCurMeta, KeptKilled, KeptRestores DEF ScbNext

-----------------------------------------------------------------------------
(* The theorems.                                                           *)

(* Every variable keeps its type.                                          *)
THEOREM ScbTypeCorrect == ScbSpec => []ScbTypeOK
<1>1. ScbInit => ScbTypeOK
  BY InitKept DEF ScbIInv
<1> QED BY <1>1, ScbTypeNext, PTL DEF ScbSpec

(* Whoever was told that its copy is stored had its bytes put.             *)
THEOREM ScbOkIsTrue == ScbSpec => []ScbOkWasStored
<1>1. ScbIInv => ScbOkWasStored
  BY DEF ScbIInv, StoredFirst, ScbOkWasStored
<1> QED BY <1>1, InitKept, ScbIInvNext, PTL DEF ScbSpec

(* A push that runs to its end alone keeps the generation before it, if no *)
(* push was cut off between the current generation's bytes and meta since  *)
(* (a retry of that one does not keep it: RetryKeepsGeneration).           *)
THEOREM ScbRotates == ScbSpec => ScbKeepsGeneration
<1>1. ASSUME ScbIInv, NEW s \in Pushes, PutCurMeta(s), push[s].alone, "cur" \notin torn, latest # NoCopy
      PROVE  /\ scb["prev"] = latest.sha256 /\ scbmeta["prev"] = latest
             /\ push[s].copy # latest.sha256 /\ push[s].ts > latest.ts
  <2>1. Alone(s) /\ Writing(s) /\ push[s].stage = "put curMeta"
    BY <1>1 DEF PutCurMeta, PushAt, Alone, Writing
  <2>2. scb["prev"] = latest.sha256 /\ scbmeta["prev"] = latest
    BY <1>1, <2>1 DEF ScbIInv, GenerationsFit, Rotated
  <2>3. push[s].meta = latest
    BY <1>1, <2>1 DEF ScbIInv, AloneKnows, MetaIsLatest
  <2>4. push[s].copy # latest.sha256 /\ ~(push[s].ts <= latest.ts)
    BY <1>1, <2>1, <2>3 DEF ScbIInv, WritesNews, IsStoredCopy, IsOlderPush
  <2>5. push[s].ts \in Nat /\ latest.ts \in Nat
    BY <1>1, <2>1, ScbAssumption DEF ScbIInv, ScbTypeOK, Alone, PutCalls, Metas
  <2> QED BY <2>2, <2>4, <2>5
<1>2. ScbIInv /\ [ScbNext]_scbVars =>
        [\A s \in Pushes :
           PutCurMeta(s) /\ push[s].alone /\ "cur" \notin torn /\ latest # NoCopy =>
             /\ scb["prev"] = latest.sha256 /\ scbmeta["prev"] = latest
             /\ push[s].copy # latest.sha256 /\ push[s].ts > latest.ts]_scbVars
  BY <1>1
<1> QED BY <1>2, InitKept, ScbIInvNext, PTL DEF ScbSpec, ScbKeepsGeneration

(* A calm restore answers bytes with their own hash.                       *)
THEOREM ScbRestores == ScbSpec => ScbRestoreFits
<1>1. ASSUME ScbIInv, NEW r \in Restores, RestoreReadsMeta(r), restore[r].calm, restore[r].gen \notin torn
      PROVE  scbmeta[restore[r].gen] # NoCopy /\ scbmeta[restore[r].gen].sha256 = restore[r].copy
  <2>1. restore[r] # NoCopy /\ restore[r] \in GetCalls
    BY <1>1 DEF RestoreReadsMeta, ScbIInv, ScbTypeOK
  <2>2. restore[r].gen \in Generations /\ restore[r].copy \in Copies
    BY <2>1 DEF GetCalls
  <2>3. (\A s \in Pushes : ~Writing(s)) /\ scb[restore[r].gen] = restore[r].copy
    BY <1>1, <2>1 DEF ScbIInv, CalmRestores, Writing
  <2>4. Fits(restore[r].gen)
    BY <1>1, <2>2, <2>3 DEF ScbIInv, GenerationsFit
  <2> QED BY <2>2, <2>3, <2>4, ScbAssumption DEF Fits
<1>2. ScbIInv /\ [ScbNext]_scbVars =>
        [\A r \in Restores :
           RestoreReadsMeta(r) /\ restore[r].calm /\ restore[r].gen \notin torn =>
             scbmeta[restore[r].gen] # NoCopy /\ scbmeta[restore[r].gen].sha256 = restore[r].copy]_scbVars
  BY <1>1
<1> QED BY <1>2, InitKept, ScbIInvNext, PTL DEF ScbSpec, ScbRestoreFits
=============================================================================
