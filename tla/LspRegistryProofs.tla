------------------------ MODULE LspRegistryProofs ------------------------
(***************************************************************************)
(* Theorems about LspRegistry, for any window, clocks, number of handlers  *)
(* and faults: the mark of a departure holds against every earlier         *)
(* registration, but what did not get to see it.                           *)
(***************************************************************************)
EXTENDS LspRegistry, TLAPS

(* A departure was signed at most a window ahead of the door's clock; a    *)
(* registration between its window check and its look at the mark is at    *)
(* most a window old.                                                      *)
DepartureNotAhead == \A s \in Handlers : handler[s] # Absent /\ handler[s].op = "unregister" => handler[s].ts <= doorClock + SigWindow
RegisterNotOld ==
  \A s \in Handlers : HandlerAt(s, "register", "record") \/ HandlerAt(s, "register", "gone") => doorClock <= handler[s].ts + SigWindow

(* So the mark of a departure outlives every registration older than it.   *)
MarkOutlives == lspgone # Absent => lspgone.exp >= lspgone.ts + SigWindow

(* And what is past the look at the mark is newer, or was past it before,  *)
(* or did not see it.                                                      *)
Newer(s) == handler[s].ts >= lspgone.ts \/ handler[s].early \/ handler[s].blind
PutsAreNewer == lspgone # Absent => \A s \in Handlers : HandlerAt(s, "register", "put") => Newer(s)

IInv == RegistryTypeOK /\ DepartureNotAhead /\ RegisterNotOld /\ MarkOutlives /\ PutsAreNewer

LEMMA TimesAreInts == RegistryTimes \subseteq Int /\ SigWindow \in Nat /\ Absent \notin RegistryTimes
  BY RegistryAssumption DEF RegistryTimes

LEMMA InitHolds == RegistryInit => IInv
  BY RegistryAssumption DEF RegistryInit, IInv, RegistryTypeOK, RegistryTimes, DepartureNotAhead, RegisterNotOld, MarkOutlives, PutsAreNewer, Newer, HandlerAt

(* A handler goes on or ends: all else about the requests stays.           *)
LEMMA GoesOrEnds ==
  ASSUME RegistryTypeOK, NEW s \in Handlers, handler[s] # Absent,
         NEW stage \in {"record", "gone", "put", "delete", "bury"}, RegistryGoes(s, stage) \/ RegistryEnds(s)
  PROVE  /\ handler' \in [Handlers -> RegistryCalls \union {Absent}]
         /\ \A z \in Handlers \ {s} : handler'[z] = handler[z]
         /\ handler'[s] = Absent \/ (/\ handler'[s].op = handler[s].op /\ handler'[s].ts = handler[s].ts
                               /\ handler'[s].early = handler[s].early /\ handler'[s].blind = handler[s].blind
                               /\ handler'[s].stage = stage)
<1>1. handler[s] \in RegistryCalls /\ [handler[s] EXCEPT !.stage = stage] \in RegistryCalls
  BY DEF RegistryTypeOK, RegistryCalls
<1> QED BY <1>1 DEF RegistryTypeOK, RegistryGoes, RegistryEnds, RegistryCalls

(* The steps that read or write the record, look at the mark or give up.   *)
HandlerMoves(s) ==
  \/ RegisterRecord(s) \/ RegisterRecordUnread(s) \/ RegisterGone(s) \/ RegisterPut(s)
  \/ UnregisterRecord(s) \/ UnregisterDelete(s) \/ HandlerDies(s)

LEMMA TypeNext == RegistryTypeOK /\ [RegistryNext]_registryVars => RegistryTypeOK'
<1> SUFFICES ASSUME RegistryTypeOK, [RegistryNext]_registryVars PROVE RegistryTypeOK'
  OBVIOUS
<1> USE RegistryAssumption
<1>1. ASSUME NEW op \in {"register", "unregister"}, NEW ts \in RegistryTimes, Sign(op, ts) PROVE RegistryTypeOK'
  BY <1>1 DEF Sign, RegistryTypeOK, Signables
<1>2. CASE RegistryTick
  BY <1>2 DEF RegistryTick, RegistryTypeOK, RegistryTimes
<1>3. ASSUME NEW s \in Handlers, NEW msg \in signed, MessageArrives(s, msg) PROVE RegistryTypeOK'
  <2>1. [op |-> msg.op, ts |-> msg.ts, stage |-> "record", early |-> FALSE, blind |-> FALSE] \in RegistryCalls
    BY DEF RegistryTypeOK, Signables, RegistryCalls
  <2> QED BY <1>3, <2>1 DEF MessageArrives, RegistryTypeOK
<1>4. ASSUME NEW s \in Handlers, HandlerMoves(s) PROVE RegistryTypeOK'
  <2>1. handler[s] # Absent /\ handler[s] \in RegistryCalls
    BY <1>4 DEF HandlerMoves, RegistryFault, RegisterRecordUnread, RegisterRecord, RegisterGone, RegisterPut, UnregisterRecord, UnregisterDelete, HandlerDies, HandlerAt, RegistryTypeOK
  <2>2. handler' \in [Handlers -> RegistryCalls \union {Absent}]
    BY <1>4, <2>1, GoesOrEnds DEF HandlerMoves, RegistryFault, RegisterRecordUnread, RegisterRecord, RegisterGone, RegisterPut, UnregisterRecord, UnregisterDelete, HandlerDies
  <2>3. /\ doorClock' \in RegistryTimes /\ lspClock' \in RegistryTimes /\ faults' \in 0..RegistryFaults /\ signed' \subseteq Signables
        /\ departed' \in RegistryTimes \union {Absent} /\ lspgone' \in [ts : RegistryTimes, exp : Nat] \union {Absent}
    BY <1>4 DEF HandlerMoves, RegistryFault, RegisterRecordUnread, RegisterRecord, RegisterGone, RegisterPut, UnregisterRecord, UnregisterDelete, HandlerDies, RegistryTypeOK
  <2>4. lsp' \in RegistryTimes \union {Absent}
    BY <1>4, <2>1 DEF HandlerMoves, RegistryFault, RegisterRecordUnread, RegisterRecord, RegisterGone, RegisterPut, UnregisterRecord, UnregisterDelete, HandlerDies, RegistryTypeOK, RegistryCalls
  <2> QED BY <2>2, <2>3, <2>4 DEF RegistryTypeOK
<1>5. ASSUME NEW s \in Handlers, UnregisterBury(s) \/ UnregisterBuryFails(s) PROVE RegistryTypeOK'
  <2>1. handler[s] \in RegistryCalls /\ Departs(s)
    BY <1>5 DEF UnregisterBury, UnregisterBuryFails, HandlerAt, RegistryTypeOK
  <2>2. Mark(handler[s].ts) \in [ts : RegistryTimes, exp : Nat]
    BY <2>1 DEF Mark, RegistryTypeOK, RegistryTimes, RegistryCalls
  <2>3. \A z \in Handlers : HandlerAt(z, "register", "put") => [handler[z] EXCEPT !.early = TRUE] \in RegistryCalls
    BY DEF HandlerAt, RegistryTypeOK, RegistryCalls
  <2>4. handler' \in [Handlers -> RegistryCalls \union {Absent}] /\ departed' \in RegistryTimes
    BY <2>1, <2>3 DEF Departs, RegistryTypeOK, RegistryCalls
  <2>5. lspgone' \in [ts : RegistryTimes, exp : Nat] \union {Absent} /\ faults' \in 0..RegistryFaults
    BY <1>5, <2>2 DEF UnregisterBury, UnregisterBuryFails, RegistryFault, RegistryTypeOK
  <2>6. UNCHANGED <<doorClock, signed, lspClock, lsp>>
    BY <1>5 DEF UnregisterBury, UnregisterBuryFails
  <2> QED BY <2>4, <2>5, <2>6 DEF RegistryTypeOK
<1>6. ASSUME NEW s \in Handlers, RegisterGoneUnread(s) PROVE RegistryTypeOK'
  <2>1. handler[s] \in RegistryCalls
    BY <1>6 DEF RegisterGoneUnread, HandlerAt, RegistryTypeOK
  <2>2. [handler[s] EXCEPT !.stage = "put", !.blind = TRUE] \in RegistryCalls
    BY <2>1 DEF RegistryCalls
  <2> QED BY <1>6, <2>2 DEF RegisterGoneUnread, RegistryFault, RegistryTypeOK
<1>7. CASE UNCHANGED registryVars
  BY <1>7 DEF registryVars, RegistryTypeOK
<1> QED BY <1>1, <1>2, <1>3, <1>4, <1>5, <1>6, <1>7 DEF RegistryNext, HandlerMoves

-----------------------------------------------------------------------------
ClocksHold == DepartureNotAhead /\ RegisterNotOld /\ MarkOutlives /\ PutsAreNewer

LEMMA KeptTick == ASSUME IInv, RegistryTick PROVE ClocksHold'
<1>1. doorClock \in Int /\ doorClock' = doorClock + 1 /\ UNCHANGED <<lspgone, handler>>
  BY TimesAreInts DEF RegistryTick, IInv, RegistryTypeOK
<1>2. DepartureNotAhead'
  <2>1. \A s \in Handlers : handler[s] # Absent => handler[s].ts \in Int
    BY TimesAreInts DEF IInv, RegistryTypeOK, RegistryCalls
  <2> QED BY <1>1, <2>1, TimesAreInts DEF IInv, DepartureNotAhead
<1>3. RegisterNotOld'
  BY <1>1 DEF RegistryTick, RegisterNotOld, HandlerAt
<1> QED BY <1>1, <1>2, <1>3 DEF IInv, ClocksHold, MarkOutlives, PutsAreNewer, Newer, HandlerAt

LEMMA KeptArrive ==
  ASSUME IInv, NEW s \in Handlers, NEW msg \in signed, MessageArrives(s, msg)
  PROVE  ClocksHold'
<1> DEFINE new == [op |-> msg.op, ts |-> msg.ts, stage |-> "record", early |-> FALSE, blind |-> FALSE]
<1>1. /\ handler'[s] = new /\ \A z \in Handlers \ {s} : handler'[z] = handler[z]
      /\ UNCHANGED <<doorClock, lspgone>>
  BY DEF MessageArrives, IInv, RegistryTypeOK
<1>2. msg.ts <= doorClock + SigWindow /\ doorClock <= msg.ts + SigWindow
  <2>1. msg.ts \in Int /\ doorClock \in Int
    BY TimesAreInts DEF IInv, RegistryTypeOK, Signables
  <2> QED BY <2>1, TimesAreInts DEF MessageArrives, InWindow
<1>3. DepartureNotAhead'
  BY <1>1, <1>2 DEF IInv, DepartureNotAhead
<1>4. RegisterNotOld'
  BY <1>1, <1>2 DEF IInv, RegisterNotOld, HandlerAt
<1>5. PutsAreNewer'
  BY <1>1 DEF IInv, PutsAreNewer, Newer, HandlerAt
<1> QED BY <1>1, <1>3, <1>4, <1>5 DEF IInv, ClocksHold, MarkOutlives

(* A registration older than the mark meets it before it has expired.      *)
LEMMA OlderIsRefused ==
  ASSUME IInv, lspgone # Absent, NEW s \in Handlers, HandlerAt(s, "register", "gone"), handler[s].ts < lspgone.ts
  PROVE  Marked
<1>1. handler[s].ts \in Int /\ lspgone.ts \in Int /\ lspgone.exp \in Int /\ doorClock \in Int /\ SigWindow \in Int
  <2>1. handler[s] \in RegistryCalls /\ lspgone \in [ts : RegistryTimes, exp : Nat] /\ doorClock \in RegistryTimes
    BY DEF IInv, RegistryTypeOK, HandlerAt
  <2>2. \A t \in RegistryTimes : t \in Int
    BY TimesAreInts
  <2>3. SigWindow \in Int
    BY TimesAreInts
  <2> QED BY <2>1, <2>2, <2>3 DEF RegistryCalls
<1>2. doorClock <= handler[s].ts + SigWindow
  BY DEF IInv, RegisterNotOld
<1>3. lspgone.exp >= lspgone.ts + SigWindow
  BY DEF IInv, MarkOutlives
<1> QED BY <1>1, <1>2, <1>3 DEF Marked

LEMMA KeptHandler ==
  ASSUME IInv, NEW s \in Handlers, HandlerMoves(s)
  PROVE  ClocksHold'
<1>1. handler[s] # Absent /\ UNCHANGED <<doorClock, lspgone>>
  BY DEF HandlerMoves, RegistryFault, RegisterRecordUnread, RegisterRecord, RegisterGone, RegisterPut, UnregisterRecord, UnregisterDelete, HandlerDies, HandlerAt
<1> DEFINE Step(stage) ==
      /\ RegistryGoes(s, stage) \/ RegistryEnds(s)
      /\ RegistryGoes(s, stage) =>
           \/ stage = "gone" /\ HandlerAt(s, "register", "record")
           \/ stage = "put" /\ HandlerAt(s, "register", "gone") /\ ~(Marked /\ handler[s].ts <= lspgone.ts)
           \/ stage \in {"delete", "bury"}
<1>2. PICK stage \in {"record", "gone", "put", "delete", "bury"} : Step(stage)
  <2>1. CASE RegisterRecord(s) \/ RegisterRecordUnread(s)
    <3> Step("gone")
      BY <2>1 DEF RegisterRecord, RegisterRecordUnread
    <3> QED OBVIOUS
  <2>2. CASE RegisterGone(s)
    <3>1. CASE Marked /\ handler[s].ts <= lspgone.ts
      <4> Step("bury")
        BY <2>2, <3>1 DEF RegisterGone
      <4> QED OBVIOUS
    <3>2. CASE ~(Marked /\ handler[s].ts <= lspgone.ts)
      <4> Step("put")
        BY <2>2, <3>2 DEF RegisterGone
      <4> QED OBVIOUS
    <3> QED BY <3>1, <3>2
  <2>3. CASE UnregisterRecord(s)
    <3> Step("delete")
      BY <2>3 DEF UnregisterRecord
    <3> QED OBVIOUS
  <2>4. CASE RegisterPut(s) \/ UnregisterDelete(s) \/ HandlerDies(s)
    <3> Step("bury")
      BY <2>4 DEF RegisterPut, UnregisterDelete, HandlerDies
    <3> QED OBVIOUS
  <2> QED BY <2>1, <2>2, <2>3, <2>4 DEF HandlerMoves
<1>3. /\ \A z \in Handlers \ {s} : handler'[z] = handler[z]
      /\ handler'[s] = Absent \/ (/\ handler'[s].op = handler[s].op /\ handler'[s].ts = handler[s].ts
                            /\ handler'[s].early = handler[s].early /\ handler'[s].blind = handler[s].blind
                            /\ handler'[s].stage = stage /\ RegistryGoes(s, stage))
  BY <1>1, <1>2, GoesOrEnds DEF IInv, RegistryEnds, RegistryTypeOK
<1>4. DepartureNotAhead'
  BY <1>1, <1>3 DEF IInv, DepartureNotAhead
<1>5. RegisterNotOld'
  BY <1>1, <1>2, <1>3 DEF IInv, RegisterNotOld, HandlerAt
<1>6. PutsAreNewer'
  <2> SUFFICES ASSUME lspgone # Absent, NEW z \in Handlers, HandlerAt(z, "register", "put")' PROVE Newer(z)'
    BY <1>1 DEF PutsAreNewer
  <2>1. CASE z # s
    BY <1>1, <1>3, <2>1 DEF IInv, PutsAreNewer, Newer, HandlerAt
  <2>2. CASE z = s
    <3>1. HandlerAt(s, "register", "gone") /\ ~(Marked /\ handler[s].ts <= lspgone.ts) /\ handler'[s].ts = handler[s].ts
      BY <1>2, <1>3, <2>2 DEF HandlerAt
    <3>2. handler[s].ts \in Int /\ lspgone.ts \in Int
      BY <3>1, TimesAreInts DEF IInv, RegistryTypeOK, HandlerAt, RegistryCalls
    <3>3. ~(handler[s].ts < lspgone.ts)
      BY <3>1, <3>2, OlderIsRefused
    <3> QED BY <1>1, <2>2, <3>1, <3>2, <3>3 DEF Newer
  <2> QED BY <2>1, <2>2
<1> QED BY <1>1, <1>4, <1>5, <1>6 DEF IInv, ClocksHold, MarkOutlives

(* A look that throws lets the registration by, and it is noted.           *)
LEMMA KeptUnread ==
  ASSUME IInv, NEW s \in Handlers, RegisterGoneUnread(s)
  PROVE  ClocksHold'
<1>1. /\ HandlerAt(s, "register", "gone") /\ UNCHANGED <<doorClock, lspgone>>
      /\ handler'[s].op = "register" /\ handler'[s].stage = "put" /\ handler'[s].blind
      /\ \A z \in Handlers \ {s} : handler'[z] = handler[z]
  BY DEF RegisterGoneUnread, HandlerAt, IInv, RegistryTypeOK, RegistryCalls
<1>2. DepartureNotAhead'
  BY <1>1 DEF IInv, DepartureNotAhead
<1>3. RegisterNotOld'
  BY <1>1 DEF IInv, RegisterNotOld, HandlerAt
<1>4. PutsAreNewer'
  BY <1>1 DEF IInv, PutsAreNewer, Newer, HandlerAt
<1> QED BY <1>1, <1>2, <1>3, <1>4 DEF IInv, ClocksHold, MarkOutlives

LEMMA KeptBury ==
  ASSUME IInv, NEW s \in Handlers, UnregisterBury(s) \/ UnregisterBuryFails(s)
  PROVE  ClocksHold'
<1>1. /\ HandlerAt(s, "unregister", "bury") /\ UNCHANGED doorClock /\ handler'[s] = Absent
      /\ \A z \in Handlers \ {s} : handler'[z] = IF HandlerAt(z, "register", "put") THEN [handler[z] EXCEPT !.early = TRUE] ELSE handler[z]
  BY DEF UnregisterBury, UnregisterBuryFails, Departs, IInv, RegistryTypeOK
<1>2. handler[s].ts \in Int /\ doorClock \in Int /\ handler[s].ts <= doorClock + SigWindow
  BY <1>1, TimesAreInts DEF HandlerAt, IInv, RegistryTypeOK, RegistryCalls, DepartureNotAhead
<1>3. MarkOutlives'
  <2>1. CASE UnregisterBury(s)
    <3>1. lspgone' = [ts |-> handler[s].ts, exp |-> doorClock + 2 * SigWindow]
      BY <2>1 DEF UnregisterBury, Mark
    <3>2. lspgone'.ts = handler[s].ts /\ lspgone'.exp = doorClock + 2 * SigWindow
      BY <3>1
    <3> QED BY <1>2, <3>2, TimesAreInts DEF MarkOutlives
  <2>2. CASE UnregisterBuryFails(s)
    BY <2>2 DEF UnregisterBuryFails, IInv, MarkOutlives
  <2> QED BY <2>1, <2>2
<1>4. \A z \in Handlers \ {s} : HandlerAt(z, "register", "put") =>
        /\ handler'[z].ts = handler[z].ts /\ handler'[z].op = handler[z].op /\ handler'[z].stage = handler[z].stage /\ handler'[z].early
  BY <1>1 DEF HandlerAt, IInv, RegistryTypeOK, RegistryCalls
<1>5. DepartureNotAhead'
  BY <1>1, <1>4 DEF IInv, DepartureNotAhead, HandlerAt
<1>6. RegisterNotOld'
  BY <1>1, <1>4 DEF IInv, RegisterNotOld, HandlerAt
<1>7. PutsAreNewer'
  BY <1>1, <1>4 DEF PutsAreNewer, Newer, HandlerAt
<1> QED BY <1>3, <1>5, <1>6, <1>7 DEF ClocksHold

LEMMA IInvNext == IInv /\ [RegistryNext]_registryVars => IInv'
<1> SUFFICES ASSUME IInv, [RegistryNext]_registryVars PROVE ClocksHold'
  BY TypeNext DEF IInv, ClocksHold
<1>1. ASSUME NEW op \in {"register", "unregister"}, NEW ts \in RegistryTimes, Sign(op, ts) PROVE ClocksHold'
  BY <1>1 DEF Sign, IInv, ClocksHold, DepartureNotAhead, RegisterNotOld, MarkOutlives, PutsAreNewer, Newer, HandlerAt
<1>2. CASE UNCHANGED registryVars
  BY <1>2 DEF registryVars, IInv, ClocksHold, DepartureNotAhead, RegisterNotOld, MarkOutlives, PutsAreNewer, Newer, HandlerAt
<1> QED BY <1>1, <1>2, KeptTick, KeptArrive, KeptHandler, KeptUnread, KeptBury DEF RegistryNext, HandlerMoves

(* Every variable keeps its type.                                          *)
THEOREM TypeCorrect == RegistrySpec => []RegistryTypeOK
<1>1. RegistryInit => RegistryTypeOK
  BY InitHolds DEF IInv
<1> QED BY <1>1, TypeNext, PTL DEF RegistrySpec

(* No registration older than the mark of a departure is stored again, but *)
(* by a handler that was past its look at the mark when the departure was  *)
(* answered or whose look threw.                                           *)
THEOREM DepartureAlwaysHolds == RegistrySpec => DepartureHolds
<1>1. IInv /\ [RegistryNext]_registryVars =>
        [\A s \in Handlers : RegisterPut(s) /\ lspgone # Absent =>
           handler[s].ts >= lspgone.ts \/ handler[s].early \/ handler[s].blind]_registryVars
  BY DEF IInv, PutsAreNewer, Newer, RegisterPut
<1> QED BY <1>1, InitHolds, IInvNext, PTL DEF RegistrySpec, DepartureHolds
=============================================================================
