---------------------------- MODULE LspRegistry ----------------------------
(***************************************************************************)
(* One LSP's record at one door (index.js: /lsps/register,                 *)
(* /lsps/unregister): signed messages with a timestamp, good for 600 s     *)
(* either way by the door's clock, the record lsp:<pubkey>, and the mark   *)
(* lspgone:<pubkey> that a departure leaves for 1200 s.  Messages may be   *)
(* late, repeated and out of order; handlers interleave at every store     *)
(* call and may be killed, and a store call may throw: register catches    *)
(* that of its two reads and goes on, unregister that of its mark.         *)
(*                                                                         *)
(* Covered: the time window, the two comparisons of ts, the mark and its   *)
(*   expiry, overlapping handlers, failing store calls.                    *)
(* Not covered: the fields of the record and their shapes, other LSPs      *)
(*   (no key is shared), KV's 60 s edge cache (the door is the box, whose  *)
(*   store answers what it holds), the other door (modules Mirror and      *)
(*   Departures).                                                          *)
(***************************************************************************)
EXTENDS Integers

CONSTANTS
  Handlers,       \* requests the door may be handling at once
  SigWindow,      \* 600 s
  RegistryTime,   \* bound: seconds
  RegistryFaults, \* bound: handlers killed, store calls that throw
  Absent

RegistryTimes == 0..RegistryTime

ASSUME RegistryAssumption ==
  {SigWindow, RegistryTime, RegistryFaults} \subseteq Nat /\ Absent \notin Int \union [ts : Int, exp : Int]

VARIABLES
  doorClock, \* in seconds
  signed,    \* every message the LSP has signed: [op, ts]; the network may deliver any of them at any time
  lspClock,  \* the LSP's own clock: it never signs an earlier ts than before
  lsp,       \* the ts of the stored record, or Absent
  lspgone,   \* [ts, exp], or Absent; what has expired stays here and counts for nothing
  handler,   \* per request: [op, ts, stage, early, blind], or Absent; the last two are history
  departed,  \* history: the ts of the latest departure answered "removed", or Absent
  faults

registryVars == <<doorClock, signed, lspClock, lsp, lspgone, handler, departed, faults>>

Signables == [op : {"register", "unregister"}, ts : RegistryTimes]
RegistryCalls == [op : {"register", "unregister"}, ts : RegistryTimes, early : BOOLEAN, blind : BOOLEAN,
                  stage : {"record", "gone", "put", "delete", "bury"}]

RegistryTypeOK ==
  /\ doorClock \in RegistryTimes /\ lspClock \in RegistryTimes /\ faults \in 0..RegistryFaults
  /\ signed \subseteq Signables
  /\ lsp \in RegistryTimes \union {Absent} /\ departed \in RegistryTimes \union {Absent}
  /\ lspgone \in [ts : RegistryTimes, exp : Nat] \union {Absent}
  /\ handler \in [Handlers -> RegistryCalls \union {Absent}]

RegistryInit ==
  /\ doorClock = 0 /\ lspClock = 0 /\ signed = {}
  /\ lsp = Absent /\ lspgone = Absent /\ departed = Absent
  /\ handler = [s \in Handlers |-> Absent] /\ faults = 0

HandlerAt(s, op, stage) == handler[s] # Absent /\ handler[s].op = op /\ handler[s].stage = stage
RegistryGoes(s, stage) == handler' = [handler EXCEPT ![s].stage = stage]
RegistryEnds(s) == handler' = [handler EXCEPT ![s] = Absent]
RegistryFault == faults < RegistryFaults /\ faults' = faults + 1

-----------------------------------------------------------------------------
(* The LSP's adapter, the network and the clocks.                          *)

Sign(op, ts) ==
  /\ ts >= lspClock
  /\ lspClock' = ts
  /\ signed' = signed \union {[op |-> op, ts |-> ts]}
  /\ UNCHANGED <<doorClock, lsp, lspgone, handler, departed, faults>>

\* A register's two reads follow its window check within the same second (assumed); all else may take its time.
RegistryTick ==
  /\ doorClock < RegistryTime
  /\ \A s \in Handlers : ~HandlerAt(s, "register", "record") /\ ~HandlerAt(s, "register", "gone")
  /\ doorClock' = doorClock + 1
  /\ UNCHANGED <<signed, lspClock, lsp, lspgone, handler, departed, faults>>

\* A message arrives, perhaps not for the first time: the window is checked first.
InWindow(ts) == ts - doorClock \in -SigWindow..SigWindow
MessageArrives(s, msg) ==
  /\ handler[s] = Absent /\ InWindow(msg.ts)
  /\ handler' = [handler EXCEPT ![s] = [op |-> msg.op, ts |-> msg.ts, stage |-> "record",
                                        early |-> FALSE, blind |-> FALSE]]
  /\ UNCHANGED <<doorClock, signed, lspClock, lsp, lspgone, departed, faults>>

-----------------------------------------------------------------------------
(* POST /lsps/register.                                                    *)

\* "older than the current record" (409); an equal ts passes.  A read that throws counts as no record.
RegisterRecord(s) ==
  /\ HandlerAt(s, "register", "record")
  /\ IF lsp # Absent /\ handler[s].ts < lsp THEN RegistryEnds(s) ELSE RegistryGoes(s, "gone")
  /\ UNCHANGED <<doorClock, signed, lspClock, lsp, lspgone, departed, faults>>
RegisterRecordUnread(s) ==
  /\ HandlerAt(s, "register", "record") /\ RegistryFault
  /\ RegistryGoes(s, "gone")
  /\ UNCHANGED <<doorClock, signed, lspClock, lsp, lspgone, departed>>

\* "older than this key's departure" (409), while the mark has not expired.  A read that throws is
\* passed over: the registration goes on without having seen the mark.
Marked == lspgone # Absent /\ lspgone.exp > doorClock
RegisterGone(s) ==
  /\ HandlerAt(s, "register", "gone")
  /\ IF Marked /\ handler[s].ts <= lspgone.ts THEN RegistryEnds(s) ELSE RegistryGoes(s, "put")
  /\ UNCHANGED <<doorClock, signed, lspClock, lsp, lspgone, departed, faults>>
RegisterGoneUnread(s) ==
  /\ HandlerAt(s, "register", "gone") /\ RegistryFault
  /\ handler' = [handler EXCEPT ![s].stage = "put", ![s].blind = TRUE]
  /\ UNCHANGED <<doorClock, signed, lspClock, lsp, lspgone, departed>>

RegisterPut(s) ==
  /\ HandlerAt(s, "register", "put")
  /\ lsp' = handler[s].ts
  /\ RegistryEnds(s)
  /\ UNCHANGED <<doorClock, signed, lspClock, lspgone, departed, faults>>

-----------------------------------------------------------------------------
(* POST /lsps/unregister.                                                  *)

\* Nothing to remove is an OK; a ts not above the record's is refused.
UnregisterRecord(s) ==
  /\ HandlerAt(s, "unregister", "record")
  /\ IF lsp = Absent \/ handler[s].ts <= lsp THEN RegistryEnds(s) ELSE RegistryGoes(s, "delete")
  /\ UNCHANGED <<doorClock, signed, lspClock, lsp, lspgone, departed, faults>>

UnregisterDelete(s) ==
  /\ HandlerAt(s, "unregister", "delete")
  /\ lsp' = Absent
  /\ RegistryGoes(s, "bury")
  /\ UNCHANGED <<doorClock, signed, lspClock, lspgone, departed, faults>>

\* "removed" is answered; registers already past their look at the mark are noted.
Departs(s) ==
  /\ departed' = handler[s].ts
  /\ handler' = [z \in Handlers |->
                  IF z = s THEN Absent
                  ELSE IF HandlerAt(z, "register", "put") THEN [handler[z] EXCEPT !.early = TRUE] ELSE handler[z]]

\* The mark lives for twice the window.  If it cannot be written the answer is the same.
Mark_OneWindow(ts) == [ts |-> ts, exp |-> doorClock + SigWindow]      \* mutant: as long as a message is good
Mark_OfRecord(ts) == [ts |-> lsp, exp |-> doorClock + 2 * SigWindow]  \* mutant: the record's ts, which is gone
Mark(ts) == [ts |-> ts, exp |-> doorClock + 2 * SigWindow]
UnregisterBury(s) ==
  /\ HandlerAt(s, "unregister", "bury")
  /\ lspgone' = Mark(handler[s].ts)
  /\ Departs(s)
  /\ UNCHANGED <<doorClock, signed, lspClock, lsp, faults>>
UnregisterBuryFails(s) ==
  /\ HandlerAt(s, "unregister", "bury") /\ RegistryFault
  /\ Departs(s)
  /\ UNCHANGED <<doorClock, signed, lspClock, lsp, lspgone>>

\* The isolate is evicted, or another store call throws.
HandlerDies(s) ==
  /\ handler[s] # Absent /\ RegistryFault
  /\ RegistryEnds(s)
  /\ UNCHANGED <<doorClock, signed, lspClock, lsp, lspgone, departed>>

RegistryNext ==
  \/ \E op \in {"register", "unregister"}, ts \in RegistryTimes : Sign(op, ts)
  \/ RegistryTick
  \/ \E s \in Handlers, msg \in signed : MessageArrives(s, msg)
  \/ \E s \in Handlers : \/ RegisterRecord(s) \/ RegisterRecordUnread(s)
                         \/ RegisterGone(s) \/ RegisterGoneUnread(s) \/ RegisterPut(s)
                         \/ UnregisterRecord(s) \/ UnregisterDelete(s)
                         \/ UnregisterBury(s) \/ UnregisterBuryFails(s)
                         \/ HandlerDies(s)

RegistrySpec == RegistryInit /\ [][RegistryNext]_registryVars

-----------------------------------------------------------------------------
(* Once a departure has left its mark, no registration signed before it is *)
(* stored again, however late or often it arrives, whatever the clocks of  *)
(* the signer and the door said, and though the mark expires - but by a    *)
(* handler that was past its look at the mark when the mark was written,   *)
(* or whose look threw (index.js:731, 770).  The look is assumed to come   *)
(* in the second of the window check.                                      *)
DepartureHolds ==
  [][\A s \in Handlers : RegisterPut(s) /\ lspgone # Absent =>
       handler[s].ts >= lspgone.ts \/ handler[s].early \/ handler[s].blind]_registryVars

-----------------------------------------------------------------------------
(* What the comments say and the code does not keep when a store call      *)
(* throws.                                                                 *)

(* A departure answered "removed" has left "the tombstone a captured older *)
(* registration cannot outdo" (index.js:770), which "must be outdone too"  *)
(* (index.js:728-729): no registration signed before the departure is      *)
(* stored after it, but by a handler whose look was over by then.          *)
DepartureIsFinal ==
  [][\A s \in Handlers : RegisterPut(s) /\ departed # Absent =>
       handler[s].ts >= departed \/ handler[s].early]_registryVars
=============================================================================
