------------------------------- MODULE Names -------------------------------
(***************************************************************************)
(* One name at one door (index.js: /names/claim, /names/transfer,          *)
(* /names/release): name:<name> holds the LSP it belongs to.  A request is *)
(* signed by an LSP registered at the door; a transfer names another one.  *)
(* Every store call is a step, handlers interleave and may be killed, and  *)
(* any signed request may arrive at any time and again.                    *)
(*                                                                         *)
(* Covered: the two registration checks, who may claim, hand on and let    *)
(*   go, overlapping handlers, LSPs that come and go.                      *)
(* Not covered: the 600 s window (arriving at any time is more), other     *)
(*   names (no key is shared), claimed_at and transferred_from.            *)
(***************************************************************************)
EXTENDS Naturals

CONSTANTS
  LSPs,       \* node keys
  NameSlots,  \* handlers that may run at once
  Nobody

NameKinds == {"claim", "transfer", "release"}
NameAsks == [kind : NameKinds, by : LSPs, to : LSPs \union {Nobody},
             stage : {"signer", "to", "name", "write"},
             read : LSPs \union {Nobody},   \* the holder it found
             moved : BOOLEAN]               \* history: the name has changed since
Idle == [stage |-> "idle"]

ASSUME NamesAssumption == Nobody \notin LSPs

VARIABLES
  listed,  \* the LSPs with an lsp:<pubkey> record
  holder,  \* the lsp_pubkey of name:<name>, or Nobody
  ask      \* per slot: [kind, by, to, stage, read, moved], or None

namesVars == <<listed, holder, ask>>

NamesTypeOK ==
  /\ listed \subseteq LSPs
  /\ holder \in LSPs \union {Nobody}
  /\ ask \in [NameSlots -> NameAsks \union {Idle}]
  /\ \A s \in NameSlots : ask[s] # Idle => (ask[s].kind = "transfer" <=> ask[s].to # Nobody)

NamesInit ==
  /\ listed \in SUBSET LSPs
  /\ holder \in LSPs \union {Nobody}
  /\ ask = [s \in NameSlots |-> Idle]

AskEnds(s) == ask' = [ask EXCEPT ![s] = Idle]
AskGoes(s, stage) == ask' = [ask EXCEPT ![s].stage = stage]

-----------------------------------------------------------------------------
\* nameAuth, and transfer's own look at its to_lsp_pubkey: shapes and the signature are checked on the way.
AskArrives_AnyTo(s, kind, by, to) ==              \* mutant: the shape of to_lsp_pubkey is not looked at
  /\ ask[s] = Idle /\ to # by
  /\ ask' = [ask EXCEPT ![s] = [kind |-> kind, by |-> by, to |-> to, stage |-> "signer",
                                read |-> Nobody, moved |-> FALSE]]
  /\ UNCHANGED <<listed, holder>>
AskArrives(s, kind, by, to) ==
  /\ ask[s] = Idle /\ to # by
  /\ kind = "transfer" <=> to # Nobody
  /\ ask' = [ask EXCEPT ![s] = [kind |-> kind, by |-> by, to |-> to, stage |-> "signer",
                                read |-> Nobody, moved |-> FALSE]]
  /\ UNCHANGED <<listed, holder>>

FindsSigner(s) ==
  /\ ask[s].stage = "signer"
  /\ IF ask[s].by \notin listed THEN AskEnds(s)
     ELSE AskGoes(s, IF ask[s].kind = "transfer" THEN "to" ELSE "name")
  /\ UNCHANGED <<listed, holder>>

FindsTo(s) ==
  /\ ask[s].stage = "to"
  /\ IF ask[s].to \in listed THEN AskGoes(s, "name") ELSE AskEnds(s)
  /\ UNCHANGED <<listed, holder>>

\* "name taken", "not yours"; a claim of one's own and a release of nothing are an OK that writes nothing.
MayWrite_AnyTransfer(kind, by, cur) ==            \* mutant: transfer does not look at the holder
  IF kind = "transfer" THEN TRUE ELSE IF kind = "claim" THEN cur = Nobody ELSE cur = by
MayWrite(kind, by, cur) ==
  CASE kind = "claim" -> cur = Nobody
    [] kind = "transfer" -> cur \in {by, Nobody}
    [] kind = "release" -> cur = by

FindsName(s) ==
  /\ ask[s].stage = "name"
  /\ IF MayWrite(ask[s].kind, ask[s].by, holder)
     THEN ask' = [ask EXCEPT ![s].read = holder, ![s].stage = "write"]
     ELSE AskEnds(s)
  /\ UNCHANGED <<listed, holder>>

\* One put or one delete.
NewHolder(q) == CASE q.kind = "claim" -> q.by [] q.kind = "transfer" -> q.to [] q.kind = "release" -> Nobody

WritesName(s) ==
  /\ ask[s].stage = "write"
  /\ holder' = NewHolder(ask[s])
  /\ ask' = [z \in NameSlots |->
       IF z = s THEN Idle
       ELSE IF ask[z].stage = "write" THEN [ask[z] EXCEPT !.moved = TRUE] ELSE ask[z]]
  /\ UNCHANGED listed

\* The isolate is evicted, or a store call throws.
AskKilled(s) == ask[s] # Idle /\ AskEnds(s) /\ UNCHANGED <<listed, holder>>

\* /lsps/register and /lsps/unregister (module LspRegistry).
LspComesOrGoes(l) ==
  /\ listed' = IF l \in listed THEN listed \ {l} ELSE listed \union {l}
  /\ UNCHANGED <<holder, ask>>

NamesNext ==
  \/ \E s \in NameSlots :
       \/ \E kind \in NameKinds, by \in LSPs, to \in LSPs \union {Nobody} : AskArrives(s, kind, by, to)
       \/ FindsSigner(s) \/ FindsTo(s) \/ FindsName(s) \/ WritesName(s) \/ AskKilled(s)
  \/ \E l \in LSPs : LspComesOrGoes(l)

NamesSpec == NamesInit /\ [][NamesNext]_namesVars

-----------------------------------------------------------------------------
(* Properties.                                                             *)

(* A held name changes hands only by its holder's own signed transfer and  *)
(* becomes free only by its release, so a transfer leaves "no free         *)
(* interval in which any registered LSP could take it" - unless the name   *)
(* changed between a request's look at it and its write (index.js:440-441, *)
(* 446-447, 461-462, 469-470).                                             *)
NameMovesBySignature ==
  [][holder # Nobody /\ holder' # holder =>
       \E s \in NameSlots :
         /\ WritesName(s) /\ (ask[s].by = holder \/ ask[s].moved)
         /\ holder' = Nobody => ask[s].kind = "release"]_namesVars
=============================================================================
