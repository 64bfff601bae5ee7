----------------------------- MODULE Departures -----------------------------
(***************************************************************************)
(* A departure and the mirror (index.js: /lsps/register and                *)
(* /lsps/unregister at either door; reconcile.js: the cycle).  One LSP's   *)
(* record lsp:<pubkey> and its mark lspgone:<pubkey> are two keys to the   *)
(* loop, which moves each by the rules of MirrorRules.                     *)
(*                                                                         *)
(* Covered: messages that come late, again, or at the other door; the      *)
(*   order of the two keys within a cycle; requests between a cycle's      *)
(*   listing and its moves.                                                *)
(* Not covered: overlapping handlers and the windows (module LspRegistry:  *)
(*   here all happens within a mark's 1200 s and a message's 600 s),       *)
(*   failing calls and lagging lists (module Mirror).  The clocks of the   *)
(*   two doors agree: no two requests share one.                           *)
(***************************************************************************)
EXTENDS MirrorRules, Sequences

CONSTANTS
  MaxTs,     \* bound: the LSP's clock
  MaxClock   \* bound: requests that write

Doors == {"worker", "box"}
Order == <<"lsp", "lspgone">>   \* as a cycle sorts the names
Records == {"lsp", "lspgone"}
KindOf(k) == IF k = "lsp" THEN "lsp" ELSE "plain"

VARIABLES
  signed,  \* every message the LSP has signed, in the order of their ts: a sequence of "register" and "unregister"
  value,   \* per door and key: [rank, c], the ts it carries and its clock, or None
  tomb,    \* per door and key: the tombstone's clock, or None
  clock,   \* the clock of the latest request that wrote
  todo     \* what is left of the running cycle: a sequence of [key, r, l] as listed

departVars == <<signed, value, tomb, clock, todo>>

DepartInit ==
  /\ signed = <<>> /\ clock = 0 /\ todo = <<>>
  /\ value = [d \in Doors |-> [k \in Records |-> None]]
  /\ tomb = [d \in Doors |-> [k \in Records |-> None]]

-----------------------------------------------------------------------------
(* The LSP and the doors; any message may arrive at any door, and again.   *)

SignsNext(op) ==
  /\ Len(signed) < MaxTs
  /\ signed' = Append(signed, op)
  /\ UNCHANGED <<value, tomb, clock, todo>>

\* Two 409s: older than the record, not newer than the mark - as this door knows them.
Registers(d, ts) ==
  /\ signed[ts] = "register" /\ clock < MaxClock
  /\ value[d]["lsp"] # None => ts >= value[d]["lsp"].rank
  /\ value[d]["lspgone"] # None => ts > value[d]["lspgone"].rank
  /\ clock' = clock + 1
  /\ value' = [value EXCEPT ![d]["lsp"] = [rank |-> ts, c |-> clock']]
  /\ UNCHANGED <<signed, tomb, todo>>

\* The record goes, its tombstone and the mark come, all with the request's one clock.
Unregisters(d, ts) ==
  /\ signed[ts] = "unregister" /\ clock < MaxClock
  /\ value[d]["lsp"] # None /\ ts > value[d]["lsp"].rank
  /\ clock' = clock + 1
  /\ value' = [value EXCEPT ![d] = [lsp |-> None, lspgone |-> [rank |-> ts, c |-> clock']]]
  /\ tomb' = [tomb EXCEPT ![d]["lsp"] = clock']
  /\ UNCHANGED <<signed, todo>>

-----------------------------------------------------------------------------
(* The cycle.                                                              *)

SideOf(d, k) == SideState(IF value[d][k] = None THEN None ELSE value[d][k].c, tomb[d][k])
Lists ==
  /\ todo = <<>>
  /\ todo' = SelectSeq([i \in 1..2 |-> [key |-> Order[i], r |-> SideOf("worker", Order[i]), l |-> SideOf("box", Order[i])]],
                       LAMBDA x : x.r # x.l)
  /\ UNCHANGED <<signed, value, tomb, clock>>

\* A value is copied as it is by now, under its present clock (pull) or the listed one (push).
Copy(from, to, k, v, allowed) ==
  /\ value' = IF value[from][k] # None /\ allowed THEN [value EXCEPT ![to][k] = v] ELSE value
  /\ UNCHANGED tomb
Buries(d, k, c) ==
  IF DeleteAllows(c, value[d][k], tomb[d][k])
  THEN value' = [value EXCEPT ![d][k] = None] /\ tomb' = [tomb EXCEPT ![d][k] = c]
  ELSE UNCHANGED <<value, tomb>>

Moves ==
  /\ todo # <<>>
  /\ LET k == Head(todo).key
         r == Head(todo).r
         l == Head(todo).l
         way == Way(r, l)
         pulled == value["worker"][k]
         pushed == [rank |-> value["box"][k].rank, c |-> l.c]
     IN \/ way = "pull" /\ Copy("worker", "box", k, pulled, PullAllows(KindOf(k), pulled, value["box"][k]))
        \/ way = "push" /\ Copy("box", "worker", k, pushed, MirrorPutAllows(KindOf(k), pushed, value["worker"][k], tomb["worker"][k]))
        \/ way = "drop" /\ Buries("box", k, r.c)
        \/ way = "bury" /\ Buries("worker", k, l.c)
  /\ todo' = Tail(todo)
  /\ UNCHANGED <<signed, clock>>

DepartNext ==
  \/ \E op \in {"register", "unregister"} : SignsNext(op)
  \/ \E d \in Doors, ts \in DOMAIN signed : Registers(d, ts) \/ Unregisters(d, ts)
  \/ Lists \/ Moves

DepartSpec == DepartInit /\ [][DepartNext]_departVars

-----------------------------------------------------------------------------
(* A door that holds the mark of a departure serves no registration from   *)
(* before it (index.js:728-731, 770: "the tombstone a captured older       *)
(* registration cannot outdo"; mirror.js:14-15: the mirror keeps "the      *)
(* rules each door already applies to what wallets send").                 *)
MarkedDoorsRefuse ==
  \A d \in Doors :
    value[d]["lsp"] # None /\ value[d]["lspgone"] # None => value[d]["lsp"].rank > value[d]["lspgone"].rank
=============================================================================
