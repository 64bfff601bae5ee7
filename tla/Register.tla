----------------------------- MODULE Register -----------------------------
(***************************************************************************)
(* What the routes take a store to be: one key is one place.  A put or     *)
(* delete takes effect at one moment while it runs, a read answers what    *)
(* was there at one moment while it ran.  A box that goes down leaves the  *)
(* calls it was in the middle of done or not done.  Only a key that        *)
(* expires may be found empty though nobody deleted it.                    *)
(***************************************************************************)
CONSTANTS Calls, Values, None

VARIABLES
  durable,  \* whether the key never expires
  val,      \* the value, or None
  doing,    \* per call: [op, id, effect] for a put or delete, [op, got] for a read that has looked, or Free
  answer    \* what the latest step answered to a read, or None

Free == [op |-> "free"]

regVars == <<durable, val, doing, answer>>

RegInit ==
  /\ durable \in BOOLEAN
  /\ val = None /\ doing = [p \in Calls |-> Free] /\ answer = None

NoAnswer == answer' = None
Now(p, what) == doing' = [doing EXCEPT ![p] = what]

Starts(p) ==
  /\ doing[p].op = "free"
  /\ \E op \in {"put", "delete"}, n \in Values : Now(p, [op |-> op, id |-> n, effect |-> "ahead"])
  /\ NoAnswer /\ UNCHANGED <<durable, val>>

TakesEffect(p) ==
  /\ doing[p].op \in {"put", "delete"} /\ doing[p].effect = "ahead"
  /\ val' = IF doing[p].op = "put" THEN doing[p].id ELSE None
  /\ Now(p, [doing[p] EXCEPT !.effect = "past"])
  /\ NoAnswer /\ UNCHANGED durable

IsDone(p) ==
  /\ doing[p].op \in {"put", "delete"} /\ doing[p].effect = "past"
  /\ Now(p, Free)
  /\ NoAnswer /\ UNCHANGED <<durable, val>>

Looks(p) ==
  /\ doing[p].op = "free" /\ val # None
  /\ Now(p, [op |-> "read", got |-> val])
  /\ NoAnswer /\ UNCHANGED <<durable, val>>

FindsNothing(p) ==
  /\ doing[p].op = "free" /\ val = None
  /\ answer' = [value |-> None]
  /\ UNCHANGED <<durable, val, doing>>

Answers(p) ==
  /\ doing[p].op = "read"
  /\ \/ answer' = [value |-> doing[p].got]
     \/ ~durable /\ answer' = [value |-> None]
  /\ Now(p, Free)
  /\ UNCHANGED <<durable, val>>

Expires ==
  /\ ~durable
  /\ val' = None
  /\ NoAnswer /\ UNCHANGED <<durable, doing>>

GoesDown ==
  /\ doing' = [p \in Calls |-> Free]
  /\ NoAnswer /\ UNCHANGED <<durable, val>>

\* An answer is there for one step.
Passes == NoAnswer /\ UNCHANGED <<durable, val, doing>>

RegNext ==
  \/ \E p \in Calls : Starts(p) \/ TakesEffect(p) \/ IsDone(p) \/ Looks(p) \/ FindsNothing(p) \/ Answers(p)
  \/ Expires \/ GoesDown \/ Passes

RegSpec == RegInit /\ [][RegNext]_regVars
=============================================================================
