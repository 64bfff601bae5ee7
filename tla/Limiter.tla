------------------------------ MODULE Limiter ------------------------------
(***************************************************************************)
(* How the box counts calls per caller (node/limiter.js) and whom it       *)
(* charges: a request comes through Caddy to nodeHandler                   *)
(* (node/server.js), which cuts a body over the cap, drops the headers of  *)
(* HOP and writes x-real-ip; the worker's rateLimited (index.js) takes the *)
(* key from the headers that are left.                                     *)
(*                                                                         *)
(* Covered: the fixed window that starts at a key's first call, the        *)
(*   pruning of a full table, which address is charged.                    *)
(* Not covered: restarts (the table is empty again, as documented), the    *)
(*   two bindings (RL_REGISTER and RL_WRITE share no key), Cloudflare's    *)
(*   own binding.                                                          *)
(***************************************************************************)
EXTENDS Naturals, Sequences, FiniteSetsExt

CONSTANTS
  Addresses,  \* client addresses
  Limit,      \* 60 or 300 calls
  Period,     \* 60 s
  TableSize,  \* 20000 keys
  LimitTime,  \* bound: ticks of the clock
  MaxCalls    \* bound: calls

ASSUME LimiterAssumption ==
  /\ {Limit, Period} \subseteq Nat \ {0}
  /\ {TableSize, LimitTime, MaxCalls} \subseteq Nat

VARIABLES
  windows,  \* the Map: key -> [start, n]
  tick,     \* Date.now()
  calls,
  passed    \* history: per client address, the times of its calls that were let through

limiterVars == <<windows, tick, calls, passed>>

LimiterTypeOK ==
  /\ DOMAIN windows \subseteq Addresses
  /\ \A key \in DOMAIN windows : windows[key].start \in 0..tick /\ windows[key].n \in 1..MaxCalls
  /\ tick \in 0..LimitTime /\ calls \in 0..MaxCalls
  /\ passed \in [Addresses -> Seq(0..LimitTime)]

LimiterInit ==
  /\ windows = [key \in {} |-> {}] /\ tick = 0 /\ calls = 0
  /\ passed = [a \in Addresses |-> <<>>]

-----------------------------------------------------------------------------
(* Whose call it is.                                                       *)

\* What reaches nodeHandler: Caddy has put the client's address behind whatever hops the client wrote itself.
Claims == [hops : {<<>>} \union {<<a>> : a \in Addresses}, cf : {<<>>} \union {<<a>> : a \in Addresses}]
ForwardedFor(from, claim) == Append(claim.hops, from)

\* The peer is Caddy on this machine: the last hop counts.
ClientAddress_FirstHop(hops) == hops[1]                  \* mutant: the first hop
ClientAddress(hops) == hops[Len(hops)]

\* cf-connecting-ip is among the headers that HOP drops, x-real-ip is overwritten.
PassedOn_All(claim) == [cf |-> claim.cf]                 \* mutant: HOP lets it through
PassedOn(claim) == [cf |-> <<>>]
LimitKey(headers, realIp) == IF headers.cf # <<>> THEN headers.cf[1] ELSE realIp
Charged(from, claim) == LimitKey(PassedOn(claim), ClientAddress(ForwardedFor(from, claim)))

-----------------------------------------------------------------------------
(* memLimiter.limit.                                                       *)

Finished(w) == tick - w.start >= Period
Counted(key) ==
  IF key \notin DOMAIN windows \/ Finished(windows[key]) THEN [start |-> tick, n |-> 1]
  ELSE [windows[key] EXCEPT !.n = @ + 1]

\* Only a table over its size is pruned, of finished windows.
Prune_All(table) == [key \in {} |-> {}]                  \* mutant: a full table is emptied
Prune(table) ==
  [key \in {k \in DOMAIN table : ~Finished(table[k])} |-> table[key]]
Table(key) ==
  LET table == [k \in DOMAIN windows \union {key} |-> IF k = key THEN Counted(key) ELSE windows[k]] IN
  IF Cardinality(DOMAIN table) > TableSize THEN Prune(table) ELSE table

Call(from, claim) ==
  /\ calls < MaxCalls
  /\ calls' = calls + 1
  /\ LET key == Charged(from, claim) IN
     /\ windows' = Table(key)
     /\ passed' = IF Counted(key).n <= Limit THEN [passed EXCEPT ![from] = Append(@, tick)] ELSE passed
  /\ UNCHANGED tick

LimiterTick ==
  /\ tick < LimitTime
  /\ tick' = tick + 1
  /\ UNCHANGED <<windows, calls, passed>>

LimiterNext ==
  \/ \E from \in Addresses, claim \in Claims : Call(from, claim)
  \/ LimiterTick

LimiterSpec == LimiterInit /\ [][LimiterNext]_limiterVars

-----------------------------------------------------------------------------
(* Properties.                                                             *)

(* In any period a client gets less than twice the limit through, however  *)
(* its calls fall about the start of a window, whatever headers it writes, *)
(* and although others' calls fill the table (limiter.js:3, 15-18:         *)
(* "`limit` calls allowed in it"; server.js:4-6).                          *)
LessThanTwice ==
  \A a \in Addresses : \A i \in DOMAIN passed[a] :
    Cardinality({j \in DOMAIN passed[a] : passed[a][j] \in passed[a][i]..(passed[a][i] + Period - 1)}) < 2 * Limit

(* A client is charged for its own calls and no others: what it has let    *)
(* through in a running window is what the table counts, up to the limit   *)
(* (index.js:47, server.js:54-63).                                         *)
OwnCallsOnly ==
  \A a \in DOMAIN windows :
    ~Finished(windows[a]) =>
      LET n == Cardinality({j \in DOMAIN passed[a] : passed[a][j] >= windows[a].start}) IN
      n = IF windows[a].n < Limit THEN windows[a].n ELSE Limit
=============================================================================
