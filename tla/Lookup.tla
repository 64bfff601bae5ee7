------------------------------- MODULE Lookup -------------------------------
(***************************************************************************)
(* The LNURL-pay lookup of a name at the box (index.js:                    *)
(* /.well-known/lnurlp/<name>) and its memory (node/server.js: memCache).  *)
(* A lookup tries the cache, reads name:<name>, reads lsp:<pubkey>, asks   *)
(* that LSP, and keeps a 200 for max-age seconds; payers' lookups          *)
(* interleave at every await, while names move and LSPs depart.            *)
(*                                                                         *)
(* Covered: staleness, expiry, eviction, every early answer (404, 502,     *)
(*   503, another status of the LSP passed on but not kept).               *)
(* Not covered: how a name moves (module Names: here it may move to anyone *)
(*   at any time), what an answer says (the LSP it came from is enough).   *)
(***************************************************************************)
EXTENDS Naturals, Sequences, SequencesExt

CONSTANTS
  Aliases,     \* names
  Providers,   \* LSPs
  Lookups,     \* payers' lookups that may run at once
  MaxAge,      \* 60 s
  MaxEntries,  \* 1000
  LookupTime,  \* bound: seconds
  MaxMoves,    \* bound: changes of the two tables
  NoLsp

ASSUME LookupAssumption ==
  {MaxAge, LookupTime, MaxMoves} \subseteq Nat /\ MaxEntries \in Nat \ {0} /\ NoLsp \notin Providers

VARIABLES
  nameOf,  \* name:<name>: the LSP, or NoLsp
  lspOf,   \* the LSPs with an lsp: record
  cache,   \* memCache: the Map's entries in insertion order
  look,    \* per lookup: [name, stage, lsp, since], or NoLsp
  second,  \* Date.now() in seconds
  moves,
  lost     \* history: per name and LSP, when it last lost the name

lookupVars == <<nameOf, lspOf, cache, look, second, moves, lost>>

\* took: history, how long before it was kept the name was read
Entries == [url : Aliases, lsp : Providers, exp : Nat, took : Nat]
LookCalls == [name : Aliases, stage : {"name", "lsp", "fetch", "put"},
              lsp : Providers \union {NoLsp}, since : Nat]

LookupTypeOK ==
  /\ nameOf \in [Aliases -> Providers \union {NoLsp}] /\ lspOf \subseteq Providers
  /\ cache \in Seq(Entries)
  /\ look \in [Lookups -> LookCalls \union {NoLsp}]
  /\ second \in 0..LookupTime /\ moves \in 0..MaxMoves
  /\ lost \in [Aliases \X Providers -> 0..LookupTime]

LookupInit ==
  /\ nameOf \in [Aliases -> Providers \union {NoLsp}] /\ lspOf = Providers
  /\ cache = <<>> /\ look = [p \in Lookups |-> NoLsp]
  /\ second = 0 /\ moves = 0
  /\ lost = [na \in Aliases \X Providers |-> 0]

LookAt(p, stage) == look[p] # NoLsp /\ look[p].stage = stage
LookEnds(p) == look' = [look EXCEPT ![p] = NoLsp]

-----------------------------------------------------------------------------
(* memCache.                                                               *)

KeyIs(entry, name) == entry.url = name
Find(name) == SelectInSeq(cache, LAMBDA entry : KeyIs(entry, name))   \* 0 if it is not there
Live_Always(entry) == TRUE                                            \* mutant: match forgets the expiry
Live(entry) == entry.exp > second

\* Map.set: a key that is there keeps its place.
SetEntry(entries, entry) ==
  LET i == SelectInSeq(entries, LAMBDA other : KeyIs(other, entry.url)) IN
  IF i = 0 THEN Append(entries, entry) ELSE ReplaceAt(entries, i, entry)

\* The first inserted entry goes when the table is full, even if the key is already there.
Evicted_Late(entries) == IF Len(entries) > MaxEntries THEN Tail(entries) ELSE entries   \* mutant: off by one
Evicted(entries) == IF Len(entries) >= MaxEntries THEN Tail(entries) ELSE entries

-----------------------------------------------------------------------------
(* The lookup.                                                             *)

\* cache.match: a live entry is the answer and nothing changes; an expired one is removed.
Miss(p, name) ==
  /\ look[p] = NoLsp /\ (Find(name) # 0 => ~Live(cache[Find(name)]))
  /\ cache' = IF Find(name) = 0 THEN cache ELSE RemoveAt(cache, Find(name))
  /\ look' = [look EXCEPT ![p] = [name |-> name, stage |-> "name", lsp |-> NoLsp, since |-> second]]
  /\ UNCHANGED <<nameOf, lspOf, second, moves, lost>>

\* 404 "unknown name"
ReadsName(p) ==
  /\ LookAt(p, "name")
  /\ LET lsp == nameOf[look[p].name] IN
     IF lsp = NoLsp THEN LookEnds(p)
     ELSE look' = [look EXCEPT ![p].lsp = lsp, ![p].stage = "lsp", ![p].since = second]
  /\ UNCHANGED <<nameOf, lspOf, cache, second, moves, lost>>

\* 503 "LSP unavailable"
ReadsLsp(p) ==
  /\ LookAt(p, "lsp")
  /\ IF look[p].lsp \in lspOf THEN look' = [look EXCEPT ![p].stage = "fetch"] ELSE LookEnds(p)
  /\ UNCHANGED <<nameOf, lspOf, cache, second, moves, lost>>

\* 502 (unreachable, a redirect, more than 64 KB) and another status than 200 end it; a 200 goes to the cache.
Fetches(p) ==
  /\ LookAt(p, "fetch")
  /\ \/ LookEnds(p)
     \/ look' = [look EXCEPT ![p].stage = "put"]
  /\ UNCHANGED <<nameOf, lspOf, cache, second, moves, lost>>

\* cache.put, once the body is there; the payer is answered.
Keeps(p) ==
  /\ LookAt(p, "put")
  /\ cache' = SetEntry(Evicted(cache), [url |-> look[p].name, lsp |-> look[p].lsp,
                                        exp |-> second + MaxAge, took |-> second - look[p].since])
  /\ LookEnds(p)
  /\ UNCHANGED <<nameOf, lspOf, second, moves, lost>>

-----------------------------------------------------------------------------
(* What goes on around it.                                                 *)

NameMoves(name, lsp) ==
  /\ moves < MaxMoves /\ lsp # nameOf[name]
  /\ moves' = moves + 1
  /\ nameOf' = [nameOf EXCEPT ![name] = lsp]
  /\ lost' = [na \in DOMAIN lost |-> IF na = <<name, nameOf[name]>> THEN second ELSE lost[na]]
  /\ UNCHANGED <<lspOf, cache, look, second>>

LspDeparts(lsp) ==
  /\ moves < MaxMoves /\ lsp \in lspOf
  /\ moves' = moves + 1
  /\ lspOf' = lspOf \ {lsp}
  /\ UNCHANGED <<nameOf, cache, look, second, lost>>

LookupTick ==
  /\ second < LookupTime
  /\ second' = second + 1
  /\ UNCHANGED <<nameOf, lspOf, cache, look, moves, lost>>

LookupNext ==
  \/ \E p \in Lookups : \/ \E name \in Aliases : Miss(p, name)
                        \/ ReadsName(p) \/ ReadsLsp(p) \/ Fetches(p) \/ Keeps(p)
  \/ \E name \in Aliases, lsp \in Providers \union {NoLsp} : NameMoves(name, lsp)
  \/ \E lsp \in Providers : LspDeparts(lsp)
  \/ LookupTick

LookupSpec == LookupInit /\ [][LookupNext]_lookupVars

-----------------------------------------------------------------------------
(* Properties.                                                             *)

(* An answer out of the memory is of an LSP that held the name, if not     *)
(* now, then less than MaxAge before, give or take the time the lookup     *)
(* that filled it took from reading the name to keeping the answer: after  *)
(* a transfer a payer is sent to the old LSP no longer than that           *)
(* (server.js:36-44, index.js:478-504).                                    *)
LookupIsRecent ==
  \A name \in Aliases :
    LET i == Find(name) IN
    i # 0 /\ Live(cache[i]) =>
      \/ nameOf[name] = cache[i].lsp
      \/ lost[<<name, cache[i].lsp>>] + MaxAge + cache[i].took > second

(* The memory holds no more than its limit and no name twice, though every *)
(* put awaits the body before it looks at the size (server.js:43).         *)
MemoryIsBounded ==
  /\ Len(cache) <= MaxEntries
  /\ \A i, j \in DOMAIN cache : KeyIs(cache[i], cache[j].url) => i = j
=============================================================================
