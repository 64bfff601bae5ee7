------------------------------ MODULE Listing ------------------------------
(***************************************************************************)
(* GET /lsps at the box (index.js: kvListAll, kvGetMany and the ranking;   *)
(* node/store.js: list): the names of the registered LSPs are read page by *)
(* page, each page after the last name of the one before, then the         *)
(* records, and the list is ranked.  LSPs register, change their record    *)
(* and depart between any two of these steps.                              *)
(*                                                                         *)
(* Covered: cursor, page size, cap, records gone since, the viability      *)
(*   gate, the score.                                                      *)
(* Not covered: last_seen_ms and stale (wording of registered_at), records *)
(*   that do not parse, the bound of 50 pages (beyond the cap).            *)
(***************************************************************************)
EXTENDS Integers, Sequences, FiniteSets

CONSTANTS
  NumKeys,   \* names are 1..NumKeys, in the order of their keys
  PageSize,  \* 1000
  Cap,       \* 5000
  Records,   \* the records an LSP may have: [wss, http, fee, uptime]
  Changes,   \* bound: registrations and departures while the list is made
  NoRecord

ASSUME ListingAssumption ==
  /\ {NumKeys, Changes} \subseteq Nat /\ {PageSize, Cap} \subseteq Nat \ {0}
  /\ NoRecord \notin Records
  /\ Records \subseteq [wss : BOOLEAN, http : BOOLEAN, fee : Int, uptime : 0..100]

VARIABLES
  record,   \* lsp:<name>, or NoRecord
  names,    \* kvListAll: the names read so far
  cursor,   \* the last name of the page before; 0 before the first page
  at,       \* "pages", "records" or "done"
  listing,  \* the answer: a sequence of [name, rec]
  changes,
  steady    \* history: the names that had a record all the time

listingVars == <<record, names, cursor, at, listing, changes, steady>>

Keys == 1..NumKeys

ListingTypeOK ==
  /\ record \in [Keys -> Records \union {NoRecord}]
  /\ names \in Seq(Keys) /\ cursor \in 0..NumKeys
  /\ at \in {"pages", "records", "done"}
  /\ listing \in Seq([name : Keys, rec : Records])
  /\ changes \in 0..Changes /\ steady \subseteq Keys

Here == {k \in Keys : record[k] # NoRecord}
ListingInit ==
  /\ record \in [Keys -> Records \union {NoRecord}]
  /\ names = <<>> /\ cursor = 0 /\ at = "pages" /\ listing = <<>> /\ changes = 0
  /\ steady = Here

-----------------------------------------------------------------------------
(* store.list, kvListAll.                                                  *)

\* The elements of S in their order: the n-th is the one that n - 1 precede.
InOrder(S, precedes(_, _)) ==
  [n \in 1..Cardinality(S) |-> CHOOSE x \in S : Cardinality({y \in S : precedes(y, x)}) = n - 1]

After_OrAt(name) == name >= cursor      \* mutant: the cursor's own name again
After(name) == name > cursor
Sorted(S) == InOrder(S, <)
Least(n, s) == SubSeq(s, 1, IF n < Len(s) THEN n ELSE Len(s))

ReadsPage ==
  /\ at = "pages"
  /\ LET all == Sorted({k \in Here : After(k)})
         page == Least(PageSize, all)
     IN
     /\ names' = Least(Cap, names \o page)
     /\ IF Len(page) = Len(all) \/ Len(names') = Cap
        THEN at' = "records" /\ UNCHANGED cursor
        ELSE cursor' = page[Len(page)] /\ UNCHANGED at
  /\ UNCHANGED <<record, listing, changes, steady>>

-----------------------------------------------------------------------------
(* kvGetMany and the ranking.                                              *)

\* No wss_url, or a plain http endpoint: no https page can use it.
Viable(rec) == rec.wss /\ ~rec.http
\* fee * 0.6 + (100 - uptime) * 0.4, in tenths
Score(rec) == 6 * rec.fee + 4 * (100 - rec.uptime)

Before_Price(a, b) == Score(a) < Score(b)                    \* mutant: as before v371
Before(a, b) ==
  \/ Viable(a) /\ ~Viable(b)
  \/ Viable(a) = Viable(b) /\ Score(a) < Score(b)

Kept == {i \in DOMAIN names : record[names[i]] # NoRecord}

\* Array.sort is stable: what ties stays in the order it was read.
Goes(i, j) ==
  LET a == record[names[i]]
      b == record[names[j]]
  IN Before(a, b) \/ (~Before(b, a) /\ i < j)

ReadsRecords ==
  /\ at = "records"
  /\ LET order == InOrder(Kept, Goes)
     IN listing' = [i \in DOMAIN order |-> [name |-> names[order[i]], rec |-> record[names[order[i]]]]]
  /\ at' = "done"
  /\ UNCHANGED <<record, names, cursor, changes, steady>>

\* /lsps/register and /lsps/unregister, meanwhile.
Changed(k, rec) ==
  /\ changes < Changes /\ at # "done" /\ rec # record[k]
  /\ changes' = changes + 1
  /\ record' = [record EXCEPT ![k] = rec]
  /\ steady' = IF rec = NoRecord THEN steady \ {k} ELSE steady
  /\ UNCHANGED <<names, cursor, at, listing>>

ListingNext ==
  \/ ReadsPage \/ ReadsRecords
  \/ \E k \in Keys, rec \in Records \union {NoRecord} : Changed(k, rec)

ListingSpec == ListingInit /\ [][ListingNext]_listingVars

-----------------------------------------------------------------------------
(* Properties.                                                             *)

(* An LSP that was registered all the while is on the list exactly once,   *)
(* and none is on it twice, whatever registers and departs between the     *)
(* pages - unless the cap was reached (index.js:56-57: "a KV listing that  *)
(* follows its cursor"; store.js:121-131).                                 *)
NobodyIsMissed ==
  at = "done" =>
    /\ \A i, j \in DOMAIN listing : listing[i].name = listing[j].name => i = j
    /\ Len(names) < Cap => steady \subseteq {listing[i].name : i \in DOMAIN listing}
    /\ Len(names) = Cap => \A k \in steady : k < names[Cap] => \E i \in DOMAIN listing : listing[i].name = k

(* No LSP that an https wallet cannot reach stands before one that it can, *)
(* however cheap; among equals the cheaper comes first, and equal scores   *)
(* keep the order of their keys, so that two listings agree                *)
(* (index.js:612-629).                                                     *)
UsableFirst ==
  \A i, j \in DOMAIN listing :
    i < j =>
      /\ ~(Viable(listing[j].rec) /\ ~Viable(listing[i].rec))
      /\ Viable(listing[i].rec) = Viable(listing[j].rec) =>
           /\ Score(listing[i].rec) <= Score(listing[j].rec)
           /\ Score(listing[i].rec) = Score(listing[j].rec) => listing[i].name < listing[j].name
=============================================================================
