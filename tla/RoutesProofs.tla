---------------------------- MODULE RoutesProofs ----------------------------
(***************************************************************************)
(* Theorems about the routes that MCRoutes runs side by side: what the box *)
(* keeps in memory (Lookup, Limiter) means for a payer and for a caller,   *)
(* what GET /lsps answers (Listing), what a signature and a digest bind    *)
(* (Messages), and that all of it, with what is proved of the other three, *)
(* holds of the joint run - for every value of the constants.              *)
(***************************************************************************)
EXTENDS MCRoutes, LspRegistryProofs, ScbBackupProofs, NamesProofs, FiniteSetTheorems, SequenceTheorems,
        WellFoundedInduction, TLAPS

-----------------------------------------------------------------------------
(* Lookup.                                                                 *)

\* What was read of name at `since` still stands, or was given up no earlier.
Held(name, to, since) == nameOf[name] = to \/ lost[<<name, to>>] >= since

\* An entry tells of an LSP that held the name when it was read, and lives MaxAge from its put.
EntryIsSound(e) ==
  /\ e.exp <= second + MaxAge
  /\ nameOf[e.url] = e.lsp \/ lost[<<e.url, e.lsp>>] + MaxAge + e.took >= e.exp

\* So does a lookup that has read the name; and no loss is of the future.
LookIsSound(q) ==
  /\ q.since <= second
  /\ q.stage # "name" => q.lsp \in Providers /\ Held(q.name, q.lsp, q.since)

NoNameTwice(entries) == \A i, j \in DOMAIN entries : entries[i].url = entries[j].url => i = j

LookupIInv ==
  /\ LookupTypeOK
  /\ Len(cache) <= MaxEntries /\ NoNameTwice(cache)
  /\ \A na \in Aliases \X Providers : lost[na] <= second
  /\ \A i \in DOMAIN cache : EntryIsSound(cache[i])
  /\ \A p \in Lookups : look[p] # NoLsp => LookIsSound(look[p])


\* The place of a name in such a sequence: the first, and only, entry under it, or 0.
LEMMA PlaceIs ==
  ASSUME NEW s \in Seq(Entries), NoNameTwice(s), NEW name, NEW n,
         n = SelectInSeq(s, LAMBDA entry : KeyIs(entry, name))
  PROVE  /\ n \in 0..Len(s)
         /\ n = 0 => \A i \in DOMAIN s : s[i].url # name
         /\ n # 0 => n \in DOMAIN s /\ s[n].url = name
<1>. DEFINE I == {i \in 1..Len(s) : KeyIs(s[i], name)}
<1>1. n = IF I # {} THEN Min(I) ELSE 0
  BY DEF SelectInSeq
<1>2. DOMAIN s = 1..Len(s) /\ Len(s) \in Nat
  BY LenProperties
<1>3. CASE I = {}
  BY <1>1, <1>2, <1>3 DEF KeyIs
<1>4. CASE I # {}
  <2>1. PICK i \in I : TRUE
    BY <1>4
  <2>2. \A j \in I : j = i
    BY <2>1, <1>2 DEF NoNameTwice, KeyIs
  <2>3. Min(I) = i
    BY <2>1, <2>2, <1>2 DEF Min
  <2>. QED  BY <1>1, <1>2, <1>4, <2>1, <2>3 DEF KeyIs
<1>. QED  BY <1>3, <1>4

LEMMA FindIs ==
  ASSUME LookupTypeOK, NoNameTwice(cache), NEW name
  PROVE  /\ Find(name) \in 0..Len(cache)
         /\ Find(name) = 0 => \A i \in DOMAIN cache : cache[i].url # name
         /\ Find(name) # 0 => Find(name) \in DOMAIN cache /\ cache[Find(name)].url = name
<1>. DEFINE n == SelectInSeq(cache, LAMBDA entry : KeyIs(entry, name))
<1>1. Find(name) = n
  BY DEF Find
<1>2. /\ n \in 0..Len(cache)
      /\ n = 0 => \A i \in DOMAIN cache : cache[i].url # name
      /\ n # 0 => n \in DOMAIN cache /\ cache[n].url = name
  <2>1. cache \in Seq(Entries)
    BY DEF LookupTypeOK
  <2>. QED  BY <2>1, PlaceIs
<1>. HIDE DEF n
<1>. QED  BY <1>1, <1>2

\* What a step of the memory leaves: entries it had, and the one that is put.
From(entries, s) == \A j \in DOMAIN entries : \E i \in DOMAIN s : entries[j] = s[i]

LEMMA Piece ==
  ASSUME NEW s, NEW m \in Nat, NEW n \in Nat, m <= n + 1, \A i \in m..n : s[i] \in Entries
  PROVE  /\ SubSeq(s, m, n) \in Seq(Entries) /\ Len(SubSeq(s, m, n)) = n - m + 1
         /\ \A i \in 1..(n - m + 1) : SubSeq(s, m, n)[i] = s[m + i - 1]
<1>1. SubSeq(s, m, n) \in Seq(Entries)
  BY SubSeqProperties
<1>2. Len(SubSeq(s, m, n)) = n - m + 1
  BY SubSeqProperties
<1>3. \A i \in 1..(n - m + 1) : SubSeq(s, m, n)[i] = s[m + i - 1]
  BY SubSeqProperties
<1>. QED  BY <1>1, <1>2, <1>3

LEMMA Removed ==
  ASSUME NEW s \in Seq(Entries), NoNameTwice(s), NEW n \in DOMAIN s
  PROVE  /\ RemoveAt(s, n) \in Seq(Entries) /\ Len(RemoveAt(s, n)) = Len(s) - 1
         /\ NoNameTwice(RemoveAt(s, n)) /\ From(RemoveAt(s, n), s)
<1>. DEFINE front == SubSeq(s, 1, n - 1)
            back == SubSeq(s, n + 1, Len(s))
            rest == RemoveAt(s, n)
<1>1. DOMAIN s = 1..Len(s) /\ Len(s) \in Nat /\ n \in 1..Len(s)
  BY LenProperties
<1>2. \A i \in 1..Len(s) : s[i] \in Entries
  BY ElementOfSeq
<1>3. /\ front \in Seq(Entries) /\ Len(front) = n - 1
      /\ \A i \in 1..(n - 1) : front[i] = s[i]
  <2>1. \A i \in 1..(n - 1) : s[i] \in Entries
    BY <1>1, <1>2
  <2>. QED  BY <1>1, <2>1, Piece
<1>4. /\ back \in Seq(Entries) /\ Len(back) = Len(s) - n
      /\ \A i \in 1..(Len(s) - n) : back[i] = s[n + i]
  <2>1. \A i \in (n + 1)..Len(s) : s[i] \in Entries
    BY <1>1, <1>2
  <2>. QED  BY <1>1, <2>1, Piece
<1>5. rest = front \o back
  BY DEF RemoveAt
<1>. HIDE DEF front, back, rest
<1>6. /\ rest \in Seq(Entries) /\ Len(rest) = Len(s) - 1
      /\ \A i \in 1..(Len(s) - 1) : rest[i] = IF i < n THEN s[i] ELSE s[i + 1]
  <2>1. /\ rest \in Seq(Entries) /\ Len(rest) = Len(front) + Len(back)
    BY <1>3, <1>4, <1>5, ConcatProperties
  <2>2. \A i \in 1..(Len(s) - 1) :
           rest[i] = IF i <= Len(front) THEN front[i] ELSE back[i - Len(front)]
    BY <1>1, <1>3, <1>4, <1>5, ConcatProperties, SMTT(30)
  <2>3. ASSUME NEW i \in 1..(Len(s) - 1)  PROVE  rest[i] = IF i < n THEN s[i] ELSE s[i + 1]
    <3>1. CASE i < n
      BY <1>1, <1>3, <2>2, <3>1
    <3>2. CASE ~(i < n)
      <4>1. i - Len(front) \in 1..(Len(s) - n) /\ n + (i - Len(front)) = i + 1
        BY <1>1, <1>3, <3>2
      <4>2. back[i - Len(front)] = s[n + (i - Len(front))]
        BY <1>4, <4>1
      <4>3. rest[i] = back[i - Len(front)]
        BY <1>1, <1>3, <2>2, <3>2
      <4>. QED  BY <3>2, <4>1, <4>2, <4>3
    <3>. QED  BY <3>1, <3>2
  <2>4. Len(rest) = Len(s) - 1
    BY <1>1, <1>3, <1>4, <2>1
  <2>. QED  BY <2>1, <2>3, <2>4
<1>7. DOMAIN rest = 1..(Len(s) - 1)
  BY <1>6, LenProperties
<1>8. NoNameTwice(rest)
  <2>. SUFFICES ASSUME NEW i \in 1..(Len(s) - 1), NEW j \in 1..(Len(s) - 1), rest[i].url = rest[j].url
                PROVE  i = j
    BY <1>7 DEF NoNameTwice
  <2>. DEFINE a == IF i < n THEN i ELSE i + 1
              b == IF j < n THEN j ELSE j + 1
  <2>0. a \in 1..Len(s) /\ b \in 1..Len(s)
    BY <1>1
  <2>1. /\ a \in DOMAIN s /\ rest[i] = s[a]
        /\ b \in DOMAIN s /\ rest[j] = s[b]
    <3>1. rest[i] = IF i < n THEN s[i] ELSE s[i + 1]
      BY <1>6
    <3>2. rest[j] = IF j < n THEN s[j] ELSE s[j + 1]
      BY <1>6
    <3>. QED  BY <1>1, <2>0, <3>1, <3>2
  <2>2. a = b => i = j
    BY <1>1
  <2>. HIDE DEF a, b
  <2>. QED  BY <2>1, <2>2 DEF NoNameTwice
<1>9. From(rest, s)
  BY <1>1, <1>6, <1>7, SMTT(30) DEF From
<1>. QED  BY <1>6, <1>8, <1>9 DEF rest

LEMMA Smaller == \A m, n \in Nat : (m <= n => m < n \/ m = n) /\ (m < n => ~(m >= n))
OBVIOUS

LEMMA Evicts ==
  ASSUME NEW s \in Seq(Entries), NoNameTwice(s), Len(s) <= MaxEntries
  PROVE  /\ Evicted(s) \in Seq(Entries) /\ Len(Evicted(s)) < MaxEntries
         /\ NoNameTwice(Evicted(s)) /\ From(Evicted(s), s)
<1>1. DOMAIN s = 1..Len(s) /\ Len(s) \in Nat /\ MaxEntries \in Nat /\ MaxEntries >= 1
  BY LenProperties, LookupAssumption
<1>2. CASE Len(s) < MaxEntries
  <2>1. Evicted(s) = s
    BY <1>1, <1>2, Smaller DEF Evicted
  <2>2. From(s, s)
    BY DEF From
  <2>. QED  BY <1>2, <2>1, <2>2, SMTT(30)
<1>3. CASE Len(s) = MaxEntries
  <2>1. Evicted(s) = Tail(s) /\ s # <<>>
    BY <1>1, <1>3 DEF Evicted
  <2>2. /\ Tail(s) \in Seq(Entries) /\ Len(Tail(s)) = Len(s) - 1
        /\ \A i \in 1..Len(Tail(s)) : Tail(s)[i] = s[i + 1]
    BY <2>1, HeadTailProperties
  <2>3. DOMAIN Tail(s) = 1..(Len(s) - 1)
    BY <2>2, LenProperties
  <2>4. \A i \in 1..(Len(s) - 1) : i + 1 \in 1..Len(s) /\ Tail(s)[i] = s[i + 1]
    BY <1>1, <2>2
  <2>5. NoNameTwice(Tail(s))
    BY <1>1, <2>3, <2>4 DEF NoNameTwice
  <2>6. From(Tail(s), s)
    BY <1>1, <2>3, <2>4 DEF From
  <2>7. Len(Tail(s)) < MaxEntries
    BY <1>1, <1>3, <2>2, SMTT(30)
  <2>. QED  BY <2>1, <2>2, <2>5, <2>6, <2>7
<1>4. Len(s) < MaxEntries \/ Len(s) = MaxEntries
  BY <1>1, Smaller
<1>. QED  BY <1>2, <1>3, <1>4

LEMMA SetsEntry ==
  ASSUME NEW s \in Seq(Entries), NoNameTwice(s), NEW e \in Entries
  PROVE  /\ SetEntry(s, e) \in Seq(Entries) /\ Len(SetEntry(s, e)) <= Len(s) + 1
         /\ NoNameTwice(SetEntry(s, e))
         /\ \A j \in DOMAIN SetEntry(s, e) :
              SetEntry(s, e)[j] = e \/ \E i \in DOMAIN s : SetEntry(s, e)[j] = s[i]
<1>. DEFINE n == SelectInSeq(s, LAMBDA entry : KeyIs(entry, e.url))
            r == SetEntry(s, e)
<1>1. DOMAIN s = 1..Len(s) /\ Len(s) \in Nat
  BY LenProperties
<1>2. r = IF n = 0 THEN Append(s, e) ELSE ReplaceAt(s, n, e)
  BY DEF SetEntry
<1>3. /\ n = 0 => \A i \in DOMAIN s : s[i].url # e.url
      /\ n # 0 => n \in DOMAIN s /\ s[n].url = e.url
  BY PlaceIs
<1>. HIDE DEF n, r
<1>4. CASE n = 0
  <2>1. /\ r \in Seq(Entries) /\ Len(r) = Len(s) + 1
        /\ \A i \in 1..Len(s) : r[i] = s[i]
        /\ r[Len(s) + 1] = e
    BY <1>2, <1>4, AppendProperties
  <2>2. DOMAIN r = 1..(Len(s) + 1)
    BY <2>1, LenProperties
  <2>3. \A j \in DOMAIN r : j \in DOMAIN s \/ j = Len(s) + 1
    BY <1>1, <2>2
  <2>4. NoNameTwice(r)
    BY <1>1, <1>3, <1>4, <2>1, <2>3 DEF NoNameTwice
  <2>. QED  BY <1>1, <2>1, <2>3, <2>4 DEF r
<1>5. CASE n # 0
  <2>1. /\ r \in Seq(Entries) /\ Len(r) = Len(s)
        /\ \A j \in 1..Len(s) : r[j] = IF j = n THEN e ELSE s[j]
    BY <1>1, <1>2, <1>3, <1>5, ExceptSeq DEF ReplaceAt
  <2>2. DOMAIN r = DOMAIN s
    BY <1>1, <2>1, LenProperties
  <2>3. NoNameTwice(r)
    BY <1>1, <1>3, <1>5, <2>1, <2>2 DEF NoNameTwice
  <2>. QED  BY <1>1, <2>1, <2>2, <2>3 DEF r
<1>. QED  BY <1>4, <1>5

LEMMA LookupInitIsSound == LookupInit => LookupIInv
<1>. SUFFICES ASSUME LookupInit  PROVE  LookupIInv
  OBVIOUS
<1>1. cache = <<>> /\ Len(cache) = 0 /\ DOMAIN cache = {} /\ cache \in Seq(Entries)
  BY EmptySeq, LenProperties DEF LookupInit
<1>2. LookupTypeOK
  BY <1>1, LookupAssumption DEF LookupInit, LookupTypeOK
<1>. QED
  BY <1>1, <1>2, LookupAssumption DEF LookupIInv, LookupInit, NoNameTwice

\* An entry stays sound while time passes and names move.
LEMMA MovesKeepSound ==
  ASSUME LookupIInv,
         \/ LookupTick
         \/ \E name \in Aliases, to \in Providers \union {NoLsp} : NameMoves(name, to)
  PROVE  /\ second' \in Nat /\ second <= second'
         /\ \A na \in Aliases \X Providers : lost'[na] \in Nat /\ lost'[na] <= second' /\ lost'[na] >= lost[na]
         /\ \A name \in Aliases, to \in Providers :
              nameOf[name] = to => nameOf'[name] = to \/ lost'[<<name, to>>] = second
<1>1. CASE LookupTick
  BY <1>1 DEF LookupTick, LookupIInv, LookupTypeOK
<1>2. ASSUME NEW name \in Aliases, NEW to \in Providers \union {NoLsp}, NameMoves(name, to)
      PROVE  /\ second' \in Nat /\ second <= second'
             /\ \A na \in Aliases \X Providers : lost'[na] \in Nat /\ lost'[na] <= second' /\ lost'[na] >= lost[na]
             /\ \A n \in Aliases, l \in Providers :
                  nameOf[n] = l => nameOf'[n] = l \/ lost'[<<n, l>>] = second
  <2>1. second \in Nat /\ second' = second
    BY <1>2 DEF NameMoves, LookupIInv, LookupTypeOK
  <2>2. \A na \in Aliases \X Providers : lost[na] \in Nat /\ lost[na] <= second
    BY DEF LookupIInv, LookupTypeOK
  <2>3. \A na \in Aliases \X Providers :
          lost'[na] = IF na = <<name, nameOf[name]>> THEN second ELSE lost[na]
    BY <1>2 DEF NameMoves, LookupIInv, LookupTypeOK
  <2>4. ASSUME NEW n \in Aliases, NEW l \in Providers, nameOf[n] = l
        PROVE  nameOf'[n] = l \/ lost'[<<n, l>>] = second
    <3>1. CASE n = name
      BY <2>3, <2>4, <3>1
    <3>2. CASE n # name
      BY <1>2, <2>4, <3>2 DEF NameMoves, LookupIInv, LookupTypeOK
    <3>. QED  BY <3>1, <3>2
  <2>. QED  BY <2>1, <2>2, <2>3, <2>4
<1>. QED  BY <1>1, <1>2

LEMMA LookupMoves ==
  ASSUME LookupIInv,
         \/ LookupTick
         \/ \E name \in Aliases, to \in Providers \union {NoLsp} : NameMoves(name, to)
  PROVE  LookupIInv'
<1>1. UNCHANGED <<lspOf, cache, look>>
  BY DEF LookupTick, NameMoves
<1>2. /\ second' \in Nat /\ second \in Nat /\ second <= second' /\ MaxAge \in Nat
      /\ \A na \in Aliases \X Providers : lost'[na] \in Nat /\ lost'[na] <= second' /\ lost'[na] >= lost[na]
      /\ \A name \in Aliases, to \in Providers :
           nameOf[name] = to => nameOf'[name] = to \/ lost'[<<name, to>>] = second
      /\ \A na \in Aliases \X Providers : lost[na] \in Nat
  BY MovesKeepSound, LookupAssumption DEF LookupIInv, LookupTypeOK
<1>3. LookupTypeOK'
  <2>1. CASE LookupTick
    BY <1>1, <2>1, LookupAssumption DEF LookupTick, LookupIInv, LookupTypeOK
  <2>2. ASSUME NEW name \in Aliases, NEW to \in Providers \union {NoLsp}, NameMoves(name, to)
        PROVE  LookupTypeOK'
    <3>1. /\ nameOf' \in [Aliases -> Providers \union {NoLsp}] /\ moves' \in 0..MaxMoves
          /\ lost' \in [Aliases \X Providers -> 0..LookupTime]
      BY <2>2, LookupAssumption DEF NameMoves, LookupIInv, LookupTypeOK
    <3>. QED  BY <1>1, <2>2, <3>1 DEF NameMoves, LookupIInv, LookupTypeOK
  <2>. QED  BY <2>1, <2>2
<1>4. ASSUME NEW i \in DOMAIN cache  PROVE  EntryIsSound(cache[i])'
  <2>1. cache[i] \in Entries /\ EntryIsSound(cache[i])
    BY LenProperties, ElementOfSeq DEF LookupIInv, LookupTypeOK
  <2>2. PICK e \in Entries : e = cache[i]
    BY <2>1
  <2>3. e.url \in Aliases /\ e.lsp \in Providers /\ e.exp \in Nat /\ e.took \in Nat
    BY DEF Entries
  <2>4. <<e.url, e.lsp>> \in Aliases \X Providers
    BY <2>3
  <2>5. CASE nameOf[e.url] = e.lsp
    BY <1>1, <1>2, <2>1, <2>2, <2>3, <2>4, <2>5 DEF EntryIsSound
  <2>6. CASE lost[<<e.url, e.lsp>>] + MaxAge + e.took >= e.exp
    <3>1. lost'[<<e.url, e.lsp>>] >= lost[<<e.url, e.lsp>>] /\ lost'[<<e.url, e.lsp>>] \in Nat
          /\ lost[<<e.url, e.lsp>>] \in Nat
      BY <1>2, <2>4
    <3>2. lost'[<<e.url, e.lsp>>] + MaxAge + e.took >= e.exp /\ e.exp <= second' + MaxAge
      BY <1>2, <2>1, <2>2, <2>3, <2>6, <3>1 DEF EntryIsSound
    <3>. QED  BY <1>1, <2>2, <3>2 DEF EntryIsSound
  <2>. QED  BY <2>1, <2>2, <2>5, <2>6 DEF EntryIsSound
<1>5. ASSUME NEW p \in Lookups, look[p] # NoLsp  PROVE  LookIsSound(look[p])'
  <2>1. look[p] \in LookCalls /\ LookIsSound(look[p])
    BY <1>5 DEF LookupIInv, LookupTypeOK
  <2>2. PICK q \in LookCalls : q = look[p]
    BY <2>1
  <2>3. q.name \in Aliases /\ q.since \in Nat /\ q.since <= second
    BY <2>1, <2>2 DEF LookCalls, LookIsSound
  <2>4. CASE q.stage = "name"
    BY <1>1, <1>2, <2>2, <2>3, <2>4 DEF LookIsSound
  <2>5. CASE q.stage # "name"
    <3>1. q.lsp \in Providers /\ Held(q.name, q.lsp, q.since)
      BY <2>1, <2>2, <2>5 DEF LookIsSound
    <3>2. <<q.name, q.lsp>> \in Aliases \X Providers
      BY <2>3, <3>1
    <3>3. /\ lost'[<<q.name, q.lsp>>] >= lost[<<q.name, q.lsp>>] /\ lost'[<<q.name, q.lsp>>] \in Nat
          /\ lost[<<q.name, q.lsp>>] \in Nat
      BY <1>2, <3>2
    <3>4. nameOf'[q.name] = q.lsp \/ lost'[<<q.name, q.lsp>>] >= q.since
      BY <1>2, <2>3, <3>1, <3>3 DEF Held
    <3>. QED  BY <1>1, <1>2, <2>2, <2>3, <3>1, <3>4 DEF LookIsSound, Held
  <2>. QED  BY <2>4, <2>5
<1>. QED
  BY <1>1, <1>2, <1>3, <1>4, <1>5 DEF LookupIInv, NoNameTwice

\* Entries that were sound are sound as long as names and time stand still.
LEMMA StillSound ==
  ASSUME LookupIInv, UNCHANGED <<nameOf, second, lost>>, UNCHANGED cache \/ From(cache', cache)
  PROVE  (\A i \in DOMAIN cache : EntryIsSound(cache[i]))'
<1>1. \A i \in DOMAIN cache' : \E j \in DOMAIN cache : cache'[i] = cache[j]
  BY DEF From
<1>2. \A j \in DOMAIN cache : EntryIsSound(cache[j])
  BY DEF LookupIInv
<1>. QED  BY <1>1, <1>2 DEF EntryIsSound

LEMMA LookupMisses ==
  ASSUME LookupIInv, NEW p \in Lookups, NEW name \in Aliases, Miss(p, name)
  PROVE  LookupIInv'
<1>1. UNCHANGED <<nameOf, lspOf, second, moves, lost>>
  BY DEF Miss
<1>2. /\ cache \in Seq(Entries) /\ NoNameTwice(cache) /\ Len(cache) <= MaxEntries /\ LookupTypeOK
      /\ Len(cache) \in Nat /\ MaxEntries \in Nat
  BY LenProperties, LookupAssumption DEF LookupIInv, LookupTypeOK
<1>3. /\ cache' \in Seq(Entries) /\ Len(cache') <= MaxEntries /\ NoNameTwice(cache')
      /\ UNCHANGED cache \/ From(cache', cache)
  <2>1. CASE Find(name) = 0
    BY <1>2, <2>1 DEF Miss
  <2>2. CASE Find(name) # 0
    <3>1. Find(name) \in DOMAIN cache
      BY <1>2, <2>2, FindIs
    <3>2. cache' = RemoveAt(cache, Find(name))
      BY <2>2 DEF Miss
    <3>3. /\ RemoveAt(cache, Find(name)) \in Seq(Entries)
          /\ Len(RemoveAt(cache, Find(name))) = Len(cache) - 1
          /\ NoNameTwice(RemoveAt(cache, Find(name))) /\ From(RemoveAt(cache, Find(name)), cache)
      BY <1>2, <3>1, Removed
    <3>. QED  BY <1>2, <3>2, <3>3
  <2>. QED  BY <2>1, <2>2
<1>. DEFINE q == [name |-> name, stage |-> "name", lsp |-> NoLsp, since |-> second]
<1>4. q \in LookCalls /\ q # NoLsp => q.stage = "name" /\ q.since <= second
  BY <1>2 DEF LookCalls, LookupTypeOK
<1>5. q \in LookCalls
  BY <1>2 DEF LookCalls, LookupTypeOK
<1>6. look' = [look EXCEPT ![p] = q] /\ look \in [Lookups -> LookCalls \union {NoLsp}]
  BY <1>2 DEF Miss, LookupTypeOK
<1>. HIDE DEF q
<1>7. LookupTypeOK'
  BY <1>1, <1>2, <1>3, <1>5, <1>6 DEF LookupTypeOK
<1>8. ASSUME NEW r \in Lookups, look'[r] # NoLsp  PROVE  LookIsSound(look[r])'
  BY <1>1, <1>4, <1>5, <1>6, <1>8 DEF LookIsSound, LookupIInv, Held
<1>. QED
  BY <1>1, <1>3, <1>7, <1>8, StillSound DEF LookupIInv

\* A lookup that reads a record, asks the LSP or ends.
LEMMA LookupReads ==
  ASSUME LookupIInv, NEW p \in Lookups, ReadsName(p) \/ ReadsLsp(p) \/ Fetches(p)
  PROVE  LookupIInv'
<1>1. UNCHANGED <<nameOf, lspOf, cache, second, moves, lost>>
  BY DEF ReadsName, ReadsLsp, Fetches
<1>2. LookupTypeOK /\ look[p] \in LookCalls /\ LookIsSound(look[p]) /\ look[p] # NoLsp
  BY DEF ReadsName, ReadsLsp, Fetches, LookAt, LookupIInv, LookupTypeOK
<1>3. PICK q \in LookCalls : q = look[p]
  BY <1>2
<1>4. PICK r \in LookCalls \union {NoLsp} :
        look' = [look EXCEPT ![p] = r] /\ (r # NoLsp => r \in LookCalls /\ LookIsSound(r))
  <2>1. CASE LookEnds(p)
    BY <2>1 DEF LookEnds
  <2>2. CASE look' = [look EXCEPT ![p].lsp = nameOf[q.name], ![p].stage = "lsp", ![p].since = second]
             /\ nameOf[q.name] # NoLsp
    <3>. DEFINE r == [q EXCEPT !.lsp = nameOf[q.name], !.stage = "lsp", !.since = second]
    <3>2. nameOf[q.name] \in Providers /\ second \in Nat
      BY <1>2, <2>2, LookupAssumption DEF LookCalls, LookupTypeOK
    <3>1. r \in LookCalls /\ r.name = q.name /\ r.stage = "lsp" /\ r.lsp = nameOf[q.name] /\ r.since = second
      BY <3>2 DEF LookCalls
    <3>3. look' = [look EXCEPT ![p] = r]
      BY <1>2, <1>3, <2>2 DEF LookupTypeOK
    <3>. HIDE DEF r
    <3>4. LookIsSound(r)
      BY <3>1, <3>2 DEF LookIsSound, Held
    <3>. QED  BY <3>1, <3>3, <3>4
  <2>3. ASSUME NEW stage \in {"fetch", "put"}, q.stage # "name", look' = [look EXCEPT ![p].stage = stage]
        PROVE  \E r \in LookCalls \union {NoLsp} :
                 look' = [look EXCEPT ![p] = r] /\ (r # NoLsp => r \in LookCalls /\ LookIsSound(r))
    <3>. DEFINE r == [q EXCEPT !.stage = stage]
    <3>1. r \in LookCalls /\ r.name = q.name /\ r.stage # "name" /\ r.lsp = q.lsp /\ r.since = q.since
      BY DEF LookCalls
    <3>2. look' = [look EXCEPT ![p] = r]
      BY <1>2, <1>3, <2>3 DEF LookupTypeOK
    <3>. HIDE DEF r
    <3>3. LookIsSound(r)
      BY <1>2, <1>3, <2>3, <3>1 DEF LookIsSound
    <3>. QED  BY <3>1, <3>2, <3>3
  <2>4. CASE ReadsName(p)
    BY <1>3, <2>1, <2>2, <2>4 DEF ReadsName
  <2>5. CASE ReadsLsp(p) \/ Fetches(p)
    BY <1>3, <2>1, <2>3, <2>5 DEF ReadsLsp, Fetches, LookAt
  <2>. QED  BY <2>4, <2>5
<1>5. LookupTypeOK'
  BY <1>1, <1>2, <1>4 DEF LookupTypeOK
<1>6. ASSUME NEW o \in Lookups, look'[o] # NoLsp  PROVE  LookIsSound(look[o])'
  BY <1>1, <1>2, <1>4, <1>6 DEF LookIsSound, LookupIInv, LookupTypeOK, Held
<1>. QED
  BY <1>1, <1>5, <1>6, StillSound DEF LookupIInv, NoNameTwice

LEMMA LookupKeeps ==
  ASSUME LookupIInv, NEW p \in Lookups, Keeps(p)
  PROVE  LookupIInv'
<1>1. UNCHANGED <<nameOf, lspOf, second, moves, lost>> /\ look' = [look EXCEPT ![p] = NoLsp]
  BY DEF Keeps, LookEnds
<1>2. /\ cache \in Seq(Entries) /\ NoNameTwice(cache) /\ Len(cache) <= MaxEntries /\ LookupTypeOK
      /\ Len(cache) \in Nat /\ MaxEntries \in Nat /\ MaxAge \in Nat /\ second \in Nat
  BY LenProperties, LookupAssumption DEF LookupIInv, LookupTypeOK
<1>3. PICK q \in LookCalls : q = look[p] /\ LookIsSound(q) /\ q.stage = "put"
  BY DEF Keeps, LookAt, LookupIInv, LookupTypeOK
<1>4. q.name \in Aliases /\ q.lsp \in Providers /\ q.since \in Nat /\ q.since <= second /\ Held(q.name, q.lsp, q.since)
  BY <1>3 DEF LookCalls, LookIsSound
<1>. DEFINE e == [url |-> q.name, lsp |-> q.lsp, exp |-> second + MaxAge, took |-> second - q.since]
            s == Evicted(cache)
<1>5. e \in Entries
  BY <1>2, <1>4 DEF Entries
<1>6. EntryIsSound(e)
  <2>1. CASE nameOf[q.name] = q.lsp
    BY <1>2, <2>1 DEF EntryIsSound
  <2>2. CASE lost[<<q.name, q.lsp>>] >= q.since
    <3>1. <<q.name, q.lsp>> \in Aliases \X Providers
      BY <1>4
    <3>2. lost[<<q.name, q.lsp>>] \in Nat
      BY <1>2, <3>1, LookupAssumption DEF LookupTypeOK
    <3>3. lost[<<q.name, q.lsp>>] + MaxAge + (second - q.since) >= second + MaxAge
      BY <1>2, <1>4, <2>2, <3>2
    <3>. QED  BY <1>2, <3>3 DEF EntryIsSound
  <2>. QED  BY <1>4, <2>1, <2>2 DEF Held
<1>7. cache' = SetEntry(s, e)
  BY <1>3 DEF Keeps
<1>8. s \in Seq(Entries) /\ Len(s) < MaxEntries /\ NoNameTwice(s) /\ From(s, cache)
  BY <1>2, Evicts
<1>. HIDE DEF e, s
<1>9. /\ cache' \in Seq(Entries) /\ Len(cache') <= Len(s) + 1 /\ NoNameTwice(cache')
      /\ \A j \in DOMAIN cache' : cache'[j] = e \/ \E i \in DOMAIN s : cache'[j] = s[i]
  BY <1>5, <1>7, <1>8, SetsEntry
<1>10. Len(cache') <= MaxEntries
  <2>1. Len(s) \in Nat /\ Len(cache') \in Nat
    BY <1>8, <1>9, LenProperties
  <2>. QED  BY <1>2, <1>8, <1>9, <2>1
<1>11. \A j \in DOMAIN cache' : cache'[j] = e \/ \E i \in DOMAIN cache : cache'[j] = cache[i]
  BY <1>8, <1>9 DEF From
<1>12. (\A j \in DOMAIN cache : EntryIsSound(cache[j]))'
  <2>1. \A j \in DOMAIN cache : EntryIsSound(cache[j])
    BY DEF LookupIInv
  <2>. QED  BY <1>1, <1>6, <1>11, <2>1 DEF EntryIsSound
<1>13. LookupTypeOK'
  BY <1>1, <1>2, <1>9 DEF LookupTypeOK
<1>14. ASSUME NEW o \in Lookups, look'[o] # NoLsp  PROVE  LookIsSound(look[o])'
  BY <1>1, <1>2, <1>14 DEF LookIsSound, LookupIInv, LookupTypeOK, Held
<1>. QED
  BY <1>1, <1>9, <1>10, <1>12, <1>13, <1>14 DEF LookupIInv

LEMMA LookupStep == LookupIInv /\ [LookupNext]_lookupVars => LookupIInv'
<1>. SUFFICES ASSUME LookupIInv, [LookupNext]_lookupVars  PROVE  LookupIInv'
  OBVIOUS
<1>1. CASE \E p \in Lookups : \E name \in Aliases : Miss(p, name)
  BY <1>1, LookupMisses
<1>2. CASE \E p \in Lookups : ReadsName(p) \/ ReadsLsp(p) \/ Fetches(p)
  BY <1>2, LookupReads
<1>3. CASE \E p \in Lookups : Keeps(p)
  BY <1>3, LookupKeeps
<1>4. CASE LookupTick \/ \E name \in Aliases, to \in Providers \union {NoLsp} : NameMoves(name, to)
  BY <1>4, LookupMoves
<1>5. CASE (\E to \in Providers : LspDeparts(to)) \/ UNCHANGED lookupVars
  <2>1. /\ UNCHANGED <<nameOf, cache, look, second, lost>>
        /\ lspOf' \subseteq lspOf /\ moves' \in {moves, moves + 1} /\ (moves' = moves \/ moves < MaxMoves)
    BY <1>5 DEF LspDeparts, lookupVars
  <2>2. LookupTypeOK'
    <3>1. MaxMoves \in Nat /\ moves' \in 0..MaxMoves
      BY <2>1, LookupAssumption DEF LookupIInv, LookupTypeOK
    <3>. QED  BY <2>1, <3>1 DEF LookupIInv, LookupTypeOK
  <2>. QED  BY <2>1, <2>2 DEF LookupIInv, NoNameTwice, EntryIsSound, LookIsSound, Held
<1>. QED  BY <1>1, <1>2, <1>3, <1>4, <1>5 DEF LookupNext

\* What the lookup keeps at each await and in its memory has its type.
THEOREM LookupTypeCorrect == LookupSpec => []LookupTypeOK
<1>1. LookupIInv => LookupTypeOK
  BY DEF LookupIInv
<1>. QED  BY <1>1, LookupInitIsSound, LookupStep, PTL DEF LookupSpec

\* However lookups overlap, with names that move and LSPs that depart in between, the memory never
\* answers with an LSP that had given the name up for longer than its entries live and the lookup took.
THEOREM MemoryIsRecent == LookupSpec => []LookupIsRecent
<1>1. LookupIInv => LookupIsRecent
  <2>. SUFFICES ASSUME LookupIInv, NEW name \in Aliases, Find(name) # 0, Live(cache[Find(name)])
                PROVE  \/ nameOf[name] = cache[Find(name)].lsp
                       \/ lost[<<name, cache[Find(name)].lsp>>] + MaxAge + cache[Find(name)].took > second
    BY DEF LookupIsRecent
  <2>. DEFINE i == Find(name)
  <2>1. i \in DOMAIN cache /\ cache[i].url = name /\ cache[i] \in Entries /\ EntryIsSound(cache[i])
    BY FindIs, LenProperties, ElementOfSeq DEF LookupIInv, LookupTypeOK
  <2>2. PICK e \in Entries : e = cache[i]
    BY <2>1
  <2>. HIDE DEF i
  <2>3. e.exp > second /\ e.url = name
    BY <2>1, <2>2 DEF Live, i
  <2>4. <<name, e.lsp>> \in Aliases \X Providers /\ e.exp \in Nat /\ e.took \in Nat
    BY DEF Entries
  <2>5. lost[<<name, e.lsp>>] \in Nat /\ second \in Nat /\ MaxAge \in Nat
    BY <2>4, LookupAssumption DEF LookupIInv, LookupTypeOK
  <2>6. nameOf[name] = e.lsp \/ lost[<<name, e.lsp>>] + MaxAge + e.took >= e.exp
    BY <2>1, <2>2, <2>3 DEF EntryIsSound
  <2>7. nameOf[name] = e.lsp \/ lost[<<name, e.lsp>>] + MaxAge + e.took > second
    BY <2>3, <2>4, <2>5, <2>6
  <2>. QED  BY <2>2, <2>7 DEF i
<1>. QED  BY <1>1, LookupInitIsSound, LookupStep, PTL DEF LookupSpec

\* However many puts overlap, the memory stays within its limit and keeps one entry a name.
THEOREM MemoryStaysBounded == LookupSpec => []MemoryIsBounded
<1>1. LookupIInv => MemoryIsBounded
  BY DEF LookupIInv, MemoryIsBounded, NoNameTwice, KeyIs
<1>. QED  BY <1>1, LookupInitIsSound, LookupStep, PTL DEF LookupSpec

-----------------------------------------------------------------------------
(* Limiter.                                                                *)

\* Of the times of a caller's calls that were let through: those since s, those before s that are
\* less than a period away from it, and those in the period that begins at t.
Since(times, s) == {j \in DOMAIN times : times[j] >= s}
NotLong(times, s) == {j \in DOMAIN times : times[j] < s /\ s < times[j] + Period}
During(times, t) == {j \in DOMAIN times : times[j] \in t..(t + Period - 1)}

\* A window counts all calls since its start, up to the limit; it began with one that was let through;
\* fewer than the limit of those before it are less than a period away.
WindowIsSound(a) ==
  LET w == windows[a] IN
  /\ Cardinality(Since(passed[a], w.start)) = IF w.n < Limit THEN w.n ELSE Limit
  /\ \E j \in DOMAIN passed[a] : passed[a][j] = w.start
  /\ Cardinality(NotLong(passed[a], w.start)) < Limit
  /\ Finished(w) => \A j \in DOMAIN passed[a] : passed[a][j] < tick

\* A caller without a window may begin one now.
NoWindowIsSound(a) ==
  /\ \A j \in DOMAIN passed[a] : passed[a][j] < tick
  /\ Cardinality(NotLong(passed[a], tick)) < Limit

PeriodsHold(times) == \A i \in DOMAIN times : Cardinality(During(times, times[i])) < 2 * Limit

LimiterIInv ==
  /\ LimiterTypeOK
  /\ \A a \in DOMAIN windows : windows[a] \in [start : Nat, n : Nat] /\ windows[a].n <= calls /\ WindowIsSound(a)
  /\ \A a \in Addresses \ DOMAIN windows : NoWindowIsSound(a)
  /\ \A a \in Addresses : PeriodsHold(passed[a]) /\ \A j \in DOMAIN passed[a] : passed[a][j] <= tick

\* The sets are finite and their sizes compare as they do.
LEMMA Sizes ==
  ASSUME NEW times \in Seq(Nat), NEW S \in SUBSET (DOMAIN times)
  PROVE  /\ IsFiniteSet(S) /\ Cardinality(S) \in Nat
         /\ \A T \in SUBSET S : IsFiniteSet(T) /\ Cardinality(T) \in Nat /\ Cardinality(T) <= Cardinality(S)
<1>1. DOMAIN times = 1..Len(times) /\ Len(times) \in Nat
  BY LenProperties
<1>2. IsFiniteSet(DOMAIN times)
  BY <1>1, FS_Interval
<1>3. IsFiniteSet(S)
  BY <1>2, FS_Subset
<1>. QED  BY <1>3, FS_Subset, FS_CardinalityType

\* When a period has passed since a window's start, fewer than the limit of all calls so far are less
\* than a period away: the call the window began with is one of those it counts.
LEMMA FewReachOver ==
  ASSUME NEW times \in Seq(Nat), NEW s \in Nat, NEW t \in Nat, t >= s + Period,
         Cardinality(Since(times, s)) <= Limit, \E j \in DOMAIN times : times[j] = s
  PROVE  Cardinality(NotLong(times, t)) < Limit
<1>1. PICK j \in DOMAIN times : times[j] = s
  OBVIOUS
<1>2. Period \in Nat /\ Limit \in Nat
  BY LimiterAssumption
<1>3. \A i \in DOMAIN times : times[i] \in Nat
  BY LenProperties, ElementOfSeq
<1>4. j \in Since(times, s) /\ NotLong(times, t) \subseteq Since(times, s) \ {j}
  BY <1>1, <1>2, <1>3 DEF Since, NotLong
<1>5. /\ IsFiniteSet(Since(times, s)) /\ Cardinality(Since(times, s)) \in Nat
  BY Sizes DEF Since
<1>6. /\ IsFiniteSet(Since(times, s) \ {j})
      /\ Cardinality(Since(times, s) \ {j}) = Cardinality(Since(times, s)) - 1
  BY <1>4, <1>5, FS_RemoveElement
<1>7. Cardinality(NotLong(times, t)) <= Cardinality(Since(times, s) \ {j}) /\ Cardinality(NotLong(times, t)) \in Nat
  BY <1>4, <1>6, FS_Subset, FS_CardinalityType
<1>. QED  BY <1>2, <1>5, <1>6, <1>7

\* One more call takes the place after the last.
LEMMA OneMore ==
  ASSUME NEW times \in Seq(Nat), NEW t \in Nat
  PROVE  /\ Append(times, t) \in Seq(Nat) /\ Len(times) + 1 \notin DOMAIN times
         /\ DOMAIN Append(times, t) = DOMAIN times \union {Len(times) + 1}
         /\ Append(times, t)[Len(times) + 1] = t
         /\ \A j \in DOMAIN times : Append(times, t)[j] = times[j]
<1>1. DOMAIN times = 1..Len(times) /\ Len(times) \in Nat
  BY LenProperties
<1>2. /\ Append(times, t) \in Seq(Nat) /\ Len(Append(times, t)) = Len(times) + 1
      /\ \A i \in 1..Len(times) : Append(times, t)[i] = times[i]
      /\ Append(times, t)[Len(times) + 1] = t
  BY AppendProperties
<1>3. DOMAIN Append(times, t) = 1..(Len(times) + 1)
  BY <1>2, LenProperties
<1>. QED  BY <1>1, <1>2, <1>3

\* What it adds to the sets of a window that is not of the future, or to a period.
LEMMA OneMoreCounts ==
  ASSUME NEW times \in Seq(Nat), NEW t \in Nat, NEW s \in Nat, s <= t, \A j \in DOMAIN times : times[j] <= t
  PROVE  /\ Since(Append(times, t), s) = Since(times, s) \union {Len(times) + 1}
         /\ NotLong(Append(times, t), s) = NotLong(times, s)
         /\ Len(times) + 1 \notin Since(times, s) /\ Len(times) + 1 \notin NotLong(times, s)
<1>1. t >= s /\ ~(t < s)
  OBVIOUS
<1>. QED  BY <1>1, OneMore DEF Since, NotLong

LEMMA PeriodNotYet ==
  ASSUME NEW times \in Seq(Nat), NEW t \in Nat, NEW u, t \notin u..(u + Period - 1)
  PROVE  During(Append(times, t), u) = During(times, u)
BY OneMore DEF During

\* If every period that the new call belongs to stays below twice the limit, all do.
LEMMA PeriodsGoOn ==
  ASSUME NEW times \in Seq(Nat), NEW t \in Nat, PeriodsHold(times),
         \A i \in DOMAIN Append(times, t) : t \in Append(times, t)[i]..(Append(times, t)[i] + Period - 1) =>
           Cardinality(During(Append(times, t), Append(times, t)[i])) < 2 * Limit
  PROVE  PeriodsHold(Append(times, t))
<1>. DEFINE more == Append(times, t)
<1>1. /\ DOMAIN more = DOMAIN times \union {Len(times) + 1} /\ more[Len(times) + 1] = t
      /\ \A j \in DOMAIN times : more[j] = times[j]
  BY OneMore
<1>2. t \in t..(t + Period - 1)
  BY LimiterAssumption
<1>3. \A i \in DOMAIN times : t \notin times[i]..(times[i] + Period - 1) => During(more, times[i]) = During(times, times[i])
  BY PeriodNotYet
<1>4. \A i \in DOMAIN times : Cardinality(During(times, times[i])) < 2 * Limit
  BY DEF PeriodsHold
<1>5. \A i \in DOMAIN more : t \in more[i]..(more[i] + Period - 1) => Cardinality(During(more, more[i])) < 2 * Limit
  OBVIOUS
<1>. HIDE DEF more
<1>. QED  BY <1>1, <1>2, <1>3, <1>4, <1>5 DEF PeriodsHold, more

\* A call that begins a window: it is the one the window counts, and no period gets to the limit twice.
LEMMA BeginsWindow ==
  ASSUME NEW times \in Seq(Nat), NEW t \in Nat,
         \A j \in DOMAIN times : times[j] < t, Cardinality(NotLong(times, t)) < Limit, PeriodsHold(times)
  PROVE  /\ Cardinality(Since(Append(times, t), t)) = 1
         /\ \E j \in DOMAIN Append(times, t) : Append(times, t)[j] = t
         /\ Cardinality(NotLong(Append(times, t), t)) < Limit /\ PeriodsHold(Append(times, t))
<1>. DEFINE more == Append(times, t)
            last == Len(times) + 1
<1>1. \A j \in DOMAIN times : times[j] \in Nat /\ times[j] <= t /\ ~(times[j] >= t)
  BY LenProperties, ElementOfSeq
<1>2. /\ more \in Seq(Nat) /\ DOMAIN more = DOMAIN times \union {last} /\ last \notin DOMAIN times
      /\ more[last] = t /\ \A j \in DOMAIN times : more[j] = times[j]
  BY OneMore
<1>3. /\ Since(more, t) = Since(times, t) \union {last} /\ NotLong(more, t) = NotLong(times, t)
      /\ last \notin NotLong(times, t)
  BY <1>1, OneMoreCounts
<1>4. Period \in Nat /\ Limit \in Nat /\ Period >= 1 /\ Limit >= 1
  BY LimiterAssumption
<1>5. Since(times, t) = {}
  BY <1>1 DEF Since
<1>6. IsFiniteSet(NotLong(times, t)) /\ Cardinality(NotLong(times, t)) \in Nat
  BY Sizes DEF NotLong
<1>. HIDE DEF more, last
<1>7. /\ IsFiniteSet(NotLong(times, t) \union {last})
      /\ Cardinality(NotLong(times, t) \union {last}) = Cardinality(NotLong(times, t)) + 1
  BY <1>3, <1>6, FS_AddElement
<1>8. ASSUME NEW i \in DOMAIN more, t \in more[i]..(more[i] + Period - 1)
      PROVE  Cardinality(During(more, more[i])) < 2 * Limit
  <2>1. During(more, more[i]) \subseteq NotLong(times, t) \union {last}
    <3>. SUFFICES ASSUME NEW j \in During(more, more[i]), j # last  PROVE  j \in NotLong(times, t)
      OBVIOUS
    <3>1. j \in DOMAIN times /\ times[j] \in more[i]..(more[i] + Period - 1) /\ more[i] \in Nat
      BY <1>1, <1>2 DEF During
    <3>2. times[j] \in Nat /\ times[j] < t
      BY <1>1, <3>1
    <3>3. t < times[j] + Period
      BY <1>4, <1>8, <3>1, <3>2
    <3>. QED  BY <3>1, <3>2, <3>3 DEF NotLong
  <2>2. /\ Cardinality(During(more, more[i])) <= Cardinality(NotLong(times, t) \union {last})
        /\ Cardinality(During(more, more[i])) \in Nat
    BY <1>7, <2>1, FS_Subset, FS_CardinalityType
  <2>. QED  BY <1>4, <1>6, <1>7, <2>2
<1>9. PeriodsHold(more)
  BY <1>8, PeriodsGoOn DEF more
<1>10. Cardinality(Since(more, t)) = 1
  <2>1. Since(more, t) = {last}
    BY <1>3, <1>5
  <2>. QED  BY <2>1, FS_Singleton
<1>. QED  BY <1>2, <1>3, <1>9, <1>10 DEF more

\* A call let through in a running window is counted by it, and no period gets to the limit twice.
LEMMA StaysInWindow ==
  ASSUME NEW times \in Seq(Nat), NEW t \in Nat, NEW s \in Nat,
         s <= t, t < s + Period, \A j \in DOMAIN times : times[j] <= t,
         Cardinality(Since(times, s)) < Limit, Cardinality(NotLong(times, s)) < Limit, PeriodsHold(times)
  PROVE  /\ Cardinality(Since(Append(times, t), s)) = Cardinality(Since(times, s)) + 1
         /\ NotLong(Append(times, t), s) = NotLong(times, s) /\ PeriodsHold(Append(times, t))
<1>. DEFINE more == Append(times, t)
            last == Len(times) + 1
<1>1. \A j \in DOMAIN times : times[j] \in Nat
  BY LenProperties, ElementOfSeq
<1>2. /\ more \in Seq(Nat) /\ DOMAIN more = DOMAIN times \union {last}
      /\ more[last] = t /\ \A j \in DOMAIN times : more[j] = times[j]
  BY OneMore
<1>3. /\ Since(more, s) = Since(times, s) \union {last} /\ NotLong(more, s) = NotLong(times, s)
      /\ last \notin Since(times, s)
  BY OneMoreCounts
<1>4. Period \in Nat /\ Limit \in Nat /\ Period >= 1 /\ Limit >= 1
  BY LimiterAssumption
<1>5. IsFiniteSet(Since(times, s)) /\ Cardinality(Since(times, s)) \in Nat
  BY Sizes DEF Since
<1>6. IsFiniteSet(NotLong(times, s)) /\ Cardinality(NotLong(times, s)) \in Nat
  BY Sizes DEF NotLong
<1>. HIDE DEF more, last
<1>7. /\ IsFiniteSet(Since(times, s) \union {last})
      /\ Cardinality(Since(times, s) \union {last}) = Cardinality(Since(times, s)) + 1
  BY <1>3, <1>5, FS_AddElement
<1>. DEFINE S == Since(more, s)
            N == NotLong(times, s)
<1>8. IsFiniteSet(S) /\ Cardinality(S) = Cardinality(Since(times, s)) + 1 /\ Cardinality(S) \in Nat
  BY <1>3, <1>5, <1>7
<1>9. IsFiniteSet(S \union N) /\ Cardinality(S \union N) <= Cardinality(S) + Cardinality(N) /\ Cardinality(S \union N) \in Nat
  <2>. HIDE DEF S, N
  <2>1. IsFiniteSet(N) /\ Cardinality(N) \in Nat
    BY <1>6 DEF N
  <2>2. /\ IsFiniteSet(S \union N)
        /\ Cardinality(S \union N) = Cardinality(S) + Cardinality(N) - Cardinality(S \cap N)
    BY <1>8, <2>1, FS_Union
  <2>3. IsFiniteSet(S \cap N)
    BY <1>8, FS_Subset
  <2>4. Cardinality(S \cap N) \in Nat /\ Cardinality(S \union N) \in Nat
    BY <2>2, <2>3, FS_CardinalityType
  <2>. QED  BY <1>8, <2>1, <2>2, <2>4
<1>10. ASSUME NEW i \in DOMAIN more, t \in more[i]..(more[i] + Period - 1)
       PROVE  Cardinality(During(more, more[i])) < 2 * Limit
  <2>1. During(more, more[i]) \subseteq S \union N
    <3>. SUFFICES ASSUME NEW j \in During(more, more[i])  PROVE  j \in Since(more, s) \union NotLong(more, s)
      BY <1>3
    <3>1. j \in DOMAIN more /\ more[j] \in more[i]..(more[i] + Period - 1) /\ more[i] \in Nat /\ more[j] \in Nat
      BY <1>1, <1>2 DEF During
    <3>2. s < more[j] + Period
      BY <1>4, <1>10, <3>1
    <3>3. more[j] >= s \/ more[j] < s
      BY <3>1
    <3>. QED  BY <3>1, <3>2, <3>3 DEF Since, NotLong
  <2>. HIDE DEF S, N
  <2>2. /\ Cardinality(During(more, more[i])) <= Cardinality(S \union N)
        /\ Cardinality(During(more, more[i])) \in Nat
    BY <1>9, <2>1, FS_Subset, FS_CardinalityType
  <2>. QED  BY <1>4, <1>5, <1>6, <1>8, <1>9, <2>2 DEF N
<1>11. PeriodsHold(more)
  BY <1>10, PeriodsGoOn DEF more
<1>. QED  BY <1>3, <1>8, <1>11 DEF more

\* Whatever headers a client writes, it is charged under its own address.
LEMMA ChargedToItself ==
  ASSUME NEW from \in Addresses, NEW claim \in Claims
  PROVE  Charged(from, claim) = from
<1>1. claim.hops \in Seq(Addresses)
  <2>1. claim.hops \in {<<>>} \union {<<a>> : a \in Addresses}
    BY DEF Claims
  <2>2. \A a \in Addresses : <<a>> \in Seq(Addresses)
    OBVIOUS
  <2>. QED  BY <2>1, <2>2, EmptySeq
<1>2. /\ Len(Append(claim.hops, from)) = Len(claim.hops) + 1
      /\ Append(claim.hops, from)[Len(claim.hops) + 1] = from
  BY <1>1, AppendProperties
<1>3. ClientAddress(ForwardedFor(from, claim)) = from
  BY <1>2 DEF ClientAddress, ForwardedFor
<1>. QED  BY <1>3 DEF Charged, LimitKey, PassedOn

\* The table after a call: the caller's window, and every other as it was unless it is finished.
LEMMA TableIs ==
  ASSUME LimiterTypeOK, NEW key \in Addresses
  PROVE  /\ key \in DOMAIN Table(key) /\ DOMAIN Table(key) \subseteq DOMAIN windows \union {key}
         /\ Table(key)[key] = Counted(key)
         /\ \A a \in DOMAIN Table(key) \ {key} : a \in DOMAIN windows /\ Table(key)[a] = windows[a]
         /\ \A a \in DOMAIN windows \ DOMAIN Table(key) : Finished(windows[a])
<1>. DEFINE all == [k \in DOMAIN windows \union {key} |-> IF k = key THEN Counted(key) ELSE windows[k]]
<1>1. ~Finished(Counted(key))
  <2>1. tick \in Nat /\ Period \in Nat /\ Period >= 1
    BY LimiterAssumption DEF LimiterTypeOK
  <2>2. CASE key \notin DOMAIN windows \/ Finished(windows[key])
    BY <2>1, <2>2 DEF Counted, Finished
  <2>3. CASE ~(key \notin DOMAIN windows \/ Finished(windows[key]))
    <3>1. Counted(key) = [windows[key] EXCEPT !.n = @ + 1]
      BY <2>3 DEF Counted
    <3>2. Counted(key).start = windows[key].start
      BY <3>1
    <3>. QED  BY <2>3, <3>2 DEF Finished
  <2>. QED  BY <2>2, <2>3
<1>2. Table(key) = all \/ Table(key) = Prune(all)
  BY DEF Table
<1>3. /\ DOMAIN all = DOMAIN windows \union {key} /\ all[key] = Counted(key)
      /\ \A a \in DOMAIN windows \ {key} : all[a] = windows[a]
  OBVIOUS
<1>. HIDE DEF all
<1>4. /\ DOMAIN Prune(all) = {k \in DOMAIN all : ~Finished(all[k])}
      /\ \A a \in DOMAIN Prune(all) : Prune(all)[a] = all[a]
  BY DEF Prune
<1>5. CASE Table(key) = all
  BY <1>3, <1>5
<1>6. CASE Table(key) = Prune(all)
  BY <1>1, <1>3, <1>4, <1>6
<1>. QED  BY <1>2, <1>5, <1>6

LEMMA LimiterInitIsSound == LimiterInit => LimiterIInv
<1>. SUFFICES ASSUME LimiterInit  PROVE  LimiterIInv
  OBVIOUS
<1>1. DOMAIN windows = {} /\ tick = 0 /\ calls = 0
  BY DEF LimiterInit
<1>2. \A a \in Addresses : passed[a] = <<>> /\ passed[a] \in Seq(0..LimitTime) /\ DOMAIN passed[a] = {}
  BY EmptySeq, LenProperties DEF LimiterInit
<1>3. LimiterTypeOK
  BY <1>1, <1>2, LimiterAssumption DEF LimiterInit, LimiterTypeOK
<1>4. Cardinality({}) = 0 /\ Limit > 0
  BY FS_EmptySet, LimiterAssumption
<1>5. ASSUME NEW a \in Addresses  PROVE  NoWindowIsSound(a) /\ PeriodsHold(passed[a])
  <2>1. NotLong(passed[a], tick) = {}
    BY <1>2 DEF NotLong
  <2>. QED  BY <1>2, <1>4, <2>1 DEF NoWindowIsSound, PeriodsHold
<1>. QED  BY <1>1, <1>2, <1>3, <1>5 DEF LimiterIInv

\* What the invariant says of the calls of one address.
LEMMA Times ==
  ASSUME LimiterIInv, NEW a \in Addresses
  PROVE  /\ passed[a] \in Seq(Nat) /\ PeriodsHold(passed[a]) /\ tick \in Nat
         /\ \A j \in DOMAIN passed[a] : passed[a][j] \in Nat /\ passed[a][j] <= tick
<1>1. passed[a] \in Seq(0..LimitTime) /\ LimitTime \in Nat
  BY LimiterAssumption DEF LimiterIInv, LimiterTypeOK
<1>2. passed[a] \in Seq(Nat)
  BY <1>1, SeqMonotonic
<1>3. \A j \in DOMAIN passed[a] : passed[a][j] \in Nat
  BY <1>2, LenProperties, ElementOfSeq
<1>. QED  BY <1>2, <1>3 DEF LimiterIInv, LimiterTypeOK

\* An address whose window is finished may begin another as if it had none.
LEMMA FinishedIsNone ==
  ASSUME LimiterIInv, NEW a \in Addresses, a \notin DOMAIN windows \/ Finished(windows[a])
  PROVE  NoWindowIsSound(a)
<1>1. CASE a \notin DOMAIN windows
  BY <1>1 DEF LimiterIInv
<1>2. CASE a \in DOMAIN windows /\ Finished(windows[a])
  <2>. DEFINE s == windows[a].start
  <2>1. s \in Nat /\ tick \in Nat /\ Period \in Nat /\ Limit \in Nat /\ windows[a].n \in Nat
    BY <1>2, LimiterAssumption DEF LimiterIInv, LimiterTypeOK
  <2>2. tick >= s + Period
    BY <1>2, <2>1 DEF Finished
  <2>3. /\ Cardinality(Since(passed[a], s)) <= Limit
        /\ \E j \in DOMAIN passed[a] : passed[a][j] = s
        /\ \A j \in DOMAIN passed[a] : passed[a][j] < tick
    BY <1>2, <2>1 DEF LimiterIInv, WindowIsSound
  <2>4. passed[a] \in Seq(Nat)
    BY Times
  <2>. HIDE DEF s
  <2>5. Cardinality(NotLong(passed[a], tick)) < Limit
    BY <2>1, <2>2, <2>3, <2>4, FewReachOver
  <2>. QED  BY <2>3, <2>5 DEF NoWindowIsSound
<1>. QED  BY <1>1, <1>2

\* A window's soundness looks at the clock, the window and the calls of its address, and so does its absence.
LEMMA SameWindow ==
  ASSUME NEW a, tick' = tick, windows'[a] = windows[a], passed'[a] = passed[a], WindowIsSound(a)
  PROVE  WindowIsSound(a)'
BY DEF WindowIsSound, Finished

\* The caller's own window after its call.
LEMMA CallersWindow ==
  ASSUME LimiterIInv, NEW a \in Addresses, tick' = tick, windows'[a] = Counted(a),
         passed' = IF Counted(a).n <= Limit THEN [passed EXCEPT ![a] = Append(@, tick)] ELSE passed,
         calls' = calls + 1
  PROVE  /\ Counted(a) \in [start : Nat, n : Nat] /\ Counted(a).start <= tick /\ Counted(a).n \in 1..(calls + 1)
         /\ WindowIsSound(a)' /\ PeriodsHold(passed'[a])
<1>1. /\ passed[a] \in Seq(Nat) /\ PeriodsHold(passed[a]) /\ tick \in Nat
      /\ \A j \in DOMAIN passed[a] : passed[a][j] \in Nat /\ passed[a][j] <= tick
  BY Times
<1>2. /\ Limit \in Nat /\ Period \in Nat /\ Limit >= 1 /\ Period >= 1 /\ calls \in Nat
      /\ passed \in [Addresses -> Seq(0..LimitTime)]
  BY LimiterAssumption DEF LimiterIInv, LimiterTypeOK
<1>3. CASE a \notin DOMAIN windows \/ Finished(windows[a])
  <2>1. Counted(a) = [start |-> tick, n |-> 1]
    BY <1>3 DEF Counted
  <2>2. passed'[a] = Append(passed[a], tick)
    BY <1>2, <2>1
  <2>3. (\A j \in DOMAIN passed[a] : passed[a][j] < tick) /\ Cardinality(NotLong(passed[a], tick)) < Limit
    BY <1>3, FinishedIsNone DEF NoWindowIsSound
  <2>4. /\ Cardinality(Since(passed'[a], tick)) = 1 /\ \E j \in DOMAIN passed'[a] : passed'[a][j] = tick
        /\ Cardinality(NotLong(passed'[a], tick)) < Limit /\ PeriodsHold(passed'[a])
    BY <1>1, <2>2, <2>3, BeginsWindow
  <2>5. ~(tick - tick >= Period) /\ (IF 1 < Limit THEN 1 ELSE Limit) = 1
    BY <1>1, <1>2
  <2>6. WindowIsSound(a)'
    BY <2>1, <2>4, <2>5 DEF WindowIsSound, Finished
  <2>. QED  BY <1>1, <1>2, <2>1, <2>4, <2>6
<1>4. CASE a \in DOMAIN windows /\ ~Finished(windows[a])
  <2>. DEFINE s == windows[a].start
              n == windows[a].n
  <2>1. windows[a] \in [start : Nat, n : Nat] /\ s \in 0..tick /\ n >= 1 /\ n <= calls /\ WindowIsSound(a)
    BY <1>4 DEF LimiterIInv, LimiterTypeOK
  <2>2. Counted(a) = [windows[a] EXCEPT !.n = @ + 1]
    BY <1>4 DEF Counted
  <2>3. Counted(a) \in [start : Nat, n : Nat] /\ Counted(a).start = s /\ Counted(a).n = n + 1
    BY <2>1, <2>2
  <2>4. s \in Nat /\ n \in Nat /\ s <= tick /\ tick < s + Period
    BY <1>1, <1>2, <1>4, <2>1 DEF Finished
  <2>5. /\ Cardinality(Since(passed[a], s)) = IF n < Limit THEN n ELSE Limit
        /\ \E j \in DOMAIN passed[a] : passed[a][j] = s
        /\ Cardinality(NotLong(passed[a], s)) < Limit
    BY <2>1 DEF WindowIsSound
  <2>. HIDE DEF s, n
  <2>6. ~(tick - s >= Period)
    BY <1>1, <1>2, <2>4
  <2>7. CASE n + 1 <= Limit
    <3>1. passed'[a] = Append(passed[a], tick)
      BY <1>2, <2>3, <2>7
    <3>2. Cardinality(Since(passed[a], s)) = n /\ n < Limit
      BY <1>2, <2>4, <2>5, <2>7
    <3>3. /\ Cardinality(Since(passed'[a], s)) = n + 1
          /\ NotLong(passed'[a], s) = NotLong(passed[a], s) /\ PeriodsHold(passed'[a])
      BY <1>1, <2>4, <2>5, <3>1, <3>2, StaysInWindow
    <3>4. \E j \in DOMAIN passed'[a] : passed'[a][j] = s
      BY <1>1, <2>5, <3>1, OneMore
    <3>5. (IF n + 1 < Limit THEN n + 1 ELSE Limit) = n + 1
      BY <1>2, <2>4, <2>7
    <3>6. WindowIsSound(a)'
      BY <2>3, <2>5, <2>6, <3>3, <3>4, <3>5 DEF WindowIsSound, Finished
    <3>. QED  BY <1>2, <2>1, <2>3, <2>4, <3>3, <3>6
  <2>8. CASE ~(n + 1 <= Limit)
    <3>1. passed' = passed
      BY <2>3, <2>8
    <3>2. (IF n < Limit THEN n ELSE Limit) = Limit /\ (IF n + 1 < Limit THEN n + 1 ELSE Limit) = Limit
      BY <1>2, <2>4, <2>8
    <3>3. WindowIsSound(a)'
      BY <2>3, <2>5, <2>6, <3>1, <3>2 DEF WindowIsSound, Finished
    <3>. QED  BY <1>1, <1>2, <2>1, <2>3, <2>4, <3>1, <3>3
  <2>. QED  BY <2>7, <2>8
<1>. QED  BY <1>3, <1>4

LEMMA LimiterCalls ==
  ASSUME LimiterIInv, NEW from \in Addresses, NEW claim \in Claims, Call(from, claim)
  PROVE  LimiterIInv'
<1>1. /\ calls < MaxCalls /\ calls' = calls + 1 /\ tick' = tick /\ windows' = Table(from)
      /\ passed' = IF Counted(from).n <= Limit THEN [passed EXCEPT ![from] = Append(@, tick)] ELSE passed
  BY ChargedToItself DEF Call
<1>2. LimiterTypeOK /\ passed \in [Addresses -> Seq(0..LimitTime)] /\ tick \in 0..LimitTime
      /\ calls \in Nat /\ MaxCalls \in Nat /\ LimitTime \in Nat
  BY LimiterAssumption DEF LimiterIInv, LimiterTypeOK
<1>3. /\ from \in DOMAIN windows' /\ DOMAIN windows' \subseteq DOMAIN windows \union {from}
      /\ windows'[from] = Counted(from)
      /\ \A a \in DOMAIN windows' \ {from} : a \in DOMAIN windows /\ windows'[a] = windows[a]
      /\ \A a \in DOMAIN windows \ DOMAIN windows' : Finished(windows[a])
  BY <1>1, <1>2, TableIs
<1>4. /\ Counted(from) \in [start : Nat, n : Nat] /\ Counted(from).start <= tick /\ Counted(from).n \in 1..(calls + 1)
      /\ WindowIsSound(from)' /\ PeriodsHold(passed'[from])
  BY <1>1, <1>3, CallersWindow
<1>5. \A a \in Addresses \ {from} : passed'[a] = passed[a]
  BY <1>1, <1>2
<1>6. passed' \in [Addresses -> Seq(0..LimitTime)]
  <2>1. passed[from] \in Seq(0..LimitTime)
    BY <1>2
  <2>2. Append(passed[from], tick) \in Seq(0..LimitTime)
    BY <1>2, <2>1, AppendProperties
  <2>. QED  BY <1>1, <1>2, <2>2
<1>7. ASSUME NEW a \in DOMAIN windows'
      PROVE  /\ windows'[a] \in [start : Nat, n : Nat] /\ windows'[a].n <= calls' /\ WindowIsSound(a)'
             /\ windows'[a].start \in 0..tick' /\ windows'[a].n \in 1..MaxCalls
  <2>1. CASE a = from
    BY <1>1, <1>2, <1>3, <1>4, <2>1
  <2>2. CASE a # from
    <3>1. a \in DOMAIN windows /\ windows'[a] = windows[a] /\ a \in Addresses
      BY <1>2, <1>3, <2>2 DEF LimiterTypeOK
    <3>2. /\ windows[a] \in [start : Nat, n : Nat] /\ windows[a].n <= calls /\ WindowIsSound(a)
          /\ windows[a].start \in 0..tick /\ windows[a].n \in 1..MaxCalls
      BY <3>1 DEF LimiterIInv, LimiterTypeOK
    <3>3. WindowIsSound(a)'
      BY <1>1, <1>5, <2>2, <3>1, <3>2, SameWindow
    <3>. QED  BY <1>1, <1>2, <3>1, <3>2, <3>3
  <2>. QED  BY <2>1, <2>2
<1>8. LimiterTypeOK'
  BY <1>1, <1>2, <1>3, <1>6, <1>7 DEF LimiterTypeOK
<1>9. ASSUME NEW a \in Addresses \ DOMAIN windows'  PROVE  NoWindowIsSound(a)'
  <2>1. a # from /\ (a \notin DOMAIN windows \/ Finished(windows[a]))
    BY <1>3, <1>9
  <2>2. NoWindowIsSound(a)
    BY <2>1, FinishedIsNone
  <2>. QED  BY <1>1, <1>5, <2>1, <2>2 DEF NoWindowIsSound
<1>10. ASSUME NEW a \in Addresses
       PROVE  PeriodsHold(passed'[a]) /\ \A j \in DOMAIN passed'[a] : passed'[a][j] <= tick
  <2>1. /\ passed[a] \in Seq(Nat) /\ PeriodsHold(passed[a]) /\ tick \in Nat
        /\ \A j \in DOMAIN passed[a] : passed[a][j] <= tick
    BY Times
  <2>2. CASE passed'[a] = passed[a]
    BY <2>1, <2>2
  <2>3. CASE a = from /\ passed'[a] = Append(passed[a], tick)
    BY <1>4, <2>1, <2>3, OneMore
  <2>. QED  BY <1>1, <1>2, <2>2, <2>3
<1>. QED  BY <1>1, <1>7, <1>8, <1>9, <1>10 DEF LimiterIInv

LEMMA LimiterTicks ==
  ASSUME LimiterIInv, LimiterTick
  PROVE  LimiterIInv'
<1>1. UNCHANGED <<windows, calls, passed>> /\ tick' = tick + 1 /\ tick < LimitTime /\ tick \in Nat /\ LimitTime \in Nat
  BY LimiterAssumption DEF LimiterTick, LimiterIInv, LimiterTypeOK
<1>2. LimiterTypeOK'
  BY <1>1 DEF LimiterIInv, LimiterTypeOK
<1>3. \A a \in Addresses : \A j \in DOMAIN passed[a] : passed[a][j] \in Nat /\ passed[a][j] < tick + 1
  BY <1>1, Times
<1>4. ASSUME NEW a \in DOMAIN windows  PROVE  WindowIsSound(a)'
  <2>1. a \in Addresses /\ WindowIsSound(a)
    BY DEF LimiterIInv, LimiterTypeOK
  <2>. QED  BY <1>1, <1>3, <2>1 DEF WindowIsSound
<1>5. ASSUME NEW a \in Addresses \ DOMAIN windows  PROVE  NoWindowIsSound(a)'
  <2>1. (\A j \in DOMAIN passed[a] : passed[a][j] < tick) /\ Cardinality(NotLong(passed[a], tick)) < Limit
    BY DEF LimiterIInv, NoWindowIsSound
  <2>2. passed[a] \in Seq(Nat)
    BY Times
  <2>3. NotLong(passed[a], tick) \in SUBSET (DOMAIN passed[a]) /\ Limit \in Nat /\ Period \in Nat
    BY LimiterAssumption DEF NotLong
  <2>4. NotLong(passed[a], tick + 1) \in SUBSET NotLong(passed[a], tick)
    BY <1>1, <1>3, <2>1, <2>3 DEF NotLong
  <2>5. /\ Cardinality(NotLong(passed[a], tick + 1)) <= Cardinality(NotLong(passed[a], tick))
        /\ Cardinality(NotLong(passed[a], tick + 1)) \in Nat /\ Cardinality(NotLong(passed[a], tick)) \in Nat
    BY <2>2, <2>3, <2>4, Sizes
  <2>6. Cardinality(NotLong(passed[a], tick + 1)) < Limit
    BY <2>1, <2>3, <2>5
  <2>. QED  BY <1>1, <1>3, <2>6 DEF NoWindowIsSound
<1>6. \A a \in Addresses : \A j \in DOMAIN passed[a] : passed[a][j] <= tick + 1
  BY <1>1, <1>3
<1>. QED  BY <1>1, <1>2, <1>4, <1>5, <1>6 DEF LimiterIInv

LEMMA LimiterStep == LimiterIInv /\ [LimiterNext]_limiterVars => LimiterIInv'
<1>. SUFFICES ASSUME LimiterIInv, [LimiterNext]_limiterVars  PROVE  LimiterIInv'
  OBVIOUS
<1>1. CASE \E from \in Addresses, claim \in Claims : Call(from, claim)
  BY <1>1, LimiterCalls
<1>2. CASE LimiterTick
  BY <1>2, LimiterTicks
<1>3. CASE UNCHANGED limiterVars
  BY <1>3 DEF limiterVars, LimiterIInv, LimiterTypeOK, WindowIsSound, NoWindowIsSound, Finished
<1>. QED  BY <1>1, <1>2, <1>3 DEF LimiterNext

\* The table holds windows of the past, of addresses of clients, and counts no more than all calls.
THEOREM LimiterTypeCorrect == LimiterSpec => []LimiterTypeOK
<1>1. LimiterIInv => LimiterTypeOK
  BY DEF LimiterIInv
<1>. QED  BY <1>1, LimiterInitIsSound, LimiterStep, PTL DEF LimiterSpec

\* Whenever a period begins, a client gets less than twice the limit through in it, whatever headers it
\* writes and however the others' calls make the table drop windows.
THEOREM NobodyGetsTwice == LimiterSpec => []LessThanTwice
<1>1. LimiterIInv => LessThanTwice
  <2>. SUFFICES ASSUME LimiterIInv, NEW a \in Addresses, NEW i \in DOMAIN passed[a]
                PROVE  Cardinality(During(passed[a], passed[a][i])) < 2 * Limit
    BY DEF LessThanTwice, During
  <2>. QED  BY Times DEF PeriodsHold
<1>. QED  BY <1>1, LimiterInitIsSound, LimiterStep, PTL DEF LimiterSpec

\* A client is charged for its own calls only: its running window counts, up to the limit, just what the
\* client has got through since it began.
THEOREM ChargedForOwnCalls == LimiterSpec => []OwnCallsOnly
<1>1. LimiterIInv => OwnCallsOnly
  BY DEF LimiterIInv, OwnCallsOnly, WindowIsSound, Since
<1>. QED  BY <1>1, LimiterInitIsSound, LimiterStep, PTL DEF LimiterSpec

-----------------------------------------------------------------------------
(* Listing.                                                                *)

\* Sorting: where R is a strict order of S that compares any two, the element that n - 1 precede is the
\* n-th, and a sequence made so is in order and leaves none out.
StrictOrder(R, S) ==
  /\ \A x \in S : <<x, x>> \notin R
  /\ \A x, y, z \in S : <<x, y>> \in R /\ <<y, z>> \in R => <<x, z>> \in R
  /\ \A x, y \in S : x # y => <<x, y>> \in R \/ <<y, x>> \in R

OrderOf(R, S) ==
  [n \in 1..Cardinality(S) |-> CHOOSE x \in S : Cardinality({y \in S : <<y, x>> \in R}) = n - 1]

LEMMA SortsAll ==
  ASSUME NEW S, IsFiniteSet(S), NEW R, StrictOrder(R, S)
  PROVE  LET s == OrderOf(R, S) IN
         /\ Cardinality(S) \in Nat /\ s \in [1..Cardinality(S) -> S]
         /\ \A i, j \in 1..Cardinality(S) : i < j => <<s[i], s[j]>> \in R
         /\ \A x \in S : \E i \in 1..Cardinality(S) : s[i] = x
<1>. DEFINE N == Cardinality(S)
            s == OrderOf(R, S)
            below(x) == {y \in S : <<y, x>> \in R}
            rank == [x \in S |-> Cardinality(below(x)) + 1]
<1>1. N \in Nat
  BY FS_CardinalityType
<1>2. ASSUME NEW x \in S
      PROVE  IsFiniteSet(below(x)) /\ Cardinality(below(x)) \in Nat /\ Cardinality(below(x)) < N
  <2>1. below(x) \in SUBSET S /\ below(x) # S
    BY DEF StrictOrder
  <2>2. IsFiniteSet(below(x)) /\ Cardinality(below(x)) <= N /\ Cardinality(below(x)) # N
    BY <2>1, FS_Subset
  <2>3. Cardinality(below(x)) \in Nat
    BY <2>2, FS_CardinalityType
  <2>. QED  BY <1>1, <2>2, <2>3
<1>3. ASSUME NEW x \in S, NEW y \in S, <<x, y>> \in R
      PROVE  Cardinality(below(x)) < Cardinality(below(y))
  <2>1. below(x) \in SUBSET below(y) /\ x \in below(y) /\ x \notin below(x)
    BY <1>3 DEF StrictOrder
  <2>2. Cardinality(below(x)) <= Cardinality(below(y)) /\ Cardinality(below(x)) # Cardinality(below(y))
    BY <1>2, <2>1, FS_Subset
  <2>3. Cardinality(below(x)) \in Nat /\ Cardinality(below(y)) \in Nat
    BY <1>2
  <2>. HIDE DEF below
  <2>. QED  BY <2>2, <2>3
<1>. HIDE DEF below
<1>4. rank \in [S -> 1..N]
  BY <1>1, <1>2
<1>5. \A x, y \in S : rank[x] = rank[y] => x = y
  <2>. SUFFICES ASSUME NEW x \in S, NEW y \in S, rank[x] = rank[y], x # y  PROVE  FALSE
    OBVIOUS
  <2>1. Cardinality(below(x)) = Cardinality(below(y))
    <3>1. Cardinality(below(x)) \in Nat /\ Cardinality(below(y)) \in Nat
      BY <1>2
    <3>2. rank[x] = Cardinality(below(x)) + 1 /\ rank[y] = Cardinality(below(y)) + 1
      OBVIOUS
    <3>. QED  BY <3>1, <3>2
  <2>2. <<x, y>> \in R \/ <<y, x>> \in R
    BY DEF StrictOrder
  <2>3. Cardinality(below(x)) \in Nat /\ ~(Cardinality(below(x)) < Cardinality(below(y)))
        /\ ~(Cardinality(below(y)) < Cardinality(below(x)))
    BY <1>2, <2>1
  <2>. QED  BY <1>3, <2>2, <2>3
<1>6. rank \in Surjection(S, 1..N)
  <2>1. rank \in Injection(S, 1..N)
    BY <1>4, <1>5 DEF Injection, IsInjective
  <2>2. IsFiniteSet(1..N) /\ Cardinality(1..N) = N
    BY <1>1, FS_Interval
  <2>. QED  BY <2>1, <2>2, FS_Injection
<1>7. \A n \in 1..N : \E x \in S : rank[x] = n
  BY <1>6 DEF Surjection
<1>8. ASSUME NEW n \in 1..N
      PROVE  s[n] \in S /\ rank[s[n]] = n
  <2>1. PICK x \in S : rank[x] = n
    BY <1>7
  <2>2. Cardinality(below(x)) = n - 1
    <3>1. Cardinality(below(x)) \in Nat /\ rank[x] = Cardinality(below(x)) + 1
      BY <1>2
    <3>. QED  BY <2>1, <3>1
  <2>3. s[n] = CHOOSE y \in S : Cardinality(below(y)) = n - 1
    BY DEF below, OrderOf
  <2>. HIDE DEF s
  <2>4. s[n] \in S /\ Cardinality(below(s[n])) = n - 1
    BY <2>2, <2>3
  <2>. QED  BY <1>1, <2>4
<1>. HIDE DEF rank
<1>0. s = [n \in 1..N |-> CHOOSE x \in S : Cardinality({y \in S : <<y, x>> \in R}) = n - 1]
  BY DEF OrderOf
<1>. HIDE DEF s
<1>9. s \in [1..N -> S]
  BY <1>0, <1>8
<1>10. ASSUME NEW i \in 1..N, NEW j \in 1..N, i < j
       PROVE  <<s[i], s[j]>> \in R
  <2>1. s[i] \in S /\ s[j] \in S /\ rank[s[i]] = i /\ rank[s[j]] = j
    BY <1>8
  <2>2. s[i] # s[j]
    <3>1. i # j
      BY <1>1, <1>10
    <3>. QED  BY <2>1, <3>1, Zenon
  <2>3. <<s[j], s[i]>> \notin R
    <3>1. <<s[j], s[i]>> \in R => Cardinality(below(s[j])) < Cardinality(below(s[i]))
      BY <1>3, <2>1
    <3>2. Cardinality(below(s[i])) \in Nat /\ Cardinality(below(s[j])) \in Nat
      BY <1>2, <2>1
    <3>3. Cardinality(below(s[i])) + 1 = i /\ Cardinality(below(s[j])) + 1 = j
      BY <2>1 DEF rank
    <3>. QED  BY <1>1, <1>10, <3>1, <3>2, <3>3
  <2>. QED  BY <2>1, <2>2, <2>3 DEF StrictOrder
<1>11. ASSUME NEW x \in S
       PROVE  \E i \in 1..N : s[i] = x
  <2>1. rank[x] \in 1..N
    BY <1>4
  <2>. QED  BY <1>5, <1>8, <2>1
<1>. QED  BY <1>1, <1>9, <1>10, <1>11 DEF s

\* Two sequences, one after the other; kept closed, the provers would take \o apart.
Cat(s, t) == s \o t

LEMMA Joined ==
  ASSUME NEW U, NEW s \in Seq(U), NEW t \in Seq(U)
  PROVE  Cat(s, t) \in Seq(U) /\ Len(Cat(s, t)) = Len(s) + Len(t)
BY ConcatProperties DEF Cat

LEMMA JoinedFirst ==
  ASSUME NEW U, NEW s \in Seq(U), NEW t \in Seq(U), NEW i \in 1..Len(s)
  PROVE  Cat(s, t)[i] = s[i]
<1>1. Len(s) \in Nat /\ Len(t) \in Nat
  BY LenProperties
<1>. QED  BY <1>1, ConcatProperties DEF Cat

LEMMA JoinedSecond ==
  ASSUME NEW U, NEW s \in Seq(U), NEW t \in Seq(U), NEW i \in 1..Len(t), NEW j \in Nat, j = Len(s) + i
  PROVE  Cat(s, t)[j] = t[i]
<1>1. Len(s) \in Nat /\ Len(t) \in Nat
  BY LenProperties
<1>2. (s \o t)[j] = t[j - Len(s)]
  BY <1>1, ConcatProperties
<1>3. j - Len(s) = i
  BY <1>1
<1>. QED  BY <1>2, <1>3 DEF Cat

\* The start of a sequence.
LEMMA LeastIsStart ==
  ASSUME NEW S, NEW s \in Seq(S), NEW n \in Nat
  PROVE  /\ Least(n, s) \in Seq(S) /\ Len(Least(n, s)) \in Nat
         /\ Len(Least(n, s)) <= n /\ Len(Least(n, s)) <= Len(s)
         /\ Len(Least(n, s)) = n \/ Len(Least(n, s)) = Len(s)
         /\ \A i \in 1..Len(Least(n, s)) : Least(n, s)[i] = s[i]
<1>. DEFINE m == IF n < Len(s) THEN n ELSE Len(s)
            t == Least(n, s)
<1>1. Len(s) \in Nat
  BY LenProperties
<1>2. m \in Nat /\ m <= Len(s) /\ m <= n /\ (m = n \/ m = Len(s))
  BY <1>1
<1>3. t = SubSeq(s, 1, m)
  BY DEF Least
<1>. HIDE DEF m, t
<1>4. t \in Seq(S) /\ Len(t) = m
  <2>1. \A i \in 1..m : i \in 1..Len(s)
    BY <1>1, <1>2
  <2>2. SubSeq(s, 1, m) \in Seq(S)
    BY <1>1, <1>2, <2>1, SubSeqProperties
  <2>3. Len(SubSeq(s, 1, m)) = m
    BY <1>1, <1>2, SubSeqProperties
  <2>. QED  BY <1>3, <2>2, <2>3
<1>5. \A i \in 1..m : t[i] = s[i]
  BY <1>1, <1>2, <1>3, SubSeqProperties
<1>. QED  BY <1>2, <1>4, <1>5 DEF t

\* A sequence of names in the order of their keys, none of them twice.
InKeyOrder(s) == \A i, j \in DOMAIN s : i < j => s[i] < s[j]

LEMMA SortedKeys ==
  ASSUME NEW T \in SUBSET Keys
  PROVE  /\ Sorted(T) \in Seq(Keys) /\ InKeyOrder(Sorted(T))
         /\ \A i \in DOMAIN Sorted(T) : Sorted(T)[i] \in T
         /\ \A k \in T : \E i \in DOMAIN Sorted(T) : Sorted(T)[i] = k
<1>. DEFINE R == {p \in T \X T : p[1] < p[2]}
            s == Sorted(T)
            N == Cardinality(T)
<1>1. NumKeys \in Nat /\ T \subseteq Nat
  BY ListingAssumption DEF Keys
<1>2. \A x, y \in T : <<x, y>> \in R <=> x < y
  OBVIOUS
<1>3. IsFiniteSet(T)
  <2>1. IsFiniteSet(1..NumKeys)
    BY <1>1, FS_Interval
  <2>2. T \in SUBSET (1..NumKeys)
    BY DEF Keys
  <2>. QED  BY <2>1, <2>2, FS_Subset
<1>. HIDE DEF R
<1>4. StrictOrder(R, T)
  BY <1>1, <1>2 DEF StrictOrder
<1>5. s = OrderOf(R, T)
  <2>1. \A x \in T : {y \in T : <<y, x>> \in R} = {y \in T : y < x}
    BY <1>2
  <2>2. ASSUME NEW n \in 1..N
        PROVE  (CHOOSE x \in T : Cardinality({y \in T : <<y, x>> \in R}) = n - 1)
                 = (CHOOSE x \in T : Cardinality({y \in T : y < x}) = n - 1)
    BY <2>1
  <2>3. s = [n \in 1..N |-> CHOOSE x \in T : Cardinality({y \in T : y < x}) = n - 1]
    BY DEF Sorted, InOrder
  <2>. QED  BY <2>2, <2>3 DEF OrderOf
<1>. HIDE DEF s
<1>6. /\ N \in Nat /\ s \in [1..N -> T]
      /\ \A i, j \in 1..N : i < j => <<s[i], s[j]>> \in R
      /\ \A x \in T : \E i \in 1..N : s[i] = x
  BY <1>3, <1>4, <1>5, SortsAll
<1>7. s \in Seq(Keys)
  <2>1. s \in [1..N -> Keys]
    BY <1>6
  <2>. QED  BY <1>6, <2>1, SeqDef
<1>8. DOMAIN s = 1..N /\ \A i \in DOMAIN s : s[i] \in T
  BY <1>6
<1>9. InKeyOrder(s)
  BY <1>2, <1>6, <1>8 DEF InKeyOrder
<1>. QED  BY <1>6, <1>7, <1>8, <1>9 DEF s

\* One page more, by its numbers: s is what was read, up to c, all is what there is behind c, of which the
\* first lp make the page; new is the two, cut at the cap.
IsPage(ls, la, lp, ln, cap, size, s, all, new, c) ==
  /\ {ls, la, lp, ln, cap, size} \subseteq Nat /\ c \in Int
  /\ s \in [1..ls -> Int] /\ all \in [1..la -> Int] /\ new \in [1..ln -> Int]
  /\ size > 0 /\ ls < cap /\ lp <= la /\ (lp = size \/ lp = la)
  /\ ln <= cap /\ ln <= ls + lp /\ (ln = cap \/ ln = ls + lp)
  /\ \A i \in 1..ls : i \in 1..ln => new[i] = s[i]
  /\ \A i \in 1..ln : i > ls => new[i] = all[i - ls]
  /\ \A i, j \in 1..ls : i < j => s[i] < s[j]
  /\ \A i, j \in 1..la : i < j => all[i] < all[j]
  /\ \A i \in 1..ls : s[i] <= c
  /\ \A i \in 1..la : all[i] > c

PageTells(ls, la, lp, ln, cap, s, all, new) ==
  /\ \A i, j \in 1..ln : i < j => new[i] < new[j]
  /\ \A i \in 1..ls : \E j \in 1..ln : new[j] = s[i]
  /\ ln = cap => \A p \in 1..la : all[p] < new[cap] => \E i \in 1..ln : new[i] = all[p]
  /\ ln < cap /\ lp = la => \A p \in 1..la : \E i \in 1..ln : new[i] = all[p]
  /\ ln < cap /\ lp # la => /\ lp \in 1..la
                            /\ \A i \in 1..ln : new[i] <= all[lp]
                            /\ \A p \in 1..la : all[p] <= all[lp] => \E i \in 1..ln : new[i] = all[p]

LEMMA OnePage ==
  ASSUME NEW ls, NEW la, NEW lp, NEW ln, NEW cap, NEW size, NEW s, NEW all, NEW new, NEW c,
         IsPage(ls, la, lp, ln, cap, size, s, all, new, c)
  PROVE  PageTells(ls, la, lp, ln, cap, s, all, new)
<1>. SUFFICES ASSUME ls \in Nat, la \in Nat, lp \in Nat, ln \in Nat, cap \in Nat, size \in Nat, c \in Int,
                     s \in [1..ls -> Int], all \in [1..la -> Int], new \in [1..ln -> Int],
                     size > 0, ls < cap, lp <= la, lp = size \/ lp = la,
                     ln <= cap, ln <= ls + lp, ln = cap \/ ln = ls + lp,
                     \A i \in 1..ls : i \in 1..ln => new[i] = s[i],
                     \A i \in 1..ln : i > ls => new[i] = all[i - ls],
                     \A i, j \in 1..ls : i < j => s[i] < s[j],
                     \A i, j \in 1..la : i < j => all[i] < all[j],
                     \A i \in 1..ls : s[i] <= c,
                     \A i \in 1..la : all[i] > c
              PROVE  PageTells(ls, la, lp, ln, cap, s, all, new)
  BY DEF IsPage
<1>1. \A i \in 1..ls : i \in 1..ln /\ new[i] = s[i]
  OBVIOUS
<1>2. ASSUME NEW i \in 1..ln, i > ls
      PROVE  i - ls \in 1..la /\ i - ls <= lp /\ new[i] = all[i - ls]
  BY <1>2
<1>3. ASSUME NEW p \in 1..la, p <= lp, ls + p <= ln
      PROVE  \E i \in 1..ln : new[i] = all[p]
  <2>. PICK i \in 1..ln : i = ls + p
    BY <1>3
  <2>1. i > ls /\ i - ls = p
    OBVIOUS
  <2>. QED  BY <1>2, <2>1
<1>4. ASSUME NEW i \in 1..ln, NEW j \in 1..ln, i < j
      PROVE  new[i] < new[j]
  <2>1. CASE j <= ls
    BY <1>1, <1>4, <2>1
  <2>2. CASE i <= ls /\ j > ls
    <3>1. new[i] <= c
      BY <1>1, <2>2
    <3>2. new[j] > c
      BY <1>2, <2>2
    <3>. QED  BY <3>1, <3>2
  <2>3. CASE i > ls
    <3>. PICK p \in Int, q \in Int : p = i - ls /\ q = j - ls
      OBVIOUS
    <3>1. p \in 1..la /\ q \in 1..la /\ p < q /\ new[i] = all[p] /\ new[j] = all[q]
      BY <1>2, <1>4, <2>3, SMTT(30)
    <3>. QED  BY <3>1
  <2>. QED  BY <2>1, <2>2, <2>3
<1>5. ASSUME ln = cap, NEW p \in 1..la, all[p] < new[cap]
      PROVE  \E i \in 1..ln : new[i] = all[p]
  <2>. PICK q \in Int : q = cap - ls
    OBVIOUS
  <2>1. q \in 1..la /\ q <= lp /\ new[cap] = all[q]
    BY <1>2, <1>5
  <2>2. ~(q < p) /\ q # p
    <3>1. all[p] < all[q] /\ all[p] \in Int /\ all[q] \in Int
      BY <1>5, <2>1
    <3>2. q < p => all[q] < all[p]
      BY <2>1
    <3>3. q # p
      <4>1. q = p => all[p] = all[q]
        OBVIOUS
      <4>2. all[p] # all[q]
        BY <3>1
      <4>. QED  BY <4>1, <4>2
    <3>. QED  BY <3>1, <3>2, <3>3
  <2>3. p <= lp /\ ls + p <= ln
    BY <1>5, <2>1, <2>2
  <2>. QED  BY <1>3, <2>3
<1>6. ASSUME ln < cap, lp = la, NEW p \in 1..la
      PROVE  \E i \in 1..ln : new[i] = all[p]
  BY <1>3, <1>6
<1>7. ASSUME ln < cap, lp # la
      PROVE  lp \in 1..la
  BY <1>7
<1>8. ASSUME ln < cap, lp # la, NEW i \in 1..ln
      PROVE  new[i] <= all[lp]
  <2>1. CASE i <= ls
    BY <1>1, <1>7, <1>8, <2>1
  <2>2. CASE i > ls
    <3>. PICK p \in Int : p = i - ls
      OBVIOUS
    <3>1. p \in 1..la /\ p <= lp /\ new[i] = all[p]
      BY <1>2, <2>2
    <3>2. p = lp \/ p < lp
      BY <3>1
    <3>3. all[p] <= all[lp]
      <4>1. all[p] \in Int /\ all[lp] \in Int /\ lp \in 1..la
        BY <1>7, <1>8, <3>1
      <4>2. p < lp => all[p] < all[lp]
        BY <3>1, <4>1
      <4>. QED  BY <3>2, <4>1, <4>2
    <3>. QED  BY <3>1, <3>3
  <2>. QED  BY <2>1, <2>2
<1>9. ASSUME ln < cap, lp # la, NEW p \in 1..la, all[p] <= all[lp]
      PROVE  \E i \in 1..ln : new[i] = all[p]
  <2>1. p <= lp
    BY <1>7, <1>9
  <2>2. ls + p <= ln
    BY <1>9, <2>1
  <2>. QED  BY <1>3, <2>1, <2>2
<1>. QED  BY <1>1, <1>4, <1>5, <1>6, <1>7, <1>8, <1>9 DEF PageTells

\* Of the names of T behind the cursor c a page leaves none out but those behind its end; it ends before
\* all of them only where the page or the cap is full.
PageGoesOn(s, c, T, all, page, new) ==
  LET isNew(k) == \E i \in DOMAIN new : new[i] = k
  IN /\ new \in Seq(Keys) /\ Len(new) <= Cap /\ InKeyOrder(new)
     /\ \A i \in DOMAIN s : isNew(s[i])
     /\ Len(new) = Cap => \A k \in T : k > c /\ k < new[Cap] => isNew(k)
     /\ Len(new) < Cap /\ Len(page) = Len(all) => \A k \in T : k > c => isNew(k)
     /\ Len(new) < Cap /\ Len(page) # Len(all) =>
          /\ page[Len(page)] \in Keys
          /\ \A i \in DOMAIN new : new[i] <= page[Len(page)]
          /\ \A k \in T : k > c /\ k <= page[Len(page)] => isNew(k)

LEMMA PageIsRead ==
  ASSUME NEW s \in Seq(Keys), NEW c \in Int, NEW T \in SUBSET Keys,
         InKeyOrder(s), Len(s) < Cap, \A i \in DOMAIN s : s[i] <= c
  PROVE  LET all == Sorted({k \in T : k > c})
             page == Least(PageSize, all)
         IN PageGoesOn(s, c, T, all, page, Least(Cap, s \o page))
<1>. DEFINE A == {k \in T : k > c}
            all == Sorted(A)
            page == Least(PageSize, all)
            x == Cat(s, page)
            new == Least(Cap, x)
            isNew(k) == \E i \in DOMAIN new : new[i] = k
<1>1. PageSize \in Nat /\ PageSize > 0 /\ Cap \in Nat /\ Keys \subseteq Int
  BY ListingAssumption DEF Keys
<1>2. /\ all \in Seq(Keys) /\ InKeyOrder(all)
      /\ \A i \in DOMAIN all : all[i] \in A
      /\ \A k \in A : \E i \in DOMAIN all : all[i] = k
  BY SortedKeys
<1>. HIDE DEF all
<1>3. /\ page \in Seq(Keys) /\ Len(page) \in Nat /\ Len(page) <= PageSize /\ Len(page) <= Len(all)
      /\ Len(page) = PageSize \/ Len(page) = Len(all)
      /\ \A i \in 1..Len(page) : page[i] = all[i]
  BY <1>1, <1>2, LeastIsStart
<1>. HIDE DEF page
<1>4. x \in Seq(Keys) /\ Len(x) = Len(s) + Len(page)
  BY <1>3, Joined
<1>5. \A i \in 1..Len(s) : x[i] = s[i]
  BY <1>3, JoinedFirst
<1>6. \A i \in 1..Len(page), j \in Nat : j = Len(s) + i => x[j] = page[i]
  BY <1>3, JoinedSecond
<1>. HIDE DEF x
<1>7. /\ new \in Seq(Keys) /\ Len(new) \in Nat /\ Len(new) <= Cap /\ Len(new) <= Len(x)
      /\ Len(new) = Cap \/ Len(new) = Len(x)
      /\ \A i \in 1..Len(new) : new[i] = x[i]
  BY <1>1, <1>4, LeastIsStart
<1>. HIDE DEF new
<1>8. /\ Len(s) \in Nat /\ DOMAIN s = 1..Len(s) /\ s \in [1..Len(s) -> Int]
      /\ Len(all) \in Nat /\ DOMAIN all = 1..Len(all) /\ all \in [1..Len(all) -> Int]
      /\ DOMAIN new = 1..Len(new) /\ new \in [1..Len(new) -> Int]
  <2>1. \A q \in Seq(Keys) : Len(q) \in Nat /\ DOMAIN q = 1..Len(q) /\ q \in [1..Len(q) -> Int]
    <3>. SUFFICES ASSUME NEW q \in Seq(Keys)
                  PROVE  Len(q) \in Nat /\ DOMAIN q = 1..Len(q) /\ q \in [1..Len(q) -> Int]
      OBVIOUS
    <3>1. Len(q) \in Nat /\ DOMAIN q = 1..Len(q) /\ q \in [1..Len(q) -> Keys]
      BY LenProperties
    <3>. QED  BY <1>1, <3>1
  <2>. QED  BY <1>2, <1>7, <2>1
<1>. PICK ls, la, lp, ln : ls = Len(s) /\ la = Len(all) /\ lp = Len(page) /\ ln = Len(new)
  OBVIOUS
<1>0. ls \in Nat /\ la \in Nat /\ lp \in Nat /\ ln \in Nat
  BY <1>3, <1>7, <1>8
<1>9. ls < Cap /\ lp <= la /\ (lp = PageSize \/ lp = la)
  BY <1>3
<1>10. ln <= Cap /\ ln <= ls + lp /\ (ln = Cap \/ ln = ls + lp)
  BY <1>4, <1>7
<1>11. s \in [1..ls -> Int] /\ all \in [1..la -> Int] /\ new \in [1..ln -> Int]
  BY <1>8
<1>12. \A i \in 1..ls : i \in 1..ln => new[i] = s[i]
  BY <1>5, <1>7
<1>13. ASSUME NEW i \in 1..ln, i > ls  PROVE  new[i] = all[i - ls]
  <2>. PICK j \in Int : j = i - ls
    BY <1>0
  <2>1. j \in 1..lp /\ i = ls + j /\ i \in Nat
    BY <1>0, <1>10, <1>13
  <2>2. x[i] = page[j]
    BY <1>6, <2>1
  <2>3. new[i] = x[i] /\ page[j] = all[j]
    BY <1>3, <1>7, <2>1
  <2>. QED  BY <2>2, <2>3
<1>14. \A i, j \in 1..ls : i < j => s[i] < s[j]
  BY <1>8 DEF InKeyOrder
<1>15. \A i, j \in 1..la : i < j => all[i] < all[j]
  BY <1>2, <1>8 DEF InKeyOrder
<1>16. \A i \in 1..ls : s[i] <= c
  BY <1>8
<1>17. \A i \in 1..la : all[i] \in T /\ all[i] > c
  BY <1>2, <1>8
<1>18. PageTells(ls, la, lp, ln, Cap, s, all, new)
  <2>1. IsPage(ls, la, lp, ln, Cap, PageSize, s, all, new, c)
    BY <1>0, <1>1, <1>9, <1>10, <1>11, <1>12, <1>13, <1>14, <1>15, <1>16, <1>17 DEF IsPage
  <2>. QED  BY <2>1, OnePage
<1>19. \A k \in T : k > c => \E p \in 1..la : all[p] = k
  BY <1>2, <1>8
<1>20. DOMAIN new = 1..ln /\ DOMAIN s = 1..ls
  BY <1>8
<1>21. InKeyOrder(new) /\ (\A i \in DOMAIN s : isNew(s[i]))
  BY <1>18, <1>20 DEF InKeyOrder, PageTells
<1>22. ASSUME ln = Cap, NEW k \in T, k > c, k < new[Cap]  PROVE  isNew(k)
  <2>1. PICK p \in 1..la : all[p] = k
    BY <1>19, <1>22
  <2>. QED  BY <1>18, <1>20, <1>22, <2>1 DEF PageTells
<1>23. ASSUME ln < Cap, lp = la, NEW k \in T, k > c  PROVE  isNew(k)
  <2>1. PICK p \in 1..la : all[p] = k
    BY <1>19, <1>23
  <2>. QED  BY <1>18, <1>20, <1>23, <2>1 DEF PageTells
<1>24. ASSUME ln < Cap, lp # la
       PROVE  /\ page[lp] \in Keys
              /\ \A i \in 1..ln : new[i] <= page[lp]
              /\ \A k \in T : k > c /\ k <= page[lp] => isNew(k)
  <2>1. lp \in 1..la /\ (\A i \in 1..ln : new[i] <= all[lp])
        /\ (\A p \in 1..la : all[p] <= all[lp] => \E i \in 1..ln : new[i] = all[p])
    BY <1>18, <1>24 DEF PageTells
  <2>2. page[lp] = all[lp]
    BY <1>3, <1>0, <2>1
  <2>3. page[lp] \in Keys
    BY <1>17, <2>1, <2>2
  <2>4. ASSUME NEW k \in T, k > c, k <= page[lp]  PROVE  isNew(k)
    <3>1. PICK p \in 1..la : all[p] = k
      BY <1>19, <2>4
    <3>. QED  BY <1>20, <2>1, <2>2, <2>4, <3>1
  <2>. QED  BY <2>1, <2>2, <2>3, <2>4
<1>25. s \o page = x
  BY DEF x, Cat
<1>26. /\ Len(new) = Cap => \A k \in T : k > c /\ k < new[Cap] => isNew(k)
       /\ Len(new) < Cap /\ Len(page) = Len(all) => \A k \in T : k > c => isNew(k)
       /\ Len(new) < Cap /\ Len(page) # Len(all) =>
            /\ page[Len(page)] \in Keys
            /\ \A i \in DOMAIN new : new[i] <= page[Len(page)]
            /\ \A k \in T : k > c /\ k <= page[Len(page)] => isNew(k)
  BY <1>20, <1>22, <1>23, <1>24
<1>27. PageGoesOn(s, c, T, all, page, new)
  BY <1>7, <1>21, <1>26 DEF PageGoesOn
<1>. QED  BY <1>25, <1>27 DEF new, page, all

IsRead(k) == \E i \in DOMAIN names : names[i] = k

\* No name is twice among those read; up to the cursor none is missing that had a record all the while,
\* and after the last page none but behind a full cap.
ListingIInv ==
  /\ ListingTypeOK
  /\ Len(names) <= Cap /\ InKeyOrder(names)
  /\ steady \subseteq Here
  /\ at # "done" => listing = <<>>
  /\ at = "pages" => /\ Len(names) < Cap
                     /\ \A i \in DOMAIN names : names[i] <= cursor
                     /\ \A k \in steady : k <= cursor => IsRead(k)
  /\ at = "records" => /\ Len(names) < Cap => \A k \in steady : IsRead(k)
                       /\ Len(names) = Cap => \A k \in steady : k < names[Cap] => IsRead(k)
  /\ at = "done" => NobodyIsMissed /\ UsableFirst

\* The order of the list is a strict one: the gate, the score, the place among the names.
Outranks(a, b, i, j) ==
  \/ Viable(a) /\ ~Viable(b)
  \/ Viable(a) = Viable(b) /\ Score(a) < Score(b)
  \/ Viable(a) = Viable(b) /\ Score(a) = Score(b) /\ i < j

LEMMA ScoresAreNumbers ==
  \A a \in Records : Viable(a) \in BOOLEAN /\ Score(a) \in Int
BY ListingAssumption DEF Viable, Score

LEMMA KeptAreRecords ==
  ASSUME ListingTypeOK
  PROVE  \A i \in Kept : i \in DOMAIN names /\ i \in Int /\ names[i] \in Keys /\ record[names[i]] \in Records
<1>. SUFFICES ASSUME NEW i \in Kept
              PROVE  i \in DOMAIN names /\ i \in Int /\ names[i] \in Keys /\ record[names[i]] \in Records
  OBVIOUS
<1>1. i \in DOMAIN names /\ record[names[i]] # NoRecord
  BY DEF Kept
<1>2. names \in Seq(Keys) /\ record \in [Keys -> Records \union {NoRecord}]
  BY DEF ListingTypeOK
<1>3. i \in Int /\ names[i] \in Keys
  BY <1>1, <1>2, LenProperties, ElementOfSeq
<1>. QED  BY <1>1, <1>2, <1>3

LEMMA GoesSays ==
  ASSUME ListingTypeOK
  PROVE  \A i, j \in Kept : Goes(i, j) <=> Outranks(record[names[i]], record[names[j]], i, j)
<1>. SUFFICES ASSUME NEW i \in Kept, NEW j \in Kept
              PROVE  Goes(i, j) <=> Outranks(record[names[i]], record[names[j]], i, j)
  OBVIOUS
<1>. PICK a, b : a = record[names[i]] /\ b = record[names[j]]
  OBVIOUS
<1>1. Viable(a) \in BOOLEAN /\ Viable(b) \in BOOLEAN /\ Score(a) \in Int /\ Score(b) \in Int
  BY KeptAreRecords, ScoresAreNumbers
<1>2. Goes(i, j) <=> Before(a, b) \/ (~Before(b, a) /\ i < j)
  BY DEF Goes
<1>3. Goes(i, j) <=> Outranks(a, b, i, j)
  BY <1>1, <1>2 DEF Before, Outranks
<1>. QED  BY <1>3

LEMMA RankingIsStrict ==
  ASSUME ListingTypeOK
  PROVE  StrictOrder({p \in Kept \X Kept : Goes(p[1], p[2])}, Kept)
<1>. DEFINE R == {p \in Kept \X Kept : Goes(p[1], p[2])}
            v(i) == Viable(record[names[i]])
            c(i) == Score(record[names[i]])
<1>1. \A i \in Kept : v(i) \in BOOLEAN /\ c(i) \in Int /\ i \in Int
  BY KeptAreRecords, ScoresAreNumbers
<1>2. \A i, j \in Kept : Goes(i, j) <=>
         \/ v(i) /\ ~v(j)
         \/ v(i) = v(j) /\ c(i) < c(j)
         \/ v(i) = v(j) /\ c(i) = c(j) /\ i < j
  BY GoesSays DEF Outranks
<1>. HIDE DEF v, c
<1>3. \A i, j \in Kept : <<i, j>> \in R <=> Goes(i, j)
  OBVIOUS
<1>. HIDE DEF R
<1>4. \A i \in Kept : ~Goes(i, i)
  BY <1>1, <1>2
<1>5. ASSUME NEW i \in Kept, NEW j \in Kept, NEW k \in Kept, Goes(i, j), Goes(j, k)
      PROVE  Goes(i, k)
  <2>1. v(i) \in BOOLEAN /\ v(j) \in BOOLEAN /\ v(k) \in BOOLEAN
    BY <1>1
  <2>2. c(i) \in Int /\ c(j) \in Int /\ c(k) \in Int /\ i \in Int /\ j \in Int /\ k \in Int
    BY <1>1
  <2>3. (v(i) /\ ~v(j)) \/ (v(i) = v(j) /\ c(i) < c(j)) \/ (v(i) = v(j) /\ c(i) = c(j) /\ i < j)
    BY <1>2, <1>5
  <2>4. (v(j) /\ ~v(k)) \/ (v(j) = v(k) /\ c(j) < c(k)) \/ (v(j) = v(k) /\ c(j) = c(k) /\ j < k)
    BY <1>2, <1>5
  <2>5. (v(i) /\ ~v(k)) \/ (v(i) = v(k) /\ c(i) < c(k)) \/ (v(i) = v(k) /\ c(i) = c(k) /\ i < k)
    BY <2>1, <2>2, <2>3, <2>4
  <2>. QED  BY <1>2, <2>5
<1>6. ASSUME NEW i \in Kept, NEW j \in Kept, i # j
      PROVE  Goes(i, j) \/ Goes(j, i)
  <2>1. v(i) \in BOOLEAN /\ v(j) \in BOOLEAN /\ c(i) \in Int /\ c(j) \in Int /\ i \in Int /\ j \in Int
    BY <1>1
  <2>2. \/ v(i) /\ ~v(j)
        \/ v(j) /\ ~v(i)
        \/ v(i) = v(j) /\ (c(i) < c(j) \/ c(j) < c(i) \/ (c(i) = c(j) /\ (i < j \/ j < i)))
    BY <1>6, <2>1
  <2>. QED  BY <1>2, <2>2
<1>7. StrictOrder(R, Kept)
  BY <1>3, <1>4, <1>5, <1>6 DEF StrictOrder
<1>. QED  BY <1>7 DEF R

\* Where every kept name is put once, in the order of Goes.
Ranking == OrderOf({p \in Kept \X Kept : Goes(p[1], p[2])}, Kept)
RankedList == [n \in DOMAIN Ranking |-> [name |-> names[Ranking[n]], rec |-> record[names[Ranking[n]]]]]

LEMMA RankingIsComplete ==
  ASSUME ListingTypeOK
  PROVE  \E N \in Nat :
           /\ Ranking \in [1..N -> Kept]
           /\ \A i, j \in 1..N : i < j => Ranking[i] # Ranking[j] /\ Goes(Ranking[i], Ranking[j])
           /\ \A p \in Kept : \E i \in 1..N : Ranking[i] = p
<1>. PICK order : order = Ranking
  OBVIOUS
<1>. PICK K : K = Kept
  OBVIOUS
<1>. PICK R : R = {p \in K \X K : Goes(p[1], p[2])}
  OBVIOUS
<1>. PICK N : N = Cardinality(K)
  OBVIOUS
<1>1. IsFiniteSet(K)
  <2>1. IsFiniteSet(1..Len(names)) /\ DOMAIN names = 1..Len(names)
    BY LenProperties, FS_Interval DEF ListingTypeOK
  <2>2. K \in SUBSET (1..Len(names))
    BY <2>1 DEF Kept
  <2>. QED  BY <2>1, <2>2, FS_Subset
<1>2. \A i, j \in K : <<i, j>> \in R <=> Goes(i, j)
  OBVIOUS
<1>3. StrictOrder(R, K)
  BY RankingIsStrict
<1>4. order = OrderOf(R, K)
  BY DEF Ranking
<1>5. /\ N \in Nat /\ order \in [1..N -> K]
      /\ \A i, j \in 1..N : i < j => <<order[i], order[j]>> \in R
      /\ \A x \in K : \E i \in 1..N : order[i] = x
  BY ONLY <1>1, <1>3, <1>4, N = Cardinality(K), SortsAll
<1>6. ASSUME NEW i \in 1..N, NEW j \in 1..N, i < j
      PROVE  order[i] # order[j] /\ Goes(order[i], order[j])
  <2>1. order[i] \in K /\ order[j] \in K
    BY <1>5
  <2>2. <<order[i], order[j]>> \in R
    BY <1>5, <1>6
  <2>3. Goes(order[i], order[j])
    BY <1>2, <2>1, <2>2
  <2>4. order[i] # order[j]
    BY <1>3, <2>1, <2>2 DEF StrictOrder
  <2>. QED  BY <2>3, <2>4
<1>. QED  BY <1>5, <1>6

LEMMA ListIsRanked ==
  ASSUME ListingTypeOK, InKeyOrder(names)
  PROVE  /\ RankedList \in Seq([name : Keys, rec : Records])
         /\ \A i, j \in DOMAIN RankedList : RankedList[i].name = RankedList[j].name => i = j
         /\ \A k \in Here : IsRead(k) => \E i \in DOMAIN RankedList : RankedList[i].name = k
         /\ \A i, j \in DOMAIN RankedList :
              i < j => Outranks(RankedList[i].rec, RankedList[j].rec, RankedList[i].name, RankedList[j].name)
<1>. PICK K, nm, rc : K = Kept /\ nm = names /\ rc = [i \in DOMAIN names |-> record[names[i]]]
  OBVIOUS
<1>. PICK order : order = Ranking
  OBVIOUS
<1>. PICK list : list = RankedList
  OBVIOUS
<1>1. PICK N \in Nat :
        /\ order \in [1..N -> K]
        /\ \A i, j \in 1..N : i < j => order[i] # order[j] /\ Goes(order[i], order[j])
        /\ \A p \in K : \E i \in 1..N : order[i] = p
  BY RankingIsComplete
<1>2. \A p \in K : /\ p \in Int /\ p \in DOMAIN nm /\ nm[p] \in Keys /\ nm[p] \in Int
                   /\ rc[p] \in Records /\ rc[p] = record[names[p]]
  BY KeptAreRecords, ListingAssumption DEF Keys
<1>3. DOMAIN list = 1..N /\ list = [i \in 1..N |-> list[i]]
  BY <1>1 DEF RankedList
<1>4. ASSUME NEW i \in 1..N
      PROVE  order[i] \in K /\ list[i] = [name |-> nm[order[i]], rec |-> rc[order[i]]]
  <2>1. order[i] \in K /\ i \in DOMAIN order
    BY <1>1
  <2>2. list[i] = [name |-> names[order[i]], rec |-> record[names[order[i]]]]
    BY <2>1 DEF RankedList
  <2>. QED  BY <1>2, <2>1, <2>2
<1>5. \A i \in 1..N : list[i].name = nm[order[i]] /\ list[i].rec = rc[order[i]]
  <2>. SUFFICES ASSUME NEW i \in 1..N  PROVE  list[i].name = nm[order[i]] /\ list[i].rec = rc[order[i]]
    OBVIOUS
  <2>. PICK x, n, r : x = list[i] /\ n = nm[order[i]] /\ r = rc[order[i]]
    OBVIOUS
  <2>1. x = [name |-> n, rec |-> r]
    BY <1>4
  <2>. QED  BY ONLY <2>1, x = list[i] /\ n = nm[order[i]] /\ r = rc[order[i]]
<1>6. list \in Seq([name : Keys, rec : Records])
  <2>. PICK E : E = [name : Keys, rec : Records]
    OBVIOUS
  <2>1. ASSUME NEW i \in 1..N  PROVE  list[i] \in E
    <3>. PICK n, r : n = nm[order[i]] /\ r = rc[order[i]]
      OBVIOUS
    <3>1. n \in Keys /\ r \in Records
      BY <1>2, <1>4
    <3>2. list[i] = [name |-> n, rec |-> r]
      BY <1>4
    <3>. QED  BY ONLY <3>1, <3>2, E = [name : Keys, rec : Records]
  <2>2. list \in [1..N -> E]
    BY ONLY <1>3, <2>1
  <2>3. list \in Seq(E)
    BY ONLY <2>2, SeqDef, N \in Nat
  <2>. QED  BY <2>3
<1>7. \A p, q \in K : p < q => nm[p] < nm[q]
  BY <1>2 DEF InKeyOrder
<1>8. \A p, q \in K : nm[p] = nm[q] => p = q
  <2>. SUFFICES ASSUME NEW p \in K, NEW q \in K, nm[p] = nm[q]  PROVE  p = q
    OBVIOUS
  <2>1. p \in Int /\ q \in Int /\ nm[p] \in Int
    BY <1>2
  <2>2. ~(p < q) /\ ~(q < p)
    BY <1>7, <2>1
  <2>. QED  BY <2>1, <2>2
<1>9. \A i, j \in 1..N : list[i].name = list[j].name => i = j
  <2>. SUFFICES ASSUME NEW i \in 1..N, NEW j \in 1..N, list[i].name = list[j].name  PROVE  i = j
    OBVIOUS
  <2>. PICK p \in K, q \in K : p = order[i] /\ q = order[j]
    BY <1>4
  <2>1. order[i] = order[j]
    BY <1>5, <1>8
  <2>2. ~(i < j) /\ ~(j < i)
    BY <1>1, <2>1
  <2>. QED  BY <2>2
<1>10. \A k \in Here : IsRead(k) => \E i \in 1..N : list[i].name = k
  <2>. SUFFICES ASSUME NEW k \in Here, IsRead(k)  PROVE  \E i \in 1..N : list[i].name = k
    OBVIOUS
  <2>1. PICK p \in DOMAIN names : names[p] = k
    BY DEF IsRead
  <2>2. p \in K
    BY <2>1 DEF Kept, Here
  <2>3. PICK i \in 1..N : order[i] = p
    BY <1>1, <2>2
  <2>4. list[i].name = nm[p]
    BY <1>5, <2>3
  <2>. QED  BY <2>1, <2>4
<1>11. ASSUME NEW i \in 1..N, NEW j \in 1..N, i < j
       PROVE  Outranks(list[i].rec, list[j].rec, list[i].name, list[j].name)
  <2>. PICK p \in K, q \in K : p = order[i] /\ q = order[j]
    BY <1>4
  <2>1. Goes(p, q)
    BY <1>1, <1>11
  <2>2. list[i].rec = rc[p] /\ list[j].rec = rc[q] /\ list[i].name = nm[p] /\ list[j].name = nm[q]
    BY <1>5
  <2>3. Outranks(rc[p], rc[q], p, q)
    BY <1>2, <2>1, GoesSays
  <2>4. Outranks(rc[p], rc[q], nm[p], nm[q])
    BY <1>7, <2>3 DEF Outranks
  <2>. QED  BY <2>2, <2>4
<1>12. \A i, j \in DOMAIN list :
         i < j => Outranks(list[i].rec, list[j].rec, list[i].name, list[j].name)
  BY <1>3, <1>11
<1>13. (\A i, j \in DOMAIN list : list[i].name = list[j].name => i = j)
       /\ (\A k \in Here : IsRead(k) => \E i \in DOMAIN list : list[i].name = k)
  BY <1>3, <1>9, <1>10
<1>. QED  BY <1>6, <1>12, <1>13

LEMMA ListingInitIsSound == ListingInit => ListingIInv
<1>. SUFFICES ASSUME ListingInit  PROVE  ListingIInv
  OBVIOUS
<1>. USE DEF ListingInit
<1>1. Len(names) = 0 /\ DOMAIN names = {} /\ names \in Seq(Keys) /\ listing \in Seq([name : Keys, rec : Records])
  BY EmptySeq
<1>2. ListingTypeOK
  <2>1. cursor \in 0..NumKeys /\ changes \in 0..Changes
    BY ListingAssumption
  <2>2. steady \subseteq Keys
    BY DEF Here
  <2>. QED  BY <1>1, <2>1, <2>2 DEF ListingTypeOK
<1>3. Len(names) < Cap /\ Len(names) <= Cap
  BY <1>1, ListingAssumption
<1>4. InKeyOrder(names)
  BY <1>1 DEF InKeyOrder
<1>5. \A k \in steady : ~(k <= cursor)
  BY ListingAssumption DEF Here, Keys
<1>. QED  BY <1>1, <1>2, <1>3, <1>4, <1>5 DEF ListingIInv

\* A page is read: PageIsRead, of the names that have a record now.
LEMMA ListingReadsPage == ListingIInv /\ ReadsPage => ListingIInv'
<1>. SUFFICES ASSUME ListingIInv, ReadsPage  PROVE  ListingIInv'
  OBVIOUS
<1>. PICK s, c, T : s = names /\ c = cursor /\ T = Here
  OBVIOUS
<1>. PICK all : all = Sorted({k \in T : k > c})
  OBVIOUS
<1>. PICK page : page = Least(PageSize, all)
  OBVIOUS
<1>. PICK new : new = Least(Cap, s \o page)
  OBVIOUS
<1>. DEFINE isNew(k) == \E i \in DOMAIN new : new[i] = k
<1>1. /\ s \in Seq(Keys) /\ c \in 0..NumKeys /\ T \in SUBSET Keys /\ steady \subseteq T
      /\ InKeyOrder(s) /\ Len(s) < Cap /\ (\A i \in DOMAIN s : s[i] <= c)
      /\ \A k \in steady : k <= c => \E i \in DOMAIN s : s[i] = k
  BY DEF ListingIInv, ListingTypeOK, ReadsPage, Here, IsRead
<1>2. c \in Int /\ Keys \subseteq Int /\ Cap \in Nat
  BY <1>1, ListingAssumption DEF Keys
<1>3. /\ new \in Seq(Keys) /\ Len(new) <= Cap /\ InKeyOrder(new)
      /\ \A i \in DOMAIN s : isNew(s[i])
      /\ Len(new) = Cap => \A k \in T : k > c /\ k < new[Cap] => isNew(k)
      /\ Len(new) < Cap /\ Len(page) = Len(all) => \A k \in T : k > c => isNew(k)
      /\ Len(new) < Cap /\ Len(page) # Len(all) =>
           /\ page[Len(page)] \in Keys
           /\ \A i \in DOMAIN new : new[i] <= page[Len(page)]
           /\ \A k \in T : k > c /\ k <= page[Len(page)] => isNew(k)
  <2>1. PageGoesOn(s, c, T, all, page, new)
    BY <1>1, <1>2, PageIsRead
  <2>. QED  BY <2>1 DEF PageGoesOn
<1>4. \A k \in steady : k <= c => isNew(k)
  <2>. SUFFICES ASSUME NEW k \in steady, k <= c  PROVE  isNew(k)
    OBVIOUS
  <2>1. PICK i \in DOMAIN s : s[i] = k
    BY <1>1
  <2>. QED  BY <1>3, <2>1
<1>5. \A k \in steady : k \in T /\ k \in Int
  BY <1>1, <1>2
<1>6. /\ names' = new /\ at = "pages"
      /\ UNCHANGED <<record, listing, changes, steady>>
      /\ IF Len(page) = Len(all) \/ Len(new) = Cap
         THEN at' = "records" /\ cursor' = c
         ELSE at' = "pages" /\ cursor' = page[Len(page)]
  BY DEF ReadsPage, After
<1>7. Len(new) \in Nat
  BY <1>3, LenProperties
<1>. HIDE DEF isNew
<1>8. CASE Len(page) = Len(all) \/ Len(new) = Cap
  <2>1. at' = "records" /\ cursor' = c
    BY <1>6, <1>8
  <2>2. ListingTypeOK'
    BY <1>1, <1>3, <1>6, <2>1 DEF ListingIInv, ListingTypeOK
  <2>3. ASSUME NEW k \in steady, Len(new) < Cap  PROVE  isNew(k)
    <3>1. k <= c \/ k > c
      BY <1>2, <1>5
    <3>2. k > c => isNew(k)
      BY <1>2, <1>3, <1>5, <1>7, <1>8, <2>3
    <3>. QED  BY <1>4, <3>1, <3>2
  <2>4. ASSUME NEW k \in steady, Len(new) = Cap, k < new[Cap]  PROVE  isNew(k)
    <3>1. k <= c \/ k > c
      BY <1>2, <1>5
    <3>2. k > c => isNew(k)
      BY <1>3, <1>5, <2>4
    <3>. QED  BY <1>4, <3>1, <3>2
  <2>5. \A k : isNew(k) <=> IsRead(k)'
    BY <1>6 DEF IsRead, isNew
  <2>6. (Len(names) <= Cap /\ InKeyOrder(names) /\ steady \subseteq Here /\ listing = <<>>)'
    BY <1>1, <1>3, <1>6 DEF InKeyOrder, Here, ListingIInv
  <2>7. (at = "records" => /\ Len(names) < Cap => \A k \in steady : IsRead(k)
                           /\ Len(names) = Cap => \A k \in steady : k < names[Cap] => IsRead(k))'
    BY <1>6, <2>3, <2>4, <2>5
  <2>. QED  BY <2>1, <2>2, <2>6, <2>7 DEF ListingIInv
<1>9. CASE Len(page) # Len(all) /\ Len(new) # Cap
  <2>1. at' = "pages" /\ cursor' = page[Len(page)] /\ Len(new) < Cap
    BY <1>2, <1>3, <1>6, <1>7, <1>9
  <2>. PICK e : e = page[Len(page)]
    OBVIOUS
  <2>2. e \in Keys /\ (\A i \in DOMAIN new : new[i] <= e) /\ (\A k \in T : k > c /\ k <= e => isNew(k))
    BY <1>3, <1>9, <2>1 DEF isNew
  <2>3. e \in 0..NumKeys
    BY <2>2, ListingAssumption DEF Keys
  <2>4. ListingTypeOK'
    BY <1>1, <1>3, <1>6, <2>1, <2>3 DEF ListingIInv, ListingTypeOK
  <2>5. ASSUME NEW k \in steady, k <= e  PROVE  isNew(k)
    <3>1. k <= c \/ k > c
      BY <1>2, <1>5
    <3>2. k > c => isNew(k)
      BY <1>5, <2>2, <2>5
    <3>. QED  BY <1>4, <3>1, <3>2
  <2>6. \A k : isNew(k) <=> IsRead(k)'
    BY <1>6 DEF IsRead, isNew
  <2>7. (Len(names) <= Cap /\ InKeyOrder(names) /\ steady \subseteq Here /\ listing = <<>>)'
    BY <1>1, <1>3, <1>6 DEF InKeyOrder, Here, ListingIInv
  <2>8. (/\ Len(names) < Cap
         /\ \A i \in DOMAIN names : names[i] <= cursor
         /\ \A k \in steady : k <= cursor => IsRead(k))'
    BY <1>6, <2>1, <2>2, <2>5, <2>6
  <2>. QED  BY <2>1, <2>4, <2>7, <2>8 DEF ListingIInv
<1>. QED  BY <1>8, <1>9

\* What the answer is: the ranking's order is that of Goes.
LEMMA AnswerIsRanked == ReadsRecords => listing' = RankedList
<1>. DEFINE order == [n \in 1..Cardinality(Kept) |->
                        CHOOSE x \in Kept : Cardinality({y \in Kept : Goes(y, x)}) = n - 1]
<1>1. order = Ranking
  <2>1. \A x \in Kept : {y \in Kept : <<y, x>> \in {p \in Kept \X Kept : Goes(p[1], p[2])}} = {y \in Kept : Goes(y, x)}
    OBVIOUS
  <2>2. ASSUME NEW n \in 1..Cardinality(Kept)
        PROVE  (CHOOSE x \in Kept :
                  Cardinality({y \in Kept : <<y, x>> \in {p \in Kept \X Kept : Goes(p[1], p[2])}}) = n - 1)
                 = (CHOOSE x \in Kept : Cardinality({y \in Kept : Goes(y, x)}) = n - 1)
    BY <2>1
  <2>. QED  BY <2>2 DEF Ranking, OrderOf
<1>2. ReadsRecords => listing' = [i \in DOMAIN order |-> [name |-> names[order[i]], rec |-> record[names[order[i]]]]]
  BY DEF ReadsRecords, InOrder, Kept, Goes
<1>. HIDE DEF order
<1>. QED  BY <1>1, <1>2 DEF RankedList

LEMMA ListingReadsRecords == ListingIInv /\ ReadsRecords => ListingIInv'
<1>. SUFFICES ASSUME ListingIInv, ReadsRecords  PROVE  ListingIInv'
  OBVIOUS
<1>. PICK list : list = RankedList
  OBVIOUS
<1>1. /\ at = "records" /\ at' = "done" /\ listing' = list
      /\ UNCHANGED <<record, names, cursor, changes, steady>>
  <2>1. listing' = list
    BY AnswerIsRanked
  <2>2. at = "records" /\ at' = "done" /\ UNCHANGED <<record, names, cursor, changes, steady>>
    BY DEF ReadsRecords
  <2>. QED  BY <2>1, <2>2
<1>2. ListingTypeOK /\ InKeyOrder(names)
  BY DEF ListingIInv
<1>3. list \in Seq([name : Keys, rec : Records])
  BY <1>2, ListIsRanked
<1>4. \A i, j \in DOMAIN list : list[i].name = list[j].name => i = j
  BY <1>2, ListIsRanked
<1>5. \A k \in Here : IsRead(k) => \E i \in DOMAIN list : list[i].name = k
  BY <1>2, ListIsRanked
<1>6. \A i, j \in DOMAIN list : i < j => Outranks(list[i].rec, list[j].rec, list[i].name, list[j].name)
  BY <1>2, ListIsRanked
<1>7. ListingTypeOK'
  BY <1>1, <1>2, <1>3 DEF ListingTypeOK
<1>8. (Len(names) <= Cap /\ InKeyOrder(names) /\ steady \subseteq Here)'
  BY <1>1 DEF ListingIInv, InKeyOrder, Here
<1>9. NobodyIsMissed'
  <2>1. \A k \in steady : k \in Here
    BY DEF ListingIInv
  <2>2. ASSUME Len(names) < Cap  PROVE  steady \subseteq {list[i].name : i \in DOMAIN list}
    BY <1>1, <1>5, <2>1, <2>2 DEF ListingIInv
  <2>3. ASSUME Len(names) = Cap, NEW k \in steady, k < names[Cap]  PROVE  \E i \in DOMAIN list : list[i].name = k
    BY <1>1, <1>5, <2>1, <2>3 DEF ListingIInv
  <2>. QED  BY <1>1, <1>4, <2>2, <2>3 DEF NobodyIsMissed
<1>10. UsableFirst'
  <2>1. ASSUME NEW i \in DOMAIN list, NEW j \in DOMAIN list, i < j
        PROVE  /\ ~(Viable(list[j].rec) /\ ~Viable(list[i].rec))
               /\ Viable(list[i].rec) = Viable(list[j].rec) =>
                    /\ Score(list[i].rec) <= Score(list[j].rec)
                    /\ Score(list[i].rec) = Score(list[j].rec) => list[i].name < list[j].name
    <3>. PICK a, b : a = list[i].rec /\ b = list[j].rec
      OBVIOUS
    <3>. PICK E : E = [name : Keys, rec : Records]
      OBVIOUS
    <3>0. list[i] \in E /\ list[j] \in E
      BY <1>3, ElementOfSeq, LenProperties
    <3>1. a \in Records /\ b \in Records
      BY <3>0
    <3>2. Viable(a) \in BOOLEAN /\ Viable(b) \in BOOLEAN /\ Score(a) \in Int /\ Score(b) \in Int
      BY <3>1, ScoresAreNumbers
    <3>3. Outranks(a, b, list[i].name, list[j].name)
      BY <1>6, <2>1
    <3>. QED  BY <3>2, <3>3 DEF Outranks
  <2>2. UsableFirst' <=> \A i, j \in DOMAIN list :
          i < j =>
            /\ ~(Viable(list[j].rec) /\ ~Viable(list[i].rec))
            /\ Viable(list[i].rec) = Viable(list[j].rec) =>
                 /\ Score(list[i].rec) <= Score(list[j].rec)
                 /\ Score(list[i].rec) = Score(list[j].rec) => list[i].name < list[j].name
    BY <1>1 DEF UsableFirst, Viable, Score
  <2>. QED  BY <2>1, <2>2
<1>. QED  BY <1>1, <1>7, <1>8, <1>9, <1>10 DEF ListingIInv

\* Meanwhile an LSP registers or departs: whoever departs is no longer one that had a record all the while.
LEMMA ListingChanges ==
  ASSUME NEW k \in Keys, NEW rec \in Records \union {NoRecord}
  PROVE  ListingIInv /\ Changed(k, rec) => ListingIInv'
<1>. SUFFICES ASSUME ListingIInv, Changed(k, rec)  PROVE  ListingIInv'
  OBVIOUS
<1>1. /\ at \in {"pages", "records"} /\ changes' = changes + 1 /\ changes < Changes
      /\ record' = [record EXCEPT ![k] = rec]
      /\ steady' = IF rec = NoRecord THEN steady \ {k} ELSE steady
      /\ UNCHANGED <<names, cursor, at, listing>>
  BY DEF Changed, ListingIInv, ListingTypeOK
<1>2. steady' \subseteq steady /\ (rec = NoRecord => k \notin steady')
  BY <1>1
<1>3. ListingTypeOK'
  <2>1. changes' \in 0..Changes
    BY <1>1, ListingAssumption DEF ListingIInv, ListingTypeOK
  <2>2. record' \in [Keys -> Records \union {NoRecord}]
    BY <1>1 DEF ListingIInv, ListingTypeOK
  <2>. QED  BY <1>1, <1>2, <2>1, <2>2 DEF ListingIInv, ListingTypeOK
<1>4. steady' \subseteq Here'
  <2>. SUFFICES ASSUME NEW n \in steady'  PROVE  n \in Here'
    OBVIOUS
  <2>1. n \in Keys /\ record[n] # NoRecord /\ record \in [Keys -> Records \union {NoRecord}]
    BY <1>2 DEF ListingIInv, ListingTypeOK, Here
  <2>2. record'[n] # NoRecord
    BY <1>1, <1>2, <2>1
  <2>. QED  BY <2>1, <2>2 DEF Here
<1>5. (Len(names) <= Cap /\ InKeyOrder(names) /\ listing = <<>>)'
  BY <1>1 DEF ListingIInv, InKeyOrder
<1>6. \A n : IsRead(n)' <=> IsRead(n)
  BY <1>1 DEF IsRead
<1>7. CASE at = "pages"
  BY <1>1, <1>2, <1>3, <1>4, <1>5, <1>6, <1>7 DEF ListingIInv
<1>8. CASE at = "records"
  BY <1>1, <1>2, <1>3, <1>4, <1>5, <1>6, <1>8 DEF ListingIInv
<1>. QED  BY <1>1, <1>7, <1>8

LEMMA ListingStep == ListingIInv /\ [ListingNext]_listingVars => ListingIInv'
<1>. SUFFICES ASSUME ListingIInv, [ListingNext]_listingVars  PROVE  ListingIInv'
  OBVIOUS
<1>1. CASE ReadsPage
  BY <1>1, ListingReadsPage
<1>2. CASE ReadsRecords
  BY <1>2, ListingReadsRecords
<1>3. CASE \E k \in Keys, rec \in Records \union {NoRecord} : Changed(k, rec)
  BY <1>3, ListingChanges
<1>4. CASE UNCHANGED listingVars
  BY <1>4 DEF ListingIInv, listingVars, ListingTypeOK, InKeyOrder, Here, IsRead, NobodyIsMissed, UsableFirst,
              Viable, Score
<1>. QED  BY <1>1, <1>2, <1>3, <1>4 DEF ListingNext

LEMMA ListingIsSound == ListingSpec => []ListingIInv
<1>. QED  BY ListingInitIsSound, ListingStep, PTL DEF ListingSpec

(* What GET /lsps keeps while it reads is of its type in every state.     *)
THEOREM ListingTypeCorrect == ListingSpec => []ListingTypeOK
<1>1. ListingIInv => ListingTypeOK
  BY DEF ListingIInv
<1>. QED  BY <1>1, ListingIsSound, PTL

(* However many LSPs there are, whatever the page size and the cap, and    *)
(* whatever registers and departs between two pages: an LSP that was       *)
(* registered all the while is on the answer of GET /lsps, once, unless it *)
(* stands behind a full cap.                                               *)
THEOREM NobodyMissed == ListingSpec => []NobodyIsMissed
<1>1. ListingIInv => NobodyIsMissed
  BY DEF ListingIInv, NobodyIsMissed
<1>. QED  BY <1>1, ListingIsSound, PTL

(* For records with any fee and any uptime: what an https wallet cannot    *)
(* reach stands behind all it can, then the cheaper first, then the order  *)
(* of the names.                                                           *)
THEOREM UsableComeFirst == ListingSpec => []UsableFirst
<1>1. ListingIInv => UsableFirst
  <2>. SUFFICES ASSUME ListingIInv  PROVE  UsableFirst
    OBVIOUS
  <2>1. CASE at = "done"
    BY <2>1 DEF ListingIInv
  <2>2. CASE at # "done"
    BY <2>2 DEF ListingIInv, UsableFirst
  <2>. QED  BY <2>1, <2>2
<1>. QED  BY <1>1, ListingIsSound, PTL

-----------------------------------------------------------------------------
(* Messages.                                                               *)

\* What is picked is an input of its kind.
PickedIsInput ==
  /\ Is("register") => picked.in \in Registrations
  /\ Is("backup") => picked.in \in BackupRequests
  /\ Is("signature") => picked.in \in ByteStrings

LEMMA PicksInputs == MessagesSpec => []PickedIsInput
<1>1. MessagesInit => PickedIsInput
  BY DEF MessagesInit, PickedIsInput, Is
<1>2. PickedIsInput /\ [MessagesNext]_messagesVars => PickedIsInput'
  <2>. SUFFICES ASSUME PickedIsInput, [MessagesNext]_messagesVars  PROVE  PickedIsInput'
    OBVIOUS
  <2>1. ASSUME NEW kind, NEW inputs, Picks(kind, inputs)
        PROVE  \E x \in inputs : picked' = [kind |-> kind, in |-> x]
    BY <2>1 DEF Picks
  <2>2. CASE Picks("register", Registrations)
    BY <2>1, <2>2 DEF PickedIsInput, Is
  <2>3. CASE Picks("backup", BackupRequests)
    BY <2>1, <2>3 DEF PickedIsInput, Is
  <2>4. CASE Picks("signature", ByteStrings)
    BY <2>1, <2>4 DEF PickedIsInput, Is
  <2>5. CASE UNCHANGED messagesVars
    BY <2>5 DEF messagesVars, PickedIsInput, Is
  <2>. QED  BY <2>2, <2>3, <2>4, <2>5 DEF MessagesNext
<1>. QED  BY <1>1, <1>2, PTL DEF MessagesSpec

\* Cleaning a block or a list of routes keeps its shape, and what it says.
LEMMA CleanTataraSays ==
  ASSUME NEW t \in TataraShapes
  PROVE  /\ CleanTatara(t) \in TataraShapes /\ CleanTatara(t) # Null /\ t # Null
         /\ TataraText(CleanTatara(t)) = TataraText(t)
         /\ CleanTatara(t).v = t.v /\ CleanTatara(t).coin_check_url # Blank
         /\ CleanTatara(t).channel_sizes # Null
<1>1. t # Null /\ Null # Blank /\ Null \notin TataraShapes
  BY MessagesAssumption
<1>. DEFINE c == [t EXCEPT !.channel_sizes = ChannelSizes(t), !.coin_check_url = OrNull(@)]
<1>2. CleanTatara(t) = c
  BY <1>1 DEF CleanTatara
<1>3. ChannelSizes(t) \in Seq(Int)
  BY EmptySeq DEF ChannelSizes, TataraShapes
<1>4. /\ c \in TataraShapes /\ c.v = t.v /\ c.min_people = t.min_people /\ c.max_people = t.max_people
      /\ c.sizes = t.sizes /\ c.channel_pools = t.channel_pools /\ c.relay_url = t.relay_url
      /\ c.channel_sizes = ChannelSizes(t) /\ c.coin_check_url = OrNull(t.coin_check_url)
  BY <1>3 DEF TataraShapes, OrNull
<1>5. ChannelSizes(t) # Null
  <2>1. <<>> # Null
    BY EmptySeq, MessagesAssumption
  <2>. QED  BY <2>1 DEF ChannelSizes
<1>6. OrNull(t.coin_check_url) # Blank /\ AsText(OrNull(t.coin_check_url)) = AsText(t.coin_check_url)
  BY <1>1 DEF OrNull, AsText
<1>. HIDE DEF c
<1>7. ChannelSizes(c) = ChannelSizes(t)
  BY <1>4, <1>5 DEF ChannelSizes
<1>8. TataraText(c) = TataraText(t)
  BY <1>1, <1>4, <1>6, <1>7 DEF TataraText
<1>. QED  BY <1>1, <1>2, <1>4, <1>5, <1>6, <1>8

LEMMA CleanRoutesSay ==
  ASSUME NEW rs \in Seq(RouteShapes)
  PROVE  /\ CleanRoutes(rs) \in Seq(RouteShapes) /\ CleanRoutes(rs) # Null /\ rs # Null
         /\ RouteTexts(CleanRoutes(rs)) = RouteTexts(rs)
         /\ \A i \in DOMAIN CleanRoutes(rs) : CleanRoutes(rs)[i].filter_url # Blank
<1>. DEFINE clean(r) == [r EXCEPT !.filter_url = OrNull(@)]
            c == [i \in DOMAIN rs |-> clean(rs[i])]
<1>1. rs # Null /\ Null # Blank /\ Null \notin Seq(RouteShapes)
  BY MessagesAssumption
<1>2. CleanRoutes(rs) = c
  BY <1>1 DEF CleanRoutes
<1>3. ASSUME NEW r \in RouteShapes
      PROVE  clean(r) \in RouteShapes /\ RouteText(clean(r)) = RouteText(r) /\ clean(r).filter_url # Blank
  <2>1. /\ clean(r) \in RouteShapes /\ clean(r).reach = r.reach /\ clean(r).endpoint = r.endpoint
        /\ clean(r).wss_url = r.wss_url /\ clean(r).filter_url = OrNull(r.filter_url)
    BY DEF RouteShapes, OrNull
  <2>2. OrNull(r.filter_url) # Blank /\ AsText(OrNull(r.filter_url)) = AsText(r.filter_url)
    BY <1>1 DEF OrNull, AsText
  <2>. HIDE DEF clean
  <2>. QED  BY <2>1, <2>2 DEF RouteText
<1>4. DOMAIN rs = 1..Len(rs) /\ Len(rs) \in Nat /\ \A i \in DOMAIN rs : rs[i] \in RouteShapes
  BY LenProperties, ElementOfSeq
<1>. HIDE DEF clean
<1>5. c \in [1..Len(rs) -> RouteShapes] /\ DOMAIN c = DOMAIN rs
  BY <1>3, <1>4
<1>6. c \in Seq(RouteShapes)
  BY <1>4, <1>5, SeqDef
<1>7. RouteTexts(c) = RouteTexts(rs)
  BY <1>3, <1>4, <1>5 DEF RouteTexts
<1>8. \A i \in DOMAIN c : c[i].filter_url # Blank
  BY <1>3, <1>4, <1>5
<1>. HIDE DEF c
<1>. QED  BY <1>1, <1>2, <1>6, <1>7, <1>8

\* What is stored of a registration says what was sent, a fee that is no number as 0.
LEMMA StoredSays ==
  ASSUME NEW f \in Registrations, RegisterOk(f)
  PROVE  LET r == Stored(f) IN
         /\ BaseFields(r) = BaseFields(f)
         /\ AsText(r.filter_url) = AsText(f.filter_url) /\ (OrNull(r.filter_url) = Null <=> OrNull(f.filter_url) = Null)
         /\ r.filter_sp = (f.filter_sp /\ OrNull(f.filter_url) # Null)
         /\ (r.tatara = Null <=> f.tatara = Null) /\ TataraText(r.tatara) = TataraText(f.tatara)
         /\ (r.routes = Null <=> f.routes = Null) /\ (f.routes # Null => RouteTexts(r.routes) = RouteTexts(f.routes))
<1>1. Null # Blank /\ NaN \notin Fees
  BY MessagesAssumption
<1>2. \A v : AsText(OrNull(v)) = AsText(v) /\ OrNull(OrNull(v)) = OrNull(v) /\ AsNumber(Number(v)) = AsNumber(v)
  BY <1>1 DEF AsText, OrNull, AsNumber, Number
<1>3. f.tatara # Null => CleanTatara(f.tatara) # Null /\ TataraText(CleanTatara(f.tatara)) = TataraText(f.tatara)
  <2>1. f.tatara # Null => f.tatara \in TataraShapes
    BY MessagesAssumption DEF Registrations
  <2>. QED  BY <2>1, CleanTataraSays
<1>4. f.routes # Null => CleanRoutes(f.routes) # Null /\ RouteTexts(CleanRoutes(f.routes)) = RouteTexts(f.routes)
  <2>1. f.routes # Null => f.routes \in Seq(RouteShapes)
    BY MessagesAssumption DEF Registrations
  <2>. QED  BY <2>1, CleanRoutesSay
<1>5. CleanTatara(Null) = Null /\ CleanRoutes(Null) = Null
  BY DEF CleanTatara, CleanRoutes
<1>. DEFINE r == Stored(f)
<1>6. /\ r.endpoint = f.endpoint /\ r.wss_url = OrNull(f.wss_url) /\ r.fee_ppm = Number(f.fee_ppm)
      /\ r.filter_url = OrNull(f.filter_url) /\ r.filter_sp = (OrNull(f.filter_url) # Null /\ f.filter_sp)
      /\ r.tatara = CleanTatara(f.tatara) /\ r.routes = CleanRoutes(f.routes)
  BY DEF Stored
<1>. HIDE DEF r
<1>7. BaseFields(r) = BaseFields(f)
  BY <1>2, <1>6 DEF BaseFields
<1>8. /\ AsText(r.filter_url) = AsText(f.filter_url) /\ (OrNull(r.filter_url) = Null <=> OrNull(f.filter_url) = Null)
      /\ r.filter_sp = (f.filter_sp /\ OrNull(f.filter_url) # Null)
  BY <1>2, <1>6
<1>9. /\ (r.tatara = Null <=> f.tatara = Null) /\ TataraText(r.tatara) = TataraText(f.tatara)
      /\ (r.routes = Null <=> f.routes = Null) /\ (f.routes # Null => RouteTexts(r.routes) = RouteTexts(f.routes))
  BY <1>3, <1>4, <1>5, <1>6
<1>. QED  BY <1>7, <1>8, <1>9 DEF r

\* An LSP that signs the record it sends is believed, though the door verifies the record it cleaned -
\* save where the record claims filter_sp without a filter_url.
THEOREM HonestAreBelieved == MessagesSpec => []HonestIsBelieved
<1>1. ASSUME NEW f \in Registrations, RegisterOk(f), ~(f.filter_sp /\ OrNull(f.filter_url) = Null)
      PROVE  RegisterText(f) = RegisterText(Stored(f))
  <2>. DEFINE r == Stored(f)
  <2>1. /\ BaseFields(r) = BaseFields(f)
        /\ AsText(r.filter_url) = AsText(f.filter_url) /\ (OrNull(r.filter_url) = Null <=> OrNull(f.filter_url) = Null)
        /\ r.filter_sp = (f.filter_sp /\ OrNull(f.filter_url) # Null)
        /\ (r.tatara = Null <=> f.tatara = Null) /\ TataraText(r.tatara) = TataraText(f.tatara)
        /\ (r.routes = Null <=> f.routes = Null) /\ (f.routes # Null => RouteTexts(r.routes) = RouteTexts(f.routes))
    BY <1>1, StoredSays
  <2>2. f.filter_sp \in BOOLEAN
    BY DEF Registrations
  <2>. HIDE DEF r
  <2>3. AsBit(r.filter_sp) = AsBit(f.filter_sp)
    BY <1>1, <2>1, <2>2 DEF AsBit
  <2>4. FilterFields(r) = FilterFields(f)
    BY <2>1, <2>3 DEF FilterFields
  <2>5. RegisterText(r) = RegisterText(f)
    BY <2>1, <2>4 DEF RegisterText
  <2>. QED  BY <2>5 DEF r
<1>2. PickedIsInput => HonestIsBelieved
  BY <1>1 DEF PickedIsInput, HonestIsBelieved
<1>. QED  BY <1>2, PicksInputs, PTL

\* Where the first parts, or the second, are equally long, the cut is at the same place.
LEMMA CutAlike ==
  ASSUME NEW U, NEW s1 \in Seq(U), NEW t1 \in Seq(U), NEW s2 \in Seq(U), NEW t2 \in Seq(U),
         Cat(s1, t1) = Cat(s2, t2), Len(s1) = Len(s2) \/ Len(t1) = Len(t2)
  PROVE  s1 = s2 /\ t1 = t2
<1>1. Len(s1) \in Nat /\ Len(t1) \in Nat /\ Len(s2) \in Nat /\ Len(t2) \in Nat
  BY LenProperties
<1>2. Len(Cat(s1, t1)) = Len(s1) + Len(t1) /\ Len(Cat(s2, t2)) = Len(s2) + Len(t2)
  BY Joined
<1>3. Len(s1) = Len(s2) /\ Len(t1) = Len(t2)
  BY <1>1, <1>2
<1>4. ASSUME NEW i \in 1..Len(s1)  PROVE  s1[i] = s2[i]
  <2>1. Cat(s1, t1)[i] = s1[i]
    BY JoinedFirst
  <2>2. Cat(s2, t2)[i] = s2[i]
    BY <1>3, JoinedFirst
  <2>. QED  BY <2>1, <2>2
<1>5. ASSUME NEW i \in 1..Len(t1)  PROVE  t1[i] = t2[i]
  <2>. PICK j \in Nat : j = Len(s1) + i
    BY <1>1
  <2>1. Cat(s1, t1)[j] = t1[i]
    BY JoinedSecond
  <2>2. Cat(s2, t2)[j] = t2[i]
    BY <1>3, JoinedSecond
  <2>. QED  BY <2>1, <2>2
<1>. QED  BY <1>3, <1>4, <1>5, SeqEqual

\* What stands first in a digest's input: its version, then the action.
Opening(v, a, n, k) == Cat(Cat(Cat(<<v>>, a), n), k)

LEMMA OpeningStands ==
  ASSUME NEW U, NEW v \in U, NEW a \in Seq(U), Len(a) >= 1, NEW n \in Seq(U), NEW k \in Seq(U)
  PROVE  /\ Opening(v, a, n, k) \in Seq(U) /\ Len(Opening(v, a, n, k)) = 1 + Len(a) + Len(n) + Len(k)
         /\ Opening(v, a, n, k)[1] = v /\ Opening(v, a, n, k)[2] = a[1]
<1>. DEFINE h == <<v>>
            x == Cat(h, a)
            y == Cat(x, n)
            z == Cat(y, k)
<1>1. h \in Seq(U) /\ Len(h) = 1 /\ h[1] = v
  OBVIOUS
<1>. HIDE DEF h
<1>2. x \in Seq(U) /\ Len(x) = Len(h) + Len(a)
  BY <1>1, Joined
<1>3. x[1] = h[1]
  <2>1. 1 \in 1..Len(h)
    BY <1>1
  <2>2. h \in Seq(U)
    BY <1>1
  <2>. QED  BY <2>1, <2>2, JoinedFirst
<1>4. x[2] = a[1]
  <2>1. 1 \in 1..Len(a) /\ 2 \in Nat /\ 2 = Len(h) + 1
    BY <1>1, LenProperties
  <2>2. h \in Seq(U)
    BY <1>1
  <2>. QED  BY <2>1, <2>2, JoinedSecond
<1>. HIDE DEF x
<1>5. y \in Seq(U) /\ Len(y) = Len(x) + Len(n)
  BY <1>2, Joined
<1>6. 1 \in 1..Len(x) /\ 2 \in 1..Len(x)
  BY <1>1, <1>2, LenProperties
<1>7. y[1] = x[1] /\ y[2] = x[2]
  BY <1>2, <1>6, JoinedFirst
<1>. HIDE DEF y
<1>8. z \in Seq(U) /\ Len(z) = Len(y) + Len(k)
  BY <1>5, Joined
<1>9. 1 \in 1..Len(y) /\ 2 \in 1..Len(y)
  BY <1>2, <1>5, <1>6, LenProperties
<1>10. z[1] = y[1] /\ z[2] = y[2]
  BY <1>5, <1>9, JoinedFirst
<1>11. z = Opening(v, a, n, k)
  BY DEF Opening, x, y, h
<1>. HIDE DEF z
<1>12. Len(z) = 1 + Len(a) + Len(n) + Len(k)
  BY <1>1, <1>2, <1>5, <1>8
<1>. QED  BY <1>1, <1>3, <1>4, <1>7, <1>8, <1>10, <1>11, <1>12

LEMMA SameOpening ==
  ASSUME NEW U, NEW v \in U, NEW v2 \in U, NEW a \in Actions, NEW a2 \in Actions,
         ActionBytes(a) \in Seq(U), ActionBytes(a2) \in Seq(U),
         NEW n \in Seq(U), NEW n2 \in Seq(U), NEW k \in Seq(U), NEW k2 \in Seq(U), Len(n) = Len(n2),
         Opening(v, ActionBytes(a), n, k) = Opening(v2, ActionBytes(a2), n2, k2)
  PROVE  v = v2 /\ a = a2 /\ n = n2 /\ k = k2
<1>. DEFINE b == ActionBytes(a)
            b2 == ActionBytes(a2)
<1>1. Len(b) >= 1 /\ Len(b2) >= 1
  BY DEF ActionBytes, Actions
<1>2. b[1] = b2[1] => a = a2
  BY DEF ActionBytes, Actions
<1>. HIDE DEF b, b2
<1>3. b \in Seq(U) /\ b2 \in Seq(U) /\ Opening(v, b, n, k) = Opening(v2, b2, n2, k2)
  BY DEF b, b2
<1>4. Opening(v, b, n, k)[1] = v /\ Opening(v, b, n, k)[2] = b[1]
  <2>1. b \in Seq(U) /\ Len(b) >= 1
    BY <1>1, <1>3
  <2>. QED  BY <2>1, OpeningStands
<1>5. Opening(v2, b2, n2, k2)[1] = v2 /\ Opening(v2, b2, n2, k2)[2] = b2[1]
  <2>1. b2 \in Seq(U) /\ Len(b2) >= 1
    BY <1>1, <1>3
  <2>. QED  BY <2>1, OpeningStands
<1>6. v = v2 /\ a = a2 /\ b = b2
  BY <1>2, <1>3, <1>4, <1>5 DEF b, b2
<1>. DEFINE x == Cat(<<v>>, b)
<1>7. <<v>> \in Seq(U)
  OBVIOUS
<1>8. x \in Seq(U)
  BY <1>3, <1>7, Joined
<1>9. Cat(Cat(x, n), k) = Cat(Cat(x, n2), k2)
  BY <1>3, <1>6 DEF Opening
<1>. HIDE DEF x
<1>10. Cat(x, n) \in Seq(U) /\ Len(Cat(x, n)) = Len(x) + Len(n)
  BY <1>8, Joined
<1>11. Cat(x, n2) \in Seq(U) /\ Len(Cat(x, n2)) = Len(x) + Len(n2)
  BY <1>8, Joined
<1>12. Len(Cat(x, n)) = Len(Cat(x, n2))
  BY <1>10, <1>11
<1>13. Cat(x, n) = Cat(x, n2) /\ k = k2
  BY <1>9, <1>10, <1>11, <1>12, CutAlike
<1>14. n = n2
  BY <1>8, <1>13, CutAlike
<1>. QED  BY <1>6, <1>13, <1>14

\* A wallet's signature is good for the one request that it was made for: no two requests with nonces of
\* the one length make the same digest, though nothing stands between the parts of it.
THEOREM DigestsTell == MessagesSpec => []DigestTellsRequest
<1>1. ASSUME NEW q \in BackupRequests, NEW r \in BackupRequests, NonceOk(q.nonce), NonceOk(r.nonce),
             DigestInput(r) = DigestInput(q)
      PROVE  r = q
  <2>. DEFINE U == Int \union {"p", "r", "f", "t"} \union Range(q.nonce) \union Range(q.pubkey)
                     \union Range(r.nonce) \union Range(r.pubkey)
              head(s) == Opening(s.auth_v, ActionBytes(s.action), s.nonce, s.pubkey)
              tail(s) == Cat(Cat(head(s), <<s.fingerprint>>), VersionBytes(s.version))
  <2>1. ASSUME NEW s \in {q, r}
        PROVE  /\ s.auth_v \in {1, 2} /\ s.action \in Actions /\ ActionBytes(s.action) \in Seq(U)
               /\ s.nonce \in Seq(U) /\ s.pubkey \in Seq(U) /\ Len(s.nonce) = NonceLength
               /\ <<s.fingerprint>> \in Seq(U) /\ VersionBytes(s.version) \in Seq(U)
               /\ Len(VersionBytes(s.version)) = 2
               /\ s.auth_v = 2 => DigestInput(s) = tail(s)
               /\ s.auth_v = 1 => DigestInput(s) = head(s) /\ s.fingerprint = 0 /\ s.version = 0
               /\ s = [auth_v |-> s.auth_v, action |-> s.action, nonce |-> s.nonce, pubkey |-> s.pubkey,
                       fingerprint |-> s.fingerprint, version |-> s.version]
    <3>1. /\ s.auth_v \in {1, 2} /\ s.action \in Actions /\ s.nonce \in HexStrings /\ s.pubkey \in HexStrings
          /\ s.fingerprint \in {0, 1} /\ s.version \in {0, 1, 16}
          /\ s.auth_v = 1 => s.fingerprint = 0 /\ s.version = 0
          /\ s = [auth_v |-> s.auth_v, action |-> s.action, nonce |-> s.nonce, pubkey |-> s.pubkey,
                  fingerprint |-> s.fingerprint, version |-> s.version]
      BY DEF BackupRequests
    <3>2. s.nonce \in Seq(Range(s.nonce)) /\ s.pubkey \in Seq(Range(s.pubkey))
      BY <3>1, MessagesAssumption
    <3>3. Range(s.nonce) \subseteq U /\ Range(s.pubkey) \subseteq U
      OBVIOUS
    <3>4. \A S, T : S \subseteq T => Seq(S) \subseteq Seq(T)
      BY SeqDef
    <3>5. s.nonce \in Seq(U) /\ s.pubkey \in Seq(U)
      BY <3>2, <3>3, <3>4
    <3>6. ActionBytes(s.action) \in Seq(U)
      <4>. DEFINE b == ActionBytes(s.action)
      <4>1. b \in {<<"p">>, <<"r">>, <<"f", "t">>}
        BY <3>1 DEF ActionBytes, Actions
      <4>2. "p" \in U /\ "r" \in U /\ "f" \in U /\ "t" \in U
        OBVIOUS
      <4>. HIDE DEF b, U
      <4>3. <<"p">> \in Seq(U) /\ <<"r">> \in Seq(U) /\ <<"f", "t">> \in Seq(U)
        BY <4>2
      <4>. QED  BY <4>1, <4>3 DEF b
    <3>7. <<s.fingerprint>> \in Seq(U)
      BY <3>1
    <3>8. VersionBytes(s.version) \in Seq(U) /\ Len(VersionBytes(s.version)) = 2
      BY <3>1 DEF VersionBytes
    <3>9. s.auth_v = 2 => DigestInput(s) = tail(s)
      BY Zenon DEF DigestInput, Opening, Cat
    <3>10. s.auth_v = 1 => DigestInput(s) = head(s)
      <4>1. s.auth_v = 1 => s.auth_v # 2
        OBVIOUS
      <4>. QED  BY <4>1, Zenon DEF DigestInput, Opening, Cat
    <3>11. Len(s.nonce) = NonceLength
      BY <1>1 DEF NonceOk
    <3>. QED  BY <3>1, <3>5, <3>6, <3>7, <3>8, <3>9, <3>10, <3>11
  <2>2. {1, 2} \subseteq U
    OBVIOUS
  <2>. HIDE DEF U
  <2>3. ASSUME NEW s \in {q, r}
        PROVE  head(s) \in Seq(U) /\ head(s)[1] = s.auth_v /\ Len(head(s)) >= 1
    <3>1. Len(ActionBytes(s.action)) >= 1
      BY <2>1 DEF ActionBytes, Actions
    <3>2. s.auth_v \in U /\ ActionBytes(s.action) \in Seq(U) /\ s.nonce \in Seq(U) /\ s.pubkey \in Seq(U)
      BY <2>1, <2>2
    <3>3. PICK v, a, n, k : v = s.auth_v /\ a = ActionBytes(s.action) /\ n = s.nonce /\ k = s.pubkey
      OBVIOUS
    <3>4. v \in U /\ a \in Seq(U) /\ n \in Seq(U) /\ k \in Seq(U) /\ Len(a) >= 1
      BY <3>1, <3>2, <3>3
    <3>5. Opening(v, a, n, k) \in Seq(U)
      BY <3>4, OpeningStands
    <3>6. Opening(v, a, n, k)[1] = v
      BY <3>4, OpeningStands
    <3>7. Len(Opening(v, a, n, k)) = 1 + Len(a) + Len(n) + Len(k)
      BY <3>4, OpeningStands
    <3>8. Len(a) \in Nat /\ Len(n) \in Nat /\ Len(k) \in Nat
      BY <3>4, LenProperties
    <3>9. Len(Opening(v, a, n, k)) >= 1
      BY <3>7, <3>8
    <3>10. head(s) = Opening(v, a, n, k)
      BY <3>3
    <3>. HIDE DEF head
    <3>. QED  BY <3>3, <3>5, <3>6, <3>9, <3>10
  <2>4. head(q) = head(r) => /\ q.auth_v = r.auth_v /\ q.action = r.action
                             /\ q.nonce = r.nonce /\ q.pubkey = r.pubkey
    <3>. SUFFICES ASSUME head(q) = head(r)
                  PROVE  q.auth_v = r.auth_v /\ q.action = r.action /\ q.nonce = r.nonce /\ q.pubkey = r.pubkey
      OBVIOUS
    <3>1. /\ q.auth_v \in U /\ r.auth_v \in U /\ q.action \in Actions /\ r.action \in Actions
          /\ ActionBytes(q.action) \in Seq(U) /\ ActionBytes(r.action) \in Seq(U)
          /\ q.nonce \in Seq(U) /\ r.nonce \in Seq(U) /\ q.pubkey \in Seq(U) /\ r.pubkey \in Seq(U)
          /\ Len(q.nonce) = Len(r.nonce)
      BY <2>1, <2>2
    <3>2. Opening(q.auth_v, ActionBytes(q.action), q.nonce, q.pubkey)
            = Opening(r.auth_v, ActionBytes(r.action), r.nonce, r.pubkey)
      OBVIOUS
    <3>3. PICK v, a, n, k : v = q.auth_v /\ a = q.action /\ n = q.nonce /\ k = q.pubkey
      OBVIOUS
    <3>4. PICK v2, a2, n2, k2 : v2 = r.auth_v /\ a2 = r.action /\ n2 = r.nonce /\ k2 = r.pubkey
      OBVIOUS
    <3>5. /\ v \in U /\ v2 \in U /\ a \in Actions /\ a2 \in Actions
          /\ ActionBytes(a) \in Seq(U) /\ ActionBytes(a2) \in Seq(U)
          /\ n \in Seq(U) /\ n2 \in Seq(U) /\ k \in Seq(U) /\ k2 \in Seq(U) /\ Len(n) = Len(n2)
          /\ Opening(v, ActionBytes(a), n, k) = Opening(v2, ActionBytes(a2), n2, k2)
      BY <3>1, <3>2, <3>3, <3>4
    <3>6. v = v2 /\ a = a2 /\ n = n2 /\ k = k2
      BY <3>5, SameOpening
    <3>. QED  BY <3>3, <3>4, <3>6
  <2>. HIDE DEF head
  <2>5. ASSUME NEW s \in {q, r}
        PROVE  /\ Cat(head(s), <<s.fingerprint>>) \in Seq(U)
               /\ Cat(head(s), <<s.fingerprint>>)[1] = s.auth_v /\ tail(s)[1] = s.auth_v
    <3>. DEFINE x == Cat(head(s), <<s.fingerprint>>)
    <3>1. head(s) \in Seq(U) /\ <<s.fingerprint>> \in Seq(U) /\ VersionBytes(s.version) \in Seq(U)
      BY <2>1, <2>3
    <3>2. x \in Seq(U) /\ Len(x) = Len(head(s)) + Len(<<s.fingerprint>>)
      BY <3>1, Joined
    <3>3. 1 \in 1..Len(head(s)) /\ Len(<<s.fingerprint>>) = 1
      BY <2>3, <3>1, LenProperties
    <3>4. x[1] = head(s)[1]
      <4>1. PICK g, f : g = head(s) /\ f = <<s.fingerprint>>
        OBVIOUS
      <4>2. g \in Seq(U) /\ f \in Seq(U) /\ 1 \in 1..Len(g)
        BY <3>1, <3>3, <4>1
      <4>3. Cat(g, f)[1] = g[1]
        BY <4>2, JoinedFirst
      <4>. QED  BY <4>1, <4>3
    <3>5. 1 \in 1..Len(x)
      BY <3>2, <3>3
    <3>. HIDE DEF x
    <3>6. Cat(x, VersionBytes(s.version))[1] = x[1]
      BY <3>1, <3>2, <3>5, JoinedFirst
    <3>. QED  BY <2>3, <3>2, <3>4, <3>6 DEF x
  <2>6. q.auth_v = r.auth_v
    BY <1>1, <2>1, <2>3, <2>5
  <2>7. CASE q.auth_v = 1
    BY <1>1, <2>1, <2>4, <2>6, <2>7
  <2>8. CASE q.auth_v = 2
    <3>1. tail(q) = tail(r)
      BY <1>1, <2>1, <2>6, <2>8
    <3>2. Cat(head(q), <<q.fingerprint>>) = Cat(head(r), <<r.fingerprint>>)
          /\ VersionBytes(q.version) = VersionBytes(r.version)
      <4>1. PICK s1, t1, s2, t2 : /\ s1 = Cat(head(q), <<q.fingerprint>>) /\ t1 = VersionBytes(q.version)
                                  /\ s2 = Cat(head(r), <<r.fingerprint>>) /\ t2 = VersionBytes(r.version)
        OBVIOUS
      <4>2. s1 \in Seq(U) /\ t1 \in Seq(U) /\ s2 \in Seq(U) /\ t2 \in Seq(U) /\ Len(t1) = Len(t2)
        BY <2>1, <2>5, <4>1
      <4>3. Cat(s1, t1) = Cat(s2, t2)
        BY <3>1, <4>1
      <4>4. s1 = s2 /\ t1 = t2
        BY <4>2, <4>3, CutAlike
      <4>. QED  BY <4>1, <4>4
    <3>3. head(q) = head(r) /\ <<q.fingerprint>> = <<r.fingerprint>>
      <4>1. PICK s1, t1, s2, t2 : s1 = head(q) /\ t1 = <<q.fingerprint>> /\ s2 = head(r) /\ t2 = <<r.fingerprint>>
        OBVIOUS
      <4>2. s1 \in Seq(U) /\ t1 \in Seq(U) /\ s2 \in Seq(U) /\ t2 \in Seq(U) /\ Len(t1) = 1 /\ Len(t2) = 1
        BY <2>1, <2>3, <4>1
      <4>3. Cat(s1, t1) = Cat(s2, t2) /\ Len(t1) = Len(t2)
        BY <3>2, <4>1, <4>2
      <4>4. s1 = s2 /\ t1 = t2
        BY <4>2, <4>3, CutAlike
      <4>. QED  BY <4>1, <4>4
    <3>4. q.fingerprint = r.fingerprint
      BY <3>3
    <3>5. q.version = r.version
      BY <3>2 DEF VersionBytes, BackupRequests
    <3>. QED  BY <2>1, <2>4, <3>3, <3>4, <3>5
  <2>. QED  BY <2>1, <2>7, <2>8
<1>2. PickedIsInput => DigestTellsRequest
  BY <1>1 DEF PickedIsInput, DigestTellsRequest
<1>. QED  BY <1>2, PicksInputs, PTL

-----------------------------------------------------------------------------
(* The decoder.  Everything that it holds after n characters is a function *)
(* of n alone: the characters are cut out of one string of bits, eight of  *)
(* them at a time make a byte again, and the accumulator's low bits are    *)
(* those of the last five characters.                                      *)

\* A byte is the sum of its bits.
LEMMA ByteIsItsBits ==
  ASSUME NEW x \in 0..255
  PROVE  x = 128 * ((x \div 128) % 2) + 64 * ((x \div 64) % 2) + 32 * ((x \div 32) % 2) + 16 * ((x \div 16) % 2)
             + 8 * ((x \div 8) % 2) + 4 * ((x \div 4) % 2) + 2 * ((x \div 2) % 2) + ((x \div 1) % 2)
<1>1. \A y \in Nat : y = 2 * (y \div 2) + (y % 2) /\ y \div 2 \in Nat
  OBVIOUS
<1>2. x \in Nat /\ x < 256 /\ x \div 1 = x
  OBVIOUS
<1>3. x \div 4 = (x \div 2) \div 2 /\ x \div 8 = (x \div 4) \div 2
  BY ONLY x \in 0..255
<1>4. x \div 16 = (x \div 8) \div 2 /\ x \div 32 = (x \div 16) \div 2
  BY ONLY x \in 0..255
<1>5. x \div 64 = (x \div 32) \div 2 /\ x \div 128 = (x \div 64) \div 2
  BY ONLY x \in 0..255
<1>6. (x \div 128) % 2 = x \div 128
  BY ONLY x \in 0..255
<1>. PICK a \in Nat : a = x \div 2
  BY <1>1, <1>2
<1>. PICK b \in Nat : b = x \div 4
  BY <1>1, <1>3
<1>. PICK c \in Nat : c = x \div 8
  BY <1>1, <1>3
<1>. PICK d \in Nat : d = x \div 16
  BY <1>1, <1>4
<1>. PICK e \in Nat : e = x \div 32
  BY <1>1, <1>4
<1>. PICK f \in Nat : f = x \div 64
  BY <1>1, <1>5
<1>. PICK g \in Nat : g = x \div 128
  BY <1>1, <1>5
<1>7. /\ x = 2 * a + (x % 2) /\ a = 2 * b + (a % 2) /\ b = 2 * c + (b % 2) /\ c = 2 * d + (c % 2)
      /\ d = 2 * e + (d % 2) /\ e = 2 * f + (e % 2) /\ f = 2 * g + (f % 2) /\ g % 2 = g
  BY ONLY <1>1, <1>2, <1>3, <1>4, <1>5, <1>6, a \in Nat, b \in Nat, c \in Nat, d \in Nat, e \in Nat, f \in Nat,
          a = x \div 2, b = x \div 4, c = x \div 8, d = x \div 16, e = x \div 32, f = x \div 64, g = x \div 128
<1>8. x = 128 * (g % 2) + 64 * (f % 2) + 32 * (e % 2) + 16 * (d % 2) + 8 * (c % 2) + 4 * (b % 2) + 2 * (a % 2) + (x % 2)
  BY ONLY <1>7, <1>2, a \in Nat, b \in Nat, c \in Nat, d \in Nat, e \in Nat, f \in Nat, g \in Nat
<1>. QED  BY ONLY <1>8, <1>2, a = x \div 2, b = x \div 4, c = x \div 8, d = x \div 16, e = x \div 32,
                  f = x \div 64, g = x \div 128

\* The low 25 bits of an accumulator that has taken n characters: the last five of them.
CharAt(c, n) == IF n \in DOMAIN c THEN c[n] ELSE 0
LowBits(c, n) ==
  CharAt(c, n) + 32 * CharAt(c, n - 1) + 1024 * CharAt(c, n - 2)
            + 32768 * CharAt(c, n - 3) + 1048576 * CharAt(c, n - 4)

FiveBits(a, b, c, d, e) == 16 * a + 8 * b + 4 * c + 2 * d + e
EightBits(a, b, c, d, e, f, g, h) == 128 * a + 64 * b + 32 * c + 16 * d + 8 * e + 4 * f + 2 * g + h

\* A byte that stands above `low` is cut out by a shift and a mask, whatever stands above it.
LEMMA CutByte ==
  ASSUME NEW x \in Nat, NEW y \in 0..255, NEW low \in Nat
  PROVE  /\ low < 2 => (((256 * x + y) * 2 + low) \div 2) % 256 = y
         /\ low < 4 => (((256 * x + y) * 4 + low) \div 4) % 256 = y
         /\ low < 8 => (((256 * x + y) * 8 + low) \div 8) % 256 = y
         /\ low < 16 => (((256 * x + y) * 16 + low) \div 16) % 256 = y
         /\ ((256 * x + y) \div 1) % 256 = y
<1>2. (256 * x + y) % 256 = y
  OBVIOUS
<1>3. /\ low < 2 => ((256 * x + y) * 2 + low) \div 2 = 256 * x + y
      /\ low < 4 => ((256 * x + y) * 4 + low) \div 4 = 256 * x + y
      /\ low < 8 => ((256 * x + y) * 8 + low) \div 8 = 256 * x + y
      /\ low < 16 => ((256 * x + y) * 16 + low) \div 16 = 256 * x + y
      /\ (256 * x + y) \div 1 = 256 * x + y
  <2>1. low < 2 => ((256 * x + y) * 2 + low) \div 2 = 256 * x + y
    OBVIOUS
  <2>2. low < 4 => ((256 * x + y) * 4 + low) \div 4 = 256 * x + y
    OBVIOUS
  <2>3. low < 8 => ((256 * x + y) * 8 + low) \div 8 = 256 * x + y
    OBVIOUS
  <2>4. low < 16 => ((256 * x + y) * 16 + low) \div 16 = 256 * x + y
    OBVIOUS
  <2>5. (256 * x + y) \div 1 = 256 * x + y
    OBVIOUS
  <2>. QED  BY <2>1, <2>2, <2>3, <2>4, <2>5
<1>. QED  BY <1>2, <1>3

\* The powers that the shifts use.
LEMMA TwoTos ==
  /\ TwoTo(7) = 128 /\ TwoTo(6) = 64 /\ TwoTo(5) = 32 /\ TwoTo(4) = 16
  /\ TwoTo(3) = 8 /\ TwoTo(2) = 4 /\ TwoTo(1) = 2 /\ TwoTo(0) = 1
  /\ \A i \in 0..7 : TwoTo(i) \in Nat \ {0}
<1>1. /\ TwoTo(7) = 128 /\ TwoTo(6) = 64 /\ TwoTo(5) = 32 /\ TwoTo(4) = 16
      /\ TwoTo(3) = 8 /\ TwoTo(2) = 4 /\ TwoTo(1) = 2 /\ TwoTo(0) = 1
  BY DEF TwoTo
<1>2. ASSUME NEW i \in 0..7  PROVE  TwoTo(i) \in Nat \ {0}
  <2>1. i = 0 \/ i = 1 \/ i = 2 \/ i = 3 \/ i = 4 \/ i = 5 \/ i = 6 \/ i = 7
    BY ONLY i \in 0..7
  <2>. QED  BY ONLY <1>1, <2>1
<1>. QED  BY ONLY <1>1, <1>2

\* The byte j of a string is the eight bits from 8 * (j - 1) on.
ByteFrom(b, k) ==
  EightBits(BitOf(b, k), BitOf(b, k + 1), BitOf(b, k + 2), BitOf(b, k + 3),
        BitOf(b, k + 4), BitOf(b, k + 5), BitOf(b, k + 6), BitOf(b, k + 7))

LEMMA BitsOfByte ==
  ASSUME NEW b \in Seq(0..255), NEW j \in 1..Len(b), NEW k \in Int, k = 8 * (j - 1)
  PROVE  b[j] = ByteFrom(b, k)
<1>. PICK x \in 0..255 : x = b[j]
  BY LenProperties, ElementOfSeq
<1>1. Len(b) \in Nat
  BY LenProperties
<1>2. ASSUME NEW i \in 0..7  PROVE  BitOf(b, k + i) = (x \div TwoTo(7 - i)) % 2
  <2>1. (k + i) \div 8 = j - 1 /\ (k + i) % 8 = i
    <3>. PICK q \in Nat : q = j - 1
      BY <1>1
    <3>1. k + i = 8 * q + i
      OBVIOUS
    <3>2. (8 * q + i) \div 8 = q /\ (8 * q + i) % 8 = i
      OBVIOUS
    <3>. QED  BY <3>1, <3>2
  <2>2. ~(j - 1 >= Len(b)) /\ j - 1 + 1 = j
    BY <1>1
  <2>. QED  BY <2>1, <2>2 DEF BitOf
<1>4. /\ BitOf(b, k) = (x \div 128) % 2 /\ BitOf(b, k + 1) = (x \div 64) % 2
      /\ BitOf(b, k + 2) = (x \div 32) % 2 /\ BitOf(b, k + 3) = (x \div 16) % 2
      /\ BitOf(b, k + 4) = (x \div 8) % 2 /\ BitOf(b, k + 5) = (x \div 4) % 2
      /\ BitOf(b, k + 6) = (x \div 2) % 2 /\ BitOf(b, k + 7) = (x \div 1) % 2
  <2>1. BitOf(b, k + 0) = (x \div 128) % 2 /\ k + 0 = k
    BY <1>2, TwoTos
  <2>2. BitOf(b, k + 1) = (x \div 64) % 2 /\ BitOf(b, k + 2) = (x \div 32) % 2
    BY <1>2, TwoTos
  <2>3. BitOf(b, k + 3) = (x \div 16) % 2 /\ BitOf(b, k + 4) = (x \div 8) % 2
    BY <1>2, TwoTos
  <2>4. BitOf(b, k + 5) = (x \div 4) % 2 /\ BitOf(b, k + 6) = (x \div 2) % 2
    BY <1>2, TwoTos
  <2>5. BitOf(b, k + 7) = (x \div 1) % 2
    BY <1>2, TwoTos
  <2>. QED  BY <2>1, <2>2, <2>3, <2>4, <2>5
<1>5. x = EightBits((x \div 128) % 2, (x \div 64) % 2, (x \div 32) % 2, (x \div 16) % 2,
                   (x \div 8) % 2, (x \div 4) % 2, (x \div 2) % 2, (x \div 1) % 2)
  BY ONLY x \in 0..255, ByteIsItsBits, ZenonT(30) DEF EightBits
<1>. QED  BY ONLY <1>4, <1>5, x = b[j] DEF ByteFrom

\* What is read of a string of bytes, beyond its end too, is a bit.
LEMMA Halves == (\A y \in Nat : y % 2 \in {0, 1}) /\ (\A x \in Nat, m \in Nat \ {0} : x \div m \in Nat)
OBVIOUS

LEMMA BitIsBit ==
  ASSUME NEW b \in Seq(0..255), NEW k \in Nat
  PROVE  BitOf(b, k) \in {0, 1}
<1>1. Len(b) \in Nat /\ (k \div 8) \in Nat /\ (k % 8) \in 0..7
  BY LenProperties
<1>2. CASE k \div 8 >= Len(b)
  BY <1>2 DEF BitOf
<1>3. CASE ~(k \div 8 >= Len(b))
  <2>1. k \div 8 + 1 \in 1..Len(b)
    BY <1>1, <1>3
  <2>. PICK x \in 0..255 : x = b[k \div 8 + 1]
    BY <2>1, ElementOfSeq
  <2>. PICK i \in 0..7 : i = 7 - (k % 8)
    BY <1>1
  <2>3. TwoTo(i) \in Nat \ {0}
    BY ONLY i \in 0..7, TwoTos
  <2>. PICK m \in Nat \ {0} : m = TwoTo(i)
    BY <2>3
  <2>4. x \in Nat
    BY ONLY x \in 0..255
  <2>6. x \div m \in Nat
    BY <2>4, Halves
  <2>5. (x \div m) % 2 \in {0, 1}
    BY <2>6, Halves
  <2>. QED  BY <1>3, <2>5 DEF BitOf
<1>. QED  BY <1>2, <1>3

LEMMA FiveBitsFit == \A a, b, c, d, e \in {0, 1} : FiveBits(a, b, c, d, e) \in 0..31
BY DEF FiveBits

\* The n-th character holds the five bits from 5 * (n - 1) on.
LEMMA CharIs ==
  ASSUME NEW b \in Seq(0..255), NEW n \in Nat, n >= 1, n <= (8 * Len(b) + 4) \div 5, NEW k \in Nat, k = 5 * (n - 1)
  PROVE  /\ CharAt(Zbase32(b), n) =
            FiveBits(BitOf(b, k), BitOf(b, k + 1), BitOf(b, k + 2), BitOf(b, k + 3), BitOf(b, k + 4))
         /\ CharAt(Zbase32(b), n) = Zbase32(b)[n] /\ CharAt(Zbase32(b), n) \in 0..31
<1>. PICK N \in Nat : N = (8 * Len(b) + 4) \div 5
  <2>1. Len(b) \in Nat
    BY LenProperties
  <2>. QED  BY <2>1
<1>0. n \in 1..N /\ 5 * (n - 1) = k
  OBVIOUS
<1>1. n \in DOMAIN Zbase32(b)
      /\ Zbase32(b)[n] = FiveBits(BitOf(b, k), BitOf(b, k + 1), BitOf(b, k + 2), BitOf(b, k + 3), BitOf(b, k + 4))
  <2>. DEFINE z(i) == 16 * BitOf(b, 5 * (i - 1)) + 8 * BitOf(b, 5 * (i - 1) + 1) + 4 * BitOf(b, 5 * (i - 1) + 2)
                      + 2 * BitOf(b, 5 * (i - 1) + 3) + BitOf(b, 5 * (i - 1) + 4)
  <2>1. Zbase32(b) = [i \in 1..N |-> z(i)]
    BY DEF Zbase32
  <2>2. z(n) = FiveBits(BitOf(b, k), BitOf(b, k + 1), BitOf(b, k + 2), BitOf(b, k + 3), BitOf(b, k + 4))
    BY <1>0 DEF FiveBits
  <2>. HIDE DEF z
  <2>. QED  BY <1>0, <2>1, <2>2
<1>2. /\ BitOf(b, k) \in {0, 1} /\ BitOf(b, k + 1) \in {0, 1} /\ BitOf(b, k + 2) \in {0, 1}
      /\ BitOf(b, k + 3) \in {0, 1} /\ BitOf(b, k + 4) \in {0, 1}
  BY BitIsBit
<1>3. FiveBits(BitOf(b, k), BitOf(b, k + 1), BitOf(b, k + 2), BitOf(b, k + 3), BitOf(b, k + 4)) \in 0..31
  BY ONLY <1>2, FiveBitsFit, ZenonT(30)
<1>. QED  BY <1>1, <1>3 DEF CharAt

\* z is the bits around a byte, whose own are z[0] to z[7]: it ends in a character, or up to four bits before
\* the end of one, and is found again in the last two or three characters.
Weigh(a, b, c, d, e) == a + 32 * b + 1024 * c + 32768 * d + 1048576 * e

Bit == {0, 1}
CharFrom(z, i) == FiveBits(z[i], z[i + 1], z[i + 2], z[i + 3], z[i + 4])
ByteOf(z) == EightBits(z[0], z[1], z[2], z[3], z[4], z[5], z[6], z[7])

ByteLies(z, c, d, e) ==
  /\ (Weigh(CharFrom(z, 3), CharFrom(z, -2), c, d, e) \div 1) % 256 = ByteOf(z)
  /\ (Weigh(CharFrom(z, 4), CharFrom(z, -1), c, d, e) \div 2) % 256 = ByteOf(z)
  /\ (Weigh(CharFrom(z, 5), CharFrom(z, 0), c, d, e) \div 4) % 256 = ByteOf(z)
  /\ (Weigh(CharFrom(z, 6), CharFrom(z, 1), CharFrom(z, -4), d, e) \div 8) % 256 = ByteOf(z)
  /\ (Weigh(CharFrom(z, 7), CharFrom(z, 2), CharFrom(z, -3), d, e) \div 16) % 256 = ByteOf(z)

LEMMA EndsAnywhere ==
  ASSUME NEW z \in [-4..11 -> Bit], NEW c \in 0..31, NEW d \in 0..31, NEW e \in 0..31
  PROVE  ByteLies(z, c, d, e)
<1>. PICK y4 \in Bit : y4 = z[-4]
  OBVIOUS
<1>. PICK y3 \in Bit : y3 = z[-3]
  OBVIOUS
<1>. PICK y2 \in Bit : y2 = z[-2]
  OBVIOUS
<1>. PICK y1 \in Bit : y1 = z[-1]
  OBVIOUS
<1>. PICK z0 \in Bit : z0 = z[0]
  OBVIOUS
<1>. PICK z1 \in Bit : z1 = z[1]
  OBVIOUS
<1>. PICK z2 \in Bit : z2 = z[2]
  OBVIOUS
<1>. PICK z3 \in Bit : z3 = z[3]
  OBVIOUS
<1>. PICK z4 \in Bit : z4 = z[4]
  OBVIOUS
<1>. PICK z5 \in Bit : z5 = z[5]
  OBVIOUS
<1>. PICK z6 \in Bit : z6 = z[6]
  OBVIOUS
<1>. PICK z7 \in Bit : z7 = z[7]
  OBVIOUS
<1>. PICK z8 \in Bit : z8 = z[8]
  OBVIOUS
<1>. PICK z9 \in Bit : z9 = z[9]
  OBVIOUS
<1>. PICK z10 \in Bit : z10 = z[10]
  OBVIOUS
<1>. PICK z11 \in Bit : z11 = z[11]
  OBVIOUS
<1>. PICK y \in 0..255 : y = EightBits(z0, z1, z2, z3, z4, z5, z6, z7)
  <2>1. EightBits(z0, z1, z2, z3, z4, z5, z6, z7) \in 0..255
    BY ONLY z0 \in Bit, z1 \in Bit, z2 \in Bit, z3 \in Bit,
            z4 \in Bit, z5 \in Bit, z6 \in Bit, z7 \in Bit DEF EightBits, Bit
  <2>. QED  BY ONLY <2>1
<1>1. ByteOf(z) = y
  BY ONLY y = EightBits(z0, z1, z2, z3, z4, z5, z6, z7), z0 = z[0], z1 = z[1], z2 = z[2], z3 = z[3], z4 =
          z[4], z5 = z[5], z6 = z[6], z7 = z[7] DEF ByteOf
<1>2. (Weigh(CharFrom(z, 3), CharFrom(z, -2), c, d, e) \div 1) % 256 = y
  <2>. PICK x \in Nat : x = 2 * y2 + y1 + 4 * c + 128 * d + 4096 * e
    BY DEF Bit
  <2>. PICK low \in Nat : low = 0
    BY DEF Bit
  <2>. PICK g \in Nat : g = Weigh(FiveBits(z3, z4, z5, z6, z7), FiveBits(y2, y1, z0, z1, z2), c, d, e)
    BY ONLY y2 \in Bit, y1 \in Bit, z0 \in Bit, z1 \in Bit, z2 \in Bit, z3 \in Bit, z4 \in Bit, z5 \in
            Bit, z6 \in Bit, z7 \in Bit, c \in 0..31, d \in 0..31, e \in 0..31 DEF Weigh, FiveBits, Bit
  <2>1. g = (256 * x + y) * 1 + low /\ low < 1
    BY ONLY y2 \in Bit, y1 \in Bit, z0 \in Bit, z1 \in Bit, z2 \in Bit, z3 \in Bit, z4 \in Bit, z5 \in
            Bit, z6 \in Bit, z7 \in Bit, c \in 0..31, d \in 0..31, e \in 0..31, x = 2 * y2 + y1 + 4 * c +
            128 * d + 4096 * e, low = 0, y = EightBits(z0, z1, z2, z3, z4, z5, z6, z7), g = Weigh(FiveBits(z3,
            z4, z5, z6, z7), FiveBits(y2, y1, z0, z1, z2), c, d, e) DEF Weigh, FiveBits, EightBits, Bit
  <2>2. (g \div 1) % 256 = y
    BY ONLY <2>1, x \in Nat, y \in 0..255, low \in Nat, g \in Nat, CutByte
  <2>3. Weigh(CharFrom(z, 3), CharFrom(z, -2), c, d, e) = g
    <3>1. CharFrom(z, 3) = FiveBits(z3, z4, z5, z6, z7) /\ CharFrom(z, -2) = FiveBits(y2, y1, z0, z1, z2)
      BY ONLY y2 = z[-2], y1 = z[-1], z0 = z[0], z1 = z[1], z2 = z[2], z3 = z[3], z4 = z[4], z5 = z[5],
              z6 = z[6], z7 = z[7] DEF CharFrom
    <3>. QED  BY ONLY <3>1, g = Weigh(FiveBits(z3, z4, z5, z6, z7), FiveBits(y2, y1, z0, z1, z2), c, d, e)
  <2>. QED  BY ONLY <2>2, <2>3
<1>3. (Weigh(CharFrom(z, 4), CharFrom(z, -1), c, d, e) \div 2) % 256 = y
  <2>. PICK x \in Nat : x = y1 + 2 * c + 64 * d + 2048 * e
    BY DEF Bit
  <2>. PICK low \in Nat : low = z8
    BY DEF Bit
  <2>. PICK g \in Nat : g = Weigh(FiveBits(z4, z5, z6, z7, z8), FiveBits(y1, z0, z1, z2, z3), c, d, e)
    BY ONLY y1 \in Bit, z0 \in Bit, z1 \in Bit, z2 \in Bit, z3 \in Bit, z4 \in Bit, z5 \in Bit, z6 \in
            Bit, z7 \in Bit, z8 \in Bit, c \in 0..31, d \in 0..31, e \in 0..31 DEF Weigh, FiveBits, Bit
  <2>1. g = (256 * x + y) * 2 + low /\ low < 2
    BY ONLY y1 \in Bit, z0 \in Bit, z1 \in Bit, z2 \in Bit, z3 \in Bit, z4 \in Bit, z5 \in Bit, z6 \in
            Bit, z7 \in Bit, z8 \in Bit, c \in 0..31, d \in 0..31, e \in 0..31, x = y1 + 2 * c + 64 * d +
            2048 * e, low = z8, y = EightBits(z0, z1, z2, z3, z4, z5, z6, z7), g = Weigh(FiveBits(z4, z5, z6, z7,
            z8), FiveBits(y1, z0, z1, z2, z3), c, d, e) DEF Weigh, FiveBits, EightBits, Bit
  <2>2. (g \div 2) % 256 = y
    BY ONLY <2>1, x \in Nat, y \in 0..255, low \in Nat, g \in Nat, CutByte
  <2>3. Weigh(CharFrom(z, 4), CharFrom(z, -1), c, d, e) = g
    <3>1. CharFrom(z, 4) = FiveBits(z4, z5, z6, z7, z8) /\ CharFrom(z, -1) = FiveBits(y1, z0, z1, z2, z3)
      BY ONLY y1 = z[-1], z0 = z[0], z1 = z[1], z2 = z[2], z3 = z[3], z4 = z[4], z5 = z[5], z6 = z[6], z7
              = z[7], z8 = z[8] DEF CharFrom
    <3>. QED  BY ONLY <3>1, g = Weigh(FiveBits(z4, z5, z6, z7, z8), FiveBits(y1, z0, z1, z2, z3), c, d, e)
  <2>. QED  BY ONLY <2>2, <2>3
<1>4. (Weigh(CharFrom(z, 5), CharFrom(z, 0), c, d, e) \div 4) % 256 = y
  <2>. PICK x \in Nat : x = c + 32 * d + 1024 * e
    BY DEF Bit
  <2>. PICK low \in Nat : low = 2 * z8 + z9
    BY DEF Bit
  <2>. PICK g \in Nat : g = Weigh(FiveBits(z5, z6, z7, z8, z9), FiveBits(z0, z1, z2, z3, z4), c, d, e)
    BY ONLY z0 \in Bit, z1 \in Bit, z2 \in Bit, z3 \in Bit, z4 \in Bit, z5 \in Bit, z6 \in Bit, z7 \in
            Bit, z8 \in Bit, z9 \in Bit, c \in 0..31, d \in 0..31, e \in 0..31 DEF Weigh, FiveBits, Bit
  <2>1. g = (256 * x + y) * 4 + low /\ low < 4
    BY ONLY z0 \in Bit, z1 \in Bit, z2 \in Bit, z3 \in Bit, z4 \in Bit, z5 \in Bit, z6 \in Bit, z7 \in
            Bit, z8 \in Bit, z9 \in Bit, c \in 0..31, d \in 0..31, e \in 0..31, x = c + 32 * d + 1024 *
            e, low = 2 * z8 + z9, y = EightBits(z0, z1, z2, z3, z4, z5, z6, z7), g = Weigh(FiveBits(z5, z6, z7,
            z8, z9), FiveBits(z0, z1, z2, z3, z4), c, d, e) DEF Weigh, FiveBits, EightBits, Bit
  <2>2. (g \div 4) % 256 = y
    BY ONLY <2>1, x \in Nat, y \in 0..255, low \in Nat, g \in Nat, CutByte
  <2>3. Weigh(CharFrom(z, 5), CharFrom(z, 0), c, d, e) = g
    <3>1. CharFrom(z, 5) = FiveBits(z5, z6, z7, z8, z9) /\ CharFrom(z, 0) = FiveBits(z0, z1, z2, z3, z4)
      BY ONLY z0 = z[0], z1 = z[1], z2 = z[2], z3 = z[3], z4 = z[4], z5 = z[5], z6 = z[6], z7 = z[7], z8
              = z[8], z9 = z[9] DEF CharFrom
    <3>. QED  BY ONLY <3>1, g = Weigh(FiveBits(z5, z6, z7, z8, z9), FiveBits(z0, z1, z2, z3, z4), c, d, e)
  <2>. QED  BY ONLY <2>2, <2>3
<1>5. (Weigh(CharFrom(z, 6), CharFrom(z, 1), CharFrom(z, -4), d, e) \div 8) % 256 = y
  <2>. PICK x \in Nat : x = 8 * y4 + 4 * y3 + 2 * y2 + y1 + 16 * d + 512 * e
    BY DEF Bit
  <2>. PICK low \in Nat : low = 4 * z8 + 2 * z9 + z10
    BY DEF Bit
  <2>. PICK g \in Nat :
          g = Weigh(FiveBits(z6, z7, z8, z9, z10), FiveBits(z1, z2, z3, z4, z5), FiveBits(y4, y3, y2, y1, z0), d, e)
    BY ONLY y4 \in Bit, y3 \in Bit, y2 \in Bit, y1 \in Bit, z0 \in Bit, z1 \in Bit, z2 \in Bit, z3 \in
            Bit, z4 \in Bit, z5 \in Bit, z6 \in Bit, z7 \in Bit, z8 \in Bit, z9 \in Bit, z10 \in Bit, c
            \in 0..31, d \in 0..31, e \in 0..31 DEF Weigh, FiveBits, Bit
  <2>1. g = (256 * x + y) * 8 + low /\ low < 8
    BY ONLY y4 \in Bit, y3 \in Bit, y2 \in Bit, y1 \in Bit, z0 \in Bit, z1 \in Bit, z2 \in Bit, z3 \in
            Bit, z4 \in Bit, z5 \in Bit, z6 \in Bit, z7 \in Bit, z8 \in Bit, z9 \in Bit, z10 \in Bit, c
            \in 0..31, d \in 0..31, e \in 0..31, x = 8 * y4 + 4 * y3 + 2 * y2 + y1 + 16 * d + 512 * e,
            low = 4 * z8 + 2 * z9 + z10, y = EightBits(z0, z1, z2, z3, z4, z5, z6, z7), g = Weigh(FiveBits(z6,
            z7, z8, z9, z10), FiveBits(z1, z2, z3, z4, z5), FiveBits(y4, y3, y2, y1, z0), d, e) DEF Weigh, FiveBits,
            EightBits, Bit
  <2>2. (g \div 8) % 256 = y
    BY ONLY <2>1, x \in Nat, y \in 0..255, low \in Nat, g \in Nat, CutByte
  <2>3. Weigh(CharFrom(z, 6), CharFrom(z, 1), CharFrom(z, -4), d, e) = g
    <3>1. /\ CharFrom(z, 6) = FiveBits(z6, z7, z8, z9, z10)
          /\ CharFrom(z, 1) = FiveBits(z1, z2, z3, z4, z5)
          /\ CharFrom(z, -4) = FiveBits(y4, y3, y2, y1, z0)
      BY ONLY y4 = z[-4], y3 = z[-3], y2 = z[-2], y1 = z[-1], z0 = z[0], z1 = z[1], z2 = z[2], z3 = z[3],
              z4 = z[4], z5 = z[5], z6 = z[6], z7 = z[7], z8 = z[8], z9 = z[9], z10 = z[10] DEF CharFrom
    <3>. QED  BY ONLY <3>1, g = Weigh(FiveBits(z6, z7, z8, z9, z10), FiveBits(z1, z2, z3, z4, z5), FiveBits(y4, y3,
                      y2, y1, z0), d, e)
  <2>. QED  BY ONLY <2>2, <2>3
<1>6. (Weigh(CharFrom(z, 7), CharFrom(z, 2), CharFrom(z, -3), d, e) \div 16) % 256 = y
  <2>. PICK x \in Nat : x = 4 * y3 + 2 * y2 + y1 + 8 * d + 256 * e
    BY DEF Bit
  <2>. PICK low \in Nat : low = 8 * z8 + 4 * z9 + 2 * z10 + z11
    <3>1. 8 * z8 + 4 * z9 + 2 * z10 + z11 \in Nat
      BY ONLY z8 \in Bit, z9 \in Bit, z10 \in Bit, z11 \in Bit DEF Bit
    <3>. QED  BY <3>1
  <2>. PICK g \in Nat :
          g = Weigh(FiveBits(z7, z8, z9, z10, z11), FiveBits(z2, z3, z4, z5, z6), FiveBits(y3, y2, y1, z0, z1), d, e)
    BY ONLY y3 \in Bit, y2 \in Bit, y1 \in Bit, z0 \in Bit, z1 \in Bit, z2 \in Bit, z3 \in Bit, z4 \in
            Bit, z5 \in Bit, z6 \in Bit, z7 \in Bit, z8 \in Bit, z9 \in Bit, z10 \in Bit, z11 \in Bit, c
            \in 0..31, d \in 0..31, e \in 0..31 DEF Weigh, FiveBits, Bit
  <2>1. g = (256 * x + y) * 16 + low /\ low < 16
    BY ONLY y3 \in Bit, y2 \in Bit, y1 \in Bit, z0 \in Bit, z1 \in Bit, z2 \in Bit, z3 \in Bit, z4 \in
            Bit, z5 \in Bit, z6 \in Bit, z7 \in Bit, z8 \in Bit, z9 \in Bit, z10 \in Bit, z11 \in Bit, c
            \in 0..31, d \in 0..31, e \in 0..31, x = 4 * y3 + 2 * y2 + y1 + 8 * d + 256 * e, low = 8 * z8
            + 4 * z9 + 2 * z10 + z11, y = EightBits(z0, z1, z2, z3, z4, z5, z6, z7), g = Weigh(FiveBits(z7, z8,
            z9, z10, z11), FiveBits(z2, z3, z4, z5, z6), FiveBits(y3, y2, y1, z0, z1), d, e) DEF Weigh, FiveBits,
            EightBits, Bit
  <2>2. (g \div 16) % 256 = y
    BY ONLY <2>1, x \in Nat, y \in 0..255, low \in Nat, g \in Nat, CutByte
  <2>3. Weigh(CharFrom(z, 7), CharFrom(z, 2), CharFrom(z, -3), d, e) = g
    <3>1. /\ CharFrom(z, 7) = FiveBits(z7, z8, z9, z10, z11)
          /\ CharFrom(z, 2) = FiveBits(z2, z3, z4, z5, z6)
          /\ CharFrom(z, -3) = FiveBits(y3, y2, y1, z0, z1)
      BY ONLY y3 = z[-3], y2 = z[-2], y1 = z[-1], z0 = z[0], z1 = z[1], z2 = z[2], z3 = z[3], z4 = z[4],
              z5 = z[5], z6 = z[6], z7 = z[7], z8 = z[8], z9 = z[9], z10 = z[10], z11 = z[11] DEF CharFrom
    <3>. QED  BY ONLY <3>1, g = Weigh(FiveBits(z7, z8, z9, z10, z11), FiveBits(z2, z3, z4, z5, z6), FiveBits(y3, y2,
                      y1, z0, z1), d, e)
  <2>. QED  BY ONLY <2>2, <2>3
<1>. QED  BY ONLY <1>1, <1>2, <1>3, <1>4, <1>5, <1>6 DEF ByteLies

\* A character, or nothing before the first, is five bits.
LEMMA AtIsSmall ==
  ASSUME NEW b \in Seq(0..255), NEW n \in Int, n <= (8 * Len(b) + 4) \div 5
  PROVE  CharAt(Zbase32(b), n) \in 0..31
<1>1. Len(b) \in Nat
  BY LenProperties
<1>2. CASE n >= 1
  <2>. PICK k \in Nat : k = 5 * (n - 1)
    BY <1>2
  <2>1. n \in Nat
    BY <1>2
  <2>. QED  BY ONLY b \in Seq(0..255), n <= (8 * Len(b) + 4) \div 5, k \in Nat, k = 5 * (n - 1), <2>1, <1>2, CharIs
<1>3. CASE n < 1
  <2>1. n \notin DOMAIN Zbase32(b)
    BY <1>3 DEF Zbase32
  <2>. QED  BY <2>1 DEF CharAt
<1>. QED  BY <1>2, <1>3

\* The byte j is what is left of the last characters once they hold all of its bits.
LEMMA ByteIs ==
  ASSUME NEW b \in Seq(0..255), NEW j \in 1..Len(b), NEW n \in Nat, NEW r \in 0..4, 5 * n = 8 * j + r
  PROVE  (LowBits(Zbase32(b), n) \div TwoTo(r)) % 256 = b[j]
<1>. PICK L \in Nat : L = Len(b)
  BY LenProperties
<1>. PICK N \in Nat : N = (8 * L + 4) \div 5
  OBVIOUS
<1>. PICK k \in Nat : k = 8 * (j - 1)
  OBVIOUS
<1>1. j \in Nat /\ j >= 1 /\ n >= 2 /\ n <= N /\ N = (8 * Len(b) + 4) \div 5
  OBVIOUS
<1>14. j >= 1 /\ n >= 2 /\ n <= N
  BY ONLY <1>1
<1>15. j \in Nat
  BY ONLY <1>1
<1>. DEFINE c == Zbase32(b)
           F == [i \in -4..11 |-> IF k + i >= 0 THEN BitOf(b, k + i) ELSE 0]
<1>2. F \in [-4..11 -> Bit]
  BY BitIsBit DEF Bit
<1>. PICK z \in [-4..11 -> Bit] : z = F
  BY <1>2
<1>3. \A i \in -4..11 : k + i >= 0 => z[i] = BitOf(b, k + i)
  BY ONLY z = F
<1>4. b[j] = ByteOf(z)
  <2>1. /\ z[0] = BitOf(b, k) /\ z[1] = BitOf(b, k + 1) /\ z[2] = BitOf(b, k + 2) /\ z[3] = BitOf(b, k + 3)
        /\ z[4] = BitOf(b, k + 4) /\ z[5] = BitOf(b, k + 5) /\ z[6] = BitOf(b, k + 6) /\ z[7] = BitOf(b, k + 7)
    BY ONLY <1>3, k \in Nat
  <2>2. b[j] = ByteFrom(b, k)
    BY ONLY b \in Seq(0..255), j \in 1..Len(b), k \in Nat, k = 8 * (j - 1), BitsOfByte
  <2>. QED  BY ONLY <2>1, <2>2 DEF ByteOf, ByteFrom
<1>5. ASSUME NEW q \in Nat, q >= 1, q <= N, NEW i \in -4..7, k + i = 5 * (q - 1)
      PROVE  CharAt(c, q) = CharFrom(z, i)
  <2>. PICK h \in Nat : h = 5 * (q - 1)
    BY <1>5
  <2>1. CharAt(c, q) = FiveBits(BitOf(b, h), BitOf(b, h + 1), BitOf(b, h + 2), BitOf(b, h + 3), BitOf(b, h + 4))
    BY ONLY b \in Seq(0..255), q \in Nat, h \in Nat, h = 5 * (q - 1), <1>5, <1>1, CharIs DEF c
  <2>2. /\ z[i] = BitOf(b, h) /\ z[i + 1] = BitOf(b, h + 1) /\ z[i + 2] = BitOf(b, h + 2)
        /\ z[i + 3] = BitOf(b, h + 3) /\ z[i + 4] = BitOf(b, h + 4)
    <3>1. \A t \in 0..4 : i + t \in -4..11 /\ k + (i + t) = h + t /\ k + (i + t) >= 0
      <4>1. k + i = h
        BY ONLY <1>5, h = 5 * (q - 1)
      <4>2. i \in Int /\ -4 <= i /\ i <= 7
        BY ONLY i \in -4..7
      <4>. SUFFICES ASSUME NEW t \in 0..4
                    PROVE  i + t \in -4..11 /\ k + (i + t) = h + t /\ k + (i + t) >= 0
        OBVIOUS
      <4>3. t \in Int /\ 0 <= t /\ t <= 4
        BY ONLY t \in 0..4
      <4>4. k + (i + t) = h + t
        BY ONLY <4>1, <4>2, <4>3, k \in Nat, h \in Nat
      <4>5. i + t \in -4..11
        BY ONLY <4>2, <4>3
      <4>. QED  BY ONLY <4>3, <4>4, <4>5, h \in Nat
    <3>2. \A t \in 0..4 : z[i + t] = BitOf(b, h + t)
      BY ONLY <3>1, <1>3
    <3>3. i + 0 = i /\ h + 0 = h
      BY ONLY i \in -4..7, h \in Nat
    <3>. QED  BY ONLY <3>2, <3>3, 0 \in 0..4, 1 \in 0..4, 2 \in 0..4, 3 \in 0..4, 4 \in 0..4
  <2>. QED  BY ONLY <2>1, <2>2 DEF CharFrom
<1>. HIDE DEF c, F
<1>6. /\ CharAt(c, n) \in 0..31 /\ CharAt(c, n - 1) \in 0..31 /\ CharAt(c, n - 2) \in 0..31
      /\ CharAt(c, n - 3) \in 0..31 /\ CharAt(c, n - 4) \in 0..31
  <2>1. ASSUME NEW q \in Int, q <= N  PROVE  CharAt(c, q) \in 0..31
    BY ONLY b \in Seq(0..255), q \in Int, <2>1, <1>1, AtIsSmall DEF c
  <2>2. /\ n \in Int /\ n - 1 \in Int /\ n - 2 \in Int /\ n - 3 \in Int /\ n - 4 \in Int
        /\ n <= N /\ n - 1 <= N /\ n - 2 <= N /\ n - 3 <= N /\ n - 4 <= N
    BY ONLY n \in Nat, N \in Nat, <1>14
  <2>. QED  BY ONLY <2>1, <2>2
<1>. PICK g \in 0..31 : g = CharAt(c, n - 2)
  BY ONLY <1>6
<1>. PICK d \in 0..31 : d = CharAt(c, n - 3)
  BY ONLY <1>6
<1>. PICK e \in 0..31 : e = CharAt(c, n - 4)
  BY ONLY <1>6
<1>. PICK p \in Nat : p = n - 1
  BY <1>1
<1>. PICK o \in Nat : o = n - 2
  BY <1>1, SMTT(30)
<1>13. ByteLies(z, g, d, e)
  BY ONLY z \in [-4..11 -> Bit], g \in 0..31, d \in 0..31, e \in 0..31, EndsAnywhere
<1>7. LowBits(c, n) = Weigh(CharAt(c, n), CharAt(c, n - 1), g, d, e) /\ g = CharAt(c, n - 2)
  BY DEF LowBits, Weigh
<1>8. CASE r = 0
  <2>1. CharAt(c, n) = CharFrom(z, 3)
    <3>1. n \in Nat /\ n >= 1 /\ n <= N /\ k + (3) = 5 * (n - 1)
      BY <1>1, <1>8
    <3>. QED  BY ONLY <3>1, <1>5, 3 \in -4..7
  <2>2. CharAt(c, n - 1) = CharFrom(z, -2)
    <3>1. p >= 1 /\ p <= N /\ k + (-2) = 5 * (p - 1)
      BY <1>1, <1>8
    <3>2. CharAt(c, p) = CharFrom(z, -2)
      BY ONLY <3>1, <1>5, p \in Nat, -2 \in -4..7
    <3>. QED  BY ONLY <3>2, p = n - 1
  <2>3. (Weigh(CharFrom(z, 3), CharFrom(z, -2), g, d, e) \div 1) % 256 = ByteOf(z)
    BY ONLY <1>13 DEF ByteLies
  <2>. QED  BY ONLY <2>1, <2>2, <2>3, <1>4, <1>7, <1>8, TwoTos DEF c
<1>9. CASE r = 1
  <2>1. CharAt(c, n) = CharFrom(z, 4)
    <3>1. n \in Nat /\ n >= 1 /\ n <= N /\ k + (4) = 5 * (n - 1)
      BY <1>1, <1>9
    <3>. QED  BY ONLY <3>1, <1>5, 4 \in -4..7
  <2>2. CharAt(c, n - 1) = CharFrom(z, -1)
    <3>1. p >= 1 /\ p <= N /\ k + (-1) = 5 * (p - 1)
      BY <1>1, <1>9
    <3>2. CharAt(c, p) = CharFrom(z, -1)
      BY ONLY <3>1, <1>5, p \in Nat, -1 \in -4..7
    <3>. QED  BY ONLY <3>2, p = n - 1
  <2>3. (Weigh(CharFrom(z, 4), CharFrom(z, -1), g, d, e) \div 2) % 256 = ByteOf(z)
    BY ONLY <1>13 DEF ByteLies
  <2>. QED  BY ONLY <2>1, <2>2, <2>3, <1>4, <1>7, <1>9, TwoTos DEF c
<1>10. CASE r = 2
  <2>1. CharAt(c, n) = CharFrom(z, 5)
    <3>1. n \in Nat /\ n >= 1 /\ n <= N /\ k + (5) = 5 * (n - 1)
      BY <1>1, <1>10
    <3>. QED  BY ONLY <3>1, <1>5, 5 \in -4..7
  <2>2. CharAt(c, n - 1) = CharFrom(z, 0)
    <3>1. p >= 1 /\ p <= N /\ k + (0) = 5 * (p - 1)
      BY <1>1, <1>10
    <3>2. CharAt(c, p) = CharFrom(z, 0)
      BY ONLY <3>1, <1>5, p \in Nat, 0 \in -4..7
    <3>. QED  BY ONLY <3>2, p = n - 1
  <2>3. (Weigh(CharFrom(z, 5), CharFrom(z, 0), g, d, e) \div 4) % 256 = ByteOf(z)
    BY ONLY <1>13 DEF ByteLies
  <2>. QED  BY ONLY <2>1, <2>2, <2>3, <1>4, <1>7, <1>10, TwoTos DEF c
<1>11. CASE r = 3
  <2>1. CharAt(c, n) = CharFrom(z, 6)
    <3>1. n \in Nat /\ n >= 1 /\ n <= N /\ k + (6) = 5 * (n - 1)
      BY <1>1, <1>11
    <3>. QED  BY ONLY <3>1, <1>5, 6 \in -4..7
  <2>2. CharAt(c, n - 1) = CharFrom(z, 1)
    <3>1. p >= 1 /\ p <= N /\ k + (1) = 5 * (p - 1)
      BY <1>1, <1>11
    <3>2. CharAt(c, p) = CharFrom(z, 1)
      BY ONLY <3>1, <1>5, p \in Nat, 1 \in -4..7
    <3>. QED  BY ONLY <3>2, p = n - 1
  <2>3. CharAt(c, n - 2) = CharFrom(z, -4)
    <3>1. o >= 1 /\ o <= N /\ k + (-4) = 5 * (o - 1)
      <4>1. o >= 1 /\ o <= N
        BY ONLY <1>11, <1>14, o = n - 2, 5 * n = 8 * j + r, n \in Nat, <1>15, N \in Nat
      <4>2. k + (-4) = 5 * (o - 1)
        BY ONLY <1>11, o = n - 2, k = 8 * (j - 1), 5 * n = 8 * j + r, n \in Nat, <1>15
      <4>. QED  BY ONLY <4>1, <4>2
    <3>2. CharAt(c, o) = CharFrom(z, -4)
      BY ONLY <3>1, <1>5, o \in Nat, -4 \in -4..7
    <3>. QED  BY ONLY <3>2, o = n - 2
  <2>4. (Weigh(CharFrom(z, 6), CharFrom(z, 1), CharFrom(z, -4), d, e) \div 8) % 256 = ByteOf(z)
    BY ONLY <1>13 DEF ByteLies
  <2>. QED  BY ONLY <2>1, <2>2, <2>3, <2>4, <1>4, <1>7, <1>11, TwoTos DEF c
<1>12. CASE r = 4
  <2>1. CharAt(c, n) = CharFrom(z, 7)
    <3>1. n \in Nat /\ n >= 1 /\ n <= N /\ k + (7) = 5 * (n - 1)
      BY <1>1, <1>12
    <3>. QED  BY ONLY <3>1, <1>5, 7 \in -4..7
  <2>2. CharAt(c, n - 1) = CharFrom(z, 2)
    <3>1. p >= 1 /\ p <= N /\ k + (2) = 5 * (p - 1)
      BY <1>1, <1>12
    <3>2. CharAt(c, p) = CharFrom(z, 2)
      BY ONLY <3>1, <1>5, p \in Nat, 2 \in -4..7
    <3>. QED  BY ONLY <3>2, p = n - 1
  <2>3. CharAt(c, n - 2) = CharFrom(z, -3)
    <3>1. o >= 1 /\ o <= N /\ k + (-3) = 5 * (o - 1)
      <4>1. o >= 1 /\ o <= N
        BY ONLY <1>12, <1>14, o = n - 2, 5 * n = 8 * j + r, n \in Nat, <1>15, N \in Nat
      <4>2. k + (-3) = 5 * (o - 1)
        BY ONLY <1>12, o = n - 2, k = 8 * (j - 1), 5 * n = 8 * j + r, n \in Nat, <1>15
      <4>. QED  BY ONLY <4>1, <4>2
    <3>2. CharAt(c, o) = CharFrom(z, -3)
      BY ONLY <3>1, <1>5, o \in Nat, -3 \in -4..7
    <3>. QED  BY ONLY <3>2, o = n - 2
  <2>4. (Weigh(CharFrom(z, 7), CharFrom(z, 2), CharFrom(z, -3), d, e) \div 16) % 256 = ByteOf(z)
    BY ONLY <1>13 DEF ByteLies
  <2>. QED  BY ONLY <2>1, <2>2, <2>3, <2>4, <1>4, <1>7, <1>12, TwoTos DEF c
<1>. QED  BY ONLY r \in 0..4, <1>8, <1>9, <1>10, <1>11, <1>12 DEF c

\* st is what the decoder holds after each of the characters.
DecodeStart == [acc |-> 0, bits |-> 0, out |-> <<>>]
DecodesAs(st, chars) == st = [n \in 0..Len(chars) |-> IF n = 0 THEN DecodeStart ELSE DecodeStep(st[n - 1], chars[n])]
LEMMA DecodeSays ==
  ASSUME NEW chars
  PROVE  Zbase32Decode(chars) = (CHOOSE st : DecodesAs(st, chars))[Len(chars)].out
BY DEF Zbase32Decode, DecodesAs, DecodeStart

Less == OpToRel(<, Nat)

LEMMA LessIsFounded == IsWellFoundedOn(Less, Nat) /\ \A m, n \in Nat : <<m, n>> \in Less <=> m < n
<1>1. IsWellFoundedOn(Less, Nat)
  BY NatLessThanWellFounded DEF Less
<1>2. \A m, n \in Nat : <<m, n>> \in Less <=> m < n
  BY DEF Less, OpToRel
<1>. QED  BY <1>1, <1>2

\* There is one such function: of two, look at the first character where they differ.
LEMMA DecodesOnce ==
  ASSUME NEW chars, Len(chars) \in Nat, NEW f, NEW g, DecodesAs(f, chars), DecodesAs(g, chars)
  PROVE  f = g
<1>. PICK N \in Nat : N = Len(chars)
  OBVIOUS
<1>. DEFINE T == {n \in 0..N : f[n] # g[n]}
<1>1. CASE T = {}
  <2>1. \A n \in 0..N : f[n] = g[n]
    BY <1>1
  <2>2. f = [n \in 0..N |-> f[n]] /\ g = [n \in 0..N |-> g[n]]
    BY DEF DecodesAs
  <2>. QED  BY <2>1, <2>2
<1>2. CASE T # {}
  <2>1. T \subseteq Nat
    OBVIOUS
  <2>. HIDE DEF T
  <2>2. PICK n \in T : \A m \in T : ~(<<m, n>> \in Less)
    <3>. PICK S : S = T
      OBVIOUS
    <3>. PICK R : R = Less
      OBVIOUS
    <3>1. IsWellFoundedOn(R, Nat) /\ S \subseteq Nat /\ S # {}
      BY ONLY <1>2, <2>1, S = T, R = Less, LessIsFounded
    <3>2. \E n \in S : \A m \in S : ~(<<m, n>> \in R)
      BY ONLY <3>1, WFMin
    <3>. QED  BY ONLY <3>2, S = T, R = Less
  <2>3. \A m \in T : ~(m < n)
    BY <2>1, <2>2, LessIsFounded
  <2>. USE DEF T
  <2>4. n # 0
    <3>1. f[0] = DecodeStart /\ g[0] = DecodeStart
      BY 0 \in 0..N DEF DecodesAs
    <3>. QED  BY <3>1
  <2>5. n \in Nat /\ n >= 1 /\ n - 1 \in 0..N /\ n - 1 < n
    BY <2>4
  <2>6. f[n - 1] = g[n - 1]
    BY <2>3, <2>5
  <2>7. f[n] = DecodeStep(f[n - 1], chars[n]) /\ g[n] = DecodeStep(g[n - 1], chars[n])
    <3>1. n \in 0..N /\ n # 0
      BY <2>4
    <3>. QED  BY ONLY <3>1, N = Len(chars), DecodesAs(f, chars), DecodesAs(g, chars) DEF DecodesAs
  <2>8. f[n] # g[n]
    OBVIOUS
  <2>. QED  BY ONLY <2>6, <2>7, <2>8
<1>. QED  BY <1>1, <1>2

\* What the decoder holds after n characters of LND's text of b.
Chars(b) == (8 * Len(b) + 4) \div 5
DecodedTo(b, n) == [acc |-> LowBits(Zbase32(b), n), bits |-> (5 * n) % 8, out |-> SubSeq(b, 1, (5 * n) \div 8)]

LEMMA TextLength ==
  ASSUME NEW b \in Seq(0..255)
  PROVE  Chars(b) \in Nat /\ DOMAIN Zbase32(b) = 1..Chars(b) /\ Len(Zbase32(b)) = Chars(b)
<1>1. Len(b) \in Nat
  BY LenProperties
<1>2. Chars(b) \in Nat
  BY <1>1 DEF Chars
<1>3. DOMAIN Zbase32(b) = 1..Chars(b)
  BY DEF Zbase32, Chars
<1>4. Zbase32(b) \in Seq(0..31)
  <2>. PICK N \in Nat : N = Chars(b)
    BY <1>2
  <2>1. \A i \in 1..N : Zbase32(b)[i] \in 0..31
    <3>. SUFFICES ASSUME NEW i \in 1..N  PROVE  Zbase32(b)[i] \in 0..31
      OBVIOUS
    <3>. PICK k \in Nat : k = 5 * (i - 1)
      OBVIOUS
    <3>1. i \in Nat /\ i >= 1 /\ i <= (8 * Len(b) + 4) \div 5
      BY DEF Chars
    <3>. QED  BY ONLY <3>1, k \in Nat, k = 5 * (i - 1), b \in Seq(0..255), CharIs
  <2>2. Zbase32(b) = [i \in 1..N |-> Zbase32(b)[i]]
    BY DEF Zbase32, Chars
  <2>3. Zbase32(b) \in [1..N -> 0..31]
    BY ONLY <2>1, <2>2
  <2>. PICK E : E = 0..31
    OBVIOUS
  <2>4. Zbase32(b) \in Seq(E)
    BY ONLY <2>3, N \in Nat, E = 0..31, SeqDef
  <2>. QED  BY ONLY <2>4, E = 0..31
<1>5. Len(Zbase32(b)) \in Nat /\ DOMAIN Zbase32(b) = 1..Len(Zbase32(b))
  BY <1>4, LenProperties
<1>. QED  BY ONLY <1>2, <1>3, <1>5

LEMMA DecodeBegins ==
  ASSUME NEW b \in Seq(0..255)
  PROVE  DecodedTo(b, 0) = DecodeStart
<1>1. \A n \in Int : n < 1 => CharAt(Zbase32(b), n) = 0
  BY TextLength DEF CharAt
<1>2. LowBits(Zbase32(b), 0) = 0
  <2>1. 0 - 1 < 1 /\ 0 - 2 < 1 /\ 0 - 3 < 1 /\ 0 - 4 < 1 /\ 0 < 1
    OBVIOUS
  <2>. QED  BY <1>1, <2>1, SMT DEF LowBits
<1>3. 5 * 0 = 0 /\ 0 % 8 = 0 /\ 0 \div 8 = 0
  OBVIOUS
<1>4. SubSeq(b, 1, 0) = <<>>
  BY SubSeqEmpty, 1 \in Int, 0 \in Int
<1>. QED  BY <1>2, <1>3, <1>4 DEF DecodedTo, DecodeStart

\* One character more: a byte is complete, or none is.
LEMMA DecodeMoves ==
  ASSUME NEW b \in Seq(0..255), NEW n \in 1..Chars(b)
  PROVE  DecodeStep(DecodedTo(b, n - 1), Zbase32(b)[n]) = DecodedTo(b, n)
<1>. PICK L \in Nat : L = Len(b)
  BY LenProperties
<1>. PICK N \in Nat : N = (8 * L + 4) \div 5 /\ N = Chars(b)
  BY DEF Chars
<1>1. n \in Nat /\ n >= 1 /\ n <= N /\ n - 1 \in Nat
  OBVIOUS
<1>. DEFINE c == Zbase32(b)
<1>2. c[n] = CharAt(c, n)
  BY TextLength DEF CharAt
<1>3. (LowBits(c, n - 1) * 32 + CharAt(c, n)) % Low25 = LowBits(c, n)
  <2>1. ASSUME NEW q \in Int, q <= n  PROVE  CharAt(c, q) \in 0..31
    <3>1. q <= (8 * Len(b) + 4) \div 5
      BY <1>1, <2>1
    <3>. QED  BY ONLY <3>1, b \in Seq(0..255), q \in Int, AtIsSmall DEF c
  <2>. HIDE DEF c
  <2>2. /\ n \in Int /\ n - 1 \in Int /\ n - 2 \in Int /\ n - 3 \in Int /\ n - 4 \in Int /\ n - 5 \in Int
        /\ n <= n /\ n - 1 <= n /\ n - 2 <= n /\ n - 3 <= n /\ n - 4 <= n /\ n - 5 <= n
    BY <1>1
  <2>3. /\ CharAt(c, n) \in 0..31 /\ CharAt(c, n - 1) \in 0..31 /\ CharAt(c, n - 2) \in 0..31
        /\ CharAt(c, n - 3) \in 0..31 /\ CharAt(c, n - 4) \in 0..31 /\ CharAt(c, n - 5) \in 0..31
    BY ONLY <2>1, <2>2
  <2>4. LowBits(c, n - 1) =
            CharAt(c, n - 1) + 32 * CharAt(c, n - 2) + 1024 * CharAt(c, n - 3) + 32768 * CharAt(c, n - 4) + 1048576 * CharAt(c, n - 5)
    <3>1. n - 1 - 1 = n - 2 /\ n - 1 - 2 = n - 3 /\ n - 1 - 3 = n - 4 /\ n - 1 - 4 = n - 5
      BY <1>1
    <3>. QED  BY ONLY <3>1, SMT DEF LowBits
  <2>5. (LowBits(c, n - 1) * 32 + CharAt(c, n)) % 33554432
          =
            CharAt(c, n) + 32 * CharAt(c, n - 1) + 1024 * CharAt(c, n - 2) + 32768 * CharAt(c, n - 3) + 1048576 * CharAt(c, n - 4)
    <3>. PICK a0 \in 0..31 : a0 = CharAt(c, n)
      BY ONLY <2>3
    <3>. PICK a1 \in 0..31 : a1 = CharAt(c, n - 1)
      BY ONLY <2>3
    <3>. PICK a2 \in 0..31 : a2 = CharAt(c, n - 2)
      BY ONLY <2>3
    <3>. PICK a3 \in 0..31 : a3 = CharAt(c, n - 3)
      BY ONLY <2>3
    <3>. PICK a4 \in 0..31 : a4 = CharAt(c, n - 4)
      BY ONLY <2>3
    <3>. PICK a5 \in 0..31 : a5 = CharAt(c, n - 5)
      BY ONLY <2>3
    <3>1. ((a1 + 32 * a2 + 1024 * a3 + 32768 * a4 + 1048576 * a5) * 32 + a0) % 33554432
            = a0 + 32 * a1 + 1024 * a2 + 32768 * a3 + 1048576 * a4
      BY ONLY a0 \in 0..31, a1 \in 0..31, a2 \in 0..31, a3 \in 0..31, a4 \in 0..31, a5 \in 0..31, SMT
    <3>. QED  BY ONLY <3>1, <2>4, a0 = CharAt(c, n), a1 = CharAt(c, n - 1), a2 = CharAt(c, n - 2),
                      a3 = CharAt(c, n - 3),
                      a4 = CharAt(c, n - 4), a5 = CharAt(c, n - 5), SMT
  <2>. QED  BY ONLY <2>5, SMT DEF LowBits, Low25
<1>. PICK h \in 0..7 : h = (5 * (n - 1)) % 8
  BY <1>1
<1>. PICK j \in Nat : j = (5 * (n - 1)) \div 8
  BY <1>1
<1>4. 5 * (n - 1) = 8 * j + h
  BY <1>1
<1>. PICK acc : acc = LowBits(c, n)
  OBVIOUS
<1>. DEFINE out == SubSeq(b, 1, j)
<1>5. DecodedTo(b, n - 1) = [acc |-> LowBits(c, n - 1), bits |-> h, out |-> out]
  BY DEF DecodedTo
<1>6. DecodeStep(DecodedTo(b, n - 1), c[n]) =
        IF h + 5 >= 8 THEN [acc |-> acc, bits |-> h + 5 - 8, out |-> Append(out, (acc \div TwoTo(h + 5 - 8)) % 256)]
        ELSE [acc |-> acc, bits |-> h + 5, out |-> out]
  <2>. HIDE DEF c, out
  <2>. PICK st : st = DecodedTo(b, n - 1)
    OBVIOUS
  <2>1. st.acc = LowBits(c, n - 1) /\ st.bits = h /\ st.out = out
    BY ONLY st = DecodedTo(b, n - 1), <1>5
  <2>2. (st.acc * 32 + c[n]) % Low25 = acc
    BY ONLY <1>2, <1>3, <2>1, acc = LowBits(c, n), SMT
  <2>. PICK ch : ch = c[n]
    OBVIOUS
  <2>. PICK bits : bits = st.bits + 5
    OBVIOUS
  <2>3. DecodeStep(st, ch) =
          IF bits >= 8 THEN [acc |-> acc, bits |-> bits - 8, out |-> Append(st.out, (acc \div TwoTo(bits - 8)) % 256)]
          ELSE [acc |-> acc, bits |-> bits, out |-> st.out]
    BY ONLY <2>2, ch = c[n], bits = st.bits + 5, Zenon DEF DecodeStep
  <2>. QED  BY ONLY <2>1, <2>3, ch = c[n], bits = st.bits + 5, st = DecodedTo(b, n - 1)
<1>7. CASE h + 5 >= 8
  <2>. PICK r \in 0..4 : r = h + 5 - 8
    BY <1>7
  <2>1. 5 * n = 8 * (j + 1) + r /\ (5 * n) % 8 = r /\ (5 * n) \div 8 = j + 1
    BY ONLY n \in Nat, j \in Nat, h \in 0..7, r \in 0..4, r = h + 5 - 8, <1>4
  <2>2. j + 1 \in 1..Len(b)
    BY ONLY n \in Nat, j \in Nat, r \in 0..4, <2>1, <1>1, N = (8 * L + 4) \div 5, L = Len(b), L \in Nat
  <2>3. (acc \div TwoTo(r)) % 256 = b[j + 1]
    BY ONLY b \in Seq(0..255), n \in Nat, r \in 0..4, acc = LowBits(c, n), <2>1, <2>2, ByteIs DEF c
  <2>4. SubSeq(b, 1, j + 1) = Append(SubSeq(b, 1, j), b[j + 1])
    BY ONLY b \in Seq(0..255), j \in Nat, <2>2, SubSeqProperties, AppendProperties, LenProperties
  <2>. HIDE DEF c
  <2>5. DecodedTo(b, n) = [acc |-> acc, bits |-> r, out |-> Append(out, b[j + 1])]
    BY ONLY <2>1, <2>4, acc = LowBits(c, n) DEF DecodedTo, c
  <2>6. DecodeStep(DecodedTo(b, n - 1), c[n]) =
            [acc |-> acc, bits |-> r, out |-> Append(out, (acc \div TwoTo(r)) % 256)]
    BY ONLY <1>6, <1>7, r = h + 5 - 8
  <2>. QED  BY ONLY <2>3, <2>5, <2>6 DEF c
<1>8. CASE ~(h + 5 >= 8)
  <2>1. (5 * n) % 8 = h + 5 /\ (5 * n) \div 8 = j
    BY ONLY n \in Nat, j \in Nat, h \in 0..7, <1>8, <1>4
  <2>2. DecodedTo(b, n) = [acc |-> acc, bits |-> h + 5, out |-> out]
    BY ONLY <2>1, acc = LowBits(c, n) DEF DecodedTo
  <2>. QED  BY ONLY <1>6, <1>8, <2>2
<1>. QED  BY ONLY <1>7, <1>8

\* So this is what the decoder goes through, and at the end it holds b.
LEMMA DecodeRuns ==
  ASSUME NEW b \in Seq(0..255)
  PROVE  DecodesAs([n \in 0..Chars(b) |-> DecodedTo(b, n)], Zbase32(b))
<1>. PICK N \in Nat : N = Chars(b) /\ N = Len(Zbase32(b))
  BY TextLength
<1>. DEFINE f == [n \in 0..N |-> DecodedTo(b, n)]
<1>1. \A n \in 0..N : f[n] = IF n = 0 THEN DecodeStart ELSE DecodeStep(f[n - 1], Zbase32(b)[n])
  <2>. SUFFICES ASSUME NEW n \in 0..N
      PROVE  DecodedTo(b, n) = IF n = 0 THEN DecodeStart ELSE DecodeStep(f[n - 1], Zbase32(b)[n])
    OBVIOUS
  <2>1. CASE n = 0
    BY <2>1, DecodeBegins
  <2>2. CASE n # 0
    <3>1. n \in 1..Chars(b) /\ n - 1 \in 0..N
      BY <2>2
    <3>2. f[n - 1] = DecodedTo(b, n - 1)
      BY <3>1
    <3>3. DecodeStep(DecodedTo(b, n - 1), Zbase32(b)[n]) = DecodedTo(b, n)
      BY ONLY <3>1, b \in Seq(0..255), DecodeMoves
    <3>. QED  BY ONLY <2>2, <3>2, <3>3
  <2>. QED  BY <2>1, <2>2
<1>2. f = [n \in 0..N |-> IF n = 0 THEN DecodeStart ELSE DecodeStep(f[n - 1], Zbase32(b)[n])]
  <2>. HIDE DEF f
  <2>1. f = [n \in 0..N |-> f[n]]
    BY DEF f
  <2>. QED  BY ONLY <1>1, <2>1
<1>. HIDE DEF f
<1>3. DecodesAs(f, Zbase32(b))
  BY ONLY <1>2, N = Len(Zbase32(b)) DEF DecodesAs
<1>. QED  BY ONLY <1>3, N = Chars(b) DEF f

LEMMA DecodeReturns ==
  ASSUME NEW b \in Seq(0..255)
  PROVE  Zbase32Decode(Zbase32(b)) = b
<1>. PICK chars : chars = Zbase32(b)
  OBVIOUS
<1>. PICK f : f = [n \in 0..Chars(b) |-> DecodedTo(b, n)]
  OBVIOUS
<1>1. Len(chars) = Chars(b) /\ Chars(b) \in Nat
  BY TextLength
<1>2. DecodesAs(f, chars)
  BY DecodeRuns
<1>3. (CHOOSE st : DecodesAs(st, chars)) = f
  <2>. PICK g : g = CHOOSE st : DecodesAs(st, chars)
    OBVIOUS
  <2>1. DecodesAs(g, chars)
    BY <1>2
  <2>2. g = f
    BY ONLY <1>1, <1>2, <2>1, DecodesOnce
  <2>. QED  BY <2>2
<1>4. Zbase32Decode(chars) = f[Len(chars)].out
  BY <1>3, DecodeSays
<1>5. f[Len(chars)].out = SubSeq(b, 1, (5 * Chars(b)) \div 8)
  <2>1. f[Len(chars)] = DecodedTo(b, Chars(b))
    BY ONLY <1>1, f = [n \in 0..Chars(b) |-> DecodedTo(b, n)]
  <2>2. DecodedTo(b, Chars(b)).out = SubSeq(b, 1, (5 * Chars(b)) \div 8)
    <3>1. \A x, y, z : [acc |-> x, bits |-> y, out |-> z].out = z
      OBVIOUS
    <3>. QED  BY ONLY <3>1, Zenon DEF DecodedTo
  <2>. QED  BY ONLY <2>1, <2>2
<1>6. (5 * Chars(b)) \div 8 = Len(b) /\ Len(b) \in Nat
  <2>1. Len(b) \in Nat
    BY LenProperties
  <2>2. \A l \in Nat : (5 * ((8 * l + 4) \div 5)) \div 8 = l
    OBVIOUS
  <2>. QED  BY <2>1, <2>2 DEF Chars
<1>7. SubSeq(b, 1, Len(b)) = b
  BY SubSeqFull
<1>. QED  BY ONLY <1>4, <1>5, <1>6, <1>7, chars = Zbase32(b)

\* Every signature that LND can encode is decoded to the bytes it was made of, of whatever length: the
\* accumulator that is never cleared may overflow as often as it likes.
THEOREM DecodeAlwaysInverts == MessagesSpec => []DecodeInverts
<1>1. PickedIsInput => DecodeInverts
  <2>. SUFFICES ASSUME PickedIsInput, Is("signature")  PROVE  Zbase32Decode(Zbase32(picked.in)) = picked.in
    BY DEF DecodeInverts
  <2>1. picked.in \in Seq(0..255)
    BY MessagesAssumption DEF PickedIsInput
  <2>. QED  BY ONLY <2>1, DecodeReturns
<1>. QED  BY <1>1, PicksInputs, PTL

-----------------------------------------------------------------------------
(* The joint run.                                                          *)

\* A behaviour of the joint run is a behaviour of each of its routes, so what holds of a route by its
\* own specification holds in the run.
THEOREM EveryRouteIsItself ==
  Spec => /\ RegistrySpec /\ ScbSpec /\ NamesSpec /\ LookupSpec /\ LimiterSpec /\ ListingSpec /\ MessagesSpec
<1>1. Init => RegistryInit /\ ScbInit /\ NamesInit /\ LookupInit /\ LimiterInit /\ ListingInit /\ MessagesInit
  BY DEF Init
<1>2. [Next]_routesVars => /\ [RegistryNext]_registryVars /\ [ScbNext]_scbVars /\ [NamesNext]_namesVars
                           /\ [LookupNext]_lookupVars /\ [LimiterNext]_limiterVars
                           /\ [ListingNext]_listingVars /\ [MessagesNext]_messagesVars
  BY DEF Next, routesVars, RegistryRoute, ScbRoute, NamesRoute, LookupRoute, LimiterRoute, ListingRoute, MessagesRoute
<1>. QED
  BY <1>1, <1>2, PTL DEF Spec, RegistrySpec, ScbSpec, NamesSpec, LookupSpec, LimiterSpec, ListingSpec, MessagesSpec

LEMMA MessagesType == MessagesSpec => []MessagesTypeOK
<1>1. MessagesInit => MessagesTypeOK
  BY DEF MessagesInit, MessagesTypeOK
<1>2. MessagesTypeOK /\ [MessagesNext]_messagesVars => MessagesTypeOK'
  <2>. SUFFICES ASSUME MessagesTypeOK, [MessagesNext]_messagesVars  PROVE  MessagesTypeOK'
    OBVIOUS
  <2>1. ASSUME NEW kind \in {"register", "backup", "signature"}, NEW inputs, Picks(kind, inputs)
        PROVE  MessagesTypeOK'
    BY <2>1 DEF Picks, MessagesTypeOK
  <2>2. CASE UNCHANGED messagesVars
    BY <2>2 DEF messagesVars, MessagesTypeOK
  <2>. QED  BY <2>1, <2>2 DEF MessagesNext
<1>. QED  BY <1>1, <1>2, PTL DEF MessagesSpec

RouteIsKnown == route \in {"registry", "scb", "names", "lookup", "limiter", "listing", "messages"}

LEMMA RouteStays == Spec => []RouteIsKnown
<1>1. Init => RouteIsKnown
  BY DEF Init, RouteIsKnown
<1>2. RouteIsKnown /\ [Next]_routesVars => RouteIsKnown'
  BY DEF RouteIsKnown, Next, routesVars, RegistryRoute, ScbRoute, NamesRoute, LookupRoute, LimiterRoute,
         ListingRoute, MessagesRoute
<1>. QED  BY <1>1, <1>2, PTL DEF Spec

(* Every variable of the routes that run side by side keeps its type.      *)
THEOREM RoutesTypeCorrect == Spec => []TypeOK
<1>1. RouteIsKnown /\ RegistryTypeOK /\ ScbTypeOK /\ NamesTypeOK /\ LookupTypeOK /\ LimiterTypeOK /\ ListingTypeOK
      /\ MessagesTypeOK => TypeOK
  BY DEF TypeOK, RouteIsKnown
<1>. QED
  BY <1>1, EveryRouteIsItself, RouteStays, TypeCorrect, ScbTypeCorrect, NamesTypeCorrect, LookupTypeCorrect,
     LimiterTypeCorrect, ListingTypeCorrect, MessagesType, PTL

(* What each route promises alone it promises beside the others: all that  *)
(* the joint run checks, for any values of its constants.  Each promise    *)
(* has the provisos its own comment states: DepartureHolds those of an     *)
(* early look and of a read that threw, ScbKeepsGeneration that of a push  *)
(* cut between its bytes and their meta.                                   *)
THEOREM EveryRouteKeepsItsPromises ==
  Spec => /\ [](ScbOkWasStored /\ LookupIsRecent /\ MemoryIsBounded /\ LessThanTwice /\ OwnCallsOnly)
          /\ [](NobodyIsMissed /\ UsableFirst /\ HonestIsBelieved /\ DigestTellsRequest)
          /\ []DecodeInverts
          /\ DepartureHolds /\ ScbKeepsGeneration /\ ScbRestoreFits /\ NameMovesBySignature
<1>. QED
  BY EveryRouteIsItself, ScbOkIsTrue, MemoryIsRecent, MemoryStaysBounded, NobodyGetsTwice, ChargedForOwnCalls,
     NobodyMissed, UsableComeFirst, HonestAreBelieved, DigestsTell,
     DecodeAlwaysInverts,
     DepartureAlwaysHolds, ScbRotates, ScbRestores, NameMovesAreSigned, PTL
=============================================================================
