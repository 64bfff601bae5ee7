# Verification of the LIJOX registry

LIJOX keeps the directory of Lightning providers (LSPs) and a few small records of the wallets that use them. One
program, `src/lij-worker/src/index.js`, runs at two *doors*: as a Cloudflare worker over KV, and as a Node process
("the box") over a file store. Each door answers its own clients; a loop on the box makes the two stores level every
20 s. This directory holds the TLA+ model of that program, its TLC runs and its TLAPS proofs.

    tlc -workers 2 -config MirrorRaces.cfg MCMirror     # a run: module and cfg as in PROJECT.json
    tlapm MirrorProofs.tla                              # the proofs

Contents: 1 the system; 2 the modules; 3 the runs; 4 fairness; 5 the proofs; 6 what the runs found; 7 what is known
and allowed; 8 what is not modelled; 9 the plan.

## 1. The system

Paths are under `src/lij-worker/`.

| part | state | operations | hard because |
|---|---|---|---|
| mirror rules, `src/mirror.js` | none (pure) | clockOf, clockedStore put and delete, recordAllows | clocks of two machines decide who is newer; a delete must win over an older put at a door that never saw it |
| mirror routes, `src/index.js:511-578` | values and `tomb:` keys at the worker | `/mirror/keys`, `get`, `put`, `delete` | each checks, awaits and acts; the caller may have gone; KV's listing lags |
| Reconciler, `node/reconcile.js` | two listings, the place in the cycle | list both sides, compare, pull, push, delete at either side | every await lets requests in; one cycle moves 300 keys at most; an exception ends it |
| file store, `node/store.js` | per key a value file and a sidecar (clock, expiry) | put, delete, get, list, sweep | a put is two renames, an expired entry is removed by whoever reads it, the box may crash in between |
| LSP registry, `index.js:585-774` | `lsp:<pubkey>`, `lspgone:<pubkey>` | register, unregister, listing | signed messages are late, repeated, reordered; a departure must outlive a captured registration |
| wallet backup, `index.js:841-992` | `backup:<pubkey>`, `bkpchal:<pubkey>:<nonce>` | challenge, push, fetch, meta, forget | one wallet on several devices, lost answers, retries, stale edge reads |
| SCB backup, `index.js:775-833` | two generations over four keys | push, get | four puts, a crash between them |
| names, `index.js:435-472` | `name:<name>` | claim, transfer, release | two claims at once |
| LNURL lookup, caches, `index.js:473-510`, `server.js:32-39` | a 60 s cache at each door | lookup | a stale answer after a transfer; the memory evicts at 1000 entries |
| rate limiter, `node/limiter.js`, `server.js:41-70` | one window per caller | allow | boundary of a window; a client writes its own address headers |
| canonical messages, shape validators, ranking | none (pure) | build, clean, sort | boundary values |
| server, `node/server.js` | timers | boot, listen, stop | restarts |

How they meet. A client request runs `fetch` at a door: the clock is read once, before anything is awaited, and the
rest of the handler sees the store through `clockedStore`, which stamps that clock on every put and leaves
`tomb:<key>` after every delete. Handlers do not lock: each is check, await, act, and the handlers at one door
interleave at every await. The Reconciler reads the box's store directly and the worker's through the mirror routes,
which run from the raw store and stamp the clock they are handed. On the box, the file store lies under everything.

What makes each part correct, in a sentence:

- *Mirror*: the two doors become level after clients rest, and until then nothing is invented, lost unasked, or taken
  back by a stale listing.
- *File store*: one key is a regular register although it lives in two files.
- *LSP registry*: a departure that has left its mark holds against every earlier registration.
- *Wallet backup*: a device is told OK only of a copy that was stored, a conflict only over a different copy, and
  is told in the end.
- *SCB backup*: an OK is true, a push that nothing cut off keeps the generation before it, and what is restored fits its hash.
- *Names*: a held name moves only by its holder's signature.
- *Lookup*: an answer from memory is no staler than the cache's age. *Limiter*: less than twice the limit in any
  period, each caller for its own calls. *Listing*: who is registered all the while is listed, once.
- *Messages*: an honest record is believed; a wallet's signature vouches for one challenge, one action, one copy.

The hazards are listed one by one, at their lines, in `PROJECT.json`.

## 2. The modules

    MirrorRules  <- Mirror <- MCMirror           FileStore    <- MCFileStore
                           <- MirrorProofs                    <- FileStoreProofs
                              <- MirrorCycleProofs
                 <- Departures                   Register     <- FileStore  (INSTANCE: the refinement)
    WalletBackup <- MCWalletBackup               LspRegistry  <- LspRegistryProofs
                 <- WalletBackupProofs           ScbBackup    <- ScbBackupProofs
                                                 Names        <- NamesProofs
    LspRegistry, ScbBackup, Names, Lookup, Limiter, Listing, Messages <- MCRoutes
    MCRoutes, LspRegistryProofs, ScbBackupProofs, NamesProofs         <- RoutesProofs

Each module is one component and has one action per operation; where a handler awaits, each stretch between two
awaits is an action. `PROJECT.json` maps every definition to its lines. Mutants are operators named
`Definition_WhatIsWrong` beside the definition they would replace; no action uses them.

**`MirrorRules`** is `mirror.js` and the guards that each receiving side applies, as pure operators. A value is
`[by, rank, c]`: the request that wrote the bytes, the ts (lsp:) or version (backup:) that rule 4 looks at, and the
clock stamped on it; a tombstone is its clock. A key is of kind `plain`, `lsp` or `backup`.

**`Mirror`** composes both doors, their clients and the loop.

| variable | code |
|---|---|
| `value`, `tomb` | the keys of both stores; `tomb` is `tomb:<key>` |
| `index` | what the worker's KV `list()` shows, which may lag (`KvLags`) |
| `clock` | each door's `Date.now()`; requests never see it go back, the two doors' clocks are unrelated |
| `req` | per slot a client's handler: it checks, then writes, or deletes and buries |
| `pc`, `rlist`, `llist`, `todo`, `cur`, `hand`, `ops` | the locals of one cycle and the await it stands at |
| `calls` | handlers of `/mirror/put` and `/mirror/delete` at the worker; `calls[fails]` is the one the cycle awaits, a lower number one whose cycle has failed |
| `asked`, `sent`, `calm`, `fresh` | history, read by properties only (`sent` also bounds and numbers the requests) |

`Begin`, `Check`, `Write`, `Delete`, `Bury` are a client's request; `StartCycle`, `ListValues`, `ListTombs`,
`Dispatch`, `EndCycle` the cycle; `PullGet`, `PullCheck`, `PullWrite`, `PushRead`, `DropCheck`, `DropDelete`,
`DropBury` its awaits; `CallCheck` ... `CallBury` the worker's side; `ClientDies`, `CycleFails`, `BoxRestarts`,
`CallDies` what goes wrong. A failed cycle's call either never arrived or runs on. A put at the box is two renames, the
value's and then its clock's: when the box stops, or a request or the cycle ends at its put, `CutsOne` may leave the new
value under the old clock or under none (0). `CallDies` is also the tombstone's put of `/mirror/delete` whose failure is
swallowed (`index.js:571`). `Begin` and `RouteAdmits` hold for every route that
writes one key; the routes' own further checks are in their own modules.

**`FileStore`** is one key of `node/store.js`: `v` and `m` are the two files, a call is `put`, `delete`, `read` (get or
listing) or `clean` (a read that found the entry expired), and each file operation is a step. `Crash` removes the
calls and leaves the files. `writes` remembers for each put and delete which writes were over when it began; that
order is all the properties need. The crash of `Mirror`'s box is the same event; there a put is one step unless
it is cut.

**`Register`** is what the routes take a store to be: one key is one place, a write takes effect at one moment, a read
answers what was there at one moment; a box that goes down leaves calls done or not done. `FileStore` implements it
with `val <- v`: the value file is the place, and a writing call is past its effect when it is at its sidecar.

**`Departures`** is a departure at two doors: the record `lsp:` and the mark `lspgone:` are two keys to the loop, moved
in the order of their names by the rules of `MirrorRules`. A request is one step and no call fails; what overlapping
handlers and failures add is in `LspRegistry` and `Mirror`.

**`LspRegistry`** is one LSP at one door. Any message the LSP ever signed may arrive at any time and any number of
times; `SigWindow` stands for the 600 s, the mark lives `2 * SigWindow`. The door is the box, whose store answers what it
holds. Three store calls may throw and be passed over, as in the code: register's two reads (`RegisterRecordUnread`,
`RegisterGoneUnread`) and the put of the mark (`UnregisterBuryFails`). History: `departed`, the latest departure answered
"removed"; of a handler, `early` (its look at the mark was over when a departure was answered) and `blind` (its look
threw). Assumed: a register's two reads happen in the second in which its window was checked.

**`WalletBackup`** is one wallet at one door, used on several devices. `told[d]` is what device d knows of its newest
copy; `req` are handlers, `awaited` says whether the device still listens; `edge` is what an edge cache that has not
refreshed answers (`CacheLags`). A copy is its version, its writer and the writer's life, which stand for the
fingerprint. Devices are external: they save, ask for a challenge, push, read, forget, and give up waiting, as the routes
require of them; one that hears its copy is forgotten may start again at version 1, in a new life
(`node/test-node.mjs:193-196`).

**`ScbBackup`** is one LSP's channel backup at one door: `scb` and `scbmeta` hold, per generation, the bytes (named by
what they are) and the meta (hash and ts). `push` are handlers at one of the two reads or four puts, `restore` a GET
between bytes and meta. History: `stored`, `told`, `latest` (the meta of the push that ended last) and `torn` (the
generations a killed or overlapped push may have left half written).

**`Names`** is one name: `holder` is `name:<name>`, `listed` the LSPs that are registered, `ask` the handlers, each at
the look at its signer, at the receiver of a transfer, at the name, or at its write. `moved` is history: the name has
changed since the handler looked.

**`Lookup`** is the lookup at the box and its memory (`cache`, in insertion order); names move and LSPs depart while
lookups are at one of their awaits. **`Limiter`** is Caddy's header, `clientAddress`, the headers `HOP` drops and the
window table. **`Listing`** is `kvListAll` page by page over a store that changes, and the ranking; both sorts are
`InOrder`: the n-th element is the one that n - 1 precede, by name or by gate, score and place. **`Messages`** is
pure: what `register` refuses, stores and signs, the backup digests, and `zbase32Decode`; a step picks an input and the
properties look at it. A text is the tuple of its fields, since percent-encoding keeps the joiner out of them. What is
picked has the shape of a block or a route (`TataraShapes`, `RouteShapes`), with good or bad values; what the code
refuses for its shape alone is not among the inputs.

**`MCRoutes`** checks these seven in one run: they share no key, so a behaviour takes one of them and leaves the others
where a first request finds them.

## 3. The runs

Bounds are constants, each named in the module. The largest runs take three minutes on two workers.

| run | question | bounds and why they are enough |
|---|---|---|
| `mirror_races` | do races between clients, the cycle and late calls lose, invent or roll back anything? | one key (a cycle treats keys apart but for order and MAX_OPS), a record from before clocks, two overlapping requests at either door with equal clocks allowed, one failed cycle whose call runs on, one killed handler, a lagging listing. Two requests suffice for each race of the hazards list: one that was listed and one that was not |
| `mirror_levels` | does one quiet cycle level the doors, do they converge, can names mix? | two names under `MAX_OPS` = 1, so each cycle leaves one for the next; `backup:` sorts before `name:`, so the one that rule 4 can block comes first; two overlapping requests, one fault (a lost call, a death, a cut or failing put; `OneFault`), lag; distinct clocks (below). Where the two have blocked a name a third request may come (`ThirdMeetsBlock`), so a name is left waiting behind a blocked one |
| `wallet_devices` | is what a wallet hears true, and does it hear? | the phone saves versions 1 and 2, the tablet 1, so equal, lower and higher numbers meet; one fault; stale edge. The phone may forget and start again at 1 once, while only it has stored anything or is at the door, and from then on devices only push (`FewRestarts`): its late pushes, retries and the stale edge from before the forget meet its new copy of their number, and the tablet may come after it |
| `store_reads` | is a key in two files a regular register? | three calls at once, three writes, a crash; durable and expiring; calls are symmetric |
| `registry_routes` | does each of the smaller routes keep its promise? | below |
| `mirror_pull`, `mirror_poisoned`, `wallet_overtaken`, `store_removes`, `registry_doors`, `registry_fault`, `scb_retry` | statements of the documentation that the code does not keep | section 6; the smallest instance that shows each |

The bounds of `registry_routes`, route by route:

- registry: `SigWindow` = 1 and time to 3, so a message may be signed a window ahead and outlive mark and window; two
  overlapping handlers; one of them killed, or one store call that throws.
- SCB: two copies under three stamps (a repeat, an older push and a new one), two overlapping pushes, a restore, a kill.
  Two pushes suffice for every overlap of two puts; a third stamp lets a push come after a torn one.
- names: three LSPs, so that a transfer's giver, receiver and a third claimant are distinct; two handlers.
- lookup: two names under a memory of one entry, so each put evicts; two lookups, two moves, three moments.
- limiter: two addresses, limit 2, a window of 2 over 5 moments, seven calls; a table of one, so it is pruned.
- listing: five LSPs in pages of two under a cap of four, one change between the pages; four records that differ in
  what the ranking looks at.
- messages: every combination of one good, one other good, one bad and each empty value per field; nine tatara blocks,
  one for each way to fail; byte strings to length 3 and longer ones that overflow the accumulator several times.

Handlers go by the same names on every route and so do parties (`alice`, `bob`), which makes both groups
interchangeable: the permutations of handlers and of the two parties are the run's symmetry. `r1` and `carol` stand
apart.

The properties, and why each could fail:

- `Authentic` (Mirror): bytes and clocks of a stored value, and tombstones, were sent for that key. `push` reads the
  value again and sends it under the clock it had *listed*, so bytes and clock of one value may be of two requests;
  both must be of this key. At the box a cut put may leave no clock; at the worker, whose routes check it, never.
- `NothingDroppedUnasked`: a record leaves a door only if a client asked for a delete. A listing that lacks a key, a
  lost call, or a comparison the wrong way round would all break it.
- `StaleListingRollsNothingBack`: in a cycle without client requests, no door goes back in clock, rank or tombstone,
  whatever the listing said. The receiving side's guards carry this, not the loop's comparison.
- `QuietCycleSettles`: one undisturbed cycle with a current listing leaves each key, at both doors, as the newer side
  was, whatever the doors held before - except `Blocked` (below) and `SameInstant`: the box holds a value and the worker
  a tombstone of the same clock, which the cycle pushes and the worker refuses each time.
- `QuietCycleLevels`: with clocks that differ, one undisturbed cycle with a current listing leaves each key as the newer side was - or
  `Blocked`: the newer clock has the lower ts or version and rule 4 refuses it at the other door.
- `Converges`: `<>[]` of level, blocked or out of reach, under the fairness of section 4. `OutOfReach` is said exactly:
  `MAX_OPS` blocked names sort before the name, or a name without a clock (`Poisoned`) does. The documentation does not
  have these exceptions: `mirror_poisoned` refutes the property without them, `RestNextCycle`.
- `OkWasWritten`, `ConflictIsReal`, `EveryoneHears` (WalletBackup). A conflict is over a different copy of at least the
  number: a rival's, or the wallet's own from before a forget. Never over the very copy that is sent.
- `DepartureHolds` (LspRegistry) has three provisos: a handler whose look at the mark was over when the mark was
  written (`early`), one whose look threw (`blind`), and a registration signed in the *same* second as the departure:
  at the last second of both windows the mark has just expired and the message has not. It speaks of departures that
  have left a mark. `registry_fault` refutes the same sentence, of every departure that was answered, without `blind`.
- `ReadIsRegular`, `DurablePairFits` (FileStore): a read answers nothing replaced before it began; a durable value
  that no write or crash disturbed comes with its own clock. `StoreIsRegister`: every step of the two files is a step
  of `Register`.
- `ScbOkWasStored`: a repeat is answered from the meta alone, so the meta must never be ahead of its bytes.
  `ScbKeepsGeneration`, `ScbRestoreFits`: generations move in four puts, any of which may be the last. Both speak of
  generations that no cut or overlapping push has torn; the retry of a cut push is `scb_retry`.
- `NameMovesBySignature`: look and write are apart; what came between must be the only excuse.
- `LookupIsRecent`, `MemoryIsBounded`: an entry is as old as the read of the name, not as its put; puts check the
  size after an await.
- `LessThanTwice`, `OwnCallsOnly`: a window begins with a call, and the address comes out of headers a client writes.
- `NobodyIsMissed`, `UsableFirst`: pages are read while records come and go; the sort has three keys.
- `HonestIsBelieved`: the text built from what the door stores is the text that was signed. `DigestTellsRequest`:
  digests are plain concatenations, told apart by the length of the nonce alone. `DecodeInverts`: decoding gives back
  what LND encoded, past the accumulator's overflow.

Deadlock is not checked where the bounds stop the system (`CHECK_DEADLOCK FALSE`: store, routes, registry, departures and wallet runs);
the Mirror runs check it, since the loop never stops.

Equal clocks. `mirror.js:10` counts a clock as newer only if it is greater. Two different writes of one key in the
same millisecond at two doors stay different, and the loop, which compares clocks only, sees them as level. The runs
about level doors take requests of one key with distinct clocks (`Ties = FALSE`); `mirror_races` allows equal ones, and
`QuietCycleSettles` there says what they cost: a value and a delete of one millisecond may stay apart, nothing else that
the loop can see does.

## 4. Fairness

- `Mirror`: weak fairness of the cycle's steps (`start` sets a timer that never stops, and Node resolves each await),
  of each client handler and mirror handler that was not killed (a runtime runs what is ready), and of KV's listing
  (eventually consistent). None for clients, failures and deaths. With the bounds on these, "clients rest" is certain.
- `WalletBackup`: weak fairness of handlers and of the expiry of unused challenges (120 s pass); weak of asking for a
  challenge and strong of pushing with one - a wallet with an unsaved copy tries again, and reading or forgetting with
  its challenge does not keep it from that for ever. This is the one assumption about code that is not here, the
  wallet's engine.
- `FileStore`, `Departures` and the modules of `MCRoutes` have safety properties only.

## 5. The proofs

Every theorem holds for all values of the constants that satisfy the modules' ASSUMEs: any number of keys, calls,
devices, requests, clocks and failures. The assumptions say that bounds are numbers, that switches are Booleans and
that `None` is none of the values it stands apart from.

**`MirrorProofs`.** `TypeCorrect` is inductive as it stands, since `TypeOK` also says what the cycle holds at each await
(a pull has a value in hand, a drop a listed tombstone); `WayFits` is the lemma that makes it so: for two sides that
differ, the loop names an operation that fits the side that exists. `AllIsAuthentic` needs the whole of `Authentic`:
what is stored came from a call, a pull or a request, what those carry came from a store or a listing, and a listing
from a store; no part is inductive without the others. `NothingIsDroppedUnasked` is an action property that follows
from both: a value is removed by a client's delete, by a drop (which follows a listed tombstone, hence an asked
delete) or by a remote delete (likewise), and by nothing else.

**`WalletBackupProofs`.** The invariant `IInv` adds to the two promises what they rest on: the store and the edge hold
only copies remembered as stored (`StoredWasWritten`); no stored copy is later than its device's newest, by
life and then by number (`NotLater`, `NumbersRise`); a request carries its own device's copy, and a push left only to
delete its challenge has its copy stored (`RequestsAreSound`). From `NumbersRise` a conflict with a device's *newest* copy
cannot come from an older one of this life; with the repeat answer, not from the same copy either: hence a rival's, or one
from before a forget (`ConflictIsTrue`). A device with newer bytes has been told nothing yet (`RenewedHonest`).

**`FileStoreProofs`.** `IInv` says that a writing call is the only one at its write (`CallsFit`); that once past its
first file a write has replaced whatever it came after (`NothingReplacedIsThere`); that what a reader saw had not been
replaced by a write that was over when it began (`SeenWasThere`); and that on a durable key nothing ever counts as
expired, so only a delete takes a value away (`DurableStays`). `EveryReadIsRegular` follows. For
`DurablePairsFit` the invariant is extended (`PairKept`): on a durable key the sidecar is that of the value there as
long as its write was alone (`PairStays`), and a reader that saw such a value finds that sidecar.
`StoreImplementsRegister` maps each step: the first file of a put or delete is `TakesEffect`, the second `IsDone`,
reading the value file `Looks` or `FindsNothing`, the sidecar `Answers`; a cleaner's unlink is `Expires`, which needs
`DurableStays`, and a crash is `GoesDown`.

**`LspRegistryProofs`.** `DepartureAlwaysHolds` turns on `MarkOutlives`: the mark of a completed departure expires no
sooner than every registration older than it leaves its window. That is so because a departure is signed at most a
window ahead of the door (`DepartureNotAhead`) and a register that looks at the mark is at most a window old
(`RegisterNotOld`); so what is past its look is newer, or was past it before, or did not see (`PutsAreNewer`). Faults are any number of
killed handlers and of store calls that throw, those that are passed over included; a departure whose mark could not be
written is none that the theorem speaks of.

**`ScbBackupProofs`.** `ScbIInv`: what a meta names was stored, and bytes go before meta (`StoredFirst`, `BytesFirst`);
a push that runs alone has read what is there (`AloneKnows`), writes another copy and a later ts (`WritesNews`); the
current meta is that of the push that ended last (`MetaIsLatest`); a generation fits unless it may be torn, with what
is whole at each of the four puts spelled out (`GenerationsFit`); and beside a calm restore nothing moves
(`CalmRestores`). `ScbOkIsTrue`, `ScbRotates` and `ScbRestores` follow from it, the last two for what is
not torn.

**`NamesProofs`.** `LooksAreGood`: a request about to write found a holder it may write over, and that is still the
holder unless the name changed since. `NameMovesAreSigned` follows.

**`MirrorCycleProofs`.** What a cycle does when clients rest. `GuardsStand`: the loop and the receiving side check and
then touch the store an await later; with no client about, nobody but the cycle's one call moves the key in between, so
the guard still holds - at every await and however stale the listing was. `NothingRollsBack` follows step by step.
`Levelling` is the invariant of an undisturbed cycle from a current listing: what it has not reached is as it was
listed, what it has passed is settled, and the one name it is at stands where the chosen operation has brought it
(`Pending`, before the store is touched; then moved). That a pull, push or drop which its guard lets pass makes the two
sides level, and that one its guard refuses is `Blocked` or of the same instant, are lemmas about `MirrorRules`.
`QuietCyclesSettle` needs no hypothesis. `QuietCyclesLevel` adds `~Ties`: no two requests for one key carry one clock,
the case that `mirror.js` leaves open; from it follows that no value and tombstone of one key do.

**`RoutesProofs`.** What the seven routes of `MCRoutes` promise.

- Joint run: `EveryRouteIsItself` - a behaviour of the run is a behaviour of every route's own specification, since the
  variables of the others stand still. So `RoutesTypeCorrect` and `EveryRouteKeepsItsPromises` carry what is proved of
  the components, here and in their modules, over to the run.
- Lookup: `LookupIInv` keeps for each lookup when it read the name, and that the name's holder then is still the holder
  or lost it no earlier; an entry inherits that, with the time it took. A put removes its own key and, at the limit, the
  first entry, so names stay distinct and the size bounded.
- Limiter: in `LimiterIInv` a running window begins with a call that was let through and counts all since its start; of
  the calls before it *fewer than the limit* are less than a period away from its start. A new window may begin only a
  period after the old one began, with the very call that began it, so that call is not among those that reach over.
  Fewer than the limit before, at most the limit since: fewer than twice in any period.
- Listing: `ListingIInv` - no name twice among those read, in the order of their keys; up to the cursor none is missing
  that was there all the while; after the last page none but behind a full cap. A page is the smallest names behind the
  cursor (`PageIsRead`), which rests on what a sort does: by counting, each rank below the size is taken exactly once
  (`SortsAll`). The list is the same sort under `Goes`, a strict order (`RankingIsStrict`).
- Messages: cleaning a block or a route keeps its text (`CleanTataraSays`, `CleanRoutesSay`), hence
  `HonestAreBelieved`. In a digest the action and the nonce have a known length, so two equal digests are cut at the same places (`CutAlike`); hence `DigestsTell`. `MessagesAssumption` says that
  blocks and routes have their shape, that null is neither a block nor a list nor the empty text, that the value of a
  bad number is not a number, that keys are sequences, and that signatures are bytes.
- Decoder: `DecodeAlwaysInverts` says in closed form what the decoder holds after n characters (`DecodedTo`): the low 25
  bits of the accumulator are the last five characters, and out of them come the bytes whose eight bits are complete
  (`ByteIs`, by how many bits of the next byte the last character already holds). That function satisfies the decoder's
  recursion (`DecodeRuns`), and no other one does (`DecodesOnce`, by the first character where two would differ) - the
  place of an induction, which the provers cannot take over an operator. Five times the characters of a text of L bytes
  is 8 * L and at most four more, so what is left at the end is no byte.

Only model-checked:

- liveness, `Converges` and `EveryoneHears`: fairness and ENABLED are beyond the prover;
- that the runs of section 6 find their counterexamples, which no theorem could say.

## 6. What the runs found

Each of these runs ends in a counterexample; the full text is in `PROJECT.json`.

- `mirror_pull`: between `pull`'s check and its put (`reconcile.js:83-85`) the box's own route may accept a newer copy;
  the older one is written over it. The property is that the guards the header names hold when the box is written.
  One of them, the box's own tombstone, `pull` does not even read: a delete at the box after the listing is undone as
  well, and stays so. (The run's trace
  is the race; asked only of writes that `PullAllows` still lets through, the property fails by the tombstone.)
- `mirror_poisoned`: a record from before clocks that only the box still has (or one whose first put a crash has cut) is
  pushed with clock 0; the worker answers 400, `push` throws, and every later cycle ends at that name. The same
  property, "the rest next cycle", fails without it too: a name that rule 4 blocks differs in every cycle and takes one
  of MAX_OPS each time (`reconcile.js:125`), so with MAX_OPS such names before it a later name is never moved. (That is
  the trace under `BlockedSpec` with the constants of `mirror_levels`, but one slot and no deaths.)
- `wallet_overtaken`: two pushes that both read before either writes; the older copy is written last
  (`index.js:888-903`), though the standard says it never can.
- `store_removes`: a reader or the sweep between the two renames of a put meets the old, expired sidecar and removes
  the new value (`store.js:75`).
- `registry_doors`: a registration delivered again at the door that has not heard of the departure yet is admitted and
  stamped with a newer clock. The next cycle copies it over the tombstone to the door that holds the mark, since
  neither `pull` nor `/mirror/put` looks at `lspgone:` (`mirror.js:64-71`).
- `registry_fault`: the mark's read throws and is passed over (`index.js:733`): a captured registration older than the
  departure is stored beside its mark. The record's read is passed over likewise (`726`), and so is the mark's put
  (`770`), after which the LSP is told "removed" with no mark at all; the property fails by that one too.
- `scb_retry`: a push cut off between its bytes and its meta (`index.js:807-808`) and sent again rotates the same copy
  over the previous generation, though the comment says a repeat is never a rotation.

## 7. Known and allowed

The models show these too; no property forbids them. Five are against the letter of a comment or a test:

- *Signatures*. `index.js:182-183`: "The signature binds EVERY advertised field". An amount that is no number is signed
  as 0 (`222`, `AsNumber`) and stored as NaN, which JSON makes null (`702-705`, `Number`): under the signature of a
  record with the fee 0 one without a fee can be stored. So there is no property that a text tells its record.
- *Tombstones*. `mirror.js:11`: "A delete leaves `tomb:<key>` (7 days, with the clock)". A copied one is
  written with a fresh 7 days (`reconcile.js:109`, `index.js:571`). When a cycle lists between its expiries at the two
  doors, the door that has just forgotten the delete is handed it back, and 7 days later the other: the tombstone of a
  key nobody touches need never go. Its clock never changes, so no record is touched by it. (Read from the code;
  `Mirror` has no time.)
- *Equal clocks*. `reconcile.js:9`: "Equal clocks are the same write: nothing to do". When the box stops between the two
  renames of a put (`store.js:95-97`) the new bytes stand under the old clock, which the worker's copy of the old bytes
  carries too, and the doors stay apart (`CutsOne`; `Level` compares clocks, as the loop does). Two writes of one
  millisecond at two doors come to the same.
- *Restarts*. `node/test-node.mjs:196`: "after a forget the wallet starts again at v1 - the worker accepts it (no stored
  copy)". There is a stored copy after a forget where an earlier push was still running and stores it again
  (`index.js:888-903`, `988`), or where the edge still answers with it for its 30 s: the wallet's v1 is then refused
  as stale by the wallet's own old copy, which is why `ConflictIsReal` names both a rival's and one's own.
- *Order of registrations*. `index.js:728-729`: the stored record cannot be rolled back by an older registration. It can
  by one whose read of the record threw (726), or that overlapped a newer one.

The others are against no statement of the repository that we know of:

- Store: a reader whose sidecar another reader has just removed takes an expired value for one that never expires.
  Two interleaved puts may leave the bytes of one under the clock of the other. A crash after the first rename of a
  first put leaves a key without expiry. A cleaner's second removal can take a fresh sidecar. Temporary files left by
  a crash are never removed.
- Registry: an unregister that read an older record deletes a newer registration stored meanwhile; two overlapping
  registers may leave the older one; an unregister of what is not there leaves no mark; nor does one killed between
  the delete and the mark.
- SCB: two overlapping pushes may mix generations, and a restore beside a push may answer bytes and hash of two
  generations (the LSP sees that by the hash). `torn` and `calm` mark these.
- Names: two claims of one free name at once are both told it is theirs, and the later write stays. A release that
  looked before a transfer deletes the new holder's entry after it. Within its 600 s a captured request may be used
  again: a name released and claimed by another meanwhile is not taken back, one that is free again is.
- Lookup: the 60 s count from the put, so the time from reading the name to keeping the answer, which only the LSP's
  answer bounds, comes on top.
- Limiter: calls at the end of one window and the start of the next pass together, up to one less than twice the
  limit.
- Messages: `filter_sp` without a `filter_url`, beside a `tatara` block or routes, is refused as a bad signature (403), not as a bad shape.
- Server: `content-length` is among the headers the box drops, so the routes' early size checks (`tooLarge`) never
  apply there; the handler's own cap on the body does.
- Wallet: one nonce may admit two requests that run at once (it is deleted after the work). A push that runs beside a
  forget may store the copy again after it. A repeat answered from a stale edge says OK about a copy that a forget has
  removed since.
- Mirror: two doors rest apart at a name that rule 4 blocks, until somebody writes it again. A record whose delete was
  cut before its tombstone comes back from the other door.

## 8. What is not modelled

- Tests (`*.mjs`, some 1300 lines of the repository), CI and deploy scripts: nothing of the registry runs in them.
- Time in `Mirror`: values and tombstones do not expire there. Of mirrored values only `lspgone:` does.
- Signatures and hashing: a message that does not verify is refused before any state is read. secp256k1 and sha256 are
  external. The texts of unregister, names, SCB and mirror requests (a few fields each, joined like register's) are
  not in `Messages`.
- The 600 s window of SCB pushes and name requests: any signed request may arrive at any time, which is more.
- KV's caches in reads by key at the worker, within `Mirror`; they are in `WalletBackup` (`edge`). Cloudflare's cache
  and rate-limit bindings are external. The listing's pages at the mirror: each page may be older than the last, which
  the lag of `index` covers.
- Of the puts under way when the box stops at most one is cut. A delete at the box cut between its two files leaves the
  sidecar of a value that is gone; it is read by nobody until the name is put again (`FileStore` has it, `Mirror` not).
- Bytes: a number of the request that wrote them. A copied record that cannot be parsed is left out.
- The check steps of `/mirror/put`, `/mirror/delete` and `deleteLocal` read value and tombstone one after the other;
  the model reads both at once.
- Key encoding and directories of the file store; names of temporary files (random tags keep them apart).
- Wallet: a restart that the door did not hear of (the app reinstalled); copies without a fingerprint; other wallets (no key is shared); size limits.
- Listing: `last_seen_ms`, `stale` and `first_registered_at`, which no decision looks at; records that do not parse.
- HTTP plumbing, logging, HTML.

## 9. The plan

Done, in this order: `MirrorRules` and `Mirror` with proofs (the most important behaviour: two stores that must
agree); `WalletBackup` with proofs; `FileStore` with proofs; `LspRegistry`; then `ScbBackup`, `Names`, `Lookup`,
`Limiter`, `Listing`, `Messages` and their joint run; `Register` and the refinement; proofs of `LspRegistry`,
`ScbBackup` and `Names`; `Departures`; proofs of the mirror's quiet cycles, and of `Lookup`, `Limiter`,
`Listing` and `Messages` (`Listing`'s sorts were restated by rank, so that they can be reasoned about).

Next: abstract specifications of one record with a newest writer, which `Mirror` implements in quiet cycles, and of a
store of the newest copy, which `WalletBackup` implements for one request at a time.
