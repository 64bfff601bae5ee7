------------------------------ MODULE MCRoutes ------------------------------
(***************************************************************************)
(* The routes that share no key with one another, checked in one run: a    *)
(* behaviour picks one of them, the others stay where a first request      *)
(* would find them.                                                        *)
(***************************************************************************)
EXTENDS LspRegistry, ScbBackup, Names, Lookup, Limiter, Listing, Messages, TLC

CONSTANTS urlA, urlB, sock

VARIABLE route

routesVars == <<route, registryVars, scbVars, namesVars, lookupVars, limiterVars, listingVars, messagesVars>>

TypeOK ==
  /\ RegistryTypeOK /\ ScbTypeOK /\ NamesTypeOK /\ LookupTypeOK /\ LimiterTypeOK /\ ListingTypeOK /\ MessagesTypeOK
  /\ route \in {"registry", "scb", "names", "lookup", "limiter", "listing", "messages"}

Init ==
  /\ route \in {"registry", "scb", "names", "lookup", "limiter", "listing", "messages"}
  /\ RegistryInit
  /\ ScbInit /\ (route # "scb" => signs = [ts \in Stamps |-> NoCopy])
  /\ NamesInit /\ (route # "names" => listed = {} /\ holder = Nobody)
  /\ LookupInit /\ (route # "lookup" => nameOf = [name \in Aliases |-> NoLsp])
  /\ LimiterInit
  /\ ListingInit /\ (route # "listing" => record = [k \in Keys |-> NoRecord])
  /\ MessagesInit

RegistryRoute ==
  /\ route = "registry" /\ RegistryNext
  /\ UNCHANGED <<route, scbVars, namesVars, lookupVars, limiterVars, listingVars, messagesVars>>
ScbRoute ==
  /\ route = "scb" /\ ScbNext
  /\ UNCHANGED <<route, registryVars, namesVars, lookupVars, limiterVars, listingVars, messagesVars>>
NamesRoute ==
  /\ route = "names" /\ NamesNext
  /\ UNCHANGED <<route, registryVars, scbVars, lookupVars, limiterVars, listingVars, messagesVars>>
LookupRoute ==
  /\ route = "lookup" /\ LookupNext
  /\ UNCHANGED <<route, registryVars, scbVars, namesVars, limiterVars, listingVars, messagesVars>>
LimiterRoute ==
  /\ route = "limiter" /\ LimiterNext
  /\ UNCHANGED <<route, registryVars, scbVars, namesVars, lookupVars, listingVars, messagesVars>>
ListingRoute ==
  /\ route = "listing" /\ ListingNext
  /\ UNCHANGED <<route, registryVars, scbVars, namesVars, lookupVars, limiterVars, messagesVars>>
MessagesRoute ==
  /\ route = "messages" /\ MessagesNext
  /\ UNCHANGED <<route, registryVars, scbVars, namesVars, lookupVars, limiterVars, listingVars>>

Next == RegistryRoute \/ ScbRoute \/ NamesRoute \/ LookupRoute \/ LimiterRoute \/ ListingRoute \/ MessagesRoute

Spec == Init /\ [][Next]_routesVars

-----------------------------------------------------------------------------
(* Values of the constants.                                                *)

MCRecords ==
  {[wss |-> TRUE, http |-> FALSE, fee |-> 0, uptime |-> 100],
   [wss |-> TRUE, http |-> FALSE, fee |-> 2, uptime |-> 100],
   [wss |-> FALSE, http |-> FALSE, fee |-> 0, uptime |-> 100],
   [wss |-> TRUE, http |-> TRUE, fee |-> 0, uptime |-> 90]}

\* Good blocks, as an operator may write them, and one for every way to fail.
Block(v, low, high, sizes, pools, channels, relay, coins) ==
  [v |-> v, min_people |-> low, max_people |-> high, sizes |-> sizes, channel_pools |-> pools,
   channel_sizes |-> channels, relay_url |-> relay, coin_check_url |-> coins]
MCTataraBlocks ==
  {Block(1, 2, 3, <<1, 2>>, TRUE, <<5>>, sock, urlA), Block(1, 3, 3, <<1>>, FALSE, Null, sock, Blank),
   Block(1, 2, 2, <<1>>, FALSE, <<>>, sock, Null),
   Block(0, 2, 3, <<1>>, FALSE, Null, sock, Null), Block(1, 3, 2, <<1>>, FALSE, Null, sock, Null),
   Block(1, 1, 3, <<1>>, FALSE, Null, sock, Null), Block(1, 2, 3, <<2, 2>>, FALSE, Null, sock, Null),
   Block(1, 2, 3, <<>>, FALSE, Null, sock, Null), Block(1, 2, 3, <<1>>, TRUE, Null, sock, Null)}

Hop(reach, endpoint, filter) ==
  [reach |-> reach, endpoint |-> endpoint, wss_url |-> sock, filter_url |-> filter]
MCRouteLists ==
  {<<Hop("direct", urlA, f)>> : f \in {Null, Blank, urlA, urlB}}
  \union {<<Hop("direct", urlA, Blank), Hop("tor", e, f)>> : e \in {urlA, urlB}, f \in {Blank, urlA, urlB}}
  \union {<<>>, <<Hop("other", urlA, Null)>>}

\* Every short string of four bytes, and longer ones that make the accumulator overflow.
MCBytes == {0, 1, 128, 255}
MCByteStrings ==
  UNION {[1..n -> MCBytes] : n \in 0..3}
  \union {[i \in 1..n |-> (step * i + b) % 256] : n \in {5, 8, 20}, step \in {0, 1, 37}, b \in MCBytes}
MCHexStrings == UNION {[1..n -> {"p", "f", "t"}] : n \in 1..2}

\* Handlers and parties go by the same names on every route: the group of symmetries stays small.
MCSymmetry == Permutations(Pushes) \union Permutations(Copies)
=============================================================================
