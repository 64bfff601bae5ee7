SPECIFICATION Spec
CONSTANTS
  Handlers = {h1, h2}
  SigWindow = 1
  RegistryTime = 3
  RegistryFaults = 1
  Absent = Absent
  Copies = {alice, bob}
  Stamps = {1, 2, 3}
  Pushes = {h1, h2}
  Restores = {r1}
  MaxKills = 1
  NoCopy = NoCopy
  LSPs = {alice, bob, carol}
  NameSlots = {h1, h2}
  Nobody = Nobody
  Aliases = {n1, n2}
  Providers = {alice, bob}
  Lookups = {h1, h2}
  MaxAge = 1
  MaxEntries = 1
  LookupTime = 2
  MaxMoves = 2
  NoLsp = NoLsp
  Addresses = {alice, bob}
  Limit = 2
  Period = 2
  TableSize = 1
  LimitTime = 4
  MaxCalls = 7
  NumKeys = 5
  PageSize = 2
  Cap = 4
  Records <- MCRecords
  Changes = 1
  NoRecord = NoRecord
  Urls = {urlA, urlB}
  Sockets = {sock}
  Fees = {0, 1}
  TataraBlocks <- MCTataraBlocks
  RouteLists <- MCRouteLists
  ByteStrings <- MCByteStrings
  HexStrings <- MCHexStrings
  NonceLength = 2
  Null = Null
  Blank = Blank
  Junk = Junk
  NaN = NaN
  urlA = urlA
  urlB = urlB
  sock = sock
INVARIANTS
  TypeOK
  ScbOkWasStored
  LookupIsRecent
  MemoryIsBounded
  LessThanTwice
  OwnCallsOnly
  NobodyIsMissed
  UsableFirst
  HonestIsBelieved
  DigestTellsRequest
  DecodeInverts
PROPERTIES
  DepartureHolds
  ScbKeepsGeneration
  ScbRestoreFits
  NameMovesBySignature
SYMMETRY MCSymmetry
CHECK_DEADLOCK FALSE
