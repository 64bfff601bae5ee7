------------------------------ MODULE Messages ------------------------------
(***************************************************************************)
(* What a signature vouches for (index.js, pure functions): the shapes a   *)
(* registration must have, the record stored of it, the text that is       *)
(* signed, the digests that a wallet signs, and the decoding of LND's      *)
(* zbase32 signatures.  One input is picked, the properties look at it.    *)
(*                                                                         *)
(* A text is the tuple of its fields: percent-encoding keeps the joiner    *)
(* out of them, and an address that passes has no '|' or ';' in it.  An    *)
(* address is good or Junk; "", null and NaN are Blank, Null and NaN.      *)
(*                                                                         *)
(* Not covered: fields treated as one that is here (name, route_endpoint   *)
(*   and route_macaroon as wss_url; the other amounts as fee_ppm; the      *)
(*   other whole numbers of a tatara block as min_people), lengths,        *)
(*   sha256 and secp256k1 themselves.                                      *)
(***************************************************************************)
EXTENDS Integers, Sequences, SequencesExt

CONSTANTS
  Urls, Sockets,    \* good https:// and wss:// addresses
  Fees,             \* numbers a fee may be
  TataraBlocks,     \* tatara blocks as they may be sent
  RouteLists,       \* routes lists as they may be sent
  ByteStrings,      \* signatures as LND encodes them
  HexStrings,       \* nonces and keys, as bytes, of any length
  NonceLength,      \* 32 bytes
  Null, Blank, Junk, NaN

VARIABLES picked    \* the input: [kind, in], or Null
messagesVars == <<picked>>

\* The shape of a tatara block and of a route, good or not; whatever has another shape is refused.
TataraShapes ==
  [v : Int, min_people : Int, max_people : Int, sizes : Seq(Int), channel_pools : BOOLEAN,
   channel_sizes : Seq(Int) \union {Null}, relay_url : Sockets \union {Junk},
   coin_check_url : Urls \union {Null, Blank, Junk}]
RouteShapes ==
  [reach : STRING, endpoint : Urls \union {Junk}, wss_url : Sockets \union {Junk},
   filter_url : Urls \union {Null, Blank, Junk}]

ASSUME MessagesAssumption ==
  /\ TataraBlocks \subseteq TataraShapes /\ RouteLists \subseteq Seq(RouteShapes)
  /\ Null \notin TataraShapes /\ Null \notin Seq(RouteShapes)
  /\ Null # Blank /\ NaN \notin Fees /\ NonceLength \in Nat
  /\ \A h \in HexStrings : h \in Seq(Range(h))
  /\ ByteStrings \subseteq Seq(0..255)

-----------------------------------------------------------------------------
(* Shapes.                                                                 *)

OrNull(v) == IF v = Blank THEN Null ELSE v
UrlOk(v) == v \in Urls \union {Null, Blank}                \* cleanFilterUrl
Ascending(s) == \A i \in 1..(Len(s) - 1) : s[i] < s[i + 1]
SizesOk(s) == Len(s) <= 12 /\ (\A i \in DOMAIN s : s[i] >= 1) /\ Ascending(s)

ChannelSizes(t) == IF t.channel_sizes = Null THEN <<>> ELSE t.channel_sizes
TataraOk(t) ==
  /\ t.v = 1
  /\ {t.min_people, t.max_people} \subseteq 2..100 /\ t.min_people <= t.max_people
  /\ SizesOk(t.sizes) /\ t.sizes # <<>>
  /\ SizesOk(ChannelSizes(t)) /\ (t.channel_pools <=> ChannelSizes(t) # <<>>)
  /\ t.relay_url \in Sockets
  /\ UrlOk(t.coin_check_url)
CleanTatara(t) ==
  IF t = Null THEN Null
  ELSE [t EXCEPT !.channel_sizes = ChannelSizes(t), !.coin_check_url = OrNull(@)]

RoutesOk(rs) ==
  /\ Len(rs) \in 1..3
  /\ \A i \in DOMAIN rs :
       /\ rs[i].reach \in {"direct", "cloudflare", "tor"}
       /\ rs[i].endpoint \in Urls /\ rs[i].wss_url \in Sockets /\ UrlOk(rs[i].filter_url)
       /\ \A j \in 1..(i - 1) : rs[j].endpoint # rs[i].endpoint
CleanRoutes(rs) ==
  IF rs = Null THEN Null ELSE [i \in DOMAIN rs |-> [rs[i] EXCEPT !.filter_url = OrNull(@)]]

\* routes[0] repeats the record: what an older wallet reads is the operator's first choice.
FirstRepeats(f) ==
  LET first == CleanRoutes(f.routes)[1] IN
  first.endpoint = f.endpoint /\ first.wss_url = OrNull(f.wss_url) /\ first.filter_url = OrNull(f.filter_url)

RegisterOk(f) ==
  /\ f.endpoint \in Urls
  /\ f.wss_url \in Sockets \union {Null, Blank}
  /\ UrlOk(f.filter_url)
  /\ f.tatara # Null => TataraOk(f.tatara)
  /\ f.routes # Null => RoutesOk(f.routes) /\ FirstRepeats(f)

\* The record: what is stored and served.
Number(v) == IF v \in Fees THEN v ELSE NaN
Stored(f) ==
  [endpoint |-> f.endpoint, wss_url |-> OrNull(f.wss_url), fee_ppm |-> Number(f.fee_ppm),
   filter_url |-> OrNull(f.filter_url), filter_sp |-> OrNull(f.filter_url) # Null /\ f.filter_sp,
   tatara |-> CleanTatara(f.tatara), routes |-> CleanRoutes(f.routes)]

-----------------------------------------------------------------------------
(* canonicalRegisterMsg.                                                   *)

AsText_AsIs(v) == v                                       \* mutant: null and "" are signed differently
AsText(v) == IF v = Null THEN Blank ELSE v
AsNumber(v) == IF v \in Fees THEN v ELSE 0                 \* String(Number(v) || 0)
AsBit(v) == IF v THEN 1 ELSE 0

BaseFields(f) == <<f.endpoint, AsText(f.wss_url), AsNumber(f.fee_ppm)>>
FilterFields(f) == <<AsText(f.filter_url), AsBit(f.filter_sp)>>
TataraText(t) ==
  IF t = Null THEN <<0, 0, 0, <<>>, 0, <<>>, Blank, Blank>>
  ELSE <<t.v, t.min_people, t.max_people, t.sizes, AsBit(t.channel_pools), ChannelSizes(t),
         t.relay_url, AsText(t.coin_check_url)>>
RouteText(r) == <<r.reach, r.endpoint, r.wss_url, AsText(r.filter_url)>>
RouteTexts(rs) == [i \in DOMAIN rs |-> RouteText(rs[i])]

RegisterText(f) ==
  CASE f.routes # Null -> <<"v4">> \o BaseFields(f) \o FilterFields(f) \o TataraText(f.tatara)
                                   \o <<RouteTexts(f.routes)>>
    [] f.routes = Null /\ f.tatara # Null -> <<"v3">> \o BaseFields(f) \o FilterFields(f) \o TataraText(f.tatara)
    [] f.routes = Null /\ f.tatara = Null /\ OrNull(f.filter_url) # Null ->
         <<"v2">> \o BaseFields(f) \o FilterFields(f)
    [] OTHER -> <<"v1">> \o BaseFields(f)

-----------------------------------------------------------------------------
(* What a wallet signs: backupDigest and backupDigestV2, plain             *)
(* concatenations of bytes before the hash.                                *)

Actions == {"backup-push", "backup-read", "backup-forget"}
ActionBytes(a) == CASE a = "backup-push" -> <<"p">> [] a = "backup-read" -> <<"r">>
                    [] a = "backup-forget" -> <<"f", "t">>             \* two bytes longer than the others
NonceOk_Any(n) == TRUE                                   \* mutant: a nonce of any length
NonceOk(n) == Len(n) = NonceLength
VersionBytes(v) == <<v \div 16, v % 16>>                                \* big-endian, of fixed width
DigestInput(q) ==
  IF q.auth_v = 2 THEN <<2>> \o ActionBytes(q.action) \o q.nonce \o q.pubkey \o <<q.fingerprint>> \o VersionBytes(q.version)
  ELSE <<1>> \o ActionBytes(q.action) \o q.nonce \o q.pubkey

\* A v1 push says nothing of its copy; 2 is for pushes only.
BackupRequests ==
  {q \in [auth_v : {1, 2}, action : Actions, nonce : HexStrings, pubkey : HexStrings,
          fingerprint : {0, 1}, version : {0, 1, 16}] :
     IF q.auth_v = 2 THEN q.action = "backup-push" ELSE q.fingerprint = 0 /\ q.version = 0}

-----------------------------------------------------------------------------
(* zbase32Decode.                                                          *)

\* LND's encoding: five bits a character, the last one filled up with zeros.
TwoTo(n) == <<1, 2, 4, 8, 16, 32, 64, 128>>[n + 1]
BitOf(bytes, k) ==
  IF k \div 8 >= Len(bytes) THEN 0 ELSE (bytes[k \div 8 + 1] \div TwoTo(7 - (k % 8))) % 2
Zbase32(bytes) ==
  [i \in 1..((8 * Len(bytes) + 4) \div 5) |->
     LET k == 5 * (i - 1) IN
     16 * BitOf(bytes, k) + 8 * BitOf(bytes, k + 1) + 4 * BitOf(bytes, k + 2)
       + 2 * BitOf(bytes, k + 3) + BitOf(bytes, k + 4)]

\* acc is an int32 that is never cleared; its low 25 bits are kept here, the shift reads less than 13.
Low25 == 33554432
DecodeStep_Late(st, ch) ==                               \* mutant: a byte only once there is more than one
  LET acc == (st.acc * 32 + ch) % Low25
      bits == st.bits + 5
  IN IF bits > 8 THEN [acc |-> acc, bits |-> bits - 8, out |-> Append(st.out, (acc \div TwoTo(bits - 8)) % 256)]
     ELSE [acc |-> acc, bits |-> bits, out |-> st.out]
DecodeStep(st, ch) ==
  LET acc == (st.acc * 32 + ch) % Low25
      bits == st.bits + 5
  IN IF bits >= 8 THEN [acc |-> acc, bits |-> bits - 8, out |-> Append(st.out, (acc \div TwoTo(bits - 8)) % 256)]
     ELSE [acc |-> acc, bits |-> bits, out |-> st.out]
Zbase32Decode(chars) ==
  LET st[n \in 0..Len(chars)] ==
        IF n = 0 THEN [acc |-> 0, bits |-> 0, out |-> <<>>] ELSE DecodeStep(st[n - 1], chars[n])
  IN st[Len(chars)].out

-----------------------------------------------------------------------------
Registrations ==
  [endpoint : Urls \union {Junk}, wss_url : Sockets \union {Null, Blank, Junk}, fee_ppm : Fees \union {Junk},
   filter_url : Urls \union {Null, Blank, Junk}, filter_sp : BOOLEAN, tatara : TataraBlocks \union {Null},
   routes : RouteLists \union {Null}]

MessagesInit == picked = Null
Picks(kind, inputs) == picked = Null /\ \E x \in inputs : picked' = [kind |-> kind, in |-> x]
MessagesNext ==
  \/ Picks("register", Registrations)
  \/ Picks("backup", BackupRequests)
  \/ Picks("signature", ByteStrings)

MessagesSpec == MessagesInit /\ [][MessagesNext]_messagesVars

Is(kind) == picked # Null /\ picked.kind = kind
MessagesTypeOK == picked # Null => picked.kind \in {"register", "backup", "signature"}

-----------------------------------------------------------------------------
(* Properties.                                                             *)

(* An LSP that signs its own record as it stands is believed: cleaning the *)
(* fields changes nothing that is signed - unless the record claims        *)
(* filter_sp without a filter_url beside a tatara block or routes          *)
(* (index.js:218-221, 735-741).                                            *)
HonestIsBelieved ==
  Is("register") /\ RegisterOk(picked.in) =>
    \/ RegisterText(picked.in) = RegisterText(Stored(picked.in))
    \/ picked.in.filter_sp /\ OrNull(picked.in.filter_url) = Null

(* Two requests of a wallet that make the same digest are the same: the    *)
(* action, the challenge and the key, and of a v2 push the copy and its    *)
(* number (index.js:118-158: the parts are joined without a separator).    *)
DigestTellsRequest ==
  Is("backup") /\ NonceOk(picked.in.nonce) =>
    \A q \in BackupRequests :
      NonceOk(q.nonce) /\ DigestInput(q) = DigestInput(picked.in) => q = picked.in

(* Every byte string that LND encodes is decoded to itself, however long:  *)
(* the accumulator may overflow its 32 bits (index.js:340-352).            *)
DecodeInverts == Is("signature") => Zbase32Decode(Zbase32(picked.in)) = picked.in
=============================================================================
