---------------------------- MODULE NamesProofs ----------------------------
(***************************************************************************)
(* Theorems about Names, for any LSPs and number of handlers: a held name  *)
(* leaves its holder only by its holder's signature, or by a request whose *)
(* look at the name has been overtaken.                                    *)
(***************************************************************************)
EXTENDS Names, TLAPS

(* A request about to write found a holder it may write over, and that is  *)
(* still the holder unless the name has changed since.                     *)
LooksAreGood ==
  \A s \in NameSlots : ask[s].stage = "write" =>
    MayWrite(ask[s].kind, ask[s].by, ask[s].read) /\ (ask[s].read = holder \/ ask[s].moved)

NamesIInv == NamesTypeOK /\ LooksAreGood

(* A handler that goes on keeps what it carries.                           *)
LEMMA FoundAsk ==
  ASSUME NEW q \in NameAsks, NEW x \in LSPs \union {Nobody}, NEW r, r = [q EXCEPT !.read = x, !.stage = "write"]
  PROVE  r \in NameAsks /\ r.stage = "write" /\ r.read = x /\ r.kind = q.kind /\ r.by = q.by /\ r.to = q.to
  BY DEF NameAsks

LEMMA AskFinds ==
  ASSUME NamesTypeOK, NEW s \in NameSlots, ask[s] # Idle,
         ask' = [ask EXCEPT ![s].read = holder, ![s].stage = "write"]
  PROVE  /\ ask'[s] \in NameAsks /\ ask'[s].stage = "write" /\ ask'[s].read = holder
         /\ ask'[s].kind = ask[s].kind /\ ask'[s].by = ask[s].by /\ ask'[s].to = ask[s].to
         /\ \A z \in NameSlots \ {s} : ask'[z] = ask[z]
         /\ ask' \in [NameSlots -> NameAsks \union {Idle}]
<1>1. ask[s] \in NameAsks /\ holder \in LSPs \union {Nobody}
  BY DEF NamesTypeOK
<1>2. ask'[s] = [ask[s] EXCEPT !.read = holder, !.stage = "write"] /\ \A z \in NameSlots \ {s} : ask'[z] = ask[z]
  BY DEF NamesTypeOK
<1>4. /\ ask'[s] \in NameAsks /\ ask'[s].stage = "write" /\ ask'[s].read = holder
      /\ ask'[s].kind = ask[s].kind /\ ask'[s].by = ask[s].by /\ ask'[s].to = ask[s].to
  <2> DEFINE r == [ask[s] EXCEPT !.read = holder, !.stage = "write"]
  <2>1. r \in NameAsks
    BY <1>1, FoundAsk
  <2>2. r.stage = "write" /\ r.read = holder
    BY <1>1, FoundAsk
  <2>3. r.kind = ask[s].kind /\ r.by = ask[s].by /\ r.to = ask[s].to
    BY <1>1 DEF NameAsks
  <2>4. ask'[s] = r
    BY <1>2
  <2> HIDE DEF r
  <2> QED BY <2>1, <2>2, <2>3, <2>4
<1>5. ask' \in [NameSlots -> NameAsks \union {Idle}]
  BY <1>2, <1>4 DEF NamesTypeOK
<1> QED BY <1>2, <1>4, <1>5

LEMMA AskGoesMoves ==
  ASSUME NamesTypeOK, NEW s \in NameSlots, ask[s] # Idle,
         NEW stage \in {"signer", "to", "name", "write"}, AskGoes(s, stage)
  PROVE  /\ ask'[s] \in NameAsks /\ ask'[s].stage = stage
         /\ ask'[s].kind = ask[s].kind /\ ask'[s].by = ask[s].by /\ ask'[s].to = ask[s].to
         /\ \A z \in NameSlots \ {s} : ask'[z] = ask[z]
         /\ ask' \in [NameSlots -> NameAsks \union {Idle}]
<1>1. ask[s] \in NameAsks
  BY DEF NamesTypeOK
<1>2. ask'[s] = [ask[s] EXCEPT !.stage = stage] /\ \A z \in NameSlots \ {s} : ask'[z] = ask[z]
  BY DEF NamesTypeOK, AskGoes
<1>3. /\ ask'[s].stage = stage
      /\ ask'[s].kind = ask[s].kind /\ ask'[s].by = ask[s].by /\ ask'[s].to = ask[s].to
  BY <1>1, <1>2 DEF NameAsks
<1>4. ask'[s] \in NameAsks
  BY <1>1, <1>2 DEF NameAsks
<1> QED BY <1>2, <1>3, <1>4 DEF NamesTypeOK, AskGoes

LEMMA AskEndsMoves ==
  ASSUME NamesTypeOK, NEW s \in NameSlots, AskEnds(s)
  PROVE  /\ ask'[s] = Idle /\ \A z \in NameSlots \ {s} : ask'[z] = ask[z]
         /\ ask' \in [NameSlots -> NameAsks \union {Idle}]
  BY DEF NamesTypeOK, AskEnds

(* A step of one handler that does not touch the name.                     *)
LEMMA OneAskMoves ==
  ASSUME NamesIInv, NEW s \in NameSlots, UNCHANGED holder, listed' \subseteq LSPs,
         ask' \in [NameSlots -> NameAsks \union {Idle}], \A z \in NameSlots \ {s} : ask'[z] = ask[z],
         ask'[s] # Idle => (ask'[s].kind = "transfer" <=> ask'[s].to # Nobody),
         ask'[s].stage = "write" => MayWrite(ask'[s].kind, ask'[s].by, ask'[s].read) /\ ask'[s].read = holder
  PROVE  NamesIInv'
<1>1. NamesTypeOK'
  BY DEF NamesIInv, NamesTypeOK
<1>2. LooksAreGood'
  <2> SUFFICES ASSUME NEW z \in NameSlots, ask'[z].stage = "write"
               PROVE  MayWrite(ask'[z].kind, ask'[z].by, ask'[z].read) /\ (ask'[z].read = holder' \/ ask'[z].moved)
    BY DEF LooksAreGood, MayWrite
  <2> QED BY DEF NamesIInv, LooksAreGood
<1> QED BY <1>1, <1>2 DEF NamesIInv

LEMMA WritesKeeps ==
  ASSUME NamesIInv, NEW s \in NameSlots, WritesName(s)
  PROVE  NamesIInv'
<1>1. ask[s] \in NameAsks /\ (ask[s].kind = "transfer" <=> ask[s].to # Nobody)
  BY DEF NamesIInv, NamesTypeOK, WritesName, Idle
<1>2. holder' \in LSPs \union {Nobody}
  BY <1>1 DEF WritesName, NewHolder, NameAsks, NameKinds
<1>3. ask'[s] = Idle
  BY DEF WritesName
<1>4. ASSUME NEW z \in NameSlots \ {s}
      PROVE  \/ ask'[z] = ask[z] /\ ask[z].stage # "write"
             \/ /\ ask'[z] \in NameAsks /\ ask'[z].moved /\ ask[z] \in NameAsks /\ ask[z].stage = "write"
                /\ ask'[z].kind = ask[z].kind /\ ask'[z].by = ask[z].by
                /\ ask'[z].to = ask[z].to /\ ask'[z].read = ask[z].read
  <2>1. CASE ask[z].stage # "write"
    BY <2>1 DEF WritesName
  <2>2. CASE ask[z].stage = "write"
    <3>1. ask[z] \in NameAsks
      BY <2>2 DEF NamesIInv, NamesTypeOK, Idle
    <3>2. ask'[z] = [ask[z] EXCEPT !.moved = TRUE]
      BY <2>2 DEF WritesName
    <3>3. /\ ask'[z].moved /\ ask'[z].kind = ask[z].kind /\ ask'[z].by = ask[z].by
          /\ ask'[z].to = ask[z].to /\ ask'[z].read = ask[z].read
      BY <3>1, <3>2 DEF NameAsks
    <3>4. ask'[z] \in NameAsks
      BY <3>1, <3>2 DEF NameAsks
    <3> QED BY <2>2, <3>1, <3>3, <3>4
  <2> QED BY <2>1, <2>2
<1>5. ask' \in [NameSlots -> NameAsks \union {Idle}]
  <2>1. \A z \in NameSlots : ask'[z] \in NameAsks \union {Idle}
    BY <1>3, <1>4 DEF NamesIInv, NamesTypeOK
  <2>2. ask' = [z \in NameSlots |-> ask'[z]]
    BY DEF WritesName
  <2> QED BY <2>1, <2>2
<1>6. NamesTypeOK'
  BY <1>2, <1>3, <1>4, <1>5 DEF NamesIInv, NamesTypeOK, WritesName, Idle
<1>7. LooksAreGood'
  <2> SUFFICES ASSUME NEW z \in NameSlots, ask'[z].stage = "write"
               PROVE  MayWrite(ask'[z].kind, ask'[z].by, ask'[z].read) /\ ask'[z].moved
    BY DEF LooksAreGood, MayWrite
  <2>1. z # s
    BY <1>3 DEF Idle
  <2>2. /\ ask'[z].moved /\ ask[z].stage = "write" /\ ask'[z].kind = ask[z].kind
        /\ ask'[z].by = ask[z].by /\ ask'[z].read = ask[z].read
    BY <1>4, <2>1
  <2>3. MayWrite(ask[z].kind, ask[z].by, ask[z].read)
    BY <2>2 DEF NamesIInv, LooksAreGood
  <2> QED BY <2>2, <2>3
<1> QED BY <1>6, <1>7 DEF NamesIInv

LEMMA NamesIInvNext == NamesIInv /\ [NamesNext]_namesVars => NamesIInv'
<1> SUFFICES ASSUME NamesIInv, [NamesNext]_namesVars PROVE NamesIInv'
  OBVIOUS
<1>1. ASSUME NEW s \in NameSlots, NEW kind \in NameKinds, NEW by \in LSPs, NEW to \in LSPs \union {Nobody},
             AskArrives(s, kind, by, to)
      PROVE  NamesIInv'
  <2> DEFINE new == [kind |-> kind, by |-> by, to |-> to, stage |-> "signer", read |-> Nobody, moved |-> FALSE]
  <2>1. new \in NameAsks /\ new.stage = "signer" /\ new.kind = kind /\ new.to = to
    BY DEF NameAsks
  <2>2. ask'[s] = new /\ (\A z \in NameSlots \ {s} : ask'[z] = ask[z]) /\ UNCHANGED <<listed, holder>>
    BY <1>1 DEF AskArrives, NamesIInv, NamesTypeOK
  <2>3. ask' \in [NameSlots -> NameAsks \union {Idle}]
    BY <1>1, <2>1 DEF AskArrives, NamesIInv, NamesTypeOK
  <2>4. kind = "transfer" <=> to # Nobody
    BY <1>1 DEF AskArrives
  <2>5. listed' \subseteq LSPs
    BY <2>2 DEF NamesIInv, NamesTypeOK
  <2> HIDE DEF new
  <2> QED BY <2>1, <2>2, <2>3, <2>4, <2>5, OneAskMoves
<1>2. ASSUME NEW s \in NameSlots, FindsSigner(s) \/ FindsTo(s) PROVE NamesIInv'
  <2>0. ask[s] # Idle /\ UNCHANGED <<listed, holder>>
    BY <1>2 DEF FindsSigner, FindsTo, Idle
  <2>1. CASE AskEnds(s)
    BY <2>0, <2>1, AskEndsMoves, OneAskMoves DEF NamesIInv, NamesTypeOK, Idle
  <2>2. ASSUME NEW stage \in {"to", "name"}, AskGoes(s, stage) PROVE NamesIInv'
    <3>1. /\ ask'[s].stage = stage /\ ask'[s].kind = ask[s].kind /\ ask'[s].to = ask[s].to
          /\ \A z \in NameSlots \ {s} : ask'[z] = ask[z]
          /\ ask' \in [NameSlots -> NameAsks \union {Idle}]
      BY <2>0, <2>2, AskGoesMoves DEF NamesIInv
    <3>2. listed' \subseteq LSPs /\ (ask[s].kind = "transfer" <=> ask[s].to # Nobody)
      BY <2>0 DEF NamesIInv, NamesTypeOK
    <3> QED BY <2>0, <3>1, <3>2, OneAskMoves
  <2> QED BY <1>2, <2>1, <2>2 DEF FindsSigner, FindsTo
<1>3. ASSUME NEW s \in NameSlots, FindsName(s) PROVE NamesIInv'
  <2>0. ask[s] # Idle /\ UNCHANGED <<listed, holder>> /\ holder \in LSPs \union {Nobody}
    BY <1>3 DEF FindsName, Idle, NamesIInv, NamesTypeOK
  <2>1. CASE AskEnds(s)
    BY <2>0, <2>1, AskEndsMoves, OneAskMoves DEF NamesIInv, NamesTypeOK, Idle
  <2>2. CASE MayWrite(ask[s].kind, ask[s].by, holder) /\ ask' = [ask EXCEPT ![s].read = holder, ![s].stage = "write"]
    <3>1. /\ ask'[s].stage = "write" /\ ask'[s].read = holder
          /\ ask'[s].kind = ask[s].kind /\ ask'[s].by = ask[s].by /\ ask'[s].to = ask[s].to
          /\ \A z \in NameSlots \ {s} : ask'[z] = ask[z]
          /\ ask' \in [NameSlots -> NameAsks \union {Idle}]
      BY <2>0, <2>2, AskFinds DEF NamesIInv
    <3>2. listed' \subseteq LSPs /\ (ask[s].kind = "transfer" <=> ask[s].to # Nobody)
      BY <2>0 DEF NamesIInv, NamesTypeOK
    <3>3. MayWrite(ask'[s].kind, ask'[s].by, ask'[s].read)
      BY <2>2, <3>1
    <3> QED BY <2>0, <3>1, <3>2, <3>3, OneAskMoves
  <2> QED BY <1>3, <2>1, <2>2 DEF FindsName
<1>4. ASSUME NEW s \in NameSlots, AskKilled(s) PROVE NamesIInv'
  BY <1>4, AskEndsMoves, OneAskMoves DEF AskKilled, NamesIInv, NamesTypeOK, Idle
<1>5. ASSUME NEW l \in LSPs, LspComesOrGoes(l) PROVE NamesIInv'
  BY <1>5 DEF LspComesOrGoes, NamesIInv, NamesTypeOK, LooksAreGood, MayWrite
<1>6. CASE UNCHANGED namesVars
  BY <1>6 DEF namesVars, NamesIInv, NamesTypeOK, LooksAreGood, MayWrite
<1> QED BY <1>1, <1>2, <1>3, <1>4, <1>5, <1>6, WritesKeeps DEF NamesNext

LEMMA NamesInitHolds == NamesInit => NamesIInv
  BY DEF NamesInit, NamesIInv, NamesTypeOK, LooksAreGood, Idle

(* Every variable keeps its type, and only a transfer names another LSP.   *)
THEOREM NamesTypeCorrect == NamesSpec => []NamesTypeOK
<1>1. NamesIInv => NamesTypeOK
  BY DEF NamesIInv
<1> QED BY <1>1, NamesInitHolds, NamesIInvNext, PTL DEF NamesSpec

(* A held name moves by its holder's signed transfer and becomes free by   *)
(* its release, but for requests whose look was overtaken.                 *)
THEOREM NameMovesAreSigned == NamesSpec => NameMovesBySignature
<1>1. ASSUME NamesIInv, NamesNext, holder # Nobody, holder' # holder
      PROVE  \E s \in NameSlots :
               /\ WritesName(s) /\ (ask[s].by = holder \/ ask[s].moved)
               /\ holder' = Nobody => ask[s].kind = "release"
  <2>1. PICK s \in NameSlots : WritesName(s)
    BY <1>1 DEF NamesNext, AskArrives, FindsSigner, FindsTo, FindsName, AskKilled, LspComesOrGoes
  <2>2. /\ ask[s].stage = "write" /\ ask[s] \in NameAsks
        /\ ask[s].kind = "transfer" <=> ask[s].to # Nobody
    BY <1>1, <2>1 DEF WritesName, NamesIInv, NamesTypeOK, Idle
  <2>3. MayWrite(ask[s].kind, ask[s].by, ask[s].read) /\ (ask[s].read = holder \/ ask[s].moved)
    BY <1>1, <2>2 DEF NamesIInv, LooksAreGood
  <2>4. ask[s].kind \in NameKinds /\ ask[s].by \in LSPs
    BY <2>2 DEF NameAsks
  <2>5. ask[s].by = holder \/ ask[s].moved
    BY <1>1, <2>3, <2>4 DEF MayWrite, NameKinds
  <2>6. holder' = Nobody => ask[s].kind = "release"
    BY <2>1, <2>2, <2>4, NamesAssumption DEF WritesName, NewHolder, NameKinds
  <2> QED BY <2>1, <2>5, <2>6
<1>2. NamesIInv /\ [NamesNext]_namesVars =>
        [holder # Nobody /\ holder' # holder =>
           \E s \in NameSlots :
             /\ WritesName(s) /\ (ask[s].by = holder \/ ask[s].moved)
             /\ holder' = Nobody => ask[s].kind = "release"]_namesVars
  BY <1>1
<1> QED BY <1>2, NamesInitHolds, NamesIInvNext, PTL DEF NamesSpec, NameMovesBySignature
=============================================================================
