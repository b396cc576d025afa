-------------------------- MODULE DexconApp_proofs --------------------------
(***************************************************************************)
(* Proofs about DexconApp, for any number of replicas, senders and blocks: *)
(* every action preserves IInv, the steps of one running replica first,    *)
(* then a restart, the start of the core, the decision of a block and its  *)
(* delivery; the properties of DexconApp follow from it.                   *)
(***************************************************************************)
EXTENDS DexconApp, TLAPS

\* Heights are natural numbers.
LEMMA HeightNat == Height \subseteq Nat /\ 0 \in Height
BY BoundsAssumption DEF Height

\* The order of heights, for steps that need nothing else of the numbers.
LEMMA Orders ==
  /\ \A x \in Nat : x <= x
  /\ \A x, y \in Nat : /\ x <= y => x <= y + 1
                       /\ x >= y => y <= x
  /\ \A x, y, z \in Nat : x <= y /\ y <= z => x <= z
OBVIOUS

\* The height after d, where d is below c and e, and c is not above t.
LEMMA NextUp ==
  \A d, c, e, t \in Nat : d < c /\ d < e /\ c <= t =>
    /\ d + 1 \in Nat /\ 0 < d + 1 /\ d + 1 <= t /\ (d + 1) - 1 = d
    /\ d + 1 <= c /\ d + 1 <= e
OBVIOUS

\* More of the same, one fact each.
LEMMA NotBelow == \A x, y \in Nat : ~(x < y) => y <= x
OBVIOUS

LEMMA Transitive == \A x, y, z \in Nat : x <= y /\ y <= z => x <= z
OBVIOUS

LEMMA SameMinus == \A x \in Nat : x - x = 0
OBVIOUS

LEMMA PlusZero == \A x \in Nat : x + 0 = x /\ (x - 1) + 1 = x
OBVIOUS

LEMMA Below ==
  \A h \in Height, t \in Nat : 0 < h /\ h <= t + 1 => h - 1 \in Height /\ h - 1 <= t
BY BoundsAssumption DEF Height

LEMMA OneLess == 1 - 1 = 0
OBVIOUS

\* What remains reserved when one block of several is taken off.
LEMMA Taken ==
  \A x, y \in Nat : y + 1 <= x /\ x - y # 1 =>
    x - y # 0 /\ (x - y) - 1 = x - (y + 1) /\ (x - y) - 1 # 0
OBVIOUS

LEMMA EmptyAbove ==
  ASSUME NEW n \in Nat
  PROVE  (n + 1)..n = {} /\ n - n = 0
OBVIOUS

\* The ledger part depends on the ledger only.
LEMMA LedgerFrame ==
  ASSUME LedgerExtends, LedgerMonotone, UNCHANGED netVars
  PROVE  LedgerExtends' /\ LedgerMonotone'
<1>1. LedgerExtends'
  BY DEF LedgerExtends, Executes, Senders, netVars
<1>2. LedgerMonotone'
  BY DEF LedgerMonotone, Between, netVars
<1> QED  BY Zenon, <1>1, <1>2

\* The accepted block is judged by the ledger only.
LEMMA AcceptedFrame ==
  ASSUME AcceptedFits, UNCHANGED netVars, UNCHANGED accepted
  PROVE  AcceptedFits'
BY DEF AcceptedFits, Fits, Senders, netVars

\* The prepared block is judged by the ledger and its proposer's chain, which
\* only grows.
LEMMA PreparedFrame ==
  ASSUME TypeOK, TypeOK', PreparedFits, UNCHANGED netVars, UNCHANGED prepared,
         \A r \in Replica : chain[r] <= chain'[r]
  PROVE  PreparedFits'
<1> SUFFICES ASSUME NEW p \in prepared
             PROVE  /\ p.block.wellFormed
                    /\ p.block.witnessData = "hash"
                    /\ p.block.height - 1 \in Height
                    /\ p.block.height - 1 <= top'
                    /\ \E i \in Height :
                         /\ i <= chain'[p.by]
                         /\ i <= p.block.height - 1
                         /\ p.ready => i <= p.block.witness
                         /\ Fits(p.block.payload, i, p.block.height - 1)'
  BY Zenon DEF PreparedFits
<1>1. p.by \in Replica
  BY Zenon DEF TypeOK
<1>2. chain[p.by] \in Nat /\ chain'[p.by] \in Nat
  BY Zenon, <1>1, HeightNat DEF TypeOK
<1>3. PICK i \in Height : /\ i <= chain[p.by]
                          /\ i <= p.block.height - 1
                          /\ p.ready => i <= p.block.witness
                          /\ Fits(p.block.payload, i, p.block.height - 1)
  BY Zenon DEF PreparedFits
<1>4. i <= chain'[p.by]
  BY <1>1, <1>2, <1>3, HeightNat
<1>5. Fits(p.block.payload, i, p.block.height - 1)'
  BY Zenon, <1>3 DEF Fits, Senders, netVars
<1> QED  BY Zenon, <1>3, <1>4, <1>5 DEF PreparedFits, netVars

\* The maps of the application follow the ledger and the event positions.
LEMMA ReservationsFrame ==
  ASSUME ReservationsExact, UNCHANGED <<nonce, spent, sends, started>>,
         UNCHANGED <<confirmPos, deliverPos, confirmedBlocks, undeliveredNum>>,
         UNCHANGED <<addressCost, addressCounter, addressNonce>>
  PROVE  ReservationsExact'
BY DEF ReservationsExact, ReservedExactly

\* A step leaves the state of replica q alone.
SameReplica(q) ==
  /\ chain'[q] = chain[q] /\ coreTip'[q] = coreTip[q]
  /\ started'[q] = started[q] /\ coreConfirmed'[q] = coreConfirmed[q]
  /\ confirmPos'[q] = confirmPos[q] /\ deliverPos'[q] = deliverPos[q]
  /\ deliveredHeight'[q] = deliveredHeight[q]
  /\ confirmedBlocks'[q] = confirmedBlocks[q]
  /\ undeliveredNum'[q] = undeliveredNum[q]
  /\ addressCost'[q] = addressCost[q]
  /\ addressCounter'[q] = addressCounter[q]
  /\ addressNonce'[q] = addressNonce[q]

\* A step of replica r leaves the others as they were.
LEMMA OneReplica ==
  ASSUME IInv, NEW r \in Replica, UNCHANGED <<top, nonce, spent, sends>>,
         \A q \in Replica : q # r => SameReplica(q),
         PositionsOf(r)', started'[r] => ReservedExactly(r)'
  PROVE  Positions' /\ ReservationsExact'
<1>1. ASSUME NEW q \in Replica, SameReplica(q), PositionsOf(q)
      PROVE  PositionsOf(q)'
  BY <1>1 DEF SameReplica, PositionsOf
<1>2. ASSUME NEW q \in Replica, SameReplica(q), ReservedExactly(q)
      PROVE  ReservedExactly(q)'
  BY <1>2 DEF SameReplica, ReservedExactly
<1>3. Positions'
  BY Zenon, <1>1 DEF IInv, Positions
<1>4. \A q \in Replica : SameReplica(q) => started'[q] = started[q]
  BY Zenon DEF SameReplica
<1> HIDE DEF SameReplica
<1>5. ReservationsExact'
  BY Zenon, <1>2, <1>4 DEF IInv, ReservationsExact
<1> QED  BY Zenon, <1>3, <1>5

\* Proposing and accepting touch no part of a replica.
LEMMA ReplicaFrame ==
  ASSUME IInv, UNCHANGED <<netVars, diskVars, coreVars, appVars, panicked>>
  PROVE  NoPanic' /\ Positions' /\ ReservationsExact'
<1>1. ReservationsExact'
  BY Zenon, ReservationsFrame DEF IInv, netVars, coreVars, appVars
<1>2. NoPanic'
  BY Zenon DEF IInv, NoPanic
<1>3. Positions'
  BY Zenon DEF IInv, Positions, PositionsOf, netVars, diskVars, coreVars, appVars
<1> QED  BY Zenon, <1>1, <1>2, <1>3

\* The positions of a replica are numbers in order.
LEMMA PositionFacts ==
  ASSUME IInv, NEW r \in Replica
  PROVE  /\ top \in Nat /\ chain[r] \in Nat /\ coreTip[r] \in Nat
         /\ coreConfirmed[r] \in Nat /\ confirmPos[r] \in Nat
         /\ deliverPos[r] \in Nat /\ deliveredHeight[r] \in Nat
         /\ undeliveredNum[r] \in Nat
         /\ chain[r] <= top /\ coreTip[r] <= top /\ coreConfirmed[r] <= top
         /\ started[r] =>
              /\ deliveredHeight[r] <= deliverPos[r]
              /\ deliverPos[r] <= confirmPos[r]
              /\ confirmPos[r] <= coreConfirmed[r]
              /\ confirmPos[r] <= top
              /\ deliverPos[r] <= coreTip[r]
              /\ coreTip[r] <= coreConfirmed[r]
              /\ deliverPos[r] <= chain[r]
              /\ undeliveredNum[r] = confirmPos[r] - deliverPos[r]
<1>1. /\ top \in Nat /\ chain[r] \in Nat /\ coreTip[r] \in Nat
      /\ coreConfirmed[r] \in Nat /\ confirmPos[r] \in Nat
      /\ deliverPos[r] \in Nat /\ deliveredHeight[r] \in Nat
      /\ undeliveredNum[r] \in Nat
  BY Zenon, HeightNat DEF IInv, TypeOK
<1>2. /\ chain[r] <= top /\ coreTip[r] <= top /\ coreConfirmed[r] <= top
      /\ started[r] => /\ deliveredHeight[r] <= deliverPos[r]
                       /\ deliverPos[r] <= confirmPos[r]
                       /\ confirmPos[r] <= coreConfirmed[r]
                       /\ deliverPos[r] <= coreTip[r]
                       /\ coreTip[r] <= coreConfirmed[r]
                       /\ deliverPos[r] <= chain[r]
  BY Zenon DEF IInv, Positions, PositionsOf
<1>3. started[r] => undeliveredNum[r] = confirmPos[r] - deliverPos[r]
  BY Zenon DEF IInv, ReservationsExact, ReservedExactly
<1>4. started[r] => confirmPos[r] <= top
  BY <1>1, <1>2
<1> QED  BY Zenon, <1>1, <1>2, <1>3, <1>4

\* Numbers up to the last decided height are heights.
LEMMA UpToTop ==
  ASSUME IInv, NEW h \in Nat, h <= top
  PROVE  h \in Height
<1>1. top \in Height
  BY Zenon DEF IInv, TypeOK
<1> QED  BY <1>1, BoundsAssumption DEF Height

\* A replica whose application has delivered what its core has (it is not
\* behind a synchronised chain) expects, after its confirmed blocks, the
\* nonces and balances of the ledger with these blocks at full cost.
LEMMA Judgement ==
  ASSUME IInv, NEW r \in Replica, NEW a \in Address,
         started[r], deliveredHeight[r] = deliverPos[r]
  PROVE  /\ ExpectNonce(r, a) = nonce[confirmPos[r]][a]
         /\ Available(r, a) = balance[deliveredHeight[r]][a]
              - (spent[confirmPos[r]][a] - spent[deliveredHeight[r]][a])
<1> DEFINE d == deliverPos[r]
           c == confirmPos[r]
<1>1. d \in Height /\ c \in Height /\ d <= c /\ c <= top
  <2>1. d \in Height /\ c \in Height
    BY ZenonT(20) DEF IInv, TypeOK
  <2> QED  BY Zenon, <2>1, PositionFacts
<1>2. /\ addressCost[r][a] = spent[c][a] - spent[d][a]
      /\ addressCounter[r][a] = sends[c][a] - sends[d][a]
      /\ addressNonce[r][a] = IF addressCounter[r][a] = 0 THEN Absent
                                                          ELSE nonce[c][a] - 1
  BY Zenon DEF IInv, ReservationsExact, ReservedExactly
<1>3. /\ sends[c][a] \in Nat /\ sends[d][a] \in Nat
      /\ nonce[c][a] \in Nat /\ nonce[d][a] \in Nat
  BY <1>1 DEF IInv, TypeOK
<1>4. sends[c][a] = sends[d][a] => nonce[d][a] = nonce[c][a]
  BY ZenonT(60), <1>1, <1>3 DEF IInv, LedgerMonotone, Between
<1>5. CASE addressCounter[r][a] = 0
  BY <1>2, <1>3, <1>4, <1>5 DEF ExpectNonce, Available, Absent
<1>6. CASE addressCounter[r][a] # 0
  <2>1. nonce[c][a] > 0
    <3>1. sends[c][a] # sends[d][a]
      BY <1>2, <1>3, <1>6
    <3> QED  BY <1>1, <1>3, <3>1 DEF IInv, LedgerMonotone, Between
  <2> QED  BY <1>2, <1>3, <1>6, <2>1 DEF ExpectNonce, Available, Absent
<1> QED  BY Zenon, <1>5, <1>6

\* If VerifyBlock's height check passes for the height after the last one
\* decided, the replica has confirmed every decided block.
LEMMA UpToDate ==
  ASSUME IInv, NEW r \in Replica, started[r], NEW h \in Height,
         confirmPos[r] <= h, NextHeight(r) = h + 1
  PROVE  deliveredHeight[r] = deliverPos[r] /\ confirmPos[r] = h
BY PositionFacts, HeightNat DEF NextHeight

\* The same for a replica whose application has heard of every block of its
\* chain.
LEMMA InStep ==
  ASSUME IInv, NEW r \in Replica, started[r], chain[r] = deliveredHeight[r],
         NEW h \in Height, NextHeight(r) = h + 1
  PROVE  deliveredHeight[r] = deliverPos[r] /\ confirmPos[r] = h
BY PositionFacts, HeightNat DEF NextHeight

\* And for one whose consensus is not started: it has nothing undelivered.
LEMMA AtRest ==
  ASSUME IInv, NEW r \in Replica, ~started[r], NEW h \in Height,
         NextHeight(r) = h + 1
  PROVE  deliveredHeight[r] = h
<1>1. undeliveredNum[r] = 0
  BY ZenonT(30) DEF IInv, Positions, PositionsOf
<1> QED  BY <1>1, PositionFacts, HeightNat DEF NextHeight

----------------------------------------------------------------------------

\* What a block holds of a sender is made of natural numbers, and a sender
\* without transactions costs nothing.
LEMMA BlockParts ==
  ASSUME NEW b \in Block, NEW a \in Address
  PROVE  /\ b.payload[a].first \in Nat
         /\ b.payload[a].n \in Nat
         /\ b.payload[a].cost \in Nat
         /\ a \in Senders(b.payload) <=> b.payload[a].n # 0
         /\ a \notin Senders(b.payload) => b.payload[a].cost = 0
<1>1. b.payload[a] \in Part
  BY Zenon DEF Block, Payload
<1>2. CASE b.payload[a] = Nothing
  BY <1>2 DEF Nothing, Senders
<1>3. CASE b.payload[a] \in [first : Nonce, n : 1..MaxTxs, cost : Costs]
  <2>1. Nonce \subseteq Nat
    BY DEF Nonce
  <2>2. /\ b.payload[a].first \in Nonce
        /\ b.payload[a].n \in 1..MaxTxs
        /\ b.payload[a].cost \in Costs
    BY Zenon, <1>3
  <2>3. b.payload[a].n \in Nat /\ b.payload[a].n > 0 /\ b.payload[a].n # 0
    BY <2>2, BoundsAssumption
  <2>4. a \in Senders(b.payload)
    BY Zenon, <2>3 DEF Senders
  <2>5. b.payload[a].first \in Nat /\ b.payload[a].cost \in Nat
    BY Zenon, <2>1, <2>2, BoundsAssumption
  <2> QED  BY Zenon, <2>3, <2>4, <2>5
<1> QED  BY Zenon, <1>1, <1>2, <1>3 DEF Part

\* The other fields of a block have their types.
LEMMA BlockFields ==
  ASSUME NEW b \in Block
  PROVE  /\ b.height \in Height
         /\ b.payload \in Payload
         /\ b.wellFormed \in BOOLEAN
         /\ b.witness \in Height
         /\ b.witnessData \in WitnessData
         /\ b.empty \in BOOLEAN
BY Zenon DEF Block

\* A block without transactions is a block.
LEMMA EmptyBlockType ==
  ASSUME NEW h \in Height, NEW w \in Height
  PROVE  /\ EmptyBlock(h, w) \in Block
         /\ EmptyBlock(h, w).payload = EmptyPayload
         /\ EmptyBlock(h, w).witness = w
         /\ EmptyBlock(h, w).wellFormed
         /\ EmptyBlock(h, w).witnessData = "hash"
         /\ Senders(EmptyPayload) = {}
<1>1. Nothing \in Part
  BY Zenon DEF Part
<1>2. EmptyPayload \in Payload
  BY Zenon, <1>1 DEF EmptyPayload, Payload
<1>3. Senders(EmptyPayload) = {}
  BY DEF Senders, EmptyPayload, Nothing
<1> QED  BY Zenon, <1>2, <1>3 DEF EmptyBlock, Block, WitnessData

\* The initial state satisfies the invariant.
LEMMA InitInv == Init => IInv
<1> SUFFICES ASSUME Init PROVE IInv
  BY Zenon
<1> USE DEF Init
<1>1. 0 \in Height
  BY Zenon, HeightNat
<1>2. EmptyBlock(0, 0) \in Block
  BY Zenon, <1>1, EmptyBlockType
<1> PICK genesis \in [Address -> InitialBalances] :
      balance = [h \in Height |-> genesis]
  BY Zenon
<1>3. TypeOK
  <2>1. balance \in [Height -> [Address -> Nat]]
    BY ZenonT(20), BoundsAssumption
  <2> QED  BY Zenon, <1>1, <1>2, <2>1 DEF TypeOK
<1>4. NoPanic
  BY Zenon DEF NoPanic
<1>5. LedgerExtends
  BY SMTT(30), <1>1, EmptyBlockType, HeightNat DEF LedgerExtends
<1>6. LedgerMonotone
  <2> SUFFICES ASSUME NEW i \in Height, NEW j \in Height, j <= top
               PROVE  Between(i, j)
    BY Zenon DEF LedgerMonotone
  <2>1. /\ balance[i] = balance[j] /\ \A a \in Address : balance[j][a] \in Nat
        /\ \A a \in Address : /\ spent[i][a] = 0 /\ spent[j][a] = 0
                               /\ sends[i][a] = 0 /\ sends[j][a] = 0
                               /\ nonce[i][a] = 0 /\ nonce[j][a] = 0
    BY Zenon, BoundsAssumption
  <2> QED  BY <2>1 DEF Between
<1>7. AcceptedFits /\ PreparedFits
  BY Zenon DEF AcceptedFits, PreparedFits
<1>8. Positions
  BY DEF Positions, PositionsOf
<1>9. ReservationsExact
  BY Zenon DEF ReservationsExact, ReservedExactly
<1> QED  BY Zenon, <1>3, <1>4, <1>5, <1>6, <1>7, <1>8, <1>9 DEF IInv

----------------------------------------------------------------------------

\* PreparePayload proposes a payload that fits the ledger after the block the
\* core has confirmed last.
LEMMA PreparePayloadInv ==
  ASSUME IInv, NEW r \in Replica, PreparePayload(r)
  PROVE  IInv'
<1>1. PICK payload \in Payload :
        /\ \A a \in Senders(payload) :
             /\ payload[a].first = ExpectNonce(r, a)
             /\ payload[a].cost <= Available(r, a)
        /\ prepared' = {[by |-> r, ready |-> FALSE,
                         block |-> [height |-> NextHeight(r),
                                    payload |-> payload, wellFormed |-> TRUE,
                                    witness |-> 0, witnessData |-> "hash",
                                    empty |-> FALSE]]}
  BY Zenon DEF PreparePayload
<1>2. /\ started[r] /\ NextHeight(r) = coreConfirmed[r] + 1
      /\ NextHeight(r) \in Height
      /\ UNCHANGED <<netVars, accepted, diskVars, coreVars, appVars, panicked>>
  BY Zenon DEF PreparePayload
<1> DEFINE b == [height |-> NextHeight(r), payload |-> payload,
                 wellFormed |-> TRUE, witness |-> 0, witnessData |-> "hash",
                 empty |-> FALSE]
           p == [by |-> r, ready |-> FALSE, block |-> b]
<1>3. /\ b \in Block /\ p \in [by : Replica, ready : BOOLEAN, block : Block]
      /\ p.by = r /\ p.ready = FALSE /\ p.block = b
      /\ b.height = NextHeight(r) /\ b.payload = payload
      /\ b.wellFormed = TRUE /\ b.witnessData = "hash"
  BY Zenon, <1>2, HeightNat DEF Block, WitnessData
<1>4. prepared' = {p}
  BY Zenon, <1>1
<1> HIDE DEF b, p
<1>5. TypeOK'
  <2>1. prepared' \subseteq [by : Replica, ready : BOOLEAN, block : Block]
    BY Zenon, <1>3, <1>4
  <2> QED  BY Zenon, <1>2, <2>1 DEF IInv, TypeOK, netVars, diskVars, coreVars, appVars
<1>6. /\ deliveredHeight[r] = deliverPos[r]
      /\ confirmPos[r] = coreConfirmed[r]
  <2>1. coreConfirmed[r] \in Height
    BY ZenonT(20) DEF IInv, TypeOK
  <2> QED  BY Zenon, <1>2, <2>1, UpToDate, PositionFacts
<1>7. /\ deliveredHeight[r] \in Height /\ confirmPos[r] \in Height
      /\ deliveredHeight[r] <= confirmPos[r]
      /\ deliveredHeight[r] <= chain[r]
      /\ confirmPos[r] <= top
  <2>1. deliveredHeight[r] \in Height /\ confirmPos[r] \in Height
    BY ZenonT(30) DEF IInv, TypeOK
  <2> QED  BY Zenon, <1>2, <1>6, <2>1, PositionFacts
<1>8. Fits(payload, deliveredHeight[r], confirmPos[r])
  BY Zenon, <1>1, <1>2, <1>6, Judgement DEF Fits, Senders
<1>9. PreparedFits'
  <2>1. Fits(payload, deliveredHeight[r], confirmPos[r])'
    BY Zenon, <1>2, <1>8 DEF Fits, Senders, netVars, coreVars, appVars
  <2>2. b.height - 1 = confirmPos[r]
    BY <1>2, <1>3, <1>6, PositionFacts
  <2>3. UNCHANGED <<top, chain, deliveredHeight, confirmPos>>
    BY Zenon, <1>2 DEF netVars, diskVars, coreVars, appVars
  <2> QED  BY ZenonT(20), <1>3, <1>4, <1>7, <2>1, <2>2, <2>3 DEF PreparedFits
<1>10. LedgerExtends' /\ LedgerMonotone' /\ AcceptedFits'
  BY Zenon, <1>2, LedgerFrame, AcceptedFrame DEF IInv
<1>11. NoPanic' /\ Positions' /\ ReservationsExact'
  BY Zenon, <1>2, ReplicaFrame
<1> QED  BY Zenon, <1>5, <1>9, <1>10, <1>11 DEF IInv

\* PrepareWitness adds a witness no lower than what the payload was judged
\* with.
LEMMA PrepareWitnessInv ==
  ASSUME IInv, NEW r \in Replica, PrepareWitness(r)
  PROVE  IInv'
<1>1. PICK p \in prepared :
        /\ p.by = r /\ ~p.ready
        /\ prepared' = {[p EXCEPT !.ready = TRUE, !.block.witness = chain[r]]}
  BY Zenon DEF PrepareWitness
<1>2. UNCHANGED <<netVars, accepted, diskVars, coreVars, appVars, panicked>>
  BY Zenon DEF PrepareWitness
<1>3. /\ p \in [by : Replica, ready : BOOLEAN, block : Block]
      /\ chain[r] \in Height
  BY Zenon DEF IInv, TypeOK
<1> DEFINE q == [p EXCEPT !.ready = TRUE, !.block.witness = chain[r]]
<1>4. /\ q \in [by : Replica, ready : BOOLEAN, block : Block]
      /\ q.by = r /\ q.ready /\ q.block.witness = chain[r]
      /\ q.block.height = p.block.height /\ q.block.payload = p.block.payload
      /\ q.block.wellFormed = p.block.wellFormed
      /\ q.block.witnessData = p.block.witnessData
  BY Zenon, <1>1, <1>3 DEF Block
<1>5. prepared' = {q}
  BY Zenon, <1>1
<1> HIDE DEF q
<1>6. TypeOK'
  <2>1. prepared' \subseteq [by : Replica, ready : BOOLEAN, block : Block]
    BY Zenon, <1>4, <1>5
  <2> QED  BY ZenonT(20), <1>2, <2>1 DEF IInv, TypeOK, netVars, diskVars, coreVars, appVars
<1>7. PreparedFits'
  <2>1. PICK i \in Height : /\ i <= chain[r]
                            /\ i <= p.block.height - 1
                            /\ Fits(p.block.payload, i, p.block.height - 1)
    BY Zenon, <1>1 DEF IInv, PreparedFits
  <2>2. Fits(p.block.payload, i, p.block.height - 1)'
    BY Zenon, <1>2, <2>1 DEF Fits, Senders, netVars
  <2>3. /\ p.block.wellFormed /\ p.block.witnessData = "hash"
        /\ p.block.height - 1 \in Height /\ p.block.height - 1 <= top
    BY Zenon, <1>1 DEF IInv, PreparedFits
  <2>4. UNCHANGED <<top, chain>>
    BY Zenon, <1>2 DEF netVars, diskVars
  <2> QED  BY Zenon, <1>4, <1>5, <2>1, <2>2, <2>3, <2>4 DEF PreparedFits
<1>8. LedgerExtends' /\ LedgerMonotone' /\ AcceptedFits'
  BY Zenon, <1>2, LedgerFrame, AcceptedFrame DEF IInv
<1>9. NoPanic' /\ Positions' /\ ReservationsExact'
  BY Zenon, <1>2, ReplicaFrame
<1> QED  BY Zenon, <1>6, <1>7, <1>8, <1>9 DEF IInv

\* AcceptBlock: VerifyBlock only accepts, at the height under agreement, a
\* block that fits the ledger.
LEMMA AcceptBlockInv ==
  ASSUME IInv, NEW r \in Replica, AcceptBlock(r)
  PROVE  IInv'
<1>1. PICK payload \in Payload, w \in Height, wd \in WitnessData, f \in BOOLEAN :
        LET b == [height |-> top + 1, payload |-> payload, wellFormed |-> f,
                  witness |-> w, witnessData |-> wd, empty |-> FALSE]
        IN  /\ VerifyBlock(r, b) = "VerifyOK"
            /\ accepted' = {[block |-> b, at |-> deliveredHeight[r]]}
  BY Zenon DEF AcceptBlock
<1>2. /\ started[r] /\ top < MaxHeight
      /\ UNCHANGED <<netVars, prepared, diskVars, coreVars, appVars, panicked>>
  BY Zenon DEF AcceptBlock
<1>3. /\ top + 1 \in Height /\ top \in Height
      /\ deliveredHeight[r] \in Height /\ chain[r] \in Height
  BY <1>2, BoundsAssumption DEF IInv, TypeOK, Height
<1> DEFINE b == [height |-> top + 1, payload |-> payload, wellFormed |-> f,
                 witness |-> w, witnessData |-> wd, empty |-> FALSE]
           c == [block |-> b, at |-> deliveredHeight[r]]
<1>4. /\ b \in Block /\ c \in [block : Block, at : Height]
      /\ c.block = b /\ c.at = deliveredHeight[r]
      /\ b.payload = payload /\ b.wellFormed = f /\ b.witness = w
      /\ b.witnessData = wd /\ b.height = top + 1
  BY Zenon, <1>3 DEF Block
<1>5. VerifyBlock(r, b) = "VerifyOK" /\ accepted' = {c}
  BY Zenon, <1>1
<1> HIDE DEF b, c
<1>6. TypeOK'
  <2>1. accepted' \subseteq [block : Block, at : Height]
    BY Zenon, <1>4, <1>5
  <2> QED  BY Zenon, <1>2, <2>1 DEF IInv, TypeOK, netVars, diskVars, coreVars, appVars
<1>7. /\ f = TRUE /\ wd = "hash" /\ w <= chain[r]
      /\ NextHeight(r) = top + 1
      /\ \A a \in Senders(payload) :
           /\ payload[a].first = ExpectNonce(r, a)
           /\ payload[a].cost <= Available(r, a)
  <2>1. w \in Nat /\ chain[r] \in Nat
    BY Zenon, <1>3, HeightNat
  <2> QED  BY <1>4, <1>5, <2>1 DEF VerifyBlock
<1>8. deliveredHeight[r] = deliverPos[r] /\ confirmPos[r] = top
  BY ZenonT(30), <1>2, <1>3, <1>7, UpToDate, PositionFacts
<1>9. Fits(payload, deliveredHeight[r], top)
  BY SMTT(30), <1>2, <1>7, <1>8, Judgement DEF Fits, Senders
<1>10. AcceptedFits'
  <2>1. Fits(payload, deliveredHeight[r], top)'
    BY ZenonT(20), <1>2, <1>9 DEF Fits, Senders, netVars, appVars
  <2>2. w \in Nat /\ w <= top /\ deliveredHeight[r] <= top
    <3>1. w \in Nat
      BY Zenon, HeightNat
    <3> QED  BY <1>2, <1>7, <3>1, PositionFacts
  <2>3. UNCHANGED <<top, deliveredHeight>>
    BY Zenon, <1>2 DEF netVars, appVars
  <2> QED  BY ZenonT(30), <1>4, <1>5, <1>7, <2>1, <2>2, <2>3 DEF AcceptedFits
<1>11. LedgerExtends' /\ LedgerMonotone'
  BY Zenon, <1>2, LedgerFrame DEF IInv
<1>12. PreparedFits'
  <2>1. \A q \in Replica : chain[q] <= chain'[q]
    BY <1>2, PositionFacts DEF diskVars
  <2> QED  BY Zenon, <1>2, <1>6, <2>1, PreparedFrame DEF IInv
<1>13. NoPanic' /\ Positions' /\ ReservationsExact'
  BY ZenonT(30), <1>2, ReplicaFrame
<1> QED  BY Zenon, <1>6, <1>10, <1>11, <1>12, <1>13 DEF IInv

-----------------------------------------------------------------------------
(* The steps of a running replica *)

\* What the ledger says of the block at height h.
LEMMA LedgerStep ==
  ASSUME IInv, NEW h \in Height, 0 < h, h <= top, NEW a \in Address
  PROVE  LET p == decided[h].payload IN
         /\ decided[h] \in Block
         /\ h - 1 \in Height
         /\ p[a].first \in Nat /\ p[a].n \in Nat /\ p[a].cost \in Nat
         /\ a \in Senders(p) <=> p[a].n # 0
         /\ a \notin Senders(p) => p[a].cost = 0
         /\ a \in Senders(p) => p[a].first = nonce[h - 1][a]
         /\ nonce[h][a] = nonce[h - 1][a] + p[a].n
         /\ spent[h][a] = spent[h - 1][a] + p[a].cost
         /\ sends[h][a] = sends[h - 1][a] + (IF a \in Senders(p) THEN 1 ELSE 0)
         /\ nonce[h][a] \in Nat /\ spent[h][a] \in Nat /\ sends[h][a] \in Nat
         /\ nonce[h - 1][a] \in Nat /\ spent[h - 1][a] \in Nat
         /\ sends[h - 1][a] \in Nat
<1>1. decided[h] \in Block
  BY Zenon DEF IInv, TypeOK
<1>2. h - 1 \in Height
  BY BoundsAssumption DEF Height
<1>3. LET p == decided[h].payload IN
      /\ p[a].first \in Nat /\ p[a].n \in Nat /\ p[a].cost \in Nat
      /\ a \in Senders(p) <=> p[a].n # 0
      /\ a \notin Senders(p) => p[a].cost = 0
  BY Zenon, <1>1, BlockParts
<1>4. LET p == decided[h].payload IN
      /\ nonce[h][a] = nonce[h - 1][a] + p[a].n
      /\ spent[h][a] = spent[h - 1][a] + p[a].cost
      /\ sends[h][a] = sends[h - 1][a] + (IF a \in Senders(p) THEN 1 ELSE 0)
  BY Zenon DEF IInv, LedgerExtends
<1>5. LET p == decided[h].payload IN
      a \in Senders(p) => p[a].first = nonce[h - 1][a]
  BY Zenon DEF IInv, LedgerExtends, Executes
<1>6. /\ nonce[h][a] \in Nat /\ spent[h][a] \in Nat /\ sends[h][a] \in Nat
      /\ nonce[h - 1][a] \in Nat /\ spent[h - 1][a] \in Nat
      /\ sends[h - 1][a] \in Nat
  BY <1>2 DEF IInv, TypeOK
<1> QED  BY Zenon, <1>1, <1>2, <1>3, <1>4, <1>5, <1>6

----------------------------------------------------------------------------

\* CoreConfirm moves one position.
LEMMA CoreConfirmInv ==
  ASSUME IInv, NEW r \in Replica, CoreConfirm(r)
  PROVE  IInv'
<1>1. /\ started[r] /\ coreConfirmed[r] < top
      /\ coreConfirmed' = [coreConfirmed EXCEPT ![r] = @ + 1]
  BY Zenon DEF CoreConfirm
<1>2. UNCHANGED <<netVars, agreeVars, diskVars, started, confirmPos, deliverPos,
                  appVars, panicked>>
  BY Zenon DEF CoreConfirm
<1>3. coreConfirmed[r] + 1 \in Height
  BY <1>1, PositionFacts, UpToTop
<1>4. TypeOK'
  <2>1. coreConfirmed' \in [Replica -> Height]
    BY Zenon, <1>1, <1>3 DEF IInv, TypeOK
  <2> QED  BY Zenon, <1>2, <2>1
           DEF IInv, TypeOK, netVars, agreeVars, diskVars, appVars
<1>5. LedgerExtends' /\ LedgerMonotone' /\ AcceptedFits'
  BY Zenon, <1>2, LedgerFrame, AcceptedFrame DEF IInv, agreeVars
<1>6. PreparedFits'
  <2>1. \A q \in Replica : chain[q] <= chain'[q]
    BY <1>2, PositionFacts DEF diskVars
  <2> QED  BY Zenon, <1>2, <1>4, <2>1, PreparedFrame DEF IInv, agreeVars
<1>7. Positions' /\ ReservationsExact'
  <2>1. \A q \in Replica : coreConfirmed'[q]
          = IF q = r THEN coreConfirmed[r] + 1 ELSE coreConfirmed[q]
    BY Zenon, <1>1 DEF IInv, TypeOK
  <2>2. UNCHANGED <<chain, coreTip, started, confirmPos, deliverPos>>
        /\ UNCHANGED <<deliveredHeight, confirmedBlocks, undeliveredNum>>
        /\ UNCHANGED <<addressCost, addressCounter, addressNonce>>
        /\ UNCHANGED <<top, nonce, spent, sends>>
    BY SMTT(30), <1>2 DEF netVars, diskVars, appVars
  <2>3. \A q \in Replica : q # r => SameReplica(q)
    BY Zenon, <2>1, <2>2 DEF SameReplica
  <2>4. PositionsOf(r)'
    <3>1. /\ coreConfirmed'[r] = coreConfirmed[r] + 1 /\ started'[r]
          /\ coreConfirmed[r] \in Nat /\ top \in Nat /\ coreConfirmed[r] < top
          /\ confirmPos[r] \in Nat /\ confirmPos[r] <= coreConfirmed[r]
          /\ coreTip[r] \in Nat /\ coreTip[r] <= coreConfirmed[r]
      BY ZenonT(30), <1>1, <2>1, <2>2, PositionFacts
    <3>2. /\ coreConfirmed'[r] <= top /\ confirmPos[r] <= coreConfirmed'[r]
          /\ coreTip[r] <= coreConfirmed'[r]
      BY <3>1
    <3> QED  BY Zenon, <1>1, <2>2, <3>1, <3>2, PositionFacts DEF PositionsOf
  <2>5. ReservedExactly(r)'
    BY Zenon, <1>1, <2>2 DEF IInv, ReservationsExact, ReservedExactly
  <2> QED  BY Zenon, <2>2, <2>3, <2>4, <2>5, OneReplica
<1>8. NoPanic'
  BY Zenon, <1>2 DEF IInv, NoPanic
<1> QED  BY Zenon, <1>4, <1>5, <1>6, <1>7, <1>8 DEF IInv

\* CoreDeliver moves one position.
LEMMA CoreDeliverInv ==
  ASSUME IInv, NEW r \in Replica, CoreDeliver(r)
  PROVE  IInv'
<1>1. /\ started[r] /\ coreTip[r] < coreConfirmed[r]
      /\ coreTip' = [coreTip EXCEPT ![r] = @ + 1]
  BY Zenon DEF CoreDeliver
<1>2. UNCHANGED <<netVars, agreeVars, chain, coreVars, appVars, panicked>>
  BY ZenonT(30) DEF CoreDeliver
<1>3. coreTip[r] + 1 \in Height
  BY <1>1, PositionFacts, UpToTop
<1>4. TypeOK'
  <2>1. coreTip' \in [Replica -> Height]
    BY Zenon, <1>1, <1>3 DEF IInv, TypeOK
  <2> QED  BY Zenon, <1>2, <2>1
           DEF IInv, TypeOK, netVars, agreeVars, coreVars, appVars
<1>5. LedgerExtends' /\ LedgerMonotone' /\ AcceptedFits'
  BY Zenon, <1>2, LedgerFrame, AcceptedFrame DEF IInv, agreeVars
<1>6. PreparedFits'
  <2>1. \A q \in Replica : chain[q] <= chain'[q]
    BY <1>2, PositionFacts
  <2> QED  BY Zenon, <1>2, <1>4, <2>1, PreparedFrame DEF IInv, agreeVars
<1>7. Positions' /\ ReservationsExact'
  <2>1. \A q \in Replica : coreTip'[q]
          = IF q = r THEN coreTip[r] + 1 ELSE coreTip[q]
    BY Zenon, <1>1 DEF IInv, TypeOK
  <2>2. UNCHANGED <<chain, coreConfirmed, started, confirmPos, deliverPos>>
        /\ UNCHANGED <<deliveredHeight, confirmedBlocks, undeliveredNum>>
        /\ UNCHANGED <<addressCost, addressCounter, addressNonce>>
        /\ UNCHANGED <<top, nonce, spent, sends>>
    BY Zenon, <1>2 DEF netVars, coreVars, appVars
  <2>3. \A q \in Replica : q # r => SameReplica(q)
    BY Zenon, <2>1, <2>2 DEF SameReplica
  <2>4. PositionsOf(r)'
    BY SMTT(30), <1>1, <2>1, <2>2, PositionFacts DEF PositionsOf
  <2>5. ReservedExactly(r)'
    BY Zenon, <1>1, <2>2 DEF IInv, ReservationsExact, ReservedExactly
  <2> QED  BY Zenon, <2>2, <2>3, <2>4, <2>5, OneReplica
<1>8. NoPanic'
  BY Zenon, <1>2 DEF IInv, NoPanic
<1> QED  BY Zenon, <1>4, <1>5, <1>6, <1>7, <1>8 DEF IInv

\* InsertTangerineChain moves the head of the chain, no further than another
\* replica's.
LEMMA InsertTangerineChainInv ==
  ASSUME IInv, NEW r \in Replica, InsertTangerineChain(r)
  PROVE  IInv'
<1>1. PICK q \in Replica : chain[q] > chain[r]
  BY Zenon DEF InsertTangerineChain
<1>2. /\ chain' = [chain EXCEPT ![r] = @ + 1]
      /\ UNCHANGED <<netVars, agreeVars, coreTip, coreVars, appVars, panicked>>
  BY ZenonT(30) DEF InsertTangerineChain
<1>3. chain[r] + 1 \in Height /\ chain[r] + 1 <= top
  <2>1. chain[q] \in Nat /\ chain[q] <= top
    BY Zenon, PositionFacts
  <2>2. chain[r] + 1 <= top
    BY <1>1, <2>1, PositionFacts
  <2> QED  BY SMTT(30), <2>2, PositionFacts, UpToTop
<1>4. TypeOK'
  <2>1. chain' \in [Replica -> Height]
    BY Zenon, <1>2, <1>3 DEF IInv, TypeOK
  <2> QED  BY Zenon, <1>2, <2>1
           DEF IInv, TypeOK, netVars, agreeVars, coreVars, appVars
<1>5. \A s \in Replica : chain'[s] = IF s = r THEN chain[r] + 1 ELSE chain[s]
  BY Zenon, <1>2 DEF IInv, TypeOK
<1>6. LedgerExtends' /\ LedgerMonotone' /\ AcceptedFits'
  BY Zenon, <1>2, LedgerFrame, AcceptedFrame DEF IInv, agreeVars
<1>7. PreparedFits'
  <2>1. \A s \in Replica : chain[s] <= chain'[s]
    BY <1>5, PositionFacts
  <2> QED  BY Zenon, <1>2, <1>4, <2>1, PreparedFrame DEF IInv, agreeVars
<1>8. Positions' /\ ReservationsExact'
  <2>1. UNCHANGED <<coreTip, coreConfirmed, started, confirmPos, deliverPos>>
        /\ UNCHANGED <<deliveredHeight, confirmedBlocks, undeliveredNum>>
        /\ UNCHANGED <<addressCost, addressCounter, addressNonce>>
        /\ UNCHANGED <<top, nonce, spent, sends>>
    BY Zenon, <1>2 DEF netVars, coreVars, appVars
  <2>2. \A s \in Replica : s # r => SameReplica(s)
    BY ZenonT(30), <1>5, <2>1 DEF SameReplica
  <2>3. PositionsOf(r)'
    <3>1. PositionsOf(r)
      BY Zenon DEF IInv, Positions
    <3> QED  BY <1>3, <1>5, <2>1, <3>1, PositionFacts DEF PositionsOf
  <2>4. started'[r] => ReservedExactly(r)'
    BY Zenon, <2>1 DEF IInv, ReservationsExact, ReservedExactly
  <2> QED  BY Zenon, <2>1, <2>2, <2>3, <2>4, OneReplica
<1>9. NoPanic'
  BY Zenon, <1>2 DEF IInv, NoPanic
<1> QED  BY Zenon, <1>4, <1>6, <1>7, <1>8, <1>9 DEF IInv

\* BlockConfirmed does not panic and reserves what the block adds.
LEMMA BlockConfirmedInv ==
  ASSUME IInv, NEW r \in Replica, BlockConfirmed(r)
  PROVE  IInv'
<1> DEFINE h == confirmPos[r] + 1
           b == decided[h]
           c == confirmPos[r]
           d == deliverPos[r]
<1>1. /\ started[r] /\ c < coreConfirmed[r]
  BY ZenonT(30) DEF BlockConfirmed
<1>2. /\ h \in Nat /\ 0 < h /\ h <= top /\ h - 1 = c
      /\ c \in Nat /\ d \in Nat /\ d <= c
      /\ deliveredHeight[r] <= d /\ d <= chain[r] /\ d <= coreTip[r]
      /\ coreTip[r] <= coreConfirmed[r] /\ h <= coreConfirmed[r]
      /\ c <= top
  <2>1. /\ top \in Nat /\ c \in Nat /\ d \in Nat /\ coreConfirmed[r] \in Nat
        /\ coreConfirmed[r] <= top /\ d <= c /\ c <= top
        /\ deliveredHeight[r] <= d /\ d <= chain[r] /\ d <= coreTip[r]
        /\ coreTip[r] <= coreConfirmed[r] /\ c < coreConfirmed[r]
    BY ZenonT(30), <1>1, PositionFacts
  <2> HIDE DEF c, d
  <2>2. c + 1 \in Nat /\ 0 < c + 1 /\ c + 1 <= top /\ c + 1 - 1 = c
        /\ c + 1 <= coreConfirmed[r]
    BY <2>1
  <2>3. h = c + 1
    BY Zenon DEF c
  <2> HIDE DEF h
  <2> QED  BY <2>1, <2>2, <2>3
<1>3. h \in Height /\ c \in Height /\ d \in Height
  <2>1. c \in Height /\ d \in Height
    BY Zenon DEF IInv, TypeOK
  <2> QED  BY Zenon, <1>2, <2>1, UpToTop
<1>4. \A a \in Address :
        /\ addressCost[r][a] = spent[c][a] - spent[d][a]
        /\ addressCounter[r][a] = sends[c][a] - sends[d][a]
        /\ addressNonce[r][a] = IF addressCounter[r][a] = 0 THEN Absent
                                                            ELSE nonce[c][a] - 1
  BY ZenonT(30), <1>1 DEF IInv, ReservationsExact, ReservedExactly
<1>5. \A a \in Address :
        /\ spent[d][a] \in Nat /\ sends[d][a] \in Nat /\ nonce[d][a] \in Nat
        /\ spent[d][a] <= spent[c][a] /\ sends[d][a] <= sends[c][a]
  <2> HIDE DEF c, d
  <2>1. Between(d, c)
    BY Zenon, <1>2, <1>3 DEF IInv, LedgerMonotone
  <2> QED  BY ZenonT(20), <1>3, <2>1 DEF IInv, TypeOK, Between
<1>6. \A a \in Address :
        /\ b.payload[a].first \in Nat /\ b.payload[a].n \in Nat
        /\ b.payload[a].cost \in Nat
        /\ a \in Senders(b.payload) <=> b.payload[a].n # 0
        /\ a \notin Senders(b.payload) => b.payload[a].cost = 0
        /\ a \in Senders(b.payload) => b.payload[a].first = nonce[c][a]
        /\ nonce[h][a] = nonce[c][a] + b.payload[a].n
        /\ spent[h][a] = spent[c][a] + b.payload[a].cost
        /\ sends[h][a] = sends[c][a] + (IF a \in Senders(b.payload) THEN 1 ELSE 0)
        /\ nonce[c][a] \in Nat /\ spent[c][a] \in Nat /\ sends[c][a] \in Nat
  <2> HIDE DEF c, h
  <2> SUFFICES ASSUME NEW a \in Address
      PROVE /\ b.payload[a].first \in Nat /\ b.payload[a].n \in Nat
            /\ b.payload[a].cost \in Nat
            /\ a \in Senders(b.payload) <=> b.payload[a].n # 0
            /\ a \notin Senders(b.payload) => b.payload[a].cost = 0
            /\ a \in Senders(b.payload) => b.payload[a].first = nonce[c][a]
            /\ nonce[h][a] = nonce[c][a] + b.payload[a].n
            /\ spent[h][a] = spent[c][a] + b.payload[a].cost
            /\ sends[h][a] = sends[c][a]
                 + (IF a \in Senders(b.payload) THEN 1 ELSE 0)
            /\ nonce[c][a] \in Nat /\ spent[c][a] \in Nat
            /\ sends[c][a] \in Nat
    BY Zenon
  <2>1. h - 1 = c /\ 0 < h /\ h <= top
    BY SMTT(30), <1>2
  <2> QED  BY Zenon, <1>3, <2>1, LedgerStep
<1>7. Confirmable(r, b)
  <2>1. b.wellFormed
    BY Zenon, <1>2, <1>3 DEF IInv, LedgerExtends
  <2>2. ASSUME NEW a \in Senders(b.payload)
        PROVE  addressNonce[r][a] < b.payload[a].first
    <3>1. a \in Address
      BY Zenon DEF Senders
    <3>2. /\ addressNonce[r][a] = IF addressCounter[r][a] = 0
                                  THEN Absent ELSE nonce[c][a] - 1
          /\ b.payload[a].first = nonce[c][a] /\ nonce[c][a] \in Nat
      BY Zenon, <1>4, <1>6, <3>1
    <3> HIDE DEF b, c, d, h
    <3> QED  BY <3>2 DEF Absent
  <2> QED  BY ZenonT(30), <2>1, <2>2 DEF Confirmable
<1> HIDE DEF h, b, c, d
<1>8. /\ addressNonce' = [addressNonce EXCEPT ![r] = [a \in Address |->
           IF a \in Senders(b.payload)
           THEN b.payload[a].first + b.payload[a].n - 1
           ELSE addressNonce[r][a]]]
      /\ addressCost' = [addressCost EXCEPT ![r] = [a \in Address |->
           addressCost[r][a] + b.payload[a].cost]]
      /\ addressCounter' = [addressCounter EXCEPT ![r] = [a \in Address |->
           addressCounter[r][a]
             + (IF a \in Senders(b.payload) THEN 1 ELSE 0)]]
      /\ confirmedBlocks' = [confirmedBlocks EXCEPT ![r] = @ \cup {h}]
      /\ undeliveredNum' = [undeliveredNum EXCEPT ![r] = @ + 1]
      /\ confirmPos' = [confirmPos EXCEPT ![r] = h]
  BY ZenonT(30), <1>7 DEF BlockConfirmed, b, h
<1>20. /\ UNCHANGED <<netVars, agreeVars, diskVars, panicked>>
       /\ UNCHANGED <<started, coreConfirmed, deliverPos, deliveredHeight>>
  BY SMTT(30), <1>7 DEF BlockConfirmed, b, h
<1>9. /\ \A a \in Address :
           /\ addressNonce'[r][a] = IF a \in Senders(b.payload)
                                    THEN b.payload[a].first + b.payload[a].n - 1
                                    ELSE addressNonce[r][a]
           /\ addressCost'[r][a] = addressCost[r][a] + b.payload[a].cost
           /\ addressCounter'[r][a] = addressCounter[r][a]
                + (IF a \in Senders(b.payload) THEN 1 ELSE 0)
      /\ confirmedBlocks'[r] = confirmedBlocks[r] \cup {h}
      /\ undeliveredNum'[r] = undeliveredNum[r] + 1
      /\ confirmPos'[r] = h
  BY ZenonT(30), <1>8 DEF IInv, TypeOK
<1>10. \A q \in Replica : q # r =>
        /\ confirmPos'[q] = confirmPos[q]
        /\ confirmedBlocks'[q] = confirmedBlocks[q]
        /\ undeliveredNum'[q] = undeliveredNum[q]
        /\ addressCost'[q] = addressCost[q]
        /\ addressCounter'[q] = addressCounter[q]
        /\ addressNonce'[q] = addressNonce[q]
  BY ZenonT(30), <1>8 DEF IInv, TypeOK
<1>11. TypeOK'
  <2>1. \A a \in Address :
          /\ (IF a \in Senders(b.payload)
              THEN b.payload[a].first + b.payload[a].n - 1
              ELSE addressNonce[r][a]) \in Nat \cup {Absent}
          /\ addressCost[r][a] + b.payload[a].cost \in Nat
          /\ addressCounter[r][a]
               + (IF a \in Senders(b.payload) THEN 1 ELSE 0) \in Nat
    <3> SUFFICES ASSUME NEW a \in Address
                 PROVE /\ (IF a \in Senders(b.payload)
                           THEN b.payload[a].first + b.payload[a].n - 1
                           ELSE addressNonce[r][a]) \in Nat \cup {Absent}
                       /\ addressCost[r][a] + b.payload[a].cost \in Nat
                       /\ addressCounter[r][a]
                            + (IF a \in Senders(b.payload) THEN 1 ELSE 0) \in Nat
      BY Zenon
    <3>1. /\ addressCost[r][a] \in Nat /\ addressCounter[r][a] \in Nat
          /\ addressNonce[r][a] \in Nat \cup {Absent}
      BY SMTT(30) DEF IInv, TypeOK
    <3> QED  BY SMTT(30), <1>6, <3>1
  <2>2. /\ addressNonce' \in [Replica -> [Address -> Nat \cup {Absent}]]
        /\ addressCost' \in [Replica -> [Address -> Nat]]
        /\ addressCounter' \in [Replica -> [Address -> Nat]]
    BY ZenonT(30), <1>8, <2>1 DEF IInv, TypeOK
  <2>3. /\ confirmedBlocks' \in [Replica -> SUBSET Height]
        /\ undeliveredNum' \in [Replica -> Nat]
        /\ confirmPos' \in [Replica -> Height]
    BY <1>3, <1>8 DEF IInv, TypeOK
  <2> QED  BY ZenonT(30), <1>20, <2>2, <2>3
           DEF IInv, TypeOK, netVars, agreeVars, diskVars
<1>12. LedgerExtends' /\ LedgerMonotone' /\ AcceptedFits'
  BY Zenon, <1>20, LedgerFrame, AcceptedFrame DEF IInv, agreeVars
<1>13. PreparedFits'
  <2>1. \A q \in Replica : chain[q] <= chain'[q]
    BY <1>20, PositionFacts DEF diskVars
  <2> QED  BY ZenonT(30), <1>20, <1>11, <2>1, PreparedFrame DEF IInv, agreeVars
<1>14. Positions' /\ ReservationsExact'
  <2>1. UNCHANGED <<top, nonce, spent, sends, chain, coreTip>>
        /\ UNCHANGED <<coreConfirmed, started, deliverPos, deliveredHeight>>
    BY Zenon, <1>20 DEF netVars, diskVars
  <2>2. \A q \in Replica : q # r => SameReplica(q)
    BY Zenon, <1>10, <2>1 DEF SameReplica
  <2>0. /\ confirmedBlocks'[r] = confirmedBlocks[r] \cup {h}
        /\ undeliveredNum'[r] = undeliveredNum[r] + 1
        /\ confirmPos'[r] = h
    BY Zenon, <1>9
  <2>3. PositionsOf(r)'
    <3>1. /\ chain[r] <= top /\ coreTip[r] <= top /\ coreConfirmed[r] <= top
          /\ d <= h
      BY <1>2, PositionFacts
    <3> QED  BY ZenonT(30), <1>1, <1>2, <2>0, <2>1, <3>1 DEF PositionsOf, d
  <2>4. ReservedExactly(r)'
    <3>1. confirmedBlocks[r] = (d + 1)..c /\ undeliveredNum[r] = c - d
      BY ZenonT(30), <1>1 DEF IInv, ReservationsExact, ReservedExactly, c, d
    <3>2. /\ confirmedBlocks'[r] = (d + 1)..h
          /\ undeliveredNum'[r] = h - d
      BY SMTT(30), <1>2, <2>0, <3>1
    <3>3. ASSUME NEW a \in Address
          PROVE  /\ addressCost'[r][a] = spent[h][a] - spent[d][a]
                 /\ addressCounter'[r][a] = sends[h][a] - sends[d][a]
                 /\ addressNonce'[r][a] =
                      IF addressCounter'[r][a] = 0 THEN Absent
                                                   ELSE nonce[h][a] - 1
      <4>0. /\ addressCost[r][a] = spent[c][a] - spent[d][a]
            /\ addressCounter[r][a] = sends[c][a] - sends[d][a]
            /\ spent[d][a] \in Nat /\ sends[d][a] \in Nat
            /\ sends[d][a] <= sends[c][a]
            /\ spent[c][a] \in Nat /\ sends[c][a] \in Nat
            /\ nonce[c][a] \in Nat
        BY Zenon, <1>4, <1>5, <1>6
      <4>1. CASE a \in Senders(b.payload)
        <5> DEFINE n == b.payload[a].n
                   k == b.payload[a].cost
        <5>1. /\ addressNonce'[r][a] = b.payload[a].first + n - 1
              /\ addressCost'[r][a] = addressCost[r][a] + k
              /\ addressCounter'[r][a] = addressCounter[r][a] + 1
          BY Zenon, <1>9, <4>1
        <5>2. /\ b.payload[a].first = nonce[c][a]
              /\ nonce[h][a] = nonce[c][a] + n
              /\ spent[h][a] = spent[c][a] + k
              /\ sends[h][a] = sends[c][a] + 1
              /\ n \in Nat /\ k \in Nat
          BY Zenon, <1>6, <4>1
        <5> HIDE DEF n, k
        <5>3. addressCost'[r][a] = spent[h][a] - spent[d][a]
          <6>1. addressCost'[r][a] = (spent[c][a] - spent[d][a]) + k
            BY Zenon, <4>0, <5>1
          <6>2. /\ spent[c][a] \in Nat /\ spent[d][a] \in Nat /\ k \in Nat
                /\ spent[h][a] = spent[c][a] + k
            BY Zenon, <4>0, <5>2
          <6> QED  BY <6>1, <6>2
        <5>4. /\ addressCounter'[r][a] = sends[h][a] - sends[d][a]
              /\ addressCounter'[r][a] # 0
          <6>1. addressCounter'[r][a] = (sends[c][a] - sends[d][a]) + 1
            BY Zenon, <4>0, <5>1
          <6>2. /\ sends[c][a] \in Nat /\ sends[d][a] \in Nat
                /\ sends[d][a] <= sends[c][a] /\ sends[h][a] = sends[c][a] + 1
            BY Zenon, <4>0, <5>2
          <6>3. (sends[c][a] - sends[d][a]) + 1
                  = (sends[c][a] + 1) - sends[d][a]
            BY <6>2
          <6>4. (sends[c][a] + 1) - sends[d][a] # 0
            BY <6>2
          <6>5. addressCounter'[r][a] = sends[h][a] - sends[d][a]
            BY Zenon, <6>1, <6>2, <6>3
          <6> QED  BY Zenon, <6>2, <6>4, <6>5
        <5>5. addressNonce'[r][a] = nonce[h][a] - 1
          <6>1. addressNonce'[r][a] = nonce[c][a] + (n - 1)
            BY Zenon, <5>1, <5>2
          <6>2. nonce[c][a] \in Nat /\ n \in Nat
            BY Zenon, <4>0, <5>2
          <6>3. nonce[c][a] + (n - 1) = (nonce[c][a] + n) - 1
            BY <6>2
          <6> QED  BY Zenon, <5>2, <6>1, <6>3
        <5> QED  BY Zenon, <5>3, <5>4, <5>5
      <4>2. CASE a \notin Senders(b.payload)
        <5>1. /\ spent[h][a] = spent[c][a] /\ sends[h][a] = sends[c][a]
              /\ nonce[h][a] = nonce[c][a]
          BY SMTT(30), <1>6, <4>2
        <5>2. /\ addressCost'[r][a] = addressCost[r][a]
              /\ addressCounter'[r][a] = addressCounter[r][a]
              /\ addressNonce'[r][a] = addressNonce[r][a]
          <6>1. b.payload[a].cost = 0
            BY Zenon, <1>6, <4>2
          <6>2. addressCost[r][a] \in Nat /\ addressCounter[r][a] \in Nat
            BY DEF IInv, TypeOK
          <6>3. /\ addressCost'[r][a] = addressCost[r][a] + b.payload[a].cost
                /\ addressCounter'[r][a] = addressCounter[r][a] + 0
                /\ addressNonce'[r][a] = addressNonce[r][a]
            BY Zenon, <1>9, <4>2
          <6> QED  BY <6>1, <6>2, <6>3
        <5>3. addressNonce[r][a] = IF addressCounter[r][a] = 0
                                   THEN Absent ELSE nonce[c][a] - 1
          BY Zenon, <1>4
        <5> QED  BY ZenonT(30), <4>0, <5>1, <5>2, <5>3
      <4> QED  BY Zenon, <4>1, <4>2
    <3>4. confirmPos'[r] = h /\ deliverPos'[r] = d
      BY Zenon, <2>0, <2>1 DEF d
    <3> QED  BY Zenon, <2>1, <3>2, <3>3, <3>4 DEF ReservedExactly
  <2> QED  BY Zenon, <2>1, <2>2, <2>3, <2>4, OneReplica
<1>15. NoPanic'
  BY Zenon, <1>20 DEF IInv, NoPanic
<1> QED  BY Zenon, <1>11, <1>12, <1>13, <1>14, <1>15 DEF IInv

\* A block that can be decided: it fits the ledger with everything executed.
Decidable(b) ==
  /\ b \in Block
  /\ b.wellFormed
  /\ b.witnessData = "hash"
  /\ b.witness <= top
  /\ Fits(b.payload, top, top)

\* Decide extends the ledger by a block that fits it.
LEMMA DecideInv ==
  ASSUME IInv, NEW b, Decidable(b), Decide(b)
  PROVE  IInv'
<1>1. /\ top \in Height /\ top + 1 \in Height /\ top \in Nat
      /\ \A h \in Height : h \in Nat /\ (h <= top + 1 => h <= top \/ h = top + 1)
  BY BoundsAssumption, HeightNat DEF IInv, TypeOK, Height, Decide
<1>2. PICK gain \in [Address -> 0..MaxGain] :
        balance' = [balance EXCEPT ![top + 1] =
          [a \in Address |-> balance[top][a] - b.payload[a].cost + gain[a]]]
  BY Zenon DEF Decide
<1> DEFINE p == b.payload
           t == top + 1
<1>0. /\ nonce' = [nonce EXCEPT ![t] =
           [a \in Address |-> nonce[top][a] + p[a].n]]
      /\ spent' = [spent EXCEPT ![t] =
           [a \in Address |-> spent[top][a] + p[a].cost]]
      /\ sends' = [sends EXCEPT ![t] =
           [a \in Address |-> sends[top][a]
                                + (IF a \in Senders(p) THEN 1 ELSE 0)]]
      /\ decided' = [decided EXCEPT ![t] = b]
      /\ top' = t /\ accepted' = {}
      /\ UNCHANGED <<prepared, diskVars, coreVars, appVars, panicked>>
  BY Zenon DEF Decide
<1>3. \A a \in Address :
        /\ p[a].first \in Nat /\ p[a].n \in Nat /\ p[a].cost \in Nat
        /\ a \in Senders(p) <=> p[a].n # 0
        /\ a \notin Senders(p) => p[a].cost = 0
        /\ p[a].cost <= balance[top][a]
        /\ gain[a] \in Nat
        /\ balance[top][a] \in Nat /\ spent[top][a] \in Nat
        /\ nonce[top][a] \in Nat /\ sends[top][a] \in Nat
  <2> SUFFICES ASSUME NEW a \in Address
               PROVE /\ p[a].first \in Nat /\ p[a].n \in Nat /\ p[a].cost \in Nat
                     /\ a \in Senders(p) <=> p[a].n # 0
                     /\ a \notin Senders(p) => p[a].cost = 0
                     /\ p[a].cost <= balance[top][a]
                     /\ gain[a] \in Nat
                     /\ balance[top][a] \in Nat /\ spent[top][a] \in Nat
                     /\ nonce[top][a] \in Nat /\ sends[top][a] \in Nat
    BY Zenon
  <2>1. /\ p[a].first \in Nat /\ p[a].n \in Nat /\ p[a].cost \in Nat
        /\ a \in Senders(p) <=> p[a].n # 0
        /\ a \notin Senders(p) => p[a].cost = 0
    BY Zenon, BlockParts DEF Decidable
  <2>2. /\ balance[top][a] \in Nat /\ spent[top][a] \in Nat
        /\ nonce[top][a] \in Nat /\ sends[top][a] \in Nat
    BY <1>1 DEF IInv, TypeOK
  <2>3. gain[a] \in Nat
    BY BoundsAssumption
  <2>4. p[a].cost <= balance[top][a]
    <3>1. CASE a \in Senders(p)
      BY <3>1, <2>1, <2>2 DEF Decidable, Fits
    <3>2. CASE a \notin Senders(p)
      BY <3>2, <2>1, <2>2
    <3> QED  BY Zenon, <3>1, <3>2
  <2> QED  BY Zenon, <2>1, <2>2, <2>3, <2>4
<1>4. \A a \in Address :
        /\ balance'[t][a] = balance[top][a] - p[a].cost + gain[a]
        /\ nonce'[t][a] = nonce[top][a] + p[a].n
        /\ spent'[t][a] = spent[top][a] + p[a].cost
        /\ sends'[t][a] = sends[top][a] + (IF a \in Senders(p) THEN 1 ELSE 0)
  BY Zenon, <1>0, <1>1, <1>2 DEF IInv, TypeOK
<1>5. /\ decided'[t] = b
      /\ \A h \in Height : h <= top =>
           /\ balance'[h] = balance[h] /\ nonce'[h] = nonce[h]
           /\ spent'[h] = spent[h] /\ sends'[h] = sends[h]
           /\ decided'[h] = decided[h]
  <2>1. \A h \in Height : h <= top => h # top + 1
    BY <1>1
  <2> QED  BY Zenon, <1>0, <1>1, <1>2, <2>1 DEF IInv, TypeOK
<1>6. TypeOK'
  <2>1. /\ [a \in Address |-> balance[top][a] - p[a].cost + gain[a]]
              \in [Address -> Nat]
        /\ [a \in Address |-> nonce[top][a] + p[a].n] \in [Address -> Nat]
        /\ [a \in Address |-> spent[top][a] + p[a].cost] \in [Address -> Nat]
        /\ [a \in Address |-> sends[top][a]
              + (IF a \in Senders(p) THEN 1 ELSE 0)] \in [Address -> Nat]
    <3>1. \A a \in Address :
            /\ balance[top][a] - p[a].cost + gain[a] \in Nat
            /\ nonce[top][a] + p[a].n \in Nat
            /\ spent[top][a] + p[a].cost \in Nat
            /\ sends[top][a] + (IF a \in Senders(p) THEN 1 ELSE 0) \in Nat
      BY <1>3
    <3> QED  BY Zenon, <3>1
  <2>2. /\ balance' \in [Height -> [Address -> Nat]]
        /\ nonce' \in [Height -> [Address -> Nat]]
        /\ spent' \in [Height -> [Address -> Nat]]
        /\ sends' \in [Height -> [Address -> Nat]]
    BY Zenon, <1>0, <1>2, <2>1 DEF IInv, TypeOK
  <2>3. decided' \in [Height -> Block]
    BY Zenon, <1>0 DEF Decidable, IInv, TypeOK
  <2> QED  BY Zenon, <1>0, <1>1, <2>2, <2>3 DEF IInv, TypeOK, diskVars, coreVars, appVars
<1>7. LedgerExtends'
  <2>1. decided'[0].witness = 0
    BY SMTT(30), <1>1, <1>5, HeightNat DEF IInv, LedgerExtends
  <2>2. SUFFICES ASSUME NEW h \in Height, 0 < h, h <= top + 1
        PROVE /\ decided'[h].wellFormed
              /\ decided'[h].witnessData = "hash"
              /\ decided'[h].witness < h
              /\ Executes(h)'
              /\ \A a \in Address :
                   /\ nonce'[h][a] = nonce'[h - 1][a] + decided'[h].payload[a].n
                   /\ spent'[h][a] = spent'[h - 1][a] + decided'[h].payload[a].cost
                   /\ sends'[h][a] = sends'[h - 1][a]
                        + (IF a \in Senders(decided'[h].payload) THEN 1 ELSE 0)
    BY Zenon, <1>0, <2>1 DEF LedgerExtends, Senders
  <2>3. h - 1 \in Height /\ h - 1 <= top
    BY ZenonT(30), <1>1, <2>2, Below
  <2>4. CASE h <= top
    <3>1. /\ decided'[h] = decided[h] /\ nonce'[h] = nonce[h]
          /\ spent'[h] = spent[h] /\ sends'[h] = sends[h]
          /\ nonce'[h - 1] = nonce[h - 1] /\ spent'[h - 1] = spent[h - 1]
          /\ sends'[h - 1] = sends[h - 1] /\ balance'[h - 1] = balance[h - 1]
      BY ZenonT(30), <1>5, <2>3, <2>4
    <3>2. Executes(h)'
      BY SMTT(30), <2>2, <2>4, <3>1 DEF IInv, LedgerExtends, Executes, Senders
    <3> QED  BY <2>2, <2>4, <3>1, <3>2 DEF IInv, LedgerExtends
  <2>5. CASE h = top + 1
    <3>1. h - 1 = top /\ decided'[h] = b
      BY <1>1, <1>5, <2>5
    <3>2. /\ nonce'[top] = nonce[top] /\ spent'[top] = spent[top]
          /\ sends'[top] = sends[top] /\ balance'[top] = balance[top]
      BY <1>1, <1>5
    <3>3. Executes(h)'
      BY <1>3, <3>1, <3>2 DEF Executes, Decidable, Fits, Senders
    <3>4. b.witness < h
      <4>1. b.witness \in Nat
        BY Zenon, BlockFields, HeightNat DEF Decidable
      <4> QED  BY <4>1, <1>1, <2>5 DEF Decidable
    <3> QED  BY <1>4, <2>5, <3>1, <3>2, <3>3, <3>4 DEF Decidable
  <2> QED  BY Zenon, <1>1, <2>2, <2>4, <2>5
<1>8. LedgerMonotone'
  <2> SUFFICES ASSUME NEW i \in Height, NEW j \in Height, i <= j, j <= top + 1,
                      NEW a \in Address
               PROVE /\ balance'[i][a] + spent'[i][a] <= balance'[j][a] + spent'[j][a]
                     /\ spent'[i][a] <= spent'[j][a]
                     /\ sends'[i][a] <= sends'[j][a]
                     /\ nonce'[i][a] <= nonce'[j][a]
                     /\ IF sends'[i][a] = sends'[j][a]
                        THEN spent'[i][a] = spent'[j][a] /\ nonce'[i][a] = nonce'[j][a]
                        ELSE nonce'[i][a] < nonce'[j][a]
    BY Zenon, <1>0 DEF LedgerMonotone, Between
  <2>1. CASE j <= top
    BY <1>1, <1>5, <2>1 DEF IInv, LedgerMonotone, Between
  <2>2. CASE i = top + 1 /\ j = top + 1
    <3>1. /\ balance'[j][a] \in Nat /\ spent'[j][a] \in Nat
          /\ sends'[j][a] \in Nat /\ nonce'[j][a] \in Nat
      BY <1>6 DEF TypeOK
    <3> QED  BY <2>2, <3>1
  <2>3. CASE i <= top /\ j = top + 1
    <3>1. /\ balance'[i] = balance[i] /\ spent'[i] = spent[i]
          /\ sends'[i] = sends[i] /\ nonce'[i] = nonce[i]
      BY ZenonT(30), <1>5, <2>3
    <3>2. /\ balance[i][a] + spent[i][a] <= balance[top][a] + spent[top][a]
          /\ spent[i][a] <= spent[top][a]
          /\ sends[i][a] <= sends[top][a]
          /\ nonce[i][a] <= nonce[top][a]
          /\ IF sends[i][a] = sends[top][a]
             THEN spent[i][a] = spent[top][a] /\ nonce[i][a] = nonce[top][a]
             ELSE nonce[i][a] < nonce[top][a]
      BY <1>1, <2>3 DEF IInv, LedgerMonotone, Between
    <3>3. /\ balance[i][a] \in Nat /\ spent[i][a] \in Nat
          /\ sends[i][a] \in Nat /\ nonce[i][a] \in Nat
      <4>1. /\ balance \in [Height -> [Address -> Nat]]
            /\ spent \in [Height -> [Address -> Nat]]
            /\ sends \in [Height -> [Address -> Nat]]
            /\ nonce \in [Height -> [Address -> Nat]]
        BY Zenon DEF IInv, TypeOK
      <4> QED  BY Zenon, <4>1
    <3>4. /\ p[a].n \in Nat /\ p[a].cost \in Nat /\ gain[a] \in Nat
          /\ a \in Senders(p) <=> p[a].n # 0
          /\ a \notin Senders(p) => p[a].cost = 0
          /\ p[a].cost <= balance[top][a]
          /\ balance[top][a] \in Nat /\ spent[top][a] \in Nat
          /\ nonce[top][a] \in Nat /\ sends[top][a] \in Nat
      BY Zenon, <1>3
    <3>5. /\ balance'[j][a] = balance[top][a] - p[a].cost + gain[a]
          /\ nonce'[j][a] = nonce[top][a] + p[a].n
          /\ spent'[j][a] = spent[top][a] + p[a].cost
          /\ sends'[j][a] = sends[top][a] + (IF a \in Senders(p) THEN 1 ELSE 0)
      BY Zenon, <1>4, <2>3
    <3>6. CASE a \in Senders(p)
      <4>1. sends'[j][a] = sends[top][a] + 1 /\ p[a].n # 0
        BY ZenonT(30), <3>4, <3>5, <3>6
      <4>2. /\ balance[i][a] + spent[i][a] <= balance'[j][a] + spent'[j][a]
            /\ spent[i][a] <= spent'[j][a]
        BY SMTT(30), <3>2, <3>3, <3>4, <3>5
      <4>3. /\ sends[i][a] <= sends'[j][a] /\ sends[i][a] # sends'[j][a]
            /\ nonce[i][a] <= nonce'[j][a] /\ nonce[i][a] < nonce'[j][a]
        BY SMTT(30), <3>2, <3>3, <3>4, <3>5, <4>1
      <4> QED  BY Zenon, <3>1, <4>2, <4>3
    <3>7. CASE a \notin Senders(p)
      BY SMTT(30), <3>1, <3>2, <3>3, <3>4, <3>5, <3>7
    <3> QED  BY Zenon, <3>6, <3>7
  <2> QED  BY ZenonT(30), <1>1, <2>1, <2>2, <2>3
<1>9. AcceptedFits'
  BY Zenon, <1>0 DEF AcceptedFits
<1>10. PreparedFits'
  <2> SUFFICES ASSUME NEW q \in prepared
      PROVE /\ q.block.wellFormed /\ q.block.witnessData = "hash"
            /\ q.block.height - 1 \in Height /\ q.block.height - 1 <= top + 1
            /\ \E i \in Height :
                 /\ i <= chain[q.by]
                 /\ i <= q.block.height - 1
                 /\ q.ready => i <= q.block.witness
                 /\ Fits(q.block.payload, i, q.block.height - 1)'
    BY Zenon, <1>0 DEF PreparedFits, diskVars
  <2> DEFINE k == q.block.height - 1
  <2>1. PICK i \in Height : /\ i <= chain[q.by]
                            /\ i <= k
                            /\ q.ready => i <= q.block.witness
                            /\ Fits(q.block.payload, i, k)
    BY Zenon DEF IInv, PreparedFits
  <2>2. /\ q.block.wellFormed /\ q.block.witnessData = "hash"
        /\ k \in Height /\ k <= top
    BY Zenon DEF IInv, PreparedFits
  <2> HIDE DEF k
  <2>3. i <= top
    <3>1. i \in Nat /\ k \in Nat /\ top \in Nat /\ i <= k /\ k <= top
      BY ZenonT(20), <1>1, <2>1, <2>2, HeightNat
    <3> QED  BY SMTT(30), <3>1
  <2>4. Fits(q.block.payload, i, k)'
    BY ZenonT(30), <1>5, <2>1, <2>2, <2>3 DEF Fits, Senders
  <2>5. k <= top + 1
    BY ZenonT(30), <1>1, <2>2, HeightNat, Orders
  <2> QED  BY Zenon, <2>1, <2>2, <2>4, <2>5 DEF k
<1>11. Positions'
  <2> SUFFICES ASSUME NEW r \in Replica
      PROVE chain[r] <= top + 1 /\ coreTip[r] <= top + 1 /\ coreConfirmed[r] <= top + 1
    BY Zenon, <1>0 DEF IInv, Positions, PositionsOf, diskVars, coreVars, appVars
  <2> QED  BY PositionFacts
<1>12. ReservationsExact'
  <2> SUFFICES ASSUME NEW r \in Replica, started[r]
      PROVE /\ confirmedBlocks[r] = (deliverPos[r] + 1)..confirmPos[r]
            /\ undeliveredNum[r] = confirmPos[r] - deliverPos[r]
            /\ \A a \in Address :
                 /\ addressCost[r][a]
                      = spent'[confirmPos[r]][a] - spent'[deliverPos[r]][a]
                 /\ addressCounter[r][a]
                      = sends'[confirmPos[r]][a] - sends'[deliverPos[r]][a]
                 /\ addressNonce[r][a] =
                      IF addressCounter[r][a] = 0 THEN Absent
                                                  ELSE nonce'[confirmPos[r]][a] - 1
    BY <1>0 DEF ReservationsExact, ReservedExactly, diskVars, coreVars, appVars
  <2>1. /\ confirmPos[r] \in Height /\ deliverPos[r] \in Height
        /\ confirmPos[r] <= top /\ deliverPos[r] <= top
    <3>1. confirmPos[r] \in Height /\ deliverPos[r] \in Height
      BY Zenon DEF IInv, TypeOK
    <3> QED  BY Zenon, <3>1, PositionFacts, Orders
  <2>2. /\ spent'[confirmPos[r]] = spent[confirmPos[r]]
        /\ spent'[deliverPos[r]] = spent[deliverPos[r]]
        /\ sends'[confirmPos[r]] = sends[confirmPos[r]]
        /\ sends'[deliverPos[r]] = sends[deliverPos[r]]
        /\ nonce'[confirmPos[r]] = nonce[confirmPos[r]]
    BY Zenon, <1>5, <2>1
  <2>3. ReservedExactly(r)
    BY Zenon DEF IInv, ReservationsExact
  <2> QED  BY ZenonT(60), <2>2, <2>3 DEF ReservedExactly
<1>13. NoPanic'
  BY Zenon, <1>0 DEF IInv, NoPanic
<1> QED  BY ZenonT(30), <1>6, <1>7, <1>8, <1>9, <1>10, <1>11, <1>12, <1>13 DEF IInv

\* The agreement outputs the accepted block: by then every block before it
\* is executed, which leaves at least what it was judged with.
LEMMA DecideAcceptedInv ==
  ASSUME IInv, DecideAccepted
  PROVE  IInv'
<1>1. PICK c \in accepted : Decide(c.block)
  BY Zenon DEF DecideAccepted
<1>2. c.block \in Block /\ c.at \in Height
  BY Zenon DEF IInv, TypeOK
<1>3. /\ c.block.wellFormed /\ c.block.witnessData = "hash"
      /\ c.block.witness <= top /\ c.at <= top
      /\ Fits(c.block.payload, c.at, top)
  BY Zenon DEF IInv, AcceptedFits
<1>4. Fits(c.block.payload, top, top)
  <2> SUFFICES ASSUME NEW a \in Senders(c.block.payload)
               PROVE  /\ c.block.payload[a].first = nonce[top][a]
                      /\ c.block.payload[a].cost
                           <= balance[top][a] - (spent[top][a] - spent[top][a])
    BY Zenon DEF Fits
  <2>1. a \in Address
    BY Zenon DEF Senders
  <2>2. top \in Height
    BY Zenon DEF IInv, TypeOK
  <2>3. /\ balance[top][a] \in Nat /\ spent[top][a] \in Nat
        /\ balance[c.at][a] \in Nat /\ spent[c.at][a] \in Nat
    BY <1>2, <2>1, <2>2 DEF IInv, TypeOK
  <2>4. balance[c.at][a] + spent[c.at][a] <= balance[top][a] + spent[top][a]
    <3>1. Between(c.at, top)
      <4>1. c.at <= top /\ top <= top
        BY Zenon, <1>3, <2>2, HeightNat, Orders
      <4> QED  BY Zenon, <1>2, <2>2, <4>1 DEF IInv, LedgerMonotone
    <3> QED  BY Zenon, <2>1, <3>1 DEF Between
  <2>5. c.block.payload[a].cost \in Nat
    BY Zenon, <1>2, <2>1, BlockParts
  <2>6. /\ c.block.payload[a].first = nonce[top][a]
        /\ c.block.payload[a].cost
             <= balance[c.at][a] - (spent[top][a] - spent[c.at][a])
    BY Zenon, <1>3 DEF Fits
  <2> QED  BY <2>3, <2>4, <2>5, <2>6
<1> QED  BY Zenon, <1>1, <1>2, <1>3, <1>4, DecideInv DEF Decidable

\* The agreement outputs an empty block.
LEMMA DecideEmptyInv ==
  ASSUME IInv, DecideEmpty
  PROVE  IInv'
<1> DEFINE w == decided[top].witness
           b == EmptyBlock(top + 1, w)
<1>1. /\ top \in Height /\ top + 1 \in Height /\ top \in Nat
  BY BoundsAssumption DEF IInv, TypeOK, Height, DecideEmpty, Decide
<1>2. w \in Height /\ w \in Nat
  BY Zenon, <1>1, BlockFields, HeightNat DEF IInv, TypeOK
<1>3. w <= top
  <2>1. CASE top = 0
    BY <2>1, <1>1 DEF IInv, LedgerExtends
  <2>2. CASE top # 0
    BY <2>2, <1>1, <1>2 DEF IInv, LedgerExtends
  <2> QED  BY ZenonT(30), <2>1, <2>2
<1>4. /\ b \in Block /\ b.payload = EmptyPayload /\ b.witness = w
      /\ b.wellFormed /\ b.witnessData = "hash" /\ Senders(EmptyPayload) = {}
  BY Zenon, <1>1, <1>2, EmptyBlockType
<1>5. Decide(b)
  BY Zenon DEF DecideEmpty
<1> HIDE DEF b, w
<1>6. Decidable(b)
  BY Zenon, <1>3, <1>4 DEF Decidable, Fits
<1> QED  BY ZenonT(30), <1>5, <1>6, DecideInv

----------------------------------------------------------------------------
\* Restart empties the application; deliveredHeight is the chain's head.
LEMMA RestartInv ==
  ASSUME IInv, NEW r \in Replica, Restart(r)
  PROVE  IInv'
<1>1. UNCHANGED <<netVars, agreeVars, diskVars, panicked>>
  BY Zenon DEF Restart
<1>2. TypeOK'
  BY Zenon, HeightNat DEF IInv, TypeOK, Restart, netVars, agreeVars, diskVars
<1>3. LedgerExtends' /\ LedgerMonotone' /\ AcceptedFits'
  BY Zenon, <1>1, LedgerFrame, AcceptedFrame DEF IInv, agreeVars
<1>4. PreparedFits'
  <2>1. \A q \in Replica : chain[q] <= chain'[q]
    BY <1>1, PositionFacts DEF diskVars
  <2> QED  BY Zenon, <1>1, <1>2, <2>1, PreparedFrame DEF IInv, agreeVars
<1>5. /\ ~started'[r] /\ coreConfirmed'[r] = 0
      /\ confirmedBlocks'[r] = {} /\ undeliveredNum'[r] = 0
      /\ deliveredHeight'[r] = chain[r]
      /\ \A a \in Address : /\ addressCost'[r][a] = 0
                            /\ addressCounter'[r][a] = 0
                            /\ addressNonce'[r][a] = Absent
  BY Zenon DEF IInv, TypeOK, Restart
<1>6. \A q \in Replica : q # r =>
        /\ started'[q] = started[q] /\ coreConfirmed'[q] = coreConfirmed[q]
        /\ confirmPos'[q] = confirmPos[q] /\ deliverPos'[q] = deliverPos[q]
        /\ confirmedBlocks'[q] = confirmedBlocks[q]
        /\ undeliveredNum'[q] = undeliveredNum[q]
        /\ deliveredHeight'[q] = deliveredHeight[q]
        /\ addressCost'[q] = addressCost[q]
        /\ addressCounter'[q] = addressCounter[q]
        /\ addressNonce'[q] = addressNonce[q]
  BY Zenon DEF IInv, TypeOK, Restart
<1>7. UNCHANGED <<top, chain, coreTip, nonce, spent, sends>>
  BY ZenonT(30), <1>1 DEF netVars, diskVars
<1>8. Positions' /\ ReservationsExact'
  <2>1. \A q \in Replica : q # r => SameReplica(q)
    BY Zenon, <1>6, <1>7 DEF SameReplica
  <2>2. PositionsOf(r)'
    BY <1>5, <1>7, PositionFacts DEF PositionsOf
  <2> QED  BY Zenon, <1>5, <1>7, <2>1, <2>2, OneReplica
<1>9. NoPanic'
  BY Zenon, <1>1 DEF IInv, NoPanic
<1> QED  BY Zenon, <1>2, <1>3, <1>4, <1>8, <1>9 DEF IInv

\* StartConsensus puts the application's queue at the head of the chain.
LEMMA StartConsensusInv ==
  ASSUME IInv, NEW r \in Replica, StartConsensus(r)
  PROVE  IInv'
<1> DEFINE tip == MaxOf(coreTip[r], chain[r])
<1>1. /\ ~started[r]
      /\ started' = [started EXCEPT ![r] = TRUE]
      /\ coreTip' = [coreTip EXCEPT ![r] = tip]
      /\ coreConfirmed' = [coreConfirmed EXCEPT ![r] = tip]
      /\ confirmPos' = [confirmPos EXCEPT ![r] = chain[r]]
      /\ deliverPos' = [deliverPos EXCEPT ![r] = chain[r]]
  BY Zenon DEF StartConsensus
<1>2. UNCHANGED <<netVars, agreeVars, chain, appVars, panicked>>
  BY Zenon DEF StartConsensus
<1>3. /\ tip \in Height /\ tip \in Nat /\ coreTip[r] <= tip /\ chain[r] <= tip
      /\ tip <= top
  <2>1. coreTip[r] \in Height /\ chain[r] \in Height
    BY Zenon DEF IInv, TypeOK
  <2> QED  BY <2>1, PositionFacts DEF MaxOf
<1> HIDE DEF tip
<1>4. TypeOK'
  BY Zenon, <1>1, <1>2, <1>3 DEF IInv, TypeOK, netVars, agreeVars, appVars
<1>5. LedgerExtends' /\ LedgerMonotone' /\ AcceptedFits'
  BY Zenon, <1>2, LedgerFrame, AcceptedFrame DEF IInv, agreeVars
<1>6. PreparedFits'
  <2>1. \A q \in Replica : chain[q] <= chain'[q]
    BY <1>2, PositionFacts
  <2> QED  BY Zenon, <1>2, <1>4, <2>1, PreparedFrame DEF IInv, agreeVars
<1>7. /\ started'[r] /\ coreConfirmed'[r] = tip /\ coreTip'[r] = tip
      /\ confirmPos'[r] = chain[r] /\ deliverPos'[r] = chain[r]
  BY Zenon, <1>1 DEF IInv, TypeOK
<1>8. \A q \in Replica : q # r =>
        /\ started'[q] = started[q] /\ coreConfirmed'[q] = coreConfirmed[q]
        /\ coreTip'[q] = coreTip[q]
        /\ confirmPos'[q] = confirmPos[q] /\ deliverPos'[q] = deliverPos[q]
  BY Zenon, <1>1 DEF IInv, TypeOK
<1>9. /\ deliveredHeight[r] <= chain[r] /\ confirmedBlocks[r] = {}
      /\ undeliveredNum[r] = 0
      /\ \A a \in Address : /\ addressCost[r][a] = 0
                            /\ addressCounter[r][a] = 0
                            /\ addressNonce[r][a] = Absent
  BY Zenon, <1>1 DEF IInv, Positions, PositionsOf
<1>10. UNCHANGED <<top, chain, deliveredHeight, confirmedBlocks, undeliveredNum>>
       /\ UNCHANGED <<addressCost, addressCounter, addressNonce>>
       /\ UNCHANGED <<nonce, spent, sends>>
  BY Zenon, <1>2 DEF netVars, appVars
<1>11. Positions' /\ ReservationsExact'
  <2>1. \A q \in Replica : q # r => SameReplica(q)
    BY ZenonT(30), <1>8, <1>10 DEF SameReplica
  <2>2. PositionsOf(r)'
    BY <1>3, <1>7, <1>9, <1>10, PositionFacts DEF PositionsOf
  <2>3. /\ chain[r] \in Height /\ (chain[r] + 1)..chain[r] = {}
        /\ chain[r] - chain[r] = 0
    <3>1. chain[r] \in Height
      BY Zenon DEF IInv, TypeOK
    <3>2. chain[r] \in Nat
      BY Zenon, <3>1, HeightNat
    <3> QED  BY Zenon, <3>1, <3>2, EmptyAbove
  <2>4. \A a \in Address : /\ spent[chain[r]][a] - spent[chain[r]][a] = 0
                           /\ sends[chain[r]][a] - sends[chain[r]][a] = 0
    BY <2>3 DEF IInv, TypeOK
  <2>5. ReservedExactly(r)'
    BY ZenonT(30), <1>7, <1>9, <1>10, <2>3, <2>4 DEF ReservedExactly
  <2> QED  BY Zenon, <1>10, <2>1, <2>2, <2>5, OneReplica
<1>12. NoPanic'
  BY Zenon, <1>2 DEF IInv, NoPanic
<1> QED  BY Zenon, <1>4, <1>5, <1>6, <1>11, <1>12 DEF IInv

-----------------------------------------------------------------------------
(* The delivery of a block *)

\* BlockDelivered does not panic and releases what the block had reserved.
LEMMA BlockDeliveredInv ==
  ASSUME IInv, NEW r \in Replica, BlockDelivered(r)
  PROVE  IInv'
<1> DEFINE h == deliverPos[r] + 1
           p == decided[h].payload
           c == confirmPos[r]
           d == deliverPos[r]
           Last(a) == a \in Senders(p) /\ addressCounter[r][a] = 1
<1>1. /\ started[r] /\ d < c /\ d < coreTip[r]
  BY Zenon DEF BlockDelivered
<1>2. /\ h \in Nat /\ 0 < h /\ h <= top /\ h - 1 = d /\ h <= c /\ c <= top
      /\ c \in Nat /\ d \in Nat /\ d <= chain[r] /\ h <= coreTip[r]
      /\ c <= coreConfirmed[r] /\ coreTip[r] <= coreConfirmed[r]
      /\ chain[r] \in Nat /\ chain[r] <= top
  <2>1. /\ top \in Nat /\ c \in Nat /\ d \in Nat /\ d <= chain[r] /\ c <= top
        /\ coreTip[r] \in Nat /\ c <= coreConfirmed[r]
        /\ coreTip[r] <= coreConfirmed[r] /\ chain[r] \in Nat /\ chain[r] <= top
    BY ZenonT(20), <1>1, PositionFacts
  <2>2. h \in Nat /\ 0 < h /\ h <= top /\ h - 1 = d /\ h <= c /\ h <= coreTip[r]
    BY Zenon, <1>1, <2>1, NextUp
  <2> HIDE DEF h, c, d
  <2> QED  BY Zenon, <2>1, <2>2
<1>3. h \in Height /\ c \in Height /\ d \in Height
  <2>1. c \in Height /\ d \in Height
    BY SMTT(30) DEF IInv, TypeOK
  <2> QED  BY Zenon, <1>2, <2>1, UpToTop
<1>4. /\ confirmedBlocks[r] = (d + 1)..c /\ undeliveredNum[r] = c - d
      /\ \A a \in Address :
           /\ addressCost[r][a] = spent[c][a] - spent[d][a]
           /\ addressCounter[r][a] = sends[c][a] - sends[d][a]
           /\ addressNonce[r][a] = IF addressCounter[r][a] = 0
                                   THEN Absent ELSE nonce[c][a] - 1
  BY Zenon, <1>1 DEF IInv, ReservationsExact, ReservedExactly
<1>5. \A a \in Address :
        /\ spent[c][a] \in Nat /\ sends[c][a] \in Nat /\ nonce[c][a] \in Nat
        /\ spent[h][a] <= spent[c][a] /\ sends[h][a] <= sends[c][a]
        /\ sends[h][a] = sends[c][a] => spent[h][a] = spent[c][a]
  <2> SUFFICES ASSUME NEW a \in Address
      PROVE  /\ spent[c][a] \in Nat /\ sends[c][a] \in Nat /\ nonce[c][a] \in Nat
             /\ spent[h][a] <= spent[c][a] /\ sends[h][a] <= sends[c][a]
             /\ sends[h][a] = sends[c][a] => spent[h][a] = spent[c][a]
    BY Zenon
  <2>1. spent[c][a] \in Nat /\ sends[c][a] \in Nat /\ nonce[c][a] \in Nat
    BY <1>3 DEF IInv, TypeOK
  <2>2. Between(h, c)
    BY ZenonT(30), <1>2, <1>3 DEF IInv, LedgerMonotone
  <2> QED  BY ZenonT(30), <2>1, <2>2 DEF Between
<1>6. \A a \in Address :
        /\ p[a].first \in Nat /\ p[a].n \in Nat /\ p[a].cost \in Nat
        /\ a \notin Senders(p) => p[a].cost = 0
        /\ spent[h][a] = spent[d][a] + p[a].cost
        /\ sends[h][a] = sends[d][a] + (IF a \in Senders(p) THEN 1 ELSE 0)
        /\ spent[h][a] \in Nat /\ sends[h][a] \in Nat
        /\ spent[d][a] \in Nat /\ sends[d][a] \in Nat
  <2>1. ASSUME NEW a \in Address
        PROVE  /\ p[a].first \in Nat /\ p[a].n \in Nat /\ p[a].cost \in Nat
               /\ a \notin Senders(p) => p[a].cost = 0
               /\ spent[h][a] = spent[h - 1][a] + p[a].cost
               /\ sends[h][a] = sends[h - 1][a] + (IF a \in Senders(p) THEN 1 ELSE 0)
               /\ spent[h][a] \in Nat /\ sends[h][a] \in Nat
               /\ spent[h - 1][a] \in Nat /\ sends[h - 1][a] \in Nat
    BY ZenonT(30), <1>2, <1>3, LedgerStep
  <2>2. h - 1 = d
    BY Zenon, <1>2
  <2> HIDE DEF h, p, d
  <2> QED  BY Zenon, <2>1, <2>2
<1>7. h \in confirmedBlocks[r] /\ Processes(r, h)
  <2>1. h \in confirmedBlocks[r]
    BY <1>2, <1>4
  <2>2. /\ decided[h].witnessData = "hash" /\ decided[h].witness < h /\ Executes(h)
    BY Zenon, <1>2, <1>3 DEF IInv, LedgerExtends
  <2>3. decided[h].witness \in Nat
    BY ZenonT(30), <1>3, BlockFields, HeightNat DEF IInv, TypeOK
  <2>4. decided[h].witness <= chain[r] /\ h - 1 <= chain[r]
    BY <1>2, <2>2, <2>3
  <2> QED  BY ZenonT(30), <2>1, <2>2, <2>4 DEF Processes
<1>8. /\ chain' = [chain EXCEPT ![r] = MaxOf(@, h)]
      /\ RemoveConfirmedBlock(r, h)
      /\ deliveredHeight' = [deliveredHeight EXCEPT ![r] = h]
      /\ deliverPos' = [deliverPos EXCEPT ![r] = h]
      /\ UNCHANGED <<netVars, agreeVars, coreTip, started, coreConfirmed,
                     confirmPos, panicked>>
  BY ZenonT(30), <1>7 DEF BlockDelivered
<1>9. /\ addressCounter' = [addressCounter EXCEPT ![r] = [a \in Address |->
           addressCounter[r][a] - (IF a \in Senders(p) THEN 1 ELSE 0)]]
      /\ addressCost' = [addressCost EXCEPT ![r] = [a \in Address |->
           IF Last(a) THEN 0 ELSE addressCost[r][a] - p[a].cost]]
      /\ addressNonce' = [addressNonce EXCEPT ![r] = [a \in Address |->
           IF Last(a) THEN Absent ELSE addressNonce[r][a]]]
      /\ confirmedBlocks' = [confirmedBlocks EXCEPT ![r] = @ \ {h}]
      /\ undeliveredNum' = [undeliveredNum EXCEPT ![r] = @ - 1]
  BY SMTT(30), <1>8 DEF RemoveConfirmedBlock
<1> HIDE DEF h, p, c, d
<1>10. /\ \A a \in Address :
            /\ addressCounter'[r][a] = addressCounter[r][a]
                 - (IF a \in Senders(p) THEN 1 ELSE 0)
            /\ addressCost'[r][a] =
                 IF Last(a) THEN 0 ELSE addressCost[r][a] - p[a].cost
            /\ addressNonce'[r][a] =
                 IF Last(a) THEN Absent ELSE addressNonce[r][a]
       /\ confirmedBlocks'[r] = confirmedBlocks[r] \ {h}
       /\ undeliveredNum'[r] = undeliveredNum[r] - 1
       /\ deliverPos'[r] = h /\ deliveredHeight'[r] = h
       /\ chain'[r] = MaxOf(chain[r], h)
  BY Zenon, <1>8, <1>9 DEF IInv, TypeOK
<1>11. \A q \in Replica : q # r =>
        /\ deliverPos'[q] = deliverPos[q] /\ chain'[q] = chain[q]
        /\ deliveredHeight'[q] = deliveredHeight[q]
        /\ confirmedBlocks'[q] = confirmedBlocks[q]
        /\ undeliveredNum'[q] = undeliveredNum[q]
        /\ addressCost'[q] = addressCost[q]
        /\ addressCounter'[q] = addressCounter[q]
        /\ addressNonce'[q] = addressNonce[q]
  BY Zenon, <1>8, <1>9 DEF IInv, TypeOK
<1>12. ASSUME NEW a \in Address
       PROVE  /\ addressCost'[r][a] = spent[c][a] - spent[h][a]
              /\ addressCounter'[r][a] = sends[c][a] - sends[h][a]
              /\ addressNonce'[r][a] = IF addressCounter'[r][a] = 0
                                       THEN Absent ELSE nonce[c][a] - 1
  <2>0. /\ addressCost[r][a] = spent[c][a] - spent[d][a]
        /\ addressCounter[r][a] = sends[c][a] - sends[d][a]
        /\ addressNonce[r][a] = IF addressCounter[r][a] = 0
                                THEN Absent ELSE nonce[c][a] - 1
    BY ZenonT(30), <1>4
  <2>1. CASE Last(a)
    <3>1. /\ addressCounter'[r][a] = 0 /\ addressCost'[r][a] = 0
          /\ addressNonce'[r][a] = Absent
      BY ZenonT(30), <1>10, <2>1, OneLess
    <3>2. sends[h][a] = sends[c][a] /\ spent[h][a] = spent[c][a]
      <4>1. a \in Senders(p) /\ sends[c][a] - sends[d][a] = 1
        BY Zenon, <2>0, <2>1
      <4>2. sends[h][a] = sends[d][a] + 1 /\ sends[d][a] \in Nat
        BY Zenon, <1>6, <4>1
      <4>3. /\ sends[c][a] \in Nat
            /\ sends[h][a] = sends[c][a] => spent[h][a] = spent[c][a]
        BY Zenon, <1>5
      <4> QED  BY <4>1, <4>2, <4>3
    <3>3. spent[c][a] \in Nat /\ sends[c][a] \in Nat
      BY Zenon, <1>5
    <3>4. spent[c][a] - spent[h][a] = 0 /\ sends[c][a] - sends[h][a] = 0
      BY Zenon, <3>2, <3>3, SameMinus
    <3> QED  BY ZenonT(30), <3>1, <3>4
  <2>2. CASE a \in Senders(p) /\ addressCounter[r][a] # 1
    <3>1. /\ addressCounter'[r][a] = addressCounter[r][a] - 1
          /\ addressCost'[r][a] = addressCost[r][a] - p[a].cost
          /\ addressNonce'[r][a] = addressNonce[r][a]
      BY Zenon, <1>10, <2>2
    <3>2. sends[h][a] = sends[d][a] + 1 /\ spent[h][a] = spent[d][a] + p[a].cost
      BY ZenonT(30), <1>6, <2>2
    <3>3. /\ sends[c][a] \in Nat /\ sends[d][a] \in Nat /\ sends[h][a] \in Nat
          /\ spent[c][a] \in Nat /\ spent[d][a] \in Nat /\ spent[h][a] \in Nat
          /\ p[a].cost \in Nat /\ sends[h][a] <= sends[c][a]
      BY Zenon, <1>5, <1>6
    <3>4. sends[c][a] - sends[d][a] # 1
      BY Zenon, <2>0, <2>2
    <3>5. /\ sends[c][a] - sends[d][a] # 0
          /\ (sends[c][a] - sends[d][a]) - 1 = sends[c][a] - sends[h][a]
          /\ (sends[c][a] - sends[d][a]) - 1 # 0
      <4>1. sends[d][a] + 1 <= sends[c][a]
        BY Zenon, <3>2, <3>3
      <4>2. /\ sends[c][a] - sends[d][a] # 0
            /\ (sends[c][a] - sends[d][a]) - 1 = sends[c][a] - (sends[d][a] + 1)
            /\ (sends[c][a] - sends[d][a]) - 1 # 0
        BY ZenonT(30), <3>3, <3>4, <4>1, Taken
      <4> QED  BY Zenon, <3>2, <4>2
    <3>0. (spent[c][a] - spent[d][a]) - p[a].cost = spent[c][a] - spent[h][a]
      <4>1. (spent[c][a] - spent[d][a]) - p[a].cost
              = spent[c][a] - (spent[d][a] + p[a].cost)
        BY SMTT(30), <3>3
      <4> QED  BY Zenon, <3>2, <4>1
    <3>6. addressCounter'[r][a] # 0 /\ addressNonce'[r][a] = nonce[c][a] - 1
      BY Zenon, <2>0, <3>1, <3>5
    <3>7. /\ addressCost'[r][a] = spent[c][a] - spent[h][a]
          /\ addressCounter'[r][a] = sends[c][a] - sends[h][a]
      BY Zenon, <2>0, <3>0, <3>1, <3>5
    <3> QED  BY Zenon, <3>6, <3>7
  <2>3. CASE a \notin Senders(p)
    <3>1. /\ sends[h][a] = sends[d][a] /\ spent[h][a] = spent[d][a]
      BY ZenonT(30), <1>6, <2>3, PlusZero
    <3>2. /\ addressCounter'[r][a] = addressCounter[r][a]
          /\ addressCost'[r][a] = addressCost[r][a]
          /\ addressNonce'[r][a] = addressNonce[r][a]
      <4>1. p[a].cost = 0
        BY Zenon, <1>6, <2>3
      <4>2. addressCost[r][a] \in Nat /\ addressCounter[r][a] \in Nat
        BY SMTT(30) DEF IInv, TypeOK
      <4>3. /\ addressCost'[r][a] = addressCost[r][a] - p[a].cost
            /\ addressCounter'[r][a] = addressCounter[r][a] - 0
            /\ addressNonce'[r][a] = addressNonce[r][a]
        BY ZenonT(30), <1>10, <2>3
      <4> QED  BY <4>1, <4>2, <4>3
    <3> QED  BY ZenonT(30), <2>0, <3>1, <3>2
  <2> QED  BY Zenon, <2>1, <2>2, <2>3
<1>13. /\ chain[r] <= MaxOf(chain[r], h) /\ h <= MaxOf(chain[r], h)
       /\ MaxOf(chain[r], h) <= top /\ MaxOf(chain[r], h) \in Height
  BY <1>2, <1>3 DEF MaxOf, IInv, TypeOK
<1>14. TypeOK'
  <2>1. \A a \in Address :
          /\ addressCounter[r][a] - (IF a \in Senders(p) THEN 1 ELSE 0) \in Nat
          /\ (IF Last(a) THEN 0 ELSE addressCost[r][a] - p[a].cost) \in Nat
          /\ (IF Last(a) THEN Absent ELSE addressNonce[r][a]) \in Nat \cup {Absent}
    <3> SUFFICES ASSUME NEW a \in Address
        PROVE /\ addressCounter[r][a] - (IF a \in Senders(p) THEN 1 ELSE 0) \in Nat
              /\ (IF Last(a) THEN 0 ELSE addressCost[r][a] - p[a].cost) \in Nat
              /\ (IF Last(a) THEN Absent ELSE addressNonce[r][a])
                   \in Nat \cup {Absent}
      BY Zenon
    <3>1. /\ addressCost[r][a] \in Nat /\ addressCounter[r][a] \in Nat
          /\ addressNonce[r][a] \in Nat \cup {Absent}
      BY SMTT(30) DEF IInv, TypeOK
    <3>2. /\ addressCounter[r][a] - (IF a \in Senders(p) THEN 1 ELSE 0) \in Nat
          /\ addressCost[r][a] - p[a].cost \in Nat
      <4> DEFINE one == IF a \in Senders(p) THEN 1 ELSE 0
      <4>1. /\ addressCost[r][a] = spent[c][a] - spent[d][a]
            /\ addressCounter[r][a] = sends[c][a] - sends[d][a]
        BY Zenon, <1>4
      <4>2. /\ spent[h][a] = spent[d][a] + p[a].cost /\ p[a].cost \in Nat
            /\ sends[h][a] = sends[d][a] + one
            /\ spent[d][a] \in Nat /\ sends[d][a] \in Nat
        BY Zenon, <1>6
      <4>3. /\ spent[c][a] \in Nat /\ sends[c][a] \in Nat
            /\ spent[h][a] <= spent[c][a] /\ sends[h][a] <= sends[c][a]
        BY Zenon, <1>5
      <4>4. one \in Nat
        BY ZenonT(20)
      <4> HIDE DEF one
      <4>5. /\ addressCounter[r][a] - one \in Nat
            /\ addressCost[r][a] - p[a].cost \in Nat
        BY <4>1, <4>2, <4>3, <4>4
      <4> QED  BY Zenon, <4>5 DEF one
    <3> QED  BY Zenon, <3>1, <3>2
  <2>2. /\ addressNonce' \in [Replica -> [Address -> Nat \cup {Absent}]]
        /\ addressCost' \in [Replica -> [Address -> Nat]]
        /\ addressCounter' \in [Replica -> [Address -> Nat]]
    BY ZenonT(30), <1>9, <2>1 DEF IInv, TypeOK
  <2>3. undeliveredNum' \in [Replica -> Nat]
    <3>1. undeliveredNum[r] - 1 \in Nat
      <4>1. undeliveredNum[r] = c - d
        BY Zenon, <1>4
      <4>2. c \in Nat /\ d \in Nat /\ d < c
        BY Zenon, <1>1, <1>2
      <4> QED  BY <4>1, <4>2
    <3> QED  BY Zenon, <1>9, <3>1 DEF IInv, TypeOK
  <2>4. /\ confirmedBlocks' \in [Replica -> SUBSET Height]
        /\ chain' \in [Replica -> Height]
        /\ deliverPos' \in [Replica -> Height]
        /\ deliveredHeight' \in [Replica -> Height]
    <3>1. MaxOf(chain[r], h) \in Height
      BY Zenon, <1>13
    <3> QED  BY Zenon, <1>3, <1>8, <1>9, <3>1 DEF IInv, TypeOK
  <2> QED  BY Zenon, <1>8, <2>2, <2>3, <2>4
           DEF IInv, TypeOK, netVars, agreeVars
<1>15. LedgerExtends' /\ LedgerMonotone' /\ AcceptedFits'
  BY Zenon, <1>8, LedgerFrame, AcceptedFrame DEF IInv, agreeVars
<1>16. PreparedFits'
  <2>1. \A q \in Replica : chain[q] <= chain'[q]
    <3>1. chain[r] <= chain'[r]
      BY Zenon, <1>10, <1>13
    <3>2. \A q \in Replica : q # r => chain'[q] = chain[q] /\ chain[q] \in Nat
      BY Zenon, <1>11, PositionFacts
    <3> QED  BY <3>1, <3>2
  <2> QED  BY Zenon, <1>8, <1>14, <2>1, PreparedFrame DEF IInv, agreeVars
<1>17. Positions' /\ ReservationsExact'
  <2>1. UNCHANGED <<top, nonce, spent, sends, coreTip>>
        /\ UNCHANGED <<coreConfirmed, started, confirmPos>>
    BY Zenon, <1>8 DEF netVars
  <2>2. \A q \in Replica : q # r => SameReplica(q)
    BY Zenon, <1>11, <2>1 DEF SameReplica
  <2>3. /\ confirmedBlocks'[r] = confirmedBlocks[r] \ {h}
        /\ undeliveredNum'[r] = undeliveredNum[r] - 1
        /\ deliverPos'[r] = h /\ deliveredHeight'[r] = h
        /\ chain'[r] = MaxOf(chain[r], h)
    BY Zenon, <1>10
  <2>4. PositionsOf(r)'
    <3>1. coreTip[r] <= top /\ coreConfirmed[r] <= top /\ h <= h
      BY <1>2, PositionFacts
    <3> QED  BY ZenonT(30), <1>1, <1>2, <1>13, <2>1, <2>3, <3>1 DEF PositionsOf, c
  <2>5. ReservedExactly(r)'
    <3>1. /\ confirmedBlocks'[r] = (h + 1)..c
          /\ undeliveredNum'[r] = c - h
      BY <1>2, <1>4, <2>3
    <3>2. confirmPos'[r] = c
      BY Zenon, <2>1 DEF c
    <3> QED  BY ZenonT(30), <1>12, <2>1, <2>3, <3>1, <3>2 DEF ReservedExactly
  <2> QED  BY Zenon, <2>1, <2>2, <2>4, <2>5, OneReplica
<1>18. NoPanic'
  BY Zenon, <1>8 DEF IInv, NoPanic
<1> QED  BY Zenon, <1>14, <1>15, <1>16, <1>17, <1>18 DEF IInv

----------------------------------------------------------------------------
(* The theorems *)

\* Every step preserves the inductive invariant.
LEMMA StepInv == IInv /\ [Next]_vars => IInv'
<1> SUFFICES ASSUME IInv, [Next]_vars PROVE IInv'
  BY Zenon
<1>1. CASE DecideAccepted
  BY Zenon, <1>1, DecideAcceptedInv
<1>2. CASE DecideEmpty
  BY Zenon, <1>2, DecideEmptyInv
<1>3. ASSUME NEW r \in Replica, PreparePayload(r) PROVE IInv'
  BY Zenon, <1>3, PreparePayloadInv
<1>4. ASSUME NEW r \in Replica, PrepareWitness(r) PROVE IInv'
  BY ZenonT(30), <1>4, PrepareWitnessInv
<1>5. ASSUME NEW r \in Replica, AcceptBlock(r) PROVE IInv'
  BY Zenon, <1>5, AcceptBlockInv
<1>6. ASSUME NEW r \in Replica, CoreConfirm(r) PROVE IInv'
  BY Zenon, <1>6, CoreConfirmInv
<1>7. ASSUME NEW r \in Replica, CoreDeliver(r) PROVE IInv'
  BY Zenon, <1>7, CoreDeliverInv
<1>8. ASSUME NEW r \in Replica, BlockConfirmed(r) PROVE IInv'
  BY Zenon, <1>8, BlockConfirmedInv
<1>9. ASSUME NEW r \in Replica, BlockDelivered(r) PROVE IInv'
  BY Zenon, <1>9, BlockDeliveredInv
<1>10. ASSUME NEW r \in Replica, InsertTangerineChain(r) PROVE IInv'
  BY Zenon, <1>10, InsertTangerineChainInv
<1>11. ASSUME NEW r \in Replica, Restart(r) PROVE IInv'
  BY Zenon, <1>11, RestartInv
<1>12. ASSUME NEW r \in Replica, StartConsensus(r) PROVE IInv'
  BY Zenon, <1>12, StartConsensusInv
<1>13. CASE UNCHANGED vars
  <2> USE <1>13 DEF vars, netVars, agreeVars, diskVars, coreVars, appVars
  <2>1. TypeOK' /\ NoPanic'
    BY SMTT(30) DEF IInv, TypeOK, NoPanic
  <2>2. LedgerExtends' /\ LedgerMonotone' /\ AcceptedFits'
    BY Zenon, LedgerFrame, AcceptedFrame DEF IInv
  <2>3. PreparedFits'
    <3>1. \A q \in Replica : chain[q] \in Nat
      BY Zenon, PositionFacts
    <3>2. \A q \in Replica : chain[q] <= chain'[q]
      <4>1. chain' = chain
        BY ZenonT(30)
      <4> QED  BY <3>1, <4>1
    <3> QED  BY Zenon, <2>1, <3>2, PreparedFrame DEF IInv
  <2>4. Positions' /\ ReservationsExact'
    BY SMTT(30) DEF IInv, Positions, PositionsOf, ReservationsExact, ReservedExactly
  <2> QED  BY ZenonT(30), <2>1, <2>2, <2>3, <2>4 DEF IInv
<1> QED
  BY Zenon, <1>1, <1>2, <1>3, <1>4, <1>5, <1>6, <1>7, <1>8, <1>9, <1>10, <1>11, <1>12,
     <1>13 DEF Next

\* IInv holds in every reachable state.
THEOREM Invariance == Spec => []IInv
BY InitInv, StepInv, PTL DEF Spec

\* Every variable keeps its type; in particular no balance and no reserved
\* cost becomes negative.
THEOREM TypeCorrect == Spec => []TypeOK
<1>1. IInv => TypeOK
  BY Zenon DEF IInv
<1> QED  BY <1>1, Invariance, PTL

\* BlockConfirmed and BlockDelivered never panic.
THEOREM NeverPanics == Spec => []NoPanic
<1>1. IInv => NoPanic
  BY Zenon DEF IInv
<1> QED  BY <1>1, Invariance, PTL

\* The application's maps are what its undelivered blocks amount to.
THEOREM ExactReservations == Spec => []ReservationsExact
<1>1. IInv => ReservationsExact
  BY Zenon DEF IInv
<1> QED  BY <1>1, Invariance, PTL

\* A replica that stands at height k, ready for height k + 1, does not call a
\* payload invalid that fits when judged with less delivered.
LEMMA FitsIsValid ==
  ASSUME IInv, NEW r \in Replica, NEW i \in Height, NEW k \in Height,
         NEW b \in Block,
         b.wellFormed, b.witnessData = "hash",
         k <= top, Fits(b.payload, i, k),
         NextHeight(r) = k + 1,
         IF started[r] THEN deliveredHeight[r] = deliverPos[r] /\ confirmPos[r] = k
                       ELSE deliveredHeight[r] = k,
         i <= deliveredHeight[r]
  PROVE  VerifyBlock(r, b) # "VerifyInvalidBlock"
<1> DEFINE d == deliveredHeight[r]
<1>1. d \in Height /\ d \in Nat /\ i \in Nat /\ k \in Nat /\ d <= k
  <2>1. d \in Height
    BY Zenon DEF IInv, TypeOK
  <2>2. d \in Nat /\ i \in Nat /\ k \in Nat
    BY Zenon, <2>1, HeightNat
  <2>3. CASE started[r]
    BY Zenon, <2>1, <2>2, <2>3, PositionFacts
  <2>4. CASE ~started[r]
    BY ZenonT(30), <2>1, <2>2, <2>4, Orders
  <2> QED  BY Zenon, <2>3, <2>4
<1>2. ASSUME NEW a \in Senders(b.payload)
      PROVE  b.payload[a].first = ExpectNonce(r, a) /\ b.payload[a].cost <= Available(r, a)
  <2>1. a \in Address
    BY Zenon DEF Senders
  <2>2. /\ ExpectNonce(r, a) = nonce[k][a]
        /\ Available(r, a) = balance[d][a] - (spent[k][a] - spent[d][a])
    <3>1. CASE started[r]
      <4>1. deliveredHeight[r] = deliverPos[r] /\ confirmPos[r] = k
        BY Zenon, <3>1
      <4>2. /\ ExpectNonce(r, a) = nonce[confirmPos[r]][a]
            /\ Available(r, a) = balance[deliveredHeight[r]][a]
                 - (spent[confirmPos[r]][a] - spent[deliveredHeight[r]][a])
        BY Zenon, <2>1, <3>1, <4>1, Judgement
      <4> QED  BY Zenon, <4>1, <4>2
    <3>2. CASE ~started[r]
      <4>1. addressNonce[r][a] = Absent /\ addressCost[r][a] = 0
        BY Zenon, <2>1, <3>2 DEF IInv, Positions, PositionsOf
      <4>2. d = k
        BY Zenon, <3>2
      <4>3. balance[k][a] \in Nat /\ spent[k][a] \in Nat
        BY Zenon, <2>1 DEF IInv, TypeOK
      <4> QED  BY SMTT(30), <4>1, <4>2, <4>3 DEF ExpectNonce, Available
    <3> QED  BY ZenonT(30), <3>1, <3>2
  <2>3. /\ balance[i][a] \in Nat /\ spent[i][a] \in Nat
        /\ balance[d][a] \in Nat /\ spent[d][a] \in Nat /\ spent[k][a] \in Nat
    BY ZenonT(30), <1>1, <2>1 DEF IInv, TypeOK
  <2>4. balance[i][a] + spent[i][a] <= balance[d][a] + spent[d][a]
    <3>1. d <= top
      BY SMTT(30), <1>1, PositionFacts
    <3>2. Between(i, d)
      BY Zenon, <1>1, <3>1 DEF IInv, LedgerMonotone
    <3> QED  BY Zenon, <2>1, <3>2 DEF Between
  <2>5. /\ b.payload[a].first = nonce[k][a] /\ b.payload[a].cost \in Nat
        /\ b.payload[a].cost <= balance[i][a] - (spent[k][a] - spent[i][a])
    BY ZenonT(30), <2>1, BlockParts DEF Fits
  <2> HIDE DEF d
  <2> QED  BY SMTT(30), <2>2, <2>3, <2>4, <2>5
<1> QED  BY ZenonT(30), <1>2 DEF VerifyBlock

\* What one replica accepted, none that has delivered as much calls invalid.
THEOREM AcceptedStaysValid == Spec => []AcceptedNeverInvalid
<1>1. IInv => AcceptedNeverInvalid
  <2> SUFFICES ASSUME IInv, NEW c \in accepted, NEW r \in Replica,
                      deliveredHeight[r] >= c.at,
                      VerifyBlock(r, c.block) = "VerifyInvalidBlock"
               PROVE  FALSE
    BY Zenon DEF AcceptedNeverInvalid
  <2>1. c.block \in Block /\ c.at \in Height /\ top \in Height
    BY SMTT(30) DEF IInv, TypeOK
  <2>2. /\ c.block.height = top + 1 /\ c.block.wellFormed
        /\ c.block.witnessData = "hash" /\ c.at <= top
        /\ Fits(c.block.payload, c.at, top)
    BY Zenon DEF IInv, AcceptedFits
  <2>3. NextHeight(r) = top + 1
    BY Zenon, <2>2 DEF VerifyBlock
  <2>4. IF started[r] THEN deliveredHeight[r] = deliverPos[r] /\ confirmPos[r] = top
                      ELSE deliveredHeight[r] = top
    <3>1. CASE started[r]
      BY Zenon, <2>1, <2>3, <3>1, UpToDate, PositionFacts
    <3>2. CASE ~started[r]
      BY Zenon, <2>1, <2>3, <3>2, AtRest
    <3> QED  BY Zenon, <3>1, <3>2
  <2>5. c.at <= deliveredHeight[r] /\ top <= top
    BY Zenon, <2>1, PositionFacts, HeightNat, Orders
  <2> QED  BY Zenon, <2>1, <2>2, <2>3, <2>4, <2>5, FitsIsValid
<1> QED  BY <1>1, Invariance, PTL

\* An honest proposal is not called invalid by an up-to-date application.
THEOREM HonestProposalsValid == Spec => []HonestBlockNeverInvalid
<1>1. IInv => HonestBlockNeverInvalid
  <2> SUFFICES ASSUME IInv, NEW p \in prepared, NEW r \in Replica,
                      p.ready, chain[r] = deliveredHeight[r],
                      VerifyBlock(r, p.block) = "VerifyInvalidBlock"
               PROVE  FALSE
    BY Zenon DEF HonestBlockNeverInvalid
  <2> DEFINE k == p.block.height - 1
  <2>1. p.block \in Block
    BY Zenon DEF IInv, TypeOK
  <2>2. /\ p.block.wellFormed /\ p.block.witnessData = "hash"
        /\ k \in Height /\ k <= top
    BY Zenon DEF IInv, PreparedFits
  <2>3. PICK i \in Height : i <= p.block.witness /\ Fits(p.block.payload, i, k)
    BY Zenon DEF IInv, PreparedFits
  <2>4. /\ NextHeight(r) = p.block.height
        /\ ~(chain[r] < p.block.witness)
    BY Zenon, <2>2 DEF VerifyBlock
  <2>5. p.block.witness \in Nat /\ p.block.height \in Nat /\ i \in Nat
    BY Zenon, <2>1, BlockFields, HeightNat
  <2>6. NextHeight(r) = k + 1
    BY Zenon, <2>4, <2>5, PlusZero
  <2> HIDE DEF k
  <2>7. IF started[r] THEN deliveredHeight[r] = deliverPos[r] /\ confirmPos[r] = k
                      ELSE deliveredHeight[r] = k
    <3>1. CASE started[r]
      BY Zenon, <2>2, <2>6, <3>1, InStep
    <3>2. CASE ~started[r]
      BY Zenon, <2>2, <2>6, <3>2, AtRest
    <3> QED  BY ZenonT(30), <3>1, <3>2
  <2>8. i <= deliveredHeight[r]
    <3>1. chain[r] \in Nat /\ i <= p.block.witness /\ ~(chain[r] < p.block.witness)
      BY Zenon, <2>3, <2>4, PositionFacts
    <3>2. p.block.witness <= chain[r]
      BY Zenon, <2>5, <3>1, NotBelow
    <3>3. i <= chain[r]
      BY Zenon, <2>5, <3>1, <3>2, Transitive
    <3> QED  BY Zenon, <3>3
  <2> QED  BY Zenon, <2>1, <2>2, <2>3, <2>6, <2>7, <2>8, FitsIsValid
<1> QED  BY <1>1, Invariance, PTL
=============================================================================
