----------------------------- MODULE DexconApp -----------------------------
(***************************************************************************)
(* The application between the consensus core and the chain (dex/app.go),  *)
(* on several replicas of one network.                                     *)
(*                                                                         *)
(* The agreement of the core is external here: it outputs one block per    *)
(* height (`decided'), each accepted by VerifyBlock on some replica or     *)
(* empty.  Executing a block is deterministic, so the state of the chain   *)
(* after each height is kept once for all replicas (`balance', `nonce').   *)
(* `spent' and `sends' are histories of that same ledger: what an address  *)
(* has offered to pay and in how many blocks it has sent, up to a height.  *)
(*                                                                         *)
(* A payload is kept as what the checks of the code add up: for every      *)
(* sender its first nonce, its number of transactions and their total      *)
(* cost.  The per transaction checks of the code fail on some prefix of a  *)
(* sender's transactions iff they fail on the total, since costs are not   *)
(* negative and validateNonce makes a sender's nonces consecutive.         *)
(***************************************************************************)
EXTENDS Integers, FiniteSets

CONSTANTS
  Replica,        \* the nodes that run the application
  Address,        \* the senders of transactions
  InitialBalances, \* balances a sender may have in the genesis state
  MaxHeight,      \* bound: heights the agreement decides
  MaxTxs,         \* bound: transactions of one sender in one block
  Costs,          \* what one sender's transactions in one block may cost
  MaxGain         \* bound: what one block gives to an account

ASSUME ReplicaAssumption == Replica # {}
ASSUME BoundsAssumption ==
  /\ InitialBalances \subseteq Nat
  /\ MaxHeight \in Nat
  /\ MaxTxs \in Nat
  /\ Costs \subseteq Nat
  /\ MaxGain \in Nat

VARIABLES
  \* the network: the order of blocks and the ledger their execution gives
  top, decided, balance, nonce, spent, sends,
  \* a block some replica accepted at the next height; a block being proposed
  accepted, prepared,
  \* per replica, on disk: the head of the chain and the core's tip
  chain, coreTip,
  \* per replica: the core and the event loop that calls the application
  started, coreConfirmed, confirmPos, deliverPos,
  \* per replica: the fields of DexconApp
  confirmedBlocks, addressNonce, addressCost, addressCounter,
  undeliveredNum, deliveredHeight,
  panicked

netVars    == <<top, decided, balance, nonce, spent, sends>>
agreeVars  == <<accepted, prepared>>
diskVars   == <<chain, coreTip>>
coreVars   == <<started, coreConfirmed, confirmPos, deliverPos>>
appVars    == <<confirmedBlocks, addressNonce, addressCost, addressCounter,
                undeliveredNum, deliveredHeight>>
vars       == <<netVars, agreeVars, diskVars, coreVars, appVars, panicked>>

----------------------------------------------------------------------------
(* Data *)

Height == 0..MaxHeight
Nonce  == 0..(MaxHeight * MaxTxs)

\* No entry in the map addressNonce.
Absent == -1

\* What a block holds of one sender; n = 0: nothing.
Nothing == [first |-> 0, n |-> 0, cost |-> 0]
Part    == [first : Nonce, n : 1..MaxTxs, cost : Costs] \cup {Nothing}
Payload == [Address -> Part]

EmptyPayload == [a \in Address |-> Nothing]
Senders(payload) == {a \in Address : payload[a].n > 0}

\* The witness names an earlier block: its hash, another hash, or no hash.
WitnessData == {"hash", "otherHash", "garbage"}

\* wellFormed: the payload decodes, its signatures recover, every sender's
\* nonces are consecutive, gas prices, intrinsic gas and the block's gas limit
\* hold.  These checks read nothing but the block and its round's
\* configuration, so every replica computes the same answer.
Block == [height : Height, payload : Payload, wellFormed : BOOLEAN,
          witness : Height, witnessData : WitnessData, empty : BOOLEAN]

\* A block without a proposer repeats the witness of the block before it.
EmptyBlock(h, w) ==
  [height |-> h, payload |-> EmptyPayload, wellFormed |-> TRUE,
   witness |-> w, witnessData |-> "hash", empty |-> TRUE]

MaxOf(i, j) == IF i >= j THEN i ELSE j

----------------------------------------------------------------------------
(* Reading the application's maps *)

\* Mutant: the last confirmed nonce is expected again.
ExpectNonceAgain(r, a) ==
  IF addressNonce[r][a] = Absent THEN nonce[deliveredHeight[r]][a]
                                 ELSE addressNonce[r][a]

\* The nonce the next block must start with for an address.
ExpectNonce(r, a) ==
  IF addressNonce[r][a] = Absent THEN nonce[deliveredHeight[r]][a]
                                 ELSE addressNonce[r][a] + 1

\* Mutant: confirmed transactions are not charged.
AvailableUncharged(r, a) == balance[deliveredHeight[r]][a]

\* The balance left once every confirmed transaction is charged its cost.
Available(r, a) == balance[deliveredHeight[r]][a] - addressCost[r][a]

\* The height the application expects next.
NextHeight(r) == deliveredHeight[r] + undeliveredNum[r] + 1

\* VerifyBlock: the witness is checked against the head of the chain, which
\* may be ahead of deliveredHeight, before the lock on the maps is taken.
VerifyBlock(r, b) ==
  IF b.witnessData = "garbage" THEN "VerifyInvalidBlock"
  ELSE IF chain[r] < b.witness THEN "VerifyRetryLater"
  ELSE IF b.witnessData # "hash" THEN "VerifyInvalidBlock"
  ELSE IF NextHeight(r) # b.height THEN "VerifyRetryLater"
  ELSE IF /\ b.wellFormed
          /\ \A a \in Senders(b.payload) :
               /\ b.payload[a].first = ExpectNonce(r, a)
               /\ b.payload[a].cost <= Available(r, a)
  THEN "VerifyOK" ELSE "VerifyInvalidBlock"

\* ApplyTransaction succeeds on every transaction of the block: nonces
\* continue the account's and the balance covers the cost.  (The code may
\* also get by with less when the block itself funds the sender.)
Executes(h) ==
  \A a \in Senders(decided[h].payload) :
    /\ decided[h].payload[a].first = nonce[h - 1][a]
    /\ decided[h].payload[a].cost <= balance[h - 1][a]

\* processBlock / ProcessEmptyBlock return no error for height h: the parent
\* is in the chain and, unless the block is empty, so is the witness, and the
\* transactions apply.
Processes(r, h) ==
  /\ h - 1 <= chain[r]
  /\ decided[h].empty
       \/ /\ decided[h].witnessData = "hash"
          /\ decided[h].witness <= chain[r]
          /\ Executes(h)

----------------------------------------------------------------------------
(* Proposing and agreeing *)

\* PreparePayload: the transactions of the pool that continue each sender's
\* nonces and that the sender can pay for.  The pool may hold any run of
\* transactions, and the deadline may cut the loop over the senders short.
PreparePayload(r) ==
  /\ started[r]
  /\ NextHeight(r) = coreConfirmed[r] + 1
  /\ NextHeight(r) \in Height
  /\ \E payload \in Payload :
       /\ \A a \in Senders(payload) :
            /\ payload[a].first = ExpectNonce(r, a)
            /\ payload[a].cost <= Available(r, a)
       /\ prepared' = {[by |-> r, ready |-> FALSE,
                        block |-> [height |-> NextHeight(r),
                                   payload |-> payload, wellFormed |-> TRUE,
                                   witness |-> 0, witnessData |-> "hash",
                                   empty |-> FALSE]]}
  /\ UNCHANGED <<netVars, accepted, diskVars, coreVars, appVars, panicked>>

\* Mutant: the witness repeats that of the last confirmed block.
PrepareOldWitness(r) ==
  /\ started[r]
  /\ \E p \in prepared :
       /\ p.by = r /\ ~p.ready
       /\ p.block.height = coreConfirmed[r] + 1
       /\ prepared' = {[p EXCEPT !.ready = TRUE,
                          !.block.witness = decided[coreConfirmed[r]].witness]}
  /\ UNCHANGED <<netVars, accepted, diskVars, coreVars, appVars, panicked>>

\* PrepareWitness, a later call of the same proposal: the head of the chain,
\* no lower than the witness of the last confirmed block.
PrepareWitness(r) ==
  /\ started[r]
  /\ chain[r] >= decided[coreConfirmed[r]].witness
  /\ \E p \in prepared :
       /\ p.by = r /\ ~p.ready
       /\ p.block.height = coreConfirmed[r] + 1
       /\ prepared' = {[p EXCEPT !.ready = TRUE, !.block.witness = chain[r]]}
  /\ UNCHANGED <<netVars, accepted, diskVars, coreVars, appVars, panicked>>

\* A replica accepts a block, of any proposer, for the height under agreement.
\* Blocks that are accepted and then not decided leave no trace, so one
\* accepted block is kept, with the delivered height it was judged at.
AcceptBlock(r) ==
  /\ started[r]
  /\ accepted = {}
  /\ top < MaxHeight
  /\ \E payload \in Payload, w \in Height, d \in WitnessData, f \in BOOLEAN :
       LET b == [height |-> top + 1, payload |-> payload, wellFormed |-> f,
                 witness |-> w, witnessData |-> d, empty |-> FALSE]
       IN  /\ VerifyBlock(r, b) = "VerifyOK"
           /\ accepted' = {[block |-> b, at |-> deliveredHeight[r]]}
  /\ UNCHANGED <<netVars, prepared, diskVars, coreVars, appVars, panicked>>

\* The agreement outputs block b at the next height.  Executing it charges a
\* sender its cost and gives every account what it gains: unused gas that is
\* paid back, transfers, contract calls, the proposer's reward.
Decide(b) ==
  /\ top < MaxHeight
  /\ \E gain \in [Address -> 0..MaxGain] :
       balance' = [balance EXCEPT ![top + 1] =
         [a \in Address |-> balance[top][a] - b.payload[a].cost + gain[a]]]
  /\ nonce' = [nonce EXCEPT ![top + 1] =
       [a \in Address |-> nonce[top][a] + b.payload[a].n]]
  /\ spent' = [spent EXCEPT ![top + 1] =
       [a \in Address |-> spent[top][a] + b.payload[a].cost]]
  /\ sends' = [sends EXCEPT ![top + 1] =
       [a \in Address |-> sends[top][a]
                            + (IF a \in Senders(b.payload) THEN 1 ELSE 0)]]
  /\ decided' = [decided EXCEPT ![top + 1] = b]
  /\ top' = top + 1
  /\ accepted' = {}
  /\ UNCHANGED <<prepared, diskVars, coreVars, appVars, panicked>>

DecideAccepted == \E c \in accepted : Decide(c.block)
DecideEmpty    == Decide(EmptyBlock(top + 1, decided[top].witness))

----------------------------------------------------------------------------
(* The core of one replica: it learns decisions in order, and later their  *)
(* randomness; each puts an event for the application into a queue.        *)

\* confirmBlock: the next height is decided.
CoreConfirm(r) ==
  /\ started[r]
  /\ coreConfirmed[r] < top
  /\ coreConfirmed' = [coreConfirmed EXCEPT ![r] = @ + 1]
  /\ UNCHANGED <<netVars, agreeVars, diskVars, started, confirmPos, deliverPos,
                 appVars, panicked>>

\* deliverBlock: the block and the tip are on disk before the application
\* hears of the delivery.
CoreDeliver(r) ==
  /\ started[r]
  /\ coreTip[r] < coreConfirmed[r]
  /\ coreTip' = [coreTip EXCEPT ![r] = @ + 1]
  /\ UNCHANGED <<netVars, agreeVars, chain, coreVars, appVars, panicked>>

----------------------------------------------------------------------------
(* The application of one replica *)

Panic(r) ==
  /\ panicked' = [panicked EXCEPT ![r] = TRUE]
  /\ UNCHANGED <<netVars, agreeVars, diskVars, coreVars, appVars>>

\* addConfirmedBlock returns no error.
Confirmable(r, b) ==
  /\ b.wellFormed
  /\ \A a \in Senders(b.payload) : addressNonce[r][a] < b.payload[a].first

\* BlockConfirmed: reserve the cost and the nonces of the block's senders.
BlockConfirmed(r) ==
  LET h == confirmPos[r] + 1
      b == decided[h]
  IN
  /\ started[r] /\ ~panicked[r]
  /\ confirmPos[r] < coreConfirmed[r]
  /\ IF ~Confirmable(r, b) THEN Panic(r) ELSE
       /\ addressNonce' = [addressNonce EXCEPT ![r] = [a \in Address |->
            IF a \in Senders(b.payload)
            THEN b.payload[a].first + b.payload[a].n - 1
            ELSE addressNonce[r][a]]]
       /\ addressCost' = [addressCost EXCEPT ![r] = [a \in Address |->
            addressCost[r][a] + b.payload[a].cost]]
       /\ addressCounter' = [addressCounter EXCEPT ![r] = [a \in Address |->
            addressCounter[r][a]
              + (IF a \in Senders(b.payload) THEN 1 ELSE 0)]]
       /\ confirmedBlocks' = [confirmedBlocks EXCEPT ![r] = @ \cup {h}]
       /\ undeliveredNum' = [undeliveredNum EXCEPT ![r] = @ + 1]
       /\ confirmPos' = [confirmPos EXCEPT ![r] = h]
       /\ UNCHANGED <<netVars, agreeVars, diskVars, started, coreConfirmed,
                      deliverPos, deliveredHeight, panicked>>

\* Mutant: the entry in addressNonce survives the last block of an address.
RemoveConfirmedBlockKeepNonce(r, h) ==
  LET p == decided[h].payload
  IN
  /\ addressCounter' = [addressCounter EXCEPT ![r] = [a \in Address |->
       addressCounter[r][a] - (IF a \in Senders(p) THEN 1 ELSE 0)]]
  /\ addressCost' = [addressCost EXCEPT ![r] = [a \in Address |->
       addressCost[r][a] - p[a].cost]]
  /\ confirmedBlocks' = [confirmedBlocks EXCEPT ![r] = @ \ {h}]
  /\ undeliveredNum' = [undeliveredNum EXCEPT ![r] = @ - 1]
  /\ UNCHANGED addressNonce

\* removeConfirmedBlock: release what the block had reserved; an address
\* with no confirmed block left loses its entries.
RemoveConfirmedBlock(r, h) ==
  LET p == decided[h].payload
      Last(a) == a \in Senders(p) /\ addressCounter[r][a] = 1
  IN
  /\ addressCounter' = [addressCounter EXCEPT ![r] = [a \in Address |->
       addressCounter[r][a] - (IF a \in Senders(p) THEN 1 ELSE 0)]]
  /\ addressCost' = [addressCost EXCEPT ![r] = [a \in Address |->
       IF Last(a) THEN 0 ELSE addressCost[r][a] - p[a].cost]]
  /\ addressNonce' = [addressNonce EXCEPT ![r] = [a \in Address |->
       IF Last(a) THEN Absent ELSE addressNonce[r][a]]]
  /\ confirmedBlocks' = [confirmedBlocks EXCEPT ![r] = @ \ {h}]
  /\ undeliveredNum' = [undeliveredNum EXCEPT ![r] = @ - 1]

\* BlockDelivered: execute the block, unless a peer's copy is in the chain
\* already, and release its reservation.
BlockDelivered(r) ==
  LET h == deliverPos[r] + 1
  IN
  /\ started[r] /\ ~panicked[r]
  /\ deliverPos[r] < confirmPos[r]
  /\ deliverPos[r] < coreTip[r]
  /\ IF ~(h \in confirmedBlocks[r] /\ Processes(r, h)) THEN Panic(r) ELSE
       /\ chain' = [chain EXCEPT ![r] = MaxOf(@, h)]
       /\ RemoveConfirmedBlock(r, h)
       /\ deliveredHeight' = [deliveredHeight EXCEPT ![r] = h]
       /\ deliverPos' = [deliverPos EXCEPT ![r] = h]
       /\ UNCHANGED <<netVars, agreeVars, coreTip, started, coreConfirmed,
                      confirmPos, panicked>>

----------------------------------------------------------------------------
(* Around the application *)

\* InsertTangerineChain: the chain follows a peer's, without the application.
InsertTangerineChain(r) ==
  /\ \E q \in Replica : chain[q] > chain[r]
  /\ chain' = [chain EXCEPT ![r] = @ + 1]
  /\ UNCHANGED <<netVars, agreeVars, coreTip, coreVars, appVars, panicked>>

\* The node stops in good order and NewDexconApp runs again: the maps, the
\* core and its event queue are gone, the chain and the core's tip are kept.
Restart(r) ==
  /\ ~panicked[r]
  /\ started' = [started EXCEPT ![r] = FALSE]
  /\ coreConfirmed' = [coreConfirmed EXCEPT ![r] = 0]
  /\ confirmPos' = [confirmPos EXCEPT ![r] = 0]
  /\ deliverPos' = [deliverPos EXCEPT ![r] = 0]
  /\ confirmedBlocks' = [confirmedBlocks EXCEPT ![r] = {}]
  /\ addressNonce' = [addressNonce EXCEPT ![r] = [a \in Address |-> Absent]]
  /\ addressCost' = [addressCost EXCEPT ![r] = [a \in Address |-> 0]]
  /\ addressCounter' = [addressCounter EXCEPT ![r] = [a \in Address |-> 0]]
  /\ undeliveredNum' = [undeliveredNum EXCEPT ![r] = 0]
  /\ deliveredHeight' = [deliveredHeight EXCEPT ![r] = chain[r]]
  /\ UNCHANGED <<netVars, agreeVars, diskVars, panicked>>

\* Mutant: what the core had delivered and the chain misses is not repeated.
StartWithoutPending(r) ==
  LET tip == MaxOf(coreTip[r], chain[r])
  IN
  /\ ~started[r]
  /\ started' = [started EXCEPT ![r] = TRUE]
  /\ coreTip' = [coreTip EXCEPT ![r] = tip]
  /\ coreConfirmed' = [coreConfirmed EXCEPT ![r] = tip]
  /\ confirmPos' = [confirmPos EXCEPT ![r] = tip]
  /\ deliverPos' = [deliverPos EXCEPT ![r] = tip]
  /\ UNCHANGED <<netVars, agreeVars, chain, appVars, panicked>>

\* syncConsensus: the core starts at the higher of its own tip and the chain.
\* Blocks it had delivered and the chain misses are confirmed and delivered
\* to the application again (deliverPendingBlocks).
StartConsensus(r) ==
  LET tip == MaxOf(coreTip[r], chain[r])
  IN
  /\ ~started[r]
  /\ started' = [started EXCEPT ![r] = TRUE]
  /\ coreTip' = [coreTip EXCEPT ![r] = tip]
  /\ coreConfirmed' = [coreConfirmed EXCEPT ![r] = tip]
  /\ confirmPos' = [confirmPos EXCEPT ![r] = chain[r]]
  /\ deliverPos' = [deliverPos EXCEPT ![r] = chain[r]]
  /\ UNCHANGED <<netVars, agreeVars, chain, appVars, panicked>>

----------------------------------------------------------------------------

Init ==
  /\ top = 0
  /\ decided = [h \in Height |-> EmptyBlock(0, 0)]
  /\ balance \in {[h \in Height |-> genesis] :
                    genesis \in [Address -> InitialBalances]}
  /\ nonce = [h \in Height |-> [a \in Address |-> 0]]
  /\ spent = [h \in Height |-> [a \in Address |-> 0]]
  /\ sends = [h \in Height |-> [a \in Address |-> 0]]
  /\ accepted = {}
  /\ prepared = {}
  /\ chain = [r \in Replica |-> 0]
  /\ coreTip = [r \in Replica |-> 0]
  /\ started = [r \in Replica |-> FALSE]
  /\ coreConfirmed = [r \in Replica |-> 0]
  /\ confirmPos = [r \in Replica |-> 0]
  /\ deliverPos = [r \in Replica |-> 0]
  /\ confirmedBlocks = [r \in Replica |-> {}]
  /\ addressNonce = [r \in Replica |-> [a \in Address |-> Absent]]
  /\ addressCost = [r \in Replica |-> [a \in Address |-> 0]]
  /\ addressCounter = [r \in Replica |-> [a \in Address |-> 0]]
  /\ undeliveredNum = [r \in Replica |-> 0]
  /\ deliveredHeight = [r \in Replica |-> 0]
  /\ panicked = [r \in Replica |-> FALSE]

Next ==
  \/ DecideAccepted
  \/ DecideEmpty
  \/ \E r \in Replica :
       \/ PreparePayload(r)
       \/ PrepareWitness(r)
       \/ AcceptBlock(r)
       \/ CoreConfirm(r)
       \/ CoreDeliver(r)
       \/ BlockConfirmed(r)
       \/ BlockDelivered(r)
       \/ InsertTangerineChain(r)
       \/ Restart(r)
       \/ StartConsensus(r)

Spec == Init /\ [][Next]_vars

\* Fairness: a stopped node starts its core again (the loop of syncConsensus
\* retries), the core learns every decision and its randomness (its messages
\* are gossiped and pulled until they arrive), and the event loop runs.
Fairness ==
  \A r \in Replica : /\ WF_vars(StartConsensus(r))
                     /\ WF_vars(CoreConfirm(r))
                     /\ WF_vars(CoreDeliver(r))
                     /\ WF_vars(BlockConfirmed(r))
                     /\ WF_vars(BlockDelivered(r))

LiveSpec == Spec /\ Fairness

----------------------------------------------------------------------------
(* Properties *)

\* Every variable has its type: the ledger is a natural number per height and
\* address, the maps of DexconApp hold nonces, costs and counts (app.go:52-58).
TypeOK ==
  /\ top \in Height
  /\ decided \in [Height -> Block]
  /\ balance \in [Height -> [Address -> Nat]]
  /\ nonce \in [Height -> [Address -> Nat]]
  /\ spent \in [Height -> [Address -> Nat]]
  /\ sends \in [Height -> [Address -> Nat]]
  /\ accepted \subseteq [block : Block, at : Height]
  /\ prepared \subseteq [by : Replica, ready : BOOLEAN, block : Block]
  /\ chain \in [Replica -> Height]
  /\ coreTip \in [Replica -> Height]
  /\ started \in [Replica -> BOOLEAN]
  /\ coreConfirmed \in [Replica -> Height]
  /\ confirmPos \in [Replica -> Height]
  /\ deliverPos \in [Replica -> Height]
  /\ confirmedBlocks \in [Replica -> SUBSET Height]
  /\ addressNonce \in [Replica -> [Address -> Nat \cup {Absent}]]
  /\ addressCost \in [Replica -> [Address -> Nat]]
  /\ addressCounter \in [Replica -> [Address -> Nat]]
  /\ undeliveredNum \in [Replica -> Nat]
  /\ deliveredHeight \in [Replica -> Height]
  /\ panicked \in [Replica -> BOOLEAN]

\* BlockConfirmed and BlockDelivered never reach one of their panics
\* (app.go:442, 491, 511): a block one replica accepted, judging it by the
\* state it had delivered and the costs it had reserved, is confirmed and
\* executes on every replica, however far behind or freshly restarted.
NoPanic == \A r \in Replica : ~panicked[r]

ReservedExactly(r) ==
  /\ confirmedBlocks[r] = (deliverPos[r] + 1)..confirmPos[r]
  /\ undeliveredNum[r] = confirmPos[r] - deliverPos[r]
  /\ \A a \in Address :
       /\ addressCost[r][a] = spent[confirmPos[r]][a] - spent[deliverPos[r]][a]
       /\ addressCounter[r][a] = sends[confirmPos[r]][a] - sends[deliverPos[r]][a]
       /\ addressNonce[r][a] =
            IF addressCounter[r][a] = 0 THEN Absent
                                        ELSE nonce[confirmPos[r]][a] - 1

\* The maps of DexconApp are exactly what the confirmed and undelivered
\* blocks amount to: the sum of their costs, the number of them an address
\* sends in, and the last nonce it uses there; no entry outlives its blocks.
ReservationsExact == \A r \in Replica : started[r] => ReservedExactly(r)

\* What a replica accepted at some delivered height, no replica that has
\* delivered at least as much calls invalid: charging undelivered blocks at
\* their full cost never promises more than their execution leaves.
AcceptedNeverInvalid ==
  \A c \in accepted, r \in Replica :
    deliveredHeight[r] >= c.at =>
      VerifyBlock(r, c.block) # "VerifyInvalidBlock"

\* A block an honest node prepared (PreparePayload, then PrepareWitness while
\* blocks are delivered in between) is not called invalid by a replica whose
\* application has delivered its whole chain: the witness makes a replica
\* that is behind the proposer answer VerifyRetryLater.
HonestBlockNeverInvalid ==
  \A p \in prepared, r \in Replica :
    p.ready /\ chain[r] = deliveredHeight[r] =>
      VerifyBlock(r, p.block) # "VerifyInvalidBlock"

RestartsEnd == <>[][\A r \in Replica : ~Restart(r)]_vars

\* Every decided block is executed on every replica once nodes stop
\* restarting, whatever a restart interrupted: between the core's tip reaching
\* the disk and BlockDelivered, deliverPendingBlocks closes the gap.
EveryBlockExecuted ==
  RestartsEnd =>
    \A r \in Replica, h \in Height : (top >= h) ~> (chain[r] >= h)

----------------------------------------------------------------------------
(* The inductive invariant behind the properties.  Sums over the blocks of   *)
(* a range are differences of `spent' and `sends', so no part of it speaks   *)
(* of a sum.                                                                 *)

\* Decided blocks extend the ledger one after the other and execute.
LedgerExtends ==
  /\ decided[0].witness = 0
  /\ \A h \in Height : 0 < h /\ h <= top =>
       /\ decided[h].wellFormed
       /\ decided[h].witnessData = "hash"
       /\ decided[h].witness < h
       /\ Executes(h)
       /\ \A a \in Address :
            /\ nonce[h][a] = nonce[h - 1][a] + decided[h].payload[a].n
            /\ spent[h][a] = spent[h - 1][a] + decided[h].payload[a].cost
            /\ sends[h][a] = sends[h - 1][a]
                 + (IF a \in Senders(decided[h].payload) THEN 1 ELSE 0)

\* From height i to height j an address pays no more than it offered, and its
\* nonce moves exactly when it sends.
Between(i, j) ==
  \A a \in Address :
    /\ balance[i][a] + spent[i][a] <= balance[j][a] + spent[j][a]
    /\ spent[i][a] <= spent[j][a]
    /\ sends[i][a] <= sends[j][a]
    /\ nonce[i][a] <= nonce[j][a]
    /\ IF sends[i][a] = sends[j][a]
       THEN spent[i][a] = spent[j][a] /\ nonce[i][a] = nonce[j][a]
       ELSE nonce[i][a] < nonce[j][a]

LedgerMonotone ==
  \A i, j \in Height : i <= j /\ j <= top => Between(i, j)

\* The payload fits the ledger after height h when it is judged with only the
\* blocks up to height i executed and the others charged at full cost.
Fits(payload, i, h) ==
  \A a \in Senders(payload) :
    /\ payload[a].first = nonce[h][a]
    /\ payload[a].cost <= balance[i][a] - (spent[h][a] - spent[i][a])

AcceptedFits ==
  \A c \in accepted :
    /\ c.block.height = top + 1
    /\ c.block.wellFormed
    /\ c.block.witnessData = "hash"
    /\ c.block.witness <= top
    /\ c.at <= top
    /\ Fits(c.block.payload, c.at, top)

PreparedFits ==
  \A p \in prepared :
    /\ p.block.wellFormed
    /\ p.block.witnessData = "hash"
    /\ p.block.height - 1 \in Height
    /\ p.block.height - 1 <= top
    /\ \E i \in Height :
         /\ i <= chain[p.by]
         /\ i <= p.block.height - 1
         /\ p.ready => i <= p.block.witness
         /\ Fits(p.block.payload, i, p.block.height - 1)

\* How far the parts of a replica have got.  deliveredHeight is behind
\* deliverPos when the chain was synchronised after NewDexconApp read it.
PositionsOf(r) ==
  /\ chain[r] <= top /\ coreTip[r] <= top /\ coreConfirmed[r] <= top
  /\ IF started[r]
     THEN /\ deliveredHeight[r] <= deliverPos[r]
          /\ deliverPos[r] <= confirmPos[r]
          /\ confirmPos[r] <= coreConfirmed[r]
          /\ deliverPos[r] <= coreTip[r]
          /\ coreTip[r] <= coreConfirmed[r]
          /\ deliverPos[r] <= chain[r]
     ELSE /\ deliveredHeight[r] <= chain[r]
          /\ confirmedBlocks[r] = {}
          /\ undeliveredNum[r] = 0
          /\ \A a \in Address : /\ addressCost[r][a] = 0
                                /\ addressCounter[r][a] = 0
                                /\ addressNonce[r][a] = Absent

Positions == \A r \in Replica : PositionsOf(r)

\* All of the above, with the properties it supports.
IInv ==
  /\ TypeOK
  /\ NoPanic
  /\ LedgerExtends
  /\ LedgerMonotone
  /\ AcceptedFits
  /\ PreparedFits
  /\ Positions
  /\ ReservationsExact

=============================================================================
