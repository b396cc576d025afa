# Verification of go-tangerine

TLA+ models of the parts of go-tangerine that its consensus rests on, the TLC
configurations that check them on small instances, and proofs, checked by
TLAPS, of the main safety properties for all values of the constants.

Tangerine is a fork of go-ethereum. Proof of work is replaced by the Tangerine
consensus core (`vendor/github.com/tangerine-network/tangerine-consensus`), and
node registration, stakes, key generation and configuration live in a built-in
contract. Paths below are relative to the source tree; the vendored core is
written `core:`.

## 1. Inventory

| Part | State | Operations | What makes it hard |
|---|---|---|---|
| Application (`dex/app.go`) | confirmed blocks, and per sender the reserved nonce, cost and block count; delivered height | PreparePayload, PrepareWitness, VerifyBlock, BlockConfirmed, BlockDelivered | replicas confirm and deliver at different speeds; restarts; the downloader moves the chain under it; any inconsistency is a panic |
| Block chain (`core/blockchain.go`) | blocks, canonical hashes, head, states on disk and in memory, round heights | ProcessBlock, ProcessEmptyBlock, InsertTangerineChain, WriteBlockWithState, Stop, loadLastState | two importers under one lock that is released in between; a crash between any two writes; states that are garbage-collected |
| Governance: registry (`core/vm/oracle_contracts.go`) | node array, two offset maps, stakes, fines, totalStaked, notarySetSize | register, stake, unstake, withdraw, payFine, report, transferNodeOwnership, replaceNodePublicKey, updateConfiguration | redundant state kept by hand over long sequences of calls |
| Governance: DKG and CRS (same file) | round, reset count, master keys, complaints, ready/final/success flags and counts | addDKG*, proposeCRS, resetDKG | flags keyed by address outlive the set they belong to |
| Core message cache (`dex/cache.go`) | votes by position, blocks by hash and by position | addVote, addBlock(s), addFinalizedBlock | concurrent handlers, eviction, an object changed outside the lock |
| Peer set (`dex/peer.go`, `dex/handler.go`) | peers, labels, direct connections | Register, Unregister, BuildConnection, ForgetConnection | two indexes of the same relation |
| Block proposer and syncer (`dex/blockproposer.go`, `core:syncer`) | running, syncing, the core's blocks | Start, Stop, syncConsensus, ForceSync | stop while starting; synced and live blocks overlap |
| Agreement (`core:agreement*.go`) | votes, lock, period, candidate blocks | vote handling, state machine, fast-forward | asynchronous Byzantine agreement |
| Core delivery (`core:blockchain.go`, `core:consensus.go`) | pending blocks, last confirmed and delivered | addBlock, addAgreementResult, extractBlocks, deliverBlock | out-of-order results |
| Engine (`consensus/dexcon`) | supply, mining velocity, halving | Finalize | rewards computed from several contract fields |
| Recovery (`dex/recovery.go`), transaction sync (`dex/sync.go`), governance transactions (`dex/governance.go`) | small | | remote service; nonces taken without a lock |

`PROJECT.json` lists every part with its status, the hazards with their lines,
and the code each definition models.

How they interact: the core asks the application for payloads and verdicts,
then reports confirmed and delivered blocks to it. A delivered block is executed
by the block chain, whose engine and contract update the governance state. The
core reads that state, some rounds later, as its configuration. The downloader
imports blocks into the same chain; when a node is behind, the block proposer
feeds those to the core until it is synchronised.

## 2. Modules

| Module | Models | Runs | Proofs |
|---|---|---|---|
| `DexconApp` | the application on several replicas | `app_network`, `app_deep` | `DexconApp_proofs` |
| `Agreement` | the Byzantine agreement on the block of a position | `agreement` | `Agreement_proofs` |
| `OneBlock` | what the agreement promises, which `Agreement` implements | `agreement` | `Agreement_proofs` |
| `CoreNode` | the core of one node around the agreement: confirming, pulling and delivering blocks, moving from position to position | `core`, `core_wedge` | `CoreNode_proofs` |
| `TangerineChain` | the block chain of one node | `chain`, `chain_reimport` | `TangerineChain_proofs` |
| `NodeRegistry` | registry and stakes of the contract | `registry` | `NodeRegistry_proofs` |
| `StakeBook` | what the registry promises, which `NodeRegistry` implements | `registry` | `NodeRegistry_proofs` |
| `GovernanceDKG` | the key generation (DKG) of one round: the contract's records and the nodes that feed them | `dkg`, `dkg_skip` | `GovernanceDKG_proofs` |
| `MessageCache` | the cache of core messages and its handlers | `cache` | `MessageCache_proofs` |
| `NodeStop` | how a node that proposes blocks comes down | `node_stop` | `NodeStop_proofs` |

`MC*` modules hold the constants of the instances. A definition whose comment
calls it a mutant, or that is named after an error (`AddBlockUnchecked`,
`CanUnstakeFined`, ...), is a wrong version of the definition after it: no
specification uses it. Each property is known to fail when such a version takes
the place of the right one.

### DexconApp

Per replica the module has the fields of `DexconApp` (`confirmedBlocks`,
`addressNonce`, `addressCost`, `addressCounter`, `undeliveredNum`,
`deliveredHeight`), the positions of the core and its event loop, the height of
the chain and the core's tip on disk. Once for the network it has the decided
blocks and the ledger they produce, since execution is deterministic.

* `PreparePayload`, `PrepareWitness`, `BlockConfirmed` and `BlockDelivered` are
  the callbacks of the same names; `VerifyBlock` is the verdict operator that
  `AcceptBlock` uses.
* `DecideAccepted` and `DecideEmpty` are the agreement: one block per height,
  accepted by some replica or empty. `CoreConfirm` and `CoreDeliver` are the
  core; the latter writes the tip before the application hears of the block.
* `InsertTangerineChain` is the downloader, `Restart` a stop or crash, and
  `StartConsensus` what `syncConsensus` leaves behind.

Abstractions. A payload is, per sender, its first nonce, its number of
transactions and their total cost. What execution pays to an account beyond the
offered costs is an arbitrary gain. Blocks of the core's database that a restart
left undelivered are delivered again by the ordinary steps, which allows more
interleavings than the synchronous `deliverPendingBlocks`. `Confirmable` asks
for a well-formed payload, which is more than `addConfirmedBlock` checks; a
panic is found at least as often. `VerifyBlock` also calls a block invalid when
the state of its witness has been pruned: the model assumes it has not.

### TangerineChain

The disk (`blocks`, `canon`, `diskHead`, `diskStates`) and the memory (`head`,
`memStates`, `roundHeight`) of one node, the core's next delivery, the stack of
`insertTangerineChain` calls, and how far `WriteBlockWithState` has got. Each
write to the database is a step, and `Crash` can come between any two.
`ProcessFails` is the panic of `BlockDelivered` when a block cannot be
processed. `Outcome` is the decision of the import loop for a block: skip,
store, import pruned ancestors, execute, or fail.

A block is its height, because the network decides one block per height. One
import runs at a time, as in the downloader.

### NodeRegistry and StakeBook

The state variables are the contract's storage slots of the same names, the
balances and the block time. An action is a call that succeeds, since the EVM
reverts one that fails. Offsets are stored plus one, with 0 for absent, as in the
contract. `fines` and `surplus` are histories for properties.

`updateConfiguration` changes the three settings the registry reads (minStake,
lockupPeriod, the fine); all kinds of fine have one value. The foundation owns no
node. `SetSize` is the integer form of the formula for fewer than 80 nodes.

`StakeBook` is the promise: a set of nodes with at most one for an owner and one
for a key. A call takes the node of its caller and replaces, adds or removes it, a
report takes the node that signed, and a withdrawal is paid without any condition
on what the contract holds. It has no array, no offsets and no stored totals.
`KeepsBook` is its specification under the mapping of `NodeRegistry`
(`Book == INSTANCE StakeBook WITH ...`): the book is the set of elements of the
array, `held` the balance of the contract, `fined` the fine records.

### GovernanceDKG

In round `Round` the notary set of the next round generates its threshold key
by transactions to the contract. The contract's side is `dkgRound`,
`resetCount`, `crs` and `dkg` (master public keys, complaints, a flag per node
and a counter for each of ready, final and success). The core's side is which
nodes are in the phases of `runDKG`, which returned at once, and the signer each
holds, with the attempt and the qualified nodes it was computed from.

* `ProposeCRS`, `ResetDKG`, `AddDKGMasterPublicKey`, `AddDKGMPKReady`,
  `AddDKGComplaint`, `AddDKGFinalize` and `AddDKGSuccess` are the handlers of
  the contract; `ClearDKG` is `clearDKG`, which zeroes the counters and clears
  the flags of a recomputed notary set.
* `RunDKG` and `RunDKGPhaseNine` are the node: the early return when a signer is found,
  and the computation of the group key.

A node's transactions execute in the order of their nonces; each may be delayed,
past a reset too, or never execute. A polynomial share is valid, invalid or
missing. The constants give the notary set of each attempt, since which nodes
a CRS draws is not the contract's choice. Nodes do not restart.

### MessageCache

The two vote structures with their counter, and the two block maps. A block is
its hash and whether it has its randomness. An operation on the block maps is a
set of outcomes, since a full Go map loses a random entry. The handler of an
agreement result is three steps, `LookUp`, `SetRandomness` and
`AddFinalizedBlock`, because the lock is not held between them. The middle one
writes to the cached object or, if that was replaced in the meantime, to one
nobody sees: both are allowed at any time. `LookUp` needs no open gate because
the node's own results pass none. What the handlers forward to the core and to
peers is left out.

### Agreement and OneBlock

The members of a notary set at one position. Per member: `state` (the
`agreementState`), `period`, `lockValue`, `lockIter`, `hasVoteFast`, `output`
(the hash given to `ConfirmBlock`), the `fastForward` channel and the leader
selector's `minBlockHash`; `votes` is what each has proposed.

* `FastVoteState`, `PreCommitState`, `CommitState` and `Done` are `nextState` and
  `done()`, driven by the ticker of `baRoutineForOneRound`. `fastState` and
  `initialState` take no time and are part of their neighbours; forward and
  pull-vote states change nothing.
* `VoteFast` is `processBlock` of the leader's block with the goroutine it starts.
  `ProcessFast`, `ProcessFastCom`, `ProcessCom`, `ProcessPreCom` and
  `ProcessUndecided` are `processVote` of the vote that completes a quorum, by
  type; `ProcessAgreementResult` is the output of another member.
* `Crash` ends a member for the position.

A vote may be delayed at will, so which votes a member has counted is chosen when
a count matters: a member may act on any quorum there is, and need not. The
exception is time. The parameter lambdaBA is chosen such that votes arrive
before the next tick; `setting.late` is the set of the types of votes for which
this fails, and a tick waits until every running member has acted on the quorums
of the others. `Prompt` says that the votes that lock, Fast and PreCom, are not
late. Members do not lie: forged votes, signatures and the vote filter are out
of the model. A member that restarts in the middle of a position has forgotten
its votes and lock; the model's crashes are permanent.

`OneBlock` is the promise: a member confirms at most once, and those that confirm
a block confirm the same one. The empty block is outside it, because with late
Com votes a member may confirm a block that another one, locked on the empty
block, never votes for; `EmptyAgreement` covers it when Com votes are in time.

### CoreNode

One node: `bc` (the core's chain: tip, delivered, pending blocks and
randomnesses), `agr` (position, output, candidate blocks of the agreement), the
message loop, `touched` (`processedBAResult`), `pull` (`baConfirmedBlock`),
`queue` (`processBlockChan`), `notary` (`restartNotary`), the call of
`ConfirmBlock` in progress and the agreement's loop. The network decides every
height; messages about a height come in any order, late or never.

* `ReceiveBlock`, `ReceiveVotes`, `ReceiveResult` with `ProcessResult`,
  `ReceiveFinalizedBlock` and `ReceivePulledBlock` are `processMsg` by message.
* `ConfirmBlock` and `ConfirmEmpty` are the first part of
  `consensusBAReceiver.ConfirmBlock`, `CleanChannel` and `SendPosition` the rest.
  They are apart because the agreement's loop runs in between; the agreement's
  lock is held throughout (`Unlocked`). `AddCandidate` and `ConfirmPulled` are
  the goroutine of an unknown block, `ProcessBlock` the block loop.
* `runBA`, `CheckConfirmed`, `WaitPosition`, `PollPosition`, `NextState`,
  `FinishRound`, `IgnoreOlder`, `NextBlock` and `RestartBA` are the agreement's
  loop between its lock and channel operations.

A block is its height, as the agreement decides one per position. Both rounds
have block randomness, and the node is in the notary set of both.

### NodeStop

The goroutines that `Tangerine.Stop` waits for: per peer the sub-protocol's Run,
`handle` and the messages for the core; the channel `receiveCh`; the core that
reads it, which may get stuck or be cancelled; the delivery guard; the block
proposer; the two loops of the bloom indexer. `Tangerine.Stop` has two callers,
the node and the block proposer, each with its own program counter. Core
messages are being received from the start, that is, the synchronisation has
come that far.

## 3. Runs

Distinct states are given for orientation.

| Run | Instance | Checks | Shows |
|---|---|---|---|
| `app_network` | 2 replicas, 1 sender who can pay for one block or two, 2 heights (1,388,984) | NoPanic, ReservationsExact, AcceptedNeverInvalid, HonestBlockNeverInvalid | replicas at different speeds, with restarts and synchronisation, neither panic nor disagree about an accepted block, nor about an honest proposal |
| `app_deep` | 1 replica, 3 heights, fair (69,534) | IInv, EveryBlockExecuted | the inductive invariant of the proofs holds with three blocks in flight; every decided block is executed once restarts end |
| `chain` | full and archive node, 5 heights, imports up to 2 or 5 ahead of the core, 1 stop, 2 crashes, fair (99,743) | ChainContiguous, HeadStateAvailable, RoundHeightsRight, HeadDurable, StateForCore, OrderlyInserts, EveryBlockInserted, HeadCatchesUp | what a crash leaves can always be started from; without a crash no head is lost, no delivery lacks its state and every imported block becomes the head; an archive node gets every block in |
| `chain_reimport` | one crash | InsertedIsHead | violated: see Findings |
| `registry` | 2 addresses, 3 keys, amounts 0 and 1 (503,428) | OffsetsExact, NotarySetSizeCurrent, StakesAccounted, FinedOncePerConflict, FinedNodesLocked, KeepsBook | the redundant state of the registry stays right; no stake is lost, created or fined twice; `StakeBook` is implemented |
| `dkg` | 5 nodes, a notary set of 4 that a reset changes in one member, two nodes whose shares may be bad or missing, 1 reset (176,654) | CountsExact, OneAttempt, SuccessMeansKey, ValidStays | counters match flags, no record of another attempt gets in, a reported success is of the contract's key, a valid DKG stays valid |
| `dkg_skip` | the same | SkipsWithItsSigner | violated: see Findings |
| `cache` | 4 votes, 3 blocks, size 2, 2 handlers (80,192) | VotesAccounted, BlocksBounded, FinalizedServed | counter, list and map agree; a finalized block is not replaced by an unfinished copy |
| `agreement` | 4 members, quorum 3; two periods, or one with a crash, without a leader's block; one period with it; one with it and late deciding votes; one without it and late PreCom votes (210,746) | NoForkVote, BlockAgreement, EmptyAgreement, NeverStuck, IInv, Refines | no fork vote, one block, no common wait, `OneBlock` is implemented; the invariant of the proofs |
| `core` | 3 heights, the third of a new round, the first two possibly empty, channel of 2, fair (391,640) | PendingBeyondTip, GapsPulled, BlockedAtRoundStart, AgreementForward, CatchUp | out-of-order blocks neither panic nor leave a gap nobody fills; the agreement only moves forward; a node that hears of the last height delivers every block |
| `core_wedge` | the same, one empty block | NeverStuck | violated: see Findings |
| `node_stop` | 2 peers, channel of 1, batches of 2, fair (28,640) | HandlersDown, StopEnds | no handler runs after the wait for the peers; Stop ends, but for two named waits |

Why the bounds are enough to be interesting. In `DexconApp` two heights put two
blocks of one sender in flight on one replica while the other has executed none;
three heights let a reservation outlive the first of several. In
`TangerineChain` `TriesInMemory` is 3 (128 in the code), so five blocks pass the
garbage collector, with a round change and an empty block on the way. In the
registry the removal of the first of two nodes moves the second, whose owner and
key then change, and time runs past one lockup period; the theorems have no bound
on nodes. In the DKG four nodes are the least with a
threshold (3) that one can miss, and one reset lets every kind of transaction
arrive too late. Unpaid fines are limited to one unit per node.
The caches overflow several times. In the agreement four members are the least
with a quorum that survives one crash; two blocks and the empty one give a
member something to be wrong about, and the second period (3; the code counts
from 2) is the first entered by fast-forward. The theorems have no bound on
members, blocks, periods or crashes. In `CoreNode` three heights let a block
be two above the tip, with a change of rounds and empty blocks on either side of
the gap, and a channel of two fills. In `NodeStop` a batch larger than the
channel blocks its handler, and two peers and two callers race. `SYMMETRY` is used in safety runs only.

`StateForCore` holds of a full node while imports are at most `TriesInMemory - 1`
blocks ahead of the core (`Orderly`). The code does not enforce this: beyond it
the garbage collector takes the state the core needs, and `BlockDelivered`
panics. `chain` includes imports five blocks ahead, and that panic.

Fairness. `DexconApp`: weak fairness of the core's steps (its messages are
gossiped and pulled until they arrive), of the event loop, and of starting the
consensus, which the block proposer retries; the property assumes that restarts
end. `TangerineChain`: weak fairness of a write in progress, of the import loop
and of a restart; strong fairness of a delivery, because the Go mutex it waits
for is granted in turn, although the import loop takes it again and again.
`CoreNode`: weak fairness of the goroutines, of pulled blocks, which are asked
for every second, and of the result of the last height, which every member of
the notary set broadcasts; nothing obliges votes, proposals or other results to
come. It is stated as one disjunction, `Work`, whose enabling condition is
written out (`WorkToDo`), so that TLC need not search for it; one fair
disjunction is less than fairness of each goroutine. `NodeStop`: weak fairness of the
goroutines and of the guard's timer when the message loop is stuck, strong fairness
of a blocked send, since a channel serves its senders in order; peers and the
operator need not do anything.

## 4. Proofs

All proofs are for arbitrary constants that satisfy the named assumptions.

**DexconApp.** Assumptions: `ReplicaAssumption` (there is a replica) and
`BoundsAssumption` (the bounds are natural numbers). `NoPanic` is not inductive:
whether a block executes depends on what the accepting replica had reserved.
`IInv` adds the following.

* The ledger: decided blocks extend one another and execute (`LedgerExtends`).
  From one height to a later one, balance plus total offered cost never falls
  (`LedgerMonotone`): charging undelivered blocks at full cost promises no more
  than their execution leaves.
* The blocks not yet decided fit the ledger (`AcceptedFits`, `PreparedFits`).
* Per replica, the order of the positions of core, application and chain
  (`Positions`) and the exact reservations (`ReservationsExact`).

Sums over a range of blocks are differences of the histories `spent` and
`sends`, so no induction over data is needed. The module treats the proposals, the
steps of a replica and a decision in turn, and combines them into `Invariance`,
`TypeCorrect`, `NeverPanics`, `ExactReservations`, `AcceptedStaysValid` and
`HonestProposalsValid`.

**NodeRegistry.** Assumption: `RegistryAssumption` (genesis nodes have distinct
owners and keys and a stake; amounts and settings are numbers).

* `RegistryOffsets`: `RegistryInv`, the types of the array, of both maps and of
  the time together with `OffsetsExact`, is inductive. Lemmas about one map and
  one sequence of ids (`ExactPush`, `ExactMove`, `ExactRemove`, `ExactInit`)
  are used for owners and for keys.
* `NotarySetSizeFresh`: every call that writes a node or minStake recomputes it.
* `FinesUnique`: `fines` is the characteristic function of `fineRecords`.
* `FinedLocked`: a step property, from `RegistryInv`.
* `RegistryStakes`: the books balance, that is `StakesAccounted`. The sum over the
  array is a recursive function (`Total`). What it does when one element changes,
  is appended or is taken out (`UpdateSums`, `PushSums`, `RemoveSums`) is proved by
  the principle of the least number: a smallest index at which two sums disagree
  would have a predecessor at which they agree (`LeastNatural`, `TotalSame`,
  `TotalChange`). `AccountInv` joins the balance to `RegistryInv`, because a step
  is only balanced if it writes the node it has read.
* `RegistryWithdrawals`: each node's `Unstaked` is at most what the contract holds,
  since a sum of natural numbers is no less than any of them. The guard
  `contractBalance >= node.Unstaked`, which stands for the EVM's transfer, therefore
  never stops a withdrawal.
* `RegistryKeepsBook`: the refinement. A write at the offset found in a map
  replaces one element of the set and no other, because owners and keys are
  distinct (`UpdateBook`, `PushBook`, `RemoveBook`); the entries 0 of the maps are
  the free addresses and keys (`FreeIds`). `StakeBook` pays a withdrawal without the
  guard of the transfer; that the guard loses none is `RegistryWithdrawals`.

**Agreement.** Assumption: `AgreementAssumption` (finitely many members, no more
than the configured size, hashes distinct from the special ones). `IInv` consists
of the following.

* A member's votes are of the periods and states it has been in (`VotedSoFar`),
  which gives `NoForkVote`.
* A lock has its quorum (`LockBacked`), and so has an output (`OutputBacked`).
* Once somebody has voted Com for a block, every running member is locked on it
  and no other quorum could still turn a lock (`ComSafe`): the voter was ticked,
  so all had acted on the quorums there were, and two quorums of a period share
  a member, who votes once.
* The FastCom votes keep every lock on the leader's block, or a quorum of members
  has not cast them and never will (`FastSafe`).
* The empty block has its quorums too, and when Com votes are in time only one
  value ever has a quorum of them: it stops every ticker, and without a tick
  there is no further Com vote (`EmptySafe`).

That quorums meet is proved from their size (`Intersect`, `QuorumsMeet`).
The module goes from quorums, types and what a step may change to the votes, the
locks, the fast path and the empty block, and ends with the theorems `Invariance`,
`NeverFined`, `Safety`, `NoEmptyFork` and `Implements`. The last is the refinement,
with the outputs as what `OneBlock` calls confirmed: under `Prompt` every step is a
step of `OneBlock` or leaves it alone.

**TangerineChain.** Assumption: `BoundsAssumption`. It asks for `TriesInMemory`
of at least 3 (the code has 128): after a crash a node may write the block two
above its head, and the collector must then leave the head's state. None of the properties is inductive alone, since a
step of `WriteBlockWithState` relies on what its earlier steps have written.
`IInv` adds the following.

* Disk, at all times (`DiskInv`): the canonical numbers are the blocks up to the
  head or one further, and an archive node has their states.
* The write in progress, step by step (`WritingInv`): its parent is canonical
  and has its state; from the canonical hash on so has the block itself.
* Memory, while the node runs (`MemoryInv`): between the head in memory and the
  head on disk no block has a state, which is what makes `repair` stop at the
  right one; the core and every call on the stack of imports are at blocks whose
  predecessors are canonical.
* A node that was not cut short (`OrderlyInv`) has every state from the core's
  block up to its head.

`RoundsInv` adds what `roundHeightMap` holds for the rounds still in use. There
is one lemma per action. The facts about rounds and about `repair` (least and
greatest elements of sets of heights) are separate lemmas at the end. Theorems:
`ChainStaysContiguous`, `HeadHasState`, `HeadIsDurable`, `CoreFindsItsState`,
`InsertsBecomeHead` and `RoundHeightsStayRight`, for any number of heights,
rounds, stops and crashes and any nesting of imports.

**GovernanceDKG.** Assumption: `SetsAssumption` (finitely many nodes, notary sets
no larger than configured, positive sizes). `IInv` has three parts besides the
types: the counters count the flags (`Flags`), records are of the attempt at work
(`Dated`), and `KeysInv`, which ties the nodes to the contract. The last is needed
because a signer is computed from records that could change later: a signer of
this attempt exists only after the DKG is final, when keys and complaints are
closed, so its qualified nodes are still those of the records. Theorems:
`CountsStayExact`, `RecordsOfOneAttempt`, `SuccessIsOfTheKey` and the action
property `ValidDKGStays`. The last two suppose that the notary set does not
shrink; see Findings.

**MessageCache.** Assumption: `CacheAssumption` (the size is positive).
`VotesInv` files each vote under its position, so that dropping the oldest
position takes exactly its votes off the counter; finiteness of the cached votes
is part of it, for the set of possible votes need not be finite. `BlocksInv`
(`CacheOK`) adds to the bounds that the finalized block of a position is of that
position. It is proved of the outcomes of one operation on the two maps, and
then of lists of operations by what each leaves. Theorems: `VotesStayAccounted`,
`BlocksStayBounded` and `FinalizedStaysServed`, for any number of messages and
handlers.

**CoreNode.** Assumption: `HeightsAssumption` (the second round starts at height 2
or later, the block channel has room for at least one block). `CoreInv` consists
of the following besides the types.

* `Sound`: what waits is beyond the next height, and no more is delivered than
  confirmed. It is proved of the operators on the chain, one lemma each.
  `checkIfBlocksConfirmed` confirms up to the last pending height without a gap
  (`LastOf`); that there is one is again the principle of the least number.
* `Gaps` (`GapsPulled`), and why it stays true: a queued block fits, that is, its
  parent is covered and its randomness is on hand or announced (`Queued`); what was
  pulled or is waited for was asked for by votes or by a result (`Pulled`,
  `Waited`), and so was what the message loop is about to confirm (`Syncing`).
  Without these `ProcessBlock` could make a block pending whose parent nobody knows.
* `BlockedAtRoundStart`.

`StepKeeps` says once what a step has to show for `CoreInv`: it forgets nothing
confirmed, loses no work in flight, and whatever it adds has its reason. Theorems:
`CoreNodePendingBeyondTip`, `CoreNodeGapsPulled`, `CoreNodeBlockedAtRoundStart` and
the action property `CoreNodeAgreementForward`, for any number of heights, any empty
ones and any capacity of the block channel.

**NodeStop.** Assumption: `SizesAssumption` (channel and batches hold at least one
message). `StopInv` adds to `HandlersDown` that a caller that waits for the peers has
closed their set (`Closed`). A closed set takes no peer, so no handler starts behind
the back of the wait. Theorem: `StopHandlersDown`, for any number of peers and any
size of the channel and of the batches.

TLC has also checked the inductive invariants on the instances of section 3.

**Only model-checked.** Liveness under fairness (`EveryBlockExecuted`,
`EveryBlockInserted`, `HeadCatchesUp`, `CatchUp`, `StopEnds`), and `NeverStuck` of
`Agreement`, which is about enabled steps: both are out of the prover's reach. Every
safety property of the passing runs but that one has a theorem.

## 5. Findings

* `chain_reimport`: `insert` writes the canonical hash and the head hash
  separately, and `repair` moves only the head, so that after an unclean stop
  canonical numbers above the head can remain. `InsertTangerineChain` executes
  such a block and goes past it without making it the head, although the comment
  at `core/blockchain.go:1560` says it should be reimported. For an archive node
  `HeadCatchesUp` shows that the head catches up with the next block. A full
  node can come to import the pruned ancestors of a block in this way, which
  stores none of their states, so that the import fails.
* `dkg_skip`: `runDKG` asks whether the "corresponding DKG signer is ready"
  (`core:configuration-chain.go:445`), but looks it up by round only. A node that
  finished an attempt which was then reset, because too few others did, finds
  its old signer and takes no part in the new attempt.
* `core_wedge`: `ConfirmBlock` cleans `restartNotary` "so BA will not stuck by
  deadlock" (`core:consensus.go:375`) and then sends to it with the agreement's
  lock held. A node that fast-syncs over a change of rounds has `runBA` put the
  start of the new round into the channel in between; the send blocks, and the
  loop that would read waits for the lock. `BlockedAtRoundStart` shows that a
  round start is the only occasion. The delivery guard then ends the process
  after a minute.

Further things the models show, which contradict no statement of the
repository and are conditions of the properties instead:

* `GapsPulled` has an exception: an empty block learned from an agreement result
  is pulled and confirmed by its hash, but never queued
  (`core:consensus.go:372`), and a goroutine that wanted it as a parent has given
  up. The blocks above stay pending until the delivery guard ends the process.
  `CatchUp` is therefore stated for heights without an empty block.
* `StopEnds` has two: a handler blocked in `sendCoreMsg` on a full channel after
  the core is stuck or cancelled is waited for for ever (`dex/handler.go:343`), and
  two calls of Stop that meet in `ChainIndexer.Close` wait for each other. The
  restart that the delivery guard is for then does not happen.
* `SuccessMeansKey` and `ValidStays` need a notary set that does not shrink: the
  contract compares the finals with a threshold of the current round's size
  before it closes the complaints, and the nodes with one of the next round's.
  With a growing set `proposeCRS` can revert for want of master public keys,
  which only a reset mends.
* `BlockAgreement` needs the votes that lock to be in time (`Prompt`), and
  `EmptyAgreement` the Com votes; nothing else need be.

## 6. Not modelled

Fast sync, `SetHead`, `futureBlocks` and the Ethereum `insertChain` of the block
chain; `updateNodeInfo`, `transferOwnership`, the whitelist and the set-size
formula from 80 nodes in the contract; Byzantine members, the vote filter and
restarted members in the agreement; round resets, the rounds before block
randomness and proposals in the core; the polynomials and signatures of the DKG
and its recovery after a restart; the syncer and its watch cat.
Data races on Go maps (`core:blockchain.go:328`) are left out: what they do beyond
ending the process cannot be told from the source. The other parts, and why, are
in `PROJECT.json`: mainly code of go-ethereum that Tangerine does not change, and
input and output.

## 7. Plan

In order of importance:

1. `CoreNode` shown to implement the `CoreConfirm` and `CoreDeliver` steps that
   `DexconApp` takes as given.
2. `Ledger`: an abstract specification (an append-only list executed by every
   replica in order) that `DexconApp` is shown to implement, in TLC and TLAPS.
3. `PeerSet`: labels and direct connections as inverse indexes.
4. `DexconFinalize`: reward and halving as functions against a reference.
5. The whitelist, the DKG cache, `txsyncLoop`, and `sendGovTx`'s nonces.
