--------------------------- MODULE TangerineChain ---------------------------
(***************************************************************************)
(* The block chain of one node: blocks, canonical numbers, head and states *)
(* on disk, states in memory, and what survives a crash at every write.    *)
(* Models the Tangerine part of core/blockchain.go: ProcessBlock and       *)
(* ProcessEmptyBlock (blocks the consensus core delivers),                 *)
(* InsertTangerineChain (blocks a peer sends), WriteBlockWithState, Stop,  *)
(* and loadLastState with repair.                                          *)
(*                                                                         *)
(* The network agrees on one block per height and execution is             *)
(* deterministic, so a block, its hash and its state are its height.       *)
(***************************************************************************)
EXTENDS Integers, FiniteSets, Sequences

CONSTANTS
  MaxHeight,      \* bound: the network's last block
  RoundStart,     \* heights of the first blocks of rounds 1, 2, ...
  EmptyBlocks,    \* heights of the blocks without a proposer
  Witness,        \* the height the witness of each block names
  TriesInMemory,  \* triesInMemory (128 in the code)
  Modes,          \* values of cacheConfig.Disabled: TRUE is an archive node
  Leads,          \* bounds: blocks imported ahead of the core's deliveries
  MaxStops,       \* bound: orderly stops
  MaxCrashes      \* bound: crashes

Height == 0..MaxHeight

ASSUME BoundsAssumption ==
  /\ MaxHeight \in Nat /\ Leads \subseteq Nat
  /\ MaxStops \in Nat /\ MaxCrashes \in Nat
  /\ TriesInMemory \in Nat \ 0..2
  /\ Modes \subseteq BOOLEAN
  /\ RoundStart \subseteq Height \ {0}
  /\ EmptyBlocks \subseteq Height \ {0}
  /\ Witness \in [Height -> Height]
  /\ \A n \in Height \ {0} : Witness[n] < n

VARIABLES
  archive,     \* how the node is configured
  lead,        \* how far the peers' blocks may be ahead of the core
  \* on disk
  blocks,      \* heights whose block is written
  canon,       \* heights with a canonical hash
  diskHead,    \* the head block hash
  diskStates,  \* heights whose state is on disk
  \* in memory
  running,
  head,        \* currentBlock
  memStates,   \* states referenced in the trie database only
  roundHeight, \* roundHeightMap
  next,        \* the next block the core delivers
  imports,     \* the calls of insertTangerineChain, the innermost last
  writing,     \* how far WriteBlockWithState has got, of which block
  stops, crashes

diskVars == <<blocks, canon, diskHead, diskStates>>
config == <<archive, lead>>
vars == <<config, diskVars, running, head, memStates, roundHeight, next,
          imports, writing, stops, crashes>>

----------------------------------------------------------------------------
(* Reading the database *)

Round(n)   == Cardinality({s \in RoundStart : s <= n})
Rounds     == 0..Cardinality(RoundStart)
StartOf(r) == CHOOSE n \in Height : Round(n) = r /\ \A m \in Height :
                                      Round(m) = r => n <= m
Unknown    == -1

HasState(n) == n \in memStates \cup diskStates
HasBlockAndState(n) == n \in blocks /\ HasState(n)

NoWrite == [height |-> 0, step |-> "none"]
Idle    == running /\ writing = NoWrite

\* chainmu: insertTangerineChain holds it, except around its call to itself.
Current       == imports[Len(imports)]
Caller        == imports[Len(imports) - 1]
ChainUnlocked == Idle /\ (imports # <<>> => ~Current.locked)

\* The round's height is the first block processed of it.
RecordRound(n) ==
  IF roundHeight[Round(n)] = Unknown
  THEN [roundHeight EXCEPT ![Round(n)] = n] ELSE roundHeight

----------------------------------------------------------------------------
(* WriteBlockWithState, one action per write to the database *)

BeginWrite(n) == writing' = [height |-> n, step |-> "block"]

WriteBlock ==
  /\ running /\ writing.step = "block"
  /\ blocks' = blocks \cup {writing.height}
  /\ writing' = [writing EXCEPT !.step = "state"]
  /\ UNCHANGED <<config, canon, diskHead, diskStates, running, head, memStates,
                 roundHeight, next, imports, stops, crashes>>

\* Mutant: one state too many is collected.
CollectOneMore(n, states) ==
  IF n > TriesInMemory THEN {s \in states : s > n - TriesInMemory + 1} ELSE states

\* The states the garbage collector keeps in memory.
Collect(n, states) ==
  IF n > TriesInMemory THEN {s \in states : s > n - TriesInMemory} ELSE states

\* What a full node may flush: everything up to some age when the cache is
\* over its limit, the state that matures when the time allowance is over.
Flushed(n, states) ==
  IF n > TriesInMemory
  THEN {{s \in states : s <= age \/ (expired /\ s = n - TriesInMemory)} :
          age \in -1..n, expired \in BOOLEAN}
  ELSE {{}}

CommitState ==
  /\ running /\ writing.step = "state"
  /\ LET n == writing.height
     IN /\ roundHeight' = RecordRound(n)
        /\ IF archive \/ roundHeight'[Round(n)] = n
           THEN /\ diskStates' = diskStates \cup {n}
                /\ UNCHANGED memStates
           ELSE \E flushed \in Flushed(n, memStates \cup {n}) :
                  /\ diskStates' = diskStates \cup flushed
                  /\ memStates' = Collect(n, memStates \cup {n})
  /\ writing' = [writing EXCEPT !.step = "canonical"]
  /\ UNCHANGED <<config, blocks, canon, diskHead, running, head, next, imports,
                 stops, crashes>>

\* The block that is inserted next: when the head is not the parent of the
\* block being written, reorg first inserts the blocks between them.
Reorg == head + 1

\* insert: first the canonical hash, then the head.
WriteCanonicalHash ==
  /\ running /\ writing.step = "canonical"
  /\ canon' = canon \cup {Reorg}
  /\ writing' = [writing EXCEPT !.step = "head"]
  /\ UNCHANGED <<config, blocks, diskHead, diskStates, running, head, memStates,
                 roundHeight, next, imports, stops, crashes>>

\* Mutant: the head jumps to the block without its predecessors.
WriteHeadAlone ==
  /\ running /\ writing.step = "head"
  /\ head' = writing.height /\ diskHead' = writing.height
  /\ writing' = NoWrite
  /\ UNCHANGED <<config, blocks, canon, diskStates, running, memStates, roundHeight,
                 next, imports, stops, crashes>>

\* Mutant: the head is written and not stored in currentBlock.
WriteHeadOnDisk ==
  /\ running /\ writing.step = "head"
  /\ diskHead' = Reorg
  /\ writing' = NoWrite
  /\ UNCHANGED <<config, blocks, canon, diskStates, running, head, memStates,
                 roundHeight, next, imports, stops, crashes>>

WriteHeadBlockHash ==
  /\ running /\ writing.step = "head"
  /\ head' = Reorg /\ diskHead' = Reorg
  /\ writing' = IF Reorg < writing.height
                THEN [writing EXCEPT !.step = "canonical"] ELSE NoWrite
  /\ UNCHANGED <<config, blocks, canon, diskStates, running, memStates, roundHeight,
                 next, imports, stops, crashes>>

----------------------------------------------------------------------------
(* Blocks the consensus core delivers *)

WitnessKnown(n) == n \notin EmptyBlocks => Witness[n] \in canon
Executable(n)   == n - 1 \in canon /\ HasState(n - 1) /\ WitnessKnown(n)

\* The part ProcessBlock and ProcessEmptyBlock share.  A block the chain has
\* is executed again and not written.
Execute(n) ==
  /\ Executable(n)
  /\ roundHeight' = RecordRound(n)
  /\ IF n \in canon THEN UNCHANGED writing ELSE BeginWrite(n)
  /\ next' = n + 1
  /\ UNCHANGED <<config, diskVars, running, head, memStates, imports,
                 stops, crashes>>

ProcessBlock ==
  /\ ChainUnlocked /\ next <= MaxHeight /\ next \notin EmptyBlocks
  /\ Execute(next)

ProcessEmptyBlock ==
  /\ ChainUnlocked /\ next <= MaxHeight /\ next \in EmptyBlocks
  /\ Execute(next)

\* BlockDelivered panics when the block cannot be processed.
ProcessFails ==
  /\ ChainUnlocked /\ next <= MaxHeight
  /\ ~Executable(next)
  /\ running' = FALSE
  /\ UNCHANGED <<config, diskVars, head, memStates, roundHeight, next, imports,
                 writing, stops, crashes>>

----------------------------------------------------------------------------
(* Blocks a peer sends *)

\* pos: the block the loop is at; resumed: its pruned ancestors are imported.
Call(first, last, locked) ==
  [pos |-> first, last |-> last, locked |-> locked, resumed |-> FALSE]

Front(calls) == SubSeq(calls, 1, Len(calls) - 1)

\* Mutant: the loop skips every other block.
AdvanceTwo ==
  [imports EXCEPT ![Len(imports)] = Call(Current.pos + 2, Current.last, TRUE)]

Advance ==
  [imports EXCEPT ![Len(imports)] = Call(Current.pos + 1, Current.last, TRUE)]

\* The downloader starts at the ancestor it shares with the peer, which is no
\* higher than the head.
InsertTangerineChain(first, last) ==
  /\ Idle /\ imports = <<>>
  /\ first <= head + 1 /\ first <= last /\ last < next + lead
  /\ imports' = <<Call(first, last, TRUE)>>
  /\ UNCHANGED <<config, diskVars, running, head, memStates, roundHeight, next,
                 writing, stops, crashes>>

Lock ==
  /\ Idle /\ imports # <<>> /\ ~Current.locked
  /\ imports' = [imports EXCEPT ![Len(imports)] = [Current EXCEPT !.locked = TRUE]]
  /\ UNCHANGED <<config, diskVars, running, head, memStates, roundHeight, next,
                 writing, stops, crashes>>

\* Mutant: the lock is not released.
InsertReturnsLocked ==
  /\ Idle /\ imports # <<>> /\ Current.locked /\ Current.pos > Current.last
  /\ UNCHANGED vars

\* The loop is over: the caller goes on with the block it was at.
InsertReturns ==
  /\ Idle /\ imports # <<>> /\ Current.locked /\ Current.pos > Current.last
  /\ imports' = IF Len(imports) = 1 THEN <<>>
                ELSE [Front(imports) EXCEPT ![Len(imports) - 1] =
                        [Caller EXCEPT !.resumed = TRUE, !.locked = FALSE]]
  /\ UNCHANGED <<config, diskVars, running, head, memStates, roundHeight, next,
                 writing, stops, crashes>>

\* VerifyTangerineHeader, then ValidateBody.
Verify(n) ==
  IF n - 1 \notin blocks     THEN "ErrUnknownAncestor"
  ELSE IF ~WitnessKnown(n)   THEN "ErrWitnessMismatch"
  ELSE IF HasBlockAndState(n) THEN "ErrKnownBlock"
  ELSE IF HasState(n - 1)    THEN "nil" ELSE "ErrPrunedAncestor"

\* What the loop does with the block it is at.
Outcome ==
  LET n == Current.pos
  IN  CASE Current.resumed \/ Verify(n) = "nil" -> "execute"
        [] ~Current.resumed /\ Verify(n) = "ErrKnownBlock" ->
              IF head >= n THEN "skip" ELSE "execute"
        [] ~Current.resumed /\ Verify(n) = "ErrPrunedAncestor" ->
              IF head > n THEN "store" ELSE "prune"
        [] OTHER -> "error"

InLoop ==
  Idle /\ imports # <<>> /\ Current.locked /\ Current.pos <= Current.last

SkipKnownBlock ==
  /\ InLoop /\ Outcome = "skip"
  /\ imports' = Advance
  /\ UNCHANGED <<config, diskVars, running, head, memStates, roundHeight, next,
                 writing, stops, crashes>>

\* A pruned ancestor below the head: a competing block, stored and skipped.
SkipCompetitor ==
  /\ InLoop /\ Outcome = "store"
  /\ blocks' = blocks \cup {Current.pos}
  /\ imports' = Advance
  /\ UNCHANGED <<config, canon, diskHead, diskStates, running, head, memStates,
                 roundHeight, next, writing, stops, crashes>>

\* Otherwise the ancestors without a state are imported first.
ImportPruned ==
  /\ InLoop /\ Outcome = "prune"
  /\ \E n \in Height :
       /\ HasState(n) /\ \A m \in (n + 1)..(Current.pos - 1) : ~HasState(m)
       /\ n < Current.pos
       /\ imports' = Append(imports, Call(n + 1, Current.pos - 1, FALSE))
  /\ UNCHANGED <<config, diskVars, running, head, memStates, roundHeight, next,
                 writing, stops, crashes>>

\* The block is executed on its parent's state; it is written unless the chain
\* has a block at its height.
InsertBlock ==
  /\ InLoop /\ Outcome = "execute" /\ HasState(Current.pos - 1)
  /\ imports' = Advance
  /\ IF Current.pos \in canon THEN UNCHANGED writing
                              ELSE BeginWrite(Current.pos)
  /\ UNCHANGED <<config, diskVars, running, head, memStates, roundHeight, next,
                 stops, crashes>>

\* An error of the verification, or of state.New, ends every call.
InsertFails ==
  /\ InLoop /\ Outcome \in {"execute", "error"}
  /\ Outcome = "execute" => ~HasState(Current.pos - 1)
  /\ imports' = <<>>
  /\ UNCHANGED <<config, diskVars, running, head, memStates, roundHeight, next,
                 writing, stops, crashes>>

----------------------------------------------------------------------------
(* Stopping, crashing and starting *)

\* Mutant: the state of the head is not among the states written.
StopWithoutHead == {head - offset : offset \in {o \in {1, TriesInMemory - 1} : head > o}}

StopStates ==
  {head - offset : offset \in {o \in {0, 1, TriesInMemory - 1} : head > o}}

\* A block being written is finished first; a loop is left between blocks.
Stop ==
  /\ Idle /\ stops < MaxStops
  /\ diskStates' = IF archive THEN diskStates
                   ELSE diskStates \cup (StopStates \cap memStates)
  /\ running' = FALSE
  /\ stops' = stops + 1
  /\ UNCHANGED <<config, blocks, canon, diskHead, head, memStates, roundHeight, next,
                 imports, writing, crashes>>

Crash ==
  /\ running /\ crashes < MaxCrashes
  /\ running' = FALSE
  /\ crashes' = crashes + 1
  /\ UNCHANGED <<config, diskVars, head, memStates, roundHeight, next, imports,
                 writing, stops>>

\* Mutant: the head is taken as it is.
RepairNothing == diskHead

\* repair walks down from the head on disk to a block whose state is on disk.
Repaired == CHOOSE n \in diskStates :
              n <= diskHead /\ \A m \in (n + 1)..diskHead : m \notin diskStates

\* Mutant: the head's height is taken for its round's.
StartRoundsAtHead(n) ==
  [r \in Rounds |-> IF r = Round(n) THEN n ELSE Unknown]

\* NewBlockChain reads the heights of the head's round and the one before it
\* from the state of the head.
StartRounds(n) ==
  [r \in Rounds |-> IF r \in {Round(n) - 1, Round(n)} THEN StartOf(r)
                                                      ELSE Unknown]

Start ==
  /\ ~running
  /\ running' = TRUE
  /\ head' = Repaired
  /\ memStates' = {}
  /\ roundHeight' = StartRounds(Repaired)
  /\ next' = Repaired + 1
  /\ imports' = <<>> /\ writing' = NoWrite
  /\ UNCHANGED <<config, diskVars, stops, crashes>>

----------------------------------------------------------------------------
(* Specification *)

Init ==
  /\ archive \in Modes /\ lead \in Leads
  /\ blocks = {0} /\ canon = {0} /\ diskHead = 0 /\ diskStates = {0}
  /\ running = TRUE /\ head = 0 /\ memStates = {} /\ roundHeight = StartRounds(0)
  /\ next = 1 /\ imports = <<>> /\ writing = NoWrite
  /\ stops = 0 /\ crashes = 0

Write == WriteBlock \/ CommitState \/ WriteCanonicalHash \/ WriteHeadBlockHash

Deliver == ProcessBlock \/ ProcessEmptyBlock \/ ProcessFails

Loop == \/ Lock \/ InsertReturns \/ SkipKnownBlock \/ SkipCompetitor \/ ImportPruned
        \/ InsertBlock \/ InsertFails

Import == \E first, last \in Height \ {0} : InsertTangerineChain(first, last)

Next == Write \/ Deliver \/ Loop \/ Import \/ Stop \/ Crash \/ Start

Spec == Init /\ [][Next]_vars

\* The core delivers whenever the lock, which is granted in turn, lets it; a
\* write that has begun goes on, the loop runs and a node is started again.
Fairness ==
  WF_vars(Write) /\ SF_vars(Deliver) /\ WF_vars(Loop) /\ WF_vars(Start)

LiveSpec == Spec /\ Fairness

----------------------------------------------------------------------------
(* Properties *)

TypeOK ==
  /\ archive \in Modes /\ lead \in Leads
  /\ blocks \subseteq Height /\ canon \subseteq Height
  /\ diskHead \in Height /\ diskStates \subseteq Height
  /\ running \in BOOLEAN /\ head \in Height /\ memStates \subseteq Height
  /\ roundHeight \in [Rounds -> Height \cup {Unknown}]
  /\ next \in 1..(MaxHeight + 1)
  /\ imports \in Seq([pos : 1..(MaxHeight + 1), last : Height,
                      locked : BOOLEAN, resumed : BOOLEAN])
  /\ writing \in [height : Height,
                  step : {"none", "block", "state", "canonical", "head"}]
  /\ stops \in 0..MaxStops /\ crashes \in 0..MaxCrashes

\* The node has not been cut short: no crash so far, and no panic, for the
\* states the core needs are within what the garbage collector keeps.
Orderly == crashes = 0 /\ (archive \/ lead < TriesInMemory)

\* The canonical numbers on disk have no gap, name written blocks only, and
\* reach the head on disk or, when insert was cut between its two writes, the
\* block after it: whatever a crash leaves, reorg can walk from a block down to
\* the head and loadLastState finds the head's block.
ChainContiguous ==
  /\ TypeOK
  /\ canon \subseteq blocks
  /\ canon = 0..diskHead \/ canon = 0..(diskHead + 1)

\* While the node runs, the state of its head is available, so the node can
\* always execute a block on top of its head: the garbage collector of
\* WriteBlockWithState never takes it, and repair finds it after a crash.
HeadStateAvailable == running => HasState(head)

\* roundHeightMap, which decides what states a full node always writes, holds
\* the first block of a round or nothing, across orderly stops and imports.
RoundHeightsRight ==
  Orderly /\ running =>
    \A r \in Rounds : roundHeight[r] \in {StartOf(r), Unknown}

\* The head a node wrote is the head it starts with: nothing is rolled back.
\* Holds of a full node stopped in order, for Stop writes the state of the
\* head, and of an archive node however it ends, for WriteBlockWithState
\* writes the state before the head.
HeadDurable == (archive \/ Orderly) /\ running => head = diskHead

\* The state the next delivery executes on is available, so BlockDelivered
\* does not panic.  A full node needs imports to stay within triesInMemory
\* blocks of the core: beyond, its garbage collector takes the state the core
\* is at.
StateForCore == (archive \/ Orderly) /\ Idle => HasState(next - 1)

\* A block InsertTangerineChain has gone past is at or below the head: "if the
\* current block is below this number we did a rollback and we should reimport
\* it nonetheless".
InsertedIsHead ==
  Idle => \A i \in 1..Len(imports) : imports[i].pos <= head + 1

\* The same of a node that has not been cut short: every block a peer sends
\* becomes the head before the loop goes on, whatever the core delivers and
\* however often the node is stopped in between.
OrderlyInserts == Orderly => InsertedIsHead

\* Once stops and crashes are over, every block gets into an archive node's
\* chain.
EveryBlockInserted == archive => <>(canon = Height)

\* A head a crash left behind the canonical numbers of an archive node catches
\* up with them as soon as there is another block, by the reorg of
\* WriteBlockWithState.
HeadCatchesUp ==
  \A n \in Height \ {MaxHeight} :
    archive /\ n \in canon ~> running /\ head >= n

=============================================================================
