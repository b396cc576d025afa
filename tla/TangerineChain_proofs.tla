----------------------- MODULE TangerineChain_proofs -----------------------
(***************************************************************************)
(* Proofs about TangerineChain, for any number of blocks, rounds, stops    *)
(* and crashes.                                                            *)
(*                                                                         *)
(* ChainContiguous is not inductive: insert writes the block after the     *)
(* head, and after a crash the head repair chose may be below the head on  *)
(* disk.  MemoryInv says why no block is written then: the states between   *)
(* the two heads are gone, and neither the core nor the loop of            *)
(* insertTangerineChain gets past the first block without a state.         *)
(***************************************************************************)
EXTENDS TangerineChain, TLAPS

Calls == [pos : 1..(MaxHeight + 1), last : Height,
          locked : BOOLEAN, resumed : BOOLEAN]

\* The core or a loop may be at block p: its parent is in the chain or is
\* being written, and when the head is behind the disk's p is next to it.
Reached(p) ==
    /\ p - 1 \in canon \/ (writing.step # "none" /\ p - 1 = writing.height)
    /\ head < diskHead => p <= head + 2

SoundCalls == {call \in Calls : Reached(call.pos) /\ call.last < next + lead}

DiskInv ==
    /\ canon \subseteq blocks /\ 0 \in diskStates
    /\ canon = 0..diskHead \/ canon = 0..(diskHead + 1)
    /\ archive => canon \subseteq diskStates

\* The block being written.
WritingInv ==
    LET n == writing.height
        step == writing.step
    IN  /\ step = "none" => writing = NoWrite
        /\ step # "none" =>
             head = diskHead /\ n - 1 \in canon /\ HasState(n - 1)
        /\ step \in {"block", "state"} => n \notin canon
        /\ step \in {"state", "canonical", "head"} => n \in blocks
        /\ step \in {"canonical", "head"} =>
             head < n /\ HasState(n) /\ (archive => n \in diskStates)
        /\ step = "head" => head + 1 \in canon

MemoryInv ==
    /\ head <= diskHead /\ HasState(head)
    /\ head < diskHead => \A m \in (head + 1)..diskHead : ~HasState(m)
    /\ Reached(next)
    /\ imports \in Seq(SoundCalls)

\* What holds of a node that was not cut short.
OrderlyInv ==
    Orderly =>
      /\ canon = 0..(IF writing.step = "head" THEN diskHead + 1 ELSE diskHead)
      /\ ~running => writing = NoWrite /\ diskHead \in diskStates
      /\ running => /\ head = diskHead
                    /\ writing.step # "none" => writing.height < next + lead
                    /\ \A m \in (next - 1)..head : HasState(m)

IInv == TypeOK /\ DiskInv /\ (running => WritingInv /\ MemoryInv) /\ OrderlyInv

\* What the steps use of the rounds: a block is in a round, the round has a
\* first block, and a block whose parent is of another round is that block.
RoundFacts ==
    \A n \in Height :
      /\ Round(n) \in Rounds /\ StartOf(Round(n)) \in Height
      /\ StartRounds(n) \in [Rounds -> Height \cup {Unknown}]
      /\ n >= 1 /\ Round(n) # Round(n - 1) => StartOf(Round(n)) = n

\* What Start uses of repair.
RepairFinds ==
    /\ Repaired \in diskStates /\ Repaired \in Nat /\ Repaired <= diskHead
    /\ \A m \in (Repaired + 1)..diskHead : m \notin diskStates

LEMMA RecordRoundType ==
  ASSUME RoundFacts, TypeOK, NEW n \in Height
  PROVE  RecordRound(n) \in [Rounds -> Height \cup {Unknown}]
BY Zenon DEF RoundFacts, TypeOK, RecordRound

-----------------------------------------------------------------------------
(* The calls of insertTangerineChain *)

LEMMA ReplaceCurrent ==
  ASSUME NEW S, imports \in Seq(S), imports # <<>>, NEW c \in S
  PROVE  /\ Current \in S
         /\ [imports EXCEPT ![Len(imports)] = c] \in Seq(S)
         /\ Append(imports, c) \in Seq(S)
<1>1. Len(imports) \in 1..Len(imports)
  OBVIOUS
<1>2. Current \in S
  BY <1>1 DEF Current
<1>3. [imports EXCEPT ![Len(imports)] = c] \in Seq(S)
  BY <1>1
<1> QED  BY <1>2, <1>3

LEMMA ReturnToCaller ==
  ASSUME NEW S, imports \in Seq(S), Len(imports) > 1, NEW c \in S
  PROVE  /\ imports[Len(imports) - 1] \in S
         /\ Front(imports)[Len(imports) - 1] = imports[Len(imports) - 1]
         /\ [Front(imports) EXCEPT ![Len(imports) - 1] = c] \in Seq(S)
<1> DEFINE k == Len(imports) - 1
<1>1. k \in Nat /\ k \in 1..k /\ k <= Len(imports) /\ k \in 1..Len(imports)
  OBVIOUS
<1>2. /\ Front(imports) \in Seq(S) /\ Len(Front(imports)) = k
      /\ \A i \in 1..k : Front(imports)[i] = imports[i]
  BY <1>1 DEF Front
<1>3. imports[k] \in S
  BY <1>1
<1>4. [Front(imports) EXCEPT ![k] = c] \in Seq(S)
  <2>1. \A q \in Seq(S) : \A i \in 1..Len(q) : [q EXCEPT ![i] = c] \in Seq(S)
    OBVIOUS
  <2> QED  BY Zenon, <1>1, <1>2, <2>1
<1> QED  BY Zenon, <1>1, <1>2, <1>3, <1>4

\* The current call, one block further.
Further == Call(Current.pos + 1, Current.last, TRUE)

LEMMA AdvanceIs ==
  Advance = [imports EXCEPT ![Len(imports)] = Further]
BY Zenon DEF Advance, Further

-----------------------------------------------------------------------------
(* Facts every step uses *)

\* The canonical numbers are an initial segment, up to the head on disk or
\* one further.
LEMMA Segment ==
  ASSUME TypeOK, DiskInv
  PROVE  /\ diskHead \in Nat /\ MaxHeight \in Nat /\ diskHead <= MaxHeight
         /\ \A x \in 0..diskHead : x \in canon
         /\ \A x \in canon : /\ x \in Nat /\ x <= diskHead + 1
                             /\ \A y \in 0..x : y \in canon
<1>1. diskHead \in Nat /\ MaxHeight \in Nat /\ diskHead <= MaxHeight
  BY BoundsAssumption DEF TypeOK, Height
<1> QED  BY <1>1 DEF DiskInv

\* The numbers of a running node.
LEMMA Numbers ==
  ASSUME TypeOK
  PROVE  /\ head \in Nat /\ head <= MaxHeight /\ next \in Nat /\ next >= 1
         /\ next <= MaxHeight + 1 /\ lead \in Nat /\ MaxHeight \in Nat
         /\ writing.height \in Nat /\ writing.height <= MaxHeight
         /\ TriesInMemory \in Nat /\ TriesInMemory >= 3
         /\ writing = [height |-> writing.height, step |-> writing.step]
BY BoundsAssumption DEF TypeOK, Height

\* A step that only changes the calls of insertTangerineChain.
LEMMA ImportsStep ==
  ASSUME IInv, running, imports' \in Seq(SoundCalls),
         UNCHANGED <<config, diskVars, running, head, memStates, roundHeight, next,
                     writing, stops, crashes>>
  PROVE  IInv'
<1>1. SoundCalls' = SoundCalls
  BY Zenon DEF SoundCalls, Reached, config, diskVars
<1>2. imports' \in Seq(Calls)
  BY DEF SoundCalls
<1>3. TypeOK'
  BY Zenon, <1>2 DEF IInv, TypeOK, config, diskVars, Calls
<1>4. DiskInv' /\ WritingInv'
  BY Zenon DEF IInv, DiskInv, WritingInv, HasState, config, diskVars
<1>5. MemoryInv'
  BY Zenon, <1>1 DEF IInv, MemoryInv, Reached, HasState, config, diskVars
<1>6. OrderlyInv'
  BY Zenon DEF IInv, OrderlyInv, Orderly, HasState, config, diskVars
<1> QED  BY Zenon, <1>3, <1>4, <1>5, <1>6 DEF IInv

\* What Idle and the lock give.
LEMMA IdleFacts ==
  ASSUME IInv, Idle
  PROVE  /\ running /\ writing = NoWrite /\ writing.step = "none"
         /\ WritingInv /\ MemoryInv /\ imports \in Seq(SoundCalls)
         /\ Reached(next)
         /\ \A p : Reached(p) => p - 1 \in canon
<1>1. running /\ writing = NoWrite /\ writing.step = "none"
  BY Zenon DEF Idle, NoWrite
<1>2. WritingInv /\ MemoryInv
  BY Zenon, <1>1 DEF IInv
<1> QED  BY Zenon, <1>1, <1>2 DEF MemoryInv, Reached

\* The call whose loop is running.
LEMMA LoopFacts ==
  ASSUME IInv, Idle, imports # <<>>
  PROVE  /\ Current \in SoundCalls /\ Current \in Calls
         /\ Current.pos \in Nat /\ Current.pos >= 1 /\ Reached(Current.pos)
         /\ Current.pos - 1 \in canon
         /\ Current.last \in Nat /\ Current.last <= MaxHeight
         /\ Current.last < next + lead
<1>1. imports \in Seq(SoundCalls)
  BY Zenon, IdleFacts
<1>2. Current \in SoundCalls
  <2>1. Len(imports) \in 1..Len(imports)
    BY <1>1
  <2> QED  BY <1>1, <2>1 DEF Current
<1>3. Current \in Calls /\ Reached(Current.pos) /\ Current.last < next + lead
  BY Zenon, <1>2 DEF SoundCalls
<1>4. /\ Current.pos \in Nat /\ Current.pos >= 1
      /\ Current.last \in Nat /\ Current.last <= MaxHeight
  BY <1>3, BoundsAssumption DEF Calls, Height
<1> QED  BY Zenon, <1>2, <1>3, <1>4, IdleFacts

\* A loop that is not over may go one block further if that block is reached.
LEMMA FurtherSound ==
  ASSUME IInv, Idle, imports # <<>>, Current.pos <= Current.last,
         NEW S, \A c \in SoundCalls : c \in S,
         \A c \in Calls : c.pos = Current.pos + 1 /\ c.last = Current.last => c \in S
  PROVE  Advance \in Seq(S)
<1>1. /\ Current \in Calls /\ Current.pos \in Nat /\ Current.last \in Nat
      /\ Current.last <= MaxHeight /\ MaxHeight \in Nat /\ Current.pos >= 1
  BY Zenon, LoopFacts, Numbers DEF IInv
<1>2. Further \in Calls /\ Further.pos = Current.pos + 1 /\ Further.last = Current.last
  <2>1. Further = [pos |-> Current.pos + 1, last |-> Current.last,
                   locked |-> TRUE, resumed |-> FALSE]
    BY Zenon DEF Further, Call
  <2>2. Current.last \in Height
    BY Zenon, <1>1 DEF Calls
  <2>3. Current.pos + 1 \in 1..(MaxHeight + 1)
    BY <1>1
  <2>4. Further \in Calls
    BY Zenon, <2>1, <2>2, <2>3 DEF Calls
  <2> QED  BY Zenon, <2>1, <2>4
<1>3. imports \in Seq(S)
  <2>1. imports \in Seq(SoundCalls)
    BY Zenon, IdleFacts
  <2> QED  BY <2>1
<1>4. [imports EXCEPT ![Len(imports)] = Further] \in Seq(S)
  BY Zenon, <1>2, <1>3, ReplaceCurrent
<1> QED  BY Zenon, <1>4, AdvanceIs

-----------------------------------------------------------------------------
(* The calls of insertTangerineChain *)

LEMMA InsertStep ==
  ASSUME IInv, NEW first \in Height \ {0}, NEW last \in Height \ {0},
         InsertTangerineChain(first, last)
  PROVE  IInv'
<1> DEFINE c == Call(first, last, TRUE)
<1>1. Idle /\ first <= head + 1 /\ last < next + lead
  BY Zenon DEF InsertTangerineChain
<1>2. running /\ MemoryInv
  BY Zenon, <1>1, IdleFacts
<1>3. /\ first \in Nat /\ first >= 1 /\ first <= MaxHeight /\ head \in Nat
      /\ diskHead \in Nat /\ \A x \in 0..diskHead : x \in canon
  BY SMTT(30), Segment, Numbers, BoundsAssumption DEF IInv, Height
<1>4. Reached(first)
  <2>1. first - 1 \in 0..diskHead
    BY <1>1, <1>2, <1>3 DEF MemoryInv
  <2> QED  BY <1>1, <1>3, <2>1 DEF Reached
<1>5. c \in SoundCalls
  <2>1. first \in 1..(MaxHeight + 1)
    BY <1>3, BoundsAssumption
  <2>2. c \in Calls /\ c.pos = first /\ c.last = last
    BY Zenon, <2>1 DEF Call, Calls
  <2> HIDE DEF c
  <2> QED  BY Zenon, <1>1, <1>4, <2>2 DEF SoundCalls
<1> HIDE DEF c
<1>6. <<c>> \in Seq(SoundCalls)
  BY <1>5
<1>7. imports' \in Seq(SoundCalls)
  BY Zenon, <1>6 DEF InsertTangerineChain, c
<1> QED  BY Zenon, <1>2, <1>7, ImportsStep DEF InsertTangerineChain

LEMMA LockStep == IInv /\ Lock => IInv'
<1> SUFFICES ASSUME IInv, Lock PROVE IInv'
  BY Zenon
<1>1. Idle /\ imports # <<>> /\ running
  BY Zenon DEF Lock, Idle
<1>2. Current \in SoundCalls /\ imports \in Seq(SoundCalls)
  BY Zenon, <1>1, LoopFacts, IdleFacts
<1>3. [Current EXCEPT !.locked = TRUE] \in SoundCalls
  BY Zenon, <1>2 DEF SoundCalls, Calls
<1>4. imports' \in Seq(SoundCalls)
  BY Zenon, <1>1, <1>2, <1>3, ReplaceCurrent DEF Lock
<1> QED  BY Zenon, <1>1, <1>4, ImportsStep DEF Lock

LEMMA ReturnStep == IInv /\ InsertReturns => IInv'
<1> SUFFICES ASSUME IInv, InsertReturns PROVE IInv'
  BY Zenon
<1>1. Idle /\ imports # <<>> /\ running
  BY Zenon DEF InsertReturns, Idle
<1>2. imports \in Seq(SoundCalls)
  BY Zenon, <1>1, IdleFacts
<1>3. imports' \in Seq(SoundCalls)
  <2>1. CASE Len(imports) = 1
    BY <2>1 DEF InsertReturns
  <2>2. CASE Len(imports) # 1
    <3>1. Len(imports) > 1
      BY <1>1, <1>2, <2>2
    <3>2. Caller \in SoundCalls
      BY <1>2, <3>1 DEF Caller
    <3>3. [Caller EXCEPT !.resumed = TRUE, !.locked = FALSE] \in SoundCalls
      <4>1. Caller \in Calls /\ Reached(Caller.pos) /\ Caller.last < next + lead
        BY Zenon, <3>2 DEF SoundCalls
      <4> DEFINE d == [Caller EXCEPT !.resumed = TRUE, !.locked = FALSE]
      <4>2. d \in Calls /\ d.pos = Caller.pos /\ d.last = Caller.last
        BY Zenon, <4>1 DEF Calls
      <4> HIDE DEF d
      <4>3. d \in SoundCalls
        BY Zenon, <4>1, <4>2 DEF SoundCalls
      <4> QED  BY Zenon, <4>3 DEF d
    <3> QED  BY Zenon, <1>2, <2>2, <3>1, <3>3, ReturnToCaller DEF InsertReturns
  <2> QED  BY Zenon, <2>1, <2>2
<1> QED  BY Zenon, <1>1, <1>3, ImportsStep DEF InsertReturns

\* A block at or below the head may be passed.
LEMMA BelowHead ==
  ASSUME IInv, Idle, imports # <<>>, Current.pos <= Current.last, Current.pos <= head
  PROVE  Advance \in Seq(SoundCalls)
<1>1. /\ Current.pos \in Nat /\ head \in Nat /\ diskHead \in Nat
      /\ \A x \in 0..diskHead : x \in canon /\ Current.last < next + lead
  BY Zenon, LoopFacts, Numbers, Segment DEF IInv
<1>2. head <= diskHead
  BY Zenon, IdleFacts DEF MemoryInv
<1>3. Reached(Current.pos + 1)
  <2>1. Current.pos + 1 - 1 \in 0..diskHead
    BY <1>1, <1>2
  <2> QED  BY <1>1, <2>1 DEF Reached
<1>4. \A c \in Calls : c.pos = Current.pos + 1 /\ c.last = Current.last =>
                         c \in SoundCalls
  BY Zenon, <1>3, LoopFacts DEF SoundCalls
<1> QED  BY Zenon, <1>4, FurtherSound

LEMMA SkipStep == IInv /\ SkipKnownBlock => IInv'
<1> SUFFICES ASSUME IInv, SkipKnownBlock PROVE IInv'
  BY Zenon
<1>1. /\ Idle /\ running /\ imports # <<>> /\ Current.pos <= Current.last
      /\ Outcome = "skip"
  BY Zenon DEF SkipKnownBlock, InLoop, Idle
<1>2. Current.pos \in Nat /\ head \in Nat
  BY Zenon, <1>1, LoopFacts, Numbers DEF IInv
<1>3. Current.pos <= head
  BY Zenon, <1>1, <1>2 DEF Outcome
<1>4. imports' \in Seq(SoundCalls)
  BY Zenon, <1>1, <1>3, BelowHead DEF SkipKnownBlock
<1> QED  BY Zenon, <1>1, <1>4, ImportsStep DEF SkipKnownBlock

\* Storing a block changes the blocks on disk only.
LEMMA StoreStep == IInv /\ SkipCompetitor => IInv'
<1> SUFFICES ASSUME IInv, SkipCompetitor PROVE IInv'
  BY Zenon
<1>1. /\ Idle /\ running /\ imports # <<>> /\ Current.pos <= Current.last
      /\ Outcome = "store"
  BY Zenon DEF SkipCompetitor, InLoop, Idle
<1>2. /\ Current.pos \in Nat /\ head \in Nat /\ head <= MaxHeight
      /\ MaxHeight \in Nat
  BY Zenon, <1>1, LoopFacts, Numbers DEF IInv
<1>3. Current.pos <= head /\ Current.pos \in Height
  <2>1. head > Current.pos
    BY Zenon, <1>1 DEF Outcome
  <2> QED  BY <1>2, <2>1 DEF Height
<1>4. imports' \in Seq(SoundCalls)
  BY Zenon, <1>1, <1>3, BelowHead DEF SkipCompetitor
<1>5. /\ blocks' = blocks \cup {Current.pos} /\ archive' = archive /\ lead' = lead
      /\ canon' = canon /\ diskHead' = diskHead /\ diskStates' = diskStates
      /\ running' = running /\ head' = head /\ memStates' = memStates
      /\ roundHeight' = roundHeight /\ next' = next /\ writing' = writing
      /\ stops' = stops /\ crashes' = crashes
  BY Zenon DEF SkipCompetitor, config
<1>6. SoundCalls' = SoundCalls
  BY Zenon, <1>5 DEF SoundCalls, Reached
<1>7. TypeOK'
  <2>1. imports' \in Seq(Calls)
    BY <1>4 DEF SoundCalls
  <2> QED  BY Zenon, <1>3, <1>5, <2>1 DEF IInv, TypeOK, Calls
<1>8. DiskInv' /\ WritingInv'
  BY Zenon, <1>1, <1>5 DEF IInv, DiskInv, WritingInv, HasState
<1>9. MemoryInv' /\ OrderlyInv'
  BY Zenon, <1>1, <1>4, <1>5, <1>6
     DEF IInv, MemoryInv, OrderlyInv, Orderly, Reached, HasState
<1> QED  BY Zenon, <1>7, <1>8, <1>9 DEF IInv

LEMMA PrunedStep == IInv /\ ImportPruned => IInv'
<1> SUFFICES ASSUME IInv, ImportPruned PROVE IInv'
  BY Zenon
<1>1. /\ Idle /\ running /\ imports # <<>> /\ Current.pos <= Current.last
  BY Zenon DEF ImportPruned, InLoop, Idle
<1>2. PICK n \in Height :
        /\ n < Current.pos
        /\ imports' = Append(imports, Call(n + 1, Current.pos - 1, FALSE))
  BY Zenon DEF ImportPruned
<1> DEFINE c == Call(n + 1, Current.pos - 1, FALSE)
<1>3. /\ Current.pos \in Nat /\ Current.last \in Nat /\ Current.last <= MaxHeight
      /\ Current.last < next + lead /\ n \in Nat /\ MaxHeight \in Nat
      /\ Reached(Current.pos) /\ Current.pos - 1 \in canon
      /\ next \in Nat /\ lead \in Nat /\ head \in Nat
      /\ \A x \in canon : \A y \in 0..x : y \in canon
  BY SMTT(30), <1>1, LoopFacts, Numbers, Segment, BoundsAssumption DEF IInv, Height
<1>4. Reached(n + 1)
  <2>1. n \in canon
    BY <1>2, <1>3
  <2>2. head < diskHead => n + 1 <= head + 2
    BY <1>2, <1>3 DEF Reached
  <2> QED  BY <1>3, <2>1, <2>2 DEF Reached
<1>5. c \in SoundCalls
  <2>1. n + 1 \in 1..(MaxHeight + 1) /\ Current.pos - 1 \in Height
    BY <1>1, <1>2, <1>3 DEF Height
  <2>2. c \in Calls /\ c.pos = n + 1 /\ c.last = Current.pos - 1
    BY Zenon, <2>1 DEF Call, Calls
  <2>3. Current.pos - 1 < next + lead
    BY <1>1, <1>3
  <2> HIDE DEF c
  <2> QED  BY Zenon, <1>4, <2>2, <2>3 DEF SoundCalls
<1>6. imports' \in Seq(SoundCalls)
  <2>1. imports \in Seq(SoundCalls)
    BY Zenon, <1>1, IdleFacts
  <2> HIDE DEF c
  <2>2. Append(imports, c) \in Seq(SoundCalls)
    BY <1>5, <2>1
  <2> QED  BY Zenon, <1>2, <2>2 DEF c
<1> QED  BY Zenon, <1>1, <1>6, ImportsStep DEF ImportPruned

LEMMA FailsStep == IInv /\ InsertFails => IInv'
<1> SUFFICES ASSUME IInv, InsertFails PROVE IInv'
  BY Zenon
<1>1. running /\ imports' = <<>>
  BY Zenon DEF InsertFails, InLoop, Idle
<1> QED  BY <1>1, ImportsStep DEF InsertFails

-----------------------------------------------------------------------------
(* Execution of a block *)

\* A block whose parent's state is there, and at which the core or a loop is,
\* is next to the head or known; when it is not in the chain the head is not
\* behind, and when it is the next one is reached.
LEMMA ExecutedFits ==
  ASSUME IInv, Idle, NEW n \in Nat, n >= 1, Reached(n), HasState(n - 1)
  PROVE  /\ n - 1 \in canon
         /\ n \notin canon => head = diskHead
         /\ head < diskHead => n + 1 <= head + 2
<1>1. /\ n - 1 \in canon /\ head \in Nat /\ diskHead \in Nat /\ head <= diskHead
      /\ \A x \in 0..diskHead : x \in canon
      /\ head < diskHead => \A m \in (head + 1)..diskHead : ~HasState(m)
  BY Zenon, IdleFacts, Numbers, Segment DEF IInv, MemoryInv
<1>2. ASSUME head < diskHead PROVE n <= head + 1
  <2>1. n <= head + 2
    BY Zenon, <1>2 DEF Reached
  <2>2. n - 1 # head + 1
    BY <1>1, <1>2
  <2> QED  BY <1>1, <2>1, <2>2
<1>3. head < diskHead => n \in canon
  BY <1>1, <1>2
<1> QED  BY <1>1, <1>2, <1>3

\* What begins a write keeps everything reached.
LEMMA BeginReached ==
  ASSUME IInv, Idle, NEW n \in Nat, n >= 1, Reached(n), HasState(n - 1),
         canon' = canon, head' = head, diskHead' = diskHead,
         IF n \in canon THEN writing' = writing
         ELSE writing' = [height |-> n, step |-> "block"]
  PROVE  /\ \A p : Reached(p) => Reached(p)'
         /\ Reached(n + 1)'
<1>1. /\ writing = NoWrite /\ writing.step = "none"
      /\ \A p : Reached(p) => p - 1 \in canon
  BY Zenon, IdleFacts
<1>2. \A p : Reached(p) => Reached(p)'
  BY Zenon, <1>1 DEF Reached
<1>3. n + 1 - 1 = n /\ (head < diskHead => n + 1 <= head + 2)
  BY ExecutedFits
<1>4. n \notin canon => writing'.step # "none" /\ writing'.height = n
  OBVIOUS
<1> QED  BY <1>2, <1>3, <1>4 DEF Reached

\* The block being written, once the write has begun.
LEMMA BeginWriting ==
  ASSUME IInv, Idle, NEW n \in Nat, n >= 1, Reached(n), HasState(n - 1),
         UNCHANGED <<config, diskVars, head, memStates>>,
         IF n \in canon THEN writing' = writing
         ELSE writing' = [height |-> n, step |-> "block"]
  PROVE  WritingInv'
<1>1. \A m : HasState(m)' <=> HasState(m)
  BY Zenon DEF HasState, diskVars
<1>2. WritingInv /\ writing.step = "none"
  BY Zenon, IdleFacts
<1>3. CASE n \in canon
  BY Zenon, <1>1, <1>2, <1>3 DEF WritingInv, config, diskVars
<1>4. CASE n \notin canon
  <2>1. n - 1 \in canon /\ head = diskHead
    BY Zenon, <1>4, ExecutedFits
  <2>2. writing'.step = "block" /\ writing'.height = n
    BY <1>4
  <2> QED  BY Zenon, <1>1, <1>4, <2>1, <2>2 DEF WritingInv, diskVars
<1> QED  BY Zenon, <1>3, <1>4

LEMMA ExecuteStep ==
  ASSUME IInv, RoundFacts, ChainUnlocked, next <= MaxHeight, Execute(next)
  PROVE  IInv'
<1>1. /\ Idle /\ running /\ Reached(next) /\ next \in Nat /\ next >= 1
      /\ writing = NoWrite /\ writing.step = "none" /\ MemoryInv
      /\ imports \in Seq(SoundCalls) /\ next \in Height
  BY IdleFacts, Numbers DEF ChainUnlocked, IInv, Height
<1>2. /\ HasState(next - 1) /\ roundHeight' = RecordRound(next)
      /\ next' = next + 1 /\ imports' = imports /\ running' = running
      /\ archive' = archive /\ lead' = lead /\ blocks' = blocks /\ canon' = canon
      /\ diskHead' = diskHead /\ diskStates' = diskStates /\ head' = head
      /\ memStates' = memStates /\ stops' = stops /\ crashes' = crashes
      /\ IF next \in canon THEN writing' = writing
         ELSE writing' = [height |-> next, step |-> "block"]
  BY Zenon DEF Execute, Executable, BeginWrite, config, diskVars
<1>2a. PICK k \in Nat : k = next
  BY Zenon, <1>1
<1>3. /\ \A p : Reached(p) => Reached(p)'
      /\ Reached(k + 1)'
  BY Zenon, <1>1, <1>2, <1>2a, BeginReached
<1>4. WritingInv'
  BY Zenon, <1>1, <1>2, <1>2a, BeginWriting DEF config, diskVars
<1>5. TypeOK'
  <2>1. roundHeight' \in [Rounds -> Height \cup {Unknown}]
    BY Zenon, <1>1, <1>2, RecordRoundType DEF IInv
  <2>2. writing' \in [height : Height,
                      step : {"none", "block", "state", "canonical", "head"}]
    BY <1>1, <1>2 DEF IInv, TypeOK
  <2>3. next' \in 1..(MaxHeight + 1)
    BY SMTT(30), <1>1, <1>2, Numbers DEF IInv
  <2> QED  BY Zenon, <1>2, <2>1, <2>2, <2>3 DEF IInv, TypeOK
<1>6. DiskInv'
  BY Zenon, <1>2 DEF IInv, DiskInv
<1>7. \A m : HasState(m)' <=> HasState(m)
  BY Zenon, <1>2 DEF HasState
<1>8. MemoryInv'
  <2>1. next + lead <= next' + lead' /\ next \in Nat /\ lead \in Nat
    BY <1>2, Numbers DEF IInv
  <2>2. \A c \in SoundCalls : c \in SoundCalls'
    <3> SUFFICES ASSUME NEW c \in SoundCalls PROVE c \in SoundCalls'
      BY Zenon
    <3>1. c \in Calls /\ Reached(c.pos) /\ c.last < next + lead
      BY Zenon DEF SoundCalls
    <3>2. c.last \in Nat
      BY <3>1, BoundsAssumption DEF Calls, Height
    <3>3. c.last < next' + lead'
      BY <1>2, <2>1, <3>1, <3>2
    <3> QED  BY Zenon, <1>3, <3>1, <3>3 DEF SoundCalls
  <2>3. imports' \in Seq(SoundCalls')
    BY <1>1, <1>2, <2>2
  <2>4. Reached(next)'
    BY Zenon, <1>2, <1>2a, <1>3 DEF Reached
  <2> QED  BY Zenon, <1>1, <1>2, <1>7, <2>3, <2>4 DEF MemoryInv
<1>9. OrderlyInv'
  <2>1. Orderly' = Orderly
    BY Zenon, <1>2 DEF Orderly
  <2>2. writing'.step # "head" /\ (writing'.step # "none" => writing'.height = next)
    BY <1>1, <1>2
  <2>3. next < next' + lead' /\ next \in Nat /\ head \in Nat /\ next' - 1 \in Nat
    <3>1. next \in Nat /\ next >= 1 /\ head \in Nat /\ lead \in Nat
      BY Zenon, Numbers DEF IInv
    <3> QED  BY <1>2, <3>1
  <2>4. \A m \in (next' - 1)..head : m \in (next - 1)..head
    BY <1>2, <2>3
  <2> QED  BY Zenon, <1>1, <1>2, <1>7, <2>1, <2>2, <2>3, <2>4 DEF IInv, OrderlyInv
<1> QED  BY Zenon, <1>4, <1>5, <1>6, <1>8, <1>9 DEF IInv

LEMMA InsertBlockStep == IInv /\ InsertBlock => IInv'
<1> SUFFICES ASSUME IInv, InsertBlock PROVE IInv'
  BY Zenon
<1> DEFINE n == Current.pos
<1>1. /\ Idle /\ running /\ imports # <<>> /\ n <= Current.last
      /\ writing = NoWrite /\ writing.step = "none" /\ MemoryInv
  BY Zenon, IdleFacts DEF InsertBlock, InLoop, Idle
<1>2. /\ n \in Nat /\ n >= 1 /\ Reached(n) /\ Current.last \in Nat
      /\ Current.last <= MaxHeight /\ Current.last < next + lead
      /\ next \in Nat /\ lead \in Nat /\ MaxHeight \in Nat
  BY Zenon, <1>1, LoopFacts, Numbers DEF IInv
<1>3. /\ HasState(n - 1) /\ imports' = Advance
      /\ running' = running /\ next' = next /\ roundHeight' = roundHeight
      /\ archive' = archive /\ lead' = lead /\ blocks' = blocks /\ canon' = canon
      /\ diskHead' = diskHead /\ diskStates' = diskStates /\ head' = head
      /\ memStates' = memStates /\ stops' = stops /\ crashes' = crashes
      /\ IF n \in canon THEN writing' = writing
         ELSE writing' = [height |-> n, step |-> "block"]
  BY Zenon DEF InsertBlock, BeginWrite, config, diskVars
<1>3a. PICK k \in Nat : k = n
  BY Zenon, <1>2
<1>4. /\ \A p : Reached(p) => Reached(p)'
      /\ Reached(k + 1)'
  BY Zenon, <1>1, <1>2, <1>3, <1>3a, BeginReached
<1>5. WritingInv'
  BY Zenon, <1>1, <1>2, <1>3, <1>3a, BeginWriting DEF config, diskVars
<1>6. imports' \in Seq(SoundCalls')
  <2>1. \A c \in SoundCalls : c \in SoundCalls'
    BY Zenon, <1>3, <1>4 DEF SoundCalls
  <2>2. \A c \in Calls : c.pos = n + 1 /\ c.last = Current.last => c \in SoundCalls'
    BY Zenon, <1>2, <1>3, <1>3a, <1>4 DEF SoundCalls
  <2> QED  BY Zenon, <1>1, <1>3, <2>1, <2>2, FurtherSound
<1>7. TypeOK'
  <2>1. imports' \in Seq(Calls)
    BY <1>6 DEF SoundCalls
  <2>2. n \in Height
    BY <1>1, <1>2 DEF Height
  <2>3. writing' \in [height : Height,
                      step : {"none", "block", "state", "canonical", "head"}]
    BY <1>3, <2>2 DEF IInv, TypeOK
  <2> QED  BY Zenon, <1>3, <2>1, <2>3 DEF IInv, TypeOK, Calls
<1>8. DiskInv'
  BY Zenon, <1>3 DEF IInv, DiskInv
<1>9. \A m : HasState(m)' <=> HasState(m)
  BY Zenon, <1>3 DEF HasState
<1>10. MemoryInv'
  BY Zenon, <1>1, <1>3, <1>4, <1>6, <1>9 DEF MemoryInv
<1>11. OrderlyInv'
  <2>1. Orderly' = Orderly
    BY Zenon, <1>3 DEF Orderly
  <2>2. writing'.step # "head" /\ (writing'.step # "none" => writing'.height = n)
    BY <1>1, <1>3
  <2>3. n < next + lead
    BY <1>1, <1>2
  <2> QED  BY Zenon, <1>1, <1>3, <1>9, <2>1, <2>2, <2>3 DEF IInv, OrderlyInv
<1> QED  BY Zenon, <1>5, <1>7, <1>8, <1>10, <1>11 DEF IInv

-----------------------------------------------------------------------------
(* WriteBlockWithState *)

LEMMA WriteBlockStep == IInv /\ WriteBlock => IInv'
<1> SUFFICES ASSUME IInv, WriteBlock PROVE IInv'
  BY Zenon
<1>1. /\ running /\ writing.step = "block" /\ WritingInv /\ MemoryInv
  BY Zenon DEF WriteBlock, IInv
<1>2. /\ blocks' = blocks \cup {writing.height}
      /\ writing' = [height |-> writing.height, step |-> "state"]
      /\ archive' = archive /\ lead' = lead /\ canon' = canon
      /\ diskHead' = diskHead /\ diskStates' = diskStates /\ running' = running
      /\ head' = head /\ memStates' = memStates /\ roundHeight' = roundHeight
      /\ next' = next /\ imports' = imports /\ stops' = stops /\ crashes' = crashes
  <2>1. writing = [height |-> writing.height, step |-> writing.step]
    BY Zenon, Numbers DEF IInv
  <2> QED  BY Zenon, <2>1 DEF WriteBlock, config
<1>3. \A p : Reached(p)' <=> Reached(p)
  BY Zenon, <1>1, <1>2 DEF Reached
<1>4. TypeOK'
  BY Zenon, <1>1, <1>2 DEF IInv, TypeOK
<1>5. DiskInv' /\ WritingInv'
  BY Zenon, <1>1, <1>2 DEF IInv, DiskInv, WritingInv, HasState
<1>6. MemoryInv'
  <2>1. SoundCalls' = SoundCalls
    BY Zenon, <1>2, <1>3 DEF SoundCalls
  <2>2. Reached(next)'
    BY Zenon, <1>1, <1>2 DEF Reached, MemoryInv
  <2> QED  BY Zenon, <1>1, <1>2, <2>1, <2>2 DEF MemoryInv, HasState
<1>7. OrderlyInv'
  BY Zenon, <1>1, <1>2 DEF IInv, OrderlyInv, Orderly, HasState
<1> QED  BY Zenon, <1>4, <1>5, <1>6, <1>7 DEF IInv

\* The state of the block is committed, and no state within triesInMemory of
\* it is lost.
LEMMA Committed ==
  ASSUME IInv, CommitState, NEW n, n = writing.height
  PROVE  /\ HasState(n)'
         /\ \A m \in Height : HasState(m) /\ m > n - TriesInMemory =>
                                HasState(m)'
         /\ diskStates \subseteq diskStates' /\ diskStates' \subseteq Height
         /\ memStates' \subseteq Height
         /\ archive => n \in diskStates'
<1>1. /\ n \in Nat /\ n \in Height /\ TriesInMemory \in Nat /\ TriesInMemory >= 3
      /\ memStates \subseteq Height /\ diskStates \subseteq Height
      /\ Height \subseteq Nat
  <2>1. /\ n \in Nat /\ n <= MaxHeight /\ MaxHeight \in Nat
        /\ TriesInMemory \in Nat /\ TriesInMemory >= 3
    BY Zenon, Numbers DEF IInv
  <2>2. memStates \subseteq Height /\ diskStates \subseteq Height
    BY Zenon DEF IInv, TypeOK
  <2> QED  BY <2>1, <2>2 DEF Height
<1>2. CASE diskStates' = diskStates \cup {n} /\ memStates' = memStates
  BY Zenon, <1>1, <1>2 DEF HasState
<1>3. CASE /\ ~archive
           /\ \E flushed \in Flushed(n, memStates \cup {n}) :
                  /\ diskStates' = diskStates \cup flushed
                  /\ memStates' = Collect(n, memStates \cup {n})
  <2>1. PICK flushed \in Flushed(n, memStates \cup {n}) :
                  /\ diskStates' = diskStates \cup flushed
                  /\ memStates' = Collect(n, memStates \cup {n})
    BY Zenon, <1>3
  <2>2. flushed \subseteq memStates \cup {n}
    BY DEF Flushed
  <2>3. /\ n \in memStates' /\ memStates' \subseteq memStates \cup {n}
        /\ \A m \in memStates : m > n - TriesInMemory => m \in memStates'
    BY <1>1, <2>1 DEF Collect
  <2> QED  BY Zenon, <1>1, <1>3, <2>1, <2>2, <2>3 DEF HasState
<1> QED  BY Zenon, <1>2, <1>3 DEF CommitState

LEMMA CommitStateStep == IInv /\ RoundFacts /\ CommitState => IInv'
<1> SUFFICES ASSUME IInv, RoundFacts, CommitState PROVE IInv'
  BY Zenon
<1>0. PICK n : n = writing.height
  BY Zenon
<1>1. /\ running /\ writing.step = "state" /\ WritingInv /\ MemoryInv
  BY Zenon DEF CommitState, IInv
<1>2. /\ roundHeight' = RecordRound(n)
      /\ writing' = [height |-> n, step |-> "canonical"]
      /\ archive' = archive /\ lead' = lead /\ canon' = canon /\ blocks' = blocks
      /\ diskHead' = diskHead /\ running' = running /\ head' = head
      /\ next' = next /\ imports' = imports /\ stops' = stops /\ crashes' = crashes
  <2>1. writing = [height |-> writing.height, step |-> writing.step]
    BY Zenon, Numbers DEF IInv
  <2> QED  BY Zenon, <1>0, <2>1 DEF CommitState, config
<1>3. /\ HasState(n)'
      /\ \A m \in Height : HasState(m) /\ m > n - TriesInMemory => HasState(m)'
      /\ diskStates \subseteq diskStates' /\ diskStates' \subseteq Height
      /\ memStates' \subseteq Height /\ (archive => n \in diskStates')
  BY Zenon, <1>0, Committed
<1>4. /\ n \in Nat /\ n <= MaxHeight /\ head \in Nat /\ head <= MaxHeight
      /\ TriesInMemory \in Nat /\ TriesInMemory >= 3 /\ MaxHeight \in Nat
      /\ next \in Nat /\ next >= 1 /\ lead \in Nat
      /\ diskHead \in Nat /\ head = diskHead /\ n - 1 \in canon /\ n \notin canon
      /\ n \in blocks /\ HasState(n - 1)
      /\ \A x \in 0..diskHead : x \in canon
      /\ \A x \in canon : x \in Nat /\ x <= diskHead + 1
  BY Zenon, <1>0, <1>1, Numbers, Segment DEF IInv, WritingInv
<1>5. head < n /\ n <= head + 2 /\ n >= 1
  <2>1. n - 1 \in Nat /\ n - 1 <= head + 1
    BY Zenon, <1>4
  <2>2. n \notin 0..head
    BY Zenon, <1>4
  <2> QED  BY <1>4, <2>1, <2>2
<1>6. HasState(head)' /\ HasState(n - 1)'
  <2>1. head \in Height /\ n - 1 \in Height
    BY <1>4, <1>5 DEF Height
  <2>2. head > n - TriesInMemory /\ n - 1 > n - TriesInMemory
    BY <1>4, <1>5
  <2>3. HasState(head)'
    <3>1. head \in memStates' \cup diskStates'
      BY Zenon, <1>1, <1>3, <2>1, <2>2 DEF MemoryInv, HasState
    <3> QED  BY Zenon, <1>2, <3>1 DEF HasState
  <2> QED  BY Zenon, <1>3, <1>4, <2>1, <2>2, <2>3
<1>7. \A p : Reached(p)' <=> Reached(p)
  BY Zenon, <1>0, <1>1, <1>2 DEF Reached
<1>8. TypeOK'
  <2>1. roundHeight' \in [Rounds -> Height \cup {Unknown}]
    BY <1>2, <1>4, RecordRoundType DEF IInv, Height
  <2>2. writing' \in [height : Height,
                      step : {"none", "block", "state", "canonical", "head"}]
    BY Zenon, <1>0, <1>2 DEF IInv, TypeOK
  <2> QED  BY Zenon, <1>2, <1>3, <2>1, <2>2 DEF IInv, TypeOK
<1>9. DiskInv'
  BY ZenonT(20), <1>2, <1>3 DEF IInv, DiskInv
<1>10. WritingInv'
  BY Zenon, <1>0, <1>2, <1>3, <1>4, <1>5, <1>6 DEF WritingInv
<1>11. MemoryInv'
  <2>1. SoundCalls' = SoundCalls
    BY Zenon, <1>2, <1>7 DEF SoundCalls
  <2>2. Reached(next)'
    BY Zenon, <1>0, <1>1, <1>2 DEF Reached, MemoryInv
  <2> QED  BY <1>1, <1>2, <1>4, <1>6, <2>1, <2>2 DEF MemoryInv
<1>12. OrderlyInv'
  <2> SUFFICES ASSUME Orderly' PROVE OrderlyInv'
    BY Zenon DEF OrderlyInv
  <2>1. Orderly
    BY Zenon, <1>2 DEF Orderly
  <2>2. CASE archive
    <3>1. \A m : HasState(m) => m \in Height
      BY Zenon DEF IInv, TypeOK, HasState
    <3>2. \A m \in (next - 1)..head : HasState(m)'
      <4>1. \A m \in (next - 1)..head : m \in canon
        BY <1>4
      <4> QED  BY Zenon, <1>3, <2>2, <4>1 DEF IInv, DiskInv, HasState
    <3> QED  BY Zenon, <1>0, <1>1, <1>2, <2>1, <3>2 DEF IInv, OrderlyInv
  <2>3. CASE ~archive
    <3>1. lead < TriesInMemory /\ n < next + lead
      BY Zenon, <1>0, <1>1, <2>1, <2>3 DEF Orderly, IInv, OrderlyInv
    <3>2. \A m \in (next - 1)..head : m \in Height /\ m > n - TriesInMemory
      BY <1>4, <3>1 DEF Height
    <3>3. \A m \in (next - 1)..head : HasState(m)'
      BY Zenon, <1>1, <1>3, <2>1, <3>2 DEF IInv, OrderlyInv
    <3> QED  BY Zenon, <1>0, <1>1, <1>2, <2>1, <3>3 DEF IInv, OrderlyInv
  <2> QED  BY Zenon, <2>2, <2>3
<1> QED  BY Zenon, <1>8, <1>9, <1>10, <1>11, <1>12 DEF IInv

LEMMA CanonicalStep == IInv /\ WriteCanonicalHash => IInv'
<1> SUFFICES ASSUME IInv, WriteCanonicalHash PROVE IInv'
  BY Zenon
<1> DEFINE n == writing.height
<1>1. /\ running /\ writing.step = "canonical" /\ WritingInv /\ MemoryInv
  BY Zenon DEF WriteCanonicalHash, IInv
<1>2. /\ canon' = canon \cup {head + 1}
      /\ writing' = [height |-> n, step |-> "head"]
      /\ archive' = archive /\ lead' = lead /\ blocks' = blocks
      /\ diskHead' = diskHead /\ diskStates' = diskStates /\ running' = running
      /\ head' = head /\ memStates' = memStates /\ roundHeight' = roundHeight
      /\ next' = next /\ imports' = imports /\ stops' = stops /\ crashes' = crashes
  <2>1. writing = [height |-> writing.height, step |-> writing.step]
    BY Zenon, Numbers DEF IInv
  <2> QED  BY Zenon, <2>1 DEF WriteCanonicalHash, Reorg, config
<1>3. /\ n \in Nat /\ n <= MaxHeight /\ head \in Nat /\ MaxHeight \in Nat
      /\ diskHead \in Nat /\ head = diskHead /\ n - 1 \in canon /\ n \in blocks
      /\ head < n /\ HasState(n) /\ HasState(n - 1) /\ (archive => n \in diskStates)
      /\ \A x \in canon : x \in Nat /\ x <= diskHead + 1
  BY Zenon, <1>1, Numbers, Segment DEF IInv, WritingInv
<1>4. head + 1 \in Height /\ (head + 1 = n \/ head + 1 = n - 1)
  BY <1>3 DEF Height
<1>5. head + 1 \in blocks /\ (archive => head + 1 \in diskStates)
  BY Zenon, <1>3, <1>4 DEF IInv, DiskInv
<1>6. canon' = 0..(diskHead + 1)
  BY <1>2, <1>3 DEF IInv, DiskInv
<1>7. TypeOK'
  BY Zenon, <1>1, <1>2, <1>4 DEF IInv, TypeOK
<1>8. DiskInv'
  BY Zenon, <1>2, <1>5, <1>6 DEF IInv, DiskInv
<1>9. WritingInv'
  BY Zenon, <1>1, <1>2, <1>3 DEF WritingInv, HasState
<1>10. \A p : Reached(p) => Reached(p)'
  BY Zenon, <1>1, <1>2 DEF Reached
<1>11. MemoryInv'
  <2>1. \A c \in SoundCalls : c \in SoundCalls'
    BY Zenon, <1>2, <1>10 DEF SoundCalls
  <2>2. imports' \in Seq(SoundCalls')
    BY <1>1, <1>2, <2>1 DEF MemoryInv
  <2>3. Reached(next)'
    BY Zenon, <1>1, <1>2 DEF Reached, MemoryInv
  <2> QED  BY Zenon, <1>1, <1>2, <2>2, <2>3 DEF MemoryInv, HasState
<1>12. OrderlyInv'
  BY Zenon, <1>1, <1>2, <1>6 DEF IInv, OrderlyInv, Orderly, HasState
<1> QED  BY Zenon, <1>7, <1>8, <1>9, <1>11, <1>12 DEF IInv

LEMMA HeadStep == IInv /\ WriteHeadBlockHash => IInv'
<1> SUFFICES ASSUME IInv, WriteHeadBlockHash PROVE IInv'
  BY Zenon
<1> DEFINE n == writing.height
<1>1. /\ running /\ writing.step = "head" /\ WritingInv /\ MemoryInv
  BY Zenon DEF WriteHeadBlockHash, IInv
<1>2. /\ head' = head + 1 /\ diskHead' = head + 1
      /\ writing' = IF head + 1 < n THEN [height |-> n, step |-> "canonical"]
                    ELSE NoWrite
      /\ archive' = archive /\ lead' = lead /\ blocks' = blocks /\ canon' = canon
      /\ diskStates' = diskStates /\ running' = running
      /\ memStates' = memStates /\ roundHeight' = roundHeight
      /\ next' = next /\ imports' = imports /\ stops' = stops /\ crashes' = crashes
  <2>1. writing = [height |-> writing.height, step |-> writing.step]
    BY Zenon, Numbers DEF IInv
  <2> QED  BY <2>1 DEF WriteHeadBlockHash, Reorg, config
<1>3. /\ n \in Nat /\ n <= MaxHeight /\ head \in Nat /\ MaxHeight \in Nat
      /\ diskHead \in Nat /\ head = diskHead /\ n - 1 \in canon /\ n \in blocks
      /\ head < n /\ HasState(n) /\ HasState(n - 1) /\ (archive => n \in diskStates)
      /\ head + 1 \in canon
      /\ \A x \in canon : x \in Nat /\ x <= diskHead + 1
  BY Zenon, <1>1, Numbers, Segment DEF IInv, WritingInv
<1>4. /\ head + 1 \in Height /\ (head + 1 = n \/ head + 1 = n - 1)
      /\ HasState(head + 1)
  BY <1>3 DEF Height
<1>5. canon = 0..(diskHead + 1)
  BY <1>3 DEF IInv, DiskInv
<1>6. \A m : HasState(m)' <=> HasState(m)
  BY Zenon, <1>2 DEF HasState
<1>7. TypeOK'
  <2>1. 0 \in Height
    BY <1>3 DEF Height
  <2> QED  BY Zenon, <1>1, <1>2, <1>4, <2>1 DEF IInv, TypeOK, NoWrite
<1>8. DiskInv'
  BY Zenon, <1>2, <1>3, <1>5 DEF IInv, DiskInv
<1>9. WritingInv'
  <2>1. CASE head + 1 < n
    <3>1. writing'.height = n /\ writing'.step = "canonical"
      BY Zenon, <1>2, <2>1
    <3> QED  BY Zenon, <1>2, <1>3, <1>6, <2>1, <3>1 DEF WritingInv
  <2>2. CASE ~(head + 1 < n)
    <3>1. writing' = NoWrite /\ writing'.step = "none"
      BY Zenon, <1>2, <2>2 DEF NoWrite
    <3> QED  BY Zenon, <3>1 DEF WritingInv, NoWrite
  <2> QED  BY Zenon, <2>1, <2>2
<1>10. \A p : Reached(p) => Reached(p)'
  <2>1. ~(head' < diskHead')
    BY <1>2, <1>3
  <2>2. \A p : Reached(p) => p - 1 \in canon \/ p - 1 = n
    BY Zenon DEF Reached
  <2>3. n \in canon \/ (writing'.step # "none" /\ writing'.height = n)
    BY <1>2, <1>3, <1>4
  <2> QED  BY Zenon, <1>2, <2>1, <2>2, <2>3 DEF Reached
<1>11. MemoryInv'
  <2>1. \A c \in SoundCalls : c \in SoundCalls'
    BY Zenon, <1>2, <1>10 DEF SoundCalls
  <2>2. imports' \in Seq(SoundCalls')
    BY <1>1, <1>2, <2>1 DEF MemoryInv
  <2>3. Reached(next)'
    <3>1. PICK k : k = next
      BY Zenon
    <3>2. Reached(k)'
      BY Zenon, <1>1, <1>10, <3>1 DEF MemoryInv
    <3> QED  BY Zenon, <1>2, <3>1, <3>2 DEF Reached
  <2>4. head' <= diskHead' /\ ~(head' < diskHead')
    BY <1>2, <1>3
  <2>5. HasState(head)'
    BY Zenon, <1>2, <1>4 DEF HasState
  <2> QED  BY Zenon, <2>2, <2>3, <2>4, <2>5 DEF MemoryInv
<1>12. OrderlyInv'
  <2> SUFFICES ASSUME Orderly' PROVE OrderlyInv'
    BY Zenon DEF OrderlyInv
  <2>1. Orderly
    BY Zenon, <1>2 DEF Orderly
  <2>2. writing'.step # "head" /\ (writing'.step # "none" => writing'.height = n)
    BY Zenon, <1>2 DEF NoWrite
  <2>3. canon' = 0..diskHead'
    BY Zenon, <1>2, <1>3, <1>5
  <2>4. n < next + lead /\ \A m \in (next - 1)..head : HasState(m)
    BY Zenon, <1>1, <2>1 DEF IInv, OrderlyInv
  <2>5. \A m \in (next - 1)..(head + 1) : m \in (next - 1)..head \/ m = head + 1
    BY <1>3, Numbers DEF IInv
  <2>6. \A m \in (next' - 1)..head' : HasState(m)'
    BY Zenon, <1>2, <1>4, <1>6, <2>4, <2>5
  <2> QED  BY Zenon, <1>1, <1>2, <2>2, <2>3, <2>4, <2>6 DEF OrderlyInv
<1> QED  BY Zenon, <1>7, <1>8, <1>9, <1>11, <1>12 DEF IInv

-----------------------------------------------------------------------------
(* Blocks the core delivers *)

LEMMA ProcessStep == IInv /\ RoundFacts /\ (ProcessBlock \/ ProcessEmptyBlock) => IInv'
BY Zenon, ExecuteStep DEF ProcessBlock, ProcessEmptyBlock

\* A node that was not cut short does not panic.
LEMMA ProcessFailsStep == IInv /\ ProcessFails => IInv'
<1> SUFFICES ASSUME IInv, ProcessFails PROVE IInv'
  BY Zenon
<1>1. /\ Idle /\ next <= MaxHeight /\ ~Executable(next) /\ running' = FALSE
      /\ UNCHANGED <<config, diskVars, head, memStates, roundHeight, next, imports,
                     writing, stops, crashes>>
  BY Zenon DEF ProcessFails, ChainUnlocked
<1>2. TypeOK' /\ DiskInv'
  BY Zenon, <1>1 DEF IInv, TypeOK, DiskInv, config, diskVars
<1>3. ~Orderly
  <2> SUFFICES ASSUME Orderly PROVE FALSE
    BY Zenon
  <2>1. /\ running /\ next - 1 \in canon /\ writing.step = "none"
    BY Zenon, <1>1, IdleFacts
  <2>2. /\ next \in Nat /\ next >= 1 /\ next <= MaxHeight /\ MaxHeight \in Nat
        /\ next \in Height \ {0}
    BY <1>1, Numbers DEF IInv, Height
  <2>3. next - 1 <= head /\ HasState(next - 1)
    <3>1. canon = 0..head /\ \A m \in (next - 1)..head : HasState(m)
      BY Zenon, <2>1 DEF IInv, OrderlyInv
    <3>2. next - 1 <= head /\ head \in Nat
      BY <2>1, <3>1, Numbers DEF IInv
    <3> QED  BY <2>2, <3>1, <3>2
  <2>4. Witness[next] \in canon
    <3>1. Witness[next] \in Height /\ Witness[next] < next
      BY Zenon, <2>2, BoundsAssumption
    <3>2. Witness[next] \in 0..(next - 1)
      BY <2>2, <3>1 DEF Height
    <3> QED  BY Zenon, <2>1, <3>2, Segment DEF IInv
  <2> QED  BY Zenon, <1>1, <2>1, <2>3, <2>4 DEF Executable, WitnessKnown
<1>4. OrderlyInv'
  BY Zenon, <1>1, <1>3 DEF OrderlyInv, Orderly, config
<1> QED  BY Zenon, <1>1, <1>2, <1>4 DEF IInv

-----------------------------------------------------------------------------
(* Stopping, crashing and starting *)

LEMMA StopStep == IInv /\ Stop => IInv'
<1> SUFFICES ASSUME IInv, Stop PROVE IInv'
  BY Zenon
<1>1. /\ Idle /\ running' = FALSE /\ stops' = stops + 1 /\ stops < MaxStops
      /\ UNCHANGED <<config, blocks, canon, diskHead, head, memStates, roundHeight,
                     next, imports, writing, crashes>>
      /\ diskStates' = IF archive THEN diskStates
                       ELSE diskStates \cup (StopStates \cap memStates)
  BY Zenon DEF Stop
<1>2. diskStates \subseteq diskStates' /\ diskStates' \subseteq Height
  BY Zenon, <1>1 DEF IInv, TypeOK
<1>3. stops' \in 0..MaxStops
  BY <1>1, BoundsAssumption DEF IInv, TypeOK
<1>4. TypeOK'
  BY Zenon, <1>1, <1>2, <1>3 DEF IInv, TypeOK, config
<1>5. DiskInv'
  BY Zenon, <1>1, <1>2 DEF IInv, DiskInv, config
<1>6. OrderlyInv'
  <2> SUFFICES ASSUME Orderly' PROVE OrderlyInv'
    BY Zenon DEF OrderlyInv
  <2>1. /\ Orderly /\ running /\ writing = NoWrite /\ writing.step = "none"
        /\ HasState(head) /\ head \in Nat
    BY Zenon, <1>1, IdleFacts, Numbers DEF Orderly, MemoryInv, IInv, config
  <2>2. head = diskHead /\ canon = 0..diskHead
    BY Zenon, <2>1 DEF IInv, OrderlyInv
  <2>3. diskHead \in diskStates'
    <3>1. CASE archive
      BY <1>2, <2>1, <2>2, <3>1 DEF IInv, DiskInv
    <3>2. CASE ~archive
      <4>1. CASE head = 0
        BY Zenon, <1>2, <2>2, <4>1 DEF IInv, DiskInv
      <4>2. CASE head > 0
        <5>1. head - 0 \in StopStates
          BY Zenon, <4>2 DEF StopStates
        <5>2. head \in StopStates
          BY <2>1, <5>1
        <5> QED  BY Zenon, <1>1, <2>1, <2>2, <3>2, <5>2 DEF HasState
      <4> QED  BY <2>1, <4>1, <4>2
    <3> QED  BY Zenon, <3>1, <3>2
  <2> QED  BY Zenon, <1>1, <2>1, <2>2, <2>3 DEF OrderlyInv
<1> QED  BY Zenon, <1>1, <1>4, <1>5, <1>6 DEF IInv

LEMMA CrashStep == IInv /\ Crash => IInv'
<1> SUFFICES ASSUME IInv, Crash PROVE IInv'
  BY Zenon
<1>1. /\ running' = FALSE /\ crashes' = crashes + 1 /\ crashes < MaxCrashes
      /\ UNCHANGED <<config, diskVars, head, memStates, roundHeight, next, imports,
                     writing, stops>>
  BY Zenon DEF Crash
<1>2. crashes' \in 0..MaxCrashes /\ crashes' # 0
  BY <1>1, BoundsAssumption DEF IInv, TypeOK
<1>3. TypeOK' /\ DiskInv'
  BY Zenon, <1>1, <1>2 DEF IInv, TypeOK, DiskInv, config, diskVars
<1>4. OrderlyInv'
  BY Zenon, <1>2 DEF OrderlyInv, Orderly
<1> QED  BY Zenon, <1>1, <1>3, <1>4 DEF IInv

LEMMA StartStep == IInv /\ RoundFacts /\ RepairFinds /\ Start => IInv'
<1> SUFFICES ASSUME IInv, RoundFacts, RepairFinds, Start PROVE IInv'
  BY Zenon
<1>0. PICK n : n = Repaired
  BY Zenon
<1>1. /\ ~running /\ running' = TRUE /\ head' = n /\ memStates' = {}
      /\ roundHeight' = StartRounds(n) /\ next' = n + 1
      /\ imports' = <<>> /\ writing' = NoWrite
      /\ archive' = archive /\ lead' = lead /\ blocks' = blocks /\ canon' = canon
      /\ diskHead' = diskHead /\ diskStates' = diskStates
      /\ stops' = stops /\ crashes' = crashes
  BY Zenon, <1>0 DEF Start, config, diskVars
<1>2. /\ n \in diskStates /\ n \in Nat /\ n <= diskHead
      /\ \A m \in (n + 1)..diskHead : m \notin diskStates
  BY Zenon, <1>0 DEF RepairFinds
<1>3. /\ diskHead \in Nat /\ MaxHeight \in Nat /\ diskHead <= MaxHeight
      /\ n \in canon /\ n \in Height /\ 0 \in Height
  BY <1>2, Segment DEF IInv, Height
<1>4. TypeOK'
  <2>1. next' \in 1..(MaxHeight + 1)
    <3>1. n + 1 \in 1..(MaxHeight + 1)
      BY SMTT(30), <1>2, <1>3
    <3> QED  BY Zenon, <1>1, <3>1
  <2>2. roundHeight' \in [Rounds -> Height \cup {Unknown}]
    BY Zenon, <1>1, <1>3 DEF RoundFacts
  <2>3. writing' \in [height : Height,
                      step : {"none", "block", "state", "canonical", "head"}]
    BY Zenon, <1>1, <1>3 DEF NoWrite
  <2> QED  BY <1>1, <1>3, <2>1, <2>2, <2>3 DEF IInv, TypeOK
<1>5. DiskInv'
  BY Zenon, <1>1 DEF IInv, DiskInv
<1>6. WritingInv'
  BY Zenon, <1>1 DEF WritingInv, NoWrite
<1>7. \A m : HasState(m)' <=> m \in diskStates
  BY Zenon, <1>1 DEF HasState
<1>8. MemoryInv'
  <2>1. head' <= diskHead' /\ HasState(head)'
    BY Zenon, <1>1, <1>2 DEF HasState
  <2>2. \A m \in (head' + 1)..diskHead' : ~HasState(m)'
    BY Zenon, <1>1, <1>2, <1>7
  <2>3. Reached(next)'
    <3>1. next' - 1 = n /\ next' <= head' + 2
      BY <1>1, <1>2
    <3> QED  BY Zenon, <1>1, <1>3, <3>1 DEF Reached
  <2>4. imports' \in Seq(SoundCalls')
    BY <1>1
  <2> QED  BY Zenon, <2>1, <2>2, <2>3, <2>4 DEF MemoryInv
<1>9. OrderlyInv'
  <2> SUFFICES ASSUME Orderly' PROVE OrderlyInv'
    BY Zenon DEF OrderlyInv
  <2>1. Orderly
    BY Zenon, <1>1 DEF Orderly
  <2>2. writing = NoWrite /\ diskHead \in diskStates
    BY Zenon, <1>1, <2>1 DEF IInv, OrderlyInv
  <2>3. canon = 0..diskHead
    BY Zenon, <2>1, <2>2 DEF IInv, OrderlyInv, NoWrite
  <2>4. n = diskHead
    BY <1>2, <1>3, <2>2
  <2>5. writing'.step = "none"
    BY Zenon, <1>1 DEF NoWrite
  <2>6. \A m \in (next' - 1)..head' : m = n
    BY <1>1, <1>2
  <2>7. \A m \in (next' - 1)..head' : HasState(m)'
    BY Zenon, <1>2, <1>7, <2>6
  <2> QED  BY Zenon, <1>1, <2>3, <2>4, <2>5, <2>7 DEF OrderlyInv
<1> QED  BY Zenon, <1>1, <1>4, <1>5, <1>6, <1>8, <1>9 DEF IInv

-----------------------------------------------------------------------------
(* The invariant *)

LEMMA InitIInv == RoundFacts /\ Init => IInv
<1> SUFFICES ASSUME RoundFacts, Init PROVE IInv
  BY Zenon
<1>1. MaxHeight \in Nat /\ 0 \in Height /\ 1 \in 1..(MaxHeight + 1)
  BY BoundsAssumption DEF Height
<1>2. TypeOK
  <2>1. roundHeight \in [Rounds -> Height \cup {Unknown}]
    BY Zenon, <1>1 DEF Init, RoundFacts
  <2>2. stops \in 0..MaxStops /\ crashes \in 0..MaxCrashes
    BY BoundsAssumption DEF Init
  <2>3. writing \in [height : Height,
                     step : {"none", "block", "state", "canonical", "head"}]
    BY Zenon, <1>1 DEF Init, NoWrite
  <2> QED  BY <1>1, <2>1, <2>2, <2>3 DEF Init, TypeOK
<1>3. DiskInv
  BY DEF Init, DiskInv
<1>4. WritingInv
  BY Zenon DEF Init, WritingInv, NoWrite
<1>5. MemoryInv
  BY DEF Init, MemoryInv, Reached, HasState
<1>6. OrderlyInv
  <2>1. writing.step = "none"
    BY Zenon DEF Init, NoWrite
  <2> QED  BY <2>1 DEF Init, OrderlyInv, HasState
<1> QED  BY Zenon, <1>2, <1>3, <1>4, <1>5, <1>6 DEF IInv

LEMMA StepIInv == IInv /\ RoundFacts /\ RepairFinds /\ [Next]_vars => IInv'
<1> SUFFICES ASSUME IInv, RoundFacts, RepairFinds, [Next]_vars PROVE IInv'
  BY Zenon
<1>1. CASE Write
  BY Zenon, <1>1, WriteBlockStep, CommitStateStep, CanonicalStep, HeadStep DEF Write
<1>2. CASE Deliver
  BY Zenon, <1>2, ProcessStep, ProcessFailsStep DEF Deliver
<1>3. CASE Loop
  BY Zenon, <1>3, LockStep, ReturnStep, SkipStep, StoreStep, PrunedStep, InsertBlockStep,
     FailsStep DEF Loop
<1>4. CASE Import
  BY Zenon, <1>4, InsertStep DEF Import
<1>5. CASE Stop \/ Crash \/ Start
  BY Zenon, <1>5, StopStep, CrashStep, StartStep
<1>6. CASE UNCHANGED vars
  <2>1. SoundCalls' = SoundCalls
    BY Zenon, <1>6 DEF SoundCalls, Reached, vars, config, diskVars
  <2>2. TypeOK' /\ DiskInv' /\ WritingInv' = WritingInv
    BY Zenon, <1>6 DEF IInv, TypeOK, DiskInv, WritingInv, HasState, vars, config, diskVars
  <2>3. MemoryInv' = MemoryInv
    BY Zenon, <1>6, <2>1 DEF MemoryInv, Reached, HasState, vars, config, diskVars
  <2>4. OrderlyInv'
    BY ZenonT(30), <1>6 DEF IInv, OrderlyInv, Orderly, HasState, vars, config, diskVars
  <2> QED  BY Zenon, <1>6, <2>2, <2>3, <2>4 DEF IInv, vars
<1> QED  BY Zenon, <1>1, <1>2, <1>3, <1>4, <1>5, <1>6 DEF Next

-----------------------------------------------------------------------------
(* roundHeightMap *)

\* The rounds of the head and of the blocks the core has yet to pass are
\* known, so a round is recorded at its first block.
RoundsInv ==
    Orderly /\ running =>
      /\ \A r \in Rounds : roundHeight[r] \in {StartOf(r), Unknown}
      /\ \A m \in Height : m <= head /\ (m = head \/ m >= next - 1) =>
                             roundHeight[Round(m)] = StartOf(Round(m))
      /\ writing.step \in {"canonical", "head"} =>
           roundHeight[Round(writing.height)] = StartOf(Round(writing.height))
      /\ writing.step = "head" => writing.height = head + 1

\* What RecordRound does with a block the core or an import has reached.
LEMMA RecordRoundRight ==
  ASSUME IInv, RoundsInv, RoundFacts, Orderly, running, NEW n \in Height, n >= 1,
         (n <= head /\ n >= next - 1) \/ n = head + 1
  PROVE  /\ \A r \in Rounds : RecordRound(n)[r] \in {StartOf(r), Unknown}
         /\ RecordRound(n)[Round(n)] = StartOf(Round(n))
         /\ \A r \in Rounds : roundHeight[r] = StartOf(r) => RecordRound(n)[r] = StartOf(r)
<1>1. /\ head \in Nat /\ head \in Height /\ n \in Nat /\ Round(n) \in Rounds
      /\ roundHeight \in [Rounds -> Height \cup {Unknown}]
  <2>1. head \in Nat /\ head \in Height /\ roundHeight \in [Rounds -> Height \cup {Unknown}]
    BY Zenon, Numbers DEF IInv, TypeOK
  <2>2. n \in Nat
    BY BoundsAssumption DEF Height
  <2> QED  BY Zenon, <2>1, <2>2 DEF RoundFacts
<1>2. \A r \in Rounds : roundHeight[r] \in {StartOf(r), Unknown}
  BY Zenon DEF RoundsInv
<1>3. CASE roundHeight[Round(n)] # Unknown
  BY Zenon, <1>1, <1>2, <1>3 DEF RecordRound
<1>4. CASE roundHeight[Round(n)] = Unknown
  <2>1. \A m \in Height : StartOf(Round(m)) # Unknown
    <3>1. \A h \in Height : h # Unknown
      BY BoundsAssumption DEF Height, Unknown
    <3> QED  BY Zenon, <3>1 DEF RoundFacts
  <2>2. roundHeight[Round(head)] # Unknown
    BY <1>1, <2>1 DEF RoundsInv
  <2>3. n = head + 1
    BY Zenon, <1>1, <1>4, <2>1 DEF RoundsInv
  <2>4. n - 1 = head
    BY <1>1, <2>3
  <2>5. Round(n) # Round(n - 1)
    BY Zenon, <1>4, <2>2, <2>4
  <2>6. StartOf(Round(n)) = n
    BY Zenon, <2>5 DEF RoundFacts
  <2>7. RecordRound(n) = [roundHeight EXCEPT ![Round(n)] = n]
    BY Zenon, <1>4 DEF RecordRound
  <2> QED  BY Zenon, <1>1, <1>2, <2>6, <2>7
<1> QED  BY Zenon, <1>3, <1>4

\* In order, the block being written is the one after the head.
LEMMA WritingNext ==
  ASSUME IInv, Orderly, running, writing.step # "none", writing.step # "head"
  PROVE  writing.height = head + 1
<1>1. /\ head = diskHead /\ canon = 0..diskHead /\ WritingInv
  BY Zenon DEF IInv, OrderlyInv
<1>2. writing.step \in {"block", "state", "canonical"}
  BY Zenon DEF IInv, TypeOK
<1>3. writing.height \in Nat /\ head \in Nat
  BY Zenon, Numbers DEF IInv
<1>4. writing.height - 1 \in 0..head /\ (writing.height \notin 0..head \/ head < writing.height)
  BY Zenon, <1>1, <1>2 DEF WritingInv
<1> QED  BY <1>3, <1>4

LEMMA RoundsStep ==
  ASSUME IInv, RoundsInv, RoundFacts, RepairFinds, [Next]_vars
  PROVE  RoundsInv'
<1> SUFFICES ASSUME Orderly', running' PROVE RoundsInv'
  BY Zenon DEF RoundsInv
<1> USE DEF config, diskVars
\* A step that leaves the rounds alone and writes at most a block.
<1>1. ASSUME roundHeight' = roundHeight, head' = head, next' = next, running' = running,
             archive' = archive, lead' = lead, crashes' = crashes,
             writing' = writing \/ writing'.step \in {"block", "state"}
      PROVE  RoundsInv'
  BY Zenon, <1>1 DEF RoundsInv, Orderly
<1>2. CASE WriteBlock
  <2>1. writing'.step = "state"
    BY ZenonT(30), <1>2, Numbers DEF WriteBlock, IInv
  <2> QED  BY Zenon, <1>1, <1>2, <2>1 DEF WriteBlock
<1>3. CASE CommitState
  <2>1. PICK n : n = writing.height
    BY Zenon
  <2>2. /\ running /\ writing.step = "state" /\ roundHeight' = RecordRound(n)
        /\ head' = head /\ next' = next /\ Orderly
    BY Zenon, <1>3, <2>1 DEF CommitState, Orderly
  <2>3. writing' = [height |-> n, step |-> "canonical"]
    <3>1. writing = [height |-> writing.height, step |-> writing.step]
      BY ZenonT(30), Numbers DEF IInv
    <3> QED  BY Zenon, <1>3, <2>1, <3>1 DEF CommitState
  <2>4. n \in Height /\ n >= 1 /\ n = head + 1
    BY SMTT(30), <2>1, <2>2, WritingNext, Numbers DEF IInv, TypeOK
  <2>5. /\ \A r \in Rounds : roundHeight'[r] \in {StartOf(r), Unknown}
        /\ roundHeight'[Round(n)] = StartOf(Round(n))
        /\ \A r \in Rounds : roundHeight[r] = StartOf(r) => roundHeight'[r] = StartOf(r)
    BY Zenon, <2>2, <2>4, RecordRoundRight
  <2>6. \A m \in Height : Round(m) \in Rounds
    BY Zenon DEF RoundFacts
  <2> QED  BY Zenon, <2>2, <2>3, <2>5, <2>6 DEF RoundsInv
<1>4. CASE WriteCanonicalHash
  <2>1. /\ running /\ writing.step = "canonical" /\ roundHeight' = roundHeight
        /\ head' = head /\ next' = next /\ Orderly
    BY Zenon, <1>4 DEF WriteCanonicalHash, Orderly
  <2>2. writing' = [height |-> writing.height, step |-> "head"]
    <3>1. writing = [height |-> writing.height, step |-> writing.step]
      BY Zenon, Numbers DEF IInv
    <3> QED  BY Zenon, <1>4, <3>1 DEF WriteCanonicalHash
  <2>3. writing.height = head + 1
    BY Zenon, <2>1, WritingNext
  <2> QED  BY Zenon, <2>1, <2>2, <2>3 DEF RoundsInv
<1>5. CASE WriteHeadBlockHash
  <2>1. /\ running /\ writing.step = "head" /\ roundHeight' = roundHeight
        /\ head' = head + 1 /\ next' = next /\ Orderly
    BY Zenon, <1>5 DEF WriteHeadBlockHash, Orderly, Reorg
  <2>2. writing.height = head + 1 /\ head \in Nat
    BY Zenon, <2>1, Numbers DEF RoundsInv, IInv
  <2>3. writing'.step = "none"
    BY <1>5, <2>2 DEF WriteHeadBlockHash, Reorg, NoWrite
  <2>4. roundHeight[Round(head + 1)] = StartOf(Round(head + 1))
    BY Zenon, <2>1, <2>2 DEF RoundsInv
  <2>5. ASSUME NEW m \in Height, m <= head + 1, m = head + 1 \/ m >= next - 1
        PROVE  roundHeight[Round(m)] = StartOf(Round(m))
    <3>1. CASE m = head + 1
      BY Zenon, <2>4, <3>1
    <3>2. CASE m # head + 1
      <4>1. m \in Nat /\ m <= head /\ m >= next - 1
        BY SMTT(30), <2>2, <2>5, <3>2, BoundsAssumption DEF Height
      <4> QED  BY Zenon, <2>1, <4>1 DEF RoundsInv
    <3> QED  BY Zenon, <3>1, <3>2
  <2> QED  BY Zenon, <2>1, <2>3, <2>5 DEF RoundsInv
<1>6. CASE ProcessBlock \/ ProcessEmptyBlock
  <2>1. PICK n : n = next
    BY Zenon
  <2>2. /\ Idle /\ Execute(n) /\ n <= MaxHeight
    BY Zenon, <1>6, <2>1 DEF ProcessBlock, ProcessEmptyBlock, ChainUnlocked
  <2>3. /\ roundHeight' = RecordRound(n) /\ next' = n + 1 /\ head' = head /\ Orderly
        /\ writing' = writing \/ writing'.step = "block"
    BY <2>2 DEF Execute, Orderly, BeginWrite
  <2>4. running /\ writing.step = "none" /\ n - 1 \in canon
    BY Zenon, <2>1, <2>2, IdleFacts
  <2>5. n \in Height /\ n \in Nat /\ n >= 1 /\ head \in Nat
    BY <2>1, <2>2, Numbers DEF IInv, Height
  <2>6. n <= head + 1
    <3>1. canon = 0..head
      BY Zenon, <2>3, <2>4 DEF IInv, OrderlyInv
    <3> QED  BY <2>4, <2>5, <3>1
  <2>7. (n <= head /\ n >= next - 1) \/ n = head + 1
    BY <2>1, <2>5, <2>6
  <2>8. /\ \A r \in Rounds : roundHeight'[r] \in {StartOf(r), Unknown}
        /\ \A r \in Rounds : roundHeight[r] = StartOf(r) => roundHeight'[r] = StartOf(r)
    BY ZenonT(30), <2>3, <2>4, <2>5, <2>7, RecordRoundRight
  <2>9. ASSUME NEW m \in Height, m <= head, m = head \/ m >= n
        PROVE  roundHeight'[Round(m)] = StartOf(Round(m))
    <3>1. m = head \/ m >= next - 1
      BY <2>1, <2>5, <2>9, BoundsAssumption DEF Height
    <3>2. roundHeight[Round(m)] = StartOf(Round(m))
      BY Zenon, <2>3, <2>4, <2>9, <3>1 DEF RoundsInv
    <3> QED  BY Zenon, <2>8, <3>2 DEF RoundFacts
  <2>10. next' - 1 = n /\ writing'.step \notin {"canonical", "head"}
    BY <2>3, <2>4, <2>5
  <2> QED  BY Zenon, <2>3, <2>8, <2>9, <2>10 DEF RoundsInv
<1>7. CASE Loop
  <2>1. CASE InsertBlock
    <3>1. writing' = writing \/ writing' = [height |-> Current.pos, step |-> "block"]
      BY Zenon, <2>1 DEF InsertBlock, BeginWrite
    <3>2. writing' = writing \/ writing'.step \in {"block", "state"}
      BY <3>1
    <3> QED  BY Zenon, <1>1, <2>1, <3>2 DEF InsertBlock
  <2>2. CASE Lock \/ InsertReturns \/ SkipKnownBlock \/ SkipCompetitor
    BY Zenon, <1>1, <2>2 DEF Lock, InsertReturns, SkipKnownBlock, SkipCompetitor
  <2>3. CASE ImportPruned \/ InsertFails
    BY Zenon, <1>1, <2>3 DEF ImportPruned, InsertFails
  <2> QED  BY Zenon, <1>7, <2>1, <2>2, <2>3 DEF Loop
<1>8. CASE Import
  BY Zenon, <1>1, <1>8 DEF Import, InsertTangerineChain
<1>9. CASE Start
  <2>1. PICK n : n = Repaired
    BY Zenon
  <2>2. /\ head' = n /\ next' = n + 1 /\ writing' = NoWrite /\ roundHeight' = StartRounds(n)
    BY Zenon, <1>9, <2>1 DEF Start
  <2>3. n \in Nat /\ n \in Height /\ Round(n) \in Rounds
    BY Zenon, <2>1 DEF RepairFinds, RoundFacts, IInv, TypeOK
  <2>4. /\ \A r \in Rounds : roundHeight'[r] \in {StartOf(r), Unknown}
        /\ roundHeight'[Round(n)] = StartOf(Round(n))
    BY Zenon, <2>2, <2>3 DEF StartRounds
  <2>5. \A m \in Height : m <= n /\ (m = n \/ m >= next' - 1) => m = n
    BY <2>2, <2>3, BoundsAssumption DEF Height
  <2>6. writing'.step = "none"
    BY Zenon, <2>2 DEF NoWrite
  <2> QED  BY Zenon, <2>2, <2>4, <2>5, <2>6 DEF RoundsInv
<1>10. CASE ProcessFails \/ Stop \/ Crash
  BY Zenon, <1>10 DEF ProcessFails, Stop, Crash
<1>11. CASE UNCHANGED vars
  BY Zenon, <1>1, <1>11 DEF vars
<1> QED  BY ZenonT(30), <1>2, <1>3, <1>4, <1>5, <1>6, <1>7, <1>8, <1>9, <1>10, <1>11
         DEF Next, Write, Deliver

LEMMA InitRounds == RoundFacts /\ Init => RoundsInv
<1> SUFFICES ASSUME RoundFacts, Init PROVE RoundsInv
  BY Zenon
<1>1. 0 \in Height /\ Round(0) \in Rounds /\ \A m \in Height : m <= 0 => m = 0
  <2>1. 0 \in Height /\ \A m \in Height : m <= 0 => m = 0
    BY BoundsAssumption DEF Height
  <2> QED  BY Zenon, <2>1 DEF RoundFacts
<1>2. \A r \in Rounds : roundHeight[r] \in {StartOf(r), Unknown}
  BY Zenon DEF Init, StartRounds
<1>3. roundHeight[Round(0)] = StartOf(Round(0))
  BY Zenon, <1>1 DEF Init, StartRounds
<1>4. head = 0 /\ writing.step = "none"
  BY Zenon DEF Init, NoWrite
<1> QED  BY Zenon, <1>1, <1>2, <1>3, <1>4 DEF RoundsInv

-----------------------------------------------------------------------------
(* Numbers and rounds, from theorems on finite sets and well-founded orders *)

INSTANCE FiniteSetTheorems

\* A nonempty set of naturals has a least element.
LEMMA LeastNat ==
  ASSUME NEW S \in SUBSET Nat, S # {}
  PROVE  \E n \in S : \A m \in S : n <= m
<1>1. IsWellFoundedOn(OpToRel(<, Nat), Nat)
  BY Zenon, NatLessThanWellFounded
<1>2. PICK n \in S : \A m \in S : ~(<<m, n>> \in OpToRel(<, Nat))
  BY Zenon, <1>1, WFMin
<1>3. \A m \in S : ~(m < n)
  BY Zenon, <1>2 DEF OpToRel
<1> QED  BY <1>3

\* A set of naturals with an element up to b has a greatest one.
LEMMA GreatestNat ==
  ASSUME NEW S \in SUBSET Nat, NEW b \in Nat, NEW e \in S, e <= b
  PROVE  \E n \in S : n <= b /\ \A m \in (n + 1)..b : m \notin S
<1> DEFINE D == {d \in Nat : d <= b /\ b - d \in S}
<1>1. b - e \in D
  <2>1. b - (b - e) = e /\ b - e \in Nat /\ b - e <= b
    OBVIOUS
  <2> QED  BY Zenon, <2>1
<1>2. PICK d \in D : \A c \in D : d <= c
  BY Zenon, <1>1, LeastNat
<1>3. \A m \in (b - d + 1)..b : m \notin S
  <2> SUFFICES ASSUME NEW m \in (b - d + 1)..b, m \in S PROVE FALSE
    BY Zenon
  <2>1. b - m \in Nat /\ b - (b - m) = m /\ b - m < d /\ b - m <= b
    BY <1>2
  <2>2. b - m \in D
    BY Zenon, <2>1
  <2> QED  BY <1>2, <2>1, <2>2
<1> QED  BY <1>2, <1>3

-----------------------------------------------------------------------------
(* Rounds *)

LEMMA RoundType ==
  ASSUME NEW n \in Height
  PROVE  /\ Round(n) \in Rounds /\ Rounds \subseteq Nat
         /\ IsFiniteSet({s \in RoundStart : s <= n})
<1>1. IsFiniteSet(Height)
  BY FS_Interval, BoundsAssumption DEF Height
<1>2. IsFiniteSet(RoundStart)
  BY ZenonT(30), <1>1, FS_Subset, BoundsAssumption
<1>3. /\ IsFiniteSet({s \in RoundStart : s <= n})
      /\ Cardinality({s \in RoundStart : s <= n}) <= Cardinality(RoundStart)
  BY Zenon, <1>2, FS_Subset
<1>4. /\ Cardinality({s \in RoundStart : s <= n}) \in Nat
      /\ Cardinality(RoundStart) \in Nat
  BY ZenonT(30), <1>2, <1>3, FS_CardinalityType
<1> QED  BY <1>3, <1>4 DEF Round, Rounds

\* A round some block is in has a first block.
LEMMA StartOfType ==
  ASSUME NEW n \in Height
  PROVE  StartOf(Round(n)) \in Height
<1> DEFINE S == {m \in Height : Round(m) = Round(n)}
<1>1. S \in SUBSET Nat /\ n \in S
  BY BoundsAssumption DEF Height
<1>2. PICK m \in S : \A k \in S : m <= k
  BY Zenon, <1>1, LeastNat
<1>3. \E i \in Height : Round(i) = Round(n) /\ \A k \in Height :
                          Round(k) = Round(n) => i <= k
  BY Zenon, <1>2
<1> QED  BY Zenon, <1>3 DEF StartOf

\* So has the round before it.
LEMMA PreviousRound ==
  ASSUME NEW n \in Height, Round(n) # 0
  PROVE  \E m \in Height : Round(m) = Round(n) - 1
<1> DEFINE S == {s \in RoundStart : s <= n}
<1>1. IsFiniteSet(S) /\ Round(n) = Cardinality(S)
  BY Zenon, RoundType DEF Round
<1>2. PICK e \in S : TRUE
  BY Zenon, <1>1, FS_EmptySet
<1>3. S \in SUBSET Nat /\ n \in Nat /\ e <= n
  <2>1. RoundStart \subseteq Nat /\ n \in Nat
    BY BoundsAssumption DEF Height
  <2>2. e <= n
    BY Zenon, <1>2
  <2> QED  BY ZenonT(30), <2>1, <2>2
<1>4. PICK s \in S : s <= n /\ \A m \in (s + 1)..n : m \notin S
  BY ZenonT(30), <1>2, <1>3, GreatestNat
<1>5. s - 1 \in Height /\ s \in Nat
  BY <1>4, BoundsAssumption DEF Height
<1>6. {t \in RoundStart : t <= s - 1} = S \ {s}
  <2>1. RoundStart \subseteq Nat
    BY BoundsAssumption DEF Height
  <2>2. \A t \in S : t <= s
    BY <1>3, <1>4, <1>5
  <2>3. ASSUME NEW t \in RoundStart PROVE t <= s - 1 <=> t \in S \ {s}
    <3>1. t \in Nat
      BY Zenon, <2>1
    <3>2. t <= s - 1 => t <= n /\ t # s
      BY SMTT(30), <1>3, <1>4, <1>5, <3>1
    <3>3. t \in S \ {s} => t <= s - 1
      BY <1>5, <2>2, <3>1
    <3> QED  BY Zenon, <3>2, <3>3
  <2> QED  BY Zenon, <2>3
<1>7. Cardinality(S \ {s}) = Cardinality(S) - 1
  BY ZenonT(30), <1>1, <1>4, FS_RemoveElement
<1>8. Round(s - 1) = Round(n) - 1
  BY ZenonT(30), <1>1, <1>6, <1>7 DEF Round
<1> QED  BY Zenon, <1>5, <1>8

LEMMA StartRoundsType ==
  ASSUME NEW n \in Height
  PROVE  StartRounds(n) \in [Rounds -> Height \cup {Unknown}]
<1> SUFFICES ASSUME NEW r \in Rounds, r \in {Round(n) - 1, Round(n)}
             PROVE  StartOf(r) \in Height
  BY Zenon DEF StartRounds
<1>1. Round(n) \in Rounds /\ Rounds \subseteq Nat
  BY Zenon, RoundType
<1>2. CASE r = Round(n)
  BY Zenon, <1>2, StartOfType
<1>3. CASE r = Round(n) - 1
  <2>1. Round(n) # 0
    BY <1>1, <1>3
  <2>2. PICK m \in Height : Round(m) = r
    BY Zenon, <1>3, <2>1, PreviousRound
  <2> QED  BY Zenon, <2>2, StartOfType
<1> QED  BY Zenon, <1>2, <1>3

\* A block whose parent is of another round is the first of its round.
LEMMA FirstOfRound ==
  ASSUME NEW n \in Height, n >= 1, Round(n) # Round(n - 1)
  PROVE  StartOf(Round(n)) = n
<1>1. /\ n \in Nat /\ n - 1 \in Height /\ MaxHeight \in Nat
      /\ \A m \in Height : m \in Nat
  BY BoundsAssumption DEF Height
<1>2. ASSUME NEW k \in Height, NEW m \in Height, m <= k
      PROVE  Round(m) <= Round(k)
  <2>1. {s \in RoundStart : s <= m} \subseteq {s \in RoundStart : s <= k}
    <3>1. m \in Nat /\ k \in Nat /\ \A s \in RoundStart : s \in Nat
      BY BoundsAssumption DEF Height
    <3> QED  BY <1>2, <3>1
  <2>2. IsFiniteSet({s \in RoundStart : s <= k})
    BY Zenon, RoundType
  <2> QED  BY Zenon, <2>1, <2>2, FS_Subset DEF Round
<1>3. \A m \in Height : Round(m) = Round(n) => n <= m
  <2> SUFFICES ASSUME NEW m \in Height, Round(m) = Round(n), m < n PROVE FALSE
    BY <1>1
  <2>1. m <= n - 1 /\ n - 1 <= n
    BY <1>1
  <2>2. Round(m) <= Round(n - 1) /\ Round(n - 1) <= Round(n)
    BY Zenon, <1>1, <1>2, <2>1
  <2>3. Round(n) \in Nat /\ Round(n - 1) \in Nat
    BY Zenon, <1>1, RoundType
  <2> QED  BY <2>2, <2>3
<1>4. \E i \in Height : Round(i) = Round(n) /\ \A m \in Height : Round(m) = Round(n) => i <= m
  BY Zenon, <1>3
<1>5. StartOf(Round(n)) \in Height /\ Round(StartOf(Round(n))) = Round(n)
      /\ \A m \in Height : Round(m) = Round(n) => StartOf(Round(n)) <= m
  BY Zenon, <1>4 DEF StartOf
<1>6. StartOf(Round(n)) <= n /\ n <= StartOf(Round(n))
  BY Zenon, <1>3, <1>5
<1>7. StartOf(Round(n)) \in Nat
  BY ZenonT(30), <1>1, <1>5
<1> QED  BY SMTT(30), <1>1, <1>6, <1>7

\* repair finds the highest block up to the head on disk whose state is on
\* disk.
LEMMA RepairedIs ==
  ASSUME TypeOK, DiskInv
  PROVE  RepairFinds
<1>1. diskStates \in SUBSET Nat /\ diskHead \in Nat /\ 0 \in diskStates /\ 0 <= diskHead
  BY BoundsAssumption DEF TypeOK, DiskInv, Height
<1>2. \E n \in diskStates : n <= diskHead /\ \A m \in (n + 1)..diskHead : m \notin diskStates
  BY Zenon, <1>1, GreatestNat
<1> QED  BY ZenonT(30), <1>1, <1>2 DEF Repaired, RepairFinds

LEMMA RoundsHold == RoundFacts
BY ZenonT(30), RoundType, StartOfType, StartRoundsType, FirstOfRound DEF RoundFacts

LEMMA Invariance == Spec => [](IInv /\ RoundsInv)
<1>1. Init => IInv /\ RoundsInv
  BY Zenon, RoundsHold, InitIInv, InitRounds
<1>2. IInv /\ RoundsInv /\ [Next]_vars => (IInv /\ RoundsInv)'
  <2>1. IInv => RepairFinds
    BY Zenon, RepairedIs DEF IInv
  <2> QED  BY Zenon, <2>1, RoundsHold, StepIInv, RoundsStep
<1> QED  BY <1>1, <1>2, PTL DEF Spec

-----------------------------------------------------------------------------
(* The theorems *)

\* Whatever crash cuts WriteBlockWithState short, and whatever a peer sends,
\* the canonical numbers on disk have no gap, name written blocks and reach
\* the head on disk or the block after it.
THEOREM ChainStaysContiguous == Spec => []ChainContiguous
<1>1. IInv => ChainContiguous
  BY ZenonT(30) DEF IInv, DiskInv, ChainContiguous
<1> QED  BY <1>1, Invariance, PTL

\* The garbage collector of WriteBlockWithState never takes the state of the
\* head, and repair finds a head with a state: a running node has the state it
\* executes the next block on.
THEOREM HeadHasState == Spec => []HeadStateAvailable
<1>1. IInv => HeadStateAvailable
  BY ZenonT(30) DEF IInv, MemoryInv, HeadStateAvailable
<1> QED  BY <1>1, Invariance, PTL

\* A full node stopped in order, and an archive node however it ends, starts
\* with the head it wrote.
THEOREM HeadIsDurable == Spec => []HeadDurable
<1>1. IInv => HeadDurable
  <2> SUFFICES ASSUME IInv, archive \/ Orderly, running PROVE head = diskHead
    BY Zenon DEF HeadDurable
  <2>1. CASE Orderly
    BY Zenon, <2>1 DEF IInv, OrderlyInv
  <2>2. CASE archive
    <3>1. /\ head \in Nat /\ diskHead \in Nat /\ head <= diskHead
          /\ diskHead \in canon
      BY Numbers, Segment DEF IInv, MemoryInv
    <3>2. HasState(diskHead)
      BY ZenonT(30), <2>2, <3>1 DEF IInv, DiskInv, HasState
    <3> QED  BY <3>1, <3>2 DEF IInv, MemoryInv
  <2> QED  BY Zenon, <2>1, <2>2
<1> QED  BY <1>1, Invariance, PTL

\* BlockDelivered finds the state its block is executed on: always on an
\* archive node, and on a full node that was not cut short as long as imports
\* stay within triesInMemory blocks of the core.
THEOREM CoreFindsItsState == Spec => []StateForCore
<1>1. IInv => StateForCore
  <2> SUFFICES ASSUME IInv, archive \/ Orderly, Idle PROVE HasState(next - 1)
    BY Zenon DEF StateForCore
  <2>1. next - 1 \in canon /\ running /\ writing.step = "none"
    BY Zenon, IdleFacts
  <2>2. CASE archive
    BY Zenon, <2>1, <2>2 DEF IInv, DiskInv, HasState
  <2>3. CASE Orderly
    <3>1. canon = 0..head /\ \A m \in (next - 1)..head : HasState(m)
      BY ZenonT(30), <2>1, <2>3 DEF IInv, OrderlyInv
    <3>2. next \in Nat /\ next - 1 <= head /\ head \in Nat
      BY SMTT(30), <2>1, <3>1, Numbers DEF IInv
    <3> QED  BY <3>1, <3>2
  <2> QED  BY Zenon, <2>2, <2>3
<1> QED  BY <1>1, Invariance, PTL

\* On a node that was not cut short, every block insertTangerineChain has gone
\* past, in every call it makes of itself, is at or below the head.
THEOREM InsertsBecomeHead == Spec => []OrderlyInserts
<1>1. IInv => OrderlyInserts
  <2> SUFFICES ASSUME IInv, Orderly, Idle, NEW i \in 1..Len(imports)
               PROVE  imports[i].pos <= head + 1
    BY Zenon DEF OrderlyInserts, InsertedIsHead
  <2>1. /\ running /\ writing.step = "none" /\ imports \in Seq(SoundCalls)
        /\ \A p : Reached(p) => p - 1 \in canon
    BY Zenon, IdleFacts
  <2>2. imports[i] \in SoundCalls
    BY <2>1
  <2>3. imports[i].pos \in Nat /\ imports[i].pos - 1 \in canon
    BY SMTT(30), <2>1, <2>2, BoundsAssumption DEF SoundCalls, Calls
  <2>4. canon = 0..head /\ head \in Nat
    BY Zenon, <2>1, Numbers DEF IInv, OrderlyInv
  <2> QED  BY SMTT(30), <2>3, <2>4
<1> QED  BY <1>1, Invariance, PTL

\* roundHeightMap, which decides what states a full node always writes, never
\* holds another block than the first of its round, across imports and orderly
\* stops.
THEOREM RoundHeightsStayRight == Spec => []RoundHeightsRight
<1>1. RoundsInv => RoundHeightsRight
  BY Zenon DEF RoundsInv, RoundHeightsRight
<1> QED  BY <1>1, Invariance, PTL
=============================================================================
