------------------------------ MODULE CoreNode ------------------------------
(***************************************************************************)
(* One node's consensus core around the Byzantine agreement: how the       *)
(* decision of a position, learned from votes, from an agreement result or *)
(* from a finalized block, becomes a block of the chain that is delivered  *)
(* in order, and how the agreement moves to the next position.  Four kinds *)
(* of goroutines meet here: the message loop (Consensus.processMsg), the   *)
(* block loop (processBlockLoop), the agreement's loop (agreementMgr.runBA *)
(* and baRoutineForOneRound) and the goroutines that pull missing blocks.  *)
(* They meet on the lock of the agreement, on processBlockChan and on      *)
(* restartNotary, a channel of capacity one.                               *)
(*                                                                         *)
(* The rest of the network decides every height; its messages about a      *)
(* height arrive in any order, late or never, which covers a node at the   *)
(* front of the network as well as one far behind it.                      *)
(* The node is in the notary set of both rounds.                           *)
(* Rounds are those with block randomness (from DKGDelayRound on).  A      *)
(* block is its height: the agreement decides one block per position       *)
(* (module Agreement).  Height 0 is delivered before the core starts.      *)
(***************************************************************************)
EXTENDS Naturals, Sequences

CONSTANTS
  LastHeight,     \* bound: the network decides no further height
  RoundStart,     \* the first height of the second round
  EmptyHeights,   \* the heights that may be decided empty
  BlockChanSize   \* the capacity of processBlockChan (1024 in the code)

ASSUME HeightsAssumption ==
  /\ LastHeight \in Nat
  /\ RoundStart \in 2..LastHeight
  /\ EmptyHeights \subseteq 1..LastHeight
  /\ BlockChanSize \in Nat \ {0}

VARIABLES
  empty,    \* the heights whose decision is the empty block
  bc,       \* blockChain
  agr,      \* agreement: position, hasOutput and candidate blocks
  msg,      \* what the message loop is in the middle of
  touched,  \* processedBAResult
  pull,     \* baConfirmedBlock: who waits for the block of a height
  pulled,   \* blocks handed to the goroutines that confirm them
  queue,    \* processBlockChan
  notary,   \* restartNotary
  confirm,  \* the call of ConfirmBlock that holds the agreement's lock
  ba        \* the loop of the agreement

messages == <<msg, touched>>
pulling == <<pull, pulled>>
vars == <<empty, bc, agr, messages, pulling, queue, notary, confirm, ba>>

Heights == 1..LastHeight
MaxUint64 == LastHeight + 2      \* above every height a node proposes

-----------------------------------------------------------------------------
(* Positions. *)

Round(h) == IF h < RoundStart THEN 1 ELSE 2
Position(h) == [round |-> Round(h), height |-> h]
Positions == [round : 0..2, height : 0..MaxUint64]

\* The position of an agreement that is stopped.
Stopped == [round |-> 0, height |-> MaxUint64]

isStop(p) == p.height = MaxUint64

Newer(p, q) == p.round > q.round \/ (p.round = q.round /\ p.height > q.height)

RoundEndHeight(r) == IF r = 1 THEN RoundStart ELSE MaxUint64

-----------------------------------------------------------------------------
(* The chain: lastConfirmed, lastDelivered, the confirmed blocks that have  *)
(* their randomness, the pending records with and without a block, and the  *)
(* pending randomnesses; lastPosition is what was delivered when the last   *)
(* agreement result came.                                                   *)

Chains == [tip : 0..LastHeight, delivered : 0..LastHeight,
           random : SUBSET Heights, pending : SUBSET Heights,
           missing : SUBSET Heights, pendingRandomness : SUBSET Heights,
           lastPosition : 0..LastHeight]

\* The last of the consecutive heights of S that follow h.
LastOf(h, S) ==
  CHOOSE t \in h..LastHeight : (h + 1)..t \subseteq S /\ t + 1 \notin S

checkIfBlocksConfirmed(c) ==
  LET t == LastOf(c.tip, c.pending \cup c.missing)
  IN [c EXCEPT !.tip = t,
               !.random = @ \cup {h \in c.pending : h <= t},
               !.pending = {h \in @ : h > t},
               !.missing = {h \in @ : h > t}]

\* addBlock without the check of the pending blocks.
addBlockAlone(c, h, final) ==
  LET d == [c EXCEPT !.pendingRandomness = @ \ {h}]
  IN IF h <= c.tip THEN (IF final THEN c ELSE d)
     ELSE IF h = c.tip + 1 THEN [d EXCEPT !.tip = h, !.random = @ \cup {h}]
     ELSE [d EXCEPT !.pending = @ \cup {h}, !.missing = @ \ {h}]

\* A block without randomness of its own takes the pending one.
addBlock(c, h, final) ==
  LET d == [c EXCEPT !.pendingRandomness = @ \ {h}]
  IN IF h <= c.tip THEN (IF final THEN c ELSE d)
     ELSE IF h = c.tip + 1
          THEN checkIfBlocksConfirmed(
                 [d EXCEPT !.tip = h, !.random = @ \cup {h}])
     ELSE [d EXCEPT !.pending = @ \cup {h}, !.missing = @ \ {h}]

\* The empty block of a height gets its randomness after it is confirmed:
\* ConfirmBlock sets it and calls addBlockRandomness.
addEmptyBlock(c, h) ==
  LET d == checkIfBlocksConfirmed([c EXCEPT !.tip = h, !.random = @ \cup {h}])
  IN [d EXCEPT !.pendingRandomness = @ \cup {h}]

extractBlocks(c) ==
  LET ready == {h \in c.random \cup c.pendingRandomness : h <= c.tip}
      d == LastOf(c.delivered, ready)
  IN [c EXCEPT !.delivered = d,
               !.random = {h \in @ : h > d},
               !.pendingRandomness =
                 @ \ ((c.delivered + 1)..d \ c.random)]

confirmed(h) == h <= bc.tip \/ h \in bc.pending

tipRound == Round(bc.tip + 1)

-----------------------------------------------------------------------------
NoCall == [stage |-> "idle", height |-> 0, msg |-> FALSE]
Idle == [pc |-> "idle", height |-> 0]

Init ==
  /\ empty \in SUBSET EmptyHeights
  /\ bc = [tip |-> 0, delivered |-> 0, random |-> {}, pending |-> {},
           missing |-> {}, pendingRandomness |-> {}, lastPosition |-> 0]
  /\ agr = [pos |-> Stopped, out |-> FALSE,
            candidate |-> [h \in Heights |-> "none"]]
  /\ msg = Idle
  /\ touched = {}
  /\ pull = [h \in Heights |-> "none"]
  /\ pulled = {}
  /\ queue = <<>>
  /\ notary = <<>>
  /\ confirm = NoCall
  /\ ba = [pc |-> "runBA", round |-> 1, old |-> Stopped, at |-> Stopped,
           ret |-> "loop"]

Unlocked == confirm.stage = "idle"

-----------------------------------------------------------------------------
(* ConfirmBlock, called with the agreement's lock held.  The caller says    *)
(* what is known of the block (known), whether the votes came with it, and  *)
(* whether it is the message loop that waits for the call.                  *)

\* It gives up when somebody waits for any block.
PullParentAlone(p, h) ==
  IF h <= 1 \/ confirmed(h - 1) \/ (\E g \in Heights : p[g] # "none") THEN p
  ELSE [p EXCEPT ![h - 1] = "parent"]

\* The goroutine that pulls the parents of h: it gives up when somebody
\* waits for the parent already.
PullParent(p, h) ==
  IF h <= 1 \/ confirmed(h - 1) \/ p[h - 1] # "none" THEN p
  ELSE [p EXCEPT ![h - 1] = "parent"]

\* The node's own result goes to the message loop through a channel of its
\* own, and races with the results of the others: when it comes first
\* (touchAgreementResult), theirs are ignored.
SelfAgreementResult(h) == touched' \in {touched, touched \cup {h}}

\* A send that does not wait: a block is dropped when there is no room.
EnqueueOrDrop(b) ==
  queue' = IF Len(queue) < BlockChanSize THEN Append(queue, b) ELSE queue

\* The send to processBlockChan waits for room in it.
Enqueue(b) == Len(queue) < BlockChanSize /\ queue' = Append(queue, b)

Cleaning(h, inLoop) == [stage |-> "clean", height |-> h, msg |-> inLoop]

\* The empty block was decided by votes, whose hash is the null hash.
ConfirmEmpty(h) ==
  /\ \/ /\ h <= bc.tip
        /\ UNCHANGED <<bc, touched, confirm>>
     \/ /\ h = bc.tip + 1
        /\ bc' = addEmptyBlock(bc, h)
        /\ SelfAgreementResult(h)
        /\ confirm' = Cleaning(h, FALSE)
     \/ /\ h > bc.tip + 1
        /\ bc' = [bc EXCEPT !.missing = @ \cup {h}]
        /\ UNCHANGED <<touched, confirm>>
  /\ UNCHANGED <<pull, queue>>

\* A block is confirmed by its hash.  An unknown one is pulled first.
ConfirmBlock(h, known, votes, inLoop) ==
  IF known = "none"
  THEN /\ pull' = [pull EXCEPT ![h] = IF votes THEN "votes" ELSE "result"]
       /\ UNCHANGED <<touched, queue, confirm>>
  ELSE /\ IF votes THEN SelfAgreementResult(h) ELSE UNCHANGED touched
       /\ pull' = PullParent(pull, h)
       /\ IF h \in empty THEN UNCHANGED queue
          ELSE Enqueue([height |-> h, final |-> votes \/ known = "final"])
       /\ confirm' = Cleaning(h, inLoop)

\* The channel is left as it is.
CleanNothing ==
  /\ confirm.stage = "clean"
  /\ confirm' = [confirm EXCEPT !.stage = "send"]
  /\ UNCHANGED <<empty, bc, agr, messages, pulling, queue, notary, ba>>

\* Clean restartNotary.  A sender that is blocked on the full channel puts
\* its value into the buffer as the old one is taken: the loop takes both.
CleanChannel ==
  /\ confirm.stage = "clean"
  /\ confirm' = [confirm EXCEPT !.stage = "send"]
  /\ notary' = <<>>
  /\ \/ UNCHANGED ba
     \/ /\ ba.pc = "runBA" /\ notary # <<>>
        /\ ba' = [ba EXCEPT !.pc = "loop", !.old = agr.pos]
  /\ UNCHANGED <<empty, bc, agr, messages, pulling, queue>>

\* The send of the confirmed position and the release of the lock.  The
\* message loop, when it made the call, goes on to deliverFinalizedBlocks.
SendPosition ==
  /\ confirm.stage = "send" /\ notary = <<>>
  /\ notary' = <<Position(confirm.height)>>
  /\ confirm' = NoCall
  /\ IF confirm.msg THEN bc' = extractBlocks(bc) /\ msg' = Idle
     ELSE UNCHANGED <<bc, msg>>
  /\ UNCHANGED <<empty, agr, touched, pulling, queue, ba>>

-----------------------------------------------------------------------------
(* The agreement's own operations. *)

\* The proposals that may have arrived for position p before the agreement
\* got there, and that it replays.
Replayed(p) ==
  {[h \in Heights |-> "none"]} \cup
  {[h \in Heights |-> IF Position(h) = p THEN "plain" ELSE "none"] :
     x \in {h \in Heights \ empty : Position(h) = p}}

\* A restart without the check of the position.
restartAnyway(p) ==
  \E c \in Replayed(p) :
    agr' = [pos |-> p, out |-> FALSE, candidate |-> c]

\* agreement.restart goes forward only.
restart(p) ==
  IF isStop(agr.pos) \/ Newer(p, agr.pos)
  THEN \E c \in Replayed(p) :
         agr' = [pos |-> p, out |-> FALSE, candidate |-> c]
  ELSE UNCHANGED agr

Output(candidate) == [agr EXCEPT !.out = TRUE, !.candidate = candidate]

-----------------------------------------------------------------------------
(* The message loop. *)

\* A proposal for the position under agreement.
ReceiveBlock(h) ==
  /\ msg = Idle /\ Unlocked
  /\ h \notin empty
  /\ agr.pos = Position(h) /\ ~agr.out /\ agr.candidate[h] = "none"
  /\ agr' = [agr EXCEPT !.candidate[h] = "plain"]
  /\ UNCHANGED <<empty, bc, messages, pulling, queue, notary, confirm, ba>>

\* The vote that completes a quorum: from the message loop, from the node's
\* own voting, or replayed by a restart.
ReceiveVotes(h) ==
  /\ Unlocked
  /\ agr.pos = Position(h) /\ ~agr.out
  /\ agr' = Output(agr.candidate)
  /\ IF h \in empty THEN ConfirmEmpty(h)
     ELSE ConfirmBlock(h, agr.candidate[h], TRUE, FALSE) /\ UNCHANGED bc
  /\ UNCHANGED <<empty, msg, pulled, notary, ba>>

\* blockChain.processAgreementResult.
Learn(c, h) ==
  IF h <= c.delivered THEN c
  ELSE [c EXCEPT !.pendingRandomness = @ \cup {h},
                 !.lastPosition = c.delivered]

\* An agreement result the node has not seen; one of a position that was
\* delivered when the last result came is skipped.  A result of the position under
\* agreement, or of a newer one, to which the agreement is restarted (fast
\* syncing), goes on in ProcessResult; others only trigger a delivery.
ReceiveResult(h) ==
  /\ msg = Idle /\ Unlocked
  /\ h \notin touched /\ h > bc.lastPosition
  /\ touched' = touched \cup {h}
  /\ IF /\ ~isStop(agr.pos)
        /\ Newer(Position(h), agr.pos) \/ (agr.pos = Position(h) /\ ~agr.out)
     THEN /\ bc' = Learn(bc, h)
          /\ restart(Position(h))
          /\ msg' = [pc |-> "sync", height |-> h]
     ELSE /\ bc' = extractBlocks(Learn(bc, h))
          /\ UNCHANGED <<agr, msg>>
  /\ UNCHANGED <<empty, pulling, queue, notary, confirm, ba>>

\* agreement.processAgreementResult, unless a vote replayed by the restart or
\* the agreement's loop was faster, and the delivery at the end.
ProcessResult ==
  /\ msg.pc = "sync" /\ Unlocked
  /\ LET h == msg.height
     IN IF agr.pos = Position(h) /\ ~agr.out
        THEN /\ agr' = Output(agr.candidate)
             /\ ConfirmBlock(h, agr.candidate[h], FALSE, TRUE)
        ELSE UNCHANGED <<agr, touched, pull, queue, confirm>>
  /\ IF confirm'.msg THEN msg' = [msg EXCEPT !.pc = "confirm"] /\ UNCHANGED bc
     ELSE msg' = Idle /\ bc' = extractBlocks(bc)
  /\ UNCHANGED <<empty, pulled, notary, ba>>

\* A finalized block of the position under agreement.  An empty block has no
\* signature and is refused.
ReceiveFinalizedBlock(h) ==
  /\ msg = Idle /\ Unlocked
  /\ h \notin empty /\ pull[h] = "none"
  /\ agr.pos = Position(h) /\ ~agr.out
  /\ agr' = Output([agr.candidate EXCEPT ![h] = "final"])
  /\ ConfirmBlock(h, "final", FALSE, FALSE)
  /\ UNCHANGED <<empty, bc, msg, pulled, notary, ba>>

\* A block somebody waits for.  An empty block is refused unless it follows
\* the tip.  The goroutine of the parents queues the block and goes on with
\* the parent of it; the others confirm it.
ReceivePulledBlock(h) ==
  /\ msg = Idle
  /\ pull[h] # "none"
  /\ h \in empty => h = bc.tip + 1
  /\ LET rest == [pull EXCEPT ![h] = "none"]
     IN IF pull[h] = "parent"
        THEN /\ Enqueue([height |-> h, final |-> TRUE])
             /\ pull' = PullParent(rest, h)
             /\ UNCHANGED pulled
        ELSE /\ pulled' = pulled \cup
                  {[height |-> h, votes |-> pull[h] = "votes", added |-> FALSE]}
             /\ pull' = rest
             /\ UNCHANGED queue
  /\ UNCHANGED <<empty, bc, agr, messages, notary, confirm, ba>>

-----------------------------------------------------------------------------
(* The goroutine of an unknown block, once it has the block. *)

AddCandidate(b) ==
  /\ Unlocked
  /\ b \in pulled /\ ~b.added
  /\ pulled' = (pulled \ {b}) \cup {[b EXCEPT !.added = TRUE]}
  /\ agr' = [agr EXCEPT !.candidate[b.height] = "final"]
  /\ UNCHANGED <<empty, bc, messages, pull, queue, notary, confirm, ba>>

\* A restart may have forgotten the candidate: the block is pulled again.
ConfirmPulled(b) ==
  /\ Unlocked
  /\ b \in pulled /\ b.added
  /\ pulled' = pulled \ {b}
  /\ ConfirmBlock(b.height, agr.candidate[b.height], b.votes, FALSE)
  /\ UNCHANGED <<empty, bc, agr, msg, notary, ba>>

(* The block loop: a block without randomness is dropped. *)
ProcessBlock ==
  /\ queue # <<>>
  /\ LET b == Head(queue)
     IN bc' = IF b.final \/ b.height \in bc.pendingRandomness
              THEN extractBlocks(addBlock(bc, b.height, b.final))
              ELSE bc
  /\ queue' = Tail(queue)
  /\ UNCHANGED <<empty, agr, messages, pulling, notary, confirm, ba>>

-----------------------------------------------------------------------------
(* The loop of the agreement: runBA calls baRoutineForOneRound for a round. *)

BAGoes(pc) == ba' = [ba EXCEPT !.pc = pc, !.at = Stopped, !.ret = "loop"]

\* The start of a round: runBA asks for the first position of it.
runBA ==
  /\ ba.pc = "runBA" /\ notary = <<>>
  /\ notary' = <<[round |-> ba.round, height |-> MaxUint64]>>
  /\ ba' = [ba EXCEPT !.pc = "loop", !.old = agr.pos]
  /\ UNCHANGED <<empty, bc, agr, messages, pulling, queue, confirm>>

\* agr.confirmed() takes the lock of the agreement: the loop blocks for a
\* position when the agreement has its output.
CheckConfirmed ==
  /\ ba.pc = "loop" /\ Unlocked /\ agr.out
  /\ BAGoes("wait")
  /\ UNCHANGED <<empty, bc, agr, messages, pulling, queue, notary, confirm>>

TakePosition(ret) ==
  /\ notary # <<>>
  /\ notary' = <<>>
  /\ ba' = [ba EXCEPT !.pc = "restart", !.at = Head(notary), !.ret = ret]
  /\ UNCHANGED <<empty, bc, agr, messages, pulling, queue, confirm>>

\* The loop receives from restartNotary twice: the first receive waits, the
\* second only looks.  Without a position nextState and the ticks follow,
\* which take the lock and change nothing here.
WaitPosition == ba.pc = "wait" /\ TakePosition("poll")

PollPosition ==
  /\ ba.pc = "poll" \/ (ba.pc = "loop" /\ Unlocked /\ ~agr.out)
  /\ TakePosition("loop")

NextState ==
  /\ ba.pc = "poll" /\ notary = <<>>
  /\ BAGoes("loop")
  /\ UNCHANGED <<empty, bc, agr, messages, pulling, queue, notary, confirm>>

RoundFinished ==
  ~isStop(ba.at) /\ ba.at.height + 1 >= RoundEndHeight(ba.round)

\* The last position of the round: wait for the chain to change its round.
FinishRound ==
  /\ ba.pc = "restart" /\ RoundFinished
  /\ tipRound > ba.round
  /\ ba' = [pc |-> "runBA", round |-> ba.round + 1, old |-> Stopped,
            at |-> Stopped, ret |-> "loop"]
  /\ UNCHANGED <<empty, bc, agr, messages, pulling, queue, notary, confirm>>

OlderPosition == ~isStop(ba.at) /\ Newer(ba.old, ba.at)

\* The event of an older block.
IgnoreOlder ==
  /\ ba.pc = "restart" /\ ~RoundFinished /\ OlderPosition
  /\ BAGoes(ba.ret)
  /\ UNCHANGED <<empty, bc, agr, messages, pulling, queue, notary, confirm>>

\* nextBlock: the tip has to be delivered.
NextBlockReady ==
  bc.tip = bc.delivered /\ (isStop(ba.at) \/ bc.tip + 1 > ba.at.height)

\* Wait for the next block of the chain.
NextBlock ==
  /\ ba.pc = "restart" /\ ~RoundFinished /\ ~OlderPosition
  /\ NextBlockReady
  /\ ba' = [ba EXCEPT !.pc = "sleep", !.at = Stopped,
                      !.old = [round |-> ba.round, height |-> bc.tip + 1]]
  /\ UNCHANGED <<empty, bc, agr, messages, pulling, queue, notary, confirm>>

\* The agreement is restarted after the sleep until the block's time.
RestartBA ==
  /\ ba.pc = "sleep" /\ Unlocked
  /\ restart(ba.old)
  /\ BAGoes(ba.ret)
  /\ UNCHANGED <<empty, bc, messages, pulling, queue, notary, confirm>>

-----------------------------------------------------------------------------
Messages ==
  \/ \E h \in Heights :
       \/ ReceiveBlock(h)
       \/ ReceiveVotes(h)
       \/ ReceiveResult(h)
       \/ ReceiveFinalizedBlock(h)
       \/ ReceivePulledBlock(h)
  \/ ProcessResult

Goroutines ==
  \/ \E b \in pulled : AddCandidate(b) \/ ConfirmPulled(b)
  \/ CleanChannel
  \/ SendPosition
  \/ ProcessBlock

AgreementLoop ==
  \/ runBA \/ CheckConfirmed \/ WaitPosition \/ PollPosition \/ NextState
  \/ FinishRound \/ IgnoreOlder \/ NextBlock \/ RestartBA

Next == Messages \/ Goroutines \/ AgreementLoop

Spec == Init /\ [][Next]_vars

\* What is scheduled, or repeated until it happens: the goroutines, the result
\* of the last height, which is gossiped, and the blocks that are pulled.
Work ==
  \/ ReceiveResult(LastHeight) \/ ProcessResult
  \/ \E h \in Heights : ReceivePulledBlock(h)
  \/ Goroutines
  \/ AgreementLoop

\* When there is such a step: ENABLED Work, written out.
WorkToDo ==
  \/ queue # <<>>
  \/ confirm.stage = "clean" \/ (confirm.stage = "send" /\ notary = <<>>)
  \/ Unlocked /\ (pulled # {} \/ msg.pc = "sync" \/ ba.pc = "sleep")
  \/ msg = Idle /\ Unlocked /\ LastHeight \notin touched
  \/ msg = Idle /\ \E h \in Heights :
       pull[h] # "none" /\ (h \in empty => h = bc.tip + 1)
  \/ ba.pc = "runBA" /\ notary = <<>>
  \/ ba.pc = "loop" /\ Unlocked /\ (agr.out \/ notary # <<>>)
  \/ ba.pc = "wait" /\ notary # <<>>
  \/ ba.pc = "poll"
  \/ ba.pc = "restart" /\ IF RoundFinished THEN tipRound > ba.round
                          ELSE OlderPosition \/ NextBlockReady

\* Weak fairness of Work.
Scheduled == []<>~WorkToDo \/ []<><<Work>>_vars

LiveSpec == Spec /\ Scheduled

-----------------------------------------------------------------------------
TypeOK ==
  /\ empty \subseteq EmptyHeights
  /\ bc \in Chains /\ bc.delivered <= bc.tip
  /\ agr \in [pos : Positions, out : BOOLEAN,
              candidate : [Heights -> {"none", "plain", "final"}]]
  /\ msg \in [pc : {"idle", "sync", "confirm"}, height : 0..LastHeight]
  /\ touched \subseteq Heights
  /\ pull \in [Heights -> {"none", "votes", "result", "parent"}]
  /\ pulled \subseteq [height : Heights, votes : BOOLEAN, added : BOOLEAN]
  /\ queue \in Seq([height : Heights, final : BOOLEAN])
  /\ notary \in Seq(Positions) /\ Len(notary) <= 1
  /\ confirm \in [stage : {"idle", "clean", "send"}, height : 0..LastHeight,
                  msg : BOOLEAN]
  /\ ba \in [pc : {"runBA", "loop", "wait", "poll", "restart", "sleep"},
             round : 1..2, old : Positions, at : Positions,
             ret : {"poll", "loop"}]

\* A pending block never has the height of the tip or of the next block: the
\* "unexpected case" panic of checkIfBlocksConfirmed is not reached, however
\* blocks arrive, are pulled and are confirmed out of order.
PendingBeyondTip ==
  /\ TypeOK
  /\ \A h \in bc.pending \cup bc.missing : h > bc.tip + 1

InFlight(h) ==
  \/ pull[h] # "none"
  \/ \E b \in pulled : b.height = h
  \/ \E i \in 1..Len(queue) : queue[i].height = h

\* Below a pending block the chain has no gap that nobody works on: the parent
\* is confirmed, or it is pulled, handed over or queued.  The goroutines that
\* pull give up as soon as another one waits for the same block, so each relies
\* on the other (ConfirmBlock, the goroutine of the parents).  The exception is
\* an empty parent whose agreement result the node took: ConfirmBlock pulls it
\* and leaves it out of processBlockChan, while the goroutine of the parents
\* has given up because of it.
GapsPulled ==
  \A h \in bc.pending :
    confirmed(h - 1) \/ InFlight(h - 1) \/ h - 1 \in empty \cap touched

SendBlocked == confirm.stage = "send" /\ notary # <<>>

\* ConfirmBlock, which holds the lock the agreement's loop needs, finds the
\* channel full again after it cleaned it only if a round is starting: within
\* a round nobody but a call under the same lock sends to restartNotary.
BlockedAtRoundStart == SendBlocked => isStop(Head(notary))

\* What the comment at the cleaning of the channel promises: the send that
\* follows never waits, with the lock held, for the loop that waits for the
\* lock.
NeverStuck ==
  ~(SendBlocked /\ ba.pc \in {"loop", "sleep"})

\* The agreement never returns to a position it has left, although its loop
\* computes the next position, sleeps, and only then restarts it, while the
\* message loop restarts it for fast syncing.
AgreementForward ==
  [][isStop(agr.pos) \/ agr'.pos = agr.pos \/ Newer(agr'.pos, agr.pos)]_vars

\* A node that hears of the last height once its agreement has started
\* delivers every block, however far behind it was and whatever it missed, when
\* no block is empty, unless ConfirmBlock is blocked for ever.
CatchUp ==
  empty = {} =>
    \/ <>(bc.delivered = LastHeight \/ (isStop(agr.pos) /\ LastHeight \in touched))
    \/ <>[]SendBlocked

=============================================================================
