----------------------------- MODULE Agreement -----------------------------
(***************************************************************************)
(* The agreement of the members of a notary set on the block of one        *)
(* position (core/agreement.go, agreement-state.go, leader-selector.go of  *)
(* the consensus core), each member driven by its ticker                   *)
(* (baRoutineForOneRound in agreement-mgr.go).                             *)
(*                                                                         *)
(* A vote is in "votes" from the moment it is proposed.  A member counts   *)
(* the votes that reached it; since a vote may be delayed at will, which   *)
(* votes those are is chosen when a count matters: a member may act on any *)
(* quorum among the votes of the others, and need not.  The same goes for  *)
(* the blocks.  The leader differs from the others only in the block that  *)
(* all may vote Fast for.  Members stop but do not lie.                    *)
(*                                                                         *)
(* Time.  A tick of a member's ticker is a step that may come at any       *)
(* moment, and setting.late is the set of the types of votes that may miss *)
(* it.  For the other types the configured lambdaBA is long enough: no     *)
(* tick comes before every running member has acted on the quorums there   *)
(* are, and before a member that goes on without a tick has done so.       *)
(***************************************************************************)
EXTENDS Integers, FiniteSets

CONSTANTS
    Members,         \* the notary set of the position
    NotarySetSize,   \* the configured size; members that are not qualified count
    Blocks,          \* the hashes of the valid blocks proposed at the position
    Distance,        \* the rank of each by its CRS distance, then by its hash
    NULL,            \* NullBlockHash: the empty block
    SKIP,            \* SkipBlockHash: no lock yet
    None,
    Settings         \* the possible values of "setting"

VoteTypes == {"Fast", "FastCom", "PreCom", "Com"}

ASSUME AgreementAssumption ==
    /\ IsFiniteSet(Members)
    /\ NotarySetSize \in Nat
    /\ Cardinality(Members) <= NotarySetSize
    /\ Distance \in [Blocks -> Nat]
    /\ NULL # SKIP /\ NULL # None /\ SKIP # None
    /\ {NULL, SKIP, None} \cap Blocks = {}
    /\ Settings \subseteq [late : SUBSET VoteTypes, leaderBlock : Blocks \cup {None},
                           maxPeriod : Nat \ {0, 1}, maxCrashes : Nat]

Hashes == Blocks \cup {NULL, SKIP}

Values == Blocks \cup {NULL}

VARIABLES
    setting,       \* late: the types of votes that may arrive after a tick
                   \* leaderBlock: None when the leader could not propose one
                   \* maxPeriod, maxCrashes: bounds
    up,            \* the members that have not crashed
    votes,         \* per member: the votes it has proposed
    state,         \* per member: the agreementState
    period,
    lockValue,
    lockIter,
    hasVoteFast,
    output,        \* the hash handed to ConfirmBlock; None while ~hasOutput
    fastForward,   \* the channel of that name; 0 when it is empty
    minBlockHash   \* leaderSelector: the best of the valid blocks received

data == <<period, lockValue, lockIter>>
vars == <<setting, up, votes, state, data, hasVoteFast, output, fastForward,
          minBlockHash>>

Periods == 2 .. setting.maxPeriod

Vote(type, p, hash) == [type |-> type, period |-> p, hash |-> hash]

requiredVoteHalf == NotarySetSize \div 2

requiredVote == (NotarySetSize * 2) \div 3 + 1

(* countVoteNoLock: what has a quorum.                                     *)
Quorums ==
    {v \in [type : VoteTypes, period : Periods, hash : Hashes] :
        Cardinality({m \in Members : v \in votes[m]}) >= requiredVote}

Quorum(type, p, hash) == Vote(type, p, hash) \in Quorums

(* The votes of a period, whatever their values, when some requiredVote of *)
(* them agree on no block: a member may have received just those.          *)
ComVoters(p, hashes) ==
    {m \in Members : \E h \in hashes : Vote("Com", p, h) \in votes[m]}

Undecided(p) ==
    /\ Cardinality(ComVoters(p, Hashes)) >= requiredVote
    /\ \A h \in Values : ComVoters(p, {h}) # ComVoters(p, Hashes)

(* updateLeader: of the valid blocks, the one nearest to the CRS.          *)
Nearer(b, best) ==
    CASE best = NULL -> b
      [] b = NULL -> best
      [] OTHER -> IF Distance[b] < Distance[best] THEN b ELSE best

-----------------------------------------------------------------------------
(* agreement.restart at a new position.  fastState takes no time: the      *)
(* leader proposes its block and votes for it, the others do nothing.      *)
Init ==
    /\ setting \in Settings
    /\ up = Members
    /\ votes = [m \in Members |-> {}]
    /\ state = [m \in Members |-> "FastVote"]
    /\ period = [m \in Members |-> 2]
    /\ lockValue = [m \in Members |-> SKIP]
    /\ lockIter = [m \in Members |-> 0]
    /\ hasVoteFast = [m \in Members |-> FALSE]
    /\ output = [m \in Members |-> None]
    /\ fastForward = [m \in Members |-> 0]
    /\ minBlockHash = [m \in Members |-> NULL]

Running(m) == m \in up /\ output[m] = None

(* A quorum among the votes that cannot be late has an effect m has not    *)
(* let it have.                                                            *)
Unheard(m) ==
    \/ /\ "Fast" \notin setting.late
       /\ \E h \in Blocks : Quorum("Fast", 2, h) /\ lockIter[m] = 0
    \/ /\ "PreCom" \notin setting.late
       /\ \E p \in Periods, h \in Values :
            Quorum("PreCom", p, h) /\ (p > lockIter[m] \/ p > period[m])
    \/ /\ "FastCom" \notin setting.late
       /\ \E h \in Blocks : Quorum("FastCom", 2, h)
    \/ /\ "Com" \notin setting.late
       /\ \/ \E p \in Periods, h \in Values : Quorum("Com", p, h)
          \/ \E p \in Periods : p >= period[m] /\ p < setting.maxPeriod /\ Undecided(p)

(* After done() the loop calls nextState at once: a period after the first *)
(* starts without a tick.                                                  *)
Urgent(m) ==
    /\ Running(m)
    /\ \/ fastForward[m] # 0
       \/ state[m] = "PreCommit" /\ period[m] > 2
       \/ Unheard(m)

Tick == setting.late # VoteTypes => \A m \in Members : ~Urgent(m)

ProposeVote(m, type, p, hash) ==
    votes' = [votes EXCEPT ![m] = @ \cup {Vote(type, p, hash)}]

-----------------------------------------------------------------------------
(* nextState, by state.  A member with an output goes to sleepState and    *)
(* takes no further step.                                                  *)

(* initialState follows at once: it takes no time.  The members other than *)
(* the leader propose their blocks in it; the VoteInit that goes with them *)
(* is dropped by every VoteFilter.                                         *)
FastVoteState(m) ==
    /\ Running(m)
    /\ state[m] = "FastVote"
    /\ Tick
    /\ state' = [state EXCEPT ![m] = "PreCommit"]
    /\ UNCHANGED <<setting, up, votes, data, hasVoteFast, output, fastForward,
                   minBlockHash>>

PreCommitStateUnlocked(m) ==
    /\ Running(m)
    /\ state[m] = "PreCommit"
    /\ period[m] = 2 => Tick
    /\ \E b \in Values :
         /\ minBlockHash' = [minBlockHash EXCEPT ![m] = Nearer(b, @)]
         /\ ProposeVote(m, "PreCom", period[m], minBlockHash'[m])
    /\ state' = [state EXCEPT ![m] = "Commit"]
    /\ UNCHANGED <<setting, up, data, hasVoteFast, output, fastForward>>

PreCommitState(m) ==
    /\ Running(m)
    /\ state[m] = "PreCommit"
    /\ period[m] = 2 => Tick
    /\ IF lockValue[m] \in {SKIP, NULL}
       THEN \E b \in Values :
              /\ minBlockHash' = [minBlockHash EXCEPT ![m] = Nearer(b, @)]
              /\ ProposeVote(m, "PreCom", period[m], minBlockHash'[m])
       ELSE /\ ProposeVote(m, "PreCom", period[m], lockValue[m])
            /\ UNCHANGED minBlockHash
    /\ state' = [state EXCEPT ![m] = "Commit"]
    /\ UNCHANGED <<setting, up, data, hasVoteFast, output, fastForward>>

CommitStateAgain(m) ==
    /\ Running(m)
    /\ state[m] = "Commit"
    /\ Tick
    /\ ProposeVote(m, "Com", period[m], lockValue[m])
    /\ UNCHANGED <<setting, up, state, data, hasVoteFast, output, fastForward,
                   minBlockHash>>

CommitState(m) ==
    /\ Running(m)
    /\ state[m] = "Commit"
    /\ Tick
    /\ ProposeVote(m, "Com", period[m], lockValue[m])
    /\ state' = [state EXCEPT ![m] = "Forward"]
    /\ UNCHANGED <<setting, up, data, hasVoteFast, output, fastForward,
                   minBlockHash>>

(* done(): the loop polls it while it waits for ticks.                     *)
Done(m) ==
    /\ Running(m)
    /\ fastForward[m] # 0
    /\ fastForward' = [fastForward EXCEPT ![m] = 0]
    /\ IF fastForward[m] > period[m]
       THEN /\ period' = [period EXCEPT ![m] = fastForward[m]]
            /\ state' = [state EXCEPT ![m] = "PreCommit"]
       ELSE UNCHANGED <<period, state>>
    /\ UNCHANGED <<setting, up, votes, lockValue, lockIter, hasVoteFast,
                   output, minBlockHash>>

-----------------------------------------------------------------------------
(* processBlock of the leader's block in the first states, with the        *)
(* goroutine it starts.  The leader's own vote is the one of fastState.    *)
VoteFast(m) ==
    LET b == setting.leaderBlock IN
    /\ m \in up
    /\ b # None
    /\ state[m] = "FastVote"
    /\ Vote("Fast", period[m], b) \notin votes[m]
    /\ minBlockHash' = [minBlockHash EXCEPT ![m] = Nearer(b, @)]
    /\ ProposeVote(m, "Fast", period[m], b)
    /\ UNCHANGED <<setting, up, state, data, hasVoteFast, output, fastForward>>

(* processVote of the vote that completes a quorum, by type of vote.       *)
ProcessFast(m, h) ==
    /\ Running(m)
    /\ Quorum("Fast", 2, h)
    /\ ~hasVoteFast[m]
    /\ IF state[m] = "FastVote"
       THEN /\ ProposeVote(m, "FastCom", 2, h)
            /\ hasVoteFast' = [hasVoteFast EXCEPT ![m] = TRUE]
       ELSE UNCHANGED <<votes, hasVoteFast>>
    /\ IF lockIter[m] = 0
       THEN /\ lockValue' = [lockValue EXCEPT ![m] = h]
            /\ lockIter' = [lockIter EXCEPT ![m] = 1]
       ELSE UNCHANGED <<lockValue, lockIter>>
    /\ UNCHANGED <<setting, up, state, period, output, fastForward,
                   minBlockHash>>

ConfirmBlock(m, h) ==
    /\ output' = [output EXCEPT ![m] = h]
    /\ UNCHANGED <<setting, up, votes, state, data, hasVoteFast,
                   fastForward, minBlockHash>>

ProcessFastCom(m, h) ==
    /\ Running(m)
    /\ Quorum("FastCom", 2, h)
    /\ ConfirmBlock(m, h)

ProcessCom(m, p, h) ==
    /\ Running(m)
    /\ h # SKIP
    /\ Quorum("Com", p, h)
    /\ ConfirmBlock(m, h)

ProcessPreComOwnPeriod(m, p, h) ==
    /\ Running(m)
    /\ h # SKIP
    /\ Quorum("PreCom", p, h)
    /\ fastForward[m] = 0
    /\ p >= lockIter[m]
    /\ lockValue' = [lockValue EXCEPT ![m] = h]
    /\ lockIter' = [lockIter EXCEPT ![m] = period[m]]
    /\ fastForward' = IF p > period[m] THEN [fastForward EXCEPT ![m] = p]
                      ELSE fastForward
    /\ UNCHANGED <<setting, up, votes, state, period, hasVoteFast,
                   output, minBlockHash>>

(* Conditions 1 and 2.                                                     *)
ProcessPreCom(m, p, h) ==
    /\ Running(m)
    /\ h # SKIP
    /\ Quorum("PreCom", p, h)
    /\ fastForward[m] = 0
    /\ p >= lockIter[m]
    /\ IF p > lockIter[m]
       THEN /\ lockValue' = [lockValue EXCEPT ![m] = h]
            /\ lockIter' = [lockIter EXCEPT ![m] = p]
       ELSE UNCHANGED <<lockValue, lockIter>>
    /\ fastForward' = IF p > period[m] THEN [fastForward EXCEPT ![m] = p]
                      ELSE fastForward
    /\ UNCHANGED <<setting, up, votes, state, period, hasVoteFast,
                   output, minBlockHash>>

ProcessUndecidedLater(m, p) ==
    /\ Running(m)
    /\ p > period[m] /\ p < setting.maxPeriod
    /\ Undecided(p)
    /\ fastForward[m] = 0
    /\ fastForward' = [fastForward EXCEPT ![m] = p + 1]
    /\ UNCHANGED <<setting, up, votes, state, data, hasVoteFast, output,
                   minBlockHash>>

(* Condition 3.                                                            *)
ProcessUndecided(m, p) ==
    /\ Running(m)
    /\ p >= period[m] /\ p < setting.maxPeriod
    /\ Undecided(p)
    /\ fastForward[m] = 0
    /\ fastForward' = [fastForward EXCEPT ![m] = p + 1]
    /\ UNCHANGED <<setting, up, votes, state, data, hasVoteFast, output,
                   minBlockHash>>

(* processAgreementResult, processFinalizedBlock: another member's output. *)
ProcessAgreementResult(m, n) ==
    /\ Running(m)
    /\ output[n] # None
    /\ ConfirmBlock(m, output[n])

Crash(m) ==
    /\ m \in up
    /\ Cardinality(Members \ up) < setting.maxCrashes
    /\ up' = up \ {m}
    /\ UNCHANGED <<setting, votes, state, data, hasVoteFast, output,
                   fastForward, minBlockHash>>

NextState(m) ==
    \/ FastVoteState(m) \/ PreCommitState(m)
    \/ CommitState(m) \/ Done(m)

Receive(m) ==
    \/ VoteFast(m)
    \/ \E h \in Blocks : ProcessFast(m, h) \/ ProcessFastCom(m, h)
    \/ \E p \in Periods, h \in Hashes : ProcessPreCom(m, p, h) \/ ProcessCom(m, p, h)
    \/ \E p \in Periods : ProcessUndecided(m, p)
    \/ \E n \in Members : ProcessAgreementResult(m, n)

Next == \E m \in Members : NextState(m) \/ Receive(m) \/ Crash(m)

Spec == Init /\ [][Next]_vars

-----------------------------------------------------------------------------
(* Properties *)

(* The state is well formed.                                               *)
TypeOK ==
    /\ setting \in Settings
    /\ up \subseteq Members
    /\ votes \in [Members -> SUBSET [type : VoteTypes, period : Periods,
                                     hash : Hashes]]
    /\ state \in [Members -> {"FastVote", "PreCommit", "Commit", "Forward"}]
    /\ period \in [Members -> Periods]
    /\ lockValue \in [Members -> Hashes]
    /\ lockIter \in [Members -> {0, 1} \cup Periods]
    /\ hasVoteFast \in [Members -> BOOLEAN]
    /\ output \in [Members -> Hashes \cup {None}]
    /\ fastForward \in [Members -> {0} \cup Periods]
    /\ minBlockHash \in [Members -> Values]

(* A member never proposes two votes of one type and period for different  *)
(* hashes, for which ReportForkVote would have it fined.                   *)
NoForkVote ==
    \A m \in Members : \A a, b \in votes[m] :
        a.type = b.type /\ a.period = b.period => a.hash = b.hash

(* The votes that lock are in time.                                        *)
Prompt == setting.late \cap {"Fast", "PreCom"} = {}

(* Two members never confirm different blocks, as long as the votes that   *)
(* lock are in time; those that decide may come at any moment.             *)
BlockAgreement ==
    Prompt => \A m, n \in Members :
        {output[m], output[n]} \subseteq Blocks => output[m] = output[n]

(* Members that have an output at a position have the same.                *)
OneOutput ==
    \A m, n \in Members : None \in {output[m], output[n]} \/ output[m] = output[n]

(* Nor does one confirm the empty block and another a block, when the Com  *)
(* votes are in time, whatever other votes are late.                       *)
EmptyAgreement == "Com" \notin setting.late => OneOutput

(* As long as a quorum of members runs, they do not all wait for each other*)
(* at a position before each has an output, unless they need a period past *)
(* the bound: some member can take a step.                                 *)
NeverStuck ==
    \/ Cardinality(up) < requiredVote
    \/ \A m \in up : output[m] # None
    \/ Undecided(setting.maxPeriod)
    \/ ENABLED <<\E m \in Members : NextState(m) \/ Receive(m)>>_vars

(* What the agreement promises the block chain: one block a position.      *)
Promise == INSTANCE OneBlock WITH confirmed <- output

Refines == Promise!Spec

-----------------------------------------------------------------------------
(* The inductive invariant behind NoForkVote, BlockAgreement and           *)
(* EmptyAgreement.                                                         *)

(* What a member has voted for, by its state.                              *)
MemberVoted(m) ==
    /\ state[m] = "FastVote" => period[m] = 2
    /\ fastForward[m] # 0 => fastForward[m] > period[m]
    /\ \A a \in votes[m] :
        /\ a.type = "Fast" => a.hash = setting.leaderBlock /\ a.period = 2
        /\ a.type = "FastCom" => /\ a.hash = setting.leaderBlock /\ a.period = 2
                                 /\ hasVoteFast[m]
        /\ a.type = "PreCom" => /\ a.hash \in Values
                                /\ a.period <= period[m]
                                /\ state[m] \in {"FastVote", "PreCommit"}
                                     => a.period < period[m]
        /\ a.type = "Com" => /\ a.period <= period[m]
                             /\ state[m] # "Forward" => a.period < period[m]

VotedSoFar == \A m \in Members : MemberVoted(m)

(* A lock has its quorum, of Fast votes or of PreCom votes.                *)
LockBacked ==
    \A m \in Members :
        \/ lockIter[m] = 0 /\ lockValue[m] = SKIP
        \/ lockIter[m] = 1 /\ lockValue[m] \in Blocks /\ Quorum("Fast", 2, lockValue[m])
        \/ lockIter[m] >= 2 /\ lockValue[m] \in Values
             /\ Quorum("PreCom", lockIter[m], lockValue[m])

(* A lock on something other than the leader's block is possible.          *)
OtherLock ==
    \E p \in Periods, h \in Values \ {setting.leaderBlock} : Quorum("PreCom", p, h)

HasFastCom(m) == \E a \in votes[m] : a.type = "FastCom"

(* The votes for the leader's block that decide without PreCom votes keep  *)
(* other locks away, or a quorum of members has not cast them.             *)
FastSafe ==
    IF OtherLock
    THEN \E R \in SUBSET Members :
            /\ Cardinality(R) >= requiredVote
            /\ \A m \in R : state[m] # "FastVote" /\ ~HasFastCom(m)
    ELSE \A m \in Members : HasFastCom(m) =>
            /\ lockValue[m] = setting.leaderBlock
            /\ \A a \in votes[m] : a.type = "PreCom" => a.hash = setting.leaderBlock

(* Once a member has voted Com for a block, every running member is locked *)
(* on it, and no other value has a quorum it could still lock on.          *)
ComSafe ==
    \A m \in Members : \A a \in votes[m] :
        a.type = "Com" /\ a.hash \in Blocks =>
            /\ \/ Quorum("Fast", 2, a.hash)
               \/ \E p \in Periods : Quorum("PreCom", p, a.hash)
            /\ Prompt => \A n \in Members :
                 /\ Running(n) =>
                      /\ lockValue[n] = a.hash
                      /\ \A p \in Periods, h \in Values \ {a.hash} :
                            Quorum("PreCom", p, h) => p < lockIter[n]
                 /\ \A b \in votes[n] :
                      b.type = "Com" /\ b.hash \in Blocks => b.hash = a.hash

(* An output that is a block has the quorum that decides it.               *)
OutputBacked ==
    \A m \in Members :
        /\ output[m] # SKIP
        /\ output[m] \in Blocks =>
            \/ Quorum("FastCom", 2, output[m])
            \/ \E p \in Periods : Quorum("Com", p, output[m])

(* The empty block too is voted for with its lock's quorum and confirmed   *)
(* with its own; and when Com votes are in time, a quorum of them ends all *)
(* ticks, so that no other value gets one.                                 *)
EmptySafe ==
    /\ \A m \in Members :
        /\ (\E a \in votes[m] : a.type = "Com" /\ a.hash = NULL) =>
              \E p \in Periods : Quorum("PreCom", p, NULL)
        /\ output[m] = NULL => \E p \in Periods : Quorum("Com", p, NULL)
    /\ "Com" \notin setting.late =>
        \A p, q \in Periods, g, h \in Values :
            Quorum("Com", p, g) /\ Quorum("Com", q, h) => g = h

IInv ==
    /\ TypeOK
    /\ NoForkVote
    /\ VotedSoFar
    /\ LockBacked
    /\ FastSafe
    /\ ComSafe
    /\ OutputBacked
    /\ EmptySafe
=============================================================================
