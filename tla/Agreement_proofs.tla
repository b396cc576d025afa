-------------------------- MODULE Agreement_proofs --------------------------
(***************************************************************************)
(* NoForkVote, BlockAgreement, EmptyAgreement and the refinement of        *)
(* OneBlock, for every notary set and number of periods and of crashes.    *)
(*                                                                         *)
(* The argument.  A lock has its quorum (LockBacked), and two quorums of a *)
(* period share a member, who votes once (NoForkVote).  When a member      *)
(* votes Com for a block it has been ticked, so every running member has   *)
(* acted on every quorum that locks: all hold the same lock, and from then *)
(* on vote PreCom for nothing else (ComSafe).  A quorum of FastCom votes   *)
(* leaves no quorum for a lock on anything but the leader's block          *)
(* (FastSafe).  Com votes in time leave one value a quorum (EmptySafe).    *)
(*                                                                         *)
(* First what every step keeps: quorums, types, the votes of a member by   *)
(* its state, the quorum behind a lock and behind an output, and which     *)
(* locks a FastCom quorum and a tick leave.                                *)
(***************************************************************************)
EXTENDS Agreement, FiniteSetTheorems, TLAPS

-----------------------------------------------------------------------------
(* Quorums *)

LEMMA RequiredVote ==
    /\ requiredVote \in Nat /\ requiredVote > 0
    /\ 2 * requiredVote > Cardinality(Members)
  <1>1. NotarySetSize \in Nat /\ Cardinality(Members) <= NotarySetSize
    BY Zenon, AgreementAssumption
  <1>2. Cardinality(Members) \in Nat
    BY Zenon, AgreementAssumption, FS_CardinalityType
  <1> QED
    BY <1>1, <1>2 DEF requiredVote

(* Two sets of members, each as large as a quorum, share one.              *)
LEMMA Intersect ==
    ASSUME NEW A \in SUBSET Members, NEW B \in SUBSET Members,
           Cardinality(A) >= requiredVote, Cardinality(B) >= requiredVote
    PROVE  \E m \in Members : m \in A /\ m \in B
  <1>1. IsFiniteSet(Members)
    BY Zenon, AgreementAssumption
  <1>2. IsFiniteSet(A) /\ IsFiniteSet(B) /\ IsFiniteSet(A \cup B)
    <2>1. A \cup B \in SUBSET Members
      BY Zenon
    <2> QED
      BY Zenon, <1>1, <2>1, FS_Subset
  <1>3. Cardinality(A \cup B) <= Cardinality(Members)
    BY Zenon, <1>1, FS_Subset
  <1>4. Cardinality(A \cup B) = Cardinality(A) + Cardinality(B) - Cardinality(A \cap B)
    BY Zenon, <1>2, FS_Union
  <1>5. /\ Cardinality(A) \in Nat /\ Cardinality(B) \in Nat
        /\ Cardinality(Members) \in Nat
    BY Zenon, <1>1, <1>2, FS_CardinalityType
  <1>6. SUFFICES ASSUME A \cap B = {} PROVE FALSE
    BY Zenon
  <1>7. Cardinality(A \cap B) = 0
    BY Zenon, <1>6, FS_EmptySet
  <1> QED
    BY <1>3, <1>4, <1>5, <1>7, RequiredVote, SMT

LEMMA QuorumVoters ==
    ASSUME NEW v \in Quorums
    PROVE  /\ v \in [type : VoteTypes, period : Periods, hash : Hashes]
           /\ \E R \in SUBSET Members :
                Cardinality(R) >= requiredVote /\ \A m \in R : v \in votes[m]
  <1> DEFINE R == {m \in Members : v \in votes[m]}
  <1>1. Cardinality(R) >= requiredVote
    BY Zenon DEF Quorums
  <1>2. R \in SUBSET Members /\ \A m \in R : v \in votes[m]
    BY Zenon
  <1>3. v \in [type : VoteTypes, period : Periods, hash : Hashes]
    BY Zenon DEF Quorums
  <1> HIDE DEF R
  <1> QED
    BY Zenon, <1>1, <1>2, <1>3

(* A quorum is not empty.                                                  *)
LEMMA QuorumVoter ==
    ASSUME NEW v \in Quorums
    PROVE  \E m \in Members : v \in votes[m]
  <1>1. PICK R \in SUBSET Members :
            Cardinality(R) >= requiredVote /\ \A m \in R : v \in votes[m]
    BY Zenon, QuorumVoters
  <1>2. PICK m \in Members : m \in R
    BY Zenon, <1>1, Intersect
  <1> QED
    BY Zenon, <1>1, <1>2

(* One value has a quorum of a type and period.                            *)
LEMMA QuorumsMeet ==
    ASSUME NoForkVote, NEW v \in Quorums, NEW w \in Quorums,
           v.type = w.type, v.period = w.period
    PROVE  v.hash = w.hash
  <1>1. PICK R \in SUBSET Members :
            Cardinality(R) >= requiredVote /\ \A m \in R : v \in votes[m]
    BY Zenon, QuorumVoters
  <1>2. PICK S \in SUBSET Members :
            Cardinality(S) >= requiredVote /\ \A m \in S : w \in votes[m]
    BY Zenon, QuorumVoters
  <1>3. PICK m \in Members : m \in R /\ m \in S
    BY Zenon, <1>1, <1>2, Intersect
  <1> QED
    BY ZenonT(30), <1>1, <1>2, <1>3 DEF NoForkVote

LEMMA QuorumsSame ==
    ASSUME votes' = votes, setting' = setting
    PROVE  Quorums' = Quorums
  BY Zenon DEF Quorums, Periods

(* Votes are not taken back, so a quorum stays one.                        *)
LEMMA QuorumsGrow ==
    ASSUME setting' = setting, \A m \in Members : votes[m] \subseteq votes'[m]
    PROVE  Quorums \subseteq Quorums'
  <1> SUFFICES ASSUME NEW v \in Quorums PROVE v \in Quorums'
    BY Zenon
  <1> DEFINE R == {m \in Members : v \in votes[m]}
             S == {m \in Members : v \in votes'[m]}
  <1>1. R \in SUBSET S /\ S \in SUBSET Members
    BY Zenon
  <1>2. IsFiniteSet(S) /\ Cardinality(R) <= Cardinality(S)
    BY Zenon, <1>1, AgreementAssumption, FS_Subset
  <1>3. IsFiniteSet(R)
    BY Zenon, <1>1, <1>2, FS_Subset
  <1>4. Cardinality(R) \in Nat /\ Cardinality(S) \in Nat
    BY Zenon, <1>2, <1>3, FS_CardinalityType
  <1>5. Cardinality(R) >= requiredVote
    BY Zenon DEF Quorums
  <1>6. Cardinality(S) >= requiredVote
    <2> HIDE DEF R, S
    <2> QED
      BY <1>2, <1>4, <1>5, RequiredVote
  <1> QED
    BY Zenon, <1>6 DEF Quorums, Periods

(* A new quorum is one for the vote just proposed.                         *)
LEMMA QuorumsNew ==
    ASSUME TypeOK, setting' = setting, NEW m \in Members, NEW x,
           votes' = [votes EXCEPT ![m] = @ \cup {x}]
    PROVE  /\ Quorums \subseteq Quorums'
           /\ \A v \in Quorums' : v # x => v \in Quorums
  <1>1. \A n \in Members : votes[n] \subseteq votes'[n]
    BY Zenon DEF TypeOK
  <1>2. Quorums \subseteq Quorums'
    BY Zenon, <1>1, QuorumsGrow
  <1>3. ASSUME NEW v \in Quorums', v # x PROVE v \in Quorums
    <2>1. {n \in Members : v \in votes'[n]} = {n \in Members : v \in votes[n]}
      BY Zenon, <1>3 DEF TypeOK
    <2> QED
      BY <1>3, <2>1, Zenon DEF Quorums, Periods
  <1> QED
    BY Zenon, <1>2, <1>3

-----------------------------------------------------------------------------
(* Types *)

LEMMA SettingType ==
    ASSUME TypeOK
    PROVE  /\ setting.late \subseteq VoteTypes
           /\ setting.leaderBlock \in Blocks \cup {None}
           /\ setting.maxPeriod \in Nat /\ setting.maxPeriod >= 2
           /\ Periods = {p \in Nat : 2 <= p /\ p <= setting.maxPeriod}
  BY AgreementAssumption DEF TypeOK, Periods

LEMMA InitType ==
    ASSUME Init PROVE TypeOK
  <1>1. setting.maxPeriod \in Nat /\ setting.maxPeriod >= 2
    BY AgreementAssumption DEF Init
  <1>2. 2 \in Periods
    BY <1>1 DEF Periods
  <1> QED
    BY Zenon, <1>2, AgreementAssumption DEF Init, TypeOK, Hashes, Values

LEMMA NearerType ==
    ASSUME NEW b \in Values, NEW best \in Values
    PROVE  Nearer(b, best) \in Values
  BY Zenon DEF Nearer, Values

LEMMA TypeStep ==
    ASSUME TypeOK, NEW m \in Members, NextState(m) \/ Receive(m) \/ Crash(m)
    PROVE  TypeOK'
  <1>0. /\ setting' = setting => Periods' = Periods
        /\ Values \subseteq Hashes /\ Blocks \subseteq Values /\ SKIP \in Hashes
    BY Zenon DEF Periods, Values, Hashes
  <1>a. \A t \in VoteTypes, p \in Periods, h \in Hashes :
            Vote(t, p, h) \in [type : VoteTypes, period : Periods, hash : Hashes]
    BY Zenon DEF Vote
  <1>b. ASSUME NEW x \in [type : VoteTypes, period : Periods, hash : Hashes],
               votes' = [votes EXCEPT ![m] = @ \cup {x}]
        PROVE  votes' \in [Members -> SUBSET [type : VoteTypes, period : Periods,
                                              hash : Hashes]]
    BY <1>b DEF TypeOK
  <1>c. 2 \in Periods
    BY SettingType
  <1>1. CASE FastVoteState(m)
    BY Zenon, <1>0, <1>1 DEF FastVoteState, TypeOK, data
  <1>2. CASE PreCommitState(m)
    <2>1. PICK h \in Values : ProposeVote(m, "PreCom", period[m], h)
      <3>1. CASE lockValue[m] \in {SKIP, NULL}
        BY <1>2, <3>1, NearerType DEF PreCommitState, TypeOK
      <3>2. CASE lockValue[m] \notin {SKIP, NULL}
        BY Zenon, <1>2, <3>2 DEF PreCommitState, TypeOK, Hashes, Values
      <3> QED
        BY Zenon, <3>1, <3>2
    <2>2. minBlockHash' \in [Members -> Values]
      BY <1>2, NearerType DEF PreCommitState, TypeOK
    <2>3. Vote("PreCom", period[m], h)
            \in [type : VoteTypes, period : Periods, hash : Hashes]
      BY Zenon, <1>0, <1>a DEF VoteTypes, TypeOK
    <2>4. votes' \in [Members -> SUBSET [type : VoteTypes, period : Periods,
                                         hash : Hashes]]
      BY <1>b, <2>1, <2>3, Zenon DEF ProposeVote
    <2> QED
      BY <1>0, <1>2, <2>2, <2>4, Zenon DEF PreCommitState, TypeOK, data
  <1>3. CASE CommitState(m)
    <2>1. Vote("Com", period[m], lockValue[m])
            \in [type : VoteTypes, period : Periods, hash : Hashes]
      BY Zenon, <1>a DEF VoteTypes, TypeOK
    <2>2. votes' \in [Members -> SUBSET [type : VoteTypes, period : Periods,
                                         hash : Hashes]]
      BY <1>3, <1>b, <2>1, Zenon DEF CommitState, ProposeVote
    <2> QED
      BY <1>0, <1>3, <2>2, Zenon DEF CommitState, TypeOK, data
  <1>4. CASE Done(m)
    BY <1>0, <1>4 DEF Done, TypeOK
  <1>5. CASE VoteFast(m)
    <2> DEFINE b == setting.leaderBlock
    <2>1. b \in Blocks
      BY Zenon, <1>5, SettingType DEF VoteFast
    <2>2. Vote("Fast", period[m], b)
            \in [type : VoteTypes, period : Periods, hash : Hashes]
      BY Zenon, <1>0, <1>a, <2>1 DEF VoteTypes, TypeOK
    <2>3. votes' \in [Members -> SUBSET [type : VoteTypes, period : Periods,
                                         hash : Hashes]]
      BY <1>5, <1>b, <2>2, Zenon DEF VoteFast, ProposeVote
    <2>4. minBlockHash' \in [Members -> Values]
      BY Zenon, <1>0, <1>5, <2>1, NearerType DEF VoteFast, TypeOK
    <2> QED
      BY ZenonT(20), <1>0, <1>5, <2>3, <2>4 DEF VoteFast, TypeOK, data
  <1>6. ASSUME NEW h \in Blocks, ProcessFast(m, h) PROVE TypeOK'
    <2>1. Vote("FastCom", 2, h)
            \in [type : VoteTypes, period : Periods, hash : Hashes]
      BY Zenon, <1>0, <1>a, <1>c DEF VoteTypes
    <2>2. votes' \in [Members -> SUBSET [type : VoteTypes, period : Periods,
                                         hash : Hashes]]
      BY Zenon, <1>6, <1>b, <2>1 DEF ProcessFast, ProposeVote, TypeOK
    <2> QED
      BY <1>0, <1>6, <2>2, ZenonT(30) DEF ProcessFast, TypeOK
  <1>7. ASSUME NEW h \in Hashes, ConfirmBlock(m, h) PROVE TypeOK'
    BY Zenon, <1>0, <1>7 DEF ConfirmBlock, TypeOK, data
  <1>8. ASSUME NEW p \in Periods, NEW h \in Hashes, ProcessPreCom(m, p, h)
        PROVE  TypeOK'
    BY <1>0, <1>8 DEF ProcessPreCom, TypeOK
  <1>9. ASSUME NEW p \in Periods, ProcessUndecided(m, p) PROVE TypeOK'
    <2>1. p + 1 \in Periods
      BY <1>9, SettingType DEF ProcessUndecided
    <2> QED
      BY Zenon, <1>0, <1>9, <2>1 DEF ProcessUndecided, TypeOK, data
  <1>10. CASE Crash(m)
    BY Zenon, <1>0, <1>10 DEF Crash, TypeOK, data
  <1>11. ASSUME NEW n \in Members, ProcessAgreementResult(m, n) PROVE TypeOK'
    BY Zenon, <1>7, <1>11 DEF ProcessAgreementResult, TypeOK
  <1> QED
    BY ZenonT(30), <1>0, <1>1, <1>2, <1>3, <1>4, <1>5, <1>6, <1>7, <1>8, <1>9, <1>10, <1>11
       DEF NextState, Receive, ProcessFastCom, ProcessCom

-----------------------------------------------------------------------------
(* What a step changes *)

Step(m) == NextState(m) \/ Receive(m) \/ Crash(m)

(* A step changes what belongs to one member.                              *)
Local(m) ==
    /\ setting' = setting
    /\ up' \subseteq up
    /\ \A n \in Members \ {m} :
        /\ votes'[n] = votes[n] /\ state'[n] = state[n]
        /\ period'[n] = period[n] /\ lockValue'[n] = lockValue[n]
        /\ lockIter'[n] = lockIter[n] /\ hasVoteFast'[n] = hasVoteFast[n]
        /\ output'[n] = output[n] /\ fastForward'[n] = fastForward[n]

LEMMA StepLocal ==
    ASSUME TypeOK, NEW m \in Members, Step(m)
    PROVE  Local(m)
  <1>1. CASE FastVoteState(m)
    BY Zenon, <1>1 DEF FastVoteState, TypeOK, data, Local
  <1>2. CASE PreCommitState(m)
    <2>1. PICK x : votes' = [votes EXCEPT ![m] = x]
      BY Zenon, <1>2 DEF PreCommitState, ProposeVote
    <2> QED
      BY Zenon, <1>2, <2>1 DEF PreCommitState, TypeOK, data, Local
  <1>3. CASE CommitState(m)
    BY Zenon, <1>3 DEF CommitState, ProposeVote, TypeOK, data, Local
  <1>4. CASE Done(m)
    BY <1>4 DEF Done, TypeOK, Local
  <1>5. CASE VoteFast(m)
    BY Zenon, <1>5 DEF VoteFast, ProposeVote, TypeOK, data, Local
  <1>6. ASSUME NEW h \in Blocks, ProcessFast(m, h) PROVE Local(m)
    BY Zenon, <1>6 DEF ProcessFast, ProposeVote, TypeOK, Local
  <1>7. ASSUME NEW h, ConfirmBlock(m, h) PROVE Local(m)
    BY Zenon, <1>7 DEF ConfirmBlock, TypeOK, data, Local
  <1>8. ASSUME NEW p \in Periods, NEW h \in Hashes, ProcessPreCom(m, p, h)
        PROVE  Local(m)
    BY <1>8 DEF ProcessPreCom, TypeOK, Local
  <1>9. ASSUME NEW p \in Periods, ProcessUndecided(m, p) PROVE Local(m)
    BY Zenon, <1>9 DEF ProcessUndecided, TypeOK, data, Local
  <1>10. CASE Crash(m)
    BY Zenon, <1>10 DEF Crash, TypeOK, data, Local
  <1> QED
    BY Zenon, <1>1, <1>2, <1>3, <1>4, <1>5, <1>6, <1>7, <1>8, <1>9, <1>10
       DEF Step, NextState, Receive, ProcessFastCom, ProcessCom,
           ProcessAgreementResult

(* The vote m adds in a step, if any, and the state it adds it in.         *)
FastVote(m, x) ==
    /\ state[m] = "FastVote" /\ state' = state
    /\ setting.leaderBlock \in Blocks
    /\ x = Vote("Fast", 2, setting.leaderBlock)
    /\ hasVoteFast' = hasVoteFast
    /\ lockValue' = lockValue /\ lockIter' = lockIter

FastComVote(m, x) ==
    /\ state[m] = "FastVote" /\ state' = state
    /\ setting.leaderBlock \in Blocks
    /\ x = Vote("FastCom", 2, setting.leaderBlock)
    /\ Quorum("Fast", 2, setting.leaderBlock)
    /\ hasVoteFast'[m]
    /\ IF lockIter[m] = 0
       THEN lockValue'[m] = setting.leaderBlock /\ lockIter'[m] = 1
       ELSE lockValue' = lockValue /\ lockIter' = lockIter

PreComVote(m, x) ==
    /\ Running(m)
    /\ state[m] = "PreCommit" /\ state'[m] = "Commit"
    /\ \E h \in Values : /\ x = Vote("PreCom", period[m], h)
                         /\ lockValue[m] \in Blocks => h = lockValue[m]
    /\ hasVoteFast' = hasVoteFast
    /\ lockValue' = lockValue /\ lockIter' = lockIter

ComVote(m, x) ==
    /\ Running(m)
    /\ Tick
    /\ state[m] = "Commit" /\ state'[m] = "Forward"
    /\ x = Vote("Com", period[m], lockValue[m])
    /\ hasVoteFast' = hasVoteFast
    /\ lockValue' = lockValue /\ lockIter' = lockIter

Adds(m, x) ==
    /\ votes' = [votes EXCEPT ![m] = @ \cup {x}]
    /\ period' = period /\ fastForward' = fastForward /\ output' = output
    /\ FastVote(m, x) \/ FastComVote(m, x) \/ PreComVote(m, x) \/ ComVote(m, x)

(* What m does in a step without a vote to its state and to its lock.      *)
AddsNone(m) ==
    /\ votes' = votes /\ hasVoteFast' = hasVoteFast
    /\ state'[m] # "FastVote" \/ state'[m] = state[m]
    /\ \/ /\ period'[m] = period[m]
          /\ \/ state'[m] = state[m]
             \/ state[m] = "FastVote" /\ state'[m] = "PreCommit"
          /\ fastForward'[m] \in {0, fastForward[m]} \/ fastForward'[m] > period[m]
       \/ /\ period'[m] > period[m]
          /\ state'[m] = "PreCommit"
          /\ fastForward'[m] = 0
    /\ \/ lockValue' = lockValue /\ lockIter' = lockIter
       \/ /\ lockIter[m] = 0 /\ lockIter'[m] = 1
          /\ lockValue'[m] = setting.leaderBlock
          /\ lockValue'[m] \in Blocks
          /\ Quorum("Fast", 2, lockValue'[m])
       \/ /\ lockIter'[m] > lockIter[m] /\ lockIter'[m] \in Periods
          /\ lockValue'[m] \in Values
          /\ Quorum("PreCom", lockIter'[m], lockValue'[m])
    /\ \/ output' = output
       \/ /\ output[m] = None
          /\ \/ \E h \in Blocks : output'[m] = h /\ Quorum("FastCom", 2, h)
             \/ \E p \in Periods, h \in Values : output'[m] = h /\ Quorum("Com", p, h)
             \/ \E n \in Members : output'[m] = output[n]

(* Fast and FastCom votes are for the leader's block.                      *)
LEMMA FastLeader ==
    ASSUME VotedSoFar, NEW v \in Quorums, v.type \in {"Fast", "FastCom"}
    PROVE  v.hash = setting.leaderBlock
  BY Zenon, QuorumVoter DEF VotedSoFar, MemberVoted

LEMMA VoteFields ==
    ASSUME NEW t, NEW p, NEW h
    PROVE  Vote(t, p, h).type = t /\ Vote(t, p, h).period = p /\ Vote(t, p, h).hash = h
  BY Zenon DEF Vote

(* The type of an added vote tells which of the four it is.                  *)
LEMMA AddedKind ==
    ASSUME NEW m, NEW x, Adds(m, x)
    PROVE  /\ x.type = "PreCom" => PreComVote(m, x)
           /\ x.type = "Com" => ComVote(m, x)
  <1>1. /\ FastVote(m, x) => x.type = "Fast"
        /\ FastComVote(m, x) => x.type = "FastCom"
        /\ PreComVote(m, x) => x.type = "PreCom"
        /\ ComVote(m, x) => x.type = "Com"
    BY SMTT(30), VoteFields DEF FastVote, FastComVote, PreComVote, ComVote
  <1>2. FastVote(m, x) \/ FastComVote(m, x) \/ PreComVote(m, x) \/ ComVote(m, x)
    BY Zenon DEF Adds
  <1> QED
    BY Zenon, <1>1, <1>2

LEMMA StepForms ==
    ASSUME TypeOK, VotedSoFar, NEW m \in Members, Step(m)
    PROVE  AddsNone(m) \/ \E x : Adds(m, x)
  <1>0. /\ setting.leaderBlock \in Blocks \cup {None} /\ None \notin Blocks
        /\ NULL \notin Blocks /\ SKIP \notin Blocks
    BY Zenon, SettingType, AgreementAssumption
  <1>a. /\ period[m] \in Nat /\ lockIter[m] \in Nat /\ fastForward[m] \in Nat
        /\ Periods \subseteq Nat
    BY SettingType DEF TypeOK
  <1>1. CASE FastVoteState(m)
    BY Zenon, <1>1, <1>a DEF FastVoteState, AddsNone, TypeOK, data
  <1>2. CASE PreCommitState(m)
    <2>1. PICK h \in Values : /\ ProposeVote(m, "PreCom", period[m], h)
                              /\ lockValue[m] \in Blocks => h = lockValue[m]
      <3>1. CASE lockValue[m] \in {SKIP, NULL}
        BY <1>0, <1>2, <3>1, NearerType DEF PreCommitState, TypeOK
      <3>2. CASE lockValue[m] \notin {SKIP, NULL}
        BY Zenon, <1>2, <3>2 DEF PreCommitState, TypeOK, Hashes, Values
      <3> QED
        BY ZenonT(20), <3>1, <3>2
    <2>2. PreComVote(m, Vote("PreCom", period[m], h))
      BY Zenon, <1>2, <2>1 DEF PreCommitState, PreComVote, TypeOK, data
    <2> QED
      BY <1>2, <2>1, <2>2, Zenon DEF PreCommitState, ProposeVote, Adds, data
  <1>3. CASE CommitState(m)
    <2>1. ComVote(m, Vote("Com", period[m], lockValue[m]))
      BY Zenon, <1>3 DEF CommitState, ComVote, TypeOK, data
    <2> QED
      BY <1>3, <2>1, Zenon DEF CommitState, ProposeVote, Adds, data
  <1>4. CASE Done(m)
    BY ZenonT(30), <1>4, <1>a DEF Done, AddsNone, TypeOK
  <1>5. CASE VoteFast(m)
    <2>1. FastVote(m, Vote("Fast", period[m], setting.leaderBlock))
      BY Zenon, <1>0, <1>5 DEF VoteFast, FastVote, VotedSoFar, MemberVoted, data
    <2> QED
      BY <1>5, <2>1, ZenonT(30) DEF VoteFast, ProposeVote, Adds, data
  <1>6. ASSUME NEW h \in Blocks, ProcessFast(m, h)
        PROVE  AddsNone(m) \/ \E x : Adds(m, x)
    <2>1. h = setting.leaderBlock
      BY <1>6, FastLeader, VoteFields DEF ProcessFast, Quorum
    <2>2. CASE state[m] = "FastVote"
      <3>1. FastComVote(m, Vote("FastCom", 2, h))
        BY <1>6, <2>1, <2>2 DEF ProcessFast, FastComVote, TypeOK
      <3> QED
        BY Zenon, <1>6, <2>2, <3>1 DEF ProcessFast, ProposeVote, Adds
    <2>3. CASE state[m] # "FastVote"
      BY ZenonT(30), <1>6, <1>a, <2>1, <2>3 DEF ProcessFast, AddsNone, TypeOK
    <2> QED
      BY ZenonT(30), <2>2, <2>3
  <1>7. ASSUME NEW h, ConfirmBlock(m, h), output[m] = None,
               \/ h \in Blocks /\ Quorum("FastCom", 2, h)
               \/ h \in Values /\ \E p \in Periods : Quorum("Com", p, h)
               \/ \E n \in Members : h = output[n]
        PROVE  AddsNone(m)
    BY Zenon, <1>7, <1>a DEF ConfirmBlock, AddsNone, TypeOK, data
  <1>8. ASSUME NEW p \in Periods, NEW h \in Hashes, ProcessPreCom(m, p, h)
        PROVE  AddsNone(m)
    <2>1. h \in Values
      BY Zenon, <1>8 DEF ProcessPreCom, Hashes, Values
    <2> QED
      BY <1>8, <1>a, <2>1 DEF ProcessPreCom, AddsNone, TypeOK
  <1>9. ASSUME NEW p \in Periods, ProcessUndecided(m, p) PROVE AddsNone(m)
    BY SMTT(30), <1>9, <1>a DEF ProcessUndecided, AddsNone, TypeOK, data
  <1>10. CASE Crash(m)
    BY Zenon, <1>10 DEF Crash, AddsNone, data
  <1>11. ASSUME NEW h \in Blocks, ProcessFastCom(m, h) PROVE AddsNone(m)
    BY Zenon, <1>7, <1>11 DEF ProcessFastCom, Running
  <1>12. ASSUME NEW p \in Periods, NEW h \in Hashes, ProcessCom(m, p, h)
         PROVE  AddsNone(m)
    BY Zenon, <1>7, <1>12 DEF ProcessCom, Running, Hashes, Values
  <1>13. ASSUME NEW n \in Members, ProcessAgreementResult(m, n) PROVE AddsNone(m)
    BY Zenon, <1>7, <1>13 DEF ProcessAgreementResult, Running
  <1> QED
    BY ZenonT(30), <1>1, <1>2, <1>3, <1>4, <1>5, <1>6, <1>8, <1>9, <1>10, <1>11, <1>12, <1>13
       DEF Step, NextState, Receive

-----------------------------------------------------------------------------
(* The conjuncts of the invariant *)

LEMMA VotedSoFarStep ==
    ASSUME TypeOK, TypeOK', VotedSoFar, NEW m \in Members, Local(m),
           AddsNone(m) \/ \E x : Adds(m, x)
    PROVE  VotedSoFar'
  <1>a. /\ period[m] \in Nat /\ period'[m] \in Nat /\ fastForward'[m] \in Nat
        /\ period[m] >= 2
        /\ setting' = setting
    <2>1. setting' = setting /\ Periods' = Periods
      BY ZenonT(30) DEF Local, Periods
    <2> QED
      BY <2>1, SettingType DEF TypeOK
  <1>b. \A a \in votes[m] : a.period \in Nat
    BY SMTT(30), SettingType DEF TypeOK
  <1>1. \A n \in Members \ {m} :
            /\ votes'[n] = votes[n] /\ state'[n] = state[n]
            /\ period'[n] = period[n] /\ hasVoteFast'[n] = hasVoteFast[n]
            /\ fastForward'[n] = fastForward[n]
    BY ZenonT(20) DEF Local
  <1>2. ASSUME NEW n \in Members \ {m} PROVE MemberVoted(n)'
    BY <1>1, <1>a DEF VotedSoFar, MemberVoted
  <1>c. MemberVoted(m)
    BY ZenonT(30) DEF VotedSoFar
  <1>3. ASSUME AddsNone(m) PROVE MemberVoted(m)'
    BY <1>3, <1>a, <1>b, <1>c DEF MemberVoted, AddsNone
  <1>4. ASSUME NEW x, Adds(m, x) PROVE MemberVoted(m)'
    <2>0. votes'[m] = votes[m] \cup {x} /\ period' = period /\ fastForward' = fastForward
      BY Zenon, <1>4 DEF Adds, TypeOK
    <2>1. CASE FastVote(m, x)
      <3>1. x.type = "Fast" /\ x.period = 2 /\ x.hash = setting.leaderBlock
        BY Zenon, <2>1 DEF FastVote, Vote
      <3> QED
        BY ZenonT(30), <1>a, <1>b, <1>c, <2>0, <2>1, <3>1 DEF MemberVoted, FastVote
    <2>2. CASE FastComVote(m, x)
      <3>1. x.type = "FastCom" /\ x.period = 2 /\ x.hash = setting.leaderBlock
        BY Zenon, <2>2 DEF FastComVote, Vote
      <3> QED
        BY ZenonT(30), <1>a, <1>b, <1>c, <2>0, <2>2, <3>1 DEF MemberVoted, FastComVote
    <2>3. CASE PreComVote(m, x)
      <3>1. x.type = "PreCom" /\ x.period = period[m] /\ x.hash \in Values
        BY SMTT(30), <2>3, VoteFields DEF PreComVote
      <3>2. /\ state[m] = "PreCommit" /\ state'[m] = "Commit"
            /\ hasVoteFast' = hasVoteFast
        BY ZenonT(30), <2>3 DEF PreComVote
      <3> QED
        BY SMTT(30), <1>a, <1>b, <1>c, <2>0, <3>1, <3>2 DEF MemberVoted
    <2>4. CASE ComVote(m, x)
      <3>1. x.type = "Com" /\ x.period = period[m]
        BY Zenon, <2>4 DEF ComVote, Vote
      <3>2. /\ state[m] = "Commit" /\ state'[m] = "Forward"
            /\ hasVoteFast' = hasVoteFast
        BY Zenon, <2>4 DEF ComVote
      <3> QED
        BY SMTT(30), <1>a, <1>b, <1>c, <2>0, <3>1, <3>2 DEF MemberVoted
    <2> QED
      BY Zenon, <1>4, <2>1, <2>2, <2>3, <2>4 DEF Adds
  <1> QED
    BY ZenonT(30), <1>2, <1>3, <1>4 DEF VotedSoFar

LEMMA NoForkVoteStep ==
    ASSUME TypeOK, NoForkVote, VotedSoFar, NEW m \in Members, Local(m),
           AddsNone(m) \/ \E x : Adds(m, x)
    PROVE  NoForkVote'
  <1>a. period[m] \in Nat /\ period[m] >= 2 /\ \A a \in votes[m] : a.period \in Nat
    BY SMTT(30), SettingType DEF TypeOK
  <1>1. CASE AddsNone(m)
    BY ZenonT(30), <1>1 DEF NoForkVote, AddsNone
  <1>2. ASSUME NEW x, Adds(m, x) PROVE NoForkVote'
    <2>0. /\ votes'[m] = votes[m] \cup {x}
          /\ \A n \in Members \ {m} : votes'[n] = votes[n]
      BY Zenon, <1>2 DEF Adds, TypeOK
    <2>1. \A a \in votes[m] : a.type = x.type /\ a.period = x.period => a.hash = x.hash
      <3>1. CASE FastVote(m, x)
        BY SMTT(30), <3>1, VoteFields DEF FastVote, VotedSoFar, MemberVoted
      <3>2. CASE FastComVote(m, x)
        BY SMTT(30), <3>2, VoteFields DEF FastComVote, VotedSoFar, MemberVoted
      <3>3. CASE PreComVote(m, x)
        BY SMTT(30), <1>a, <3>3, VoteFields DEF PreComVote, VotedSoFar, MemberVoted
      <3>4. CASE ComVote(m, x)
        BY <1>a, <3>4, VoteFields DEF ComVote, VotedSoFar, MemberVoted
      <3> QED
        BY ZenonT(30), <1>2, <3>1, <3>2, <3>3, <3>4 DEF Adds
    <2> QED
      BY <2>0, <2>1 DEF NoForkVote
  <1> QED
    BY ZenonT(30), <1>1, <1>2

(* A step takes no quorum away, and adds one for its own vote at most.     *)
LEMMA StepQuorums ==
    ASSUME TypeOK, NEW m \in Members, Local(m),
           AddsNone(m) \/ \E x : Adds(m, x)
    PROVE  /\ Periods' = Periods
           /\ Quorums \subseteq Quorums'
           /\ AddsNone(m) => Quorums' = Quorums
           /\ \A x : Adds(m, x) => \A v \in Quorums' : v # x => v \in Quorums
  <1>1. setting' = setting /\ Periods' = Periods
    BY ZenonT(30) DEF Local, Periods
  <1>2. ASSUME AddsNone(m) PROVE Quorums' = Quorums
    BY Zenon, <1>1, <1>2, QuorumsSame DEF AddsNone
  <1>3. ASSUME NEW x, Adds(m, x)
        PROVE  Quorums \subseteq Quorums' /\ \A v \in Quorums' : v # x => v \in Quorums
    BY <1>1, <1>3, QuorumsNew, ZenonT(30) DEF Adds
  <1> QED
    BY SMTT(30), <1>1, <1>2, <1>3

LEMMA LockBackedStep ==
    ASSUME TypeOK, LockBacked, NEW m \in Members, Local(m),
           AddsNone(m) \/ \E x : Adds(m, x)
    PROVE  LockBacked'
  <1>1. Quorums \subseteq Quorums'
    BY Zenon, StepQuorums
  <1>2. \A n \in Members \ {m} : lockValue'[n] = lockValue[n] /\ lockIter'[n] = lockIter[n]
    BY Zenon DEF Local
  <1>3. \/ lockValue'[m] = lockValue[m] /\ lockIter'[m] = lockIter[m]
        \/ /\ lockIter'[m] = 1 /\ lockValue'[m] \in Blocks
           /\ Quorum("Fast", 2, lockValue'[m])
        \/ /\ lockIter'[m] >= 2 /\ lockValue'[m] \in Values
           /\ Quorum("PreCom", lockIter'[m], lockValue'[m])
    <2>1. CASE AddsNone(m)
      BY SMTT(30), <2>1, SettingType DEF AddsNone
    <2>2. ASSUME NEW x, Adds(m, x)
          PROVE  \/ lockValue'[m] = lockValue[m] /\ lockIter'[m] = lockIter[m]
                 \/ /\ lockIter'[m] = 1 /\ lockValue'[m] \in Blocks
                    /\ Quorum("Fast", 2, lockValue'[m])
      BY Zenon, <2>2 DEF Adds, FastVote, FastComVote, PreComVote, ComVote
    <2> QED
      BY ZenonT(30), <2>1, <2>2
  <1> QED
    BY <1>1, <1>2, <1>3 DEF LockBacked, Quorum, Vote

LEMMA OutputBackedStep ==
    ASSUME TypeOK, OutputBacked, NEW m \in Members, Local(m),
           AddsNone(m) \/ \E x : Adds(m, x)
    PROVE  OutputBacked'
  <1>1. Quorums \subseteq Quorums' /\ Periods' = Periods
    BY Zenon, StepQuorums
  <1>2. \A n \in Members \ {m} : output'[n] = output[n]
    BY Zenon DEF Local
  <1>3. SKIP \notin Values /\ Blocks \subseteq Values
    BY Zenon, AgreementAssumption DEF Values
  <1>4. \/ \E n \in Members : output'[m] = output[n]
        \/ output'[m] \in Blocks /\ Quorum("FastCom", 2, output'[m])
        \/ output'[m] \in Values /\ \E p \in Periods : Quorum("Com", p, output'[m])
    BY Zenon DEF AddsNone, Adds
  <1> QED
    BY ZenonT(30), <1>1, <1>2, <1>3, <1>4, Zenon DEF OutputBacked, Quorum, Vote

-----------------------------------------------------------------------------
(* FastSafe *)

(* A FastCom vote is new only in "FastVote", which a member does not enter *)
(* again.                                                                  *)
LEMMA FastComNew ==
    ASSUME TypeOK, NEW m \in Members, Local(m),
           AddsNone(m) \/ \E x : Adds(m, x)
    PROVE  /\ \A n \in Members : state'[n] = "FastVote" => state[n] = "FastVote"
           /\ \A n \in Members : \A a \in votes'[n] :
                a.type = "FastCom" => HasFastCom(n) \/ \E x : Adds(m, x) /\ n = m /\ FastComVote(m, x)
  <1>1. \A n \in Members \ {m} : votes'[n] = votes[n] /\ state'[n] = state[n]
    BY SMTT(30) DEF Local
  <1>2. CASE AddsNone(m)
    BY ZenonT(30), <1>1, <1>2 DEF AddsNone, HasFastCom
  <1>3. ASSUME NEW x, Adds(m, x)
        PROVE  /\ state'[m] = "FastVote" => state[m] = "FastVote"
               /\ \A a \in votes'[m] :
                    a.type = "FastCom" => HasFastCom(m) \/ FastComVote(m, x)
    <2>1. votes'[m] = votes[m] \cup {x}
      BY Zenon, <1>3 DEF Adds, TypeOK
    <2>2. state'[m] = "FastVote" => state[m] = "FastVote"
      BY ZenonT(30), <1>3 DEF Adds, FastVote, FastComVote, PreComVote, ComVote
    <2>3. x.type = "FastCom" => FastComVote(m, x)
      BY SMTT(30), <1>3, VoteFields DEF Adds, FastVote, PreComVote, ComVote
    <2> QED
      BY Zenon, <2>1, <2>2, <2>3 DEF HasFastCom
  <1> QED
    BY ZenonT(30), <1>1, <1>2, <1>3 DEF HasFastCom

LEMMA FastSafeOther ==
    ASSUME TypeOK, FastSafe, OtherLock, NEW m \in Members, Local(m),
           AddsNone(m) \/ \E x : Adds(m, x)
    PROVE  FastSafe'
  <1>1. OtherLock'
    <2>1. setting' = setting /\ Periods' = Periods /\ Quorums \subseteq Quorums'
      BY Zenon, StepQuorums DEF Local
    <2> QED
      BY Zenon, <2>1 DEF OtherLock, Quorum, Vote
  <1>2. PICK R \in SUBSET Members :
            /\ Cardinality(R) >= requiredVote
            /\ \A n \in R : state[n] # "FastVote" /\ ~HasFastCom(n)
    BY Zenon DEF FastSafe
  <1>3. ASSUME NEW n \in R
        PROVE  state'[n] # "FastVote" /\ ~ \E a \in votes'[n] : a.type = "FastCom"
    BY Zenon, <1>2, FastComNew DEF FastComVote
  <1> QED
    BY Zenon, <1>1, <1>2, <1>3 DEF FastSafe, HasFastCom

(* As long as no other lock is possible, members are locked on the         *)
(* leader's block or not at all.                                           *)
LEMMA LeaderLock ==
    ASSUME TypeOK, VotedSoFar, LockBacked, ~OtherLock, NEW n \in Members,
           lockIter[n] # 0
    PROVE  lockValue[n] = setting.leaderBlock
  <1>1. CASE lockIter[n] = 1 /\ Quorum("Fast", 2, lockValue[n])
    BY <1>1, FastLeader, VoteFields DEF Quorum
  <1>2. CASE /\ lockIter[n] >= 2 /\ lockValue[n] \in Values
             /\ Quorum("PreCom", lockIter[n], lockValue[n])
    <2>1. lockIter[n] \in Periods
      BY <1>2 DEF TypeOK
    <2> QED
      BY Zenon, <1>2, <2>1 DEF OtherLock
  <1> QED
    BY Zenon, <1>1, <1>2 DEF LockBacked

LEMMA LeaderIsBlock ==
    ASSUME TypeOK, VotedSoFar, NEW n \in Members, HasFastCom(n)
    PROVE  setting.leaderBlock \in Blocks
  <1>1. PICK a \in votes[n] : a.type = "FastCom"
    BY Zenon DEF HasFastCom
  <1>2. a.hash \in Hashes
    BY DEF TypeOK
  <1>3. a.hash = setting.leaderBlock
    BY Zenon, <1>1 DEF VotedSoFar, MemberVoted
  <1> QED
    BY Zenon, <1>2, <1>3, SettingType, AgreementAssumption DEF Hashes

(* A member with a FastCom vote votes PreCom for the leader's block.       *)
LEMMA FastComPreCom ==
    ASSUME TypeOK, VotedSoFar, FastSafe, ~OtherLock, NEW m \in Members,
           HasFastCom(m), NEW x, PreComVote(m, x)
    PROVE  x.hash = setting.leaderBlock
  <1>1. lockValue[m] = setting.leaderBlock
    BY Zenon DEF FastSafe
  <1>2. setting.leaderBlock \in Blocks
    BY Zenon, LeaderIsBlock
  <1> QED
    BY SMTT(30), <1>1, <1>2, VoteFields DEF PreComVote

(* The voters of the first quorum for another lock have no FastCom vote.   *)
LEMMA FastSafeNew ==
    ASSUME TypeOK, VotedSoFar, VotedSoFar', FastSafe, ~OtherLock, OtherLock',
           NEW m \in Members, Local(m), AddsNone(m) \/ \E x : Adds(m, x)
    PROVE  FastSafe'
  <1>b. /\ setting' = setting /\ Periods' = Periods
        /\ \A n \in Members \ {m} : votes'[n] = votes[n]
    BY Zenon, StepQuorums DEF Local
  <1>1. PICK p \in Periods, h \in Values \ {setting.leaderBlock} :
            Vote("PreCom", p, h) \in Quorums'
    BY Zenon, <1>b DEF OtherLock, Quorum, Vote
  <1> DEFINE w == Vote("PreCom", p, h)
  <1>2. w.type = "PreCom" /\ w.period = p /\ w.hash = h
    BY VoteFields
  <1>3. Adds(m, w)
    <2>1. w \notin Quorums
      BY ZenonT(30), <1>1 DEF OtherLock, Quorum
    <2> QED
      BY Zenon, <1>1, <2>1, StepQuorums
  <1> HIDE DEF w
  <1>4. PreComVote(m, w)
    BY Zenon, <1>2, <1>3, AddedKind
  <1>5. PICK R \in SUBSET Members :
            Cardinality(R) >= requiredVote /\ \A n \in R : w \in votes'[n]
    <2> DEFINE S == {n \in Members : w \in votes'[n]}
    <2>1. Cardinality(S) >= requiredVote
      BY Zenon, <1>1 DEF Quorums, requiredVote, w
    <2> HIDE DEF w
    <2> QED
      BY SMTT(30), <2>1
  <1>6. ASSUME NEW n \in R
        PROVE  state'[n] # "FastVote" /\ ~ \E a \in votes'[n] : a.type = "FastCom"
    <2>1. n \in Members /\ w \in votes'[n]
      BY ZenonT(30), <1>5
    <2>2. state'[n] # "FastVote"
      <3>1. p \in Nat /\ p >= 2
        BY Zenon, SettingType
      <3>2. MemberVoted(n)'
        BY Zenon, <2>1 DEF VotedSoFar
      <3> QED
        BY <1>2, <2>1, <3>1, <3>2 DEF MemberVoted
    <2>3. ~HasFastCom(n)
      <3>1. CASE n = m
        BY ZenonT(30), <1>2, <1>4, <3>1, FastComPreCom
      <3>2. CASE n # m
        BY ZenonT(30), <1>2, <1>b, <2>1, <3>2 DEF FastSafe
      <3> QED
        BY Zenon, <3>1, <3>2
    <2>4. \A x : ~FastComVote(m, x)
      BY Zenon, <1>4 DEF PreComVote, FastComVote
    <2> QED
      BY Zenon, <2>1, <2>2, <2>3, <2>4, FastComNew
  <1> QED
    BY Zenon, <1>5, <1>6 DEF FastSafe, HasFastCom

(* A member with a FastCom vote keeps its lock on the leader's block.      *)
LEMMA FastSafeKeep ==
    ASSUME TypeOK, VotedSoFar, LockBacked, FastSafe, ~OtherLock, ~OtherLock',
           NEW m \in Members, Local(m), AddsNone(m) \/ \E x : Adds(m, x)
    PROVE  FastSafe'
  <1>0. /\ setting' = setting
        /\ \A n \in Members \ {m} : votes'[n] = votes[n] /\ lockValue'[n] = lockValue[n]
    BY Zenon DEF Local
  <1> SUFFICES ASSUME NEW n \in Members, NEW f \in votes'[n], f.type = "FastCom"
               PROVE  /\ lockValue'[n] = setting.leaderBlock
                      /\ \A a \in votes'[n] : a.type = "PreCom" =>
                            a.hash = setting.leaderBlock
    BY <1>0, Zenon DEF FastSafe, HasFastCom
  <1>1. CASE HasFastCom(n)
    <2>1. /\ lockValue[n] = setting.leaderBlock
          /\ \A a \in votes[n] : a.type = "PreCom" => a.hash = setting.leaderBlock
      BY <1>1, Zenon DEF FastSafe
    <2>2. CASE n # m
      BY <1>0, <2>1, <2>2, Zenon
    <2>3. CASE n = m
      <3>4. lockValue'[n] = setting.leaderBlock
        BY Zenon, <2>1, <2>3 DEF OtherLock, AddsNone, Adds, FastVote, FastComVote,
           PreComVote, ComVote
      <3>5. \A a \in votes'[n] : a.type = "PreCom" => a.hash = setting.leaderBlock
        <4>1. CASE AddsNone(m)
          BY <2>1, <4>1, Zenon DEF AddsNone
        <4>2. ASSUME NEW x, Adds(m, x)
              PROVE  \A a \in votes'[n] : a.type = "PreCom" =>
                        a.hash = setting.leaderBlock
          <5>1. votes'[n] = votes[n] \cup {x}
            BY ZenonT(30), <2>3, <4>2 DEF Adds, TypeOK
          <5>2. x.type = "PreCom" => PreComVote(m, x)
            BY SMTT(30), <4>2, VoteFields DEF Adds, FastVote, FastComVote, ComVote
          <5>3. x.type = "PreCom" => x.hash = setting.leaderBlock
            BY <1>1, <2>3, <5>2, FastComPreCom, Zenon
          <5> QED
            BY Zenon, <2>1, <5>1, <5>3
        <4> QED
          BY <4>1, <4>2, Zenon
      <3> QED
        BY SMTT(30), <3>4, <3>5
    <2> QED
      BY Zenon, <2>2, <2>3
  <1>2. CASE ~HasFastCom(n)
    <2>1. PICK x : Adds(m, x) /\ n = m /\ FastComVote(m, x)
      BY <1>2, FastComNew, ZenonT(30)
    <2>3. lockValue'[n] = setting.leaderBlock
      BY ZenonT(30), <2>1, LeaderLock DEF FastComVote
    <2>4. \A a \in votes[n] : a.type # "PreCom"
      <3>1. MemberVoted(n) /\ state[n] = "FastVote"
        BY ZenonT(30), <2>1 DEF VotedSoFar, FastComVote
      <3>2. \A a \in votes[n] : a.period \in Nat /\ a.period >= 2
        BY SMTT(30), SettingType DEF TypeOK
      <3> QED
        BY SMTT(30), <3>1, <3>2 DEF MemberVoted
    <2>5. votes'[n] = votes[n] \cup {x} /\ x.type = "FastCom"
      BY SMTT(30), <2>1, VoteFields DEF Adds, FastComVote, TypeOK
    <2> QED
      BY Zenon, <2>3, <2>4, <2>5
  <1> QED
    BY Zenon, <1>1, <1>2

-----------------------------------------------------------------------------
(* The locks after a tick *)

(* After a tick all running members have the lock that m has, and every    *)
(* quorum for another value is of an earlier period.                       *)
LEMMA TickLocks ==
    ASSUME TypeOK, NoForkVote, LockBacked, Prompt, Tick,
           NEW m \in Members, Running(m), lockValue[m] \in Blocks,
           NEW n \in Members, Running(n)
    PROVE  /\ lockValue[n] = lockValue[m]
           /\ \A p \in Periods, h \in Values \ {lockValue[m]} :
                Quorum("PreCom", p, h) => p < lockIter[n]
  <1>0. /\ lockIter[m] \in Nat /\ lockIter[n] \in Nat
        /\ \A p \in Periods : p \in Nat /\ p >= 2
        /\ lockIter[m] >= 2 => lockIter[m] \in Periods
        /\ lockIter[n] >= 2 => lockIter[n] \in Periods
    BY SMTT(30), SettingType DEF TypeOK
  <1>1. \A k \in {m, n} :
            /\ \A h \in Blocks : Quorum("Fast", 2, h) => lockIter[k] # 0
            /\ \A p \in Periods, h \in Values :
                 Quorum("PreCom", p, h) => p <= lockIter[k]
    <2>1. "Fast" \notin setting.late /\ "PreCom" \notin setting.late
      BY Zenon DEF Prompt
    <2>2. setting.late # VoteTypes
      BY Zenon, <2>1 DEF VoteTypes
    <2>3. \A k \in {m, n} : ~Unheard(k)
      BY Zenon, <2>2 DEF Tick, Urgent
    <2> QED
      BY <1>0, <2>1, <2>3 DEF Unheard
  <1>2. \A p \in Periods, h, g \in Hashes :
            Quorum("PreCom", p, h) /\ Quorum("PreCom", p, g) => h = g
    BY QuorumsMeet, VoteFields DEF Quorum
  <1>3. \A h, g \in Hashes : Quorum("Fast", 2, h) /\ Quorum("Fast", 2, g) => h = g
    BY QuorumsMeet, VoteFields DEF Quorum
  <1>4. lockValue[m] # SKIP /\ Blocks \subseteq Values /\ Values \subseteq Hashes
    BY Zenon, AgreementAssumption DEF Values, Hashes
  <1>5. lockValue[n] = lockValue[m]
    <2>1. CASE lockIter[m] = 1 /\ Quorum("Fast", 2, lockValue[m])
      <3>1. lockIter[n] # 0 /\ ~(lockIter[n] >= 2 /\ lockValue[n] \in Values
                                   /\ Quorum("PreCom", lockIter[n], lockValue[n]))
        BY SMTT(30), <1>0, <1>1, <2>1
      <3> QED
        BY Zenon, <1>3, <1>4, <2>1, <3>1 DEF LockBacked
    <2>2. CASE lockIter[m] >= 2 /\ Quorum("PreCom", lockIter[m], lockValue[m])
      <3>1. lockIter[n] >= lockIter[m]
        BY ZenonT(30), <1>0, <1>1, <1>4, <2>2
      <3>2. lockValue[n] \in Values /\ Quorum("PreCom", lockIter[n], lockValue[n])
        BY SMTT(30), <1>0, <2>2, <3>1 DEF LockBacked
      <3>3. lockIter[n] = lockIter[m]
        BY <1>0, <1>1, <2>2, <3>1, <3>2
      <3> QED
        BY Zenon, <1>0, <1>2, <1>4, <2>2, <3>2, <3>3
    <2> QED
      BY Zenon, <1>4, <2>1, <2>2 DEF LockBacked
  <1>6. ASSUME NEW p \in Periods, NEW h \in Values \ {lockValue[m]},
               Quorum("PreCom", p, h)
        PROVE  p < lockIter[n]
    <2>1. p <= lockIter[n]
      BY Zenon, <1>1, <1>6
    <2>2. CASE p = lockIter[n]
      <3>1. Quorum("PreCom", p, lockValue[n])
        BY <1>0, <2>2 DEF LockBacked
      <3> QED
        BY ZenonT(30), <1>2, <1>4, <1>5, <1>6, <3>1
    <2> QED
      BY <1>0, <2>1, <2>2
  <1> QED
    BY ZenonT(30), <1>5, <1>6

-----------------------------------------------------------------------------
(* ComSafe *)

(* The quorums that ComSafe speaks of, and who still runs, after a step.   *)
LEMMA ComSafeOld ==
    ASSUME TypeOK, LockBacked, ComSafe, NEW m \in Members, Local(m),
           AddsNone(m) \/ \E x : Adds(m, x),
           NEW k \in Members, NEW a \in votes[k], a.type = "Com", a.hash \in Blocks
    PROVE  /\ \/ Vote("Fast", 2, a.hash) \in Quorums'
              \/ \E p \in Periods' : Vote("PreCom", p, a.hash) \in Quorums'
           /\ Prompt => \A n \in Members : n \in up' /\ output'[n] = None =>
                /\ lockValue'[n] = a.hash
                /\ \A p \in Periods', h \in Values \ {a.hash} :
                      Vote("PreCom", p, h) \in Quorums' => p < lockIter'[n]
  <1>0. /\ Periods' = Periods /\ Quorums \subseteq Quorums' /\ up' \subseteq up
        /\ \A n \in Members \ {m} : /\ lockValue'[n] = lockValue[n]
                                    /\ lockIter'[n] = lockIter[n]
                                    /\ output'[n] = output[n]
    BY Zenon, StepQuorums DEF Local
  <1>1. \/ Vote("Fast", 2, a.hash) \in Quorums'
        \/ \E p \in Periods' : Vote("PreCom", p, a.hash) \in Quorums'
    BY Zenon, <1>0 DEF ComSafe, Quorum
  <1>2. ASSUME Prompt, NEW n \in Members, Running(n)
        PROVE  /\ lockValue[n] = a.hash /\ lockIter[n] # 0
               /\ \A p \in Periods, h \in Values \ {a.hash} :
                     Vote("PreCom", p, h) \in Quorums => p < lockIter[n]
    <2>1. SKIP # a.hash
      BY Zenon, AgreementAssumption
    <2>2. /\ lockValue[n] = a.hash
          /\ \A p \in Periods, h \in Values \ {a.hash} :
                Vote("PreCom", p, h) \in Quorums => p < lockIter[n]
      BY Zenon, <1>2 DEF ComSafe, Quorum
    <2> QED
      BY <2>1, <2>2 DEF LockBacked
  <1> SUFFICES ASSUME Prompt, NEW n \in Members, n \in up', output'[n] = None
               PROVE  /\ lockValue'[n] = a.hash
                      /\ \A p \in Periods, h \in Values \ {a.hash} :
                            Vote("PreCom", p, h) \in Quorums' => p < lockIter'[n]
    BY Zenon, <1>0, <1>1
  <1>3. Running(n)
    <2>1. CASE n = m
      <3>1. None \notin Hashes
        BY Zenon, AgreementAssumption DEF Hashes
      <3> QED
        BY Zenon, <1>0, <2>1, <3>1 DEF Running, Adds, AddsNone
    <2> QED
      BY Zenon, <1>0, <2>1 DEF Running
  <1>4. lockValue'[n] = a.hash /\ lockIter'[n] >= lockIter[n] /\ lockIter'[n] \in Int
    <2>0. \A l \in Members : lockIter[l] \in Int
      BY SettingType DEF TypeOK
    <2>1. CASE n # m
      BY SMTT(30), <1>0, <1>2, <1>3, <2>0, <2>1
    <2>2. CASE n = m
      <3>0. /\ lockValue[m] = a.hash /\ lockIter[m] # 0 /\ lockIter[m] \in Int
            /\ \A p \in Periods, h \in Values \ {a.hash} :
                  Vote("PreCom", p, h) \in Quorums => p < lockIter[m]
        BY ZenonT(30), <1>2, <1>3, <2>0, <2>2
      <3>1. CASE AddsNone(m)
        <4>1. \/ lockValue' = lockValue /\ lockIter' = lockIter
              \/ /\ lockIter'[m] > lockIter[m] /\ lockIter'[m] \in Periods
                 /\ lockValue'[m] \in Values
                 /\ Vote("PreCom", lockIter'[m], lockValue'[m]) \in Quorums
          BY ZenonT(30), <3>0, <3>1 DEF AddsNone, Quorum
        <4>2. lockIter'[m] \in Periods => lockIter'[m] \in Int
          BY SMTT(30), SettingType
        <4> QED
          BY SMTT(30), <2>2, <3>0, <4>1, <4>2
      <3>2. ASSUME NEW x, Adds(m, x)
            PROVE  lockValue' = lockValue /\ lockIter' = lockIter
        BY Zenon, <3>0, <3>2 DEF Adds, FastVote, FastComVote, PreComVote, ComVote
      <3> QED
        BY <2>2, <3>0, <3>1, <3>2
    <2> QED
      BY ZenonT(30), <2>1, <2>2
  <1>5. ASSUME NEW p \in Periods, NEW h \in Values \ {a.hash},
               Vote("PreCom", p, h) \in Quorums'
        PROVE  p < lockIter'[n]
    <2>1. Vote("PreCom", p, h) \in Quorums
      <3>1. ASSUME NEW x, Adds(m, x) PROVE x # Vote("PreCom", p, h)
        <4>1. CASE PreComVote(m, x)
          <5>1. lockValue[m] = a.hash
            BY Zenon, <1>2, <4>1 DEF PreComVote
          <5> QED
            BY SMTT(30), <4>1, <5>1, VoteFields DEF PreComVote
        <4> QED
          <5>1. Vote("PreCom", p, h).type = "PreCom"
            BY ZenonT(30) DEF Vote
          <5> QED
            BY Zenon, <3>1, <4>1, <5>1, AddedKind
      <3> QED
        BY ZenonT(30), <1>5, <3>1, StepQuorums
    <2>2. p < lockIter[n]
      BY ZenonT(30), <1>2, <1>3, <2>1
    <2>3. lockIter[n] \in Int /\ p \in Int
      BY SettingType DEF TypeOK
    <2> QED
      BY <1>4, <2>2, <2>3
  <1> QED
    BY Zenon, <1>4, <1>5

LEMMA ComSafeStep ==
    ASSUME TypeOK, NoForkVote, LockBacked, ComSafe, NEW m \in Members, Local(m),
           AddsNone(m) \/ \E x : Adds(m, x)
    PROVE  ComSafe'
  <1>0. setting' = setting /\ Periods' = Periods /\ Quorums \subseteq Quorums'
    BY ZenonT(30), StepQuorums DEF Local
  (* A Com vote is old, or m casts it for its lock after a tick.            *)
  <1>1. ASSUME NEW k \in Members, NEW a \in votes'[k], a.type = "Com", a \notin votes[k]
        PROVE  /\ Running(m) /\ Tick /\ a.hash = lockValue[m]
               /\ lockValue' = lockValue /\ lockIter' = lockIter
               /\ up' \subseteq up /\ output' = output
               /\ \A v \in Quorums' : v.type = "PreCom" => v \in Quorums
    <2>1. PICK x : Adds(m, x)
      BY Zenon, <1>1 DEF AddsNone
    <2>2. a = x
      BY ZenonT(30), <1>1, <2>1 DEF Adds, TypeOK
    <2>3. ComVote(m, x)
      BY <1>1, <2>1, <2>2, VoteFields DEF Adds, FastVote, FastComVote, PreComVote
    <2>4. \A v \in Quorums' : v.type = "PreCom" => v \in Quorums
      BY Zenon, <1>1, <2>1, <2>2, StepQuorums
    <2> QED
      BY SMTT(30), <2>1, <2>2, <2>3, <2>4, VoteFields DEF ComVote, Adds, Local
  <1>2. ASSUME NEW k \in Members, NEW a \in votes'[k], a.type = "Com", a.hash \in Blocks
        PROVE  /\ \/ Vote("Fast", 2, a.hash) \in Quorums'
                  \/ \E p \in Periods' : Vote("PreCom", p, a.hash) \in Quorums'
               /\ Prompt => \A n \in Members : n \in up' /\ output'[n] = None =>
                    /\ lockValue'[n] = a.hash
                    /\ \A p \in Periods', h \in Values \ {a.hash} :
                          Vote("PreCom", p, h) \in Quorums' => p < lockIter'[n]
    <2>1. CASE a \in votes[k]
      BY ZenonT(20), <1>2, <2>1, ComSafeOld
    <2>2. CASE a \notin votes[k]
      <3>1. /\ Running(m) /\ Tick /\ a.hash = lockValue[m]
            /\ lockValue' = lockValue /\ lockIter' = lockIter
            /\ up' \subseteq up /\ output' = output
            /\ \A v \in Quorums' : v.type = "PreCom" => v \in Quorums
        BY Zenon, <1>1, <1>2, <2>2
      <3>2. a.hash # SKIP
        BY ZenonT(30), <1>2, AgreementAssumption
      <3>3. \/ Vote("Fast", 2, a.hash) \in Quorums
            \/ \E p \in Periods : Vote("PreCom", p, a.hash) \in Quorums
        BY SMTT(30), <3>1, <3>2 DEF LockBacked, Quorum, TypeOK
      <3>4. ASSUME Prompt, NEW n \in Members, n \in up', output'[n] = None
            PROVE  /\ lockValue'[n] = a.hash
                   /\ \A p \in Periods, h \in Values \ {a.hash} :
                         Vote("PreCom", p, h) \in Quorums' => p < lockIter'[n]
        <4>1. Running(n)
          BY ZenonT(20), <3>1, <3>4 DEF Running
        <4>2. /\ lockValue[n] = a.hash
              /\ \A p \in Periods, h \in Values \ {a.hash} :
                    Vote("PreCom", p, h) \in Quorums => p < lockIter[n]
          BY ZenonT(20), <1>2, <3>1, <3>4, <4>1, TickLocks DEF Quorum
        <4> QED
          BY SMTT(30), <3>1, <4>2, VoteFields
      <3> QED
        BY Zenon, <1>0, <3>3, <3>4
    <2> QED
      BY ZenonT(20), <2>1, <2>2
  <1>3. ASSUME Prompt, NEW k \in Members, NEW a \in votes'[k],
               a.type = "Com", a.hash \in Blocks,
               NEW n \in Members, NEW b \in votes'[n],
               b.type = "Com", b.hash \in Blocks
        PROVE  b.hash = a.hash
    <2>1. CASE a \in votes[k] /\ b \in votes[n]
      BY SMTT(30), <1>3, <2>1 DEF ComSafe
    <2>2. CASE a \in votes[k] /\ b \notin votes[n]
      BY SMTT(30), <1>1, <1>3, <2>2 DEF ComSafe
    <2>3. CASE a \notin votes[k] /\ b \in votes[n]
      BY <1>1, <1>3, <2>3 DEF ComSafe
    <2>4. CASE a \notin votes[k] /\ b \notin votes[n]
      BY Zenon, <1>1, <1>3, <2>4
    <2> QED
      BY ZenonT(20), <2>1, <2>2, <2>3, <2>4
  <1>4. Prompt' = Prompt
    BY Zenon, <1>0 DEF Prompt
  <1>5. ASSUME NEW k \in Members, NEW a \in votes'[k], a.type = "Com", a.hash \in Blocks
        PROVE  /\ \/ Vote("Fast", 2, a.hash) \in Quorums'
                  \/ \E p \in Periods' : Vote("PreCom", p, a.hash) \in Quorums'
               /\ Prompt' => \A n \in Members :
                    /\ n \in up' /\ output'[n] = None =>
                         /\ lockValue'[n] = a.hash
                         /\ \A p \in Periods', h \in Values \ {a.hash} :
                               Vote("PreCom", p, h) \in Quorums' => p < lockIter'[n]
                    /\ \A b \in votes'[n] :
                         b.type = "Com" /\ b.hash \in Blocks => b.hash = a.hash
    <2>1. /\ \/ Vote("Fast", 2, a.hash) \in Quorums'
             \/ \E p \in Periods' : Vote("PreCom", p, a.hash) \in Quorums'
          /\ Prompt => \A n \in Members : n \in up' /\ output'[n] = None =>
               /\ lockValue'[n] = a.hash
               /\ \A p \in Periods', h \in Values \ {a.hash} :
                     Vote("PreCom", p, h) \in Quorums' => p < lockIter'[n]
      BY Zenon, <1>2, <1>5
    <2>2. Prompt => \A n \in Members : \A b \in votes'[n] :
             b.type = "Com" /\ b.hash \in Blocks => b.hash = a.hash
      BY Zenon, <1>3, <1>5
    <2> QED
      BY Zenon, <1>4, <2>1, <2>2
  <1> QED
    BY ZenonT(30), <1>5 DEF ComSafe, Quorum, Running, Vote

-----------------------------------------------------------------------------
(* EmptySafe *)

(* A Com vote is cast only while no value has a quorum of them, if they    *)
(* are in time.                                                            *)
LEMMA TickNoCom ==
    ASSUME Tick, "Com" \notin setting.late, NEW m \in Members, Running(m),
           NEW p \in Periods, NEW h \in Values
    PROVE  ~Quorum("Com", p, h)
  <1>1. setting.late # VoteTypes
    BY Zenon DEF VoteTypes
  <1>2. ~Unheard(m)
    BY Zenon, <1>1 DEF Tick, Urgent
  <1> QED
    BY Zenon, <1>2 DEF Unheard

LEMMA EmptySafeStep ==
    ASSUME TypeOK, LockBacked, EmptySafe, NEW m \in Members, Local(m),
           AddsNone(m) \/ \E x : Adds(m, x)
    PROVE  EmptySafe'
  <1>0. /\ setting' = setting /\ Periods' = Periods /\ Quorums \subseteq Quorums'
        /\ \A n \in Members \ {m} : votes'[n] = votes[n] /\ output'[n] = output[n]
    BY Zenon, StepQuorums DEF Local
  <1>1. NULL \notin Blocks /\ NULL # SKIP /\ NULL # None
    BY Zenon, AgreementAssumption
  <1>2. ASSUME NEW n \in Members, NEW a \in votes'[n], a.type = "Com", a.hash = NULL
        PROVE  \E p \in Periods : Vote("PreCom", p, NULL) \in Quorums'
    <2>1. CASE a \in votes[n]
      BY Zenon, <1>0, <1>2, <2>1 DEF EmptySafe, Quorum
    <2>2. CASE a \notin votes[n]
      <3>1. n = m
        BY Zenon, <1>0, <1>2, <2>2
      <3>2. PICK x : Adds(m, x)
        BY Zenon, <1>2, <2>2, <3>1 DEF AddsNone
      <3>3. a = x
        BY ZenonT(30), <1>2, <2>2, <3>1, <3>2 DEF Adds, TypeOK
      <3>4. ComVote(m, x)
        BY ZenonT(30), <1>2, <3>2, <3>3, AddedKind
      <3>5. lockValue[m] = NULL
        BY <1>2, <3>3, <3>4, VoteFields DEF ComVote
      <3>6. lockIter[m] >= 2 /\ Quorum("PreCom", lockIter[m], NULL)
        BY ZenonT(30), <1>1, <3>5 DEF LockBacked
      <3>7. lockIter[m] \in Periods
        BY <3>6 DEF TypeOK
      <3> QED
        BY Zenon, <1>0, <3>6, <3>7 DEF Quorum
    <2> QED
      BY Zenon, <2>1, <2>2
  <1>3. ASSUME NEW n \in Members, output'[n] = NULL
        PROVE  \E p \in Periods : Vote("Com", p, NULL) \in Quorums'
    <2>1. \/ \E k \in Members : output'[n] = output[k]
          \/ output'[n] \in Blocks
          \/ \E p \in Periods : Quorum("Com", p, output'[n])
      BY Zenon, <1>0 DEF AddsNone, Adds
    <2> QED
      BY Zenon, <1>0, <1>1, <1>3, <2>1 DEF EmptySafe, Quorum
  <1>4. ASSUME "Com" \notin setting.late,
               NEW p \in Periods, NEW q \in Periods, NEW g \in Values, NEW h \in Values,
               Vote("Com", p, g) \in Quorums', Vote("Com", q, h) \in Quorums'
        PROVE  g = h
    <2>1. CASE Vote("Com", p, g) \in Quorums /\ Vote("Com", q, h) \in Quorums
      BY Zenon, <1>4, <2>1 DEF EmptySafe, Quorum
    <2>2. CASE Vote("Com", p, g) \notin Quorums \/ Vote("Com", q, h) \notin Quorums
      <3>1. PICK x : Adds(m, x)
        BY Zenon, <1>4, <2>2, StepQuorums
      <3>2. \A v \in Quorums' : v # x => v \in Quorums
        BY Zenon, <3>1, StepQuorums
      <3>3. x \in {Vote("Com", p, g), Vote("Com", q, h)}
        BY Zenon, <1>4, <2>2, <3>2
      <3>4. x.type = "Com"
        <4>1. Vote("Com", p, g).type = "Com"
          BY Zenon DEF Vote
        <4>2. Vote("Com", q, h).type = "Com"
          BY ZenonT(30) DEF Vote
        <4> QED
          BY Zenon, <3>3, <4>1, <4>2
      <3>5. ComVote(m, x)
        BY <3>1, <3>4, VoteFields DEF Adds, FastVote, FastComVote, PreComVote
      <3>6. Vote("Com", p, g) \notin Quorums /\ Vote("Com", q, h) \notin Quorums
        BY Zenon, <1>4, <3>5, TickNoCom DEF ComVote, Quorum
      <3>7. Vote("Com", p, g) = x /\ Vote("Com", q, h) = x
        BY Zenon, <1>4, <3>2, <3>6
      <3> QED
        BY <3>7, VoteFields
    <2> QED
      BY Zenon, <2>1, <2>2
  <1>5. \A n \in Members :
          /\ (\E a \in votes'[n] : a.type = "Com" /\ a.hash = NULL) =>
                \E p \in Periods' : Vote("PreCom", p, NULL) \in Quorums'
          /\ output'[n] = NULL => \E p \in Periods' : Vote("Com", p, NULL) \in Quorums'
    BY Zenon, <1>0, <1>2, <1>3
  <1>6. "Com" \notin setting'.late =>
          \A p, q \in Periods', g, h \in Values :
            Vote("Com", p, g) \in Quorums' /\ Vote("Com", q, h) \in Quorums' => g = h
    <2>1. "Com" \notin setting.late =>
            \A p, q \in Periods, g, h \in Values :
              Vote("Com", p, g) \in Quorums' /\ Vote("Com", q, h) \in Quorums' => g = h
      BY Zenon, <1>4
    <2> QED
      BY Zenon, <1>0, <2>1
  <1> QED
    BY Zenon, <1>5, <1>6 DEF EmptySafe, Quorum, Vote

-----------------------------------------------------------------------------
(* Theorems *)

LEMMA InitIInv ==
    ASSUME Init PROVE IInv
  <1>1. TypeOK
    BY Zenon, InitType
  <1>2. Quorums = {}
    <2> SUFFICES ASSUME NEW v \in Quorums PROVE FALSE
      BY Zenon
    <2>1. PICK m \in Members : v \in votes[m]
      BY Zenon, QuorumVoter
    <2> QED
      BY Zenon, <2>1 DEF Init
  <1>3. NoForkVote /\ VotedSoFar
    BY Zenon DEF Init, NoForkVote, VotedSoFar, MemberVoted
  <1>4. LockBacked /\ ComSafe
    BY Zenon DEF Init, LockBacked, ComSafe
  <1>5. FastSafe
    BY Zenon, <1>2 DEF Init, FastSafe, OtherLock, HasFastCom, Quorum
  <1>6. OutputBacked
    BY Zenon, AgreementAssumption DEF Init, OutputBacked
  <1>7. EmptySafe
    BY Zenon, <1>2, AgreementAssumption DEF Init, EmptySafe, Quorum
  <1> QED
    BY Zenon, <1>1, <1>3, <1>4, <1>5, <1>6, <1>7 DEF IInv

LEMMA NextIInv ==
    ASSUME IInv, [Next]_vars PROVE IInv'
  <1>1. CASE UNCHANGED vars
    <2>1. Quorums' = Quorums /\ Periods' = Periods
      BY Zenon, <1>1, QuorumsSame DEF vars, Periods
    <2>2. TypeOK'
      BY ZenonT(20), <1>1, <2>1 DEF IInv, TypeOK, vars, data
    <2>3. NoForkVote' /\ VotedSoFar'
      BY ZenonT(60), <1>1 DEF IInv, NoForkVote, VotedSoFar, MemberVoted, vars, data
    <2>4. LockBacked' /\ OutputBacked'
      BY Zenon, <1>1, <2>1 DEF IInv, LockBacked, OutputBacked, Quorum, Vote, vars, data
    <2>5. FastSafe'
      BY ZenonT(20), <1>1, <2>1 DEF IInv, FastSafe, OtherLock, HasFastCom, Quorum,
             Vote, vars, data
    <2>6. ComSafe'
      BY SMTT(30), <1>1, <2>1 DEF IInv, ComSafe, Prompt, Running, Quorum,
             Vote, vars, data
    <2>7. EmptySafe'
      BY <1>1, <2>1 DEF IInv, EmptySafe, Quorum, Vote, vars
    <2> QED
      BY Zenon, <2>2, <2>3, <2>4, <2>5, <2>6, <2>7 DEF IInv
  <1>2. ASSUME NEW m \in Members, Step(m) PROVE IInv'
    <2>0. /\ TypeOK /\ NoForkVote /\ VotedSoFar /\ LockBacked /\ FastSafe
          /\ ComSafe /\ OutputBacked /\ EmptySafe
      BY Zenon DEF IInv
    <2>1. TypeOK'
      BY Zenon, <1>2, <2>0, TypeStep DEF Step
    <2>2. Local(m) /\ (AddsNone(m) \/ \E x : Adds(m, x))
      BY Zenon, <1>2, <2>0, StepLocal, StepForms
    <2>3. VotedSoFar' /\ NoForkVote'
      BY Zenon, <2>0, <2>1, <2>2, VotedSoFarStep, NoForkVoteStep
    <2>4. LockBacked' /\ OutputBacked'
      BY Zenon, <2>0, <2>2, LockBackedStep, OutputBackedStep
    <2>5. FastSafe'
      BY Zenon, <2>0, <2>2, <2>3, FastSafeOther, FastSafeNew, FastSafeKeep
    <2>6. ComSafe'
      BY Zenon, <2>0, <2>2, ComSafeStep
    <2>7. EmptySafe'
      BY ZenonT(30), <2>0, <2>2, EmptySafeStep
    <2> QED
      BY Zenon, <2>1, <2>3, <2>4, <2>5, <2>6, <2>7 DEF IInv
  <1> QED
    BY Zenon, <1>1, <1>2 DEF Next, Step

(* A lock on anything else leaves no quorum of FastCom votes.              *)
LEMMA FastComLocks ==
    ASSUME FastSafe, NEW f, Quorum("FastCom", 2, f)
    PROVE  ~OtherLock
  <1> SUFFICES ASSUME OtherLock PROVE FALSE
    BY Zenon
  <1>1. PICK R \in SUBSET Members :
            /\ Cardinality(R) >= requiredVote
            /\ \A k \in R : state[k] # "FastVote" /\ ~HasFastCom(k)
    BY Zenon DEF FastSafe
  <1>2. PICK S \in SUBSET Members :
            /\ Cardinality(S) >= requiredVote
            /\ \A k \in S : Vote("FastCom", 2, f) \in votes[k]
    BY Zenon, QuorumVoters DEF Quorum
  <1>3. PICK k \in Members : k \in R /\ k \in S
    BY Zenon, <1>1, <1>2, Intersect
  <1> QED
    BY <1>1, <1>2, <1>3, VoteFields DEF HasFastCom

(* What has a quorum of Com votes is the leader's block, if that has a     *)
(* quorum of FastCom votes.                                                *)
LEMMA FastComDecides ==
    ASSUME IInv, NEW f \in Hashes, Quorum("FastCom", 2, f),
           NEW p \in Periods, NEW h \in Values, Quorum("Com", p, h)
    PROVE  f = h
  <1>0. VotedSoFar /\ FastSafe /\ ComSafe /\ EmptySafe
    BY Zenon DEF IInv
  <1>1. f = setting.leaderBlock
    BY <1>0, FastLeader, VoteFields DEF Quorum
  <1>2. ~OtherLock
    BY Zenon, <1>0, FastComLocks
  <1>3. PICK k \in Members : Vote("Com", p, h) \in votes[k]
    BY Zenon, QuorumVoter DEF Quorum
  <1>4. Quorum("Fast", 2, h) \/ \E q \in Periods : Quorum("PreCom", q, h)
    <2>1. CASE h \in Blocks
      BY SMTT(30), <1>0, <1>3, <2>1, VoteFields DEF ComSafe
    <2>2. CASE h = NULL
      BY <1>0, <1>3, <2>2, VoteFields DEF EmptySafe
    <2> QED
      BY ZenonT(30), <2>1, <2>2 DEF Values
  <1>5. Quorum("Fast", 2, h) => h = setting.leaderBlock
    BY <1>0, FastLeader, VoteFields DEF Quorum
  <1> QED
    BY Zenon, <1>1, <1>2, <1>4, <1>5 DEF OtherLock

(* The leader's block alone has a quorum of FastCom votes.                 *)
LEMMA FastComOne ==
    ASSUME IInv, NEW f, NEW g, Quorum("FastCom", 2, f), Quorum("FastCom", 2, g)
    PROVE  f = g
  BY FastLeader, VoteFields DEF Quorum, IInv

LEMMA AgreementFromIInv ==
    ASSUME IInv PROVE BlockAgreement
  <1>0. ComSafe /\ OutputBacked
    BY Zenon DEF IInv
  <1> SUFFICES ASSUME Prompt, NEW m \in Members, NEW n \in Members,
                      output[m] \in Blocks, output[n] \in Blocks
               PROVE  output[m] = output[n]
    BY ZenonT(30) DEF BlockAgreement
  <1>1. ASSUME NEW p \in Periods, NEW h \in Blocks, Quorum("Com", p, h),
               NEW q \in Periods, NEW g \in Blocks, Quorum("Com", q, g)
        PROVE  h = g
    <2>1. PICK k \in Members : Vote("Com", p, h) \in votes[k]
      BY Zenon, <1>1, QuorumVoter DEF Quorum
    <2>2. PICK l \in Members : Vote("Com", q, g) \in votes[l]
      BY Zenon, <1>1, QuorumVoter DEF Quorum
    <2> QED
      BY SMTT(30), <1>0, <2>1, <2>2, VoteFields DEF ComSafe
  <1>2. Blocks \subseteq Hashes /\ Blocks \subseteq Values
    BY Zenon DEF Hashes, Values
  <1> QED
    BY Zenon, <1>0, <1>1, <1>2, FastComOne, FastComDecides DEF OutputBacked

LEMMA EmptyFromIInv ==
    ASSUME IInv PROVE EmptyAgreement
  <1>0. TypeOK /\ OutputBacked /\ EmptySafe
    BY Zenon DEF IInv
  <1> SUFFICES ASSUME "Com" \notin setting.late, NEW m \in Members, NEW n \in Members,
                      output[m] # None, output[n] # None
               PROVE  output[m] = output[n]
    BY Zenon DEF EmptyAgreement, OneOutput
  <1>1. Blocks \subseteq Hashes /\ Blocks \subseteq Values
    BY Zenon DEF Hashes, Values
  <1>2. \A k \in Members : output[k] # None =>
          /\ output[k] \in Values
          /\ \/ output[k] \in Hashes /\ Quorum("FastCom", 2, output[k])
             \/ \E p \in Periods : Quorum("Com", p, output[k])
    <2> SUFFICES ASSUME NEW k \in Members, output[k] # None
                 PROVE  /\ output[k] \in Values
                        /\ \/ output[k] \in Hashes /\ Quorum("FastCom", 2, output[k])
                           \/ \E p \in Periods : Quorum("Com", p, output[k])
      BY ZenonT(20)
    <2>1. output[k] \in Hashes /\ output[k] # SKIP
      BY Zenon, <1>0 DEF TypeOK, OutputBacked
    <2>2. CASE output[k] = NULL
      BY Zenon, <1>0, <2>2 DEF EmptySafe, Values
    <2>3. CASE output[k] \in Blocks
      BY Zenon, <1>0, <1>1, <2>3 DEF OutputBacked
    <2> QED
      BY Zenon, <2>1, <2>2, <2>3 DEF Hashes
  <1>3. \A p, q \in Periods, g, h \in Values :
          Quorum("Com", p, g) /\ Quorum("Com", q, h) => g = h
    BY Zenon, <1>0 DEF EmptySafe
  <1> QED
    BY Zenon, <1>2, <1>3, FastComOne, FastComDecides

(* The invariant holds in every reachable state, for every notary set,     *)
(* every bound and whatever votes are late.                                *)
THEOREM Invariance == Spec => []IInv
  BY InitIInv, NextIInv, PTL DEF Spec

(* No member of a notary set ever contradicts itself: a member that counts,*)
(* locks and votes as processVote and nextState do is never fined for two  *)
(* votes of one type and period.                                           *)
THEOREM NeverFined == Spec => []NoForkVote
  <1>1. IInv => NoForkVote
    BY Zenon DEF IInv
  <1> QED
    BY <1>1, Invariance, PTL

(* Two members never confirm different blocks, if the votes that lock are  *)
(* in time; whatever the number of members, of periods and of crashes.     *)
THEOREM Safety == Spec => []BlockAgreement
  BY AgreementFromIInv, Invariance, PTL

(* Nor does one confirm the empty block and another a block, if the Com    *)
(* votes are in time: a quorum of them stops every ticker, and with it     *)
(* every further Com vote, until all have heard of it.                     *)
THEOREM NoEmptyFork == Spec => []EmptyAgreement
  BY EmptyFromIInv, Invariance, PTL

(* The agreement implements OneBlock, if the votes that lock are in time.  *)
THEOREM Implements == Spec /\ Prompt => Refines
  <1>1. Init => Promise!Init
    BY Zenon DEF Init, Promise!Init
  <1>2. ASSUME IInv, IInv', Prompt, BlockAgreement', [Next]_vars
        PROVE  [Promise!Next]_output
    <2>1. CASE output' = output
      BY Zenon, <2>1
    <2>2. CASE output' # output
      <3>1. PICK m \in Members : Step(m)
        BY ZenonT(20), <1>2, <2>2 DEF Next, Step, vars
      <3>2. Local(m) /\ AddsNone(m) /\ output[m] = None
        BY ZenonT(30), <1>2, <2>2, <3>1, StepLocal, StepForms DEF IInv, AddsNone, Adds
      <3> DEFINE h == output'[m]
      <3>3. output' = [output EXCEPT ![m] = h]
        BY ZenonT(30), <1>2, <3>2 DEF IInv, TypeOK, Local
      <3>4. h \in Blocks \cup {NULL}
        <4>1. h # None
          BY ZenonT(30), <2>2, <3>2, <3>3, <1>2 DEF IInv, TypeOK
        <4>2. h \in Hashes \cup {None} /\ h # SKIP
          BY Zenon, <1>2 DEF IInv, TypeOK, OutputBacked
        <4> QED
          BY Zenon, <4>1, <4>2 DEF Hashes
      <3>5. ASSUME h \in Blocks, NEW n \in Members, output[n] \in Blocks
            PROVE  output[n] = h
        <4>1. Prompt' /\ n # m /\ output'[n] = output[n]
          BY Zenon, <1>2, <3>2, <3>5, AgreementAssumption DEF Prompt, Local
        <4> QED
          BY ZenonT(20), <1>2, <3>5, <4>1 DEF BlockAgreement
      <3>6. Promise!Confirm(m, h)
        BY Zenon, <3>2, <3>3, <3>5 DEF Promise!Confirm
      <3> QED
        BY Zenon, <3>4, <3>6 DEF Promise!Next
    <2> QED
      BY Zenon, <2>1, <2>2
  <1>3. ASSUME IInv, Prompt, [Next]_vars PROVE Prompt'
    <2>1. setting' = setting
      <3>1. ASSUME NEW m \in Members, Step(m) PROVE setting' = setting
        BY Zenon, <1>3, <3>1, StepLocal DEF IInv, Local
      <3> QED
        BY ZenonT(20), <1>3, <3>1 DEF Next, Step, vars
    <2> QED
      BY Zenon, <1>3, <2>1 DEF Prompt
  <1> QED
    BY <1>1, <1>2, <1>3, Invariance, Safety, PTL DEF Spec, Refines, Promise!Spec
=============================================================================
